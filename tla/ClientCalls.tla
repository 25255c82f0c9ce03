----------------------------- MODULE ClientCalls -----------------------------
(***************************************************************************)
(* Calls of client applications on the records of one model class:         *)
(* FabricClientRepository and FabricClientAdapter on the client's side,    *)
(* FabricCrudContract (with its Serialized variant) and                    *)
(* FabricContractRepository on the peer's, FabricLedger between them.      *)
(*                                                                         *)
(* A write is not one step.  The client may read the records before it     *)
(* submits (delete), submits, waits for the commit status with a deadline, *)
(* and may read the records again (create, update), because the contract   *)
(* answers with their public part only.  Other clients run in between.     *)
(*                                                                         *)
(* Abstractions: a record is the number of the call that wrote it; a class *)
(* with private attributes is given a value for them by every create and   *)
(* update; a record's parts live under one key (SegregatedStore has them). *)
(* The gateway, the orderer and the peers are external.                    *)
(***************************************************************************)
EXTENDS Integers, Sequences, SequencesExt, FiniteSets

CONSTANTS
    Clients, Ids,
    Setups,     \* the pairs of a model class and a configuration, as in the variables
    Singles,    \* bound: the ids single calls are made on,
    Bulks,      \*        the sets of ids bulk calls are made on,
    MaxCalls,   \*        and the calls made in a behaviour
    Txs, Absent, NoProposal, NoCall, NoEvent

Keys == Ids

\* The lists of records and of calls are finite; a class has a public part, a
\* private part or both.
ASSUME CallsAssumption ==
    /\ IsFiniteSet(Ids)
    /\ Singles \subseteq Ids
    /\ Bulks \subseteq SUBSET Ids
    /\ MaxCalls \in Nat
    /\ Absent \notin Nat
    /\ NoCall \notin [op : {"create", "update", "delete", "migrate"}, bulk : BOOLEAN,
                      ids : SUBSET Ids, by : Clients, number : Nat]
    /\ \A setup \in Setups : setup[1] \in {"public", "mixed", "segregated"}

VARIABLES
    world, phase, proposal, \* of FabricLedger
    shape,      \* the model class: "public", "mixed" or "segregated"
    settings,   \* [synthetic, override, observed, mirror, submission, migrates]: mirror
                \* is "none", or whether the mirror's organisation is "mapped" to a peer or
                \* "unmapped"; submission is the gateway the class asks for, or "none"
    issued,     \* calls made so far; the number of a call is its identity
    client,     \* per client: [pc, call, result, error]
    sent,       \* per slot: the transaction in it: [call, answer, event, valid]
    chain       \* the transactions in the blocks so far

ledger == <<world, phase, proposal>>
callVars == <<ledger, shape, settings, issued, client, sent, chain>>

Ledger == INSTANCE FabricLedger

-----------------------------------------------------------------------------
\* The contract.

Present(id) == world[id] # Absent

IsTransient == shape # "public"

\* What a reader of a record is given, and what the contract answers with:
\* the same without the private attributes.
Whole(id) == [number |-> world[id], whole |-> TRUE]
PublicPart(number) == [number |-> number, whole |-> ~IsTransient]

\* A record that is not there.
Missing(ids) == IF \E id \in ids : ~Present(id) THEN {"NotFound"} ELSE {}

\* What the contract does for one record: the keys it reads, what it puts,
\* what it answers with and its error, if any.  The search for an existing
\* record is in the public state only: a class without public attributes is
\* created over.
CreateOne(number, id) ==
    [reads  |-> IF shape = "segregated" THEN {} ELSE {id},
     put    |-> number,
     answer |-> PublicPart(number),
     error  |-> IF shape # "segregated" /\ Present(id) THEN {"Conflict"} ELSE {}]

UpdateOne(number, id) ==
    [reads |-> {id}, put |-> number, answer |-> PublicPart(number),
     error |-> Missing({id})]

\* Mutant of DeleteOne: the record is deleted without being read.
DeleteOneBlind(id) ==
    [reads |-> {}, put |-> Absent, answer |-> PublicPart(world[id]),
     error |-> Missing({id})]

DeleteOne(id) ==
    [reads |-> {id}, put |-> Absent, answer |-> PublicPart(world[id]),
     error |-> Missing({id})]

\* A migration is application code that rewrites records, here every one there
\* is.  That it has run is recorded nowhere.
MigrateOne(number, id) ==
    [reads |-> {id}, put |-> IF Present(id) THEN number ELSE Absent,
     answer |-> PublicPart(number), error |-> {}]

\* A bulk operation is the single one for every record.
Each(call) ==
    [id \in call.ids |->
        CASE call.op = "create" -> CreateOne(call.number, id)
          [] call.op = "update" -> UpdateOne(call.number, id)
          [] call.op = "delete" -> DeleteOne(id)
          [] call.op = "migrate" -> MigrateOne(call.number, id)]

\* It is one transaction, and fails if it fails for any record.
Execute(call) ==
    LET each == Each(call)
    IN  [reads  |-> UNION {each[id].reads : id \in call.ids},
         writes |-> [id \in call.ids |-> each[id].put],
         answer |-> [id \in call.ids |-> each[id].answer],
         error  |-> UNION {each[id].error : id \in call.ids}]

\* Mutant of Emissions: a bulk operation emits for the single records only.
EmissionsOfSingles(call) ==
    [i \in DOMAIN SetToSeq(call.ids) |-> {SetToSeq(call.ids)[i]}]

\* The proxies of FabricContractDispatch: a bulk operation runs the single
\* operation for each record, which emits, and then emits for all of them.
Emissions(call) ==
    LET ids == SetToSeq(call.ids)
        singles == [i \in DOMAIN ids |-> {ids[i]}]
    IN  IF call.bulk THEN Append(singles, call.ids) ELSE singles

\* Nothing is emitted for a fully segregated class, nor by a repository that
\* nobody observes.
Silent == shape = "segregated" \/ ~settings.observed

\* A transaction has one event: setEvent replaces what was set before.  What a
\* migration may emit is left out.
EventOf(call) ==
    IF Silent \/ call.op = "migrate" THEN NoEvent ELSE Last(Emissions(call))

-----------------------------------------------------------------------------
\* The client adapter: one action for the start of each operation.

\* The record without its private attributes is not enough for the caller.
\* createAll and updateAll pass an array of transient parts, which counts as
\* transient data even if all parts are empty.
NeedsFullPayload(op, bulk) ==
    settings.override \/ IsTransient \/ (bulk /\ op # "delete")

Idle == [pc |-> "idle", call |-> NoCall, result |-> <<>>, error |-> "none"]

Begin(c, op, bulk, ids, pc) ==
    /\ client[c].pc = "idle"
    /\ issued < MaxCalls
    /\ issued' = issued + 1
    /\ client' = [client EXCEPT ![c] =
            [Idle EXCEPT !.pc = pc,
                         !.call = [op |-> op, bulk |-> bulk, ids |-> ids,
                                   by |-> c, number |-> issued']]]
    /\ UNCHANGED <<ledger, shape, settings, sent, chain>>

Create(c, id) == Begin(c, "create", FALSE, {id}, "submit")
CreateAll(c, ids) == Begin(c, "create", TRUE, ids, "submit")
Update(c, id) == Begin(c, "update", FALSE, {id}, "submit")
UpdateAll(c, ids) == Begin(c, "update", TRUE, ids, "submit")

\* A delete reads the records it will answer with before it submits.
Delete(c, id) ==
    Begin(c, "delete", FALSE, {id},
          IF NeedsFullPayload("delete", FALSE) THEN "hydrate" ELSE "submit")
DeleteAll(c, ids) ==
    Begin(c, "delete", TRUE, ids,
          IF NeedsFullPayload("delete", TRUE) THEN "hydrate" ELSE "submit")

\* An operator's call; all of the migration's steps are one transaction.
Migrate(c) == settings.migrates /\ Begin(c, "migrate", FALSE, Ids, "submit")

\* The class of the error, found in its text by parseError.  The text of a
\* timeout of the legacy library is its own.
ErrorClass ==
    [Conflict |-> "ConflictError", NotFound |-> "NotFoundError",
     Migration |-> "MigrationError", Unmapped |-> "UnsupportedError",
     MVCC_READ_CONFLICT |-> "MvccReadConflictError",
     DEADLINE_EXCEEDED |-> "TransactionTimeoutError", Other |-> "InternalError"]

Fail(c, cause) ==
    client' = [client EXCEPT ![c].pc = "idle", ![c].error = ErrorClass[cause],
                             ![c].result = <<>>]

Finish(c, result) == client' = [client EXCEPT ![c].pc = "idle", ![c].result = result]

\* The client evaluates a read of all the records, by itself a transaction
\* that is not ordered: what was read may change right after.
ReadBefore(c) ==
    LET call == client[c].call
    IN  /\ client[c].pc = "hydrate"
        /\ IF Missing(call.ids) # {}
           THEN Fail(c, "NotFound")
           ELSE client' = [client EXCEPT ![c].pc = "submit",
                               ![c].result = [id \in call.ids |-> Whole(id)]]
        /\ UNCHANGED <<ledger, shape, settings, issued, sent, chain>>

\* The proposal is endorsed, or refused with the contract's error, and sent
\* to the orderer.
Propose(c, t) ==
    LET call == client[c].call
        tx == Execute(call)
    IN  /\ phase[t] = "idle"
        /\ t = CHOOSE u \in Txs : phase[u] = "idle"
        /\ IF tx.error # {}
           THEN /\ \E cause \in tx.error : Fail(c, cause)
                /\ UNCHANGED <<ledger, sent>>
           ELSE /\ client' = [client EXCEPT ![c].pc = "ordered"]
                /\ Ledger!Endorse(t, call.number, tx.reads, tx.writes)
                /\ sent' = [sent EXCEPT ![t] =
                        [call |-> call, answer |-> tx.answer,
                         event |-> EventOf(call), valid |-> FALSE]]

\* The gateway asked for by the metadata of the class.  A migration is a call of
\* a contract, not of a class.
SubmissionOf(op) == IF op = "migrate" THEN "none" ELSE settings.submission

\* Without such metadata, a mirrored class asks for the legacy gateway on every
\* create and update, and gets it if the configuration allows the override.  A
\* delete goes through the normal one.
IsLegacy(op) ==
    \/ SubmissionOf(op) = "legacy"
    \/ /\ SubmissionOf(op) = "none"
       /\ settings.override
       /\ settings.mirror # "none"
       /\ op \in {"create", "update"}

Submit(c, t) ==
    /\ client[c].pc = "submit"
    /\ ~IsLegacy(client[c].call.op)
    /\ Propose(c, t)
    /\ UNCHANGED <<shape, settings, issued, chain>>

\* The organisations that have to endorse: the mirror's, besides the client's
\* own, except for a delete; each needs a peer in the configuration.
HasLegacyPeers(op) == settings.mirror # "unmapped" \/ op = "delete"

SubmitLegacy(c, t) ==
    /\ client[c].pc = "submit"
    /\ IsLegacy(client[c].call.op)
    /\ IF HasLegacyPeers(client[c].call.op)
       THEN Propose(c, t)
       ELSE Fail(c, "Unmapped") /\ UNCHANGED <<ledger, sent>>
    /\ UNCHANGED <<shape, settings, issued, chain>>

\* No migration of this flavour has the reference, or one of its steps throws:
\* nothing is endorsed.
MigrationFails(c) ==
    /\ client[c].pc = "submit"
    /\ client[c].call.op = "migrate"
    /\ Fail(c, "Migration") \/ Fail(c, "Other")
    /\ UNCHANGED <<ledger, shape, settings, issued, sent, chain>>

\* Mutant of Deadline: there is no deadline on the commit status.
DeadlineBeforeCommit(c) ==
    /\ client[c].pc \in {"hydrate", "submit", "refresh"}
    /\ Fail(c, "DEADLINE_EXCEEDED")
    /\ UNCHANGED <<ledger, shape, settings, issued, sent, chain>>

\* Every step of a call has a deadline: evaluate, endorse, submit and commit
\* status; the legacy library has its own.  The transaction of a call that
\* gave up may still be committed.
Deadline(c) ==
    /\ client[c].pc \in {"hydrate", "submit", "ordered", "refresh"}
    /\ \/ Fail(c, "DEADLINE_EXCEEDED")
       \/ /\ client[c].pc \in {"submit", "ordered"}
          /\ IsLegacy(client[c].call.op)
          /\ Fail(c, "Other")
    /\ UNCHANGED <<ledger, shape, settings, issued, sent, chain>>

\* The entry of a call in the chain.
EntriesOf(call) == {n \in DOMAIN chain : chain[n].call = call}

\* Mutant of RefreshAfter: only a bulk operation is followed by a read.
RefreshBulk(call) == call.op \in {"create", "update"} /\ call.bulk

\* Mutant of RefreshAfter: after a delete, too.
RefreshAlways(call) == call.op # "migrate" /\ NeedsFullPayload(call.op, call.bulk)

\* After a create or an update the caller is given what a read returns.
RefreshAfter(call) ==
    call.op \in {"create", "update"} /\ NeedsFullPayload(call.op, call.bulk)

\* Mutant of Receive: the answer to the proposal is not held back until the
\* transaction is committed.
ReceiveAtOnce(c) ==
    LET call == client[c].call
    IN  /\ client[c].pc = "ordered"
        /\ IF RefreshAfter(call)
           THEN client' = [client EXCEPT ![c].pc = "refresh"]
           ELSE Finish(c, [id \in call.ids |-> PublicPart(call.number)])
        /\ UNCHANGED <<ledger, shape, settings, issued, sent, chain>>

\* The commit status arrives.
Receive(c) ==
    LET call == client[c].call
    IN  /\ client[c].pc = "ordered"
        /\ \E n \in EntriesOf(call) :
              IF ~chain[n].valid THEN Fail(c, "MVCC_READ_CONFLICT")
              ELSE IF RefreshAfter(call)
              THEN client' = [client EXCEPT ![c].pc = "refresh"]
              ELSE Finish(c, IF client[c].result # <<>> THEN client[c].result
                             ELSE chain[n].answer)
        /\ UNCHANGED <<ledger, shape, settings, issued, sent, chain>>

\* The records are read again; by now they may be another call's or gone.
ReadAfter(c) ==
    LET call == client[c].call
    IN  /\ client[c].pc = "refresh"
        /\ IF Missing(call.ids) # {}
           THEN Fail(c, "NotFound")
           ELSE Finish(c, [id \in call.ids |-> Whole(id)])
        /\ UNCHANGED <<ledger, shape, settings, issued, sent, chain>>

-----------------------------------------------------------------------------
\* The ledger.

\* The transaction is in a block and valid: its writes and its event count.
Commit(t) ==
    /\ Ledger!CommitValid(t)
    /\ chain' = Append(chain, [sent[t] EXCEPT !.valid = TRUE])
    /\ UNCHANGED <<shape, settings, issued, client, sent>>

\* It is in a block and invalid: a key it read was written in between.
Reject(t) ==
    /\ Ledger!CommitInvalid(t)
    /\ chain' = Append(chain, sent[t])
    /\ UNCHANGED <<shape, settings, issued, client, sent>>

\* It never reaches a block; the client that waits for it runs into its
\* deadline.
Lose(t) ==
    /\ Ledger!Abandon(t)
    /\ UNCHANGED <<shape, settings, issued, client, sent, chain>>

Settle(t) == Commit(t) \/ Reject(t) \/ Lose(t)

-----------------------------------------------------------------------------
\* The table is empty or has all the records, written before the behaviour
\* starts (call number 0).
CallsInit ==
    /\ \E before \in {Absent, 0} : world = [id \in Ids |-> before]
    /\ phase = [t \in Txs |-> "idle"]
    /\ proposal = [t \in Txs |-> NoProposal]
    /\ \E setup \in Setups : shape = setup[1] /\ settings = setup[2]
    /\ issued = 0
    /\ client = [c \in Clients |-> Idle]
    /\ sent = [t \in Txs |-> NoCall]
    /\ chain = <<>>

Start(c) ==
    \/ \E id \in Singles : Create(c, id) \/ Update(c, id) \/ Delete(c, id)
    \/ \E ids \in Bulks :
          CreateAll(c, ids) \/ UpdateAll(c, ids) \/ DeleteAll(c, ids)
    \/ Migrate(c)

-----------------------------------------------------------------------------
\* Properties.

Committed(call) == \E n \in EntriesOf(call) : chain[n].valid

CallsTypeOK ==
    /\ phase \in [Txs -> Ledger!Phases]
    /\ world \in [Ids -> 0..MaxCalls \cup {Absent}]
    /\ issued \in 0..MaxCalls
    /\ \A c \in Clients :
          /\ client[c].pc \in {"idle", "hydrate", "submit", "ordered", "refresh"}
          /\ client[c].error \in {"none"} \cup {ErrorClass[e] : e \in DOMAIN ErrorClass}
          /\ client[c].pc # "idle" => client[c].call.by = c

Returned(c) == client[c].pc = "idle" /\ client[c].call # NoCall
Succeeded(c) == Returned(c) /\ client[c].error = "none"

\* A call returns without an error only if it was committed.
SuccessIsCommitted == \A c \in Clients : Succeeded(c) => Committed(client[c].call)

\* The place in the chain of a committed call.
PlaceOf(number) ==
    IF number = 0 THEN 0
    ELSE CHOOSE n \in DOMAIN chain : chain[n].call.number = number

\* A create or an update returns whole records, and those it wrote itself or
\* that a call wrote which was committed later: nobody is shown a state without
\* his own write.
ReturnsOwnOrLater ==
    \A c \in Clients : Succeeded(c) /\ client[c].call.op \in {"create", "update"} =>
        \A id \in client[c].call.ids :
            /\ client[c].result[id].whole
            /\ PlaceOf(client[c].result[id].number) >= PlaceOf(client[c].call.number)

\* A refusal (ConflictError, NotFoundError, MvccReadConflictError and those of
\* a migration or a missing peer) tells the caller that nothing was written,
\* with one exception: the NotFoundError of the read after a write that was
\* committed and deleted again by now.  A timeout, or an error without a class
\* of its own, tells nothing.
RefusalIsHonest ==
    \A c \in Clients :
        /\ Returned(c) /\ client[c].error # "none"
        /\ client[c].error \notin {"TransactionTimeoutError", "InternalError"}
        /\ Committed(client[c].call)
        => /\ client[c].error = "NotFoundError"
           /\ \E n \in DOMAIN chain :
                 /\ chain[n].valid /\ chain[n].call.op = "delete"
                 /\ n > PlaceOf(client[c].call.number)
                 /\ chain[n].call.ids \cap client[c].call.ids # {}

\* A delete that did not read the records beforehand answers with exactly the
\* records it removes.
DeleteAnswersDeleted ==
    [][\A t \in Txs :
        LET call == sent[t].call
        IN  /\ phase[t] = "endorsed" /\ Len(chain') > Len(chain)
            /\ phase'[t] = "idle" /\ call.op = "delete"
            => \A id \in call.ids : sent[t].answer[id].number = world[id]]_callVars

\* Every call returns, whatever becomes of its transaction.
CallsReturn == \A c \in Clients : client[c].pc # "idle" ~> client[c].pc = "idle"
=============================================================================
