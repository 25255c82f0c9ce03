--------------------------- MODULE ContractSequence ---------------------------
(***************************************************************************)
(* FabricContractSequence (src/contracts/FabricContractSequence.ts): one   *)
(* sequence, from which concurrent transactions generate values.  A        *)
(* transaction may use it several times.  While it executes it reads the   *)
(* committed state only, so that the value it left for itself is in a      *)
(* cache of its context; its writes take effect at commit.                 *)
(*                                                                         *)
(* The record is public, public and replicated to the collections of the   *)
(* model, or in the collections only, depending on the decorators of the   *)
(* model (getSequenceSegregation).  The sequence works in a context of its *)
(* own that has lost the read collections of the model's (comment in       *)
(* replicateToSegregatedCollections), so repo.read sees the public record  *)
(* only, and the collections are read by current alone.                    *)
(*                                                                         *)
(* A peer may refuse a read or a write of a collection, depending on which *)
(* organisations are members of it.  The code goes on in both cases: a     *)
(* collection that cannot be read is passed over, one that cannot be       *)
(* written is left as it is.  An error of the public state is thrown.      *)
(*                                                                         *)
(* No block is committed while a peer executes a transaction, hence one    *)
(* session at a time loses no behaviour.                                   *)
(***************************************************************************)
EXTENDS Integers, Sequences, SequencesExt

CONSTANTS
    Public,         \* key of the public record
    Collections,    \* private collections, a sequence in the order they are tried
    StartWith, IncrementBy,     \* options of the sequence
    Counts,         \* the counts callers pass to increment
    Floors,         \* the values callers pass to ensureAtLeast
    MaxValue,       \* bound: no session issues values above
    MixedUse,       \* whether ensureAtLeast may be used in any session
    Failing,        \* the collections whose reads and writes may be refused
    Txs, Absent, NoProposal, NoSession

Keys == {Public} \cup Range(Collections)

\* A model without collections has a public sequence (the segregation of a
\* sequence counts only when collections.length > 0); the sessions ask for
\* counts above 0 (increment takes incrementBy for a missing or zero count).
ASSUME SequenceAssumption ==
    /\ Collections \in Seq(Range(Collections)) \ {<<>>}
    /\ Public \notin Range(Collections)
    /\ StartWith \in Nat
    /\ IncrementBy \in Nat \ {0}
    /\ Counts \subseteq Nat \ {0}
    /\ MaxValue \in Nat
    /\ Floors \subseteq 0..MaxValue
    /\ Failing \subseteq Range(Collections)
    /\ Absent \notin Int

VARIABLES
    world, phase, proposal,     \* of FabricLedger; records are their current value
    mode,       \* where the record is: "public", "replicated" or "private"
    session,    \* the transaction that is executing, or NoSession
    high,       \* history: highest value a committed transaction issued or ensured,
    lagging,    \*          collections that missed what a transaction wrote last,
    faulted     \*          whether a private sequence has been read blindly or
                \*          written in part by a committed transaction

history == <<high, lagging, faulted>>
vars == <<world, phase, proposal, mode, session, history>>

Ledger == INSTANCE FabricLedger

\* A session is blind if none of the collections let it read the record.
NewSession(t) ==
    [slot |-> t, cache |-> Absent, reads |-> {}, writes |-> <<>>,
     issued |-> <<>>, ensured |-> {}, missed |-> {}, blind |-> FALSE]

Init ==
    /\ Ledger!Init
    /\ mode \in {"public", "replicated", "private"}
    /\ session = NoSession
    /\ high = Absent
    /\ lagging = {}
    /\ faulted = FALSE

-----------------------------------------------------------------------------
\* The keys the value is written to.

\* Mutant of Targets: the private-only branch does not return.
TargetsFallThrough ==
    IF mode = "public" THEN {Public} ELSE Keys

Targets ==
    CASE mode = "public" -> {Public}
      [] mode = "replicated" -> Keys
      [] mode = "private" -> Range(Collections)

\* The collections whose requests fail in one call.
Refusals == IF mode = "public" THEN {{}} ELSE SUBSET Failing

\* The collections that are read: up to the first one with a record, without
\* those that refuse.
TriedCollections(refused) ==
    {Collections[i] : i \in {j \in DOMAIN Collections :
                        \A h \in 1..(j - 1) : \/ Collections[h] \in refused
                                             \/ world[Collections[h]] = Absent}} \ refused

\* current: the cached value, the public record, the first collection that
\* has one, or startWith; and the keys that were read to find it.
Found(refused) ==
    LET found == {k \in {Public} \cup TriedCollections(refused) : world[k] # Absent}
    IN  IF world[Public] # Absent THEN world[Public]
        ELSE IF found = {} THEN Absent ELSE world[CHOOSE k \in found : TRUE]

Stored == Found({})

\* Mutant of Current: the cache is not consulted.
CurrentUncached(refused) == IF Found(refused) # Absent THEN Found(refused) ELSE StartWith

Current(refused) ==
    IF session.cache # Absent THEN session.cache
    ELSE IF Found(refused) # Absent THEN Found(refused) ELSE StartWith

CurrentReads(refused) ==
    IF session.cache # Absent THEN {}
    ELSE IF mode = "public" \/ world[Public] # Absent THEN {Public}
    ELSE {Public} \cup TriedCollections(refused)

ReadsBlindly(refused) ==
    /\ session.cache = Absent /\ mode # "public" /\ world[Public] = Absent
    /\ Range(Collections) \subseteq refused

\* The session's writes with v written to every key of ks.
Written(ks, v) ==
    [k \in ks \cup DOMAIN session.writes |->
        IF k \in ks THEN v ELSE session.writes[k]]

\* An update reads the public record first.
UpsertReads == Targets \cap {Public}

-----------------------------------------------------------------------------
\* The transaction.

Begin(t) ==
    /\ session = NoSession
    /\ phase[t] = "idle"
    /\ session' = NewSession(t)
    /\ UNCHANGED <<world, phase, proposal, mode, history>>

\* Mutant of CountAllowed: any count is accepted.
AnyCountAllowed(count) == count > 0

CountAllowed(count) == count % IncrementBy = 0

\* increment, and the values that next (count is IncrementBy) or range
\* return for it: they lead up to the new current value.
Increment(count, unread, missed) ==
    LET current == Current(unread)
        next == current + count
        values == [i \in 1..(count \div IncrementBy) |-> current + i * IncrementBy]
    IN  /\ session # NoSession
        /\ MixedUse \/ session.ensured = {}
        /\ next <= MaxValue
        /\ CountAllowed(count)
        /\ session' = [session EXCEPT
                        !.cache = next,
                        !.reads = @ \cup CurrentReads(unread) \cup UpsertReads,
                        !.writes = Written(Targets \ missed, next),
                        !.issued = @ \o values,
                        !.missed = missed,
                        !.blind = @ \/ ReadsBlindly(unread)]
        /\ UNCHANGED <<world, phase, proposal, mode, history>>

\* Mutant of Below: every desired value is written.
BelowAlways(v) == TRUE

\* The record is missing or smaller than the desired value.  Only the public
\* record is looked at.
Below(v) == world[Public] = Absent \/ v > world[Public]

\* Mutant of EnsureTargets: the collections of a public record are forgotten.
EnsurePublicOnly == IF mode = "private" THEN Range(Collections) ELSE {Public}

EnsureTargets == Targets

\* ensureAtLeast: only the private path leaves the value in the cache.
EnsureAtLeast(v, missed) ==
    /\ session # NoSession
    /\ MixedUse \/ (session = NewSession(session.slot) /\ mode # "private")
    /\ session' = [session EXCEPT
                    !.cache = IF mode = "private" /\ Below(v) THEN v ELSE @,
                    !.reads = @ \cup {Public},
                    !.writes = IF Below(v) THEN Written(EnsureTargets \ missed, v) ELSE @,
                    !.ensured = @ \cup {v},
                    !.missed = IF Below(v) THEN missed ELSE @]
    /\ UNCHANGED <<world, phase, proposal, mode, history>>

\* The contract method returns, and its client submits the transaction.
Submit ==
    /\ session # NoSession
    /\ Ledger!Endorse(session.slot,
                      [issued |-> session.issued, ensured |-> session.ensured,
                       missed |-> session.missed, blind |-> session.blind],
                      session.reads, session.writes)
    /\ session' = NoSession
    /\ UNCHANGED <<mode, history>>

\* The contract method throws.
Throw ==
    /\ session # NoSession
    /\ session' = NoSession
    /\ UNCHANGED <<world, phase, proposal, mode, history>>

Highest(used) == CHOOSE v \in used : \A w \in used : w <= v

Commit(t) ==
    LET call == proposal[t].call
        used == Range(call.issued) \cup call.ensured \cup ({high} \ {Absent})
    IN  /\ session = NoSession
        /\ Ledger!CommitValid(t)
        /\ high' = IF used = {} THEN Absent ELSE Highest(used)
        /\ lagging' = (lagging \ DOMAIN proposal[t].writes) \cup call.missed
        /\ faulted' = (faulted \/ (mode = "private" /\ (call.blind \/ call.missed # {})))
        /\ UNCHANGED <<mode, session>>

Drop(t) ==
    /\ session = NoSession
    /\ Ledger!CommitInvalid(t) \/ Ledger!Abandon(t)
    /\ UNCHANGED <<mode, session, history>>

Next ==
    \/ \E t \in Txs : Begin(t) \/ Commit(t) \/ Drop(t)
    \/ \E count \in Counts, unread, missed \in Refusals : Increment(count, unread, missed)
    \/ \E v \in Floors, missed \in Refusals : EnsureAtLeast(v, missed)
    \/ Submit
    \/ Throw

Spec == Init /\ [][Next]_vars

-----------------------------------------------------------------------------
\* Properties.

Values == 0..MaxValue

\* Values stand at a multiple of incrementBy above the start or above a value
\* that was asked for.
Aligned(v) ==
    \E base \in {StartWith} \cup Floors : v >= base /\ (v - base) % IncrementBy = 0

\* A session's read set covers what it writes: only then does validation
\* protect it.
TypeOK ==
    /\ world \in [Keys -> Values \cup {Absent}]
    /\ \A k \in Keys : world[k] # Absent => Aligned(world[k])
    /\ phase \in [Txs -> Ledger!Phases]
    /\ high \in Values \cup {Absent}
    /\ lagging \subseteq Failing
    /\ session # NoSession =>
          /\ phase[session.slot] = "idle"
          /\ session.cache \in Values \cup {Absent}
          /\ DOMAIN session.writes \subseteq Keys
          /\ Public \in DOMAIN session.writes => Public \in session.reads
          /\ \A v \in Range(session.issued) : Aligned(v)

\* The values issued to one transaction go up, and are above every value that
\* a committed transaction was issued or has ensured.
Above(issued) ==
    \A i \in DOMAIN issued :
        /\ high # Absent => issued[i] > high
        /\ \A j \in 1..(i - 1) : issued[j] < issued[i]

\* What a private sequence promises is lost once a transaction found no
\* collection to read it from or did not write it to all of them.
Sound(blind) == mode = "private" => ~faulted /\ ~blind

\* No value is issued twice: neither by concurrent transactions that read the
\* same committed value (one of them will fail validation), nor within one
\* transaction, whose own writes the state does not show, nor after another
\* transaction moved the sequence up with ensureAtLeast.  With a public record
\* this is so whatever the collections refuse; without one, it is enough
\* that one collection can be read, if all can be written.
IssuedOnce ==
    /\ session # NoSession /\ Sound(session.blind) => Above(session.issued)
    /\ \A t \in Txs : phase[t] = "endorsed" /\ Sound(proposal[t].call.blind) =>
          Above(proposal[t].call.issued)

\* The record a transaction starts from is the highest value ever issued or
\* ensured: the sequence neither falls back nor runs ahead.
StoredIsHighest == Sound(FALSE) => Stored = high

\* Clients with access to one collection only see the same sequence as all
\* others (comment of replicateToSegregatedCollections), or an older value if
\* the last write did not reach it: the copy of a collection is never ahead of
\* the public record, and the next write that reaches it makes up for it.
ReplicasAgree ==
    /\ mode = "replicated" => \A c \in Range(Collections) :
          /\ c \notin lagging => world[c] = world[Public]
          /\ world[c] # Absent => world[Public] # Absent /\ world[c] <= world[Public]
    /\ mode = "private" => \A c, d \in Range(Collections) \ lagging : world[c] = world[d]

\* The sequence of a fully segregated model never becomes public (same
\* comment), whatever transaction is committed next.
PrivateStaysPrivate ==
    mode = "private" =>
        /\ world[Public] = Absent
        /\ \A t \in Txs : phase[t] = "endorsed" => Public \notin DOMAIN proposal[t].writes

\* "Ensures the sequence exists and is at least a given value" (comment of
\* ensureAtLeast): once the transaction is committed, the stored value is at
\* least what it ensured.
EnsuredLasts ==
    [][\A t \in Txs :
        phase[t] = "endorsed" /\ world' # world /\ phase'[t] = "idle" =>
            \A v \in proposal[t].call.ensured : Stored' # Absent /\ Stored' >= v]_vars
=============================================================================
