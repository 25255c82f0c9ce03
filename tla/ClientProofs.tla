----------------------------- MODULE ClientProofs -----------------------------
(***************************************************************************)
(* Proofs about ClientCalls and ClientEvents, for any clients, records,    *)
(* configurations and number of calls.                                     *)
(***************************************************************************)
EXTENDS ClientEvents, FunctionTheorems, FiniteSetTheorems, TLAPS

Pcs == {"idle", "hydrate", "submit", "ordered", "refresh"}
Ops == {"create", "update", "delete", "migrate"}
Shapes == {"public", "mixed", "segregated"}
Errors == {"none"} \cup {ErrorClass[e] : e \in DOMAIN ErrorClass}

Numbers == 0..MaxCalls \cup {Absent}

CallRecords ==
    [op : Ops, bulk : BOOLEAN, ids : SUBSET Ids, by : Clients, number : 1..MaxCalls]

\* A call that is neither a bulk one nor a migration is on one record.
OneOrMany(op, bulk, ids) ==
    bulk \/ op = "migrate" \/ \E id \in Ids : ids = {id}

Calls == {call \in CallRecords : OneOrMany(call.op, call.bulk, call.ids)}

Results == UNION {[N -> [number : Numbers, whole : BOOLEAN]] : N \in SUBSET Ids}

Entries ==
    [call : Calls, answer : Results, event : (SUBSET Ids) \cup {NoEvent}, valid : BOOLEAN]

ClientRecords ==
    [pc : Pcs, call : Calls \cup {NoCall}, result : Results, error : Errors]

InFlight == {t \in Txs : phase[t] # "idle"}

Types ==
    /\ shape \in Shapes
    /\ issued \in 0..MaxCalls
    /\ world \in [Ids -> Numbers]
    /\ phase \in [Txs -> Ledger!Phases]
    /\ proposal = [t \in Txs |-> proposal[t]]
    /\ sent = [t \in Txs |-> sent[t]]
    /\ \A t \in InFlight : sent[t] \in Entries
    /\ chain \in Seq(Entries)
    /\ client \in [Clients -> ClientRecords]

\* A number belongs to one call.
NumberedUpTo(known, count) ==
    /\ \A a \in known : a.number <= count
    /\ \A a, b \in known : a.number = b.number => a = b

\* A call is in one slot or in one entry of the chain.
OnceSent ==
    /\ \A t, u \in InFlight : sent[t].call = sent[u].call => t = u
    /\ \A t \in InFlight, n \in DOMAIN chain : chain[n].call # sent[t].call
    /\ \A m, n \in DOMAIN chain : chain[m].call = chain[n].call => m = n

SentCalls == {sent[t].call : t \in InFlight} \cup {chain[n].call : n \in DOMAIN chain}

KnownCalls == ({client[c].call : c \in Clients} \ {NoCall}) \cup SentCalls

\* What a chain says of a call.
CommittedIn(ch, call) == \E n \in DOMAIN ch : ch[n].call = call /\ ch[n].valid

RejectedIn(ch, call) == \E n \in DOMAIN ch : ch[n].call = call /\ ~ch[n].valid

DeletedLaterIn(ch, call) ==
    \E m, n \in DOMAIN ch :
        /\ m < n /\ ch[m].call = call
        /\ ch[n].valid /\ ch[n].call.op = "delete"
        /\ ch[n].call.ids \cap call.ids # {}

OwnOrLaterIn(ch, call, result) ==
    \A id \in call.ids :
        /\ result[id].whole
        /\ \E m, n \in DOMAIN ch :
              m <= n /\ ch[m].call = call /\ ch[n].call.number = result[id].number

Saves(call) == call.op \in {"create", "update"}

Inconclusive == {"none", "TransactionTimeoutError", "InternalError"}

ClientStands(c) ==
    LET call == client[c].call
    IN  /\ call # NoCall => call.by = c
        /\ client[c].pc # "idle" => call # NoCall /\ client[c].error = "none"
        /\ client[c].pc = "hydrate" => call.op = "delete"
        /\ client[c].pc # "idle" /\ call.op # "delete" => client[c].result = <<>>
        /\ client[c].pc \in {"hydrate", "submit"} => call \notin SentCalls
        /\ client[c].pc = "refresh" => RefreshAfter(call) /\ CommittedIn(chain, call)
        /\ Succeeded(c) =>
              /\ CommittedIn(chain, call)
              /\ Saves(call) => OwnOrLaterIn(chain, call, client[c].result)
        /\ Returned(c) /\ client[c].error \notin Inconclusive =>
              \/ call \notin SentCalls \/ RejectedIn(chain, call)
              \/ client[c].error = "NotFoundError" /\ DeletedLaterIn(chain, call)

\* What an entry says of its call.
EntryStands(e) ==
    /\ e.event = EventOf(e.call)
    /\ Saves(e.call) => \A id \in e.call.ids : e.answer[id] = PublicPart(e.call.number)

\* What a proposal p, sent as s, does in the state w it may be committed in.
ProposalStands(s, p, w) ==
    /\ DOMAIN p.writes = s.call.ids
    /\ Saves(s.call) => \A id \in s.call.ids : p.writes[id] = s.call.number
    /\ s.call.op = "delete" => \A id \in s.call.ids :
          p.writes[id] = Absent /\ s.answer[id].number = w[id]
    /\ s.call.op = "migrate" => \A id \in s.call.ids :
          p.writes[id] = IF w[id] = Absent THEN Absent ELSE s.call.number
    /\ ~Saves(s.call) => p.reads = s.call.ids

SlotStands(t) ==
    /\ ~sent[t].valid
    /\ EntryStands(sent[t])
    /\ phase[t] = "endorsed" => ProposalStands(sent[t], proposal[t], world)

\* A record is that of the last valid entry about it.
RecordStands(ch, record, id) ==
    /\ record \notin {Absent, 0} =>
          \E n \in DOMAIN ch : ch[n].valid /\ ch[n].call.number = record
    /\ \A m \in DOMAIN ch : ch[m].valid /\ id \in ch[m].call.ids =>
          /\ record # Absent =>
                \E n \in DOMAIN ch : n >= m /\ ch[n].call.number = record
          /\ record = Absent /\ Saves(ch[m].call) =>
                \E n \in DOMAIN ch :
                    /\ n > m /\ ch[n].valid /\ ch[n].call.op = "delete"
                    /\ id \in ch[n].call.ids

CallsInv ==
    /\ Types
    /\ NumberedUpTo(KnownCalls, issued)
    /\ OnceSent
    /\ \A c \in Clients : ClientStands(c)
    /\ \A t \in InFlight : SlotStands(t)
    /\ \A n \in DOMAIN chain : EntryStands(chain[n])
    /\ \A id \in Ids : RecordStands(chain, world[id], id)

-----------------------------------------------------------------------------
\* The second layer: what the observers are told.

Notices(c) == pending[c] \cup told[c]

Heard(c, i) ==
    /\ heard[c][i].at \in 1..position[c]
    /\ IsEvent(heard[c][i].at)
    /\ heard[c][i].ids = chain[heard[c][i].at].event

ObserversStand(c) ==
    /\ listener[c] \in {"off", "on", "closed"}
    /\ settings.synthetic => listener[c] = "off" /\ heard[c] = <<>>
    /\ position[c] \in 0..Len(chain)
    /\ heard[c] \in Seq([at : Nat, ids : (SUBSET Ids) \cup {NoEvent}])
    /\ \A i \in DOMAIN heard[c] : Heard(c, i)
    /\ \A i, j \in DOMAIN heard[c] : i < j => heard[c][i].at < heard[c][j].at
    /\ pending[c] \cap told[c] = {}
    /\ \A call \in Notices(c) : CommittedIn(chain, call) /\ TellsLocally(c)
    /\ client[c].pc # "idle" => client[c].call \notin Notices(c)

EventsInv ==
    /\ listener = [c \in Clients |-> listener[c]]
    /\ position = [c \in Clients |-> position[c]]
    /\ heard = [c \in Clients |-> heard[c]]
    /\ pending = [c \in Clients |-> pending[c]]
    /\ told = [c \in Clients |-> told[c]]
    /\ \A c \in Clients : ObserversStand(c)

-----------------------------------------------------------------------------
\* What a longer chain keeps.

Extends(ch, longer) ==
    DOMAIN ch \subseteq DOMAIN longer /\ \A n \in DOMAIN ch : longer[n] = ch[n]

LEMMA AppendExtends ==
    ASSUME NEW S, NEW ch \in Seq(S), NEW e \in S, NEW longer, longer = Append(ch, e)
    PROVE  /\ Extends(ch, longer)
           /\ longer \in Seq(S)
           /\ Len(longer) = Len(ch) + 1
           /\ DOMAIN longer = DOMAIN ch \cup {Len(longer)}
           /\ longer[Len(longer)] = e
           /\ Len(longer) \notin DOMAIN ch
<1>1. DOMAIN ch = 1..Len(ch) /\ Len(ch) \in Nat
  OBVIOUS
<1>2. longer \in Seq(S) /\ Len(longer) = Len(ch) + 1 /\ DOMAIN longer = 1..(Len(ch) + 1)
  BY <1>1
<1>3. longer[Len(longer)] = e /\ \A n \in DOMAIN ch : longer[n] = ch[n]
  BY <1>1
<1>4. DOMAIN longer = DOMAIN ch \cup {Len(longer)}
  BY <1>1, <1>2
<1> QED
  BY <1>1, <1>2, <1>3, <1>4 DEF Extends

LEMMA CommittedStays ==
    ASSUME NEW ch, NEW longer, Extends(ch, longer), NEW call
    PROVE  /\ CommittedIn(ch, call) => CommittedIn(longer, call)
           /\ RejectedIn(ch, call) => RejectedIn(longer, call)
           /\ DeletedLaterIn(ch, call) => DeletedLaterIn(longer, call)
<1>1. CommittedIn(ch, call) => CommittedIn(longer, call)
  BY DEF Extends, CommittedIn
<1>2. RejectedIn(ch, call) => RejectedIn(longer, call)
  BY DEF Extends, RejectedIn
<1>3. ASSUME DeletedLaterIn(ch, call) PROVE DeletedLaterIn(longer, call)
  <2>1. PICK m, n \in DOMAIN ch :
            /\ m < n /\ ch[m].call = call
            /\ ch[n].valid /\ ch[n].call.op = "delete"
            /\ ch[n].call.ids \cap call.ids # {}
    BY <1>3 DEF DeletedLaterIn
  <2>2. m \in DOMAIN longer /\ n \in DOMAIN longer /\ longer[m] = ch[m] /\ longer[n] = ch[n]
    BY DEF Extends
  <2> QED
    BY <2>1, <2>2 DEF DeletedLaterIn
<1> QED
  BY <1>1, <1>2, <1>3

LEMMA OwnOrLaterStays ==
    ASSUME NEW ch, NEW longer, Extends(ch, longer), NEW call, NEW result,
           OwnOrLaterIn(ch, call, result)
    PROVE  OwnOrLaterIn(longer, call, result)
<1> SUFFICES ASSUME NEW id \in call.ids
             PROVE  /\ result[id].whole
                    /\ \E m, n \in DOMAIN longer :
                          /\ m <= n /\ longer[m].call = call
                          /\ longer[n].call.number = result[id].number
  BY DEF OwnOrLaterIn
<1>1. PICK m, n \in DOMAIN ch :
          m <= n /\ ch[m].call = call /\ ch[n].call.number = result[id].number
  BY DEF OwnOrLaterIn
<1>2. m \in DOMAIN longer /\ n \in DOMAIN longer /\ longer[m] = ch[m] /\ longer[n] = ch[n]
  BY DEF Extends
<1> QED
  BY <1>1, <1>2 DEF OwnOrLaterIn

LEMMA SameChain == \A ch : Extends(ch, ch)
BY DEF Extends

\* A client that does not move.
LEMMA ClientStays ==
    ASSUME NEW c \in Clients, ClientStands(c), client'[c] = client[c],
           Extends(chain, chain'), UNCHANGED <<shape, settings>>,
           client[c].call # NoCall /\ client[c].call \notin SentCalls
              => client[c].call \notin SentCalls'
    PROVE  ClientStands(c)'
<1> DEFINE call == client[c].call
<1>1. CommittedIn(chain, call) => CommittedIn(chain', call)
  BY CommittedStays
<1>2. RejectedIn(chain, call) => RejectedIn(chain', call)
  BY CommittedStays
<1>3. DeletedLaterIn(chain, call) => DeletedLaterIn(chain', call)
  BY CommittedStays
<1>4. OwnOrLaterIn(chain, call, client[c].result)
        => OwnOrLaterIn(chain', call, client[c].result)
  BY OwnOrLaterStays
<1>5. RefreshAfter(call) => RefreshAfter(call)'
  BY DEF RefreshAfter, NeedsFullPayload, IsTransient
<1> QED
  BY <1>1, <1>2, <1>3, <1>4, <1>5
     DEF ClientStands, Returned, Succeeded, RefreshAfter, NeedsFullPayload, IsTransient

-----------------------------------------------------------------------------
\* What the helpers of the client adapter do to the client's record.

ClientBecomes(c, pc, call, result, error) ==
    /\ client' \in [Clients -> ClientRecords]
    /\ client'[c].pc = pc
    /\ client'[c].call = call
    /\ client'[c].result = result
    /\ client'[c].error = error
    /\ \A d \in Clients \ {c} : client'[d] = client[d]

LEMMA RecordBecomes ==
    ASSUME NEW old, old \in [Clients -> ClientRecords], NEW c \in Clients,
           NEW r \in ClientRecords, client' = [old EXCEPT ![c] = r],
           \A d \in Clients : old[d] = client[d]
    PROVE  ClientBecomes(c, r.pc, r.call, r.result, r.error)
BY DEF ClientBecomes

LEMMA EmptyResult == <<>> \in Results
<1>1. <<>> \in [{} -> [number : Numbers, whole : BOOLEAN]]
  OBVIOUS
<1> QED
  BY <1>1 DEF Results

LEMMA FailDoes ==
    ASSUME client \in [Clients -> ClientRecords], NEW c \in Clients,
           NEW cause \in DOMAIN ErrorClass, Fail(c, cause)
    PROVE  ClientBecomes(c, "idle", client[c].call, <<>>, ErrorClass[cause])
<1> DEFINE r == [client[c] EXCEPT !.pc = "idle", !.error = ErrorClass[cause], !.result = <<>>]
<1>1. client[c] \in ClientRecords
  OBVIOUS
<1>2. ErrorClass[cause] \in Errors
  BY DEF Errors
<1>3. r \in ClientRecords
  BY <1>1, <1>2, EmptyResult DEF ClientRecords, Pcs
<1>4. /\ r.pc = "idle" /\ r.call = client[c].call /\ r.result = <<>>
      /\ r.error = ErrorClass[cause]
  BY <1>1 DEF ClientRecords
<1>5. client' = [client EXCEPT ![c] = r]
  BY DEF Fail
<1> HIDE DEF r
<1>6. ClientBecomes(c, r.pc, r.call, r.result, r.error)
  BY <1>3, <1>5, RecordBecomes
<1> QED
  BY <1>4, <1>6

LEMMA FinishDoes ==
    ASSUME client \in [Clients -> ClientRecords], NEW c \in Clients,
           NEW result \in Results, Finish(c, result)
    PROVE  ClientBecomes(c, "idle", client[c].call, result, client[c].error)
<1> DEFINE r == [client[c] EXCEPT !.pc = "idle", !.result = result]
<1>1. client[c] \in ClientRecords
  OBVIOUS
<1>2. r \in ClientRecords
  BY <1>1 DEF ClientRecords, Pcs
<1>3. /\ r.pc = "idle" /\ r.call = client[c].call /\ r.result = result
      /\ r.error = client[c].error
  BY <1>1 DEF ClientRecords
<1>4. client' = [client EXCEPT ![c] = r]
  BY DEF Finish
<1> HIDE DEF r
<1>5. ClientBecomes(c, r.pc, r.call, r.result, r.error)
  BY <1>2, <1>4, RecordBecomes
<1> QED
  BY <1>3, <1>5

LEMMA AdvanceDoes ==
    ASSUME client \in [Clients -> ClientRecords], NEW c \in Clients, NEW pc \in Pcs,
           client' = [client EXCEPT ![c].pc = pc]
    PROVE  ClientBecomes(c, pc, client[c].call, client[c].result, client[c].error)
<1> DEFINE r == [client[c] EXCEPT !.pc = pc]
<1>1. client[c] \in ClientRecords
  OBVIOUS
<1>2. r \in ClientRecords
  BY <1>1 DEF ClientRecords
<1>3. /\ r.pc = pc /\ r.call = client[c].call /\ r.result = client[c].result
      /\ r.error = client[c].error
  BY <1>1 DEF ClientRecords
<1>4. client' = [client EXCEPT ![c] = r]
  OBVIOUS
<1> HIDE DEF r
<1>5. ClientBecomes(c, r.pc, r.call, r.result, r.error)
  BY <1>2, <1>4, RecordBecomes
<1> QED
  BY <1>3, <1>5

LEMMA BeginDoes ==
    ASSUME client \in [Clients -> ClientRecords], NEW c \in Clients, NEW op \in Ops,
           NEW bulk \in BOOLEAN, NEW ids \in SUBSET Ids, NEW pc \in Pcs,
           issued \in Nat, Begin(c, op, bulk, ids, pc),
           OneOrMany(op, bulk, ids)
    PROVE  \E call \in Calls :
              /\ call.op = op /\ call.ids = ids /\ call.by = c /\ call.number = issued + 1
              /\ ClientBecomes(c, pc, call, <<>>, "none")
<1> DEFINE call == [op |-> op, bulk |-> bulk, ids |-> ids, by |-> c, number |-> issued + 1]
           r == [Idle EXCEPT !.pc = pc, !.call = call]
<1>1. issued + 1 \in 1..MaxCalls /\ issued' = issued + 1
  BY CallsAssumption DEF Begin
<1>2. call \in Calls
  <2>1. call \in CallRecords
    BY <1>1 DEF CallRecords
  <2> QED
    BY <2>1 DEF Calls
<1>3. call.op = op /\ call.ids = ids /\ call.by = c /\ call.number = issued + 1
  OBVIOUS
<1>4. client' = [client EXCEPT ![c] = r]
  BY <1>1 DEF Begin
<1> HIDE DEF call
<1>5. r \in ClientRecords
  BY <1>2, EmptyResult DEF ClientRecords, Idle, Pcs, Errors
<1>6. r.pc = pc /\ r.call = call /\ r.result = <<>> /\ r.error = "none"
  BY DEF Idle
<1> HIDE DEF r
<1>7. ClientBecomes(c, r.pc, r.call, r.result, r.error)
  BY <1>4, <1>5, RecordBecomes
<1> QED
  BY <1>2, <1>3, <1>6, <1>7

-----------------------------------------------------------------------------
\* A step of one client that leaves the ledger alone.

LEMMA CallFields ==
    ASSUME NEW call \in Calls
    PROVE  /\ call.op \in Ops /\ call.ids \in SUBSET Ids /\ call.by \in Clients
           /\ call.number \in 1..MaxCalls
           /\ OneOrMany(call.op, call.bulk, call.ids)
BY DEF Calls, CallRecords

LEMMA NoCallIsNone == NoCall \notin Calls
<1>1. CallRecords \subseteq [op : Ops, bulk : BOOLEAN, ids : SUBSET Ids, by : Clients, number : Nat]
  BY CallsAssumption DEF CallRecords
<1> QED
  BY <1>1, CallsAssumption DEF Calls, Ops

LEMMA KnownAreCalls ==
    ASSUME Types
    PROVE  KnownCalls \subseteq Calls /\ SentCalls \subseteq Calls
<1>1. \A c \in Clients : client[c].call \in Calls \cup {NoCall}
  BY DEF Types, ClientRecords
<1>2. \A t \in InFlight : sent[t].call \in Calls
  BY DEF Types, Entries
<1>3. \A n \in DOMAIN chain : chain[n] \in Entries
  BY DEF Types
<1>4. \A n \in DOMAIN chain : chain[n].call \in Calls
  BY <1>3 DEF Entries
<1> QED
  BY <1>1, <1>2, <1>4 DEF KnownCalls, SentCalls

\* The client's call is the one it had, or a new one.
LEMMA QuietKeeps ==
    ASSUME CallsInv, NEW c \in Clients, NEW pc, NEW call, NEW result, NEW error,
           ClientBecomes(c, pc, call, result, error),
           UNCHANGED <<ledger, shape, settings, sent, chain>>,
           issued' \in 0..MaxCalls,
           NumberedUpTo(KnownCalls', issued'),
           ClientStands(c)'
    PROVE  CallsInv'
<1>1. UNCHANGED <<world, phase, proposal, shape, settings, sent, chain>>
  BY DEF ledger
<1>2. InFlight' = InFlight /\ SentCalls' = SentCalls
  BY <1>1 DEF InFlight, SentCalls
<1>3. Types'
  BY <1>1, <1>2 DEF CallsInv, Types, ClientBecomes
<1>4. OnceSent'
  BY <1>1, <1>2 DEF CallsInv, OnceSent
<1>5. ASSUME NEW d \in Clients PROVE ClientStands(d)'
  <2>1. CASE d = c
    BY <2>1
  <2>2. CASE d # c
    <3>1. client'[d] = client[d] /\ ClientStands(d)
      BY <2>2 DEF ClientBecomes, CallsInv
    <3> QED
      BY <3>1, <1>1, <1>2, SameChain, ClientStays
  <2> QED
    BY <2>1, <2>2
<1>6. \A e : EntryStands(e) => EntryStands(e)'
  BY <1>1 DEF EntryStands, EventOf, Silent, PublicPart, IsTransient
<1>7. \A t \in InFlight' : SlotStands(t)'
  BY <1>1, <1>2, <1>6 DEF CallsInv, SlotStands
<1>8. ASSUME NEW n \in DOMAIN chain' PROVE EntryStands(chain[n])'
  <2>1. EntryStands(chain[n])
    BY <1>1 DEF CallsInv
  <2> QED
    BY <1>1, <2>1 DEF EntryStands, EventOf, Silent, PublicPart, IsTransient
<1>9. \A id \in Ids : RecordStands(chain, world[id], id)'
  BY <1>1 DEF CallsInv
<1> QED
  BY <1>3, <1>4, <1>5, <1>7, <1>8, <1>9 DEF CallsInv

LEMMA SameCallKeeps ==
    ASSUME CallsInv, NEW c \in Clients, NEW pc, NEW result, NEW error,
           ClientBecomes(c, pc, client[c].call, result, error),
           UNCHANGED <<ledger, shape, settings, issued, sent, chain>>,
           ClientStands(c)'
    PROVE  CallsInv'
<1>1. UNCHANGED <<world, phase, proposal, shape, settings, issued, sent, chain>>
  BY DEF ledger
<1>2. SentCalls' = SentCalls
  BY <1>1 DEF SentCalls, InFlight
<1>3. \A d \in Clients : client'[d].call = client[d].call
  BY DEF ClientBecomes
<1>4. KnownCalls' = KnownCalls
  BY <1>2, <1>3 DEF KnownCalls
<1>5. issued' \in 0..MaxCalls /\ NumberedUpTo(KnownCalls', issued')
  BY <1>1, <1>4 DEF CallsInv, Types
<1> DEFINE call == client[c].call
<1>6. ClientBecomes(c, pc, call, result, error)
  OBVIOUS
<1> HIDE DEF call
<1> QED
  BY <1>1, <1>5, <1>6, QuietKeeps DEF ledger

\* The call of a client that starts one is new.
LEMMA BeginKeeps ==
    ASSUME CallsInv, NEW c \in Clients, NEW op \in Ops, NEW bulk \in BOOLEAN,
           NEW ids \in SUBSET Ids, NEW pc \in {"hydrate", "submit"},
           Begin(c, op, bulk, ids, pc),
           OneOrMany(op, bulk, ids),
           pc = "hydrate" => op = "delete"
    PROVE  CallsInv'
<1>1. issued \in Nat /\ issued \in 0..MaxCalls /\ client \in [Clients -> ClientRecords] /\ pc \in Pcs
  BY CallsAssumption DEF CallsInv, Types, Pcs
<1>2. PICK call \in Calls :
          /\ call.op = op /\ call.by = c /\ call.number = issued + 1
          /\ ClientBecomes(c, pc, call, <<>>, "none")
  <2>1. \E call \in Calls :
            /\ call.op = op /\ call.ids = ids /\ call.by = c /\ call.number = issued + 1
            /\ ClientBecomes(c, pc, call, <<>>, "none")
    BY <1>1, BeginDoes
  <2> QED
    BY <2>1
<1>3. UNCHANGED <<world, phase, proposal, shape, settings, sent, chain>>
      /\ issued' = issued + 1 /\ issued < MaxCalls
  BY DEF Begin, ledger
<1>4. SentCalls' = SentCalls
  BY <1>3 DEF SentCalls, InFlight
<1>5. KnownCalls' \subseteq KnownCalls \cup {call}
  BY <1>2, <1>4 DEF KnownCalls, ClientBecomes
<1>6. \A a \in KnownCalls : a.number \in Nat /\ a.number <= issued
  BY KnownAreCalls, CallFields DEF CallsInv, NumberedUpTo
<1>7. NumberedUpTo(KnownCalls', issued')
  BY <1>1, <1>2, <1>3, <1>5, <1>6 DEF CallsInv, NumberedUpTo
<1>8. call \notin SentCalls
  BY <1>1, <1>2, <1>6 DEF KnownCalls
<1>9. ClientStands(c)'
  <2>1. /\ client'[c].pc = pc /\ client'[c].call = call /\ client'[c].result = <<>>
        /\ client'[c].error = "none"
    BY <1>2 DEF ClientBecomes
  <2>2. call # NoCall
    BY NoCallIsNone
  <2> QED
    BY <1>2, <1>4, <1>8, <2>1, <2>2 DEF ClientStands, Returned, Succeeded
<1>10. issued' \in 0..MaxCalls
  BY <1>1, <1>3, CallsAssumption
<1> QED
  BY <1>2, <1>3, <1>7, <1>9, <1>10, QuietKeeps DEF ledger

LEMMA StartKeeps ==
    ASSUME CallsInv, NEW c \in Clients, Start(c)
    PROVE  CallsInv'
<1>1. ASSUME NEW id \in Singles, Create(c, id) \/ Update(c, id) \/ Delete(c, id)
      PROVE  CallsInv'
  <2>1. id \in Ids /\ {id} \in SUBSET Ids
    BY CallsAssumption
  <2>2. \A op : OneOrMany(op, FALSE, {id})
    BY <2>1 DEF OneOrMany
  <2>3. CASE Create(c, id) \/ Update(c, id)
    BY <2>1, <2>2, <2>3, BeginKeeps DEF Create, Update, Ops
  <2>4. CASE Delete(c, id)
    <3>1. PICK pc \in {"hydrate", "submit"} : Begin(c, "delete", FALSE, {id}, pc)
      BY <2>4 DEF Delete
    <3> QED
      BY <2>1, <2>2, <3>1, BeginKeeps DEF Ops
  <2> QED
    BY <1>1, <2>3, <2>4
<1>2. ASSUME NEW ids \in Bulks, CreateAll(c, ids) \/ UpdateAll(c, ids) \/ DeleteAll(c, ids)
      PROVE  CallsInv'
  <2>1. ids \in SUBSET Ids
    BY CallsAssumption
  <2>2. \A op : OneOrMany(op, TRUE, ids)
    BY DEF OneOrMany
  <2>3. CASE CreateAll(c, ids) \/ UpdateAll(c, ids)
    BY <2>1, <2>2, <2>3, BeginKeeps DEF CreateAll, UpdateAll, Ops
  <2>4. CASE DeleteAll(c, ids)
    <3>1. PICK pc \in {"hydrate", "submit"} : Begin(c, "delete", TRUE, ids, pc)
      BY <2>4 DEF DeleteAll
    <3> QED
      BY <2>1, <2>2, <3>1, BeginKeeps DEF Ops
  <2> QED
    BY <1>2, <2>3, <2>4
<1>3. ASSUME Migrate(c)
      PROVE  CallsInv'
  <2>1. OneOrMany("migrate", FALSE, Ids)
    BY DEF OneOrMany
  <2> QED
    BY <1>3, <2>1, BeginKeeps DEF Migrate, Ops
<1> QED
  BY <1>1, <1>2, <1>3 DEF Start

-----------------------------------------------------------------------------
\* Steps that end a call.

LEMMA ErrorClasses ==
    /\ \A cause \in DOMAIN ErrorClass : ErrorClass[cause] # "none"
    /\ {"Conflict", "NotFound", "Migration", "Unmapped", "MVCC_READ_CONFLICT",
        "DEADLINE_EXCEEDED", "Other"} \subseteq DOMAIN ErrorClass
    /\ ErrorClass["NotFound"] = "NotFoundError"
    /\ ErrorClass["DEADLINE_EXCEEDED"] = "TransactionTimeoutError"
    /\ ErrorClass["Other"] = "InternalError"
BY DEF ErrorClass

\* A failure is inconclusive, or the call was not committed, or it was and its
\* records were deleted.
LEMMA FailKeeps ==
    ASSUME CallsInv, NEW c \in Clients, NEW cause \in DOMAIN ErrorClass, Fail(c, cause),
           UNCHANGED <<ledger, shape, settings, issued, sent, chain>>,
           \/ ErrorClass[cause] \in Inconclusive
           \/ client[c].call \notin SentCalls
           \/ RejectedIn(chain, client[c].call)
           \/ cause = "NotFound" /\ DeletedLaterIn(chain, client[c].call)
    PROVE  CallsInv'
<1>1. ClientBecomes(c, "idle", client[c].call, <<>>, ErrorClass[cause])
  BY FailDoes DEF CallsInv, Types
<1>2. SentCalls' = SentCalls /\ chain' = chain
  BY DEF SentCalls, InFlight, ledger
<1>3. ClientStands(c)'
  <2>1. ClientStands(c)
    BY DEF CallsInv
  <2>2. /\ client'[c].pc = "idle" /\ client'[c].call = client[c].call
        /\ client'[c].error = ErrorClass[cause] /\ client'[c].error # "none"
    BY <1>1, ErrorClasses DEF ClientBecomes
  <2> QED
    BY <1>2, <2>1, <2>2, ErrorClasses DEF ClientStands, Returned, Succeeded
<1> QED
  BY <1>1, <1>3, SameCallKeeps

LEMMA DeadlineKeeps ==
    ASSUME CallsInv, NEW c \in Clients, Deadline(c)
    PROVE  CallsInv'
BY FailKeeps, ErrorClasses DEF Deadline, Inconclusive

LEMMA MigrationFailsKeeps ==
    ASSUME CallsInv, NEW c \in Clients, MigrationFails(c)
    PROVE  CallsInv'
<1>1. client[c].call \notin SentCalls
  BY DEF CallsInv, ClientStands, MigrationFails
<1> QED
  BY <1>1, FailKeeps, ErrorClasses DEF MigrationFails

LEMMA WholeRecords ==
    ASSUME Types, NEW ids \in SUBSET Ids
    PROVE  [id \in ids |-> Whole(id)] \in Results
<1>1. \A id \in ids : Whole(id) \in [number : Numbers, whole : BOOLEAN]
  BY DEF Whole, Types
<1> QED
  BY <1>1 DEF Results

\* The call of a client that is not idle.
LEMMA BusyCall ==
    ASSUME CallsInv, NEW c \in Clients, client[c].pc # "idle"
    PROVE  client[c].call \in Calls /\ ClientStands(c) /\ client[c] \in ClientRecords
BY DEF CallsInv, Types, ClientRecords, ClientStands

LEMMA ReadBeforeKeeps ==
    ASSUME CallsInv, NEW c \in Clients, ReadBefore(c)
    PROVE  CallsInv'
<1> DEFINE call == client[c].call
<1>1. client[c].pc = "hydrate" /\ call \in Calls /\ ClientStands(c)
  BY BusyCall DEF ReadBefore
<1>2. UNCHANGED <<ledger, shape, settings, issued, sent, chain>>
  BY DEF ReadBefore
<1>3. CASE Fail(c, "NotFound")
  BY <1>1, <1>2, <1>3, FailKeeps, ErrorClasses DEF ClientStands
<1>4. CASE client' = [client EXCEPT ![c].pc = "submit",
                          ![c].result = [id \in call.ids |-> Whole(id)]]
  <2> DEFINE result == [id \in call.ids |-> Whole(id)]
             r == [client[c] EXCEPT !.pc = "submit", !.result = result]
  <2>1. result \in Results
    BY <1>1, CallFields, WholeRecords DEF CallsInv
  <2>2. client[c] \in ClientRecords /\ client \in [Clients -> ClientRecords]
    BY DEF CallsInv, Types
  <2>3. client' = [client EXCEPT ![c] = r]
    BY <1>4
  <2> HIDE DEF result
  <2>4. r \in ClientRecords
    BY <2>1, <2>2 DEF ClientRecords, Pcs
  <2>5. r.pc = "submit" /\ r.call = call /\ r.result = result /\ r.error = client[c].error
    BY <2>2 DEF ClientRecords
  <2> HIDE DEF r
  <2>6. ClientBecomes(c, r.pc, r.call, r.result, r.error)
    BY <2>2, <2>3, <2>4, RecordBecomes
  <2>7. ClientBecomes(c, "submit", client[c].call, result, client[c].error)
    BY <2>5, <2>6
  <2>8. SentCalls' = SentCalls
    BY <1>2 DEF SentCalls, InFlight, ledger
  <2>9. ClientStands(c)'
    <3>1. client'[c].pc = "submit" /\ client'[c].call = call
          /\ client'[c].error = client[c].error
      BY <2>7 DEF ClientBecomes
    <3> QED
      BY <1>1, <2>8, <3>1 DEF ClientStands, Returned, Succeeded
  <2> QED
    BY <1>2, <2>7, <2>9, SameCallKeeps
<1> QED
  BY <1>3, <1>4 DEF ReadBefore

LEMMA ReceiveKeeps ==
    ASSUME CallsInv, NEW c \in Clients, Receive(c)
    PROVE  CallsInv'
<1> DEFINE call == client[c].call
<1>1. client[c].pc = "ordered" /\ call \in Calls /\ ClientStands(c) /\ client[c] \in ClientRecords
  BY BusyCall DEF Receive
<1>2. UNCHANGED <<ledger, shape, settings, issued, sent, chain>>
  BY DEF Receive
<1>3. client \in [Clients -> ClientRecords]
  BY DEF CallsInv, Types
<1>4. PICK n \in EntriesOf(call) :
          IF ~chain[n].valid THEN Fail(c, "MVCC_READ_CONFLICT")
          ELSE IF RefreshAfter(call)
          THEN client' = [client EXCEPT ![c].pc = "refresh"]
          ELSE Finish(c, IF client[c].result # <<>> THEN client[c].result
                         ELSE chain[n].answer)
  BY DEF Receive
<1>5. n \in DOMAIN chain /\ chain[n].call = call
  BY DEF EntriesOf
<1>6. SentCalls' = SentCalls /\ chain' = chain
  BY <1>2 DEF SentCalls, InFlight, ledger
<1>7. CASE ~chain[n].valid
  <2>1. RejectedIn(chain, call)
    BY <1>5, <1>7 DEF RejectedIn
  <2> QED
    BY <1>2, <1>4, <1>7, <2>1, FailKeeps, ErrorClasses
<1>8. CASE chain[n].valid /\ RefreshAfter(call)
  <2>1. ClientBecomes(c, "refresh", client[c].call, client[c].result, client[c].error)
    BY <1>3, <1>4, <1>8, AdvanceDoes DEF Pcs
  <2>2. CommittedIn(chain, call)
    BY <1>5, <1>8 DEF CommittedIn
  <2>3. ClientStands(c)'
    <3>1. client'[c].pc = "refresh" /\ client'[c].call = call
          /\ client'[c].result = client[c].result
          /\ client'[c].error = client[c].error
      BY <2>1 DEF ClientBecomes
    <3>2. RefreshAfter(call)'
      BY <1>2, <1>8, <3>1 DEF RefreshAfter, NeedsFullPayload, IsTransient
    <3> QED
      BY <1>1, <1>6, <2>2, <3>1, <3>2
         DEF ClientStands, Returned, Succeeded, RefreshAfter, NeedsFullPayload, IsTransient
  <2> QED
    BY <1>2, <2>1, <2>3, SameCallKeeps
<1>9. CASE chain[n].valid /\ ~RefreshAfter(call)
  <2> DEFINE result == IF client[c].result # <<>> THEN client[c].result ELSE chain[n].answer
  <2>1. result \in Results
    <3>1. client[c].result \in Results
      BY <1>1 DEF ClientRecords
    <3>2. chain[n] \in Entries
      BY <1>5 DEF CallsInv, Types
    <3>3. chain[n].answer \in Results
      BY <3>2 DEF Entries
    <3> QED
      BY <3>1, <3>3
  <2>2. ClientBecomes(c, "idle", client[c].call, result, client[c].error)
    <3>1. Finish(c, result)
      BY <1>4, <1>9
    <3> HIDE DEF result
    <3> QED
      BY <1>3, <2>1, <3>1, FinishDoes
  <2>3. CommittedIn(chain, call)
    BY <1>5, <1>9 DEF CommittedIn
  <2>4. ASSUME Saves(call) PROVE OwnOrLaterIn(chain, call, result)
    <3>1. client[c].result = <<>>
      BY <1>1, <2>4 DEF ClientStands, Saves
    <3>2. EntryStands(chain[n])
      BY <1>5 DEF CallsInv
    <3>3. \A id \in call.ids : result[id] = PublicPart(call.number)
      BY <1>5, <2>4, <3>1, <3>2 DEF EntryStands
    <3>4. ~IsTransient
      BY <1>9, <2>4 DEF RefreshAfter, NeedsFullPayload, Saves
    <3>5. \A id \in call.ids : result[id].number = call.number /\ result[id].whole
      <4>1. PublicPart(call.number).number = call.number
        BY DEF PublicPart
      <4>2. PublicPart(call.number).whole
        BY <3>4 DEF PublicPart
      <4> QED
        BY <3>3, <4>1, <4>2
    <3>6. n <= n
      BY <1>5 DEF CallsInv, Types
    <3> HIDE DEF result
    <3> QED
      BY <1>5, <3>5, <3>6 DEF OwnOrLaterIn
  <2> HIDE DEF result
  <2>5. ClientStands(c)'
    <3>1. /\ client'[c].pc = "idle" /\ client'[c].call = call
          /\ client'[c].result = result /\ client'[c].error = client[c].error
      BY <2>2 DEF ClientBecomes
    <3>2. client[c].error = "none"
      BY <1>1 DEF ClientStands
    <3> QED
      BY <1>1, <1>6, <2>3, <2>4, <3>1, <3>2 DEF ClientStands, Returned, Succeeded, Inconclusive
  <2> QED
    BY <1>2, <2>2, <2>5, SameCallKeeps
<1> QED
  BY <1>4, <1>7, <1>8, <1>9

LEMMA ReadAfterKeeps ==
    ASSUME CallsInv, NEW c \in Clients, ReadAfter(c)
    PROVE  CallsInv'
<1> DEFINE call == client[c].call
<1>1. client[c].pc = "refresh" /\ call \in Calls /\ ClientStands(c)
  BY BusyCall DEF ReadAfter
<1>2. UNCHANGED <<ledger, shape, settings, issued, sent, chain>>
  BY DEF ReadAfter
<1>3. PICK m \in DOMAIN chain : chain[m].call = call /\ chain[m].valid
  BY <1>1 DEF ClientStands, CommittedIn
<1>4. Saves(call) /\ call.ids \subseteq Ids
  BY <1>1, CallFields DEF ClientStands, RefreshAfter, Saves
<1>5. CASE Missing(call.ids) # {}
  <2>1. PICK id \in call.ids : world[id] = Absent
    BY <1>5 DEF Missing, Present
  <2>2. RecordStands(chain, world[id], id)
    BY <1>4 DEF CallsInv
  <2>3. \E n \in DOMAIN chain :
          /\ n > m /\ chain[n].valid /\ chain[n].call.op = "delete"
          /\ id \in chain[n].call.ids
    BY <1>3, <1>4, <2>1, <2>2 DEF RecordStands
  <2>4. DeletedLaterIn(chain, call)
    <3>1. PICK n \in DOMAIN chain :
            /\ n > m /\ chain[n].valid /\ chain[n].call.op = "delete"
            /\ id \in chain[n].call.ids
      BY <2>3
    <3>2. m < n
      BY <3>1 DEF CallsInv, Types
    <3> QED
      BY <1>3, <3>1, <3>2 DEF DeletedLaterIn
  <2>5. Fail(c, "NotFound")
    BY <1>5 DEF ReadAfter
  <2> QED
    BY <1>2, <2>4, <2>5, FailKeeps, ErrorClasses
<1>6. CASE Missing(call.ids) = {}
  <2> DEFINE result == [id \in call.ids |-> Whole(id)]
  <2>1. result \in Results
    BY <1>4, WholeRecords DEF CallsInv
  <2>2. ClientBecomes(c, "idle", client[c].call, result, client[c].error)
    <3>1. Finish(c, result)
      BY <1>6 DEF ReadAfter
    <3> HIDE DEF result
    <3> QED
      BY <2>1, <3>1, FinishDoes DEF CallsInv, Types
  <2>3. CommittedIn(chain, call)
    BY <1>3 DEF CommittedIn
  <2>4. OwnOrLaterIn(chain, call, result)
    <3> SUFFICES ASSUME NEW id \in call.ids
                 PROVE  /\ result[id].whole
                        /\ \E k, n \in DOMAIN chain :
                              /\ k <= n /\ chain[k].call = call
                              /\ chain[n].call.number = result[id].number
      BY DEF OwnOrLaterIn
    <3>1. result[id].whole /\ result[id].number = world[id]
      BY DEF Whole
    <3>2. world[id] # Absent
      BY <1>6 DEF Missing, Present
    <3>3. RecordStands(chain, world[id], id)
      BY <1>4 DEF CallsInv
    <3>4. PICK n \in DOMAIN chain : n >= m /\ chain[n].call.number = world[id]
      BY <1>3, <3>2, <3>3 DEF RecordStands
    <3>5. m <= n
      BY <3>4 DEF CallsInv, Types
    <3> QED
      BY <1>3, <3>1, <3>4, <3>5
  <2> HIDE DEF result
  <2>5. SentCalls' = SentCalls /\ chain' = chain
    BY <1>2 DEF SentCalls, InFlight, ledger
  <2>6. ClientStands(c)'
    <3>1. /\ client'[c].pc = "idle" /\ client'[c].call = call
          /\ client'[c].result = result /\ client'[c].error = client[c].error
      BY <2>2 DEF ClientBecomes
    <3> QED
      BY <1>1, <2>3, <2>4, <2>5, <3>1 DEF ClientStands, Returned, Succeeded, Inconclusive
  <2> QED
    BY <1>2, <2>2, <2>6, SameCallKeeps
<1> QED
  BY <1>5, <1>6

-----------------------------------------------------------------------------
\* What the contract does, and the event of its transaction.

LEMMA ListOfSet ==
    ASSUME NEW S, IsFiniteSet(S)
    PROVE  Cardinality(S) \in Nat /\ SetToSeq(S) \in [1..Cardinality(S) -> S]
<1>1. Cardinality(S) \in Nat /\ ExistsBijection(1..Cardinality(S), S)
  BY FS_CardinalityType
<1>2. \E f \in [1..Cardinality(S) -> S] : IsInjective(f)
  BY <1>1 DEF ExistsBijection, Bijection, Injection
<1> QED
  BY <1>1, <1>2 DEF SetToSeq

\* The event that counts is the last one: it names every record of the call.
LEMMA EventNames ==
    ASSUME NEW call \in Calls, EventOf(call) # NoEvent
    PROVE  EventOf(call) = call.ids
<1> DEFINE ids == SetToSeq(call.ids)
           n == Cardinality(call.ids)
           singles == [i \in DOMAIN ids |-> {ids[i]}]
<1>1. call.ids \in SUBSET Ids /\ OneOrMany(call.op, call.bulk, call.ids)
  BY CallFields
<1>2. IsFiniteSet(call.ids)
  BY <1>1, CallsAssumption, FS_Subset
<1>3. n \in Nat /\ ids \in [1..n -> call.ids]
  BY <1>2, ListOfSet
<1> HIDE DEF ids, n
<1>4. singles \in Seq(SUBSET Ids) /\ Len(singles) = n
  BY <1>1, <1>3
<1>5. EventOf(call) = Last(Emissions(call)) /\ call.op # "migrate"
  BY DEF EventOf
<1>6. Emissions(call) = IF call.bulk THEN Append(singles, call.ids) ELSE singles
  BY DEF Emissions, ids
<1>7. CASE call.bulk
  <2> HIDE DEF singles
  <2> DEFINE all == Append(singles, call.ids)
  <2>1. Len(all) = n + 1 /\ all[n + 1] = call.ids
    BY <1>3, <1>4
  <2> QED
    BY <1>5, <1>6, <1>7, <2>1 DEF Last
<1>8. CASE ~call.bulk
  <2>1. PICK id \in Ids : call.ids = {id}
    BY <1>1, <1>5, <1>8 DEF OneOrMany
  <2>2. n = 1
    BY <2>1, FS_Singleton DEF n
  <2>3. singles[1] = {id}
    BY <1>3, <2>1, <2>2
  <2> HIDE DEF singles
  <2> QED
    BY <1>4, <1>5, <1>6, <1>8, <2>1, <2>2, <2>3 DEF Last
<1> QED
  BY <1>7, <1>8

LEMMA PublicPartIsTyped ==
    ASSUME NEW number \in Numbers
    PROVE  PublicPart(number) \in [number : Numbers, whole : BOOLEAN]
BY DEF PublicPart

\* One record of a call.
EachDoes(call, id, each) ==
    /\ each.answer \in [number : Numbers, whole : BOOLEAN]
    /\ each.error \subseteq {"Conflict", "NotFound"}
    /\ each.reads \subseteq {id}
    /\ Saves(call) => each.put = call.number /\ each.answer = PublicPart(call.number)
    /\ call.op = "delete" =>
          /\ each.put = Absent /\ each.answer.number = world[id] /\ each.reads = {id}
    /\ call.op = "migrate" =>
          /\ each.put = IF world[id] = Absent THEN Absent ELSE call.number
          /\ each.reads = {id}

LEMMA EachIs ==
    ASSUME Types, NEW call \in Calls, NEW id \in call.ids
    PROVE  EachDoes(call, id, Each(call)[id])
<1> DEFINE each == Each(call)[id]
<1>1. call.op \in Ops /\ id \in Ids /\ call.number \in Numbers
  BY CallFields DEF Numbers
<1>2. world[id] \in Numbers
  BY <1>1 DEF Types
<1>3. /\ PublicPart(call.number) \in [number : Numbers, whole : BOOLEAN]
      /\ PublicPart(world[id]) \in [number : Numbers, whole : BOOLEAN]
  BY <1>1, <1>2, PublicPartIsTyped
<1>4. PublicPart(world[id]).number = world[id]
  BY DEF PublicPart
<1>5. Missing({id}) \subseteq {"Conflict", "NotFound"}
  BY DEF Missing
<1>6. CASE call.op = "create"
  <2>1. each = CreateOne(call.number, id)
    BY <1>6 DEF Each
  <2> HIDE DEF each
  <2> QED
    BY <1>3, <1>6, <2>1 DEF CreateOne, EachDoes, Saves, each
<1>7. CASE call.op = "update"
  <2>1. each = UpdateOne(call.number, id)
    BY <1>7 DEF Each
  <2> HIDE DEF each
  <2> QED
    BY <1>3, <1>5, <1>7, <2>1 DEF UpdateOne, EachDoes, Saves, each
<1>8. CASE call.op = "delete"
  <2>1. each = DeleteOne(id)
    BY <1>8 DEF Each
  <2> HIDE DEF each
  <2> QED
    BY <1>3, <1>4, <1>5, <1>8, <2>1 DEF DeleteOne, EachDoes, Saves, each
<1>9. CASE call.op = "migrate"
  <2>1. each = MigrateOne(call.number, id)
    BY <1>9 DEF Each
  <2> HIDE DEF each
  <2> QED
    BY <1>3, <1>9, <2>1 DEF MigrateOne, EachDoes, Saves, Present, each
<1> QED
  BY <1>1, <1>6, <1>7, <1>8, <1>9 DEF Ops

LEMMA ExecuteDoes ==
    ASSUME Types, NEW call \in Calls, NEW tx, tx = Execute(call)
    PROVE  /\ tx.answer \in Results
           /\ tx.error \subseteq DOMAIN ErrorClass
           /\ tx.reads \subseteq Ids
           /\ DOMAIN tx.writes = call.ids
           /\ Saves(call) => \A id \in call.ids :
                tx.writes[id] = call.number /\ tx.answer[id] = PublicPart(call.number)
           /\ call.op = "delete" => \A id \in call.ids :
                tx.writes[id] = Absent /\ tx.answer[id].number = world[id]
           /\ call.op = "migrate" => \A id \in call.ids :
                tx.writes[id] = IF world[id] = Absent THEN Absent ELSE call.number
           /\ ~Saves(call) => tx.reads = call.ids
<1> DEFINE each == Each(call)
<1>1. \A id \in call.ids : EachDoes(call, id, each[id])
  BY EachIs
<1>2. /\ tx.reads = UNION {each[id].reads : id \in call.ids}
      /\ tx.writes = [id \in call.ids |-> each[id].put]
      /\ tx.answer = [id \in call.ids |-> each[id].answer]
      /\ tx.error = UNION {each[id].error : id \in call.ids}
  BY DEF Execute
<1>3. call.ids \in SUBSET Ids /\ call.op \in Ops
  BY CallFields
<1> HIDE DEF each
<1>4. tx.answer \in Results
  <2>1. tx.answer \in [call.ids -> [number : Numbers, whole : BOOLEAN]]
    BY <1>1, <1>2 DEF EachDoes
  <2> QED
    BY <1>3, <2>1 DEF Results
<1>5. tx.error \subseteq DOMAIN ErrorClass
  BY <1>1, <1>2, ErrorClasses DEF EachDoes
<1>6. tx.reads \subseteq Ids
  BY <1>1, <1>2, <1>3 DEF EachDoes
<1>7. \A id \in call.ids : tx.writes[id] = each[id].put /\ tx.answer[id] = each[id].answer
  BY <1>2
<1>8. DOMAIN tx.writes = call.ids
  BY <1>2
<1>9. ~Saves(call) => tx.reads = call.ids
  BY <1>1, <1>2, <1>3 DEF EachDoes, Saves, Ops
<1> QED
  BY <1>1, <1>4, <1>5, <1>6, <1>7, <1>8, <1>9 DEF EachDoes

-----------------------------------------------------------------------------
\* A call is sent.

LEMMA ProposeKeeps ==
    ASSUME CallsInv, NEW c \in Clients, NEW t \in Txs, client[c].pc = "submit",
           Propose(c, t), UNCHANGED <<shape, settings, issued, chain>>
    PROVE  CallsInv'
<1> DEFINE call == client[c].call
           tx == Execute(call)
           s == [call |-> call, answer |-> tx.answer, event |-> EventOf(call), valid |-> FALSE]
           p == [call |-> call.number, reads |-> tx.reads, writes |-> tx.writes]
<1>1. call \in Calls /\ ClientStands(c) /\ call # NoCall /\ call \notin SentCalls /\ call.by = c
  BY BusyCall DEF ClientStands
<1>2. Types
  BY DEF CallsInv
<1>3. phase[t] = "idle"
  BY DEF Propose
<1>4. CASE tx.error # {}
  <2>1. UNCHANGED <<ledger, sent>>
    BY <1>4 DEF Propose
  <2>2. PICK cause \in tx.error : Fail(c, cause)
    BY <1>4 DEF Propose
  <2>3. cause \in DOMAIN ErrorClass
    BY <1>1, <1>2, ExecuteDoes
  <2> QED
    BY <1>1, <2>1, <2>2, <2>3, FailKeeps
<1>5. CASE tx.error = {}
  <2>1. /\ client' = [client EXCEPT ![c].pc = "ordered"]
        /\ phase' = [phase EXCEPT ![t] = "endorsed"]
        /\ proposal' = [proposal EXCEPT ![t] = p]
        /\ sent' = [sent EXCEPT ![t] = s]
        /\ UNCHANGED world
    BY <1>5 DEF Propose, Ledger!Endorse
  <2>2. ClientBecomes(c, "ordered", client[c].call, client[c].result, client[c].error)
    BY <1>2, <2>1, AdvanceDoes DEF Types, Pcs
  <2>3. EventOf(call) \in (SUBSET Ids) \cup {NoEvent}
    <3> HIDE DEF call
    <3>1. call.ids \in SUBSET Ids
      BY <1>1, CallFields
    <3>2. EventOf(call) = NoEvent \/ EventOf(call) = call.ids
      BY <1>1, EventNames
    <3> QED
      BY <3>1, <3>2
  <2>4. tx.answer \in Results
    BY <1>1, <1>2, ExecuteDoes
  <2> DEFINE answer == tx.answer
             event == EventOf(call)
  <2>5. /\ s \in Entries /\ s.call = call /\ s.answer = answer /\ s.event = event
        /\ ~s.valid
    <3> HIDE DEF answer, event, call
    <3>1. answer \in Results /\ event \in (SUBSET Ids) \cup {NoEvent} /\ call \in Calls
      BY <1>1, <2>3, <2>4 DEF answer, event
    <3>2. s = [call |-> call, answer |-> answer, event |-> event, valid |-> FALSE]
      BY DEF answer, event
    <3> HIDE DEF s
    <3> QED
      BY <3>1, <3>2 DEF Entries
  <2>6. ProposalStands(s, p, world) /\ EntryStands(s)
    <3>1. /\ DOMAIN tx.writes = call.ids
          /\ Saves(call) => \A id \in call.ids :
                tx.writes[id] = call.number /\ tx.answer[id] = PublicPart(call.number)
          /\ call.op = "delete" => \A id \in call.ids :
                tx.writes[id] = Absent /\ tx.answer[id].number = world[id]
          /\ call.op = "migrate" => \A id \in call.ids :
                tx.writes[id] = IF world[id] = Absent THEN Absent ELSE call.number
          /\ ~Saves(call) => tx.reads = call.ids
      BY <1>1, <1>2, ExecuteDoes
    <3>2. p.reads = tx.reads /\ p.writes = tx.writes
      OBVIOUS
    <3> HIDE DEF tx, p, s
    <3> QED
      BY <2>5, <3>1, <3>2 DEF ProposalStands, EntryStands
  <2> HIDE DEF s, p, tx, answer, event
  <2>7. InFlight' = InFlight \cup {t} /\ t \notin InFlight
    BY <1>2, <1>3, <2>1 DEF InFlight, Types
  <2>8. sent'[t] = s /\ proposal'[t] = p /\ \A u \in Txs \ {t} :
            sent'[u] = sent[u] /\ proposal'[u] = proposal[u] /\ phase'[u] = phase[u]
    BY <1>2, <2>1 DEF Types
  <2>9. Types'
    <3>1. phase' \in [Txs -> Ledger!Phases]
      BY <1>2, <2>1 DEF Types, Ledger!Phases
    <3>2. proposal' = [u \in Txs |-> proposal'[u]] /\ sent' = [u \in Txs |-> sent'[u]]
      BY <1>2, <2>1 DEF Types
    <3>3. \A u \in InFlight' : sent'[u] \in Entries
      BY <1>2, <2>5, <2>7, <2>8 DEF Types, InFlight
    <3> QED
      BY <1>2, <2>1, <2>2, <3>1, <3>2, <3>3 DEF Types, ClientBecomes
  <2>10. SentCalls' = SentCalls \cup {call}
    BY <2>5, <2>7, <2>8 DEF SentCalls, InFlight
  <2>11. KnownCalls' = KnownCalls
    <3>1. \A d \in Clients : client'[d].call = client[d].call
      BY <2>2 DEF ClientBecomes
    <3> QED
      BY <1>1, <2>10, <3>1 DEF KnownCalls
  <2>12. OnceSent'
    <3>1. \A u \in InFlight : sent[u].call # call /\ sent'[u] = sent[u]
      BY <1>1, <2>7, <2>8 DEF SentCalls, InFlight
    <3>2. \A n \in DOMAIN chain : chain[n].call # call
      BY <1>1 DEF SentCalls
    <3> QED
      BY <2>5, <2>7, <2>8, <3>1, <3>2 DEF OnceSent, CallsInv
  <2>13. ASSUME NEW d \in Clients PROVE ClientStands(d)'
    <3>1. CASE d = c
      <4>1. /\ client'[c].pc = "ordered" /\ client'[c].call = call
            /\ client'[c].result = client[c].result /\ client'[c].error = client[c].error
        BY <2>2 DEF ClientBecomes
      <4> QED
        BY <1>1, <3>1, <4>1 DEF ClientStands, Returned, Succeeded
    <3>2. CASE d # c
      <4>1. client'[d] = client[d] /\ ClientStands(d)
        BY <2>2, <3>2 DEF ClientBecomes, CallsInv
      <4>2. client[d].call # NoCall => client[d].call # call
        BY <1>1, <3>2, <4>1 DEF ClientStands
      <4> QED
        BY <2>10, <4>1, <4>2, SameChain, ClientStays
    <3> QED
      BY <3>1, <3>2
  <2>14. \A e : EntryStands(e) => EntryStands(e)'
    BY DEF EntryStands, EventOf, Silent, PublicPart, IsTransient
  <2>15. ASSUME NEW u \in InFlight' PROVE SlotStands(u)'
    <3>1. CASE u = t
      BY <2>1, <2>5, <2>6, <2>8, <2>14, <3>1 DEF SlotStands
    <3>2. CASE u # t
      <4>1. u \in InFlight /\ SlotStands(u) /\ u \in Txs
        BY <2>7, <3>2 DEF CallsInv, InFlight
      <4>2. sent'[u] = sent[u] /\ proposal'[u] = proposal[u] /\ phase'[u] = phase[u]
        BY <2>8, <3>2, <4>1
      <4> QED
        BY <2>1, <2>14, <4>1, <4>2 DEF SlotStands
    <3> QED
      BY <3>1, <3>2
  <2>16. ASSUME NEW n \in DOMAIN chain' PROVE EntryStands(chain[n])'
    <3>1. EntryStands(chain[n])
      BY DEF CallsInv
    <3> QED
      BY <3>1 DEF EntryStands, EventOf, Silent, PublicPart, IsTransient
  <2>17. \A id \in Ids : RecordStands(chain, world[id], id)'
    BY <2>1 DEF CallsInv
  <2> QED
    BY <2>9, <2>11, <2>12, <2>13, <2>15, <2>16, <2>17 DEF CallsInv
<1> QED
  BY <1>4, <1>5

LEMMA SubmitKeeps ==
    ASSUME CallsInv, NEW c \in Clients, NEW t \in Txs, Submit(c, t) \/ SubmitLegacy(c, t)
    PROVE  CallsInv'
<1>1. client[c].pc = "submit" /\ UNCHANGED <<shape, settings, issued, chain>>
  BY DEF Submit, SubmitLegacy
<1>2. CASE Propose(c, t)
  BY <1>1, <1>2, ProposeKeeps
<1>3. CASE Fail(c, "Unmapped") /\ UNCHANGED <<ledger, sent>>
  <2>1. client[c].call \notin SentCalls
    BY <1>1 DEF CallsInv, ClientStands
  <2> QED
    BY <1>1, <1>3, <2>1, FailKeeps, ErrorClasses
<1> QED
  BY <1>2, <1>3 DEF Submit, SubmitLegacy

-----------------------------------------------------------------------------
\* A transaction leaves its slot.

LEMMA SettleKeeps ==
    ASSUME CallsInv, UNCHANGED <<shape, settings, issued, client, sent>>, Types',
           InFlight' \subseteq InFlight, SentCalls' \subseteq SentCalls,
           Extends(chain, chain'), OnceSent',
           \A u \in InFlight' : phase'[u] = "endorsed" =>
               ProposalStands(sent[u], proposal'[u], world'),
           \A n \in DOMAIN chain' :
               n \in DOMAIN chain \/ \E t \in InFlight :
                  /\ chain'[n].call = sent[t].call
                  /\ chain'[n].event = sent[t].event
                  /\ chain'[n].answer = sent[t].answer,
           \A id \in Ids : RecordStands(chain', world'[id], id)
    PROVE  CallsInv'
<1>1. KnownCalls' \subseteq KnownCalls
  BY DEF KnownCalls
<1>2. NumberedUpTo(KnownCalls', issued')
  BY <1>1 DEF CallsInv, NumberedUpTo
<1>3. ASSUME NEW c \in Clients PROVE ClientStands(c)'
  BY ClientStays DEF CallsInv
<1>4. \A e : EntryStands(e) => EntryStands(e)'
  BY DEF EntryStands, EventOf, Silent, PublicPart, IsTransient
<1>5. ASSUME NEW u \in InFlight' PROVE SlotStands(u)'
  <2>1. SlotStands(u)
    BY DEF CallsInv
  <2> QED
    BY <1>4, <2>1 DEF SlotStands
<1>6. ASSUME NEW n \in DOMAIN chain' PROVE EntryStands(chain[n])'
  <2>1. CASE n \in DOMAIN chain
    <3>1. EntryStands(chain[n]) /\ chain'[n] = chain[n]
      BY <2>1 DEF CallsInv, Extends
    <3> QED
      BY <3>1 DEF EntryStands, EventOf, Silent, PublicPart, IsTransient
  <2>2. CASE n \notin DOMAIN chain
    <3>1. PICK t \in InFlight :
            /\ chain'[n].call = sent[t].call
            /\ chain'[n].event = sent[t].event
            /\ chain'[n].answer = sent[t].answer
      BY <2>2
    <3>2. EntryStands(sent[t])
      BY DEF CallsInv, SlotStands
    <3> QED
      BY <3>1, <3>2 DEF EntryStands, EventOf, Silent, PublicPart, IsTransient
  <2> QED
    BY <2>1, <2>2
<1>7. \A id \in Ids : RecordStands(chain, world[id], id)'
  OBVIOUS
<1> QED
  BY <1>2, <1>3, <1>5, <1>6, <1>7 DEF CallsInv

\* An entry that changes nothing.
LEMMA RecordStaysInvalid ==
    ASSUME NEW ch, NEW longer, NEW n, NEW record, NEW id, Extends(ch, longer),
           DOMAIN longer = DOMAIN ch \cup {n}, n \notin DOMAIN ch => ~longer[n].valid,
           RecordStands(ch, record, id)
    PROVE  RecordStands(longer, record, id)
BY DEF RecordStands, Extends

LEMMA LoseKeeps ==
    ASSUME CallsInv, NEW t \in Txs, Lose(t)
    PROVE  CallsInv'
<1>1. /\ phase[t] = "endorsed"
      /\ phase' = [phase EXCEPT ![t] = "idle"]
      /\ proposal' = [proposal EXCEPT ![t] = NoProposal]
      /\ UNCHANGED <<world, shape, settings, issued, client, sent, chain>>
  BY DEF Lose, Ledger!Abandon
<1>2. Types
  BY DEF CallsInv
<1>3. InFlight' = InFlight \ {t}
  BY <1>1, <1>2 DEF InFlight, Types
<1>4. SentCalls' \subseteq SentCalls /\ OnceSent'
  BY <1>1, <1>3 DEF SentCalls, CallsInv, OnceSent
<1>5. Types'
  BY <1>1, <1>2, <1>3 DEF Types, Ledger!Phases
<1>6. ASSUME NEW u \in InFlight', phase'[u] = "endorsed"
      PROVE  ProposalStands(sent[u], proposal'[u], world')
  <2>1. u # t /\ u \in InFlight /\ u \in Txs
    BY <1>3 DEF InFlight
  <2>2. phase'[u] = phase[u] /\ proposal'[u] = proposal[u]
    BY <1>1, <1>2, <2>1 DEF Types
  <2> QED
    BY <1>1, <1>6, <2>1, <2>2 DEF CallsInv, SlotStands
<1>7. \A id \in Ids : RecordStands(chain', world'[id], id)
  BY <1>1 DEF CallsInv
<1> QED
  BY <1>1, <1>3, <1>4, <1>5, <1>6, <1>7, SameChain, SettleKeeps

\* The slot's transaction is in a block: what follows for the calls.
LEMMA MovedToChain ==
    ASSUME CallsInv, NEW t \in InFlight, NEW e \in Entries,
           e.call = sent[t].call, e.event = sent[t].event, e.answer = sent[t].answer,
           chain' = Append(chain, e), sent' = sent, InFlight' = InFlight \ {t}
    PROVE  /\ Extends(chain, chain') /\ chain' \in Seq(Entries)
           /\ SentCalls' \subseteq SentCalls
           /\ OnceSent'
           /\ \A n \in DOMAIN chain' :
                 n \in DOMAIN chain \/ \E u \in InFlight :
                    /\ chain'[n].call = sent[u].call
                    /\ chain'[n].event = sent[u].event
                    /\ chain'[n].answer = sent[u].answer
<1> DEFINE last == Len(chain')
<1>1. /\ Extends(chain, chain')
      /\ chain' \in Seq(Entries)
      /\ DOMAIN chain' = DOMAIN chain \cup {last}
      /\ chain'[last] = e
      /\ last \notin DOMAIN chain
  <2>1. chain \in Seq(Entries)
    BY DEF CallsInv, Types
  <2>2. Extends(chain, chain') /\ chain' \in Seq(Entries)
    BY <2>1, AppendExtends
  <2>3. DOMAIN chain' = DOMAIN chain \cup {last} /\ chain'[last] = e
    BY <2>1, AppendExtends
  <2>4. last \notin DOMAIN chain
    BY <2>1, AppendExtends
  <2> QED
    BY <2>2, <2>3, <2>4
<1> HIDE DEF last
<1>3. \A n \in DOMAIN chain : chain'[n] = chain[n]
  BY <1>1 DEF Extends
<1>4. SentCalls' \subseteq SentCalls
  BY <1>1, <1>3 DEF SentCalls
<1>5. OnceSent'
  <2>1. \A u, v \in InFlight' : sent'[u].call = sent'[v].call => u = v
    BY DEF CallsInv, OnceSent
  <2>2. \A u \in InFlight', n \in DOMAIN chain' : chain'[n].call # sent'[u].call
    BY <1>1, <1>3 DEF CallsInv, OnceSent
  <2>3. \A m, n \in DOMAIN chain' : chain'[m].call = chain'[n].call => m = n
    BY <1>1, <1>3 DEF CallsInv, OnceSent
  <2> QED
    BY <2>1, <2>2, <2>3 DEF OnceSent
<1> QED
  BY <1>1, <1>3, <1>4, <1>5

LEMMA RejectKeeps ==
    ASSUME CallsInv, NEW t \in Txs, Reject(t)
    PROVE  CallsInv'
<1>1. /\ phase[t] = "stale"
      /\ phase' = [phase EXCEPT ![t] = "idle"]
      /\ chain' = Append(chain, sent[t])
      /\ UNCHANGED <<world, proposal, shape, settings, issued, client, sent>>
  BY DEF Reject, Ledger!CommitInvalid
<1>2. Types
  BY DEF CallsInv
<1>3. InFlight' = InFlight \ {t} /\ t \in InFlight
  BY <1>1, <1>2 DEF InFlight, Types
<1>4. sent[t] \in Entries /\ ~sent[t].valid
  BY <1>2, <1>3 DEF Types, CallsInv, SlotStands
<1>5. /\ Extends(chain, chain') /\ chain' \in Seq(Entries)
      /\ SentCalls' \subseteq SentCalls
      /\ OnceSent'
      /\ \A n \in DOMAIN chain' :
            n \in DOMAIN chain \/ \E u \in InFlight :
               /\ chain'[n].call = sent[u].call
               /\ chain'[n].event = sent[u].event
               /\ chain'[n].answer = sent[u].answer
  BY <1>1, <1>3, <1>4, MovedToChain
<1>6. Types'
  BY <1>1, <1>2, <1>3, <1>5 DEF Types, Ledger!Phases
<1>7. ASSUME NEW u \in InFlight', phase'[u] = "endorsed"
      PROVE  ProposalStands(sent[u], proposal'[u], world')
  <2>1. u # t /\ u \in InFlight /\ u \in Txs
    BY <1>3 DEF InFlight
  <2>2. phase'[u] = phase[u] /\ proposal'[u] = proposal[u]
    BY <1>1, <1>2, <2>1 DEF Types
  <2> QED
    BY <1>1, <1>7, <2>1, <2>2 DEF CallsInv, SlotStands
<1>8. ASSUME NEW id \in Ids PROVE RecordStands(chain', world'[id], id)
  <2>1. DOMAIN chain' = DOMAIN chain \cup {Len(chain')} /\ chain'[Len(chain')] = sent[t]
    BY <1>1, <1>2, <1>4, AppendExtends DEF Types
  <2>2. RecordStands(chain, world[id], id)
    BY DEF CallsInv
  <2>3. RecordStands(chain', world[id], id)
    BY <1>4, <1>5, <2>1, <2>2, RecordStaysInvalid
  <2> QED
    BY <1>1, <2>3
<1> QED
  BY <1>1, <1>3, <1>5, <1>6, <1>7, <1>8, SettleKeeps

\* The record id after the commit of the entry e.
LEMMA RecordCommitted ==
    ASSUME NEW ch \in Seq(Entries), NEW e \in Entries, e.valid,
           NEW longer, longer = Append(ch, e), NEW id, NEW old, NEW record,
           RecordStands(ch, old, id),
           id \notin e.call.ids => record = old,
           id \in e.call.ids =>
              /\ Saves(e.call) => record = e.call.number
              /\ e.call.op = "delete" => record = Absent
              /\ e.call.op = "migrate" =>
                    record = IF old = Absent THEN Absent ELSE e.call.number
    PROVE  RecordStands(longer, record, id)
<1> DEFINE last == Len(longer)
<1>1. Extends(ch, longer) /\ DOMAIN longer = DOMAIN ch \cup {last} /\ longer[last] = e
  <2>1. Extends(ch, longer)
    BY AppendExtends
  <2>2. DOMAIN longer = DOMAIN ch \cup {last}
    BY AppendExtends
  <2>3. longer[last] = e
    BY AppendExtends
  <2> QED
    BY <2>1, <2>2, <2>3
<1>2. \A n \in DOMAIN ch : n < last /\ n \in Nat
  OBVIOUS
<1>3. last \in Nat /\ \A n \in DOMAIN longer : n \in Nat /\ n <= last
  OBVIOUS
<1>4. e.call \in Calls
  BY DEF Entries
<1>5. e.call.op \in Ops /\ e.call.number # Absent
  BY <1>4, CallFields, CallsAssumption
<1> HIDE DEF last
<1>6. \A n \in DOMAIN ch : n \in DOMAIN longer /\ longer[n] = ch[n]
  BY <1>1 DEF Extends
<1>7. ASSUME record \notin {Absent, 0}
      PROVE  \E n \in DOMAIN longer : longer[n].valid /\ longer[n].call.number = record
  <2>1. CASE record = old
    BY <1>6, <1>7, <2>1 DEF RecordStands
  <2>2. CASE record # old
    <3>1. record = e.call.number
      BY <1>5, <1>7, <2>2 DEF Ops, Saves
    <3> QED
      BY <1>1, <3>1
  <2> QED
    BY <2>1, <2>2
<1>8. ASSUME NEW m \in DOMAIN longer, longer[m].valid, id \in longer[m].call.ids,
             record # Absent
      PROVE  \E n \in DOMAIN longer : n >= m /\ longer[n].call.number = record
  <2>1. CASE id \in e.call.ids
    <3>1. record = e.call.number
      BY <1>5, <1>8, <2>1 DEF Ops, Saves
    <3> QED
      BY <1>1, <1>3, <3>1
  <2>2. CASE id \notin e.call.ids
    <3>1. m \in DOMAIN ch /\ longer[m] = ch[m] /\ record = old
      BY <1>1, <1>6, <1>8, <2>2
    <3>2. PICK n \in DOMAIN ch : n >= m /\ ch[n].call.number = record
      BY <1>8, <3>1 DEF RecordStands
    <3> QED
      BY <1>6, <3>2
  <2> QED
    BY <2>1, <2>2
<1>9. ASSUME NEW m \in DOMAIN longer, longer[m].valid, id \in longer[m].call.ids,
             record = Absent, Saves(longer[m].call)
      PROVE  \E n \in DOMAIN longer :
                /\ n > m /\ longer[n].valid /\ longer[n].call.op = "delete"
                /\ id \in longer[n].call.ids
  <2>1. m \in DOMAIN ch /\ longer[m] = ch[m]
    <3>1. m # last
      BY <1>1, <1>5, <1>9
    <3> QED
      BY <1>1, <1>6, <3>1
  <2>2. CASE id \in e.call.ids /\ e.call.op = "delete"
    <3>1. last > m
      BY <1>2, <1>3, <2>1
    <3> QED
      BY <1>1, <2>2, <3>1
  <2>3. CASE id \notin e.call.ids \/ e.call.op # "delete"
    <3>1. old = Absent
      BY <1>5, <1>9, <2>3 DEF Ops, Saves
    <3>2. PICK n \in DOMAIN ch :
            /\ n > m /\ ch[n].valid /\ ch[n].call.op = "delete"
            /\ id \in ch[n].call.ids
      BY <1>9, <2>1, <3>1 DEF RecordStands
    <3> QED
      BY <1>6, <3>2
  <2> QED
    BY <2>2, <2>3
<1> QED
  BY <1>7, <1>8, <1>9 DEF RecordStands

LEMMA CommitKeeps ==
    ASSUME CallsInv, NEW t \in Txs, Commit(t)
    PROVE  CallsInv'
<1> DEFINE s == sent[t]
           e == [s EXCEPT !.valid = TRUE]
           writes == proposal[t].writes
           stale == Ledger!ReadersOf(DOMAIN writes) \ {t}
<1>1. /\ phase[t] = "endorsed"
      /\ world' = [k \in Ids |-> IF k \in DOMAIN writes THEN writes[k] ELSE world[k]]
      /\ phase' = [u \in Txs |-> IF u = t THEN "idle"
                                 ELSE IF u \in stale THEN "stale" ELSE phase[u]]
      /\ proposal' = [u \in Txs |-> IF u = t \/ u \in stale
                                    THEN NoProposal ELSE proposal[u]]
      /\ chain' = Append(chain, e)
      /\ UNCHANGED <<shape, settings, issued, client, sent>>
  BY DEF Commit, Ledger!CommitValid, Keys
<1>2. Types /\ chain \in Seq(Entries)
  BY DEF CallsInv, Types
<1>3. InFlight' = InFlight \ {t} /\ t \in InFlight
  <2>1. \A u \in stale : phase[u] = "endorsed"
    BY DEF Ledger!ReadersOf
  <2> HIDE DEF stale
  <2> QED
    BY <1>1, <2>1 DEF InFlight
<1>4. s \in Entries /\ ProposalStands(s, proposal[t], world)
  BY <1>1, <1>2, <1>3 DEF Types, CallsInv, SlotStands
<1>5. e \in Entries /\ e.call = s.call /\ e.event = s.event /\ e.answer = s.answer /\ e.valid
  <2> HIDE DEF s
  <2> QED
    BY <1>4 DEF Entries
<1>6. s.call \in Calls
  BY <1>4 DEF Entries
<1> HIDE DEF e, stale, writes
<1>7. /\ Extends(chain, chain') /\ chain' \in Seq(Entries)
      /\ SentCalls' \subseteq SentCalls
      /\ OnceSent'
      /\ \A n \in DOMAIN chain' :
            n \in DOMAIN chain \/ \E u \in InFlight :
               /\ chain'[n].call = sent[u].call
               /\ chain'[n].event = sent[u].event
               /\ chain'[n].answer = sent[u].answer
  BY <1>1, <1>3, <1>5, MovedToChain
<1>8. /\ DOMAIN writes = s.call.ids
      /\ Saves(s.call) => \A id \in s.call.ids : writes[id] = s.call.number
      /\ s.call.op = "delete" => \A id \in s.call.ids : writes[id] = Absent
      /\ s.call.op = "migrate" => \A id \in s.call.ids :
            writes[id] = IF world[id] = Absent THEN Absent ELSE s.call.number
  BY <1>4 DEF ProposalStands, writes
<1> HIDE DEF s
<1>9. Types'
  <2>1. \A id \in Ids : world'[id] \in Numbers
    <3>1. s.call.number \in Numbers /\ Absent \in Numbers /\ s.call.op \in Ops
      BY <1>6, CallFields DEF Numbers
    <3>2. \A id \in Ids : world[id] \in Numbers
      BY <1>2 DEF Types
    <3>3. \A id \in DOMAIN writes : writes[id] \in Numbers
      BY <1>8, <3>1 DEF Ops, Saves
    <3> QED
      BY <1>1, <3>2, <3>3
  <2>2. world' \in [Ids -> Numbers]
    BY <1>1, <2>1
  <2>3. phase' \in [Txs -> Ledger!Phases]
    BY <1>1, <1>2 DEF Types, Ledger!Phases
  <2>4. proposal' = [u \in Txs |-> proposal'[u]]
    BY <1>1
  <2> QED
    BY <1>1, <1>2, <1>3, <1>7, <2>2, <2>3, <2>4 DEF Types
<1>10. ASSUME NEW u \in InFlight', phase'[u] = "endorsed"
       PROVE  ProposalStands(sent[u], proposal'[u], world')
  <2>1. u \in Txs /\ u # t /\ u \in InFlight
    BY <1>3 DEF InFlight
  <2>2. phase[u] = "endorsed" /\ u \notin stale /\ proposal'[u] = proposal[u]
    BY <1>1, <1>10, <2>1
  <2>3. proposal[u].reads \cap DOMAIN writes = {}
    BY <2>1, <2>2 DEF Ledger!ReadersOf, stale
  <2>4. ProposalStands(sent[u], proposal[u], world)
    BY <2>1, <2>2 DEF CallsInv, SlotStands
  <2>5. sent[u].call.ids \subseteq Ids /\ sent[u].call.op \in Ops
    BY <1>2, <2>1, CallFields DEF Types, Entries
  <2>6. ~Saves(sent[u].call) => \A id \in sent[u].call.ids : world'[id] = world[id]
    BY <1>1, <2>3, <2>4, <2>5 DEF ProposalStands
  <2>7. sent[u].call.op \in {"delete", "migrate"} => ~Saves(sent[u].call)
    BY DEF Saves
  <2> QED
    BY <2>2, <2>4, <2>6, <2>7 DEF ProposalStands
<1>11. ASSUME NEW id \in Ids PROVE RecordStands(chain', world'[id], id)
  <2>1. RecordStands(chain, world[id], id)
    BY DEF CallsInv
  <2>2. world'[id] = IF id \in s.call.ids THEN writes[id] ELSE world[id]
    BY <1>1, <1>8
  <2>3. id \notin e.call.ids => world'[id] = world[id]
    BY <1>5, <2>2
  <2>4. id \in e.call.ids =>
          /\ Saves(e.call) => world'[id] = e.call.number
          /\ e.call.op = "delete" => world'[id] = Absent
          /\ e.call.op = "migrate" =>
                world'[id] = IF world[id] = Absent THEN Absent ELSE e.call.number
    BY <1>5, <1>8, <2>2
  <2> QED
    BY <1>1, <1>2, <1>5, <2>1, <2>3, <2>4, RecordCommitted
<1> QED
  BY <1>1, <1>3, <1>7, <1>9, <1>10, <1>11, SettleKeeps

-----------------------------------------------------------------------------
\* The first layer is inductive.

CallsNext ==
    \/ \E c \in Clients :
          \/ Start(c)
          \/ ReadBefore(c)
          \/ \E t \in Txs : Submit(c, t) \/ SubmitLegacy(c, t)
          \/ MigrationFails(c)
          \/ Receive(c)
          \/ ReadAfter(c)
          \/ Deadline(c)
    \/ \E t \in Txs : Settle(t)

LEMMA InitCallsInv == CallsInit => CallsInv
<1> SUFFICES ASSUME CallsInit PROVE CallsInv
  OBVIOUS
<1>1. InFlight = {} /\ DOMAIN chain = {}
  BY DEF CallsInit, InFlight
<1>2. Idle \in ClientRecords
  BY EmptyResult DEF Idle, ClientRecords, Pcs, Errors
<1>3. shape \in Shapes
  BY CallsAssumption DEF CallsInit, Shapes
<1>4. world \in [Ids -> Numbers] /\ \A id \in Ids : world[id] \in {Absent, 0}
  BY CallsAssumption DEF CallsInit, Numbers
<1>5. Types
  <2>1. chain \in Seq(Entries) /\ issued \in 0..MaxCalls
    BY CallsAssumption DEF CallsInit
  <2>2. phase \in [Txs -> Ledger!Phases] /\ client \in [Clients -> ClientRecords]
    BY <1>2 DEF CallsInit, Ledger!Phases
  <2>3. proposal = [t \in Txs |-> proposal[t]] /\ sent = [t \in Txs |-> sent[t]]
    BY DEF CallsInit
  <2> QED
    BY <1>1, <1>3, <1>4, <2>1, <2>2, <2>3 DEF Types
<1>6. KnownCalls = {}
  BY <1>1 DEF CallsInit, KnownCalls, SentCalls, Idle
<1>7. \A c \in Clients : ClientStands(c)
  BY DEF CallsInit, Idle, ClientStands, Returned, Succeeded
<1>8. \A id \in Ids : RecordStands(chain, world[id], id)
  BY <1>1, <1>4 DEF RecordStands
<1> QED
  BY <1>1, <1>5, <1>6, <1>7, <1>8 DEF CallsInv, NumberedUpTo, OnceSent

LEMMA CallsStep ==
    ASSUME CallsInv, CallsNext
    PROVE  CallsInv'
<1>1. ASSUME NEW c \in Clients,
             \/ Start(c) \/ ReadBefore(c) \/ MigrationFails(c)
             \/ Receive(c) \/ ReadAfter(c) \/ Deadline(c)
      PROVE  CallsInv'
  BY <1>1, StartKeeps, ReadBeforeKeeps, MigrationFailsKeeps, ReceiveKeeps,
     ReadAfterKeeps, DeadlineKeeps
<1>2. ASSUME NEW c \in Clients, NEW t \in Txs, Submit(c, t) \/ SubmitLegacy(c, t)
      PROVE  CallsInv'
  BY <1>2, SubmitKeeps
<1>3. ASSUME NEW t \in Txs, Settle(t)
      PROVE  CallsInv'
  BY <1>3, CommitKeeps, RejectKeeps, LoseKeeps DEF Settle
<1> QED
  BY <1>1, <1>2, <1>3 DEF CallsNext

LEMMA CallsStutter ==
    ASSUME CallsInv, UNCHANGED callVars
    PROVE  CallsInv'
<1>1. UNCHANGED <<world, phase, proposal, shape, settings, issued, client, sent, chain>>
  BY DEF callVars, ledger
<1>2. InFlight' = InFlight
  BY <1>1 DEF InFlight
<1>3. SentCalls' = SentCalls
  BY <1>1, <1>2 DEF SentCalls
<1>4. Types' /\ OnceSent'
  BY <1>1, <1>2 DEF CallsInv, Types, OnceSent
<1>5. \A u \in InFlight' : phase'[u] = "endorsed" =>
          ProposalStands(sent[u], proposal'[u], world')
  BY <1>1, <1>2 DEF CallsInv, SlotStands
<1>6. \A id \in Ids : RecordStands(chain', world'[id], id)
  BY <1>1 DEF CallsInv
<1> QED
  BY <1>1, <1>2, <1>3, <1>4, <1>5, <1>6, SameChain, SettleKeeps

-----------------------------------------------------------------------------
\* The second layer is inductive, given the first.

\* A step of the calls only adds to the chain.
LEMMA ChainGrows ==
    ASSUME CallsInv, CallsNext
    PROVE  Extends(chain, chain') /\ UNCHANGED <<shape, settings>>
<1>1. CASE UNCHANGED <<chain, shape, settings>>
  BY <1>1, SameChain
<1>2. ASSUME NEW t \in Txs, Commit(t) \/ Reject(t)
      PROVE  Extends(chain, chain') /\ UNCHANGED <<shape, settings>>
  <2>1. PICK e : chain' = Append(chain, e)
    BY <1>2 DEF Commit, Reject
  <2>2. Extends(chain, chain')
    <3>1. chain \in Seq(Entries)
      BY DEF CallsInv, Types
    <3>2. DOMAIN chain = 1..Len(chain) /\ DOMAIN chain' = 1..(Len(chain) + 1)
          /\ Len(chain) \in Nat
      BY <2>1, <3>1
    <3>3. \A n \in 1..Len(chain) : chain'[n] = chain[n]
      BY <2>1, <3>1
    <3> QED
      BY <3>2, <3>3 DEF Extends
  <2> QED
    BY <1>2, <2>2 DEF Commit, Reject
<1>3. ASSUME NEW c \in Clients, Start(c)
      PROVE  UNCHANGED <<chain, shape, settings>>
  BY <1>3 DEF Start, Create, Update, Delete, CreateAll, UpdateAll, DeleteAll, Migrate, Begin
<1>4. ASSUME NEW c \in Clients,
             \/ ReadBefore(c) \/ MigrationFails(c) \/ Receive(c) \/ ReadAfter(c) \/ Deadline(c)
             \/ \E t \in Txs : Submit(c, t) \/ SubmitLegacy(c, t)
      PROVE  UNCHANGED <<chain, shape, settings>>
  BY <1>4 DEF ReadBefore, MigrationFails, Receive, ReadAfter, Deadline, Submit, SubmitLegacy
<1>5. ASSUME NEW t \in Txs, Lose(t)
      PROVE  UNCHANGED <<chain, shape, settings>>
  BY <1>5 DEF Lose
<1> QED
  BY <1>1, <1>2, <1>3, <1>4, <1>5 DEF CallsNext, Settle

\* The step of one client leaves the others alone; the client was busy with the
\* call it still has, or the call is new.
LEMMA StepOfOne ==
    ASSUME CallsInv, NEW c \in Clients,
           \/ ReadBefore(c) \/ MigrationFails(c) \/ Receive(c) \/ ReadAfter(c) \/ Deadline(c)
           \/ \E t \in Txs : Submit(c, t) \/ SubmitLegacy(c, t)
    PROVE  /\ client[c].pc # "idle"
           /\ client'[c].call = client[c].call
           /\ \A d \in Clients \ {c} : client'[d] = client[d]
<1> DEFINE Moved == /\ client'[c].call = client[c].call
                    /\ \A d \in Clients \ {c} : client'[d] = client[d]
<1>1. client \in [Clients -> ClientRecords] /\ client[c] \in ClientRecords
  BY DEF CallsInv, Types
<1>2. \A cause : Fail(c, cause) => Moved
  BY <1>1 DEF Fail, ClientRecords
<1>3. \A result : Finish(c, result) => Moved
  BY <1>1 DEF Finish, ClientRecords
<1>4. \A pc : client' = [client EXCEPT ![c].pc = pc] => Moved
  BY <1>1 DEF ClientRecords
<1>5. \A pc, result :
        client' = [client EXCEPT ![c].pc = pc, ![c].result = result] => Moved
  BY <1>1 DEF ClientRecords
<1> HIDE DEF Moved
<1>6. CASE ReadBefore(c)
  <2>1. client[c].pc = "hydrate" /\ Moved
    BY <1>2, <1>5, <1>6 DEF ReadBefore
  <2> QED
    BY <2>1 DEF Moved
<1>7. CASE MigrationFails(c)
  <2>1. client[c].pc = "submit" /\ Moved
    BY <1>2, <1>7 DEF MigrationFails
  <2> QED
    BY <2>1 DEF Moved
<1>8. CASE Receive(c)
  <2>1. client[c].pc = "ordered" /\ Moved
    BY <1>2, <1>3, <1>4, <1>8 DEF Receive
  <2> QED
    BY <2>1 DEF Moved
<1>9. CASE ReadAfter(c)
  <2>1. client[c].pc = "refresh" /\ Moved
    BY <1>2, <1>3, <1>9 DEF ReadAfter
  <2> QED
    BY <2>1 DEF Moved
<1>10. CASE Deadline(c)
  <2>1. client[c].pc # "idle" /\ Moved
    BY <1>2, <1>10 DEF Deadline
  <2> QED
    BY <2>1 DEF Moved
<1>11. ASSUME NEW t \in Txs, Submit(c, t) \/ SubmitLegacy(c, t)
       PROVE  client[c].pc = "submit" /\ Moved
  <2>1. Propose(c, t) => Moved
    BY <1>2, <1>4 DEF Propose
  <2> QED
    BY <1>2, <1>11, <2>1 DEF Submit, SubmitLegacy
<1>12. CASE \E t \in Txs : Submit(c, t) \/ SubmitLegacy(c, t)
  BY <1>11, <1>12 DEF Moved
<1> QED
  BY <1>6, <1>7, <1>8, <1>9, <1>10, <1>12

LEMMA StartOfOne ==
    ASSUME CallsInv, NEW c \in Clients, Start(c)
    PROVE  /\ client'[c].call \notin KnownCalls
           /\ \A d \in Clients \ {c} : client'[d] = client[d]
<1>1. PICK op, bulk, ids, pc : Begin(c, op, bulk, ids, pc)
  BY DEF Start, Create, Update, Delete, CreateAll, UpdateAll, DeleteAll, Migrate
<1>2. client \in [Clients -> ClientRecords] /\ issued \in 0..MaxCalls
  BY DEF CallsInv, Types
<1> DEFINE call == [op |-> op, bulk |-> bulk, ids |-> ids, by |-> c, number |-> issued']
           r == [Idle EXCEPT !.pc = pc, !.call = call]
<1>3. client' = [client EXCEPT ![c] = r] /\ issued' = issued + 1
  BY <1>1 DEF Begin
<1>4. r.call = call /\ call.number = issued + 1
  BY <1>3 DEF Idle
<1> HIDE DEF r
<1>5. client'[c].call.number = issued + 1 /\ \A d \in Clients \ {c} : client'[d] = client[d]
  BY <1>2, <1>3, <1>4
<1>6. \A a \in KnownCalls : a.number <= issued
  BY DEF CallsInv, NumberedUpTo
<1> QED
  BY <1>2, <1>5, <1>6

\* The observers of one client, when its listener does not move.
LEMMA ObserversStay ==
    ASSUME CallsInv, CallsInv', NEW c \in Clients, ObserversStand(c),
           Extends(chain, chain'), UNCHANGED <<shape, settings>>,
           listener'[c] = listener[c], position'[c] = position[c],
           heard'[c] = heard[c], told'[c] = told[c],
           \/ pending'[c] = pending[c]
           \/ /\ pending'[c] = pending[c] \cup {client[c].call}
              /\ client[c].pc # "idle" /\ client'[c].pc = "idle"
              /\ TellsLocally(c) /\ CommittedIn(chain', client[c].call),
           client'[c].pc # "idle" => client'[c].call \notin Notices(c)
    PROVE  ObserversStand(c)'
<1>1. chain \in Seq(Entries) /\ chain' \in Seq(Entries)
  BY DEF CallsInv, Types
<1>2. position'[c] \in 0..Len(chain')
  <2>1. DOMAIN chain = 1..Len(chain) /\ DOMAIN chain' = 1..Len(chain')
        /\ Len(chain) \in Nat /\ Len(chain') \in Nat
    BY <1>1
  <2>2. Len(chain) <= Len(chain')
    BY <2>1 DEF Extends
  <2> QED
    BY <2>1, <2>2 DEF ObserversStand
<1>3. ASSUME NEW i \in DOMAIN heard'[c] PROVE Heard(c, i)'
  <2>1. Heard(c, i) /\ position[c] \in 0..Len(chain)
    BY DEF ObserversStand
  <2>2. heard[c][i].at \in DOMAIN chain
    BY <1>1, <2>1 DEF Heard
  <2>3. chain'[heard[c][i].at] = chain[heard[c][i].at]
    BY <2>2 DEF Extends
  <2> QED
    BY <2>1, <2>3 DEF Heard, IsEvent
<1>4. \A call \in Notices(c)' : CommittedIn(chain', call) /\ TellsLocally(c)'
  <2>1. TellsLocally(c)' <=> TellsLocally(c)
    BY DEF TellsLocally, IsTransient
  <2>2. \A call \in Notices(c) : CommittedIn(chain', call) /\ TellsLocally(c)
    BY CommittedStays DEF ObserversStand
  <2> QED
    BY <2>1, <2>2 DEF Notices
<1>5. pending'[c] \cap told'[c] = {}
  BY DEF ObserversStand, Notices
<1>6. client'[c].pc # "idle" => client'[c].call \notin Notices(c)'
  BY DEF Notices
<1> QED
  BY <1>2, <1>3, <1>4, <1>5, <1>6 DEF ObserversStand

\* Calls with a notification under way, or told of, are in the chain.
LEMMA NoticesAreKnown ==
    ASSUME CallsInv, NEW c \in Clients, ObserversStand(c)
    PROVE  Notices(c) \subseteq KnownCalls
BY DEF ObserversStand, CommittedIn, KnownCalls, SentCalls

\* No client moves but c, and its observers' state is kept.
LEMMA OthersObserve ==
    ASSUME CallsInv, CallsInv', EventsInv, NEW c \in Clients,
           Extends(chain, chain'), UNCHANGED <<shape, settings, listener, position, heard, told>>,
           pending' = [d \in Clients |-> pending'[d]],
           \A d \in Clients \ {c} : client'[d] = client[d] /\ pending'[d] = pending[d],
           ObserversStand(c)'
    PROVE  EventsInv'
<1>1. ASSUME NEW d \in Clients, d # c PROVE ObserversStand(d)'
  <2>1. ObserversStand(d) /\ client'[d] = client[d] /\ pending'[d] = pending[d]
    BY <1>1 DEF EventsInv
  <2>2. client'[d].pc # "idle" => client'[d].call \notin Notices(d)
    BY <2>1 DEF ObserversStand
  <2> QED
    BY <2>1, <2>2, ObserversStay
<1> QED
  BY <1>1 DEF EventsInv

LEMMA StartObserved ==
    ASSUME CallsInv, CallsInv', EventsInv, NEW c \in Clients, Start(c), UNCHANGED eventVars
    PROVE  EventsInv'
<1>1. Extends(chain, chain') /\ UNCHANGED <<shape, settings>>
  BY ChainGrows DEF CallsNext
<1>2. UNCHANGED <<listener, position, heard, pending, told>>
  BY DEF eventVars
<1>3. client'[c].call \notin KnownCalls /\ \A d \in Clients \ {c} : client'[d] = client[d]
  BY StartOfOne
<1>4. ObserversStand(c) /\ client'[c].call \notin Notices(c)
  BY <1>3, NoticesAreKnown DEF EventsInv
<1>5. ObserversStand(c)'
  BY <1>1, <1>2, <1>4, ObserversStay
<1> QED
  BY <1>1, <1>2, <1>3, <1>5, OthersObserve DEF EventsInv

LEMMA ClientStepObserved ==
    ASSUME CallsInv, CallsInv', EventsInv, NEW c \in Clients, ClientStep(c)
    PROVE  EventsInv'
<1>1. /\ \/ ReadBefore(c) \/ MigrationFails(c) \/ Receive(c) \/ ReadAfter(c) \/ Deadline(c)
         \/ \E t \in Txs : Submit(c, t) \/ SubmitLegacy(c, t)
      /\ Wrapped(c)
      /\ UNCHANGED <<listener, position, heard, told>>
  BY DEF ClientStep
<1>2. Extends(chain, chain') /\ UNCHANGED <<shape, settings>>
  BY <1>1, ChainGrows DEF CallsNext
<1>3. /\ client[c].pc # "idle"
      /\ client'[c].call = client[c].call
      /\ \A d \in Clients \ {c} : client'[d] = client[d]
  BY <1>1, StepOfOne
<1>4. ObserversStand(c) /\ pending = [d \in Clients |-> pending[d]]
  BY DEF EventsInv
<1> DEFINE starts == TellsLocally(c) /\ client[c].pc # "idle" /\ Succeeded(c)'
                     /\ client[c].call.op # "migrate"
<1>5. pending' = [pending EXCEPT ![c] = IF starts THEN @ \cup {client[c].call} ELSE @]
  BY <1>1 DEF Wrapped
<1>6. starts => /\ client'[c].pc = "idle" /\ TellsLocally(c)
                /\ CommittedIn(chain', client[c].call)
  BY <1>3 DEF CallsInv, ClientStands, Succeeded, Returned
<1> HIDE DEF starts
<1>7. /\ pending'[c] = IF starts THEN pending[c] \cup {client[c].call} ELSE pending[c]
      /\ \A d \in Clients \ {c} : pending'[d] = pending[d]
      /\ pending' = [d \in Clients |-> pending'[d]]
  BY <1>4, <1>5
<1>8. client'[c].pc # "idle" => client'[c].call \notin Notices(c)
  BY <1>3, <1>4 DEF ObserversStand
<1>9. ObserversStand(c)'
  BY <1>1, <1>2, <1>3, <1>4, <1>6, <1>7, <1>8, ObserversStay
<1> QED
  BY <1>1, <1>2, <1>3, <1>7, <1>9, OthersObserve

LEMMA SettleObserved ==
    ASSUME CallsInv, CallsInv', EventsInv, NEW t \in Txs, Settle(t), UNCHANGED eventVars
    PROVE  EventsInv'
<1>1. Extends(chain, chain') /\ UNCHANGED <<shape, settings>>
  BY ChainGrows DEF CallsNext
<1>2. UNCHANGED <<listener, position, heard, pending, told, client>>
  BY DEF eventVars, Settle, Commit, Reject, Lose
<1>3. ASSUME NEW c \in Clients PROVE ObserversStand(c)'
  <2>1. ObserversStand(c)
    BY DEF EventsInv
  <2>2. client'[c].pc # "idle" => client'[c].call \notin Notices(c)
    BY <1>2, <2>1 DEF ObserversStand
  <2> QED
    BY <1>1, <1>2, <2>1, <2>2, ObserversStay
<1> QED
  BY <1>2, <1>3 DEF EventsInv

LEMMA ListenObserved ==
    ASSUME CallsInv, EventsInv, NEW c \in Clients, Listen(c)
    PROVE  EventsInv'
<1> DEFINE n == position[c] + 1
           h == IF IsEvent(n) THEN Append(heard[c], Parsed(n)) ELSE heard[c]
<1>1. /\ listener[c] = "on" /\ n <= Len(chain)
      /\ position' = [position EXCEPT ![c] = n]
      /\ heard' = [heard EXCEPT ![c] = h]
      /\ UNCHANGED <<callVars, listener, pending, told>>
  BY DEF Listen
<1>2. UNCHANGED <<world, phase, proposal, shape, settings, issued, client, sent, chain,
                  listener, pending, told>>
  BY <1>1 DEF callVars, ledger
<1>3. ObserversStand(c) /\ chain \in Seq(Entries) /\ Len(chain) \in Nat
  BY DEF EventsInv, CallsInv, Types
<1>4. position[c] \in Nat /\ n \in 1..Len(chain) /\ ~settings.synthetic
  BY <1>1, <1>3 DEF ObserversStand
<1>5. position'[c] = n /\ heard'[c] = h
  BY <1>1 DEF EventsInv
<1> DEFINE E == [at : Nat, ids : (SUBSET Ids) \cup {NoEvent}]
<1>6. Parsed(n) \in E /\ Parsed(n).at = n /\ Parsed(n).ids = chain[n].event
  <2>1. chain[n] \in Entries
    BY <1>3, <1>4
  <2> HIDE DEF n
  <2>2. chain[n].event \in (SUBSET Ids) \cup {NoEvent}
    BY <2>1 DEF Entries
  <2> QED
    BY <1>4, <2>2 DEF Parsed
<1>7. heard[c] \in Seq(E) /\ \A i \in DOMAIN heard[c] : Heard(c, i)
  BY <1>3 DEF ObserversStand
<1> HIDE DEF n, E
<1>8. /\ h \in Seq(E)
      /\ \A i \in DOMAIN h :
            \/ i \in DOMAIN heard[c] /\ h[i] = heard[c][i]
            \/ IsEvent(n) /\ h[i] = Parsed(n) /\ \A j \in DOMAIN h : j <= i
  BY <1>6, <1>7
<1>9. \A i \in DOMAIN heard[c] : heard[c][i].at \in Nat /\ heard[c][i].at < n
  BY <1>4, <1>7 DEF Heard, n
<1> HIDE DEF h
<1>10. ASSUME NEW i \in DOMAIN h
       PROVE  h[i].at \in 1..n /\ IsEvent(h[i].at) /\ h[i].ids = chain[h[i].at].event
  <2>1. CASE i \in DOMAIN heard[c] /\ h[i] = heard[c][i]
    <3>1. Heard(c, i) /\ heard[c][i].at < n
      BY <1>7, <1>9, <2>1
    <3> QED
      BY <1>4, <2>1, <3>1 DEF Heard
  <2>2. CASE IsEvent(n) /\ h[i] = Parsed(n)
    BY <1>4, <1>6, <2>2
  <2> QED
    BY <1>8, <2>1, <2>2
<1>11. ASSUME NEW i \in DOMAIN h, NEW j \in DOMAIN h, i < j PROVE h[i].at < h[j].at
  <2>1. i \in DOMAIN heard[c] /\ h[i] = heard[c][i]
    <3>1. ~(j <= i)
      <4>1. i \in Nat /\ j \in Nat
        BY <1>8
      <4> QED
        BY <1>11, <4>1
    <3> QED
      BY <1>8, <3>1
  <2>2. CASE j \in DOMAIN heard[c] /\ h[j] = heard[c][j]
    BY <1>3, <1>11, <2>1, <2>2 DEF ObserversStand
  <2>3. CASE h[j] = Parsed(n)
    BY <1>6, <1>9, <2>1, <2>3
  <2> QED
    BY <1>8, <2>2, <2>3
<1>12. ObserversStand(c)'
  <2>1. position'[c] \in 0..Len(chain')
    BY <1>2, <1>4, <1>5
  <2>2. heard'[c] \in Seq(E)
    BY <1>5, <1>8
  <2>3. \A i \in DOMAIN heard'[c] : Heard(c, i)'
    BY <1>2, <1>5, <1>10 DEF Heard, IsEvent
  <2>4. \A i, j \in DOMAIN heard'[c] : i < j => heard'[c][i].at < heard'[c][j].at
    BY <1>5, <1>11
  <2>5. \A call \in Notices(c)' : CommittedIn(chain', call) /\ TellsLocally(c)'
    BY <1>2, <1>3 DEF ObserversStand, Notices, TellsLocally, IsTransient
  <2> QED
    BY <1>2, <1>3, <1>4, <2>1, <2>2, <2>3, <2>4, <2>5 DEF ObserversStand, Notices, E
<1>13. ASSUME NEW d \in Clients, d # c PROVE ObserversStand(d)'
  <2>1. ObserversStand(d) /\ position'[d] = position[d] /\ heard'[d] = heard[d]
    BY <1>1, <1>13 DEF EventsInv
  <2> QED
    BY <1>2, <2>1 DEF ObserversStand, Notices, Heard, IsEvent, TellsLocally, IsTransient
<1> QED
  BY <1>1, <1>2, <1>12, <1>13 DEF EventsInv

LEMMA CloseObserved ==
    ASSUME EventsInv, NEW c \in Clients, CloseListener(c)
    PROVE  EventsInv'
<1>1. UNCHANGED <<shape, settings, client, chain, position, heard, pending, told>>
      /\ listener[c] = "on" /\ listener' = [listener EXCEPT ![c] = "closed"]
  BY DEF CloseListener, callVars
<1>2. ASSUME NEW d \in Clients PROVE ObserversStand(d)'
  <2>1. ObserversStand(d) /\ listener'[d] \in {listener[d], "closed"}
        /\ (listener[d] = "off" => listener'[d] = "off")
    BY <1>1 DEF EventsInv
  <2> QED
    BY <1>1, <2>1 DEF ObserversStand, Notices, Heard, IsEvent, TellsLocally, IsTransient
<1> QED
  BY <1>1, <1>2 DEF EventsInv

LEMMA TellObserved ==
    ASSUME EventsInv, NEW c \in Clients, NEW call \in pending[c], TellLocal(c, call)
    PROVE  EventsInv'
<1>1. /\ UNCHANGED <<shape, settings, client, chain, listener, position, heard>>
      /\ pending' = [pending EXCEPT ![c] = @ \ {call}]
      /\ told' = [told EXCEPT ![c] = @ \cup {call}]
  BY DEF TellLocal, callVars
<1>2. ASSUME NEW d \in Clients PROVE ObserversStand(d)'
  <2>1. ObserversStand(d) /\ Notices(d)' = Notices(d) /\ pending'[d] \cap told'[d] = {}
    BY <1>1 DEF EventsInv, ObserversStand, Notices
  <2> QED
    BY <1>1, <2>1 DEF ObserversStand, Heard, IsEvent, TellsLocally, IsTransient
<1> QED
  BY <1>1, <1>2 DEF EventsInv

-----------------------------------------------------------------------------
\* Both layers hold in every reachable state.

LEMMA InitEventsInv == Init => CallsInv /\ EventsInv
<1> SUFFICES ASSUME Init PROVE CallsInv /\ EventsInv
  OBVIOUS
<1>1. CallsInv
  BY InitCallsInv DEF Init
<1>2. chain = <<>> /\ \A c \in Clients : client[c].pc = "idle"
  BY DEF Init, CallsInit, Idle
<1>3. ASSUME NEW c \in Clients PROVE ObserversStand(c)
  <2>1. listener[c] \in {"on", "off"} /\ (settings.synthetic => listener[c] = "off")
    BY DEF Init, Listens
  <2>2. position[c] = 0 /\ heard[c] = <<>> /\ Notices(c) = {}
    BY DEF Init, Notices
  <2>3. position[c] \in 0..Len(chain)
    BY <1>2, <2>2
  <2>4. DOMAIN heard[c] = {}
    BY <2>2
  <2>5. heard[c] \in Seq([at : Nat, ids : (SUBSET Ids) \cup {NoEvent}])
    BY <2>2
  <2> QED
    BY <1>2, <2>1, <2>2, <2>3, <2>4, <2>5 DEF ObserversStand, Notices
<1>4. EventsInv
  BY <1>3 DEF Init, EventsInv
<1> QED
  BY <1>1, <1>4

LEMMA BothStep ==
    ASSUME CallsInv, EventsInv, [Next]_vars
    PROVE  CallsInv' /\ EventsInv'
<1>1. ASSUME NEW c \in Clients, Start(c), UNCHANGED eventVars
      PROVE  CallsInv' /\ EventsInv'
  BY <1>1, CallsStep, StartObserved DEF CallsNext
<1>2. ASSUME NEW c \in Clients, ClientStep(c)
      PROVE  CallsInv' /\ EventsInv'
  <2>1. CallsInv'
    BY <1>2, CallsStep DEF ClientStep, CallsNext
  <2> QED
    BY <1>2, <2>1, ClientStepObserved
<1>3. ASSUME NEW c \in Clients, Listen(c)
      PROVE  CallsInv' /\ EventsInv'
  BY <1>3, CallsStutter, ListenObserved DEF Listen
<1>4. ASSUME NEW c \in Clients, CloseListener(c)
      PROVE  CallsInv' /\ EventsInv'
  BY <1>4, CallsStutter, CloseObserved DEF CloseListener
<1>5. ASSUME NEW c \in Clients, NEW call \in pending[c], TellLocal(c, call)
      PROVE  CallsInv' /\ EventsInv'
  BY <1>5, CallsStutter, TellObserved DEF TellLocal
<1>6. ASSUME NEW t \in Txs, Settle(t), UNCHANGED eventVars
      PROVE  CallsInv' /\ EventsInv'
  BY <1>6, CallsStep, SettleObserved DEF CallsNext
<1>7. CASE UNCHANGED vars
  <2>1. CallsInv'
    BY <1>7, CallsStutter DEF vars
  <2>2. UNCHANGED <<shape, settings, client, chain, listener, position, heard, pending, told>>
    BY <1>7 DEF vars, callVars, eventVars
  <2>3. ASSUME NEW d \in Clients PROVE ObserversStand(d)'
    <3>1. ObserversStand(d)
      BY DEF EventsInv
    <3> QED
      BY <2>2, <3>1 DEF ObserversStand, Notices, Heard, IsEvent, TellsLocally, IsTransient
  <2> QED
    BY <2>1, <2>2, <2>3 DEF EventsInv
<1> QED
  BY <1>1, <1>2, <1>3, <1>4, <1>5, <1>6, <1>7 DEF Next

LEMMA BothHold == Spec => [](CallsInv /\ EventsInv)
<1>1. CallsInv /\ EventsInv /\ [Next]_vars => (CallsInv /\ EventsInv)'
  BY BothStep
<1> QED
  BY <1>1, InitEventsInv, PTL DEF Spec

-----------------------------------------------------------------------------
\* What follows.

\* In every reachable state the variables have their types: a busy client works
\* on a call of its own, a record is absent, older than the behaviour or written
\* by a call that was made; a listener has not handled more than there is.
THEOREM ClientTypes == Spec => []TypeOK
<1>1. ASSUME CallsInv, EventsInv PROVE TypeOK
  <2>1. world \in [Ids -> 0..MaxCalls \cup {Absent}]
    BY <1>1 DEF CallsInv, Types, Numbers
  <2>2. ASSUME NEW c \in Clients
        PROVE  /\ client[c].pc \in {"idle", "hydrate", "submit", "ordered", "refresh"}
               /\ client[c].error \in {"none"} \cup {ErrorClass[e] : e \in DOMAIN ErrorClass}
               /\ client[c].pc # "idle" => client[c].call.by = c
    <3>1. client[c] \in ClientRecords /\ ClientStands(c)
      BY <1>1 DEF CallsInv, Types
    <3> QED
      BY <3>1 DEF ClientRecords, Pcs, Errors, ClientStands
  <2>3. CallsTypeOK
    BY <1>1, <2>1, <2>2 DEF CallsInv, Types, CallsTypeOK
  <2>4. listener \in [Clients -> {"off", "on", "closed"}]
    <3>1. \A c \in Clients : listener[c] \in {"off", "on", "closed"}
      BY <1>1 DEF EventsInv, ObserversStand
    <3> QED
      BY <1>1, <3>1 DEF EventsInv
  <2>5. ASSUME NEW c \in Clients
        PROVE  /\ position[c] \in 0..Len(chain)
               /\ pending[c] \cap told[c] = {}
               /\ settings.synthetic => listener[c] = "off" /\ heard[c] = <<>>
    BY <1>1 DEF EventsInv, ObserversStand
  <2> QED
    BY <2>3, <2>4, <2>5 DEF TypeOK
<1> QED
  BY <1>1, BothHold, PTL

\* A call returns to the application without an error only if its transaction is
\* in the chain and valid, whatever deadlines, legacy gateway, refusals and
\* other clients do in between.
THEOREM SuccessMeansCommitted == Spec => []SuccessIsCommitted
<1>1. ASSUME CallsInv PROVE SuccessIsCommitted
  <2>1. ASSUME NEW c \in Clients, Succeeded(c) PROVE Committed(client[c].call)
    <3>1. CommittedIn(chain, client[c].call)
      BY <1>1, <2>1 DEF CallsInv, ClientStands
    <3> QED
      BY <3>1 DEF CommittedIn, Committed, EntriesOf
  <2> QED
    BY <2>1 DEF SuccessIsCommitted
<1> QED
  BY <1>1, BothHold, PTL

\* A number in the chain has one place.
LEMMA PlaceIs ==
    ASSUME CallsInv, NEW n \in DOMAIN chain
    PROVE  PlaceOf(chain[n].call.number) = n
<1>1. \A m \in DOMAIN chain : chain[m].call \in KnownCalls /\ chain[m].call \in Calls
  <2>1. \A m \in DOMAIN chain : chain[m].call \in SentCalls
    BY DEF SentCalls
  <2> QED
    BY <2>1, KnownAreCalls DEF KnownCalls, CallsInv
<1>2. \A m \in DOMAIN chain : chain[m].call.number = chain[n].call.number => m = n
  BY <1>1 DEF CallsInv, NumberedUpTo, OnceSent
<1>3. chain[n].call.number # 0
  <2>1. chain[n].call.number \in 1..MaxCalls
    BY <1>1, CallFields
  <2> QED
    BY <2>1, CallsAssumption
<1>4. PlaceOf(chain[n].call.number)
        = CHOOSE m \in DOMAIN chain : chain[m].call.number = chain[n].call.number
  BY <1>3 DEF PlaceOf
<1> QED
  BY <1>2, <1>4

\* A create or an update that succeeds gives the caller whole records, each
\* written by the call itself or by one that was committed after it: the read
\* that follows the write never shows a state from before it.
THEOREM OwnWriteIsShown == Spec => []ReturnsOwnOrLater
<1>1. ASSUME CallsInv PROVE ReturnsOwnOrLater
  <2>1. ASSUME NEW c \in Clients, Succeeded(c), client[c].call.op \in {"create", "update"},
               NEW id \in client[c].call.ids
        PROVE  /\ client[c].result[id].whole
               /\ PlaceOf(client[c].result[id].number) >= PlaceOf(client[c].call.number)
    <3>1. OwnOrLaterIn(chain, client[c].call, client[c].result)
      BY <1>1, <2>1 DEF CallsInv, ClientStands, Saves
    <3>2. PICK m, n \in DOMAIN chain :
            /\ m <= n /\ chain[m].call = client[c].call
            /\ chain[n].call.number = client[c].result[id].number
      BY <3>1 DEF OwnOrLaterIn
    <3>3. PlaceOf(client[c].call.number) = m /\ PlaceOf(client[c].result[id].number) = n
      BY <1>1, <3>2, PlaceIs
    <3>4. n >= m
      BY <1>1, <3>2 DEF CallsInv, Types
    <3> QED
      BY <3>1, <3>3, <3>4 DEF OwnOrLaterIn
  <2> QED
    BY <2>1 DEF ReturnsOwnOrLater
<1> QED
  BY <1>1, BothHold, PTL

\* An error with a class of its own tells that nothing was written, except for
\* the NotFoundError of a write whose records were deleted before they were read
\* again.
THEOREM RefusalsAreHonest == Spec => []RefusalIsHonest
<1>1. ASSUME CallsInv PROVE RefusalIsHonest
  <2>1. ASSUME NEW c \in Clients, Returned(c), client[c].error # "none",
               client[c].error \notin {"TransactionTimeoutError", "InternalError"},
               Committed(client[c].call)
        PROVE  /\ client[c].error = "NotFoundError"
               /\ \E n \in DOMAIN chain :
                     /\ chain[n].valid /\ chain[n].call.op = "delete"
                     /\ n > PlaceOf(client[c].call.number)
                     /\ chain[n].call.ids \cap client[c].call.ids # {}
    <3> DEFINE call == client[c].call
    <3>1. PICK k \in DOMAIN chain : chain[k].call = call /\ chain[k].valid
      BY <2>1 DEF Committed, EntriesOf
    <3>2. \/ call \notin SentCalls \/ RejectedIn(chain, call)
          \/ client[c].error = "NotFoundError" /\ DeletedLaterIn(chain, call)
      BY <1>1, <2>1 DEF CallsInv, ClientStands, Inconclusive
    <3>3. call \in SentCalls
      BY <3>1 DEF SentCalls
    <3>4. ~RejectedIn(chain, call)
      BY <1>1, <3>1 DEF RejectedIn, CallsInv, OnceSent
    <3>5. PICK m, n \in DOMAIN chain :
            /\ m < n /\ chain[m].call = call
            /\ chain[n].valid /\ chain[n].call.op = "delete"
            /\ chain[n].call.ids \cap call.ids # {}
      BY <3>2, <3>3, <3>4 DEF DeletedLaterIn
    <3>6. PlaceOf(call.number) = m
      BY <1>1, <3>5, PlaceIs
    <3>7. n > m
      BY <1>1, <3>5 DEF CallsInv, Types
    <3> QED
      BY <3>2, <3>3, <3>4, <3>5, <3>6, <3>7
  <2> QED
    BY <2>1 DEF RefusalIsHonest
<1> QED
  BY <1>1, BothHold, PTL

\* A delete that is committed answers with the records it removes: none of them
\* was written between its endorsement and its commit.
THEOREM DeletesAnswerTruly == Spec => DeleteAnswersDeleted
<1>1. ASSUME CallsInv, NEW t \in Txs, phase[t] = "endorsed", sent[t].call.op = "delete",
             NEW id \in sent[t].call.ids
      PROVE  sent[t].answer[id].number = world[id]
  <2>1. ProposalStands(sent[t], proposal[t], world)
    BY <1>1 DEF CallsInv, InFlight, SlotStands
  <2> QED
    BY <1>1, <2>1 DEF ProposalStands
<1>2. CallsInv =>
        [\A t \in Txs :
            LET call == sent[t].call
            IN  /\ phase[t] = "endorsed" /\ Len(chain') > Len(chain)
                /\ phase'[t] = "idle" /\ call.op = "delete"
                => \A id \in call.ids : sent[t].answer[id].number = world[id]]_callVars
  BY <1>1
<1> QED
  BY <1>2, BothHold, PTL DEF DeleteAnswersDeleted

\* By the wrapper or by the listener, observers are told of committed changes
\* only, and by the listener in the order of the chain.
THEOREM ToldAreCommitted == Spec => []ToldIsCommitted
<1>1. ASSUME EventsInv PROVE ToldIsCommitted
  <2>1. ASSUME NEW c \in Clients
        PROVE  /\ \A call \in pending[c] \cup told[c] : Committed(call)
               /\ \A i \in DOMAIN heard[c] : chain[heard[c][i].at].valid
               /\ \A i, j \in DOMAIN heard[c] : i < j => heard[c][i].at < heard[c][j].at
    <3>1. ObserversStand(c)
      BY <1>1 DEF EventsInv
    <3>2. \A call \in pending[c] \cup told[c] : Committed(call)
      BY <3>1 DEF ObserversStand, Notices, CommittedIn, Committed, EntriesOf
    <3>3. \A i \in DOMAIN heard[c] : chain[heard[c][i].at].valid
      <4>1. \A i \in DOMAIN heard[c] : Heard(c, i)
        BY ONLY <3>1 DEF ObserversStand
      <4> QED
        BY ONLY <4>1 DEF Heard, IsEvent
    <3> QED
      BY <3>1, <3>2, <3>3 DEF ObserversStand
  <2> QED
    BY <2>1 DEF ToldIsCommitted
<1> QED
  BY <1>1, BothHold, PTL

\* The event a listener was told of.
LEMMA HeardEntry ==
    ASSUME CallsInv, EventsInv, NEW c \in Clients, NEW i \in DOMAIN heard[c]
    PROVE  LET e == chain[heard[c][i].at]
           IN  /\ e.call \in Calls /\ e.event # NoEvent
               /\ e.event = EventOf(e.call) /\ heard[c][i].ids = e.event
<1>1. ObserversStand(c) /\ Heard(c, i)
  BY DEF EventsInv, ObserversStand
<1>2. heard[c][i].at \in DOMAIN chain
  BY <1>1 DEF ObserversStand, Heard, CallsInv, Types
<1>3. chain[heard[c][i].at] \in Entries /\ EntryStands(chain[heard[c][i].at])
  BY <1>2 DEF CallsInv, Types
<1> QED
  BY <1>1, <1>3 DEF Heard, IsEvent, EntryStands, Entries

\* What the listener tells of an operation, single or bulk, names every record
\* it wrote.
THEOREM HeardNamesAll == Spec => []HeardIsWhole
<1>1. ASSUME CallsInv, EventsInv PROVE HeardIsWhole
  <2>1. ASSUME NEW c \in Clients, NEW i \in DOMAIN heard[c]
        PROVE  heard[c][i].ids = chain[heard[c][i].at].call.ids
    BY <1>1, HeardEntry, EventNames
  <2> QED
    BY <2>1 DEF HeardIsWhole
<1> QED
  BY <1>1, BothHold, PTL

\* For classes without a public or without a private part, no change is told
\* both by the listener and by the wrapper.
THEOREM NobodyToldTwice == Spec => []ToldOnce
<1>1. ASSUME CallsInv, EventsInv PROVE ToldOnce
  <2>1. ASSUME shape # "mixed", NEW c \in Clients, ToldTwice(c) PROVE FALSE
    <3>1. PICK i \in DOMAIN heard[c] : chain[heard[c][i].at].call \in Notices(c)
      BY <2>1 DEF ToldTwice, Notices
    <3>2. ObserversStand(c)
      BY <1>1 DEF EventsInv
    <3>3. TellsLocally(c) /\ ~settings.synthetic
      BY <3>1, <3>2 DEF ObserversStand
    <3>4. shape = "segregated"
      BY <1>1, <2>1, <3>3 DEF TellsLocally, IsTransient, CallsInv, Types, Shapes
    <3>5. \A call : EventOf(call) = NoEvent
      BY <3>4 DEF EventOf, Silent
    <3> QED
      BY <1>1, <3>5, HeardEntry
  <2> QED
    BY <2>1 DEF ToldOnce
<1> QED
  BY <1>1, BothHold, PTL
===============================================================================
