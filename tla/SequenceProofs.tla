---------------------------- MODULE SequenceProofs ----------------------------
(***************************************************************************)
(* Proofs about ContractSequence, for any collections, options, counts and *)
(* number of concurrent transactions, and any collections that refuse to   *)
(* be read or written.                                                     *)
(*                                                                         *)
(* The argument has two layers.  SequenceInv holds however sessions use    *)
(* the sequence: what a call writes goes with one aligned value to all the *)
(* targets it does not miss, and to no other key.  AloneInv holds if       *)
(* ensureAtLeast is not combined with another use in one session: then a   *)
(* transaction has read a key that every writer of the sequence writes, so *)
(* that the commit of one makes the others stale, and what is written is   *)
(* the last value issued, or the value ensured, which is above the highest *)
(* one so far.  A private sequence keeps this up only until a transaction  *)
(* was blind or missed a collection.                                       *)
(***************************************************************************)
EXTENDS ContractSequence, WellFoundedInduction, TLAPS

AlignedValues == {v \in Values : Aligned(v)}

\* What a session writes: aligned values, to targets only.
Writes == UNION {[ks -> AlignedValues] : ks \in SUBSET Targets}

Uses ==
    [issued : Seq(AlignedValues), ensured : SUBSET Floors,
     missed : SUBSET Failing, blind : BOOLEAN]

Proposals == [call : Uses, reads : SUBSET Keys, writes : Writes]

Sessions ==
    [slot : Txs, cache : AlignedValues \cup {Absent}, reads : SUBSET Keys,
     writes : Writes, issued : Seq(AlignedValues), ensured : SUBSET Floors,
     missed : SUBSET Failing, blind : BOOLEAN]

-----------------------------------------------------------------------------
\* Arithmetic of the values issued.

LEMMA DivideExactly ==
    ASSUME NEW c \in Nat \ {0}, NEW d \in Nat \ {0}, c % d = 0
    PROVE  c \div d \in Nat \ {0} /\ c = (c \div d) * d
OBVIOUS

LEMMA MultipleHasNoRest ==
    ASSUME NEW q \in Int, NEW d \in Nat \ {0}
    PROVE  (q * d) % d = 0
OBVIOUS

LEMMA NoRestIsMultiple ==
    ASSUME NEW x \in Int, NEW d \in Nat \ {0}, x % d = 0
    PROVE  \E q \in Int : x = q * d
OBVIOUS

LEMMA AddMultiple ==
    ASSUME NEW x \in Int, NEW d \in Nat \ {0}, NEW i \in Int, x % d = 0
    PROVE  (x + i * d) % d = 0
<1>1. PICK q \in Int : x = q * d
  BY NoRestIsMultiple
<1>2. x + i * d = (q + i) * d
  BY <1>1
<1> QED
  BY <1>2, MultipleHasNoRest

LEMMA MultiplesGrow ==
    ASSUME NEW d \in Nat \ {0}, NEW i \in Int, NEW j \in Int, i < j
    PROVE  i * d < j * d
OBVIOUS

LEMMA StillAligned ==
    ASSUME NEW v \in Nat, Aligned(v), NEW i \in Nat
    PROVE  Aligned(v + i * IncrementBy)
<1> USE SequenceAssumption
<1>1. PICK base \in {StartWith} \cup Floors : v >= base /\ (v - base) % IncrementBy = 0
  BY DEF Aligned
<1>2. base \in Nat
  OBVIOUS
<1>3. ((v - base) + i * IncrementBy) % IncrementBy = 0
  <2>1. v - base \in Int /\ (v - base) % IncrementBy = 0 /\ i \in Int
    BY <1>1, <1>2
  <2> HIDE SequenceAssumption
  <2> QED
    BY <2>1, AddMultiple, SequenceAssumption
<1>4. i * IncrementBy \in Nat
  OBVIOUS
<1>5. v + i * IncrementBy >= base
  BY <1>1, <1>2, <1>4
<1>6. (v + i * IncrementBy) - base = (v - base) + i * IncrementBy
  BY <1>2, <1>4
<1> QED
  BY <1>3, <1>5, <1>6 DEF Aligned

LEMMA StartIsAligned == StartWith \in Nat /\ Aligned(StartWith)
<1>1. (StartWith - StartWith) % IncrementBy = 0
  BY SequenceAssumption
<1> QED
  BY <1>1, SequenceAssumption DEF Aligned

LEMMA FloorsAreAligned == Floors \subseteq AlignedValues
<1> SUFFICES ASSUME NEW v \in Floors PROVE v \in AlignedValues
  OBVIOUS
<1>1. v \in Values
  BY SequenceAssumption DEF Values
<1>2. (v - v) % IncrementBy = 0
  BY <1>1, SequenceAssumption DEF Values
<1>3. v >= v
  BY <1>1, SequenceAssumption DEF Values
<1> QED
  BY <1>1, <1>2, <1>3 DEF AlignedValues, Aligned

\* What increment issues: aligned values that go up from the current value to
\* the new one.
LEMMA IssuedValues ==
    ASSUME NEW v \in Nat, Aligned(v), NEW count \in Counts,
           count % IncrementBy = 0, v + count <= MaxValue,
           NEW n, n = count \div IncrementBy,
           NEW values, values = [i \in 1..n |-> v + i * IncrementBy]
    PROVE  /\ n \in Nat \ {0}
           /\ values \in Seq(AlignedValues)
           /\ Len(values) = n
           /\ values[n] = v + count
           /\ v + count \in AlignedValues
           /\ \A i \in 1..n : values[i] > v
           /\ \A i \in 1..n : \A j \in 1..(i - 1) : values[j] < values[i]
<1> USE SequenceAssumption
<1>1. count \in Nat \ {0}
  OBVIOUS
<1>2. n \in Nat \ {0} /\ count = n * IncrementBy
  BY <1>1, DivideExactly
<1>3. ASSUME NEW i \in 1..n
      PROVE  v + i * IncrementBy \in AlignedValues /\ v + i * IncrementBy > v
  <2>1. i * IncrementBy \in Nat \ {0}
    BY <1>2, MultiplesGrow
  <2>2. i = n \/ i * IncrementBy < n * IncrementBy
    <3>1. i \in Int /\ n \in Int /\ (i = n \/ i < n)
      BY <1>2
    <3> QED
      BY <3>1, MultiplesGrow
  <2>3. i * IncrementBy <= count
    <3> DEFINE p == i * IncrementBy
    <3>1. p \in Nat /\ (p = count \/ p < count)
      BY <2>1, <2>2, <1>2
    <3> HIDE DEF p
    <3>2. p <= count
      BY <3>1, <1>1
    <3> QED
      BY <3>2 DEF p
  <2>4. v + i * IncrementBy \in Values
    <3> DEFINE p == i * IncrementBy
    <3>1. p \in Nat /\ p <= count
      BY <2>1, <2>3
    <3> HIDE DEF p
    <3>2. v + p \in Values
      BY <3>1, <1>1 DEF Values
    <3> QED
      BY <3>2 DEF p
  <2> QED
    BY <2>1, <2>4, <1>2, StillAligned DEF AlignedValues
<1>4. values \in Seq(AlignedValues) /\ Len(values) = n
  BY <1>2, <1>3
<1>5. values[n] = v + count
  <2>1. n \in 1..n
    BY <1>2
  <2>2. values[n] = v + n * IncrementBy
    BY <2>1
  <2> QED
    BY <2>2, <1>2
<1>6. v + count \in AlignedValues
  <2>1. n \in 1..n
    BY <1>2
  <2>2. v + n * IncrementBy \in AlignedValues
    BY <2>1, <1>3
  <2> QED
    BY <2>2, <1>2
<1>7. \A i \in 1..n : values[i] > v
  BY <1>3
<1>8. ASSUME NEW i \in 1..n, NEW j \in 1..(i - 1)
      PROVE  values[j] < values[i]
  <2>1. i \in Int /\ j \in Int /\ j < i /\ j \in 1..n
    BY <1>2
  <2>2. j * IncrementBy < i * IncrementBy
    BY <2>1, MultiplesGrow
  <2>3. values[i] = v + i * IncrementBy /\ values[j] = v + j * IncrementBy
    BY <2>1
  <2>4. i * IncrementBy \in Int /\ j * IncrementBy \in Int
    BY <2>1
  <2> QED
    <3> DEFINE p == i * IncrementBy
               q == j * IncrementBy
    <3>1. p \in Int /\ q \in Int /\ q < p /\ values[i] = v + p /\ values[j] = v + q
      BY <2>2, <2>3, <2>4
    <3> HIDE DEF p, q
    <3> QED
      BY <3>1
<1> QED
  BY <1>2, <1>4, <1>5, <1>6, <1>7, <1>8

\* A set of values that is not empty has a highest one.
LEMMA HighestExists ==
    ASSUME NEW used \in SUBSET Values, used # {}
    PROVE  Highest(used) \in used /\ \A w \in used : w <= Highest(used)
<1> USE SequenceAssumption DEF Values
<1> DEFINE below == {MaxValue - v : v \in used}
<1>1. below \in SUBSET Nat /\ below # {}
  <2>1. \A v \in used : MaxValue - v \in Nat
    OBVIOUS
  <2>2. PICK v \in used : TRUE
    OBVIOUS
  <2> QED
    BY <2>1, <2>2
<1>2. PICK m \in below : \A n \in below : ~(<<n, m>> \in OpToRel(<, Nat))
  BY <1>1, NatLessThanWellFounded, WFMin
<1>3. \A n \in below : ~(n < m)
  BY <1>1, <1>2 DEF OpToRel
<1>4. PICK v \in used : m = MaxValue - v
  OBVIOUS
<1>5. ASSUME NEW w \in used PROVE w <= v
  <2>1. ~(MaxValue - w < MaxValue - v)
    BY <1>3, <1>4
  <2>2. w \in Nat /\ v \in Nat
    OBVIOUS
  <2> QED
    BY <2>1, <2>2
<1> QED
  BY <1>5 DEF Highest

LEMMA HighestIs ==
    ASSUME NEW used, NEW v \in used, v \in Int, \A w \in used : w \in Int /\ w <= v
    PROVE  Highest(used) = v
<1>1. ASSUME NEW u \in used, \A w \in used : w <= u
      PROVE  u = v
  BY <1>1
<1>2. Highest(used) \in used /\ \A w \in used : w <= Highest(used)
  BY DEF Highest
<1> QED
  BY <1>1, <1>2

-----------------------------------------------------------------------------
\* First layer: what holds however the sessions use the sequence.

Modes == {"public", "replicated", "private"}

\* The last call that wrote left one value in all targets but the missed ones.
Reaches(writes, missed, v) ==
    \A k \in Targets \ missed : k \in DOMAIN writes /\ writes[k] = v

Covers(writes, missed) ==
    \/ DOMAIN writes = {} /\ missed = {}
    \/ \E v \in AlignedValues : Reaches(writes, missed, v)

SessionIsTyped ==
    session # NoSession =>
        /\ session \in Sessions
        /\ phase[session.slot] = "idle"
        /\ Public \in DOMAIN session.writes => Public \in session.reads
        /\ Covers(session.writes, session.missed)

LedgerIsTyped ==
    /\ mode \in Modes
    /\ phase \in [Txs -> Ledger!Phases]
    /\ proposal = [t \in Txs |-> proposal[t]]
    /\ \A t \in Txs : phase[t] = "endorsed" =>
          /\ proposal[t] \in Proposals
          /\ Covers(proposal[t].writes, proposal[t].call.missed)
    /\ high \in Values \cup {Absent}

\* Only the targets hold records, and the targets that missed nothing hold
\* the same one.
WorldIsTyped ==
    /\ lagging \subseteq Failing
    /\ world \in [Keys -> AlignedValues \cup {Absent}]
    /\ \A k \in Keys \ Targets : world[k] = Absent
    /\ \A c, d \in Targets \ lagging : world[c] = world[d]

SequenceInv ==
    /\ SessionIsTyped
    /\ LedgerIsTyped
    /\ WorldIsTyped

LEMMA TargetsAreKeys ==
    ASSUME mode \in Modes
    PROVE  Targets \subseteq Keys /\ Targets # {}
<1>1. Collections[1] \in Range(Collections)
  BY SequenceAssumption DEF Range
<1> QED
  BY <1>1 DEF Targets, Modes, Keys

LEMMA TriedAreCollections ==
    ASSUME NEW refused
    PROVE  TriedCollections(refused) \subseteq Range(Collections) \ refused
BY DEF TriedCollections, Range

LEMMA NothingWritten == <<>> \in Writes /\ DOMAIN <<>> = {}
<1>1. <<>> \in [{} -> AlignedValues]
  OBVIOUS
<1>2. {} \in SUBSET Targets
  OBVIOUS
<1> QED
  BY <1>1, <1>2 DEF Writes

LEMMA WritesAre ==
    ASSUME NEW writes \in Writes
    PROVE  /\ DOMAIN writes \subseteq Targets
           /\ \A k \in DOMAIN writes : writes[k] \in AlignedValues
BY DEF Writes

\* What a call writes.
LEMMA WrittenReaches ==
    ASSUME session \in Sessions, NEW missed, NEW v \in AlignedValues,
           NEW w, w = Written(Targets \ missed, v)
    PROVE  /\ w \in Writes
           /\ Reaches(w, missed, v)
           /\ DOMAIN w = (Targets \ missed) \cup DOMAIN session.writes
<1> DEFINE ks == (Targets \ missed) \cup DOMAIN session.writes
<1>1. session.writes \in Writes
  BY DEF Sessions
<1>2. DOMAIN session.writes \subseteq Targets
      /\ \A k \in DOMAIN session.writes : session.writes[k] \in AlignedValues
  BY <1>1, WritesAre
<1>3. ks \in SUBSET Targets
  BY <1>2
<1>4. w = [k \in ks |-> IF k \in Targets \ missed THEN v ELSE session.writes[k]]
  BY DEF Written
<1>5. w \in [ks -> AlignedValues]
  BY <1>2, <1>4
<1>6. w \in Writes
  BY <1>3, <1>5 DEF Writes
<1> HIDE DEF ks
<1>7. DOMAIN w = ks
  BY <1>4
<1>8. \A k \in ks : w[k] = IF k \in Targets \ missed THEN v ELSE session.writes[k]
  BY <1>4
<1> QED
  BY <1>6, <1>7, <1>8 DEF Reaches, ks

LEMMA FoundIsAligned ==
    ASSUME SequenceInv, NEW refused
    PROVE  Found(refused) \in AlignedValues \cup {Absent}
<1> DEFINE found == {k \in {Public} \cup TriedCollections(refused) : world[k] # Absent}
<1>1. \A k \in Keys : world[k] \in AlignedValues \cup {Absent}
  BY DEF SequenceInv, WorldIsTyped
<1>2. Public \in Keys /\ found \subseteq Keys
  BY TriedAreCollections DEF Keys
<1>3. CASE world[Public] # Absent
  BY <1>1, <1>2, <1>3 DEF Found
<1>4. CASE world[Public] = Absent /\ found = {}
  BY <1>4 DEF Found
<1>5. CASE world[Public] = Absent /\ found # {}
  <2>1. Found(refused) = world[CHOOSE k \in found : TRUE]
    BY <1>5 DEF Found
  <2> HIDE DEF found
  <2> QED
    BY <2>1, <1>1, <1>2, <1>5
<1> QED
  BY <1>3, <1>4, <1>5

LEMMA CurrentIsAligned ==
    ASSUME SequenceInv, session \in Sessions, NEW unread
    PROVE  Current(unread) \in Nat /\ Aligned(Current(unread))
<1>1. session.cache \in AlignedValues \cup {Absent}
      /\ Found(unread) \in AlignedValues \cup {Absent}
  BY FoundIsAligned DEF Sessions
<1>2. AlignedValues \subseteq Nat
  BY SequenceAssumption DEF AlignedValues, Values
<1> QED
  BY <1>1, <1>2, StartIsAligned DEF Current, AlignedValues

LEMMA ReadsAreKeys ==
    ASSUME NEW unread
    PROVE  CurrentReads(unread) \subseteq Keys /\ UpsertReads \subseteq Keys
BY TriedAreCollections DEF CurrentReads, UpsertReads, Keys

LEMMA RefusalsAreFailing ==
    ASSUME NEW missed \in Refusals
    PROVE  missed \in SUBSET Failing /\ Public \notin missed
BY SequenceAssumption DEF Refusals

\* What increment leaves in the session.
IncrementEffect(count, unread, missed, values) ==
    /\ session' \in Sessions
    /\ session'.slot = session.slot
    /\ session'.cache = Current(unread) + count
    /\ session'.reads = session.reads \cup CurrentReads(unread) \cup UpsertReads
    /\ session'.writes = Written(Targets \ missed, Current(unread) + count)
    /\ session'.issued = session.issued \o values
    /\ session'.ensured = session.ensured
    /\ session'.missed = missed
    /\ session'.blind <=> session.blind \/ ReadsBlindly(unread)

LEMMA IncrementDoes ==
    ASSUME SequenceInv, NEW count \in Counts, NEW unread \in Refusals,
           NEW missed \in Refusals, Increment(count, unread, missed), NEW values,
           values = [i \in 1..(count \div IncrementBy) |-> Current(unread) + i * IncrementBy]
    PROVE  /\ IncrementEffect(count, unread, missed, values)
           /\ Current(unread) + count \in AlignedValues
<1> DEFINE next == Current(unread) + count
           writes == Written(Targets \ missed, next)
           reads == session.reads \cup CurrentReads(unread) \cup UpsertReads
           issued == session.issued \o values
<1>1. session # NoSession /\ next <= MaxValue /\ count % IncrementBy = 0
  BY DEF Increment, CountAllowed
<1>2. session \in Sessions
  BY <1>1 DEF SequenceInv, SessionIsTyped
<1>3. Current(unread) \in Nat /\ Aligned(Current(unread))
  BY <1>2, CurrentIsAligned
<1>4. values \in Seq(AlignedValues) /\ next \in AlignedValues
  BY <1>1, <1>3, IssuedValues
<1>5. issued \in Seq(AlignedValues)
  BY <1>2, <1>4 DEF Sessions
<1>6. writes \in Writes
  <2> HIDE DEF next
  <2> QED
    BY <1>2, <1>4, WrittenReaches
<1>7. reads \in SUBSET Keys
  BY <1>2, ReadsAreKeys DEF Sessions
<1>8. missed \in SUBSET Failing
  BY RefusalsAreFailing
<1>9. PICK blind \in BOOLEAN : blind = (session.blind \/ ReadsBlindly(unread))
  OBVIOUS
<1>10. session' = [session EXCEPT !.cache = next, !.reads = reads, !.writes = writes,
                                  !.issued = issued, !.missed = missed, !.blind = blind]
  BY <1>9 DEF Increment
<1> HIDE DEF next, writes, reads, issued
<1>11. next \in AlignedValues \cup {Absent}
  BY <1>4
<1>12. session' \in Sessions
  BY <1>2, <1>5, <1>6, <1>7, <1>8, <1>10, <1>11 DEF Sessions
<1>13. /\ session'.slot = session.slot
       /\ session'.cache = next
       /\ session'.reads = reads
       /\ session'.writes = writes
       /\ session'.issued = issued
       /\ session'.ensured = session.ensured
       /\ session'.missed = missed
       /\ session'.blind = blind
  BY <1>2, <1>10 DEF Sessions
<1>14. session'.blind <=> session.blind \/ ReadsBlindly(unread)
  BY <1>9, <1>13, Zenon
<1> QED
  BY <1>4, <1>12, <1>13, <1>14 DEF IncrementEffect, next, writes, reads, issued

\* What ensureAtLeast leaves in the session.
EnsureEffect(v, missed) ==
    /\ session' \in Sessions
    /\ session'.slot = session.slot
    /\ session'.cache = IF mode = "private" /\ Below(v) THEN v ELSE session.cache
    /\ session'.reads = session.reads \cup {Public}
    /\ session'.writes = IF Below(v) THEN Written(Targets \ missed, v) ELSE session.writes
    /\ session'.issued = session.issued
    /\ session'.ensured = session.ensured \cup {v}
    /\ session'.missed = IF Below(v) THEN missed ELSE session.missed
    /\ session'.blind <=> session.blind

LEMMA EnsureDoes ==
    ASSUME SequenceInv, NEW v \in Floors, NEW missed \in Refusals, EnsureAtLeast(v, missed)
    PROVE  EnsureEffect(v, missed)
<1> DEFINE cache == IF mode = "private" /\ Below(v) THEN v ELSE session.cache
           reads == session.reads \cup {Public}
           writes == IF Below(v) THEN Written(Targets \ missed, v) ELSE session.writes
           ensured == session.ensured \cup {v}
           misses == IF Below(v) THEN missed ELSE session.missed
<1>1. session \in Sessions
  BY DEF SequenceInv, SessionIsTyped, EnsureAtLeast
<1>2. session' = [session EXCEPT !.cache = cache, !.reads = reads, !.writes = writes,
                                 !.ensured = ensured, !.missed = misses]
  BY DEF EnsureAtLeast, EnsureTargets
<1>3. v \in AlignedValues
  BY FloorsAreAligned
<1>4. cache \in AlignedValues \cup {Absent}
  BY <1>1, <1>3 DEF Sessions
<1>5. writes \in Writes
  <2>1. session.writes \in Writes
    BY <1>1 DEF Sessions
  <2>2. Written(Targets \ missed, v) \in Writes
    BY <1>1, <1>3, WrittenReaches
  <2> QED
    BY <2>1, <2>2
<1>6. reads \in SUBSET Keys /\ ensured \in SUBSET Floors
  BY <1>1 DEF Sessions, Keys
<1>7. misses \in SUBSET Failing
  BY <1>1, RefusalsAreFailing DEF Sessions
<1> HIDE DEF cache, reads, writes, ensured, misses
<1>8. session' \in Sessions
  BY <1>1, <1>2, <1>4, <1>5, <1>6, <1>7 DEF Sessions
<1>9. /\ session'.slot = session.slot
      /\ session'.cache = cache
      /\ session'.reads = reads
      /\ session'.writes = writes
      /\ session'.issued = session.issued
      /\ session'.ensured = ensured
      /\ session'.missed = misses
      /\ session'.blind = session.blind
  BY <1>1, <1>2 DEF Sessions
<1> QED
  BY <1>8, <1>9 DEF EnsureEffect, cache, reads, writes, ensured, misses

\* What the commit of a transaction leaves.
Used(t) ==
    Range(proposal[t].call.issued) \cup proposal[t].call.ensured \cup ({high} \ {Absent})

LEMMA CommitDoes ==
    ASSUME SequenceInv, NEW t \in Txs, Commit(t)
    PROVE  /\ phase[t] = "endorsed" /\ proposal[t] \in Proposals
           /\ Covers(proposal[t].writes, proposal[t].call.missed)
           /\ world' = [k \in Keys |-> IF k \in DOMAIN proposal[t].writes
                                       THEN proposal[t].writes[k] ELSE world[k]]
           /\ lagging' = (lagging \ DOMAIN proposal[t].writes) \cup proposal[t].call.missed
           /\ Used(t) \in SUBSET Values
           /\ high' = IF Used(t) = {} THEN Absent ELSE Highest(Used(t))
           /\ mode' = mode /\ Targets' = Targets
<1>1. phase[t] = "endorsed" /\ proposal[t] \in Proposals
      /\ Covers(proposal[t].writes, proposal[t].call.missed)
  BY DEF Commit, Ledger!CommitValid, SequenceInv, LedgerIsTyped
<1>2. mode' = mode /\ Targets' = Targets
  BY DEF Commit, Targets
<1>3. world' = [k \in Keys |-> IF k \in DOMAIN proposal[t].writes
                               THEN proposal[t].writes[k] ELSE world[k]]
  BY DEF Commit, Ledger!CommitValid
<1>4. Used(t) \in SUBSET Values
  <2>1. Range(proposal[t].call.issued) \subseteq AlignedValues
    BY <1>1 DEF Proposals, Uses, Range
  <2>2. proposal[t].call.ensured \subseteq Values
    BY <1>1, FloorsAreAligned DEF Proposals, Uses, AlignedValues
  <2>3. high \in Values \cup {Absent}
    BY DEF SequenceInv, LedgerIsTyped
  <2> QED
    BY <2>1, <2>2, <2>3 DEF Used, AlignedValues
<1>5. high' = IF Used(t) = {} THEN Absent ELSE Highest(Used(t))
  BY DEF Commit, Used
<1>6. lagging' = (lagging \ DOMAIN proposal[t].writes) \cup proposal[t].call.missed
  BY DEF Commit
<1> QED
  BY <1>1, <1>2, <1>3, <1>4, <1>5, <1>6

-----------------------------------------------------------------------------
\* The first layer is inductive.

LEMMA InitSequenceInv == Init => SequenceInv
<1> SUFFICES ASSUME Init PROVE SequenceInv
  OBVIOUS
<1>1. SessionIsTyped
  BY DEF Init, SessionIsTyped
<1>2. LedgerIsTyped
  BY DEF Init, Ledger!Init, LedgerIsTyped, Modes, Ledger!Phases
<1>3. WorldIsTyped
  BY TargetsAreKeys, <1>2 DEF Init, Ledger!Init, WorldIsTyped, LedgerIsTyped
<1> QED
  BY <1>1, <1>2, <1>3 DEF SequenceInv

LEMMA SessionsStay ==
    ASSUME mode' = mode
    PROVE  /\ Targets' = Targets /\ Sessions' = Sessions /\ Proposals' = Proposals
           /\ \A w, m : Covers(w, m) => Covers(w, m)'
           /\ \A w, m, v : Reaches(w, m, v)' <=> Reaches(w, m, v)
<1>1. Targets' = Targets
  BY DEF Targets
<1>2. Writes' = Writes
  BY <1>1 DEF Writes
<1> QED
  BY <1>1, <1>2 DEF Sessions, Proposals, Covers, Reaches

\* A step of the session only.
LEMMA SessionStepKeeps ==
    ASSUME SequenceInv, UNCHANGED <<world, phase, proposal, mode, high, lagging>>,
           SessionIsTyped'
    PROVE  SequenceInv'
<1>1. LedgerIsTyped'
  BY SessionsStay DEF SequenceInv, LedgerIsTyped
<1>2. WorldIsTyped'
  BY SessionsStay DEF SequenceInv, WorldIsTyped
<1> QED
  BY <1>1, <1>2 DEF SequenceInv

LEMMA NextSessionIsTyped ==
    ASSUME UNCHANGED <<mode, phase>>, session' \in Sessions, phase[session'.slot] = "idle",
           Public \in DOMAIN session'.writes => Public \in session'.reads,
           Covers(session'.writes, session'.missed)
    PROVE  SessionIsTyped'
<1>1. Targets' = Targets
  BY DEF Targets
<1>2. Sessions' = Sessions
  BY SessionsStay
<1> QED
  BY <1>1, <1>2 DEF SessionIsTyped, Covers, Reaches

LEMMA BeginKeeps ==
    ASSUME SequenceInv, NEW t \in Txs, Begin(t)
    PROVE  SequenceInv'
<1>1. NewSession(t) \in Sessions
  BY NothingWritten DEF NewSession, Sessions
<1>2. NewSession(t).slot = t /\ DOMAIN NewSession(t).writes = {} /\ NewSession(t).missed = {}
  BY NothingWritten DEF NewSession
<1>3. mode' = mode /\ session' = NewSession(t) /\ phase' = phase /\ phase[t] = "idle"
  BY DEF Begin
<1>4. Covers(session'.writes, session'.missed)
  BY <1>2, <1>3 DEF Covers
<1>5. SessionIsTyped'
  BY <1>1, <1>2, <1>3, <1>4, NextSessionIsTyped
<1> QED
  BY <1>5, SessionStepKeeps DEF Begin, history

LEMMA IncrementKeeps ==
    ASSUME SequenceInv, NEW count \in Counts, NEW unread \in Refusals,
           NEW missed \in Refusals, Increment(count, unread, missed)
    PROVE  SequenceInv'
<1> DEFINE values == [i \in 1..(count \div IncrementBy) |-> Current(unread) + i * IncrementBy]
<1>1. IncrementEffect(count, unread, missed, values)
      /\ Current(unread) + count \in AlignedValues
  BY IncrementDoes
<1> HIDE DEF values
<1>2. UNCHANGED <<world, phase, proposal, mode, high, lagging>>
  BY DEF Increment, history
<1>3. phase[session.slot] = "idle" /\ session \in Sessions
      /\ (Public \in DOMAIN session.writes => Public \in session.reads)
  BY DEF SequenceInv, SessionIsTyped, Increment
<1>4. Reaches(session'.writes, missed, Current(unread) + count)
      /\ DOMAIN session'.writes = (Targets \ missed) \cup DOMAIN session.writes
  <2>1. PICK v \in AlignedValues : v = Current(unread) + count
    BY <1>1
  <2>2. session'.writes = Written(Targets \ missed, v)
    BY <1>1, <2>1 DEF IncrementEffect
  <2> QED
    BY <1>3, <2>1, <2>2, WrittenReaches
<1>5. Covers(session'.writes, session'.missed)
  BY <1>1, <1>4 DEF Covers, IncrementEffect
<1>6. Public \in DOMAIN session'.writes => Public \in session'.reads
  BY <1>1, <1>3, <1>4 DEF IncrementEffect, UpsertReads
<1>7. SessionIsTyped'
  BY <1>1, <1>2, <1>3, <1>5, <1>6, NextSessionIsTyped DEF IncrementEffect
<1> QED
  BY <1>2, <1>7, SessionStepKeeps

LEMMA EnsureKeeps ==
    ASSUME SequenceInv, NEW v \in Floors, NEW missed \in Refusals, EnsureAtLeast(v, missed)
    PROVE  SequenceInv'
<1>1. EnsureEffect(v, missed)
  BY EnsureDoes
<1>2. UNCHANGED <<world, phase, proposal, mode, high, lagging>>
  BY DEF EnsureAtLeast, history
<1>3. phase[session.slot] = "idle" /\ session \in Sessions
      /\ Covers(session.writes, session.missed)
  BY DEF SequenceInv, SessionIsTyped, EnsureAtLeast
<1>4. Public \in session'.reads
  BY <1>1 DEF EnsureEffect
<1>5. v \in AlignedValues
  BY FloorsAreAligned
<1>6. Covers(session'.writes, session'.missed)
  <2>1. Below(v) => Reaches(session'.writes, missed, v)
    BY <1>1, <1>3, <1>5, WrittenReaches DEF EnsureEffect
  <2> QED
    BY <1>1, <1>3, <1>5, <2>1 DEF EnsureEffect, Covers
<1>7. SessionIsTyped'
  BY <1>1, <1>2, <1>3, <1>4, <1>6, NextSessionIsTyped DEF EnsureEffect
<1> QED
  BY <1>2, <1>7, SessionStepKeeps

LEMMA ThrowKeeps ==
    ASSUME SequenceInv, Throw
    PROVE  SequenceInv'
<1>1. SessionIsTyped'
  BY DEF Throw, SessionIsTyped
<1> QED
  BY <1>1, SessionStepKeeps DEF Throw, history

LEMMA SubmitDoes ==
    ASSUME SequenceInv, Submit,
           NEW p, p = [call |-> [issued |-> session.issued, ensured |-> session.ensured,
                                 missed |-> session.missed, blind |-> session.blind],
                       reads |-> session.reads, writes |-> session.writes]
    PROVE  /\ session # NoSession /\ session \in Sessions /\ session.slot \in Txs
           /\ p \in Proposals /\ Covers(p.writes, p.call.missed)
           /\ phase' = [phase EXCEPT ![session.slot] = "endorsed"]
           /\ proposal' = [proposal EXCEPT ![session.slot] = p]
           /\ session' = NoSession
           /\ UNCHANGED <<world, mode, high, lagging, faulted>>
<1>1. session # NoSession /\ session \in Sessions /\ Covers(session.writes, session.missed)
  BY DEF SequenceInv, SessionIsTyped, Submit
<1>2. session.slot \in Txs /\ p \in Proposals
  BY <1>1 DEF Sessions, Proposals, Uses
<1> QED
  BY <1>1, <1>2 DEF Submit, Ledger!Endorse, history

LEMMA SubmitKeeps ==
    ASSUME SequenceInv, Submit
    PROVE  SequenceInv'
<1> DEFINE p == [call |-> [issued |-> session.issued, ensured |-> session.ensured,
                           missed |-> session.missed, blind |-> session.blind],
                 reads |-> session.reads, writes |-> session.writes]
           u == session.slot
<1>1. /\ u \in Txs
      /\ p \in Proposals /\ Covers(p.writes, p.call.missed)
      /\ phase' = [phase EXCEPT ![u] = "endorsed"]
      /\ proposal' = [proposal EXCEPT ![u] = p]
      /\ session' = NoSession
      /\ UNCHANGED <<world, mode, high, lagging>>
  BY SubmitDoes
<1> HIDE DEF p, u
<1>2. LedgerIsTyped
  BY DEF SequenceInv
<1>3. phase' \in [Txs -> Ledger!Phases] /\ proposal' = [t \in Txs |-> proposal'[t]]
  BY <1>1, <1>2 DEF LedgerIsTyped, Ledger!Phases
<1>4. ASSUME NEW t \in Txs, phase'[t] = "endorsed"
      PROVE  proposal'[t] \in Proposals /\ Covers(proposal'[t].writes, proposal'[t].call.missed)
  BY <1>1, <1>2, <1>4 DEF LedgerIsTyped
<1>5. LedgerIsTyped'
  BY <1>1, <1>2, <1>3, <1>4, SessionsStay DEF LedgerIsTyped
<1>6. SessionIsTyped'
  BY <1>1 DEF SessionIsTyped
<1>7. WorldIsTyped'
  BY <1>1, SessionsStay DEF SequenceInv, WorldIsTyped
<1> QED
  BY <1>5, <1>6, <1>7 DEF SequenceInv

LEMMA DropKeeps ==
    ASSUME SequenceInv, NEW t \in Txs, Drop(t)
    PROVE  SequenceInv'
<1>1. LedgerIsTyped
  BY DEF SequenceInv
<1>2. /\ phase' = [phase EXCEPT ![t] = "idle"]
      /\ proposal' = proposal \/ proposal' = [proposal EXCEPT ![t] = NoProposal]
      /\ session = NoSession
      /\ UNCHANGED <<world, mode, session, high, lagging>>
  BY DEF Drop, Ledger!CommitInvalid, Ledger!Abandon, history
<1>3. phase' \in [Txs -> Ledger!Phases] /\ proposal' = [u \in Txs |-> proposal'[u]]
  BY <1>1, <1>2 DEF LedgerIsTyped, Ledger!Phases
<1>4. ASSUME NEW u \in Txs, phase'[u] = "endorsed"
      PROVE  proposal'[u] \in Proposals /\ Covers(proposal'[u].writes, proposal'[u].call.missed)
  BY <1>1, <1>2, <1>4 DEF LedgerIsTyped
<1>5. LedgerIsTyped'
  BY <1>1, <1>2, <1>3, <1>4, SessionsStay DEF LedgerIsTyped
<1>6. SessionIsTyped'
  BY <1>2 DEF SessionIsTyped
<1>7. WorldIsTyped'
  BY <1>2, SessionsStay DEF SequenceInv, WorldIsTyped
<1> QED
  BY <1>5, <1>6, <1>7 DEF SequenceInv

\* The targets that miss nothing are either all written with one value or
\* none is.
LEMMA CommitKeepsWorld ==
    ASSUME SequenceInv, NEW t \in Txs, Commit(t)
    PROVE  WorldIsTyped'
<1> DEFINE writes == proposal[t].writes
           missed == proposal[t].call.missed
<1>1. /\ world' = [k \in Keys |-> IF k \in DOMAIN writes THEN writes[k] ELSE world[k]]
      /\ lagging' = (lagging \ DOMAIN writes) \cup missed
      /\ Targets' = Targets
      /\ Covers(writes, missed)
  BY CommitDoes
<1>2. writes \in Writes /\ missed \subseteq Failing
  BY CommitDoes DEF Proposals, Uses
<1> HIDE DEF writes, missed
<1>3. DOMAIN writes \subseteq Targets /\ \A k \in DOMAIN writes : writes[k] \in AlignedValues
  BY <1>2, WritesAre
<1>4. WorldIsTyped /\ Targets \subseteq Keys
  BY TargetsAreKeys DEF SequenceInv, LedgerIsTyped
<1>5. lagging' \subseteq Failing
  BY <1>1, <1>2, <1>4 DEF WorldIsTyped
<1>6. world' \in [Keys -> AlignedValues \cup {Absent}]
  BY <1>1, <1>3, <1>4 DEF WorldIsTyped
<1>7. \A k \in Keys \ Targets : world'[k] = Absent
  BY <1>1, <1>3, <1>4 DEF WorldIsTyped
<1>8. ASSUME NEW c \in Targets \ lagging', NEW d \in Targets \ lagging'
      PROVE  world'[c] = world'[d]
  <2>1. CASE DOMAIN writes = {} /\ missed = {}
    BY <1>1, <1>4, <1>8, <2>1 DEF WorldIsTyped
  <2>2. CASE \E v \in AlignedValues : Reaches(writes, missed, v)
    BY <1>1, <1>4, <1>8, <2>2 DEF Reaches
  <2> QED
    BY <1>1, <2>1, <2>2 DEF Covers
<1> QED
  BY <1>1, <1>5, <1>6, <1>7, <1>8 DEF WorldIsTyped

LEMMA CommitKeeps ==
    ASSUME SequenceInv, NEW t \in Txs, Commit(t)
    PROVE  SequenceInv'
<1>1. LedgerIsTyped
  BY DEF SequenceInv
<1>2. mode' = mode /\ session = NoSession /\ session' = session
  BY DEF Commit
<1> DEFINE stale == Ledger!ReadersOf(DOMAIN proposal[t].writes) \ {t}
<1>3. /\ phase' = [u \in Txs |-> IF u = t THEN "idle"
                                 ELSE IF u \in stale THEN "stale" ELSE phase[u]]
      /\ proposal' = [u \in Txs |-> IF u = t \/ u \in stale
                                    THEN NoProposal ELSE proposal[u]]
  BY DEF Commit, Ledger!CommitValid
<1> HIDE DEF stale
<1>4. phase' \in [Txs -> Ledger!Phases] /\ proposal' = [u \in Txs |-> proposal'[u]]
  BY <1>1, <1>3 DEF LedgerIsTyped, Ledger!Phases
<1>5. ASSUME NEW u \in Txs, phase'[u] = "endorsed"
      PROVE  proposal'[u] \in Proposals /\ Covers(proposal'[u].writes, proposal'[u].call.missed)
  <2>1. phase[u] = "endorsed" /\ proposal'[u] = proposal[u]
    BY <1>3, <1>5
  <2> QED
    BY <1>1, <2>1 DEF LedgerIsTyped
<1>6. high' \in Values \cup {Absent}
  BY CommitDoes, HighestExists
<1>7. LedgerIsTyped'
  BY <1>1, <1>2, <1>4, <1>5, <1>6, SessionsStay DEF LedgerIsTyped, Values
<1>8. SessionIsTyped'
  BY <1>2 DEF SessionIsTyped
<1> QED
  BY <1>7, <1>8, CommitKeepsWorld DEF SequenceInv

LEMMA SequenceInvStep == SequenceInv /\ [Next]_vars => SequenceInv'
<1> SUFFICES ASSUME SequenceInv, [Next]_vars PROVE SequenceInv'
  OBVIOUS
<1>1. CASE UNCHANGED vars
  <2>1. SessionIsTyped'
    BY <1>1, SessionsStay DEF SequenceInv, SessionIsTyped, vars
  <2> QED
    BY <2>1, <1>1, SessionStepKeeps DEF vars, history
<1>2. ASSUME NEW t \in Txs, Begin(t) \/ Commit(t) \/ Drop(t) PROVE SequenceInv'
  BY <1>2, BeginKeeps, CommitKeeps, DropKeeps
<1>3. ASSUME NEW count \in Counts, NEW unread \in Refusals, NEW missed \in Refusals,
             Increment(count, unread, missed)
      PROVE  SequenceInv'
  BY <1>3, IncrementKeeps
<1>4. ASSUME NEW v \in Floors, NEW missed \in Refusals, EnsureAtLeast(v, missed)
      PROVE  SequenceInv'
  BY <1>4, EnsureKeeps
<1> QED
  BY <1>1, <1>2, <1>3, <1>4, SubmitKeeps, ThrowKeeps DEF Next

LEMMA SequenceInvHolds == Spec => []SequenceInv
BY InitSequenceInv, SequenceInvStep, PTL DEF Spec

\* Whatever a transaction did with the sequence, records hold aligned values,
\* and a write of the public record is covered by the read set.
THEOREM SequenceTypes == Spec => []TypeOK
<1>1. SequenceInv => TypeOK
  <2> SUFFICES ASSUME SequenceInv PROVE TypeOK
    OBVIOUS
  <2>1. world \in [Keys -> Values \cup {Absent}] /\ lagging \subseteq Failing
        /\ \A k \in Keys : world[k] # Absent => Aligned(world[k])
    BY DEF SequenceInv, WorldIsTyped, AlignedValues
  <2>2. phase \in [Txs -> Ledger!Phases] /\ high \in Values \cup {Absent}
    BY DEF SequenceInv, LedgerIsTyped
  <2>3. ASSUME session # NoSession
        PROVE  /\ phase[session.slot] = "idle"
               /\ session.cache \in Values \cup {Absent}
               /\ DOMAIN session.writes \subseteq Keys
               /\ Public \in DOMAIN session.writes => Public \in session.reads
               /\ \A v \in Range(session.issued) : Aligned(v)
    <3>1. session \in Sessions
      BY <2>3 DEF SequenceInv, SessionIsTyped
    <3>2. session.cache \in Values \cup {Absent}
      BY <3>1 DEF Sessions, AlignedValues
    <3>3. DOMAIN session.writes \subseteq Keys
      BY <3>1, TargetsAreKeys, WritesAre DEF Sessions, SequenceInv, LedgerIsTyped
    <3>4. \A v \in Range(session.issued) : Aligned(v)
      BY <3>1 DEF Sessions, Range, AlignedValues
    <3> QED
      BY <2>3, <3>2, <3>3, <3>4 DEF SequenceInv, SessionIsTyped
  <2> QED
    BY <2>1, <2>2, <2>3 DEF TypeOK
<1> QED
  BY <1>1, SequenceInvHolds, PTL

\* The sequence of a fully segregated model is never public, nor is it in the
\* write set of a transaction that may still be committed.
THEOREM PrivateStaysSo == Spec => []PrivateStaysPrivate
<1>1. SequenceInv => PrivateStaysPrivate
  <2> SUFFICES ASSUME SequenceInv, mode = "private"
               PROVE  /\ world[Public] = Absent
                      /\ \A t \in Txs : phase[t] = "endorsed"
                            => Public \notin DOMAIN proposal[t].writes
    BY DEF PrivateStaysPrivate
  <2>1. Public \notin Targets /\ Public \in Keys
    BY SequenceAssumption DEF Targets, Keys
  <2>2. world[Public] = Absent
    BY <2>1 DEF SequenceInv, WorldIsTyped
  <2>3. ASSUME NEW t \in Txs, phase[t] = "endorsed"
        PROVE  Public \notin DOMAIN proposal[t].writes
    <3>1. proposal[t].writes \in Writes
      BY <2>3 DEF SequenceInv, LedgerIsTyped, Proposals
    <3> QED
      BY <3>1, <2>1, WritesAre
  <2> QED
    BY <2>2, <2>3
<1> QED
  BY <1>1, SequenceInvHolds, PTL

-----------------------------------------------------------------------------
\* Second layer: sessions that either issue values or ensure one.

\* The last value written is above what the session wrote before.
Wrote(writes, missed, v) ==
    /\ Reaches(writes, missed, v)
    /\ \A k \in DOMAIN writes : writes[k] <= v

\* The read set has a key that every writer of the sequence writes.
Meets(reads) ==
    IF mode = "private" THEN reads \cap Targets # {} ELSE Public \in reads

\* What a transaction did with the sequence.
Runs(call, reads, writes) ==
    /\ call.issued = <<>> \/ call.ensured = {}
    /\ mode = "private" => call.ensured = {}
    /\ call.issued = <<>> /\ call.ensured = {} =>
          DOMAIN writes = {} /\ call.missed = {} /\ ~call.blind
    /\ Sound(call.blind) /\ (call.issued # <<>> \/ call.ensured # {}) => Meets(reads)
    /\ Sound(call.blind) /\ call.issued # <<>> =>
          /\ Above(call.issued)
          /\ Wrote(writes, call.missed, call.issued[Len(call.issued)])
    /\ \A v \in call.ensured :
          /\ call.ensured = {v}
          /\ IF high = Absent \/ v > high THEN Wrote(writes, call.missed, v)
             ELSE DOMAIN writes = {} /\ call.missed = {}

SessionRuns ==
    session # NoSession =>
        /\ Runs(session, session.reads, session.writes)
        /\ session.cache = IF session.issued = <<>> THEN Absent
                           ELSE session.issued[Len(session.issued)]

ProposalRuns(t) ==
    phase[t] = "endorsed" =>
        Runs(proposal[t].call, proposal[t].reads, proposal[t].writes)

\* What the last write reached is the highest value, what it missed is lower.
WorldIsHighest ==
    /\ Sound(FALSE) => \A k \in Targets \ lagging : world[k] = high
    /\ mode = "private" /\ ~faulted => lagging = {}
    /\ mode = "replicated" => \A c \in Range(Collections) :
          world[c] # Absent => high # Absent /\ world[c] <= high

AloneInv ==
    /\ WorldIsHighest
    /\ SessionRuns
    /\ \A t \in Txs : ProposalRuns(t)

LEMMA RunsStay ==
    ASSUME UNCHANGED <<mode, high, faulted>>
    PROVE  \A c, r, w : Runs(c, r, w)' <=> Runs(c, r, w)
<1>1. Targets' = Targets
  BY DEF Targets
<1>2. \A b : Sound(b)' <=> Sound(b)
  BY DEF Sound
<1>3. \A issued : Above(issued)' <=> Above(issued)
  BY DEF Above
<1>4. \A r : Meets(r)' <=> Meets(r)
  BY <1>1 DEF Meets
<1>5. \A w, m, v : Wrote(w, m, v)' <=> Wrote(w, m, v)
  BY <1>1 DEF Wrote, Reaches
<1> QED
  BY <1>2, <1>3, <1>4, <1>5 DEF Runs

\* Values above the last one issued, or above the highest if none was.
LEMMA AboveGrows ==
    ASSUME NEW issued \in Seq(AlignedValues), NEW values \in Seq(AlignedValues),
           high \in Values \cup {Absent}, NEW base \in Nat, values # <<>>,
           issued = <<>> => high = Absent \/ base = high,
           issued # <<>> => Above(issued) /\ base = issued[Len(issued)],
           \A i \in DOMAIN values : values[i] > base,
           \A i \in DOMAIN values : \A j \in 1..(i - 1) : values[j] < values[i]
    PROVE  LET all == issued \o values
           IN  Above(all) /\ all # <<>> /\ all[Len(all)] = values[Len(values)]
<1> DEFINE all == issued \o values
           n == Len(issued)
<1> USE SequenceAssumption DEF AlignedValues, Values
<1>1. /\ n \in Nat /\ Len(values) \in Nat \ {0}
      /\ DOMAIN all = 1..(n + Len(values)) /\ Len(all) = n + Len(values)
      /\ \A i \in DOMAIN all : all[i] = IF i <= n THEN issued[i] ELSE values[i - n]
  BY SMTT(30)
<1>2. \A i \in 1..n : issued[i] \in Nat
  OBVIOUS
<1>3. \A i \in DOMAIN values : values[i] \in Nat
  OBVIOUS
<1>4. \A i \in 1..n : issued[i] <= base
  <2> SUFFICES ASSUME NEW i \in 1..n PROVE issued[i] <= base
    OBVIOUS
  <2>1. issued # <<>> /\ n \in DOMAIN issued
    OBVIOUS
  <2>2. i = n \/ i \in 1..(n - 1)
    BY <1>1
  <2>3. ASSUME i \in 1..(n - 1) PROVE issued[i] < issued[n]
    BY <2>1, <2>3 DEF Above
  <2> QED
    BY <2>1, <2>2, <2>3, <1>2
<1>5. high # Absent => base >= high /\ high \in Nat
  <2>1. issued # <<>> => n \in DOMAIN issued
    OBVIOUS
  <2> QED
    BY <2>1, <1>2 DEF Above
<1>6. \A i \in 1..n :
        /\ high # Absent => issued[i] > high
        /\ \A j \in 1..(i - 1) : issued[j] < issued[i]
  <2>1. n > 0 => issued # <<>>
    OBVIOUS
  <2>2. DOMAIN issued = 1..n
    OBVIOUS
  <2> QED
    BY ONLY <1>1, <2>1, <2>2, issued # <<>> => Above(issued) DEF Above
<1>7. all # <<>> /\ all[Len(all)] = values[Len(values)]
  BY <1>1
<1>8. DOMAIN values = 1..Len(values)
  OBVIOUS
<1> HIDE SequenceAssumption DEF AlignedValues, Values, all, n
<1>9. ASSUME NEW i \in DOMAIN all
      PROVE  /\ high # Absent => all[i] > high
             /\ \A j \in 1..(i - 1) : all[j] < all[i]
  <2>1. n \in Nat /\ i \in Nat /\ i >= 1 /\ i <= n + Len(values)
    BY ONLY <1>1, <1>9
  <2>2. \A j \in 1..(i - 1) : j \in Nat /\ j < i /\ j \in DOMAIN all
    BY ONLY <1>1, <1>9, <2>1
  <2>3. CASE i <= n
    <3>1. i \in 1..n /\ all[i] = issued[i]
      BY ONLY <1>1, <1>9, <2>1, <2>3
    <3>2. \A j \in 1..(i - 1) : all[j] = issued[j]
      BY ONLY <1>1, <2>1, <2>2, <2>3
    <3> QED
      BY ONLY <3>1, <3>2, <1>6
  <2>4. CASE i > n
    <3>1. i - n \in DOMAIN values /\ all[i] = values[i - n]
      BY ONLY <1>1, <1>8, <1>9, <2>1, <2>4
    <3>2. all[i] > base /\ all[i] \in Nat
      BY ONLY <3>1, <1>3, \A k \in DOMAIN values : values[k] > base
    <3>3. ASSUME NEW j \in 1..(i - 1) PROVE all[j] < all[i]
      <4>1. j \in Nat /\ j >= 1 /\ j < i /\ j \in DOMAIN all
        BY ONLY <2>1, <2>2, <3>3
      <4>2. CASE j <= n
        <5>1. j \in 1..n /\ all[j] = issued[j]
          BY ONLY <1>1, <2>1, <4>1, <4>2
        <5>2. issued[j] \in Nat /\ issued[j] <= base
          BY ONLY <5>1, <1>2, <1>4
        <5> QED
          BY ONLY <5>1, <5>2, <3>2, base \in Nat
      <4>3. CASE j > n
        <5>1. all[j] = values[j - n]
          <6>1. all[j] = IF j <= n THEN issued[j] ELSE values[j - n]
            BY ONLY <1>1, <4>1
          <6>2. ~(j <= n)
            BY ONLY <2>1, <4>1, <4>3
          <6> QED
            BY ONLY <6>1, <6>2
        <5>2. j - n \in 1..((i - n) - 1)
          BY ONLY <2>1, <4>1, <4>3
        <5> QED
          BY ONLY <5>1, <5>2, <3>1,
                  \A k \in DOMAIN values : \A l \in 1..(k - 1) : values[l] < values[k]
      <4> QED
        BY ONLY <2>1, <4>1, <4>2, <4>3
    <3>4. high # Absent => all[i] > high
      BY ONLY <3>2, <1>5, base \in Nat
    <3> QED
      BY ONLY <3>3, <3>4
  <2> QED
    BY ONLY <2>1, <2>3, <2>4
<1> QED
  BY <1>7, <1>9 DEF Above, all

\* Unless every collection refuses, one that does not is tried.
LEMMA SomeIsTried ==
    ASSUME NEW refused, ~(Range(Collections) \subseteq refused)
    PROVE  TriedCollections(refused) # {}
<1> DEFINE readable == {i \in DOMAIN Collections : Collections[i] \notin refused}
<1>1. DOMAIN Collections \subseteq Nat
  BY SequenceAssumption
<1>2. readable \in SUBSET Nat /\ readable # {}
  BY <1>1 DEF Range
<1>3. PICK i \in readable : \A j \in readable : ~(<<j, i>> \in OpToRel(<, Nat))
  BY <1>2, NatLessThanWellFounded, WFMin
<1>4. \A j \in readable : ~(j < i)
  BY <1>2, <1>3 DEF OpToRel
<1>5. \A h \in 1..(i - 1) : Collections[h] \in refused
  <2> SUFFICES ASSUME NEW h \in 1..(i - 1) PROVE Collections[h] \in refused
    OBVIOUS
  <2>1. i \in 1..Len(Collections) /\ DOMAIN Collections = 1..Len(Collections)
        /\ Len(Collections) \in Nat
    BY SequenceAssumption
  <2>2. h \in DOMAIN Collections /\ h < i
    BY <2>1
  <2> QED
    BY <2>2, <1>4
<1> QED
  BY <1>5 DEF TriedCollections

\* A transaction that is not blind finds the highest value so far.
LEMMA FoundIsHigh ==
    ASSUME SequenceInv, WorldIsHighest, Sound(FALSE), NEW refused,
           mode = "private" => ~(Range(Collections) \subseteq refused)
    PROVE  Found(refused) = high
<1> DEFINE found == {k \in {Public} \cup TriedCollections(refused) : world[k] # Absent}
<1>1. Public \in Keys /\ TriedCollections(refused) \subseteq Range(Collections)
      /\ Range(Collections) \subseteq Keys /\ Public \notin lagging
  BY TriedAreCollections, SequenceAssumption DEF Keys, SequenceInv, WorldIsTyped
<1>2. mode \in Modes
  BY DEF SequenceInv, LedgerIsTyped
<1>3. CASE mode # "private"
  <2>1. Public \in Targets
    BY <1>1, <1>2, <1>3 DEF Targets, Modes
  <2>2. world[Public] = high
    BY <1>1, <2>1 DEF WorldIsHighest
  <2>3. CASE high # Absent
    BY <2>2, <2>3 DEF Found
  <2>4. CASE high = Absent
    <3>1. \A c \in Range(Collections) : world[c] = Absent
      <4>1. CASE mode = "replicated"
        BY <4>1, <2>4 DEF WorldIsHighest
      <4>2. CASE mode = "public"
        BY <1>1, <4>2, SequenceAssumption DEF Targets, SequenceInv, WorldIsTyped
      <4> QED
        BY <4>1, <4>2, <1>2, <1>3 DEF Modes
    <3>2. found = {}
      BY <1>1, <2>2, <2>4, <3>1
    <3> QED
      BY <2>2, <2>4, <3>2 DEF Found
  <2> QED
    BY <2>3, <2>4
<1>4. CASE mode = "private"
  <2>1. Targets = Range(Collections) /\ lagging = {}
    BY <1>4 DEF Targets, WorldIsHighest, Sound
  <2>2. \A c \in Range(Collections) : world[c] = high
    BY <2>1 DEF WorldIsHighest
  <2>3. world[Public] = Absent
    BY <1>1, <2>1, SequenceAssumption DEF SequenceInv, WorldIsTyped
  <2>4. CASE high = Absent
    <3>1. found = {}
      BY <1>1, <2>2, <2>3, <2>4
    <3> QED
      BY <2>3, <2>4, <3>1 DEF Found
  <2>5. CASE high # Absent
    <3>1. found # {} /\ \A k \in found : world[k] = high
      BY <1>1, <1>4, <2>2, <2>3, <2>5, SomeIsTried
    <3>2. Found(refused) = world[CHOOSE k \in found : TRUE]
      BY <2>3, <3>1 DEF Found
    <3> HIDE DEF found
    <3> QED
      BY <3>1, <3>2
  <2> QED
    BY <2>4, <2>5
<1> QED
  BY <1>3, <1>4

\* What is read to find the current value is what every writer writes.
LEMMA ReadsMeet ==
    ASSUME SequenceInv, session.cache = Absent, NEW unread,
           mode = "private" => ~(Range(Collections) \subseteq unread)
    PROVE  Meets(CurrentReads(unread) \cup UpsertReads)
<1>1. mode \in Modes /\ Public \in Keys
  BY DEF SequenceInv, LedgerIsTyped, Keys
<1>2. CASE mode = "private"
  <2>1. Targets = Range(Collections) /\ world[Public] = Absent
    BY <1>1, <1>2, SequenceAssumption DEF Targets, SequenceInv, WorldIsTyped
  <2>2. CurrentReads(unread) = {Public} \cup TriedCollections(unread)
    BY <1>2, <2>1 DEF CurrentReads
  <2>3. TriedCollections(unread) # {} /\ TriedCollections(unread) \subseteq Targets
    BY <1>2, <2>1, SomeIsTried, TriedAreCollections
  <2> QED
    BY <1>2, <2>2, <2>3 DEF Meets
<1>3. CASE mode # "private"
  BY <1>1, <1>3 DEF Modes, Targets, UpsertReads, Meets
<1> QED
  BY <1>2, <1>3

-----------------------------------------------------------------------------
\* The second layer is inductive.

\* A step of the session leaves the proposals and the highest value alone.
LEMMA SessionStepRuns ==
    ASSUME AloneInv, UNCHANGED <<world, phase, proposal, mode, history>>,
           session' # NoSession =>
              /\ Runs(session', session'.reads, session'.writes)
              /\ session'.cache = IF session'.issued = <<>> THEN Absent
                                  ELSE session'.issued[Len(session'.issued)]
    PROVE  AloneInv'
<1>1. Targets' = Targets /\ UNCHANGED <<world, phase, proposal, mode, high, lagging, faulted>>
  BY DEF Targets, history
<1>2. WorldIsHighest'
  BY <1>1 DEF AloneInv, WorldIsHighest, Sound
<1>3. \A c, r, w : Runs(c, r, w)' <=> Runs(c, r, w)
  BY <1>1, RunsStay
<1>4. SessionRuns'
  BY <1>3 DEF SessionRuns
<1>5. ASSUME NEW t \in Txs PROVE ProposalRuns(t)'
  <2>1. ProposalRuns(t)
    BY DEF AloneInv
  <2> QED
    BY <1>1, <1>3, <2>1 DEF ProposalRuns
<1> QED
  BY <1>2, <1>4, <1>5 DEF AloneInv

LEMMA NewSessionRuns ==
    ASSUME NEW t \in Txs, NEW s, s = NewSession(t)
    PROVE  /\ Runs(s, s.reads, s.writes)
           /\ s.cache = Absent /\ s.issued = <<>> /\ s.ensured = {}
           /\ DOMAIN s.writes = {} /\ s.missed = {} /\ ~s.blind
<1>1. /\ s.cache = Absent /\ s.issued = <<>> /\ s.ensured = {}
      /\ DOMAIN s.writes = {} /\ s.missed = {} /\ ~s.blind
  BY NothingWritten DEF NewSession
<1> QED
  BY <1>1 DEF Runs

LEMMA BeginRuns ==
    ASSUME AloneInv, NEW t \in Txs, Begin(t)
    PROVE  AloneInv'
<1>1. session' = NewSession(t)
  BY DEF Begin
<1>2. Runs(session', session'.reads, session'.writes)
      /\ session'.cache = Absent /\ session'.issued = <<>>
  BY <1>1, NewSessionRuns
<1> QED
  BY <1>2, SessionStepRuns DEF Begin

LEMMA IncrementRuns ==
    ASSUME ~MixedUse, SequenceInv, AloneInv, NEW count \in Counts, NEW unread \in Refusals,
           NEW missed \in Refusals, Increment(count, unread, missed)
    PROVE  AloneInv'
<1> DEFINE n == count \div IncrementBy
           values == [i \in 1..n |-> Current(unread) + i * IncrementBy]
           all == session.issued \o values
<1>1. IncrementEffect(count, unread, missed, values)
      /\ Current(unread) + count \in AlignedValues
  BY IncrementDoes
<1>2. session \in Sessions /\ session # NoSession /\ session.ensured = {}
  BY DEF SequenceInv, SessionIsTyped, Increment
<1>3. /\ Runs(session, session.reads, session.writes)
      /\ session.cache = IF session.issued = <<>> THEN Absent
                         ELSE session.issued[Len(session.issued)]
  BY <1>2 DEF AloneInv, SessionRuns
<1>4. Current(unread) \in Nat /\ Aligned(Current(unread))
  BY <1>2, CurrentIsAligned
<1>5. /\ n \in Nat \ {0}
      /\ values \in Seq(AlignedValues)
      /\ Len(values) = n
      /\ values[n] = Current(unread) + count
      /\ \A i \in 1..n : values[i] > Current(unread)
      /\ \A i \in 1..n : \A j \in 1..(i - 1) : values[j] < values[i]
  BY <1>4, IssuedValues DEF Increment, CountAllowed
<1> HIDE DEF n, values
<1>6. session.issued \in Seq(AlignedValues)
  BY <1>2 DEF Sessions
<1>7. session.issued # <<>> => Current(unread) = session.issued[Len(session.issued)]
                               /\ session.cache # Absent
  <2> SUFFICES ASSUME session.issued # <<>>
               PROVE  Current(unread) = session.issued[Len(session.issued)]
                      /\ session.cache # Absent
    OBVIOUS
  <2>1. session.issued[Len(session.issued)] \in AlignedValues
    BY <1>6
  <2>2. session.issued[Len(session.issued)] # Absent
    BY <2>1, SequenceAssumption DEF AlignedValues, Values
  <2> QED
    BY <1>3, <2>2 DEF Current
<1>8. all # <<>> /\ all[Len(all)] = Current(unread) + count
  BY <1>5, <1>6
<1>9. /\ session'.issued = all /\ session'.ensured = {} /\ session'.missed = missed
      /\ session'.cache = all[Len(all)]
      /\ session'.writes = Written(Targets \ missed, Current(unread) + count)
      /\ session'.reads = session.reads \cup CurrentReads(unread) \cup UpsertReads
      /\ session'.blind <=> session.blind \/ ReadsBlindly(unread)
  BY <1>1, <1>2, <1>8 DEF IncrementEffect
<1>10. ASSUME Sound(session'.blind)
       PROVE  /\ Meets(session'.reads)
              /\ Above(all)
              /\ Wrote(session'.writes, missed, all[Len(all)])
  <2>1. Sound(session.blind) /\ Sound(FALSE) /\ (mode = "private" => ~ReadsBlindly(unread))
    BY <1>9, <1>10 DEF Sound
  <2>2. session.cache = Absent /\ mode = "private" => ~(Range(Collections) \subseteq unread)
    <3>1. mode = "private" => world[Public] = Absent
      BY SequenceAssumption DEF SequenceInv, WorldIsTyped, Targets, Keys
    <3> QED
      BY <2>1, <3>1 DEF ReadsBlindly
  <2>3. CASE session.issued = <<>>
    <3>1. session.cache = Absent /\ DOMAIN session.writes = {}
      BY <1>2, <1>3, <2>3 DEF Runs
    <3>2. Found(unread) = high
      BY <2>1, <2>2, <3>1, FoundIsHigh DEF AloneInv
    <3>3. high = Absent \/ Current(unread) = high
      BY <3>1, <3>2 DEF Current
    <3>4. Meets(CurrentReads(unread) \cup UpsertReads)
      BY <2>2, <3>1, ReadsMeet
    <3>5. Meets(session'.reads)
      BY <1>9, <3>4 DEF Meets
    <3>6. Above(all)
      <4>1. high \in Values \cup {Absent} /\ DOMAIN values = 1..n /\ values # <<>>
        BY <1>5 DEF SequenceInv, LedgerIsTyped
      <4> QED
        BY <1>4, <1>5, <1>6, <2>3, <3>3, <4>1, AboveGrows
    <3>7. Wrote(session'.writes, missed, all[Len(all)])
      <4>1. PICK v \in AlignedValues : v = Current(unread) + count
        BY <1>1
      <4>2. PICK w : w = session'.writes
        OBVIOUS
      <4>3. w = Written(Targets \ missed, v)
        BY <1>9, <4>1, <4>2
      <4>4. Reaches(w, missed, v) /\ DOMAIN w = Targets \ missed
        BY <1>2, <3>1, <4>3, WrittenReaches
      <4>5. v <= v
        BY SequenceAssumption DEF AlignedValues, Values
      <4> QED
        BY <1>8, <4>1, <4>2, <4>4, <4>5 DEF Wrote, Reaches
    <3> QED
      BY <3>5, <3>6, <3>7
  <2>4. CASE session.issued # <<>>
    <3>1. /\ Above(session.issued) /\ Meets(session.reads)
          /\ Wrote(session.writes, session.missed, Current(unread))
      BY <1>3, <1>7, <2>1, <2>4 DEF Runs
    <3>2. Meets(session'.reads)
      BY <1>9, <3>1 DEF Meets
    <3>3. Above(all)
      <4>1. high \in Values \cup {Absent} /\ DOMAIN values = 1..n /\ values # <<>>
        BY <1>5 DEF SequenceInv, LedgerIsTyped
      <4> QED
        BY <1>4, <1>5, <1>6, <1>7, <2>4, <3>1, <4>1, AboveGrows
    <3>4. Wrote(session'.writes, missed, all[Len(all)])
      <4>1. PICK v \in AlignedValues : v = Current(unread) + count
        BY <1>1
      <4>2. PICK w : w = session'.writes
        OBVIOUS
      <4>3. w = Written(Targets \ missed, v)
        BY <1>9, <4>1, <4>2
      <4>4. Reaches(w, missed, v)
            /\ DOMAIN w = (Targets \ missed) \cup DOMAIN session.writes
        BY <1>2, <4>3, WrittenReaches
      <4>5. v \in Nat /\ Current(unread) < v
        BY <1>4, <4>1, SequenceAssumption
      <4>6. \A k \in DOMAIN session.writes :
              session.writes[k] \in Nat /\ session.writes[k] <= Current(unread)
        BY <1>2, <3>1, WritesAre, SequenceAssumption
           DEF Wrote, Sessions, AlignedValues, Values
      <4>7. \A k \in DOMAIN session.writes \ (Targets \ missed) : w[k] = session.writes[k]
        BY <4>3 DEF Written
      <4>8. \A k \in DOMAIN w : w[k] <= v
        BY <1>4, <4>4, <4>5, <4>6, <4>7 DEF Reaches
      <4> QED
        BY <1>8, <4>1, <4>2, <4>4, <4>8 DEF Wrote
    <3> QED
      BY <3>2, <3>3, <3>4
  <2> QED
    BY <2>3, <2>4
<1> HIDE DEF all
<1>11. Runs(session', session'.reads, session'.writes)
  BY <1>8, <1>9, <1>10 DEF Runs
<1>12. UNCHANGED <<world, phase, proposal, mode, history>>
  BY DEF Increment
<1> QED
  BY <1>8, <1>9, <1>11, <1>12, SessionStepRuns

LEMMA EnsureRuns ==
    ASSUME ~MixedUse, SequenceInv, AloneInv, NEW v \in Floors, NEW missed \in Refusals,
           EnsureAtLeast(v, missed)
    PROVE  AloneInv'
<1>1. EnsureEffect(v, missed)
  BY EnsureDoes
<1>2. session \in Sessions /\ session # NoSession
      /\ session = NewSession(session.slot) /\ mode # "private"
  BY DEF SequenceInv, SessionIsTyped, EnsureAtLeast
<1>3. /\ session.issued = <<>> /\ session.ensured = {} /\ DOMAIN session.writes = {}
      /\ session.missed = {} /\ session.cache = Absent
  BY <1>2, NewSessionRuns DEF Sessions
<1>4. Public \in Targets /\ Public \in Keys /\ Public \notin lagging
  BY <1>2, SequenceAssumption
     DEF SequenceInv, LedgerIsTyped, WorldIsTyped, Modes, Targets, Keys
<1>5. world[Public] = high
  BY <1>2, <1>4 DEF AloneInv, WorldIsHighest, Sound
<1>6. Below(v) <=> (high = Absent \/ v > high)
  BY <1>5 DEF Below
<1>7. v \in AlignedValues /\ v <= v
  BY FloorsAreAligned, SequenceAssumption DEF AlignedValues, Values
<1>8. PICK w : w = Written(Targets \ missed, v)
  OBVIOUS
<1>9. Wrote(w, missed, v)
  <2>1. Reaches(w, missed, v) /\ DOMAIN w = Targets \ missed
    BY <1>2, <1>3, <1>7, <1>8, WrittenReaches
  <2> QED
    BY <1>7, <2>1 DEF Wrote, Reaches
<1>10. /\ session'.issued = <<>> /\ session'.ensured = {v} /\ session'.cache = Absent
       /\ Public \in session'.reads
       /\ session'.writes = IF Below(v) THEN w ELSE session.writes
       /\ session'.missed = IF Below(v) THEN missed ELSE {}
  BY <1>1, <1>2, <1>3, <1>8 DEF EnsureEffect
<1>11. Meets(session'.reads)
  BY <1>2, <1>10 DEF Meets
<1>12. IF high = Absent \/ v > high THEN Wrote(session'.writes, session'.missed, v)
       ELSE DOMAIN session'.writes = {} /\ session'.missed = {}
  BY <1>3, <1>6, <1>9, <1>10
<1>13. Runs(session', session'.reads, session'.writes)
  BY <1>2, <1>10, <1>11, <1>12 DEF Runs
<1>14. UNCHANGED <<world, phase, proposal, mode, history>>
  BY DEF EnsureAtLeast
<1> QED
  BY <1>10, <1>13, <1>14, SessionStepRuns

LEMMA SubmitRuns ==
    ASSUME SequenceInv, AloneInv, Submit
    PROVE  AloneInv'
<1> DEFINE p == [call |-> [issued |-> session.issued, ensured |-> session.ensured,
                           missed |-> session.missed, blind |-> session.blind],
                 reads |-> session.reads, writes |-> session.writes]
           u == session.slot
<1>1. /\ session # NoSession
      /\ u \in Txs
      /\ phase' = [phase EXCEPT ![u] = "endorsed"]
      /\ proposal' = [proposal EXCEPT ![u] = p]
      /\ session' = NoSession
      /\ UNCHANGED <<world, mode, high, lagging, faulted>>
  BY SubmitDoes
<1>2. Runs(session, session.reads, session.writes)
  BY <1>1 DEF AloneInv, SessionRuns
<1>3. Runs(p.call, p.reads, p.writes)
  <2>1. /\ p.call.issued = session.issued /\ p.call.ensured = session.ensured
        /\ p.call.missed = session.missed /\ p.call.blind = session.blind
        /\ p.reads = session.reads /\ p.writes = session.writes
    OBVIOUS
  <2> HIDE DEF p
  <2> QED
    BY <1>2, <2>1 DEF Runs
<1> HIDE DEF p, u
<1>4. proposal = [t \in Txs |-> proposal[t]] /\ phase \in [Txs -> Ledger!Phases]
  BY DEF SequenceInv, LedgerIsTyped
<1>5. \A c, r, w : Runs(c, r, w)' <=> Runs(c, r, w)
  BY <1>1, RunsStay
<1>6. ASSUME NEW t \in Txs PROVE ProposalRuns(t)'
  <2>1. CASE t = u
    <3>1. proposal'[t] = p
      BY <1>1, <1>4, <2>1
    <3> QED
      BY <1>3, <1>5, <3>1 DEF ProposalRuns
  <2>2. CASE t # u
    <3>1. proposal'[t] = proposal[t] /\ phase'[t] = phase[t]
      BY <1>1, <1>4, <2>2
    <3>2. ProposalRuns(t)
      BY DEF AloneInv
    <3> QED
      BY <1>5, <3>1, <3>2 DEF ProposalRuns
  <2> QED
    BY <2>1, <2>2
<1>7. Targets' = Targets
  BY <1>1 DEF Targets
<1>8. WorldIsHighest'
  BY <1>1, <1>7 DEF AloneInv, WorldIsHighest, Sound
<1>9. SessionRuns'
  BY <1>1 DEF SessionRuns
<1> QED
  BY <1>6, <1>8, <1>9 DEF AloneInv

LEMMA DropRuns ==
    ASSUME SequenceInv, AloneInv, NEW t \in Txs, Drop(t)
    PROVE  AloneInv'
<1>1. /\ phase' = [phase EXCEPT ![t] = "idle"]
      /\ proposal' = proposal \/ proposal' = [proposal EXCEPT ![t] = NoProposal]
      /\ session = NoSession
      /\ UNCHANGED <<world, mode, session, high, lagging, faulted>>
  BY DEF Drop, Ledger!CommitInvalid, Ledger!Abandon, history
<1>2. proposal = [u \in Txs |-> proposal[u]] /\ phase \in [Txs -> Ledger!Phases]
  BY DEF SequenceInv, LedgerIsTyped
<1>3. \A c, r, w : Runs(c, r, w)' <=> Runs(c, r, w)
  BY <1>1, RunsStay
<1>4. ASSUME NEW u \in Txs PROVE ProposalRuns(u)'
  <2>1. CASE u = t
    <3>1. phase'[u] # "endorsed"
      BY <1>1, <1>2, <2>1
    <3> QED
      BY <3>1 DEF ProposalRuns
  <2>2. CASE u # t
    <3>1. proposal'[u] = proposal[u] /\ phase'[u] = phase[u]
      BY <1>1, <1>2, <2>2
    <3>2. ProposalRuns(u)
      BY DEF AloneInv
    <3> QED
      BY <1>3, <3>1, <3>2 DEF ProposalRuns
  <2> QED
    BY <2>1, <2>2
<1>5. Targets' = Targets
  BY <1>1 DEF Targets
<1>6. WorldIsHighest'
  BY <1>1, <1>5 DEF AloneInv, WorldIsHighest, Sound
<1>7. SessionRuns'
  BY <1>1 DEF SessionRuns
<1> QED
  BY <1>4, <1>6, <1>7 DEF AloneInv

CommitsNothing(t) ==
    DOMAIN proposal[t].writes = {} /\ proposal[t].call.missed = {} /\ high' = high

CommitsOne(t) ==
    \E v \in AlignedValues :
        /\ Wrote(proposal[t].writes, proposal[t].call.missed, v)
        /\ high' = v
        /\ high = Absent \/ high < v

\* A transaction that writes moves the highest value to what it writes; one
\* that does not leaves it where it is.
LEMMA CommitMovesHigh ==
    ASSUME SequenceInv, AloneInv, NEW t \in Txs, Commit(t), Sound(proposal[t].call.blind)
    PROVE  CommitsNothing(t) \/ CommitsOne(t)
<1> DEFINE issued == proposal[t].call.issued
           ensured == proposal[t].call.ensured
           writes == proposal[t].writes
           missed == proposal[t].call.missed
<1>1. /\ Used(t) = Range(issued) \cup ensured \cup ({high} \ {Absent})
      /\ high' = IF Used(t) = {} THEN Absent ELSE Highest(Used(t))
      /\ Used(t) \in SUBSET Values
  BY CommitDoes DEF Used
<1>2. Runs(proposal[t].call, proposal[t].reads, writes)
  BY CommitDoes DEF AloneInv, ProposalRuns
<1>3. issued \in Seq(AlignedValues) /\ ensured \in SUBSET Floors /\ high \in Values \cup {Absent}
  BY CommitDoes DEF Proposals, Uses, SequenceInv, LedgerIsTyped
<1>4. AlignedValues \subseteq Values /\ Values \subseteq Int
  BY SequenceAssumption DEF AlignedValues, Values
<1>5. /\ issued = <<>> \/ ensured = {}
      /\ issued = <<>> /\ ensured = {} => DOMAIN writes = {} /\ missed = {}
      /\ issued # <<>> => Above(issued) /\ Wrote(writes, missed, issued[Len(issued)])
      /\ \A v \in ensured :
            /\ ensured = {v}
            /\ IF high = Absent \/ v > high THEN Wrote(writes, missed, v)
               ELSE DOMAIN writes = {} /\ missed = {}
  BY <1>2 DEF Runs
<1> HIDE DEF issued, ensured, writes, missed
<1>6. CASE issued # <<>>
  <2> DEFINE v == issued[Len(issued)]
  <2>1. Above(issued) /\ Wrote(writes, missed, v) /\ ensured = {}
    BY <1>5, <1>6
  <2>2. Len(issued) \in DOMAIN issued /\ v \in AlignedValues
    BY <1>3, <1>6
  <2>3. high # Absent => high < v
    BY <2>1, <2>2, <1>3, <1>4 DEF Above
  <2>4. ASSUME NEW w \in Range(issued) PROVE w \in Int /\ w <= v
    <3>1. PICK i \in DOMAIN issued : w = issued[i]
      BY DEF Range
    <3>2. i = Len(issued) \/ i \in 1..(Len(issued) - 1)
      BY <1>3, <3>1
    <3>3. w \in AlignedValues
      BY <1>3, <3>1
    <3>4. i \in 1..(Len(issued) - 1) => issued[i] < v
      BY <2>1, <2>2 DEF Above
    <3> QED
      <4> HIDE DEF v
      <4>1. w \in Int /\ v \in Int
        BY <1>4, <2>2, <3>3
      <4> QED
        BY <3>1, <3>2, <3>4, <4>1 DEF v
  <2>5. v \in Used(t)
    BY <1>1, <2>2 DEF Range
  <2>6. v \in Int /\ \A w \in Used(t) : w \in Int /\ w <= v
    <3>1. v \in AlignedValues /\ (high # Absent => high < v)
          /\ Used(t) = Range(issued) \cup ({high} \ {Absent})
      BY <1>1, <2>1, <2>2, <2>3
    <3>2. \A w \in Range(issued) : w \in Int /\ w <= v
      BY <2>4
    <3> HIDE DEF v
    <3>3. v \in Int /\ (high # Absent => high \in Int)
      BY <1>3, <1>4, <3>1
    <3> QED
      BY <3>1, <3>2, <3>3
  <2>7. Highest(Used(t)) = v
    BY <2>5, <2>6, HighestIs
  <2>8. high' = v
    BY <1>1, <2>5, <2>7
  <2> HIDE DEF v
  <2> QED
    BY <2>1, <2>2, <2>3, <2>8 DEF writes, missed, CommitsOne
<1>7. CASE issued = <<>> /\ ensured # {}
  <2>1. PICK v \in Floors : ensured = {v} /\
          (IF high = Absent \/ v > high THEN Wrote(writes, missed, v)
           ELSE DOMAIN writes = {} /\ missed = {})
    BY <1>3, <1>5, <1>7
  <2>2. v \in AlignedValues /\ v \in Int
    BY FloorsAreAligned, <1>4
  <2>3. Used(t) = {v} \cup ({high} \ {Absent})
    <3>1. Range(issued) = {}
      BY <1>7 DEF Range
    <3> QED
      BY <1>1, <2>1, <3>1
  <2>4. CASE high = Absent \/ v > high
    <3>1. \A w \in Used(t) : w \in Int /\ w <= v
      BY <1>3, <1>4, <2>2, <2>3, <2>4
    <3>2. Highest(Used(t)) = v
      BY <2>2, <2>3, <3>1, HighestIs
    <3>3. high' = v /\ (high = Absent \/ high < v)
      BY <1>1, <1>3, <1>4, <2>2, <2>3, <2>4, <3>2
    <3> QED
      BY <2>1, <2>2, <2>4, <3>3 DEF writes, missed, CommitsOne
  <2>5. CASE ~(high = Absent \/ v > high)
    <3>1. high \in Int /\ high \in Used(t) /\ \A w \in Used(t) : w \in Int /\ w <= high
      BY <1>3, <1>4, <2>2, <2>3, <2>5
    <3>2. Highest(Used(t)) = high
      BY <3>1, HighestIs
    <3> QED
      BY <1>1, <2>1, <2>5, <3>1, <3>2 DEF writes, missed, CommitsNothing
  <2> QED
    BY <2>4, <2>5
<1>8. CASE issued = <<>> /\ ensured = {}
  <2>1. DOMAIN writes = {} /\ missed = {}
    BY <1>5, <1>8
  <2>2. Used(t) = {high} \ {Absent}
    <3>1. Range(issued) = {}
      BY <1>8 DEF Range
    <3> QED
      BY <1>1, <1>8, <3>1
  <2>3. high' = high
    <3>1. CASE high = Absent
      BY <1>1, <2>2, <3>1
    <3>2. CASE high # Absent
      <4>1. high \in Int /\ high \in Used(t) /\ \A w \in Used(t) : w \in Int /\ w <= high
        BY <1>3, <1>4, <2>2, <3>2
      <4>2. Highest(Used(t)) = high
        BY <4>1, HighestIs
      <4> QED
        BY <1>1, <4>1, <4>2
    <3> QED
      BY <3>1, <3>2
  <2> QED
    BY <2>1, <2>3 DEF writes, missed, CommitsNothing
<1> QED
  BY <1>6, <1>7, <1>8

\* If a private sequence is still sound after a commit, the transaction was
\* not blind and missed no collection.
LEMMA StillSound ==
    ASSUME NEW t \in Txs, Commit(t), Sound(FALSE)'
    PROVE  /\ Sound(FALSE) /\ Sound(proposal[t].call.blind)
           /\ mode = "private" => proposal[t].call.missed = {}
<1>1. mode' = mode
      /\ faulted' = (faulted \/ (mode = "private" /\ (proposal[t].call.blind
                                                      \/ proposal[t].call.missed # {})))
  BY DEF Commit
<1> QED
  BY <1>1, Zenon DEF Sound

LEMMA CommitWorldIsHighest ==
    ASSUME SequenceInv, AloneInv, NEW t \in Txs, Commit(t)
    PROVE  WorldIsHighest'
<1> DEFINE writes == proposal[t].writes
           missed == proposal[t].call.missed
<1>1. /\ world' = [k \in Keys |-> IF k \in DOMAIN writes THEN writes[k] ELSE world[k]]
      /\ lagging' = (lagging \ DOMAIN writes) \cup missed
      /\ mode' = mode /\ Targets' = Targets
  BY CommitDoes
<1>2. writes \in Writes /\ missed \subseteq Failing
  BY CommitDoes DEF Proposals, Uses
<1>3. Targets \subseteq Keys /\ mode \in Modes /\ lagging \subseteq Failing
      /\ world \in [Keys -> AlignedValues \cup {Absent}] /\ high \in Values \cup {Absent}
  BY TargetsAreKeys DEF SequenceInv, LedgerIsTyped, WorldIsTyped
<1>4. WorldIsHighest
  BY DEF AloneInv
<1>5. mode # "private" \/ ~faulted' => Sound(FALSE)'
  BY <1>1 DEF Sound
<1>6. ASSUME Sound(FALSE)'
      PROVE  \/ DOMAIN writes = {} /\ missed = {} /\ high' = high
             \/ \E v \in AlignedValues :
                  Wrote(writes, missed, v) /\ high' = v /\ (high = Absent \/ high < v)
  BY <1>6, StillSound, CommitMovesHigh DEF CommitsNothing, CommitsOne
<1>7. Sound(FALSE)' => Sound(FALSE) /\ (mode = "private" => missed = {})
  BY StillSound
<1> HIDE DEF writes, missed
<1>8. ASSUME Sound(FALSE)', NEW k \in Targets \ lagging'
      PROVE  world'[k] = high'
  <2>1. CASE DOMAIN writes = {} /\ missed = {} /\ high' = high
    BY <1>1, <1>3, <1>4, <1>7, <1>8, <2>1 DEF WorldIsHighest
  <2>2. CASE \E v \in AlignedValues : Wrote(writes, missed, v) /\ high' = v
    BY <1>1, <1>3, <1>8, <2>2 DEF Wrote, Reaches
  <2> QED
    BY <1>6, <1>8, <2>1, <2>2
<1>9. ASSUME mode = "private", ~faulted'
      PROVE  lagging' = {}
  <2>1. Sound(FALSE) /\ missed = {}
    BY <1>5, <1>7, <1>9
  <2>2. lagging = {}
    BY <1>4, <1>9, <2>1 DEF WorldIsHighest, Sound
  <2> QED
    BY <1>1, <2>1, <2>2
<1>10. ASSUME mode = "replicated", NEW c \in Range(Collections), world'[c] # Absent
       PROVE  high' # Absent /\ world'[c] <= high'
  <2>1. Sound(FALSE)'
    BY <1>5, <1>10
  <2>2. c \in Keys
    BY DEF Keys
  <2>3. world[c] # Absent => high # Absent /\ world[c] <= high
    BY <1>4, <1>10 DEF WorldIsHighest
  <2>4. CASE DOMAIN writes = {} /\ high' = high
    BY <1>1, <1>10, <2>2, <2>3, <2>4
  <2>5. CASE \E v \in AlignedValues :
               Wrote(writes, missed, v) /\ high' = v /\ (high = Absent \/ high < v)
    <3>1. PICK v \in AlignedValues :
            Wrote(writes, missed, v) /\ high' = v /\ (high = Absent \/ high < v)
      BY <2>5
    <3>2. v \in Int /\ v # Absent /\ (world[c] # Absent => world[c] \in Int)
          /\ (high # Absent => high \in Int)
      BY <1>3, <2>2, SequenceAssumption DEF AlignedValues, Values
    <3>3. CASE c \in DOMAIN writes
      BY <1>1, <2>2, <3>1, <3>2, <3>3 DEF Wrote
    <3>4. CASE c \notin DOMAIN writes
      <4>1. world'[c] = world[c]
        BY <1>1, <2>2, <3>4
      <4> QED
        BY <1>10, <2>3, <3>1, <3>2, <4>1
    <3> QED
      BY <3>3, <3>4
  <2> QED
    BY <1>6, <2>1, <2>4, <2>5
<1> QED
  BY <1>1, <1>8, <1>9, <1>10 DEF WorldIsHighest

\* A transaction that survives the commit of another one did nothing, or the
\* other one did, or it makes no claim any more.
LEMMA CommitRuns ==
    ASSUME SequenceInv, AloneInv, NEW t \in Txs, Commit(t)
    PROVE  AloneInv'
<1> DEFINE writes == proposal[t].writes
           missed == proposal[t].call.missed
           stale == Ledger!ReadersOf(DOMAIN writes) \ {t}
<1>1. /\ phase' = [u \in Txs |-> IF u = t THEN "idle"
                                 ELSE IF u \in stale THEN "stale" ELSE phase[u]]
      /\ proposal' = [u \in Txs |-> IF u = t \/ u \in stale
                                    THEN NoProposal ELSE proposal[u]]
  BY DEF Commit, Ledger!CommitValid
<1>2. UNCHANGED <<mode, session>> /\ session = NoSession /\ Targets' = Targets
  BY CommitDoes DEF Commit
<1>3. CommitsNothing(t) \/ CommitsOne(t) \/ ~Sound(FALSE)'
  BY StillSound, CommitMovesHigh
<1> HIDE DEF writes, missed, stale
<1>4. ASSUME NEW u \in Txs, phase'[u] = "endorsed",
             NEW c, NEW r, NEW w, proposal[u] = proposal'[u],
             c = proposal[u].call, r = proposal[u].reads, w = proposal[u].writes
      PROVE  Runs(c, r, w)'
  <2>1. phase[u] = "endorsed" /\ u \notin stale /\ u # t
    BY <1>1, <1>4
  <2>2. Runs(c, r, w)
    BY <1>4, <2>1 DEF AloneInv, ProposalRuns
  <2>3. r \cap DOMAIN writes = {}
    BY <1>4, <2>1 DEF stale, writes, Ledger!ReadersOf
  <2>4. CASE ~Sound(c.blind)'
    <3>1. mode = "private" /\ c.ensured = {}
      BY <1>2, <2>2, <2>4 DEF Sound, Runs
    <3>2. c.issued = <<>> => DOMAIN w = {} /\ c.missed = {} /\ ~c.blind
      BY <2>2, <3>1 DEF Runs
    <3> QED
      BY <2>4, <3>1, <3>2 DEF Runs
  <2>5. CASE c.issued = <<>> /\ c.ensured = {}
    <3>1. DOMAIN w = {} /\ c.missed = {} /\ ~c.blind
      BY <2>2, <2>5 DEF Runs
    <3> QED
      BY <2>5, <3>1 DEF Runs
  <2>6. CASE Sound(c.blind)' /\ ~(c.issued = <<>> /\ c.ensured = {})
    <3>1. Sound(FALSE)'
      BY <2>6 DEF Sound
    <3>2. Sound(c.blind) /\ (mode = "private" => missed = {})
      BY <1>2, <2>6, <3>1, StillSound DEF Sound, missed
    <3>3. Meets(r)
      BY <2>2, <2>6, <3>2 DEF Runs
    <3>4. ~CommitsOne(t)
      <4> SUFFICES ASSUME CommitsOne(t) PROVE FALSE
        OBVIOUS
      <4>1. Targets \ missed \subseteq DOMAIN writes
        BY DEF CommitsOne, Wrote, Reaches, writes, missed
      <4>2. CASE mode = "private"
        BY <2>3, <3>2, <3>3, <4>1, <4>2 DEF Meets
      <4>3. CASE mode # "private"
        <5>1. Public \in Targets
          BY <4>3 DEF SequenceInv, LedgerIsTyped, Modes, Targets, Keys
        <5>2. Public \notin missed
          BY CommitDoes, SequenceAssumption DEF Proposals, Uses, missed
        <5> QED
          BY <2>3, <3>3, <4>1, <4>3, <5>1, <5>2 DEF Meets
      <4> QED
        BY <4>2, <4>3
    <3>5. high' = high
      BY <1>3, <3>1, <3>4 DEF CommitsNothing
    <3>6. \A issued : Above(issued)' <=> Above(issued)
      BY <3>5 DEF Above
    <3>7. \A x, m, v : Wrote(x, m, v)' <=> Wrote(x, m, v)
      BY <1>2 DEF Wrote, Reaches
    <3>8. Meets(r)'
      BY <1>2, <3>3 DEF Meets
    <3> QED
      BY <1>2, <2>2, <2>6, <3>2, <3>5, <3>6, <3>7, <3>8 DEF Runs
  <2> QED
    BY <2>4, <2>5, <2>6
<1>5. ASSUME NEW u \in Txs PROVE ProposalRuns(u)'
  <2> SUFFICES ASSUME phase'[u] = "endorsed" PROVE ProposalRuns(u)'
    BY DEF ProposalRuns
  <2>1. proposal'[u] = proposal[u]
    BY <1>1
  <2>2. PICK c, r, w : c = proposal[u].call /\ r = proposal[u].reads /\ w = proposal[u].writes
    OBVIOUS
  <2>3. Runs(c, r, w)'
    BY <1>4, <2>1, <2>2
  <2> QED
    BY <2>1, <2>2, <2>3 DEF ProposalRuns
<1>6. SessionRuns'
  BY <1>2 DEF SessionRuns
<1> QED
  BY <1>5, <1>6, CommitWorldIsHighest DEF AloneInv

LEMMA InitAloneInv == Init => AloneInv
<1> SUFFICES ASSUME Init PROVE AloneInv
  OBVIOUS
<1>1. SequenceInv /\ Targets \subseteq Keys
  BY InitSequenceInv, TargetsAreKeys DEF SequenceInv, LedgerIsTyped
<1>2. WorldIsHighest
  BY <1>1 DEF Init, Ledger!Init, WorldIsHighest, Keys
<1>3. SessionRuns /\ \A t \in Txs : ProposalRuns(t)
  BY DEF Init, Ledger!Init, SessionRuns, ProposalRuns
<1> QED
  BY <1>2, <1>3 DEF AloneInv

LEMMA AloneInvStep ==
    ASSUME ~MixedUse, SequenceInv, AloneInv, [Next]_vars
    PROVE  AloneInv'
<1>1. CASE UNCHANGED vars
  <2>1. session' # NoSession =>
          /\ Runs(session', session'.reads, session'.writes)
          /\ session'.cache = IF session'.issued = <<>> THEN Absent
                              ELSE session'.issued[Len(session'.issued)]
    BY <1>1 DEF AloneInv, SessionRuns, vars
  <2> QED
    BY <1>1, <2>1, SessionStepRuns DEF vars
<1>2. ASSUME NEW t \in Txs, Begin(t) \/ Commit(t) \/ Drop(t) PROVE AloneInv'
  BY <1>2, BeginRuns, CommitRuns, DropRuns
<1>3. ASSUME NEW count \in Counts, NEW unread \in Refusals, NEW missed \in Refusals,
             Increment(count, unread, missed)
      PROVE  AloneInv'
  BY <1>3, IncrementRuns
<1>4. ASSUME NEW v \in Floors, NEW missed \in Refusals, EnsureAtLeast(v, missed)
      PROVE  AloneInv'
  BY <1>4, EnsureRuns
<1>5. CASE Throw
  BY <1>5, SessionStepRuns DEF Throw
<1> QED
  BY <1>1, <1>2, <1>3, <1>4, <1>5, SubmitRuns DEF Next

LEMMA AloneInvHolds ==
    ASSUME ~MixedUse
    PROVE  Spec => []AloneInv
<1>1. AloneInv /\ SequenceInv /\ [Next]_vars => AloneInv'
  BY AloneInvStep
<1> QED
  BY <1>1, InitAloneInv, SequenceInvHolds, PTL DEF Spec

-----------------------------------------------------------------------------
\* Theorems about sessions that do not combine ensureAtLeast with another use.

\* No two transactions that can both be committed hold a common value, and
\* none holds one that was issued before or lies below a value ensured.  A
\* public record gives this whatever the collections refuse; a private one as
\* long as transactions found a collection to read and wrote to all of them.
THEOREM ValuesIssuedOnce ==
    ASSUME ~MixedUse
    PROVE  Spec => []IssuedOnce
<1>1. AloneInv => IssuedOnce
  <2> SUFFICES ASSUME AloneInv PROVE IssuedOnce
    OBVIOUS
  <2>1. Above(<<>>)
    BY DEF Above
  <2>2. session # NoSession /\ Sound(session.blind) => Above(session.issued)
    BY <2>1 DEF AloneInv, SessionRuns, Runs
  <2>3. \A t \in Txs : phase[t] = "endorsed" /\ Sound(proposal[t].call.blind) =>
          Above(proposal[t].call.issued)
    BY <2>1 DEF AloneInv, ProposalRuns, Runs
  <2> QED
    BY <2>2, <2>3 DEF IssuedOnce
<1> QED
  BY <1>1, AloneInvHolds, PTL

LEMMA StoredIsHigh ==
    ASSUME SequenceInv, WorldIsHighest, Sound(FALSE)
    PROVE  Stored = high
<1>1. ~(Range(Collections) \subseteq {})
  BY SequenceAssumption DEF Range
<1> QED
  BY <1>1, FoundIsHigh DEF Stored

StoredIsSoundlyHigh == SequenceInv /\ WorldIsHighest /\ Sound(FALSE) => Stored = high

LEMMA StoredIsHighNext == StoredIsSoundlyHigh'
<1>1. StoredIsSoundlyHigh
  BY StoredIsHigh DEF StoredIsSoundlyHigh
<1> QED
  BY <1>1, PTL

\* The record is the highest value a committed transaction issued or ensured,
\* under the same reservation for a private one.
THEOREM RecordIsHighest ==
    ASSUME ~MixedUse
    PROVE  Spec => []StoredIsHighest
<1>1. SequenceInv /\ AloneInv => StoredIsHighest
  BY StoredIsHigh DEF AloneInv, StoredIsHighest
<1> QED
  BY <1>1, SequenceInvHolds, AloneInvHolds, PTL

\* Though the write of a collection may fail alone: all collections that did
\* not miss the last write hold the same value, one that did holds an older
\* one, and the next write that reaches it makes up for it.
THEOREM ReplicasAlwaysAgree ==
    ASSUME ~MixedUse
    PROVE  Spec => []ReplicasAgree
<1>1. SequenceInv /\ AloneInv => ReplicasAgree
  <2> SUFFICES ASSUME SequenceInv, AloneInv PROVE ReplicasAgree
    OBVIOUS
  <2>1. \A c, d \in Targets \ lagging : world[c] = world[d]
    BY DEF SequenceInv, WorldIsTyped
  <2>2. ASSUME mode = "replicated", NEW c \in Range(Collections)
        PROVE  /\ c \notin lagging => world[c] = world[Public]
               /\ world[c] # Absent => world[Public] # Absent /\ world[c] <= world[Public]
    <3>1. Public \in Targets \ lagging /\ c \in Targets
      BY <2>2, SequenceAssumption DEF SequenceInv, WorldIsTyped, Targets, Keys
    <3>2. world[Public] = high
      BY <2>2, <3>1 DEF AloneInv, WorldIsHighest, Sound
    <3> QED
      BY <2>1, <2>2, <3>1, <3>2 DEF AloneInv, WorldIsHighest
  <2>3. mode = "private" => Targets = Range(Collections)
    BY DEF Targets
  <2> QED
    BY <2>1, <2>2, <2>3 DEF ReplicasAgree
<1> QED
  BY <1>1, SequenceInvHolds, AloneInvHolds, PTL

\* What ensureAtLeast promises holds for a session that does nothing else with
\* the sequence; combined with increment it does not.
THEOREM EnsuredLastsAlone ==
    ASSUME ~MixedUse
    PROVE  Spec => EnsuredLasts
<1> DEFINE Lasts(t) ==
        phase[t] = "endorsed" /\ world' # world /\ phase'[t] = "idle" =>
            \A v \in proposal[t].call.ensured : Stored' # Absent /\ Stored' >= v
<1>1. ASSUME SequenceInv, SequenceInv', AloneInv, AloneInv', [Next]_vars, NEW t \in Txs,
             phase[t] = "endorsed", world' # world, phase'[t] = "idle",
             NEW v \in proposal[t].call.ensured
      PROVE  Stored' # Absent /\ Stored' >= v
  <2>1. PICK u \in Txs : Commit(u)
    BY <1>1 DEF Next, vars, Begin, Increment, EnsureAtLeast, Submit, Throw, Drop,
        Ledger!Endorse, Ledger!CommitInvalid, Ledger!Abandon
  <2>2. u = t
    BY <1>1, <2>1 DEF Commit, Ledger!CommitValid
  <2>3. v \in Used(t) /\ Used(t) \in SUBSET Values
        /\ high' = IF Used(t) = {} THEN Absent ELSE Highest(Used(t))
    BY <1>1, <2>1, <2>2, CommitDoes DEF Used
  <2>4. high' = Highest(Used(t)) /\ high' \in Values /\ v <= high'
    BY <2>3, HighestExists
  <2>5. mode # "private"
    BY <1>1 DEF AloneInv, ProposalRuns, Runs
  <2>6. Sound(FALSE)'
    BY <2>1, <2>5 DEF Commit, Sound
  <2>7. Stored' = high'
    BY <1>1, <2>6, StoredIsHighNext DEF AloneInv, StoredIsSoundlyHigh
  <2> QED
    BY <2>4, <2>7, SequenceAssumption DEF Values
<1>2. SequenceInv /\ SequenceInv' /\ AloneInv /\ AloneInv' /\ [Next]_vars
        => [\A t \in Txs : Lasts(t)]_vars
  BY <1>1
<1> QED
  BY <1>2, SequenceInvHolds, AloneInvHolds, PTL DEF Spec, EnsuredLasts
===============================================================================
