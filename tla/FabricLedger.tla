---------------------------- MODULE FabricLedger ----------------------------
(***************************************************************************)
(* The state database a chaincode runs on, as the contracts of this        *)
(* repository rely on it: a transaction is executed against the committed  *)
(* state by a peer (endorsement), later put in a block, and committed only *)
(* if no key it read was written in between (MVCC validation).  While it   *)
(* executes, a transaction sees the committed state only, never its own    *)
(* writes.  The code of the peers is not in the repository; src/ shows     *)
(* what the contracts use of it (stub.getState, putState, getQueryResult)  *)
(* and the client the outcome of validation (MVCC_READ_CONFLICT).          *)
(*                                                                         *)
(* A key is in a transaction's read set when it was read by key or was     *)
(* returned by a rich query.  A key that a rich query did NOT return is    *)
(* not in the read set, so a row inserted later does not invalidate the    *)
(* transaction: rich queries are not protected from phantoms.              *)
(*                                                                         *)
(* Versions are abstracted: a proposal becomes "stale" at the commit that  *)
(* overwrites a key it has read, which is when its recorded version stops  *)
(* being the committed one (also if the same value is written again).      *)
(***************************************************************************)
CONSTANTS
    Keys,       \* the composite keys of the world state
    Txs,        \* slots for transactions in flight: bounds concurrency
    Absent,     \* what a key without a record reads as
    NoProposal  \* the content of a slot that holds no valid proposal

VARIABLES
    world,      \* committed state: [Keys -> record or Absent]
    phase,      \* per slot: "idle", "endorsed" or "stale"
    proposal    \* per slot: [call, reads, writes], or NoProposal

vars == <<world, phase, proposal>>

Phases == {"idle", "endorsed", "stale"}

Init ==
    /\ world = [k \in Keys |-> Absent]
    /\ phase = [t \in Txs |-> "idle"]
    /\ proposal = [t \in Txs |-> NoProposal]

\* A peer executes the call and signs what it resulted in: the set of keys
\* it read and the function from keys to records that it put.
Endorse(t, call, reads, writes) ==
    /\ phase[t] = "idle"
    /\ phase' = [phase EXCEPT ![t] = "endorsed"]
    /\ proposal' = [proposal EXCEPT ![t] =
                    [call |-> call, reads |-> reads, writes |-> writes]]
    /\ UNCHANGED world

\* The slots whose proposal read a key of the set written.
ReadersOf(written) ==
    {u \in Txs : phase[u] = "endorsed" /\ proposal[u].reads \cap written # {}}

\* Validation finds every version unchanged: the write set is applied, and
\* every other proposal that read one of the written keys is now stale.
CommitValid(t) ==
    LET writes == proposal[t].writes
        stale == ReadersOf(DOMAIN writes) \ {t}
    IN  /\ phase[t] = "endorsed"
        /\ world' = [k \in Keys |-> IF k \in DOMAIN writes THEN writes[k] ELSE world[k]]
        /\ phase' = [u \in Txs |-> IF u = t THEN "idle"
                                   ELSE IF u \in stale THEN "stale" ELSE phase[u]]
        /\ proposal' = [u \in Txs |-> IF u = t \/ u \in stale
                                      THEN NoProposal ELSE proposal[u]]

\* Validation finds an overwritten version: MVCC_READ_CONFLICT, no write is
\* applied and the slot is free for a new call.
CommitInvalid(t) ==
    /\ phase[t] = "stale"
    /\ phase' = [phase EXCEPT ![t] = "idle"]
    /\ UNCHANGED <<world, proposal>>

\* The client never submits the endorsed transaction (it crashed, timed out
\* or could not collect the endorsements it needed).
Abandon(t) ==
    /\ phase[t] = "endorsed"
    /\ phase' = [phase EXCEPT ![t] = "idle"]
    /\ proposal' = [proposal EXCEPT ![t] = NoProposal]
    /\ UNCHANGED world
=============================================================================
