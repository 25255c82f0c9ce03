----------------------------- MODULE ERC20Token -----------------------------
(***************************************************************************)
(* What the ERC20 contract promises to its callers: a token with one       *)
(* owner, one balance per client and one allowance per (owner, spender),   *)
(* on which every call takes effect at once.  ERC20Contract, where a call  *)
(* is executed and committed at different times, implements it.            *)
(***************************************************************************)
EXTENDS Integers

CONSTANTS
    Clients,    \* client identities, each the id of its own wallet
    Amounts,    \* the numbers callers pass
    NoOwner     \* the owner before Initialize

VARIABLES owner, balance, allowance, supply

vars == <<owner, balance, allowance, supply>>

Init ==
    /\ owner = NoOwner
    /\ balance = [c \in Clients |-> 0]
    /\ allowance = [o \in Clients |-> [s \in Clients |-> 0]]
    /\ supply = 0

Initialize(c) ==
    /\ owner = NoOwner
    /\ owner' = c
    /\ UNCHANGED <<balance, allowance, supply>>

Moved(from, to, v) == [balance EXCEPT ![from] = @ - v, ![to] = @ + v]

CanMove(from, to, v) == from # to /\ v >= 0 /\ balance[from] >= v

Transfer(from, to, v) ==
    /\ owner # NoOwner
    /\ CanMove(from, to, v)
    /\ balance' = Moved(from, to, v)
    /\ UNCHANGED <<owner, allowance, supply>>

\* The allowance is charged in the same step as the balances move.
TransferFrom(spender, from, to, v) ==
    /\ owner # NoOwner
    /\ CanMove(from, to, v)
    /\ allowance[from][spender] >= v
    /\ balance' = Moved(from, to, v)
    /\ allowance' = [allowance EXCEPT ![from][spender] = @ - v]
    /\ UNCHANGED <<owner, supply>>

Approve(o, s, v) ==
    /\ owner # NoOwner
    /\ balance[o] >= v
    /\ allowance' = [allowance EXCEPT ![o][s] = v]
    /\ UNCHANGED <<owner, balance, supply>>

Mint(a) ==
    /\ owner # NoOwner
    /\ a > 0
    /\ balance' = [balance EXCEPT ![owner] = @ + a]
    /\ supply' = supply + a
    /\ UNCHANGED <<owner, allowance>>

\* Burn takes from the owner's wallet, BurnFrom from any; the code checks the
\* funds of the account but not the sign of the amount.
Burn(account, a) ==
    /\ owner # NoOwner
    /\ balance[account] >= a
    /\ balance' = [balance EXCEPT ![account] = @ - a]
    /\ supply' = supply - a
    /\ UNCHANGED <<owner, allowance>>

Next ==
    \/ \E c \in Clients : Initialize(c)
    \/ \E from, to \in Clients, v \in Amounts : Transfer(from, to, v)
    \/ \E s, from, to \in Clients, v \in Amounts : TransferFrom(s, from, to, v)
    \/ \E o, s \in Clients, v \in Amounts : Approve(o, s, v)
    \/ \E a \in Amounts : Mint(a)
    \/ \E c \in Clients, a \in Amounts : Burn(c, a)

Spec == Init /\ [][Next]_vars
=============================================================================
