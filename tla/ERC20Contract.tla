---------------------------- MODULE ERC20Contract ----------------------------
(***************************************************************************)
(* FabricERC20Contract (src/contracts/erc20/erc20contract.ts) and its      *)
(* @Owner decorator, executed by concurrent clients.  Every method that    *)
(* writes is an action that endorses it: its conjuncts are the negations   *)
(* of the method's throws (a call that throws has no endorsement and no    *)
(* effect), and the read and write sets it leaves in a slot are those of   *)
(* all the repository calls it makes.  The slot is resolved later, after   *)
(* any number of other commits.                                            *)
(*                                                                         *)
(* A wallet is its balance; its token and captive columns never change     *)
(* what a method does.  An allowance is stored under its owner alone: the  *)
(* pk decorator of models.ts is on that column.                            *)
(***************************************************************************)
EXTENDS Integers, FiniteSets, FiniteSetsExt

CONSTANTS
    Clients,        \* client identities
    Names,          \* names a token may be initialised with
    Amounts,        \* the numbers callers pass, negative ones included
    Representable,  \* the integers a JavaScript number holds exactly
    Txs, Absent, NoProposal

Allowances == [spender : Clients, value : Representable]

ASSUME ERC20Assumption ==
    /\ Representable \subseteq Int
    /\ Amounts \subseteq Representable
    /\ Absent \notin Clients
    /\ Absent \notin [owner : Clients]
    /\ Absent \notin Representable
    /\ Absent \notin Allowances

VARIABLES world, phase, proposal

vars == <<world, phase, proposal>>

TokenKey(n) == <<"erc20_tokens", n>>
WalletKey(c) == <<"erc20_wallets", c>>
AllowanceKey(o) == <<"erc20_allowances", o>>

Keys == {TokenKey(n) : n \in Names} \cup {WalletKey(c) : c \in Clients}
            \cup {AllowanceKey(o) : o \in Clients}

Ledger == INSTANCE FabricLedger

-----------------------------------------------------------------------------
\* What the methods read of the committed state.

Tokens == {n \in Names : world[TokenKey(n)] # Absent}
TokenRows == {TokenKey(n) : n \in Tokens}

CheckInitialized == Tokens # {}

OwnsToken(c) == \E n \in Tokens : world[TokenKey(n)].owner = c

\* The @Owner decorator: exactly one token, owned by the caller.
Owner(c) == OwnsToken(c) /\ Cardinality(Tokens) = 1

HasWallet(c) == world[WalletKey(c)] # Absent
Balance(c) == IF HasWallet(c) THEN world[WalletKey(c)] ELSE 0

\* _getAllowance: the rich query on owner and spender finds the record.
HasAllowance(o, s) ==
    /\ world[AllowanceKey(o)] # Absent
    /\ world[AllowanceKey(o)].spender = s

TotalSupply == MapThenSumSet(Balance, Clients)

\* Mutant of Exact: add and sub without the overflow check.
ExactUnchecked(n) == n \in Int

\* add and sub return the exact result or throw OverflowError (SafeMath).
Exact(n) == n \in Representable

-----------------------------------------------------------------------------
\* Endorsement of each method that writes.

\* Mutant of Endorse: records taken from a cache instead of the stub, so that
\* only the token's is in the read set.
EndorseCached(t, fn, caller, reads, writes) ==
    Ledger!Endorse(t, [fn |-> fn, caller |-> caller], TokenRows, writes)

Endorse(t, fn, caller, reads, writes) ==
    Ledger!Endorse(t, [fn |-> fn, caller |-> caller], TokenRows \cup reads, writes)

Init == Ledger!Init

\* The guard is a rich query: only the key of the new token is in the read
\* set (create reads it), no other token that may appear meanwhile.
Initialize(t, c, n) ==
    /\ Tokens = {}
    /\ Endorse(t, "Initialize", c, {TokenKey(n)}, [k \in {TokenKey(n)} |-> [owner |-> c]])

\* Mutant of CanMove: the sender's funds are not checked.
CanMoveUnfunded(from, to, v) ==
    /\ from # to
    /\ v >= 0
    /\ HasWallet(from)
    /\ Exact(Balance(from) - v)
    /\ Exact(Balance(to) + v)

\* Mutant of CanMove: the check that the parties differ is missing.
CanMoveToSelf(from, to, v) ==
    /\ v >= 0
    /\ HasWallet(from)
    /\ Balance(from) >= v
    /\ Exact(Balance(from) - v)
    /\ Exact(Balance(to) + v)

\* _transfer; a recipient without a wallet gets one.
CanMove(from, to, v) ==
    /\ from # to
    /\ v >= 0
    /\ HasWallet(from)
    /\ Balance(from) >= v
    /\ Exact(Balance(from) - v)
    /\ Exact(Balance(to) + v)

\* The recipient's record is put last.
MoveWrites(from, to, v) ==
    [k \in {WalletKey(from), WalletKey(to)} |->
        IF k = WalletKey(to) THEN Balance(to) + v ELSE Balance(from) - v]

Transfer(t, c, to, v) ==
    /\ CheckInitialized
    /\ CanMove(c, to, v)
    /\ Endorse(t, "Transfer", c, {WalletKey(c), WalletKey(to)}, MoveWrites(c, to, v))

\* Mutant of AllowanceWrite: a new approval adds to the previous one.
AllowanceAdded(o, s, v) ==
    [k \in {AllowanceKey(o)} |->
        [spender |-> s,
         value |-> v + IF HasAllowance(o, s) THEN world[AllowanceKey(o)].value ELSE 0]]

\* The allowance record with its value replaced, as put by update or create.
AllowanceWrite(o, s, v) == [k \in {AllowanceKey(o)} |-> [spender |-> s, value |-> v]]

\* Mutant of Charged: the allowance is not updated.
ChargedNothing(from, to, spender, v) == MoveWrites(from, to, v)

\* Both wallets and the allowance charged to spender.
Charged(from, to, spender, v) ==
    LET moved == MoveWrites(from, to, v)
        charged == AllowanceWrite(from, spender, world[AllowanceKey(from)].value - v)
    IN  [k \in DOMAIN moved \cup DOMAIN charged |->
            IF k \in DOMAIN moved THEN moved[k] ELSE charged[k]]

TransferFrom(t, c, from, to, v) ==
    LET value == world[AllowanceKey(from)].value
    IN  /\ CheckInitialized
        /\ HasAllowance(from, c)
        /\ value >= 0
        /\ value >= v
        /\ Exact(value - v)
        /\ CanMove(from, to, v)
        /\ Endorse(t, "TransferFrom", c,
                   {AllowanceKey(from), WalletKey(from), WalletKey(to)},
                   Charged(from, to, c, v))

\* The record found by the query is updated; if there is none a new one is
\* created, which throws ConflictError when the owner's key is taken by the
\* allowance of another spender.
CanApprove(c, s, v) ==
    /\ HasWallet(c)
    /\ Balance(c) >= v
    /\ HasAllowance(c, s) \/ world[AllowanceKey(c)] = Absent

Approve(t, c, s, v) ==
    /\ CheckInitialized
    /\ CanApprove(c, s, v)
    /\ Endorse(t, "Approve", c, {WalletKey(c), AllowanceKey(c)}, AllowanceWrite(c, s, v))

WalletWrite(c, v) == [k \in {WalletKey(c)} |-> v]

\* The first Mint creates the owner's wallet.
Mint(t, c, a) ==
    /\ Owner(c)
    /\ a > 0
    /\ Exact(Balance(c) + a)
    /\ Endorse(t, "Mint", c, {WalletKey(c)}, WalletWrite(c, Balance(c) + a))

\* Burn is BurnFrom on the caller's own wallet.
CanBurn(c, account, a) ==
    /\ Owner(c)
    /\ HasWallet(account)
    /\ Balance(account) >= a
    /\ Exact(Balance(account) - a)

Burn(t, c, a) ==
    /\ CanBurn(c, c, a)
    /\ Endorse(t, "Burn", c, {WalletKey(c)}, WalletWrite(c, Balance(c) - a))

BurnFrom(t, c, account, a) ==
    /\ CanBurn(c, account, a)
    /\ Endorse(t, "BurnFrom", c, {WalletKey(account)},
               WalletWrite(account, Balance(account) - a))

Next == \E t \in Txs :
    \/ \E c \in Clients, n \in Names : Initialize(t, c, n)
    \/ \E c, to \in Clients, v \in Amounts : Transfer(t, c, to, v)
    \/ \E c, from, to \in Clients, v \in Amounts : TransferFrom(t, c, from, to, v)
    \/ \E c, s \in Clients, v \in Amounts : Approve(t, c, s, v)
    \/ \E c \in Clients, a \in Amounts : Mint(t, c, a)
    \/ \E c \in Clients, a \in Amounts : Burn(t, c, a)
    \/ \E c, account \in Clients, a \in Amounts : BurnFrom(t, c, account, a)
    \/ Ledger!CommitValid(t)
    \/ Ledger!CommitInvalid(t)
    \/ Ledger!Abandon(t)

Spec == Init /\ [][Next]_vars

-----------------------------------------------------------------------------
\* Properties.

Calls == [fn : {"Initialize", "Transfer", "TransferFrom", "Approve", "Mint",
                "Burn", "BurnFrom"}, caller : Clients]

\* The records each table may hold.
Rows(k) ==
    IF k[1] = "erc20_tokens" THEN [owner : Clients]
    ELSE IF k[1] = "erc20_wallets" THEN Representable
    ELSE Allowances

\* Every committed record, and every record an endorsed call is about to
\* write, is one of its table.
TypeOK ==
    /\ DOMAIN world = Keys
    /\ \A k \in Keys : world[k] = Absent \/ world[k] \in Rows(k)
    /\ phase \in [Txs -> Ledger!Phases]
    /\ DOMAIN proposal = Txs
    /\ \A t \in Txs : phase[t] = "endorsed" =>
          /\ proposal[t].call \in Calls
          /\ DOMAIN proposal[t].writes \subseteq proposal[t].reads
          /\ proposal[t].reads \subseteq Keys
          /\ \A k \in DOMAIN proposal[t].writes : proposal[t].writes[k] \in Rows(k)

\* No wallet is ever overdrawn, whatever transfers, draws on allowances and
\* burns of the same wallet are in flight together (the funds checks of
\* _transfer, Burn and BurnFrom are made at endorsement only).
NonNegativeBalances == \A c \in Clients : Balance(c) >= 0

\* The call in slot t has read a token, one that is there and that the
\* caller owns if the method is for owners.
TokenWasRead(t) ==
    \E n \in Tokens :
        /\ TokenKey(n) \in proposal[t].reads
        /\ proposal[t].call.fn \in {"Mint", "Burn", "BurnFrom"} =>
              world[TokenKey(n)].owner = proposal[t].call.caller

\* The writes of the call in slot t are those its method would make of the
\* committed state as it is now, not only as it was at endorsement.
EffectHoldsNow(t) ==
    LET c == proposal[t].call.caller
        fn == proposal[t].call.fn
        writes == proposal[t].writes
    IN  \/ /\ fn = "Initialize"
           /\ \E n \in Names \ Tokens :
                 writes = [k \in {TokenKey(n)} |-> [owner |-> c]]
        \/ /\ fn = "Transfer"
           /\ \E to \in Clients, v \in Amounts :
                 CanMove(c, to, v) /\ writes = MoveWrites(c, to, v)
        \/ /\ fn = "TransferFrom"
           /\ \E from, to \in Clients, v \in Amounts :
                 /\ CanMove(from, to, v)
                 /\ HasAllowance(from, c)
                 /\ world[AllowanceKey(from)].value >= v
                 /\ writes = Charged(from, to, c, v)
        \/ /\ fn = "Approve"
           /\ WalletKey(c) \in proposal[t].reads
           /\ \E s \in Clients, v \in Amounts :
                 CanApprove(c, s, v) /\ writes = AllowanceWrite(c, s, v)
        \/ /\ fn = "Mint"
           /\ \E a \in Amounts : a > 0 /\ writes = WalletWrite(c, Balance(c) + a)
        \/ /\ fn \in {"Burn", "BurnFrom"}
           /\ \E account \in Clients, a \in Amounts :
                 /\ fn = "Burn" => account = c
                 /\ HasWallet(account) /\ Balance(account) >= a
                 /\ writes = WalletWrite(account, Balance(account) - a)

\* A call that can still commit has, at every moment until it does, the
\* preconditions and the effect it was endorsed with: no method acts on a
\* record it did not put in its read set.  (What a rich query did not find
\* is not in a read set, so Initialize may find another token by now, and
\* the owner of a token may no longer be the owner of the only one.)
EndorsedStillValid ==
    \A t \in Txs : phase[t] = "endorsed" =>
        /\ EffectHoldsNow(t)
        /\ proposal[t].call.fn # "Initialize" => TokenWasRead(t)

\* The step commits a call of one of the methods fns by caller.
Commits(caller, fns) ==
    \E t \in Txs :
        /\ phase[t] = "endorsed" /\ phase'[t] = "idle"
        /\ world' # world
        /\ proposal[t].call.fn \in fns
        /\ proposal[t].call.caller = caller

\* Tokens leave a wallet only by a Transfer of its holder, by a
\* TransferFrom of the spender its holder approved, which takes the same
\* amount off that allowance in the same commit, or by a burn of the
\* token's owner.
Debited(c) ==
    \/ Commits(c, {"Transfer"})
    \/ \E spender \in Clients :
          /\ Commits(spender, {"TransferFrom"})
          /\ HasAllowance(c, spender)
          /\ HasAllowance(c, spender)'
          /\ world[AllowanceKey(c)].value - world'[AllowanceKey(c)].value
                 = Balance(c) - Balance(c)'
          /\ world'[AllowanceKey(c)].value >= 0
    \/ \E burner \in Clients :
          Commits(burner, {"Burn", "BurnFrom"}) /\ OwnsToken(burner)

DebitAuthorised == [][\A c \in Clients : Balance(c)' < Balance(c) => Debited(c)]_vars

\* The sum of all balances, which TotalSupply returns, changes only by a
\* commit of Mint, Burn or BurnFrom called by the token's owner: transfers
\* conserve it, however they interleave.
SupplyMovesWithOwner ==
    [][TotalSupply' # TotalSupply =>
        \E c \in Clients : Commits(c, {"Mint", "Burn", "BurnFrom"}) /\ OwnsToken(c)]_vars

\* The token as its callers see it.
Token == INSTANCE ERC20Token WITH
    NoOwner <- Absent,
    owner <- IF Tokens = {} THEN Absent
             ELSE world[TokenKey(CHOOSE n \in Tokens : TRUE)].owner,
    balance <- [c \in Clients |-> Balance(c)],
    allowance <- [o \in Clients |-> [s \in Clients |->
                    IF HasAllowance(o, s) THEN world[AllowanceKey(o)].value ELSE 0]],
    supply <- TotalSupply

\* With one possible token name, executing calls optimistically against the
\* ledger and validating them at commit is indistinguishable from executing
\* each at once: every commit is a step of the abstract token.
ImplementsToken == Token!Spec

-----------------------------------------------------------------------------
\* Claims of the contract's comments that runs refute.

\* "Check contract options are not already set, client is not authorized to
\* change them once intitialized" (comment of Initialize): one token.
AtMostOneToken == Cardinality(Tokens) <= 1

\* "Allows `spender` to spend `value` amount of tokens from the owner. New
\* Approve calls override the previous allowance." (comment of Approve): a
\* holder with the funds may approve any spender.
AnySpenderApprovable ==
    \A o, s \in Clients, v \in Amounts :
        CheckInitialized /\ HasWallet(o) /\ Balance(o) >= v => CanApprove(o, s, v)
=============================================================================
