----------------------------- MODULE ERC20Proofs -----------------------------
(***************************************************************************)
(* Safety of ERC20Contract for every number of clients, token names,       *)
(* transactions in flight and amounts.                                     *)
(***************************************************************************)
EXTENDS ERC20Contract, TLAPS

\* Keys of different tables, and of different records, are different, and
\* each key has the records of its table.
LEMMA KeysDistinct ==
    ASSUME NEW a, NEW b
    PROVE  /\ TokenKey(a) # WalletKey(b)
           /\ TokenKey(a) # AllowanceKey(b)
           /\ WalletKey(a) # AllowanceKey(b)
           /\ TokenKey(a) = TokenKey(b) => a = b
           /\ WalletKey(a) = WalletKey(b) => a = b
           /\ AllowanceKey(a) = AllowanceKey(b) => a = b
BY DEF TokenKey, WalletKey, AllowanceKey

LEMMA RowsOfTables ==
    /\ \A n \in Names : Rows(TokenKey(n)) = [owner : Clients]
    /\ \A c \in Clients : /\ Rows(WalletKey(c)) = Representable
                         /\ Rows(AllowanceKey(c)) = Allowances
BY DEF TokenKey, WalletKey, AllowanceKey, Rows

LEMMA KeysOfTables ==
    /\ \A n \in Names : TokenKey(n) \in Keys
    /\ \A c \in Clients : WalletKey(c) \in Keys /\ AllowanceKey(c) \in Keys
BY DEF Keys

\* A committed balance is a number.
LEMMA BalanceIsNumber ==
    ASSUME TypeOK, NEW c \in Clients
    PROVE  /\ HasWallet(c) => Balance(c) \in Representable
           /\ Balance(c) \in Int
<1>1. world[WalletKey(c)] = Absent \/ world[WalletKey(c)] \in Representable
  BY KeysOfTables, RowsOfTables DEF TypeOK
<1>2. CASE world[WalletKey(c)] = Absent
  BY <1>2 DEF HasWallet, Balance
<1>3. CASE world[WalletKey(c)] \in Representable
  <2>1. world[WalletKey(c)] \in Int
    BY <1>3, ERC20Assumption
  <2>2. QED
    BY <1>3, <2>1 DEF HasWallet, Balance
<1>4. QED
  BY <1>1, <1>2, <1>3

\* The record of an allowance that exists has a spender and a number.
LEMMA AllowanceIsRecord ==
    ASSUME TypeOK, NEW o \in Clients, world[AllowanceKey(o)] # Absent
    PROVE  /\ world[AllowanceKey(o)] \in Allowances
           /\ world[AllowanceKey(o)].value \in Int
<1>1. world[AllowanceKey(o)] \in Allowances
  BY KeysOfTables, RowsOfTables DEF TypeOK
<1>2. QED
  BY <1>1, ERC20Assumption DEF Allowances

-----------------------------------------------------------------------------
\* Types.

\* What an endorsed call reads and writes are keys and records of its tables.
LEMMA EndorseTyped ==
    ASSUME TypeOK, NEW t \in Txs, NEW call \in Calls, NEW reads, NEW writes,
           reads \subseteq Keys, DOMAIN writes \subseteq reads,
           \A k \in DOMAIN writes : writes[k] \in Rows(k),
           Ledger!Endorse(t, call, reads, writes)
    PROVE  TypeOK'
<1>1. phase' \in [Txs -> Ledger!Phases] /\ DOMAIN proposal' = Txs
  BY DEF TypeOK, Ledger!Endorse, Ledger!Phases
<1>2. ASSUME NEW u \in Txs, phase'[u] = "endorsed"
      PROVE  /\ proposal'[u].call \in Calls
             /\ DOMAIN proposal'[u].writes \subseteq proposal'[u].reads
             /\ proposal'[u].reads \subseteq Keys
             /\ \A k \in DOMAIN proposal'[u].writes : proposal'[u].writes[k] \in Rows(k)
  <2>1. CASE u = t
    BY <2>1, <1>2 DEF TypeOK, Ledger!Endorse
  <2>2. CASE u # t
    <3>1. phase[u] = "endorsed" /\ proposal'[u] = proposal[u]
      BY <2>2, <1>2 DEF TypeOK, Ledger!Endorse
    <3>2. QED
      BY <3>1 DEF TypeOK
  <2>3. QED
    BY <2>1, <2>2
<1>3. QED
  BY <1>1, <1>2 DEF TypeOK, Ledger!Endorse, Rows

\* The resolution of a transaction keeps the types, whatever it is.
LEMMA ResolveTyped ==
    ASSUME TypeOK, NEW t \in Txs,
           Ledger!CommitValid(t) \/ Ledger!CommitInvalid(t) \/ Ledger!Abandon(t)
    PROVE  TypeOK'
<1>1. CASE Ledger!CommitValid(t)
  <2>1. /\ DOMAIN world' = Keys
        /\ \A k \in Keys : world'[k] = Absent \/ world'[k] \in Rows(k)
    BY <1>1 DEF TypeOK, Ledger!CommitValid
  <2>2. phase' \in [Txs -> Ledger!Phases] /\ DOMAIN proposal' = Txs
    BY <1>1 DEF TypeOK, Ledger!CommitValid, Ledger!Phases
  <2>3. ASSUME NEW u \in Txs, phase'[u] = "endorsed"
        PROVE  phase[u] = "endorsed" /\ proposal'[u] = proposal[u]
    BY <1>1, <2>3 DEF TypeOK, Ledger!CommitValid
  <2>4. QED
    BY <2>1, <2>2, <2>3 DEF TypeOK, Rows
<1>2. CASE Ledger!CommitInvalid(t)
  BY <1>2 DEF TypeOK, Ledger!CommitInvalid, Ledger!Phases, Rows
<1>3. CASE Ledger!Abandon(t)
  BY <1>3 DEF TypeOK, Ledger!Abandon, Ledger!Phases, Rows
<1>4. QED
  BY <1>1, <1>2, <1>3

LEMMA TypeInductive == TypeOK /\ [Next]_vars => TypeOK'
<1> SUFFICES ASSUME TypeOK, [Next]_vars PROVE TypeOK'
  OBVIOUS
<1>1. CASE UNCHANGED vars
  BY <1>1 DEF TypeOK, vars, Rows
<1>2. ASSUME NEW t \in Txs, NEW c \in Clients, NEW n \in Names, Initialize(t, c, n)
      PROVE  TypeOK'
  <2> DEFINE writes == [k \in {TokenKey(n)} |-> [owner |-> c]]
  <2>1. TokenRows \cup {TokenKey(n)} \subseteq Keys
    BY KeysOfTables DEF TokenRows, Tokens
  <2>2. \A k \in DOMAIN writes : writes[k] \in Rows(k)
    BY RowsOfTables
  <2>3. [fn |-> "Initialize", caller |-> c] \in Calls
    BY DEF Calls
  <2>4. Ledger!Endorse(t, [fn |-> "Initialize", caller |-> c],
                       TokenRows \cup {TokenKey(n)}, writes)
    BY <1>2 DEF Initialize, Endorse
  <2> QED
    BY <2>1, <2>2, <2>3, <2>4, EndorseTyped
<1>3. ASSUME NEW t \in Txs, NEW c \in Clients, NEW to \in Clients, NEW v \in Amounts,
             Transfer(t, c, to, v)
      PROVE  TypeOK'
  <2> DEFINE writes == MoveWrites(c, to, v)
             reads == TokenRows \cup {WalletKey(c), WalletKey(to)}
  <2>1. reads \subseteq Keys /\ DOMAIN writes \subseteq reads
    BY KeysOfTables DEF TokenRows, Tokens, MoveWrites
  <2>2. \A k \in DOMAIN writes : writes[k] \in Rows(k)
    BY <1>3, RowsOfTables DEF Transfer, CanMove, MoveWrites, Exact
  <2>3. [fn |-> "Transfer", caller |-> c] \in Calls
    BY DEF Calls
  <2>4. Ledger!Endorse(t, [fn |-> "Transfer", caller |-> c], reads, writes)
    BY <1>3 DEF Transfer, Endorse
  <2> QED
    BY <2>1, <2>2, <2>3, <2>4, EndorseTyped
<1>4. ASSUME NEW t \in Txs, NEW c \in Clients, NEW from \in Clients, NEW to \in Clients,
             NEW v \in Amounts, TransferFrom(t, c, from, to, v)
      PROVE  TypeOK'
  <2> DEFINE writes == Charged(from, to, c, v)
             reads == TokenRows \cup {AllowanceKey(from), WalletKey(from), WalletKey(to)}
  <2>1. reads \subseteq Keys /\ DOMAIN writes \subseteq reads
    BY KeysOfTables DEF TokenRows, Tokens, Charged, MoveWrites, AllowanceWrite
  <2>2. \A k \in DOMAIN writes : writes[k] \in Rows(k)
    <3>1. \A k \in DOMAIN MoveWrites(from, to, v) : MoveWrites(from, to, v)[k] \in Rows(k)
      BY <1>4, RowsOfTables DEF TransferFrom, CanMove, MoveWrites, Exact
    <3>2. ASSUME NEW k \in {AllowanceKey(from)}
          PROVE  AllowanceWrite(from, c, world[AllowanceKey(from)].value - v)[k] \in Rows(k)
      BY <1>4, RowsOfTables DEF TransferFrom, AllowanceWrite, Allowances, Exact
    <3> QED
      BY <3>1, <3>2 DEF Charged, AllowanceWrite
  <2>3. [fn |-> "TransferFrom", caller |-> c] \in Calls
    BY DEF Calls
  <2>4. Ledger!Endorse(t, [fn |-> "TransferFrom", caller |-> c], reads, writes)
    BY <1>4 DEF TransferFrom, Endorse
  <2> QED
    BY <2>1, <2>2, <2>3, <2>4, EndorseTyped
<1>5. ASSUME NEW t \in Txs, NEW c \in Clients, NEW s \in Clients, NEW v \in Amounts,
             Approve(t, c, s, v)
      PROVE  TypeOK'
  <2> DEFINE writes == AllowanceWrite(c, s, v)
             reads == TokenRows \cup {WalletKey(c), AllowanceKey(c)}
  <2>1. reads \subseteq Keys /\ DOMAIN writes \subseteq reads
    BY KeysOfTables DEF TokenRows, Tokens, AllowanceWrite
  <2>2. \A k \in DOMAIN writes : writes[k] \in Rows(k)
    BY RowsOfTables, ERC20Assumption DEF AllowanceWrite, Allowances
  <2>3. [fn |-> "Approve", caller |-> c] \in Calls
    BY DEF Calls
  <2>4. Ledger!Endorse(t, [fn |-> "Approve", caller |-> c], reads, writes)
    BY <1>5 DEF Approve, Endorse
  <2> QED
    BY <2>1, <2>2, <2>3, <2>4, EndorseTyped
<1>6. ASSUME NEW t \in Txs, NEW c \in Clients, NEW account \in Clients,
             NEW b, NEW fn \in {"Mint", "Burn", "BurnFrom"}, Exact(b),
             Endorse(t, fn, c, {WalletKey(account)}, WalletWrite(account, b))
      PROVE  TypeOK'
  <2> DEFINE writes == WalletWrite(account, b)
             reads == TokenRows \cup {WalletKey(account)}
  <2>1. reads \subseteq Keys /\ DOMAIN writes \subseteq reads
    BY KeysOfTables DEF TokenRows, Tokens, WalletWrite
  <2>2. \A k \in DOMAIN writes : writes[k] \in Rows(k)
    BY <1>6, RowsOfTables DEF WalletWrite, Exact
  <2>3. [fn |-> fn, caller |-> c] \in Calls
    BY DEF Calls
  <2>4. Ledger!Endorse(t, [fn |-> fn, caller |-> c], reads, writes)
    BY <1>6 DEF Endorse
  <2> QED
    BY <2>1, <2>2, <2>3, <2>4, EndorseTyped
<1>7. ASSUME NEW t \in Txs, NEW c \in Clients, NEW a \in Amounts,
             Mint(t, c, a) \/ Burn(t, c, a)
      PROVE  TypeOK'
  BY <1>7, <1>6 DEF Mint, Burn, CanBurn
<1>8. ASSUME NEW t \in Txs, NEW c \in Clients, NEW account \in Clients, NEW a \in Amounts,
             BurnFrom(t, c, account, a)
      PROVE  TypeOK'
  BY <1>8, <1>6 DEF BurnFrom, CanBurn
<1>9. QED
  BY <1>1, <1>2, <1>3, <1>4, <1>5, <1>7, <1>8, ResolveTyped DEF Next

\* At every moment the committed state and the endorsed writes are records
\* of the tables they belong to.
THEOREM TypeCorrect == Spec => []TypeOK
<1>1. Init => TypeOK
  BY DEF Init, Ledger!Init, TypeOK, Ledger!Phases
<1>2. QED
  BY <1>1, TypeInductive, PTL DEF Spec

-----------------------------------------------------------------------------
\* Endorsed calls stay valid.

\* A method's view of a wallet or an allowance depends on its record only.
LEMMA SameWallet ==
    ASSUME NEW c, world'[WalletKey(c)] = world[WalletKey(c)]
    PROVE  HasWallet(c)' = HasWallet(c) /\ Balance(c)' = Balance(c)
BY DEF HasWallet, Balance

LEMMA SameMove ==
    ASSUME NEW from, NEW to, NEW v,
           world'[WalletKey(from)] = world[WalletKey(from)],
           world'[WalletKey(to)] = world[WalletKey(to)]
    PROVE  /\ CanMove(from, to, v) => CanMove(from, to, v)'
           /\ MoveWrites(from, to, v)' = MoveWrites(from, to, v)
BY SameWallet DEF CanMove, MoveWrites, Exact

\* The part of EndorsedStillValid about one slot.
ValidSlot(u) ==
    /\ EffectHoldsNow(u)
    /\ proposal[u].call.fn # "Initialize" => TokenWasRead(u)

\* The effect of a call holds for as long as no record it read changes.
LEMMA EffectPersists ==
    ASSUME TypeOK, NEW u \in Txs, phase[u] = "endorsed", ValidSlot(u),
           proposal'[u] = proposal[u],
           \A k \in proposal[u].reads : world'[k] = world[k]
    PROVE  ValidSlot(u)'
<1> DEFINE c == proposal[u].call.caller
           fn == proposal[u].call.fn
           writes == proposal[u].writes
<1>1. \A k \in DOMAIN writes : world'[k] = world[k]
  BY DEF TypeOK
<1>2. c \in Clients
  BY DEF TypeOK, Calls
<1>3. ASSUME fn # "Initialize"
      PROVE  TokenWasRead(u)'
  BY <1>3 DEF ValidSlot, TokenWasRead, Tokens
<1>4. CASE /\ fn = "Initialize"
           /\ \E n \in Names \ Tokens : writes = [k \in {TokenKey(n)} |-> [owner |-> c]]
  <2>1. PICK n \in Names \ Tokens : writes = [k \in {TokenKey(n)} |-> [owner |-> c]]
    BY <1>4
  <2>2. TokenKey(n) \in DOMAIN writes
    BY <2>1
  <2>3. n \in Names \ Tokens'
    BY <1>1, <2>2 DEF Tokens
  <2>4. EffectHoldsNow(u)'
    BY <1>4, <2>1, <2>3 DEF EffectHoldsNow
  <2> QED
    BY <1>4, <2>4 DEF ValidSlot
<1>5. CASE /\ fn = "Transfer"
           /\ \E to \in Clients, v \in Amounts :
                 CanMove(c, to, v) /\ writes = MoveWrites(c, to, v)
  <2>1. PICK to \in Clients, v \in Amounts :
            CanMove(c, to, v) /\ writes = MoveWrites(c, to, v)
    BY <1>5
  <2>2. {WalletKey(c), WalletKey(to)} \subseteq DOMAIN writes
    BY <2>1 DEF MoveWrites
  <2>3. CanMove(c, to, v)' /\ writes = MoveWrites(c, to, v)'
    BY <1>1, <2>1, <2>2, SameMove
  <2>4. EffectHoldsNow(u)'
    BY <1>5, <2>3 DEF EffectHoldsNow
  <2> QED
    BY <1>3, <1>5, <2>4 DEF ValidSlot
<1>6. CASE /\ fn = "TransferFrom"
           /\ \E from, to \in Clients, v \in Amounts :
                 /\ CanMove(from, to, v)
                 /\ HasAllowance(from, c)
                 /\ world[AllowanceKey(from)].value >= v
                 /\ writes = Charged(from, to, c, v)
  <2>1. PICK from \in Clients, to \in Clients, v \in Amounts :
            /\ CanMove(from, to, v)
            /\ HasAllowance(from, c)
            /\ world[AllowanceKey(from)].value >= v
            /\ writes = Charged(from, to, c, v)
    BY <1>6
  <2>2. {WalletKey(from), WalletKey(to), AllowanceKey(from)} \subseteq DOMAIN writes
    BY <2>1 DEF Charged, MoveWrites, AllowanceWrite
  <2>3. CanMove(from, to, v)' /\ MoveWrites(from, to, v)' = MoveWrites(from, to, v)
    BY <1>1, <2>1, <2>2, SameMove
  <2>4. /\ HasAllowance(from, c)'
        /\ world'[AllowanceKey(from)].value >= v
    BY <1>1, <2>1, <2>2 DEF HasAllowance
  <2>5. writes = Charged(from, to, c, v)'
    BY <1>1, <2>1, <2>2, <2>3 DEF Charged, AllowanceWrite
  <2>6. EffectHoldsNow(u)'
    BY <1>6, <2>3, <2>4, <2>5 DEF EffectHoldsNow
  <2> QED
    BY <1>3, <1>6, <2>6 DEF ValidSlot
<1>7. CASE /\ fn = "Approve"
           /\ WalletKey(c) \in proposal[u].reads
           /\ \E s \in Clients, v \in Amounts :
                 CanApprove(c, s, v) /\ writes = AllowanceWrite(c, s, v)
  <2>1. PICK s \in Clients, v \in Amounts :
            CanApprove(c, s, v) /\ writes = AllowanceWrite(c, s, v)
    BY <1>7
  <2>2. /\ world'[WalletKey(c)] = world[WalletKey(c)]
        /\ world'[AllowanceKey(c)] = world[AllowanceKey(c)]
    BY <1>1, <1>7, <2>1 DEF AllowanceWrite
  <2>3. CanApprove(c, s, v)' /\ writes = AllowanceWrite(c, s, v)'
    BY <2>1, <2>2, SameWallet DEF CanApprove, HasAllowance, AllowanceWrite
  <2>4. EffectHoldsNow(u)'
    BY <1>7, <2>3 DEF EffectHoldsNow
  <2> QED
    BY <1>3, <1>7, <2>4 DEF ValidSlot
<1>8. CASE /\ fn = "Mint"
           /\ \E a \in Amounts : a > 0 /\ writes = WalletWrite(c, Balance(c) + a)
  <2>1. PICK a \in Amounts : a > 0 /\ writes = WalletWrite(c, Balance(c) + a)
    BY <1>8
  <2>2. Balance(c)' = Balance(c)
    BY <1>1, <2>1, SameWallet DEF WalletWrite
  <2>3. writes = WalletWrite(c, Balance(c) + a)'
    BY <2>1, <2>2 DEF WalletWrite
  <2>4. EffectHoldsNow(u)'
    BY <1>8, <2>1, <2>3 DEF EffectHoldsNow
  <2> QED
    BY <1>3, <1>8, <2>4 DEF ValidSlot
<1>9. CASE /\ fn \in {"Burn", "BurnFrom"}
           /\ \E account \in Clients, a \in Amounts :
                 /\ fn = "Burn" => account = c
                 /\ HasWallet(account) /\ Balance(account) >= a
                 /\ writes = WalletWrite(account, Balance(account) - a)
  <2>1. PICK account \in Clients, a \in Amounts :
            /\ fn = "Burn" => account = c
            /\ HasWallet(account) /\ Balance(account) >= a
            /\ writes = WalletWrite(account, Balance(account) - a)
    BY <1>9
  <2>2. Balance(account)' = Balance(account) /\ HasWallet(account)'
    BY <1>1, <2>1, SameWallet DEF WalletWrite
  <2>3. writes = WalletWrite(account, Balance(account) - a)'
    BY <2>1, <2>2 DEF WalletWrite
  <2>4. EffectHoldsNow(u)'
    BY <1>9, <2>1, <2>2, <2>3 DEF EffectHoldsNow
  <2> QED
    BY <1>3, <1>9, <2>4 DEF ValidSlot
<1>10. QED
  BY <1>4, <1>5, <1>6, <1>7, <1>8, <1>9 DEF ValidSlot, EffectHoldsNow

\* Endorsing a call leaves the other slots valid, and the new one if the
\* call is valid when it is endorsed.
LEMMA EndorseValid ==
    ASSUME TypeOK, EndorsedStillValid, NEW t \in Txs, NEW call, NEW reads, NEW writes,
           Ledger!Endorse(t, call, reads, writes),
           ValidSlot(t)'
    PROVE  EndorsedStillValid'
<1> SUFFICES ASSUME NEW u \in Txs, phase'[u] = "endorsed" PROVE ValidSlot(u)'
  BY DEF EndorsedStillValid, ValidSlot
<1>1. CASE u = t
  BY <1>1
<1>2. CASE u # t
  <2>1. phase[u] = "endorsed" /\ proposal'[u] = proposal[u] /\ world' = world
    BY <1>2 DEF TypeOK, Ledger!Endorse
  <2>2. ValidSlot(u)
    BY <2>1 DEF EndorsedStillValid, ValidSlot
  <2> QED
    BY <2>1, <2>2, EffectPersists
<1>3. QED
  BY <1>1, <1>2

\* The commit of one call makes every call that read one of its keys stale;
\* the calls left have lost none of the records they read.
LEMMA ResolveValid ==
    ASSUME TypeOK, EndorsedStillValid, NEW t \in Txs,
           Ledger!CommitValid(t) \/ Ledger!CommitInvalid(t) \/ Ledger!Abandon(t)
    PROVE  EndorsedStillValid'
<1> SUFFICES ASSUME NEW u \in Txs, phase'[u] = "endorsed" PROVE ValidSlot(u)'
  BY DEF EndorsedStillValid, ValidSlot
<1>1. phase[u] = "endorsed" /\ proposal'[u] = proposal[u]
  <2>1. CASE Ledger!CommitValid(t)
    BY <2>1 DEF TypeOK, Ledger!CommitValid
  <2>2. CASE Ledger!CommitInvalid(t)
    BY <2>2 DEF TypeOK, Ledger!CommitInvalid
  <2>3. CASE Ledger!Abandon(t)
    BY <2>3 DEF TypeOK, Ledger!Abandon
  <2> QED
    BY <2>1, <2>2, <2>3
<1>2. \A k \in proposal[u].reads : world'[k] = world[k]
  <2>1. CASE Ledger!CommitValid(t)
    <3>1. u # t /\ u \notin Ledger!ReadersOf(DOMAIN proposal[t].writes)
      BY <2>1 DEF TypeOK, Ledger!CommitValid
    <3>2. proposal[u].reads \cap DOMAIN proposal[t].writes = {}
      BY <1>1, <3>1 DEF Ledger!ReadersOf
    <3>3. proposal[u].reads \subseteq Keys
      BY <1>1 DEF TypeOK
    <3> QED
      BY <2>1, <3>2, <3>3 DEF Ledger!CommitValid
  <2>2. CASE Ledger!CommitInvalid(t) \/ Ledger!Abandon(t)
    BY <2>2 DEF Ledger!CommitInvalid, Ledger!Abandon
  <2> QED
    BY <2>1, <2>2
<1>3. ValidSlot(u)
  BY <1>1 DEF EndorsedStillValid, ValidSlot
<1>4. QED
  BY <1>1, <1>2, <1>3, EffectPersists

\* What an endorsement puts in its slot, and that it commits nothing.
LEMMA EndorsedSlot ==
    ASSUME TypeOK, NEW t \in Txs, NEW fn, NEW c, NEW reads, NEW writes,
           Endorse(t, fn, c, reads, writes)
    PROVE  /\ proposal'[t].call.fn = fn
           /\ proposal'[t].call.caller = c
           /\ proposal'[t].writes = writes
           /\ proposal'[t].reads = TokenRows \cup reads
           /\ world' = world
BY DEF TypeOK, Endorse, Ledger!Endorse

\* A token the guard found is one that the call has read.
LEMMA EndorsedTokenWasRead ==
    ASSUME TypeOK, NEW t \in Txs, NEW fn, NEW c, NEW reads, NEW writes,
           Endorse(t, fn, c, reads, writes), CheckInitialized,
           fn \in {"Mint", "Burn", "BurnFrom"} => OwnsToken(c)
    PROVE  TokenWasRead(t)'
<1>1. PICK n \in Tokens : fn \in {"Mint", "Burn", "BurnFrom"} =>
                              world[TokenKey(n)].owner = c
  BY DEF CheckInitialized, OwnsToken
<1>2. n \in Tokens' /\ TokenKey(n) \in proposal'[t].reads
  BY EndorsedSlot DEF Tokens, TokenRows
<1>3. QED
  BY <1>1, <1>2, EndorsedSlot DEF TokenWasRead

LEMMA ValidInductive ==
    TypeOK /\ EndorsedStillValid /\ [Next]_vars => EndorsedStillValid'
<1> SUFFICES ASSUME TypeOK, EndorsedStillValid, [Next]_vars PROVE EndorsedStillValid'
  OBVIOUS
<1>1. CASE UNCHANGED vars
  <2> SUFFICES ASSUME NEW u \in Txs, phase'[u] = "endorsed" PROVE ValidSlot(u)'
    BY DEF EndorsedStillValid, ValidSlot
  <2>1. phase' = phase /\ proposal' = proposal /\ world' = world
    BY <1>1 DEF vars
  <2>2. phase[u] = "endorsed" /\ ValidSlot(u)
    BY <2>1 DEF EndorsedStillValid, ValidSlot
  <2>3. /\ proposal'[u] = proposal[u]
        /\ \A k \in proposal[u].reads : world'[k] = world[k]
    BY <2>1
  <2> QED
    BY <2>2, <2>3, EffectPersists
<1>2. ASSUME NEW t \in Txs, NEW c \in Clients, NEW n \in Names, Initialize(t, c, n)
      PROVE  EndorsedStillValid'
  <2> DEFINE writes == [k \in {TokenKey(n)} |-> [owner |-> c]]
  <2>1. Endorse(t, "Initialize", c, {TokenKey(n)}, writes) /\ n \in Names \ Tokens
    BY <1>2 DEF Initialize
  <2>2. n \in Names \ Tokens'
    BY <2>1, EndorsedSlot DEF Tokens
  <2>3. /\ proposal'[t].call.fn = "Initialize" /\ proposal'[t].call.caller = c
        /\ proposal'[t].writes = writes
    BY <2>1, EndorsedSlot
  <2>4. EffectHoldsNow(t)'
    BY <2>2, <2>3 DEF EffectHoldsNow
  <2>5. ValidSlot(t)'
    BY <2>3, <2>4 DEF ValidSlot
  <2> QED
    BY <2>1, <2>5, EndorseValid DEF Endorse
<1>3. ASSUME NEW t \in Txs, NEW c \in Clients, NEW to \in Clients, NEW v \in Amounts,
             Transfer(t, c, to, v)
      PROVE  EndorsedStillValid'
  <2>1. /\ Endorse(t, "Transfer", c, {WalletKey(c), WalletKey(to)}, MoveWrites(c, to, v))
        /\ CheckInitialized /\ CanMove(c, to, v)
    BY <1>3 DEF Transfer
  <2>2. CanMove(c, to, v)' /\ MoveWrites(c, to, v)' = MoveWrites(c, to, v)
    BY <2>1, EndorsedSlot, SameMove
  <2>3. EffectHoldsNow(t)'
    BY <2>1, <2>2, EndorsedSlot DEF EffectHoldsNow
  <2>4. ValidSlot(t)'
    BY <2>1, <2>3, EndorsedTokenWasRead DEF ValidSlot
  <2> QED
    BY <2>1, <2>4, EndorseValid DEF Endorse
<1>4. ASSUME NEW t \in Txs, NEW c \in Clients, NEW from \in Clients, NEW to \in Clients,
             NEW v \in Amounts, TransferFrom(t, c, from, to, v)
      PROVE  EndorsedStillValid'
  <2>1. /\ Endorse(t, "TransferFrom", c,
                   {AllowanceKey(from), WalletKey(from), WalletKey(to)},
                   Charged(from, to, c, v))
        /\ CheckInitialized /\ CanMove(from, to, v) /\ HasAllowance(from, c)
        /\ world[AllowanceKey(from)].value >= v
    BY <1>4 DEF TransferFrom
  <2>2. world' = world
    BY <2>1, EndorsedSlot
  <2>3. /\ CanMove(from, to, v)' /\ HasAllowance(from, c)'
        /\ world'[AllowanceKey(from)].value >= v
    BY <2>1, <2>2, SameMove DEF HasAllowance
  <2>4. Charged(from, to, c, v)' = Charged(from, to, c, v)
    BY <2>2, SameMove DEF Charged, AllowanceWrite
  <2>5. EffectHoldsNow(t)'
    BY <2>1, <2>3, <2>4, EndorsedSlot DEF EffectHoldsNow
  <2>6. ValidSlot(t)'
    BY <2>1, <2>5, EndorsedTokenWasRead DEF ValidSlot
  <2> QED
    BY <2>1, <2>6, EndorseValid DEF Endorse
<1>5. ASSUME NEW t \in Txs, NEW c \in Clients, NEW s \in Clients, NEW v \in Amounts,
             Approve(t, c, s, v)
      PROVE  EndorsedStillValid'
  <2>1. /\ Endorse(t, "Approve", c, {WalletKey(c), AllowanceKey(c)}, AllowanceWrite(c, s, v))
        /\ CheckInitialized /\ CanApprove(c, s, v)
    BY <1>5 DEF Approve
  <2>2. world' = world /\ WalletKey(c) \in proposal'[t].reads
    BY <2>1, EndorsedSlot
  <2>3. CanApprove(c, s, v)' /\ AllowanceWrite(c, s, v)' = AllowanceWrite(c, s, v)
    BY <2>1, <2>2, SameWallet DEF CanApprove, HasAllowance, AllowanceWrite
  <2>4. EffectHoldsNow(t)'
    BY <2>1, <2>2, <2>3, EndorsedSlot DEF EffectHoldsNow
  <2>5. ValidSlot(t)'
    BY <2>1, <2>4, EndorsedTokenWasRead DEF ValidSlot
  <2> QED
    BY <2>1, <2>5, EndorseValid DEF Endorse
<1>6. ASSUME NEW t \in Txs, NEW c \in Clients, NEW a \in Amounts, Mint(t, c, a)
      PROVE  EndorsedStillValid'
  <2>1. /\ Endorse(t, "Mint", c, {WalletKey(c)}, WalletWrite(c, Balance(c) + a))
        /\ OwnsToken(c) /\ CheckInitialized /\ a > 0
    BY <1>6 DEF Mint, Owner, OwnsToken, CheckInitialized
  <2>2. Balance(c)' = Balance(c)
    BY <2>1, EndorsedSlot, SameWallet
  <2>3. WalletWrite(c, Balance(c) + a)' = WalletWrite(c, Balance(c) + a)
    BY <2>2 DEF WalletWrite
  <2>4. EffectHoldsNow(t)'
    BY <2>1, <2>3, EndorsedSlot DEF EffectHoldsNow
  <2>5. ValidSlot(t)'
    BY <2>1, <2>4, EndorsedTokenWasRead DEF ValidSlot
  <2> QED
    BY <2>1, <2>5, EndorseValid DEF Endorse
<1>7. ASSUME NEW t \in Txs, NEW c \in Clients, NEW account \in Clients, NEW a \in Amounts,
             NEW fn \in {"Burn", "BurnFrom"}, fn = "Burn" => account = c,
             CanBurn(c, account, a),
             Endorse(t, fn, c, {WalletKey(account)},
                     WalletWrite(account, Balance(account) - a))
      PROVE  EndorsedStillValid'
  <2>1. OwnsToken(c) /\ CheckInitialized /\ HasWallet(account) /\ Balance(account) >= a
    BY <1>7 DEF CanBurn, Owner, OwnsToken, CheckInitialized
  <2>2. Balance(account)' = Balance(account) /\ HasWallet(account)'
    BY <1>7, <2>1, EndorsedSlot, SameWallet
  <2>3. WalletWrite(account, Balance(account) - a)' = WalletWrite(account, Balance(account) - a)
    BY <2>2 DEF WalletWrite
  <2>4. EffectHoldsNow(t)'
    BY <1>7, <2>1, <2>2, <2>3, EndorsedSlot DEF EffectHoldsNow
  <2>5. ValidSlot(t)'
    BY <1>7, <2>1, <2>4, EndorsedTokenWasRead DEF ValidSlot
  <2> QED
    BY <1>7, <2>5, EndorseValid DEF Endorse
<1>8. ASSUME NEW t \in Txs, NEW c \in Clients, NEW a \in Amounts, Burn(t, c, a)
      PROVE  EndorsedStillValid'
  BY <1>8, <1>7 DEF Burn
<1>9. ASSUME NEW t \in Txs, NEW c \in Clients, NEW account \in Clients, NEW a \in Amounts,
             BurnFrom(t, c, account, a)
      PROVE  EndorsedStillValid'
  BY <1>9, <1>7 DEF BurnFrom
<1>10. QED
  BY <1>1, <1>2, <1>3, <1>4, <1>5, <1>6, <1>8, <1>9, ResolveValid DEF Next

\* No method of the contract can commit an effect that the committed state
\* no longer supports: every record its effect rests on is in its read set.
THEOREM CallsStayValid == Spec => []EndorsedStillValid
<1>1. Init => EndorsedStillValid
  BY DEF Init, Ledger!Init, EndorsedStillValid
<1>2. QED
  BY <1>1, ValidInductive, TypeCorrect, PTL DEF Spec

-----------------------------------------------------------------------------
\* Balances.

\* What a commit does to the balance of c: nothing, or the record written.
LEMMA CommittedBalance ==
    ASSUME TypeOK, NEW t \in Txs, Ledger!CommitValid(t), NEW c \in Clients
    PROVE  /\ WalletKey(c) \notin DOMAIN proposal[t].writes => Balance(c)' = Balance(c)
           /\ WalletKey(c) \in DOMAIN proposal[t].writes =>
                 Balance(c)' = proposal[t].writes[WalletKey(c)]
<1> DEFINE writes == proposal[t].writes
<1>1. CASE WalletKey(c) \notin DOMAIN writes
  <2>1. world'[WalletKey(c)] = world[WalletKey(c)]
    BY <1>1, KeysOfTables DEF Ledger!CommitValid
  <2> QED
    BY <1>1, <2>1, SameWallet
<1>2. CASE WalletKey(c) \in DOMAIN writes
  <2>1. world'[WalletKey(c)] = writes[WalletKey(c)]
    BY <1>2, KeysOfTables DEF Ledger!CommitValid
  <2>2. writes[WalletKey(c)] \in Representable
    BY <1>2, RowsOfTables DEF TypeOK, Ledger!CommitValid
  <2>3. writes[WalletKey(c)] # Absent
    BY <2>2, ERC20Assumption
  <2> QED
    BY <1>2, <2>1, <2>3 DEF Balance, HasWallet
<1> QED
  BY <1>1, <1>2

\* A commit that changes the balance of c is one of these, with a record
\* computed from the balances of the moment.
LEMMA CommitCases ==
    ASSUME TypeOK, EndorsedStillValid, NEW t \in Txs, Ledger!CommitValid(t),
           NEW c \in Clients, Balance(c)' # Balance(c)
    PROVE  LET caller == proposal[t].call.caller
               fn == proposal[t].call.fn
           IN  \/ \E from, to \in Clients, v \in Amounts :
                     /\ CanMove(from, to, v)
                     /\ \/ fn = "Transfer" /\ from = caller
                        \/ /\ fn = "TransferFrom"
                           /\ HasAllowance(from, caller)
                           /\ world[AllowanceKey(from)].value >= v
                           /\ world'[AllowanceKey(from)] # Absent
                           /\ world'[AllowanceKey(from)] =
                                [spender |-> caller,
                                 value |-> world[AllowanceKey(from)].value - v]
                     /\ \/ c = to /\ Balance(c)' = Balance(c) + v
                        \/ c = from /\ Balance(c)' = Balance(c) - v
               \/ /\ fn = "Mint" /\ TokenWasRead(t)
                  /\ \E a \in Amounts : a > 0 /\ Balance(c)' = Balance(c) + a
               \/ /\ fn \in {"Burn", "BurnFrom"} /\ TokenWasRead(t)
                  /\ \E a \in Amounts :
                        Balance(c) >= a /\ Balance(c)' = Balance(c) - a
<1> DEFINE caller == proposal[t].call.caller
           fn == proposal[t].call.fn
           writes == proposal[t].writes
<1>1. phase[t] = "endorsed" /\ EffectHoldsNow(t)
  BY DEF EndorsedStillValid, Ledger!CommitValid
<1>2. WalletKey(c) \in DOMAIN writes /\ Balance(c)' = writes[WalletKey(c)]
  BY CommittedBalance
<1>3. fn # "Initialize" => TokenWasRead(t)
  BY <1>1 DEF EndorsedStillValid
<1>4. ASSUME NEW from \in Clients, NEW to \in Clients, NEW v \in Amounts,
             DOMAIN MoveWrites(from, to, v) \subseteq DOMAIN writes,
             \A k \in DOMAIN MoveWrites(from, to, v) : writes[k] = MoveWrites(from, to, v)[k],
             WalletKey(c) \in DOMAIN MoveWrites(from, to, v)
      PROVE  \/ c = to /\ Balance(c)' = Balance(c) + v
             \/ c = from /\ Balance(c)' = Balance(c) - v
  <2>1. Balance(c)' = MoveWrites(from, to, v)[WalletKey(c)]
    BY <1>2, <1>4
  <2>2. c \in {from, to}
    BY <1>4, KeysDistinct DEF MoveWrites
  <2>3. CASE c = to
    BY <2>1, <2>3 DEF MoveWrites
  <2>4. CASE c = from /\ c # to
    BY <2>1, <2>4, KeysDistinct DEF MoveWrites
  <2> QED
    BY <2>2, <2>3, <2>4
<1>5. CASE \E n \in Names \ Tokens : writes = [k \in {TokenKey(n)} |-> [owner |-> caller]]
  BY <1>2, <1>5, KeysDistinct
<1>6. CASE /\ fn = "Transfer"
           /\ \E to \in Clients, v \in Amounts :
                 CanMove(caller, to, v) /\ writes = MoveWrites(caller, to, v)
  <2>1. PICK to \in Clients, v \in Amounts :
            CanMove(caller, to, v) /\ writes = MoveWrites(caller, to, v)
    BY <1>6
  <2>2. caller \in Clients
    BY <1>1 DEF TypeOK, Calls
  <2> QED
    BY <1>2, <1>4, <1>6, <2>1, <2>2
<1>7. CASE /\ fn = "TransferFrom"
           /\ \E from, to \in Clients, v \in Amounts :
                 /\ CanMove(from, to, v)
                 /\ HasAllowance(from, caller)
                 /\ world[AllowanceKey(from)].value >= v
                 /\ writes = Charged(from, to, caller, v)
  <2>1. PICK from \in Clients, to \in Clients, v \in Amounts :
            /\ CanMove(from, to, v)
            /\ HasAllowance(from, caller)
            /\ world[AllowanceKey(from)].value >= v
            /\ writes = Charged(from, to, caller, v)
    BY <1>7
  <2> DEFINE moved == MoveWrites(from, to, v)
             charge == [spender |-> caller, value |-> world[AllowanceKey(from)].value - v]
  <2>2. /\ DOMAIN moved \subseteq DOMAIN writes
        /\ \A k \in DOMAIN moved : writes[k] = moved[k]
    BY <2>1 DEF Charged
  <2>3. WalletKey(c) \in DOMAIN moved
    BY <1>2, <2>1, KeysDistinct DEF Charged, AllowanceWrite
  <2>4. AllowanceKey(from) \in DOMAIN writes /\ writes[AllowanceKey(from)] = charge
    <3>1. AllowanceKey(from) \notin DOMAIN moved
      BY KeysDistinct DEF MoveWrites
    <3> QED
      BY <2>1, <3>1 DEF Charged, AllowanceWrite
  <2>5. world'[AllowanceKey(from)] = charge
    BY <2>4, KeysOfTables DEF Ledger!CommitValid
  <2>6. charge # Absent
    <3>1. writes[AllowanceKey(from)] \in Rows(AllowanceKey(from))
      BY <1>1, <2>4 DEF TypeOK
    <3> QED
      BY <2>4, <3>1, RowsOfTables, ERC20Assumption
  <2> QED
    BY <1>4, <1>7, <2>1, <2>2, <2>3, <2>5, <2>6
<1>8. CASE \E s \in Clients, v \in Amounts : writes = AllowanceWrite(caller, s, v)
  <2>1. DOMAIN writes = {AllowanceKey(caller)}
    BY <1>8 DEF AllowanceWrite
  <2> QED
    BY <1>2, <2>1, KeysDistinct
<1>9. CASE /\ fn = "Mint"
           /\ \E a \in Amounts : a > 0 /\ writes = WalletWrite(caller, Balance(caller) + a)
  <2>1. PICK a \in Amounts : a > 0 /\ writes = WalletWrite(caller, Balance(caller) + a)
    BY <1>9
  <2>2. c = caller
    BY <1>2, <2>1, KeysDistinct DEF WalletWrite
  <2>3. Balance(c)' = Balance(c) + a
    BY <1>2, <2>1, <2>2 DEF WalletWrite
  <2> QED
    BY <1>3, <1>9, <2>1, <2>3
<1>10. CASE /\ fn \in {"Burn", "BurnFrom"}
            /\ \E account \in Clients, a \in Amounts :
                  /\ HasWallet(account) /\ Balance(account) >= a
                  /\ writes = WalletWrite(account, Balance(account) - a)
  <2>1. PICK account \in Clients, a \in Amounts :
            /\ HasWallet(account) /\ Balance(account) >= a
            /\ writes = WalletWrite(account, Balance(account) - a)
    BY <1>10
  <2>2. c = account
    BY <1>2, <2>1, KeysDistinct DEF WalletWrite
  <2>3. Balance(c)' = Balance(c) - a
    BY <1>2, <2>1, <2>2 DEF WalletWrite
  <2> QED
    BY <1>3, <1>10, <2>1, <2>2, <2>3
<1>11. QED
  BY <1>1, <1>5, <1>6, <1>7, <1>8, <1>9, <1>10 DEF EffectHoldsNow

\* Only a commit changes the committed state.
LEMMA OnlyCommitsWrite ==
    ASSUME [Next]_vars, world' # world
    PROVE  \E t \in Txs : Ledger!CommitValid(t)
<1>1. ASSUME NEW t, NEW fn, NEW caller, NEW reads, NEW writes,
             Endorse(t, fn, caller, reads, writes)
      PROVE  world' = world
  BY <1>1 DEF Endorse, Ledger!Endorse
<1>2. CASE UNCHANGED vars
  BY <1>2 DEF vars
<1>3. ASSUME NEW t \in Txs, Ledger!CommitInvalid(t) \/ Ledger!Abandon(t)
      PROVE  FALSE
  BY <1>3 DEF Ledger!CommitInvalid, Ledger!Abandon
<1>4. ASSUME NEW t \in Txs, NEW c \in Clients, NEW n \in Names, Initialize(t, c, n)
      PROVE  FALSE
  BY <1>1, <1>4 DEF Initialize
<1>5. ASSUME NEW t \in Txs, NEW c \in Clients, NEW to \in Clients, NEW v \in Amounts,
             Transfer(t, c, to, v) \/ Approve(t, c, to, v)
      PROVE  FALSE
  BY <1>1, <1>5 DEF Transfer, Approve
<1>6. ASSUME NEW t \in Txs, NEW c \in Clients, NEW from \in Clients,
             NEW to \in Clients, NEW v \in Amounts, TransferFrom(t, c, from, to, v)
      PROVE  FALSE
  BY <1>1, <1>6 DEF TransferFrom
<1>7. ASSUME NEW t \in Txs, NEW c \in Clients, NEW a \in Amounts,
             Mint(t, c, a) \/ Burn(t, c, a)
      PROVE  FALSE
  BY <1>1, <1>7 DEF Mint, Burn
<1>8. ASSUME NEW t \in Txs, NEW c \in Clients, NEW account \in Clients,
             NEW a \in Amounts, BurnFrom(t, c, account, a)
      PROVE  FALSE
  BY <1>1, <1>8 DEF BurnFrom
<1>9. QED
  BY <1>2, <1>3, <1>4, <1>5, <1>6, <1>7, <1>8 DEF Next

LEMMA NonNegativeInductive ==
    /\ TypeOK /\ EndorsedStillValid /\ NonNegativeBalances /\ [Next]_vars
    => NonNegativeBalances'
<1> SUFFICES ASSUME TypeOK, EndorsedStillValid, NonNegativeBalances, [Next]_vars,
                    NEW c \in Clients, Balance(c)' # Balance(c)
             PROVE  Balance(c)' >= 0
  BY DEF NonNegativeBalances
<1>1. world' # world
  BY SameWallet
<1>2. PICK t \in Txs : Ledger!CommitValid(t)
  BY <1>1, OnlyCommitsWrite
<1>3. Balance(c) \in Int /\ Balance(c) >= 0
  BY BalanceIsNumber DEF NonNegativeBalances
<1>4. \A a \in Amounts : a \in Int
  BY ERC20Assumption
<1>5. \/ \E from, to \in Clients, v \in Amounts :
            /\ CanMove(from, to, v)
            /\ \/ Balance(c)' = Balance(c) + v
               \/ c = from /\ Balance(c)' = Balance(c) - v
      \/ \E a \in Amounts : a > 0 /\ Balance(c)' = Balance(c) + a
      \/ \E a \in Amounts : Balance(c) >= a /\ Balance(c)' = Balance(c) - a
  BY <1>2, CommitCases, ZenonT(40)
<1>6. CASE \E from, to \in Clients, v \in Amounts :
              /\ CanMove(from, to, v)
              /\ \/ Balance(c)' = Balance(c) + v
                 \/ c = from /\ Balance(c)' = Balance(c) - v
  BY <1>3, <1>4, <1>6 DEF CanMove
<1>7. CASE \E a \in Amounts : a > 0 /\ Balance(c)' = Balance(c) + a
  BY <1>3, <1>4, <1>7
<1>8. CASE \E a \in Amounts : Balance(c) >= a /\ Balance(c)' = Balance(c) - a
  BY <1>3, <1>4, <1>8
<1>9. QED
  BY <1>5, <1>6, <1>7, <1>8

\* No interleaving of calls overdraws a wallet.
THEOREM NeverOverdrawn == Spec => []NonNegativeBalances
<1>1. Init => NonNegativeBalances
  BY KeysOfTables DEF Init, Ledger!Init, NonNegativeBalances, Balance, HasWallet
<1>2. QED
  BY <1>1, NonNegativeInductive, TypeCorrect, CallsStayValid, PTL DEF Spec

\* The step that commits the call of slot t is one of its caller's commits.
LEMMA CommitOf ==
    ASSUME TypeOK, NEW t \in Txs, Ledger!CommitValid(t), world' # world, NEW fns,
           proposal[t].call.fn \in fns
    PROVE  Commits(proposal[t].call.caller, fns)
<1>1. phase[t] = "endorsed" /\ phase'[t] = "idle"
  BY DEF Ledger!CommitValid
<1> QED
  BY <1>1 DEF Commits

LEMMA DebitStep ==
    ASSUME TypeOK, EndorsedStillValid, [Next]_vars, NEW c \in Clients,
           Balance(c)' < Balance(c)
    PROVE  Debited(c)
<1>1. Balance(c) \in Int /\ \A a \in Amounts : a \in Int
  BY BalanceIsNumber, ERC20Assumption
<1>2. Balance(c)' # Balance(c)
  BY <1>1
<1>3. world' # world
  BY <1>2, SameWallet
<1>4. PICK t \in Txs : Ledger!CommitValid(t)
  BY <1>3, OnlyCommitsWrite
<1> DEFINE caller == proposal[t].call.caller
           fn == proposal[t].call.fn
<1>5. caller \in Clients
  BY <1>4 DEF TypeOK, Calls, Ledger!CommitValid
<1>6. \A fns : fn \in fns => Commits(caller, fns)
  BY <1>3, <1>4, CommitOf
<1>7. ASSUME TokenWasRead(t), fn \in {"Burn", "BurnFrom"}
      PROVE  Debited(c)
  <2>1. OwnsToken(caller)
    BY <1>7 DEF TokenWasRead, OwnsToken
  <2> QED
    BY <1>5, <1>6, <1>7, <2>1 DEF Debited
<1>8. ASSUME NEW from \in Clients, NEW to \in Clients, NEW v \in Amounts,
             CanMove(from, to, v),
             \/ c = to /\ Balance(c)' = Balance(c) + v
             \/ c = from /\ Balance(c)' = Balance(c) - v
      PROVE  c = from /\ Balance(c)' = Balance(c) - v
  BY <1>1, <1>8 DEF CanMove
<1>9. ASSUME NEW v \in Amounts, fn = "TransferFrom", HasAllowance(c, caller),
             Balance(c)' = Balance(c) - v,
             world[AllowanceKey(c)].value >= v,
             world'[AllowanceKey(c)] # Absent,
             world'[AllowanceKey(c)] =
                [spender |-> caller, value |-> world[AllowanceKey(c)].value - v]
      PROVE  Debited(c)
  <2>1. PICK s \in Clients : s = caller
    BY <1>5
  <2>2. PICK old \in Int : old = world[AllowanceKey(c)].value
    BY <1>9, AllowanceIsRecord, ERC20Assumption DEF HasAllowance
  <2>3. world'[AllowanceKey(c)] = [spender |-> s, value |-> old - v]
    BY <1>9, <2>1, <2>2
  <2>4. /\ world[AllowanceKey(c)].value - world'[AllowanceKey(c)].value
               = Balance(c) - Balance(c)'
        /\ world'[AllowanceKey(c)].value >= 0
    BY <1>1, <1>9, <2>2, <2>3
  <2>5. HasAllowance(c, s)'
    BY <1>9, <2>3 DEF HasAllowance
  <2>6. Commits(s, {"TransferFrom"})
    BY <1>6, <1>9, <2>1
  <2> QED
    BY <1>9, <2>1, <2>4, <2>5, <2>6 DEF Debited
<1>10. ASSUME NEW a \in Amounts, a > 0, Balance(c)' = Balance(c) + a
       PROVE  FALSE
  BY <1>1, <1>10
<1>11. ASSUME fn = "Transfer", c = caller
       PROVE  Debited(c)
  BY <1>6, <1>11 DEF Debited
<1> DEFINE Moved(from, to, v) ==
             /\ CanMove(from, to, v)
             /\ \/ fn = "Transfer" /\ from = caller
                \/ /\ fn = "TransferFrom"
                   /\ HasAllowance(from, caller)
                   /\ world[AllowanceKey(from)].value >= v
                   /\ world'[AllowanceKey(from)] # Absent
                   /\ world'[AllowanceKey(from)] =
                        [spender |-> caller,
                         value |-> world[AllowanceKey(from)].value - v]
             /\ \/ c = to /\ Balance(c)' = Balance(c) + v
                \/ c = from /\ Balance(c)' = Balance(c) - v
<1>12. \/ \E from, to \in Clients, v \in Amounts : Moved(from, to, v)
       \/ \E a \in Amounts : a > 0 /\ Balance(c)' = Balance(c) + a
       \/ fn \in {"Burn", "BurnFrom"} /\ TokenWasRead(t)
  BY <1>2, <1>4, CommitCases
<1>13. ASSUME NEW from \in Clients, NEW to \in Clients, NEW v \in Amounts,
              Moved(from, to, v)
       PROVE  Debited(c)
  <2>1. c = from /\ Balance(c)' = Balance(c) - v
    BY <1>8, <1>13
  <2> QED
    BY <1>9, <1>11, <1>13, <2>1
<1>14. QED
  BY <1>7, <1>10, <1>12, <1>13

\* Tokens leave a wallet only on the authority of its holder, of a spender
\* whose allowance is charged in the same commit, or of the token's owner.
THEOREM DebitsAreAuthorised == Spec => DebitAuthorised
<1>1. TypeOK /\ EndorsedStillValid /\ [Next]_vars
        => [\A c \in Clients : Balance(c)' < Balance(c) => Debited(c)]_vars
  BY DebitStep
<1>2. QED
  BY <1>1, TypeCorrect, CallsStayValid, PTL DEF Spec, DebitAuthorised
=============================================================================
