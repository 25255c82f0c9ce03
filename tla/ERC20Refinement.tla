--------------------------- MODULE ERC20Refinement ---------------------------
(***************************************************************************)
(* ERC20Contract implements ERC20Token, for any finite number of clients   *)
(* and any amounts, if there is one name for a token; and the supply       *)
(* changes by the owner's calls only, for any names.                       *)
(*                                                                         *)
(* The supply is a sum over the clients, folded in an order of its own.    *)
(* The first part is about such sums.  The library states induction over   *)
(* a finite set for an operator; here it is used as the existence of a     *)
(* minimal subset among those for which a claim is wrong.                  *)
(***************************************************************************)
EXTENDS ERC20Proofs, FiniteSetTheorems

-----------------------------------------------------------------------------
\* Sums.

First(s) == CHOOSE x \in s : TRUE

Step(f, g, s) == IF s = {} THEN 0 ELSE f[First(s)] + g[s \ {First(s)}]

\* g gives for each subset of S the sum of f over it.
Sums(f, g, S) == g = [s \in SUBSET S |-> Step(f, g, s)]

SumsOf(f, S) == CHOOSE g : Sums(f, g, S)

SumOf(f, S) == SumsOf(f, S)[S]

LEMMA SupplyIsSum == TotalSupply = SumOf([c \in Clients |-> Balance(c)], Clients)
BY DEF TotalSupply, MapThenSumSet, MapThenFoldSet, SumOf, SumsOf, Sums, Step, First

LEMMA Minimal ==
    ASSUME NEW S, IsFiniteSet(S), NEW T \in SUBSET SUBSET S, T # {}
    PROVE  \E x \in T : \A y \in T : y \subseteq x => y = x
<1>1. IsWellFoundedOn(StrictSubsetOrdering(S), FiniteSubsetsOf(S))
  BY FS_StrictSubsetOrderingWellFounded
<1>2. T \subseteq FiniteSubsetsOf(S)
  BY FS_Subset DEF FiniteSubsetsOf
<1>3. \E x \in T : \A y \in T : ~ (<<y, x>> \in StrictSubsetOrdering(S))
  BY <1>1, <1>2, WFMin
<1> QED
  BY <1>3 DEF StrictSubsetOrdering

\* The rest of a set.
LEMMA RestIs ==
    ASSUME NEW s, s # {}
    PROVE  /\ First(s) \in s
           /\ s \ {First(s)} \subseteq s /\ s \ {First(s)} # s
BY DEF First

LEMMA SumsAgree ==
    ASSUME NEW S, IsFiniteSet(S), NEW f, NEW g, NEW h,
           NEW T \in SUBSET S, NEW U \in SUBSET S, Sums(f, g, T), Sums(f, h, U),
           NEW s, s \subseteq T, s \subseteq U
    PROVE  g[s] = h[s]
<1> DEFINE differ == {x \in SUBSET S : x \subseteq T /\ x \subseteq U /\ g[x] # h[x]}
<1>1. SUFFICES ASSUME differ # {} PROVE FALSE
  BY <1>1
<1>2. PICK x \in differ : \A y \in differ : y \subseteq x => y = x
  <2>1. differ \in SUBSET SUBSET S
    OBVIOUS
  <2> HIDE DEF differ
  <2> QED
    BY <1>1, <2>1, Minimal
<1>3. g[x] = Step(f, g, x) /\ h[x] = Step(f, h, x)
  BY DEF Sums
<1>4. CASE x = {}
  BY <1>2, <1>3, <1>4 DEF Step
<1>5. CASE x # {}
  <2>1. PICK y : y = x \ {First(x)}
    OBVIOUS
  <2>2. y \subseteq x /\ y # x
    BY <1>5, <2>1, RestIs
  <2>3. g[y] = h[y]
    BY <1>2, <2>2
  <2> QED
    BY <1>2, <1>3, <1>5, <2>1, <2>3 DEF Step
<1> QED
  BY <1>4, <1>5

LEMMA SumsExist ==
    ASSUME NEW S, IsFiniteSet(S), NEW f
    PROVE  Sums(f, SumsOf(f, S), S)
<1> DEFINE without == {T \in SUBSET S : ~ \E g : Sums(f, g, T)}
<1>1. ASSUME without # {} PROVE FALSE
  <2>1. PICK T \in without : \A y \in without : y \subseteq T => y = T
    <3>1. without \in SUBSET SUBSET S
      OBVIOUS
    <3> HIDE DEF without
    <3> QED
      BY <1>1, <3>1, Minimal
  <2>2. \A y \in SUBSET T : y # T => Sums(f, SumsOf(f, y), y)
    BY <2>1 DEF SumsOf
  <2> DEFINE Value(s) ==
               IF s = {} THEN 0
               ELSE f[First(s)] + SumsOf(f, s \ {First(s)})[s \ {First(s)}]
             g == [s \in SUBSET T |-> Value(s)]
  <2>3. ASSUME NEW s \in SUBSET T PROVE Value(s) = Step(f, g, s)
    <3>1. CASE s = {}
      BY <3>1 DEF Step
    <3>2. CASE s # {}
      <4>1. PICK y : y = s \ {First(s)}
        OBVIOUS
      <4>2. y \in SUBSET T /\ y # T
        BY <3>2, <4>1, RestIs
      <4>3. PICK h : h = SumsOf(f, y)
        OBVIOUS
      <4>4. Sums(f, h, y)
        BY <2>2, <4>2, <4>3
      <4>5. h[y] = Step(f, h, y)
        BY <4>4 DEF Sums
      <4>6. Value(y) = h[y]
        <5>1. CASE y = {}
          BY <4>5, <5>1 DEF Step
        <5>2. CASE y # {}
          <6>1. PICK z : z = y \ {First(y)}
            OBVIOUS
          <6>2. z \subseteq y /\ z # T
            BY <4>2, <5>2, <6>1, RestIs
          <6>3. PICK k : k = SumsOf(f, z)
            OBVIOUS
          <6>4. Sums(f, k, z)
            BY <2>2, <4>2, <6>2, <6>3
          <6>5. y \in SUBSET S /\ z \in SUBSET S
            BY <4>2, <6>2
          <6>6. h[z] = k[z]
            BY <4>4, <6>2, <6>4, <6>5, SumsAgree
          <6> QED
            BY <4>5, <5>2, <6>1, <6>3, <6>6 DEF Step
        <5> QED
          BY <5>1, <5>2
      <4>7. g[y] = h[y]
        BY <4>2, <4>6
      <4> QED
        BY <3>2, <4>1, <4>3, <4>7 DEF Step
    <3> QED
      BY <3>1, <3>2
  <2>4. Sums(f, g, T)
    BY <2>3 DEF Sums
  <2> QED
    BY <2>1, <2>4
<1>2. \E g : Sums(f, g, S)
  BY <1>1
<1> QED
  BY <1>2 DEF SumsOf

\* A sum of integers is one, and follows a change of one of them.
LEMMA SumChange ==
    ASSUME NEW S, IsFiniteSet(S), NEW f \in [S -> Int], NEW h \in [S -> Int],
           NEW c \in S, \A x \in S : x # c => h[x] = f[x]
    PROVE  /\ SumOf(f, S) \in Int
           /\ SumOf(h, S) = SumOf(f, S) + (h[c] - f[c])
<1>1. PICK F : F = SumsOf(f, S)
  OBVIOUS
<1>2. PICK H : H = SumsOf(h, S)
  OBVIOUS
<1>3. \A s \in SUBSET S : F[s] = Step(f, F, s) /\ H[s] = Step(h, H, s)
  <2>1. Sums(f, F, S) /\ Sums(h, H, S)
    BY <1>1, <1>2, SumsExist
  <2> QED
    BY <2>1 DEF Sums
<1> DEFINE Change(s) == IF c \in s THEN h[c] - f[c] ELSE 0
           wrong == {s \in SUBSET S : ~ (F[s] \in Int /\ H[s] = F[s] + Change(s))}
<1>4. ASSUME wrong # {} PROVE FALSE
  <2>1. PICK s \in wrong : \A y \in wrong : y \subseteq s => y = s
    <3>1. wrong \in SUBSET SUBSET S
      OBVIOUS
    <3> HIDE DEF wrong
    <3> QED
      BY <1>4, <3>1, Minimal
  <2>2. CASE s = {}
    <3>1. F[s] = 0 /\ H[s] = 0 /\ Change(s) = 0
      BY <1>3, <2>1, <2>2 DEF Step
    <3> QED
      BY <2>1, <3>1
  <2>3. CASE s # {}
    <3>1. PICK x : x = First(s)
      OBVIOUS
    <3>2. PICK y : y = s \ {x}
      OBVIOUS
    <3>3. x \in s /\ x \in S /\ y \in SUBSET S /\ y # s
      BY <2>1, <2>3, <3>1, <3>2, RestIs
    <3>4. F[y] \in Int /\ H[y] = F[y] + Change(y)
      BY <2>1, <3>2, <3>3
    <3>5. F[s] = f[x] + F[y] /\ H[s] = h[x] + H[y]
      BY <1>3, <2>1, <2>3, <3>1, <3>2 DEF Step
    <3>6. f[x] \in Int /\ h[x] \in Int /\ f[c] \in Int /\ h[c] \in Int
      BY <3>3
    <3>7. CASE x = c
      <4>1. Change(y) = 0 /\ Change(s) = h[c] - f[c]
        BY <3>2, <3>3, <3>7
      <4> QED
        BY <2>1, <3>4, <3>5, <3>6, <3>7, <4>1
    <3>8. CASE x # c
      <4>1. Change(y) = Change(s) /\ h[x] = f[x] /\ Change(s) \in Int
        BY <3>2, <3>3, <3>6, <3>8
      <4> HIDE DEF Change
      <4>2. H[s] = F[s] + Change(s) /\ F[s] \in Int
        BY <3>4, <3>5, <3>6, <4>1
      <4> QED
        BY <2>1, <4>2
    <3> QED
      BY <3>7, <3>8
  <2> QED
    BY <2>2, <2>3
<1>5. F[S] \in Int /\ H[S] = F[S] + (h[c] - f[c])
  BY <1>4
<1> QED
  BY <1>1, <1>2, <1>5 DEF SumOf

LEMMA SumOfZeros ==
    ASSUME NEW S, IsFiniteSet(S), NEW f, \A x \in S : f[x] = 0
    PROVE  SumOf(f, S) = 0
<1>1. PICK F : F = SumsOf(f, S)
  OBVIOUS
<1>2. \A s \in SUBSET S : F[s] = Step(f, F, s)
  <2>1. Sums(f, F, S)
    BY <1>1, SumsExist
  <2> QED
    BY <2>1 DEF Sums
<1> DEFINE wrong == {s \in SUBSET S : F[s] # 0}
<1>3. ASSUME wrong # {} PROVE FALSE
  <2>1. PICK s \in wrong : \A y \in wrong : y \subseteq s => y = s
    <3>1. wrong \in SUBSET SUBSET S
      OBVIOUS
    <3> HIDE DEF wrong
    <3> QED
      BY <1>3, <3>1, Minimal
  <2>2. s # {}
    BY <1>2, <2>1 DEF Step
  <2>3. PICK y : y = s \ {First(s)}
    OBVIOUS
  <2>4. First(s) \in S /\ y \in SUBSET S /\ y # s /\ y \subseteq s
    BY <2>1, <2>2, <2>3, RestIs
  <2>5. F[y] = 0 /\ f[First(s)] = 0
    BY <2>1, <2>4
  <2> QED
    BY <1>2, <2>1, <2>2, <2>3, <2>5 DEF Step
<1> QED
  BY <1>1, <1>3 DEF SumOf

-----------------------------------------------------------------------------
\* The state of the abstract token.

Balances == [c \in Clients |-> Balance(c)]

Allowed ==
    [o \in Clients |-> [s \in Clients |->
        IF HasAllowance(o, s) THEN world[AllowanceKey(o)].value ELSE 0]]

TokenOwner ==
    IF Tokens = {} THEN Absent ELSE world[TokenKey(CHOOSE n \in Tokens : TRUE)].owner

LEMMA BalancesAre == TypeOK => Balances \in [Clients -> Int]
BY BalanceIsNumber DEF Balances

LEMMA BalancesAreNext == TypeOK' => Balances' \in [Clients -> Int]
<1>1. (TypeOK => Balances \in [Clients -> Int])'
  BY BalancesAre, PTL
<1> QED
  BY <1>1

LEMMA SupplyOfBalances == TotalSupply = SumOf(Balances, Clients)
BY SupplyIsSum DEF Balances

LEMMA SupplyOfBalancesNext == TotalSupply' = SumOf(Balances', Clients)
<1>1. (TotalSupply = SumOf(Balances, Clients))'
  BY SupplyOfBalances, PTL
<1> QED
  BY <1>1

LEMMA SupplyChanged ==
    ASSUME TypeOK, TypeOK', IsFiniteSet(Clients), NEW c \in Clients, NEW v \in Int,
           Balances' = [Balances EXCEPT ![c] = @ + v]
    PROVE  TotalSupply \in Int /\ TotalSupply' = TotalSupply + v
<1>1. PICK f : f = Balances
  OBVIOUS
<1>2. PICK h : h = Balances'
  OBVIOUS
<1>3. f \in [Clients -> Int] /\ h \in [Clients -> Int]
  BY <1>1, <1>2, BalancesAre, BalancesAreNext
<1>4. h[c] - f[c] = v /\ \A x \in Clients : x # c => h[x] = f[x]
  BY <1>1, <1>2, <1>3
<1>5. SumOf(f, Clients) \in Int /\ SumOf(h, Clients) = SumOf(f, Clients) + (h[c] - f[c])
  BY <1>3, <1>4, SumChange
<1> QED
  BY <1>1, <1>2, <1>4, <1>5, SupplyOfBalances, SupplyOfBalancesNext

LEMMA SupplyMoved ==
    ASSUME TypeOK, TypeOK', IsFiniteSet(Clients), NEW from \in Clients, NEW to \in Clients,
           from # to, NEW v \in Int,
           Balances' = [Balances EXCEPT ![from] = @ - v, ![to] = @ + v]
    PROVE  TotalSupply' = TotalSupply
<1>1. PICK f : f = Balances
  OBVIOUS
<1>2. PICK h : h = Balances'
  OBVIOUS
<1>3. PICK m : m = [f EXCEPT ![from] = @ - v]
  OBVIOUS
<1>4. f \in [Clients -> Int] /\ h \in [Clients -> Int]
  BY <1>1, <1>2, BalancesAre, BalancesAreNext
<1>5. /\ m \in [Clients -> Int] /\ m[from] = f[from] - v
      /\ \A x \in Clients : x # from => m[x] = f[x]
  BY <1>3, <1>4
<1>6. h[to] = m[to] + v /\ \A x \in Clients : x # to => h[x] = m[x]
  BY <1>1, <1>2, <1>4, <1>5
<1>7. /\ SumOf(f, Clients) \in Int
      /\ SumOf(m, Clients) = SumOf(f, Clients) + (m[from] - f[from])
  BY <1>4, <1>5, SumChange
<1>8. SumOf(h, Clients) = SumOf(m, Clients) + (h[to] - m[to])
  BY <1>4, <1>5, <1>6, SumChange
<1>9. m[from] - f[from] = -v /\ h[to] - m[to] = v
  BY <1>4, <1>5, <1>6
<1> QED
  BY <1>1, <1>2, <1>7, <1>8, <1>9, SupplyOfBalances, SupplyOfBalancesNext

LEMMA SupplyStays ==
    ASSUME Balances' = Balances
    PROVE  TotalSupply' = TotalSupply
BY SupplyOfBalances, SupplyOfBalancesNext

-----------------------------------------------------------------------------
\* What a commit does to each part of the state.

\* The writes w change no record of the table.
Spares(w, table) == \A x : <<table, x>> \notin DOMAIN w

LEMMA BalancesStay ==
    ASSUME TypeOK, NEW t \in Txs, Ledger!CommitValid(t),
           Spares(proposal[t].writes, "erc20_wallets")
    PROVE  Balances' = Balances /\ TotalSupply' = TotalSupply
<1>1. ASSUME NEW c \in Clients PROVE Balance(c)' = Balance(c)
  BY <1>1, CommittedBalance DEF Spares, WalletKey
<1>2. Balances' = Balances
  BY <1>1 DEF Balances
<1> QED
  BY <1>2, SupplyStays

LEMMA AllowedStays ==
    ASSUME NEW t \in Txs, Ledger!CommitValid(t),
           Spares(proposal[t].writes, "erc20_allowances")
    PROVE  Allowed' = Allowed
<1>1. ASSUME NEW o \in Clients PROVE world'[AllowanceKey(o)] = world[AllowanceKey(o)]
  BY <1>1, KeysOfTables DEF Spares, AllowanceKey, Ledger!CommitValid
<1>2. ASSUME NEW o \in Clients, NEW s \in Clients
      PROVE  HasAllowance(o, s)' = HasAllowance(o, s)
  BY <1>1 DEF HasAllowance
<1> QED
  BY <1>1, <1>2 DEF Allowed

LEMMA TokenStays ==
    ASSUME NEW t \in Txs, Ledger!CommitValid(t),
           Spares(proposal[t].writes, "erc20_tokens")
    PROVE  Tokens' = Tokens /\ TokenOwner' = TokenOwner
<1>1. \A n \in Names : world'[TokenKey(n)] = world[TokenKey(n)]
  BY KeysOfTables DEF Spares, TokenKey, Ledger!CommitValid
<1>2. Tokens' = Tokens
  BY <1>1 DEF Tokens
<1>3. Tokens # {} => (CHOOSE n \in Tokens : TRUE) \in Names
  BY DEF Tokens
<1> QED
  BY <1>1, <1>2, <1>3 DEF TokenOwner

\* The two wallets of a transfer, and no others.
LEMMA BalancesMove ==
    ASSUME TypeOK, TypeOK', IsFiniteSet(Clients), NEW t \in Txs, Ledger!CommitValid(t),
           NEW w, w = proposal[t].writes,
           NEW from \in Clients, NEW to \in Clients, NEW v \in Amounts, CanMove(from, to, v),
           \A k \in DOMAIN MoveWrites(from, to, v) :
              k \in DOMAIN w /\ w[k] = MoveWrites(from, to, v)[k],
           \A c : WalletKey(c) \in DOMAIN w => c \in {from, to}
    PROVE  /\ Balances' = [Balances EXCEPT ![from] = @ - v, ![to] = @ + v]
           /\ TotalSupply' = TotalSupply
           /\ from # to /\ v >= 0 /\ Balances[from] >= v
<1>1. v \in Int
  BY ERC20Assumption
<1>2. from # to /\ v >= 0 /\ Balances[from] >= v
  BY DEF CanMove, Balances
<1>3. DOMAIN MoveWrites(from, to, v) = {WalletKey(from), WalletKey(to)}
  BY DEF MoveWrites
<1>4. Balance(to)' = Balance(to) + v /\ Balance(from)' = Balance(from) - v
  <2>1. /\ MoveWrites(from, to, v)[WalletKey(to)] = Balance(to) + v
        /\ MoveWrites(from, to, v)[WalletKey(from)] = Balance(from) - v
    BY <1>2, KeysDistinct DEF MoveWrites
  <2>2. /\ Balance(to)' = w[WalletKey(to)]
        /\ Balance(from)' = w[WalletKey(from)]
    BY <1>3, CommittedBalance
  <2> QED
    BY <1>3, <2>1, <2>2
<1>5. \A c \in Clients : c \notin {from, to} => Balance(c)' = Balance(c)
  BY CommittedBalance
<1>6. Balances' = [Balances EXCEPT ![from] = @ - v, ![to] = @ + v]
  BY <1>2, <1>4, <1>5 DEF Balances
<1> QED
  BY <1>1, <1>2, <1>6, SupplyMoved


\* The one wallet of a mint or a burn.
LEMMA BalanceChanges ==
    ASSUME TypeOK, TypeOK', IsFiniteSet(Clients), NEW t \in Txs, Ledger!CommitValid(t),
           NEW c \in Clients, NEW v \in Int,
           proposal[t].writes = WalletWrite(c, Balance(c) + v)
    PROVE  /\ Balances' = [Balances EXCEPT ![c] = @ + v]
           /\ TotalSupply' = TotalSupply + v
<1> DEFINE w == proposal[t].writes
<1>1. DOMAIN w = {WalletKey(c)} /\ w[WalletKey(c)] = Balance(c) + v
  BY DEF WalletWrite
<1>2. Balance(c)' = Balance(c) + v
  BY <1>1, CommittedBalance
<1>3. \A x \in Clients : x # c => Balance(x)' = Balance(x)
  BY <1>1, CommittedBalance, KeysDistinct
<1>4. Balances' = [Balances EXCEPT ![c] = @ + v]
  BY <1>2, <1>3 DEF Balances
<1> QED
  BY <1>4, SupplyChanged

\* The allowances of one owner, which are one record.
LEMMA AllowedChanges ==
    ASSUME TypeOK, NEW t \in Txs, Ledger!CommitValid(t), NEW w, w = proposal[t].writes,
           NEW o \in Clients, NEW s \in Clients, NEW v \in Int,
           AllowanceKey(o) \in DOMAIN w,
           w[AllowanceKey(o)] = [spender |-> s, value |-> v],
           \A x : AllowanceKey(x) \in DOMAIN w => x = o,
           HasAllowance(o, s) \/ world[AllowanceKey(o)] = Absent
    PROVE  Allowed' = [Allowed EXCEPT ![o][s] = v]
<1>1. PICK rec : rec = [spender |-> s, value |-> v]
  OBVIOUS
<1>2. rec.spender = s /\ rec.value = v
  BY <1>1
<1>3. world'[AllowanceKey(o)] = rec
  BY <1>1, KeysOfTables DEF Ledger!CommitValid
<1>4. rec # Absent
  <2>1. rec \in Rows(AllowanceKey(o))
    BY <1>1 DEF TypeOK, Ledger!CommitValid
  <2>2. Rows(AllowanceKey(o)) = Allowances
    BY RowsOfTables
  <2> QED
    BY <2>1, <2>2, ERC20Assumption
<1>5. ASSUME NEW x \in Clients, x # o PROVE world'[AllowanceKey(x)] = world[AllowanceKey(x)]
  BY <1>5, KeysOfTables DEF Ledger!CommitValid
<1>6. ASSUME NEW x \in Clients, NEW y \in Clients
      PROVE  Allowed'[x][y] = IF x = o /\ y = s THEN v ELSE Allowed[x][y]
  <2>1. CASE x # o
    <3>1. HasAllowance(x, y)' = HasAllowance(x, y)
      BY <1>5, <2>1 DEF HasAllowance
    <3> QED
      BY <1>5, <2>1, <3>1 DEF Allowed
  <2>2. CASE x = o /\ y = s
    <3>1. HasAllowance(o, s)'
      BY <1>2, <1>3, <1>4 DEF HasAllowance
    <3> QED
      BY <1>2, <1>3, <2>2, <3>1 DEF Allowed
  <2>3. CASE x = o /\ y # s
    <3>1. ~HasAllowance(o, y)'
      BY <1>2, <1>3, <2>3 DEF HasAllowance
    <3>2. ~HasAllowance(o, y)
      BY <2>3 DEF HasAllowance
    <3> QED
      BY <2>3, <3>1, <3>2 DEF Allowed
  <2> QED
    BY <2>1, <2>2, <2>3
<1>7. Allowed' = [x \in Clients |-> [y \in Clients |-> Allowed'[x][y]]]
  BY DEF Allowed
<1>8. [Allowed EXCEPT ![o][s] = v]
        = [x \in Clients |-> [y \in Clients |->
              IF x = o /\ y = s THEN v ELSE Allowed[x][y]]]
  BY DEF Allowed
<1> QED
  BY <1>6, <1>7, <1>8

\* Where there is one name, the token of that name is the one that is owned.
LEMMA OwnerIs ==
    ASSUME TypeOK, NEW name, Names = {name}
    PROVE  /\ Tokens \subseteq {name}
           /\ Tokens # {} =>
                 /\ TokenOwner = world[TokenKey(name)].owner
                 /\ TokenOwner \in Clients /\ TokenOwner # Absent
<1>1. Tokens \subseteq {name}
  BY DEF Tokens
<1>2. CASE Tokens # {}
  <2>1. Tokens = {name}
    BY <1>1, <1>2
  <2>2. (CHOOSE n \in Tokens : TRUE) = name
    BY <2>1
  <2>3. world[TokenKey(name)] \in [owner : Clients]
    BY <2>1, KeysOfTables, RowsOfTables DEF TypeOK, Tokens
  <2>4. world[TokenKey(name)].owner \in Clients
    BY <2>3
  <2> QED
    BY <1>1, <1>2, <2>2, <2>4, ERC20Assumption DEF TokenOwner
<1> QED
  BY <1>1, <1>2


-----------------------------------------------------------------------------
\* The commit of each method.  In a commit, the token and the balances move as
\* the abstract token's do; Held is what both theorems below need of it.

Held ==
    /\ TypeOK /\ TypeOK' /\ EndorsedStillValid
    /\ IsFiniteSet(Clients)

Single == \E name : Names = {name}

LEMMA CommitTransfer ==
    ASSUME Held, NEW t \in Txs, Ledger!CommitValid(t),
           NEW from \in Clients, NEW to \in Clients, NEW v \in Amounts, CanMove(from, to, v),
           proposal[t].writes = MoveWrites(from, to, v), TokenWasRead(t)
    PROVE  /\ TotalSupply' = TotalSupply
           /\ Single => Token!Transfer(from, to, v)
<1>1. PICK w : w = proposal[t].writes
  OBVIOUS
<1>2. DOMAIN w = {WalletKey(from), WalletKey(to)}
  BY <1>1 DEF MoveWrites
<1>3. Spares(w, "erc20_tokens") /\ Spares(w, "erc20_allowances")
  BY <1>2 DEF Spares, WalletKey
<1>4. \A c : WalletKey(c) \in DOMAIN w => c \in {from, to}
  BY <1>2, KeysDistinct
<1>5. /\ Balances' = [Balances EXCEPT ![from] = @ - v, ![to] = @ + v]
      /\ TotalSupply' = TotalSupply
      /\ from # to /\ v >= 0 /\ Balances[from] >= v
  BY <1>1, <1>4, BalancesMove DEF Held
<1>6. TokenOwner' = TokenOwner /\ Allowed' = Allowed
  BY <1>1, <1>3, TokenStays, AllowedStays
<1>7. Single => TokenOwner # Absent
  BY OwnerIs DEF Held, Single, TokenWasRead
<1>8. TokenOwner # Absent => Token!Transfer(from, to, v)
  BY <1>5, <1>6 DEF Token!Transfer, Token!CanMove, Token!Moved, Balances, Allowed, TokenOwner
<1> QED
  BY <1>5, <1>7, <1>8

LEMMA CommitTransferFrom ==
    ASSUME Held, NEW t \in Txs, Ledger!CommitValid(t), NEW s \in Clients,
           NEW from \in Clients, NEW to \in Clients, NEW v \in Amounts, CanMove(from, to, v),
           HasAllowance(from, s), world[AllowanceKey(from)].value >= v,
           proposal[t].writes = Charged(from, to, s, v), TokenWasRead(t)
    PROVE  /\ TotalSupply' = TotalSupply
           /\ Single => Token!TransferFrom(s, from, to, v)
<1>1. PICK w : w = proposal[t].writes
  OBVIOUS
<1>2. PICK left \in Int : left = world[AllowanceKey(from)].value - v
  BY AllowanceIsRecord, ERC20Assumption DEF Held, HasAllowance
<1>3. /\ DOMAIN w = {WalletKey(from), WalletKey(to), AllowanceKey(from)}
      /\ \A k \in DOMAIN MoveWrites(from, to, v) :
            k \in DOMAIN w /\ w[k] = MoveWrites(from, to, v)[k]
  BY <1>1 DEF Charged, MoveWrites, AllowanceWrite
<1>4. w[AllowanceKey(from)] = [spender |-> s, value |-> left]
  <2>1. AllowanceKey(from) \notin DOMAIN MoveWrites(from, to, v)
    BY KeysDistinct DEF MoveWrites
  <2> QED
    BY <1>1, <1>2, <2>1 DEF Charged, AllowanceWrite
<1>5. Spares(w, "erc20_tokens")
  BY <1>3 DEF Spares, WalletKey, AllowanceKey
<1>6. /\ \A c : WalletKey(c) \in DOMAIN w => c \in {from, to}
      /\ \A o : AllowanceKey(o) \in DOMAIN w => o = from
  BY <1>3, KeysDistinct
<1>7. /\ Balances' = [Balances EXCEPT ![from] = @ - v, ![to] = @ + v]
      /\ TotalSupply' = TotalSupply
      /\ from # to /\ v >= 0 /\ Balances[from] >= v
  BY <1>1, <1>3, <1>6, BalancesMove DEF Held
<1>8. Allowed' = [Allowed EXCEPT ![from][s] = left]
  BY <1>1, <1>3, <1>4, <1>6, AllowedChanges DEF Held
<1>9. /\ Allowed[from][s] >= v
      /\ Allowed' = [Allowed EXCEPT ![from][s] = @ - v]
  <2>1. Allowed[from][s] = world[AllowanceKey(from)].value
    BY DEF Allowed
  <2> QED
    BY <1>2, <1>8, <2>1 DEF Allowed
<1>10. TokenOwner' = TokenOwner
  BY <1>1, <1>5, TokenStays
<1>11. Single => TokenOwner # Absent
  BY OwnerIs DEF Held, Single, TokenWasRead
<1>12. TokenOwner # Absent => Token!TransferFrom(s, from, to, v)
  BY <1>7, <1>9, <1>10
     DEF Token!TransferFrom, Token!CanMove, Token!Moved, Balances, Allowed, TokenOwner
<1> QED
  BY <1>7, <1>11, <1>12

LEMMA CommitApprove ==
    ASSUME Held, NEW t \in Txs, Ledger!CommitValid(t), NEW o \in Clients,
           NEW s \in Clients, NEW v \in Amounts, CanApprove(o, s, v),
           proposal[t].writes = AllowanceWrite(o, s, v), TokenWasRead(t)
    PROVE  /\ TotalSupply' = TotalSupply
           /\ Single => Token!Approve(o, s, v)
<1>1. PICK w : w = proposal[t].writes
  OBVIOUS
<1>2. DOMAIN w = {AllowanceKey(o)} /\ w[AllowanceKey(o)] = [spender |-> s, value |-> v]
  BY <1>1 DEF AllowanceWrite
<1>3. Spares(w, "erc20_tokens") /\ Spares(w, "erc20_wallets")
  BY <1>2 DEF Spares, AllowanceKey
<1>4. Balances' = Balances /\ TotalSupply' = TotalSupply /\ TokenOwner' = TokenOwner
  BY <1>1, <1>3, BalancesStay, TokenStays DEF Held
<1>5. Allowed' = [Allowed EXCEPT ![o][s] = v]
  <2>1. \A x : AllowanceKey(x) \in DOMAIN w => x = o
    BY <1>2, KeysDistinct
  <2>2. v \in Int /\ (HasAllowance(o, s) \/ world[AllowanceKey(o)] = Absent)
    BY ERC20Assumption DEF CanApprove
  <2> QED
    BY <1>1, <1>2, <2>1, <2>2, AllowedChanges DEF Held
<1>6. Balances[o] >= v
  BY DEF CanApprove, Balances
<1>7. Single => TokenOwner # Absent
  BY OwnerIs DEF Held, Single, TokenWasRead
<1>8. TokenOwner # Absent => Token!Approve(o, s, v)
  BY <1>4, <1>5, <1>6 DEF Token!Approve, Balances, Allowed, TokenOwner
<1> QED
  BY <1>4, <1>7, <1>8

LEMMA CommitMint ==
    ASSUME Held, NEW t \in Txs, Ledger!CommitValid(t), NEW c \in Clients,
           NEW a \in Amounts, a > 0, c = proposal[t].call.caller,
           proposal[t].call.fn = "Mint",
           proposal[t].writes = WalletWrite(c, Balance(c) + a), TokenWasRead(t)
    PROVE  Single => Token!Mint(a)
<1>1. DOMAIN proposal[t].writes = {WalletKey(c)}
  BY DEF WalletWrite
<1>2. Spares(proposal[t].writes, "erc20_tokens") /\ Spares(proposal[t].writes, "erc20_allowances")
  BY <1>1 DEF Spares, WalletKey
<1>3. TokenOwner' = TokenOwner /\ Allowed' = Allowed
  BY <1>2, TokenStays, AllowedStays
<1>4. a \in Int
  BY ERC20Assumption
<1>5. Balances' = [Balances EXCEPT ![c] = @ + a] /\ TotalSupply' = TotalSupply + a
  BY <1>4, BalanceChanges DEF Held
<1>6. Single => TokenOwner = c /\ TokenOwner # Absent
  BY OwnerIs DEF Held, Single, TokenWasRead
<1>7. TokenOwner = c /\ TokenOwner # Absent => Token!Mint(a)
  BY <1>3, <1>5 DEF Token!Mint, Balances, Allowed, TokenOwner
<1> QED
  BY <1>6, <1>7

LEMMA CommitBurn ==
    ASSUME Held, NEW t \in Txs, Ledger!CommitValid(t), NEW account \in Clients,
           NEW a \in Amounts, Balance(account) >= a,
           proposal[t].writes = WalletWrite(account, Balance(account) - a), TokenWasRead(t)
    PROVE  Single => Token!Burn(account, a)
<1>1. DOMAIN proposal[t].writes = {WalletKey(account)}
  BY DEF WalletWrite
<1>2. Spares(proposal[t].writes, "erc20_tokens") /\ Spares(proposal[t].writes, "erc20_allowances")
  BY <1>1 DEF Spares, WalletKey
<1>3. TokenOwner' = TokenOwner /\ Allowed' = Allowed
  BY <1>2, TokenStays, AllowedStays
<1>4. a \in Int /\ Balance(account) \in Int
  BY BalanceIsNumber, ERC20Assumption DEF Held
<1>5. PICK v \in Int : v = -a
  BY <1>4
<1>6. Balance(account) - a = Balance(account) + v
  BY <1>4, <1>5
<1>7. Balances' = [Balances EXCEPT ![account] = @ + v] /\ TotalSupply' = TotalSupply + v
  BY <1>6, BalanceChanges DEF Held
<1>8. TotalSupply \in Int
  BY <1>7, SupplyChanged DEF Held
<1>9. Balances' = [Balances EXCEPT ![account] = @ - a] /\ TotalSupply' = TotalSupply - a
  BY <1>4, <1>5, <1>7, <1>8 DEF Balances
<1>10. Balances[account] >= a
  BY DEF Balances
<1>11. Single => TokenOwner # Absent
  BY OwnerIs DEF Held, Single, TokenWasRead
<1>12. TokenOwner # Absent => Token!Burn(account, a)
  BY <1>3, <1>9, <1>10 DEF Token!Burn, Balances, Allowed, TokenOwner
<1> QED
  BY <1>11, <1>12

LEMMA CommitInitialize ==
    ASSUME Held, NEW t \in Txs, Ledger!CommitValid(t), NEW c \in Clients,
           NEW n \in Names \ Tokens,
           proposal[t].writes = [k \in {TokenKey(n)} |-> [owner |-> c]]
    PROVE  /\ TotalSupply' = TotalSupply
           /\ Single => Token!Initialize(c)
<1>1. PICK w : w = proposal[t].writes
  OBVIOUS
<1>2. PICK rec : rec = [owner |-> c]
  OBVIOUS
<1>3. DOMAIN w = {TokenKey(n)} /\ w[TokenKey(n)] = rec /\ rec.owner = c
  BY <1>1, <1>2
<1>4. Spares(w, "erc20_wallets") /\ Spares(w, "erc20_allowances")
  BY <1>3 DEF Spares, TokenKey
<1>5. Balances' = Balances /\ TotalSupply' = TotalSupply /\ Allowed' = Allowed
  BY <1>1, <1>4, BalancesStay, AllowedStays DEF Held
<1>6. ASSUME NEW name, Names = {name}
      PROVE  TokenOwner = Absent /\ TokenOwner' = c
  <2>1. Tokens = {} /\ n = name
    BY <1>6 DEF Tokens
  <2>2. world'[TokenKey(name)] = rec
    BY <1>1, <1>3, <2>1, KeysOfTables DEF Ledger!CommitValid
  <2>3. rec # Absent
    BY <1>2, ERC20Assumption
  <2>4. Tokens' = {name}
    BY <1>6, <2>2, <2>3 DEF Tokens
  <2>5. (CHOOSE x \in Tokens' : TRUE) = name
    BY <2>4
  <2> QED
    BY <1>3, <2>1, <2>2, <2>4, <2>5 DEF TokenOwner
<1>7. Single => TokenOwner = Absent /\ TokenOwner' = c
  BY <1>6 DEF Single
<1>8. TokenOwner = Absent /\ TokenOwner' = c => Token!Initialize(c)
  BY <1>5 DEF Token!Initialize, Balances, Allowed, TokenOwner
<1> QED
  BY <1>5, <1>7, <1>8


\* Every commit is a step of the abstract token, and only mints and burns
\* change the supply.
LEMMA CommitStep ==
    ASSUME Held, NEW t \in Txs, Ledger!CommitValid(t)
    PROVE  /\ Single => Token!Next
           /\ \/ TotalSupply' = TotalSupply
              \/ /\ proposal[t].call.fn \in {"Mint", "Burn", "BurnFrom"}
                 /\ TokenWasRead(t)
<1> DEFINE fn == proposal[t].call.fn
           writes == proposal[t].writes
<1>1. PICK c \in Clients : c = proposal[t].call.caller
  BY DEF Held, TypeOK, Calls, Ledger!CommitValid
<1>2. EffectHoldsNow(t) /\ (fn # "Initialize" => TokenWasRead(t))
  BY DEF Held, EndorsedStillValid, Ledger!CommitValid
<1>3. CASE /\ fn = "Initialize"
           /\ \E n \in Names \ Tokens :
                 writes = [k \in {TokenKey(n)} |-> [owner |-> c]]
  <2>1. TotalSupply' = TotalSupply /\ (Single => Token!Initialize(c))
    BY <1>3, CommitInitialize
  <2> QED
    BY <2>1 DEF Token!Next
<1>4. CASE /\ fn = "Transfer"
           /\ \E to \in Clients, v \in Amounts :
                 CanMove(c, to, v) /\ writes = MoveWrites(c, to, v)
  <2>1. PICK to \in Clients, v \in Amounts :
            CanMove(c, to, v) /\ writes = MoveWrites(c, to, v)
    BY <1>4
  <2>2. TotalSupply' = TotalSupply /\ (Single => Token!Transfer(c, to, v))
    BY <1>2, <1>4, <2>1, CommitTransfer
  <2> QED
    BY <2>2 DEF Token!Next
<1>5. CASE /\ fn = "TransferFrom"
           /\ \E from, to \in Clients, v \in Amounts :
                 /\ CanMove(from, to, v)
                 /\ HasAllowance(from, c)
                 /\ world[AllowanceKey(from)].value >= v
                 /\ writes = Charged(from, to, c, v)
  <2>1. PICK from \in Clients, to \in Clients, v \in Amounts :
            /\ CanMove(from, to, v)
            /\ HasAllowance(from, c)
            /\ world[AllowanceKey(from)].value >= v
            /\ writes = Charged(from, to, c, v)
    BY <1>5
  <2>2. TotalSupply' = TotalSupply /\ (Single => Token!TransferFrom(c, from, to, v))
    BY <1>2, <1>5, <2>1, CommitTransferFrom
  <2> QED
    BY <2>2 DEF Token!Next
<1>6. CASE /\ fn = "Approve"
           /\ \E s \in Clients, v \in Amounts :
                 CanApprove(c, s, v) /\ writes = AllowanceWrite(c, s, v)
  <2>1. PICK s \in Clients, v \in Amounts :
            CanApprove(c, s, v) /\ writes = AllowanceWrite(c, s, v)
    BY <1>6
  <2>2. TotalSupply' = TotalSupply /\ (Single => Token!Approve(c, s, v))
    BY <1>2, <1>6, <2>1, CommitApprove
  <2> QED
    BY <2>2 DEF Token!Next
<1>7. CASE /\ fn = "Mint"
           /\ \E a \in Amounts : a > 0 /\ writes = WalletWrite(c, Balance(c) + a)
  <2>1. PICK a \in Amounts : a > 0 /\ writes = WalletWrite(c, Balance(c) + a)
    BY <1>7
  <2>2. TokenWasRead(t) /\ (Single => Token!Mint(a))
    BY <1>1, <1>2, <1>7, <2>1, CommitMint
  <2> QED
    BY <1>7, <2>2 DEF Token!Next
<1>8. CASE /\ fn \in {"Burn", "BurnFrom"}
           /\ \E account \in Clients, a \in Amounts :
                 /\ Balance(account) >= a
                 /\ writes = WalletWrite(account, Balance(account) - a)
  <2>1. PICK account \in Clients, a \in Amounts :
            /\ Balance(account) >= a
            /\ writes = WalletWrite(account, Balance(account) - a)
    BY <1>8
  <2>2. TokenWasRead(t) /\ (Single => Token!Burn(account, a))
    BY <1>2, <1>8, <2>1, CommitBurn
  <2> QED
    BY <1>8, <2>2 DEF Token!Next
<1> QED
  BY <1>1, <1>2, <1>3, <1>4, <1>5, <1>6, <1>7, <1>8 DEF EffectHoldsNow

\* The supply is that of the balances, which the committed state alone says.
LEMMA SameWorld ==
    ASSUME world' = world
    PROVE  TotalSupply' = TotalSupply /\ UNCHANGED Token!vars
<1>1. \A c : HasWallet(c)' = HasWallet(c) /\ Balance(c)' = Balance(c)
  BY DEF HasWallet, Balance
<1>2. Balances' = Balances
  BY <1>1 DEF Balances
<1>3. TotalSupply' = TotalSupply
  BY <1>2, SupplyStays
<1>4. Allowed' = Allowed
  BY DEF Allowed, HasAllowance
<1>5. Tokens' = Tokens /\ TokenOwner' = TokenOwner
  BY DEF Tokens, TokenOwner
<1> QED
  BY <1>2, <1>3, <1>4, <1>5 DEF Token!vars, Balances, Allowed, TokenOwner

LEMMA InitToken ==
    ASSUME IsFiniteSet(Clients), Init
    PROVE  Token!Init
<1>1. \A k \in Keys : world[k] = Absent
  BY DEF Init, Ledger!Init
<1>2. \A c \in Clients : Balance(c) = 0 /\ \A s \in Clients : ~HasAllowance(c, s)
  BY <1>1, KeysOfTables DEF Balance, HasWallet, HasAllowance
<1>3. Balances = [c \in Clients |-> 0]
  BY <1>2 DEF Balances
<1>4. TotalSupply = 0
  BY <1>3, SumOfZeros, SupplyOfBalances
<1>5. Tokens = {}
  BY <1>1, KeysOfTables DEF Tokens
<1>6. Allowed = [o \in Clients |-> [s \in Clients |-> 0]]
  BY <1>2 DEF Allowed
<1> QED
  BY <1>3, <1>4, <1>5, <1>6 DEF Token!Init, Balances, Allowed

-----------------------------------------------------------------------------
\* The sum of the balances changes only by a Mint, Burn or BurnFrom of the
\* token's owner, whatever transfers are in flight: _transfer writes two
\* wallets computed at endorsement, and no tokens are made or lost when it
\* commits.
THEOREM OwnerMovesSupply ==
    ASSUME IsFiniteSet(Clients)
    PROVE  Spec => SupplyMovesWithOwner
<1> DEFINE Moves == TotalSupply' # TotalSupply =>
      \E c \in Clients : Commits(c, {"Mint", "Burn", "BurnFrom"}) /\ OwnsToken(c)
<1>1. ASSUME TypeOK, TypeOK', EndorsedStillValid, [Next]_vars, TotalSupply' # TotalSupply
      PROVE  \E c \in Clients : Commits(c, {"Mint", "Burn", "BurnFrom"}) /\ OwnsToken(c)
  <2>1. world' # world
    BY <1>1, SameWorld
  <2>2. PICK t \in Txs : Ledger!CommitValid(t)
    BY <1>1, <2>1, OnlyCommitsWrite
  <2>3. proposal[t].call.fn \in {"Mint", "Burn", "BurnFrom"} /\ TokenWasRead(t)
    BY <1>1, <2>2, CommitStep DEF Held
  <2>4. PICK c \in Clients : c = proposal[t].call.caller
    BY <1>1, <2>2 DEF TypeOK, Calls, Ledger!CommitValid
  <2>5. Commits(c, {"Mint", "Burn", "BurnFrom"})
    BY <1>1, <2>1, <2>2, <2>3, <2>4, CommitOf
  <2>6. OwnsToken(c)
    BY <2>3, <2>4 DEF TokenWasRead, OwnsToken
  <2> QED
    BY <2>5, <2>6
<1>2. TypeOK /\ TypeOK' /\ EndorsedStillValid /\ [Next]_vars => [Moves]_vars
  BY <1>1
<1> QED
  BY <1>2, TypeCorrect, CallsStayValid, PTL DEF Spec, SupplyMovesWithOwner

\* Optimistic execution is indistinguishable from atomic calls: with one name
\* for a token, every step of the contract on the ledger is a step of the
\* abstract token or none (Initialize to BurnFrom of FabricERC20Contract).
THEOREM ContractIsToken ==
    ASSUME IsFiniteSet(Clients), NEW name, Names = {name}
    PROVE  Spec => ImplementsToken
<1>1. Init => Token!Init
  BY InitToken
<1>2. ASSUME TypeOK, TypeOK', EndorsedStillValid, [Next]_vars
      PROVE  [Token!Next]_(Token!vars)
  <2>1. CASE world' = world
    BY <2>1, SameWorld
  <2>2. CASE world' # world
    <3>1. PICK t \in Txs : Ledger!CommitValid(t)
      BY <1>2, <2>2, OnlyCommitsWrite
    <3> QED
      BY <1>2, <3>1, CommitStep DEF Held, Single
  <2> QED
    BY <2>1, <2>2
<1>3. TypeOK /\ TypeOK' /\ EndorsedStillValid /\ [Next]_vars => [Token!Next]_(Token!vars)
  BY <1>2
<1> QED
  BY <1>1, <1>3, TypeCorrect, CallsStayValid, PTL DEF Spec, ImplementsToken, Token!Spec

=============================================================================
