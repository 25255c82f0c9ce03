------------------------------- MODULE SafeMath -------------------------------
(***************************************************************************)
(* add and sub of src/shared/math.ts, on numbers with the rounding of a    *)
(* JavaScript number and a shorter significand.  An account is credited    *)
(* and debited by amounts of any size; history variable exact is its       *)
(* balance in integer arithmetic.  ERC20Contract relies on the outcome:    *)
(* a sum is either exact or refused.                                       *)
(***************************************************************************)
EXTENDS Integers, FiniteSetsExt

CONSTANTS
    Precision,      \* bits of the significand (53 in JavaScript)
    MaxExponent     \* bound: amounts and balances below 2^(Precision + MaxExponent)

ASSUME SafeMathAssumption == Precision \in Nat \ {0} /\ MaxExponent \in Nat

VARIABLES balance, exact

vars == <<balance, exact>>

\* Powers of two.
Power[n \in Nat] == IF n = 0 THEN 1 ELSE 2 * Power[n - 1]

Limit == Power[Precision + MaxExponent]

Magnitude(n) == IF n < 0 THEN -n ELSE n

\* The distance between neighbouring numbers around n.
Spacing(n) ==
    Power[Min({e \in 0..(MaxExponent + 1) : Magnitude(n) <= Power[Precision + e]})]

\* The nearest number; of two that are as near, the one with an even significand.
Round(n) ==
    LET s == Spacing(n)
        q == Magnitude(n) \div s
        r == Magnitude(n) % s
        up == 2 * r > s \/ (2 * r = s /\ q % 2 = 1)
        rounded == (IF up THEN q + 1 ELSE q) * s
    IN  IF n < 0 THEN -rounded ELSE rounded

Numbers == {n \in -Limit..Limit : Round(n) = n}

Plus(a, b) == Round(a + b)
Minus(a, b) == Round(a - b)

\* Mutant of AddThrows: only one operand is recovered from the sum.
AddThrowsOneSided(a, b) == a # Minus(Plus(a, b), b)

\* Mutant of AddThrows: every sum above the safe integers is refused.
AddThrowsUnsafe(a, b) == Magnitude(Plus(a, b)) > Power[Precision]

\* The result is refused unless both operands are recovered from it.
AddThrows(a, b) == LET c == Plus(a, b) IN a # Minus(c, b) \/ b # Minus(c, a)
SubThrows(a, b) == LET c == Minus(a, b) IN a # Plus(c, b) \/ b # Minus(a, c)

Init == balance = 0 /\ exact = 0

Add(v) ==
    /\ ~ AddThrows(balance, v)
    /\ balance' = Plus(balance, v)
    /\ exact' = exact + v

Sub(v) ==
    /\ ~ SubThrows(balance, v)
    /\ balance' = Minus(balance, v)
    /\ exact' = exact - v

Next == \E v \in Numbers :
    \/ Magnitude(balance + v) <= Limit /\ Add(v)
    \/ Magnitude(balance - v) <= Limit /\ Sub(v)

Spec == Init /\ [][Next]_vars

-----------------------------------------------------------------------------
\* Properties.

\* After any number of credits and debits the balance is the exact one: no
\* unit is lost or created by rounding, also where numbers are sparse.
BalanceExact == balance \in Numbers /\ balance = exact

\* An operation is refused only when its exact result is not a number.
RefusedOnlyIfInexact ==
    \A v \in Numbers :
        /\ AddThrows(balance, v) => balance + v # Plus(balance, v)
        /\ SubThrows(balance, v) => balance - v # Minus(balance, v)
=============================================================================
