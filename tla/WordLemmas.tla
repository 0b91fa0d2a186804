----------------------------- MODULE WordLemmas -----------------------------
(* Arithmetic modulo w, one turn around, without the modulo. *)
EXTENDS Integers, TLAPS

\* What an integer less than one turn away from 0 .. w - 1 wraps around to.
LEMMA WrapOnce ==
  ASSUME NEW w \in Nat \ {0}, NEW x \in Int, -w <= x, x < 2 * w
  PROVE  /\ x % w \in 0 .. w - 1
         /\ x < 0 => x % w = x + w
         /\ 0 <= x /\ x < w => x % w = x
         /\ w <= x => x % w = x - w
<1> DEFINE q == x \div w
           r == x % w
<1>1. q \in Int /\ r \in 0 .. w - 1 /\ x = w * q + r
  OBVIOUS
<1>2. CASE q < -1
  <2>1. w * q <= w * (-2)
    BY <1>1, <1>2
  <2> QED BY <1>1, <2>1
<1>3. CASE q > 1
  <2>1. w * q >= w * 2
    BY <1>1, <1>3
  <2> QED BY <1>1, <2>1
<1>4. CASE q \in {-1, 0, 1}
  BY <1>1, <1>4
<1> QED BY <1>1, <1>2, <1>3, <1>4

\* The sum of two members of 0 .. w - 1, and the way from one to the other.
LEMMA SumOnce ==
  ASSUME NEW w \in Nat \ {0}, NEW a \in 0 .. w - 1, NEW b \in 0 .. w
  PROVE  /\ (a + b) % w \in 0 .. w - 1
         /\ a + b < w => (a + b) % w = a + b
         /\ a + b >= w => (a + b) % w = a + b - w
<1> DEFINE x == a + b
<1>1. x \in Int /\ 0 <= x /\ -w <= x /\ x < 2 * w
  OBVIOUS
<1> HIDE DEF x
<1>2. /\ x % w \in 0 .. w - 1
      /\ x < w => x % w = x
      /\ x >= w => x % w = x - w
  BY <1>1, WrapOnce
<1> QED BY <1>2 DEF x

LEMMA DifferenceOnce ==
  ASSUME NEW w \in Nat \ {0}, NEW a \in 0 .. w - 1, NEW b \in 0 .. w - 1
  PROVE  /\ (a - b) % w \in 0 .. w - 1
         /\ a < b => (a - b) % w = a - b + w
         /\ b <= a => (a - b) % w = a - b
<1> DEFINE x == a - b
<1>1. x \in Int /\ -w <= x /\ x < w /\ x < 2 * w
  OBVIOUS
<1> HIDE DEF x
<1>2. /\ x % w \in 0 .. w - 1
      /\ x < 0 => x % w = x + w
      /\ 0 <= x => x % w = x
  BY <1>1, WrapOnce
<1>3. (a < b => x < 0) /\ (b <= a => 0 <= x)
  BY DEF x
<1> QED BY <1>2, <1>3 DEF x
=============================================================================
