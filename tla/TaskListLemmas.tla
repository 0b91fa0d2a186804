--------------------------- MODULE TaskListLemmas ---------------------------
(***************************************************************************)
(* Facts about the words and the lists of TaskList, for every Wrap and     *)
(* every number of tasks: what the other proof modules cite.               *)
(***************************************************************************)
EXTENDS TaskList, SequenceTheorems, WellFoundedInduction, WordLemmas, TLAPS

\* Words are integers, and every scheduler has at least one of them.
LEMMA WordsAreIntegers == Wrap \in Nat /\ Wrap > 0 /\ \A a \in Rank : a \in Int /\ 0 <= a /\ a < Wrap
BY WrapAssumption DEF Rank

\* A word is what an integer less than one turn away wraps around to.
LEMMA WordOf ==
  ASSUME NEW x \in Int, -Wrap <= x, x < 2 * Wrap
  PROVE  /\ x % Wrap \in Rank
         /\ x < 0 => x % Wrap = x + Wrap
         /\ 0 <= x /\ x < Wrap => x % Wrap = x
         /\ Wrap <= x => x % Wrap = x - Wrap
BY WrapAssumption, WrapOnce DEF Rank

\* The sum and the difference of two words.
LEMMA PlusWord ==
  ASSUME NEW a \in Rank, NEW b \in Rank
  PROVE  /\ Plus(a, b) \in Rank
         /\ a + b < Wrap => Plus(a, b) = a + b
         /\ a + b >= Wrap => Plus(a, b) = a + b - Wrap
<1>1. Wrap \in Nat \ {0} /\ a \in 0 .. Wrap - 1 /\ b \in 0 .. Wrap
  BY WrapAssumption DEF Rank
<1> QED BY <1>1, SumOnce DEF Plus, Rank

LEMMA MinusWord ==
  ASSUME NEW a \in Rank, NEW b \in Rank
  PROVE  /\ Minus(a, b) \in Rank
         /\ a < b => Minus(a, b) = a - b + Wrap
         /\ b <= a => Minus(a, b) = a - b
BY WrapAssumption, DifferenceOnce DEF Minus, Rank

\* A word is no distance from itself.
LEMMA NoDistance ==
  ASSUME NEW a \in Rank
  PROVE  Minus(a, a) = 0
BY MinusWord, WordsAreIntegers

\* Of two words counted from a third, the nearer one is on the way to the other.
LEMMA DistanceBetween ==
  ASSUME NEW c \in Rank, NEW a \in Rank, NEW b \in Rank, Minus(a, c) <= Minus(b, c)
  PROVE  Minus(b, a) = Minus(b, c) - Minus(a, c)
<1>1. /\ a < c => Minus(a, c) = a - c + Wrap
      /\ c <= a => Minus(a, c) = a - c
      /\ b < c => Minus(b, c) = b - c + Wrap
      /\ c <= b => Minus(b, c) = b - c
      /\ b < a => Minus(b, a) = b - a + Wrap
      /\ a <= b => Minus(b, a) = b - a
  BY MinusWord
<1> QED BY <1>1, WordsAreIntegers

\* A word is where its distance leads to, and is as far as that.
LEMMA PlusDistance ==
  ASSUME NEW c \in Rank, NEW a \in Rank
  PROVE  Plus(c, Minus(a, c)) = a /\ Minus(Plus(c, a), c) = a
<1>1. /\ Minus(a, c) \in Rank /\ Plus(c, a) \in Rank
      /\ a < c => Minus(a, c) = a - c + Wrap
      /\ c <= a => Minus(a, c) = a - c
      /\ c + a < Wrap => Plus(c, a) = c + a
      /\ c + a >= Wrap => Plus(c, a) = c + a - Wrap
  BY MinusWord, PlusWord
<1>2. Plus(c, Minus(a, c)) = a
  <2> DEFINE d == Minus(a, c)
  <2>1. /\ c + d < Wrap => Plus(c, d) = c + d
        /\ c + d >= Wrap => Plus(c, d) = c + d - Wrap
    BY <1>1, PlusWord
  <2> QED BY <1>1, <2>1, WordsAreIntegers
<1>3. Minus(Plus(c, a), c) = a
  <2> DEFINE s == Plus(c, a)
  <2>1. /\ s < c => Minus(s, c) = s - c + Wrap
        /\ c <= s => Minus(s, c) = s - c
    BY <1>1, MinusWord
  <2> HIDE DEF s
  <2>2. /\ s \in Rank
        /\ c + a < Wrap => s = c + a
        /\ c + a >= Wrap => s = c + a - Wrap
    BY <1>1 DEF s
  <2>3. Minus(s, c) = a
    BY <2>1, <2>2, WordsAreIntegers
  <2> QED BY <2>3 DEF s
<1> QED BY <1>2, <1>3

\* An instant w ticks ahead of c is e + w ticks away from the one e ticks behind
\* c, as long as that is less than a turn.
LEMMA WordDistance ==
  ASSUME NEW c \in Rank, NEW e \in Rank, NEW w \in Int, 0 <= e + w, e + w < Wrap,
         NEW past, past = Minus(c, e), NEW then, then = (c + w) % Wrap
  PROVE  /\ past \in Rank /\ then \in Rank
         /\ Minus(then, past) = e + w
<1> DEFINE x == c + w
<1>1. past \in Rank /\ (c < e => past = c - e + Wrap) /\ (e <= c => past = c - e)
  BY MinusWord
<1>2. x \in Int /\ -Wrap <= x /\ x < 2 * Wrap
  BY WordsAreIntegers
<1>3. then = x % Wrap
  OBVIOUS
<1> HIDE DEF x
<1>4. /\ then \in Rank
      /\ x < 0 => then = x + Wrap
      /\ 0 <= x /\ x < Wrap => then = x
      /\ Wrap <= x => then = x - Wrap
  BY <1>2, <1>3, WordOf
<1>5. /\ then < past => Minus(then, past) = then - past + Wrap
      /\ past <= then => Minus(then, past) = then - past
  BY <1>1, <1>4, MinusWord
<1>6. CASE c < e
  BY <1>1, <1>4, <1>5, <1>6, WordsAreIntegers DEF x
<1>7. CASE e <= c
  BY <1>1, <1>4, <1>5, <1>7, WordsAreIntegers DEF x
<1> QED BY <1>1, <1>4, <1>6, <1>7, WordsAreIntegers

\* The readiness test of PeriodicScheduler::run compares the distance of the
\* clock with that of the task: it takes an instant for reached if, and only if,
\* it is not in the future.
LEMMA ReadyIfReached ==
  ASSUME NEW c \in Rank, NEW e \in Rank, NEW w \in Int, 0 <= e + w, e + w < Wrap,
         NEW past, past = Minus(c, e), NEW then, then = (c + w) % Wrap
  PROVE  Minus(c, past) >= Minus(then, past) <=> w <= 0
<1>1. Minus(then, past) = e + w
  BY WordDistance
<1>2. c = (c + 0) % Wrap
  BY WordOf, WordsAreIntegers
<1>3. 0 <= e + 0 /\ e + 0 < Wrap /\ 0 \in Int
  BY WordsAreIntegers
<1>4. Minus(c, past) = e + 0
  BY <1>2, <1>3, WordDistance
<1> QED BY <1>1, <1>4, WordsAreIntegers

\* Going on by one tick, an instant keeps its word.
LEMMA TickKeepsWord ==
  ASSUME NEW c \in Rank, NEW w \in Int, -Wrap < w, w < Wrap
  PROVE  (Plus(c, 1) + (w - 1)) % Wrap = (c + w) % Wrap
<1> DEFINE x == c + w
<1>1. x \in Int /\ -Wrap <= x /\ x < 2 * Wrap
  BY WordsAreIntegers
<1>2. CASE c + 1 < Wrap
  <2>1. Plus(c, 1) = c + 1
    BY <1>2, PlusWord, WordsAreIntegers DEF Rank
  <2>2. Plus(c, 1) + (w - 1) = c + w
    BY <2>1, WordsAreIntegers
  <2> QED BY <2>2
<1>3. CASE c + 1 = Wrap
  <2> DEFINE y == x - Wrap
  <2>1. Plus(c, 1) = 0
    BY <1>3, PlusWord, WordsAreIntegers, WordOf DEF Plus
  <2>2. Plus(c, 1) + (w - 1) = y
    BY <1>3, <2>1, WordsAreIntegers
  <2>3. y \in Int /\ -Wrap <= y /\ y < Wrap /\ y < 2 * Wrap /\ 0 <= x
    BY <1>1, <1>3, WordsAreIntegers
  <2> HIDE DEF x
  <2>4. /\ x < Wrap => x % Wrap = x
        /\ Wrap <= x => x % Wrap = x - Wrap
    BY <1>1, <2>3, WordOf
  <2> HIDE DEF y
  <2>5. /\ y < 0 => y % Wrap = y + Wrap
        /\ 0 <= y => y % Wrap = y
    BY <2>3, WordOf
  <2>6. y % Wrap = x % Wrap
    BY <1>1, <2>4, <2>5, WordsAreIntegers DEF y
  <2> QED BY <2>2, <2>6 DEF x
<1> QED BY <1>2, <1>3, WordsAreIntegers

-----------------------------------------------------------------------------
(* Sequences *)

LEMMA InsertAtElements ==
  ASSUME NEW S, NEW s \in Seq(S), NEW i \in 1 .. Len(s) + 1, NEW e \in S
  PROVE  /\ InsertAt(s, i, e) \in Seq(S)
         /\ Len(InsertAt(s, i, e)) = Len(s) + 1
         /\ \A j \in 1 .. i - 1 : InsertAt(s, i, e)[j] = s[j]
         /\ InsertAt(s, i, e)[i] = e
         /\ \A j \in i + 1 .. Len(s) + 1 : InsertAt(s, i, e)[j] = s[j - 1]
<1> DEFINE a == SubSeq(s, 1, i - 1)
           b == SubSeq(s, i, Len(s))
           c == a \o <<e>>
<1>1. Len(s) \in Nat /\ \A j \in 1 .. Len(s) : s[j] \in S
  BY LenProperties, ElementOfSeq
<1>2. a \in Seq(S) /\ Len(a) = i - 1 /\ \A j \in 1 .. i - 1 : a[j] = s[j]
  BY <1>1, SubSeqProperties
<1>3. b \in Seq(S) /\ Len(b) = Len(s) - i + 1
      /\ \A j \in 1 .. Len(s) - i + 1 : b[j] = s[i + j - 1]
  BY <1>1, SubSeqProperties
<1>4. InsertAt(s, i, e) = c \o b
  BY DEF InsertAt
<1> HIDE DEF a, b
<1>5. c \in Seq(S) /\ Len(c) = i /\ (\A j \in 1 .. i - 1 : c[j] = s[j]) /\ c[i] = e
  <2>1. <<e>> \in Seq(S) /\ Len(<<e>>) = 1 /\ <<e>>[1] = e
    OBVIOUS
  <2>2. c \in Seq(S) /\ Len(c) = Len(a) + 1
        /\ \A j \in 1 .. Len(a) + 1 : c[j] = IF j <= Len(a) THEN a[j] ELSE <<e>>[j - Len(a)]
    BY <1>2, <2>1, ConcatProperties
  <2> QED BY <1>1, <1>2, <2>1, <2>2
<1> HIDE DEF c
<1>6. c \o b \in Seq(S) /\ Len(c \o b) = Len(c) + Len(b)
      /\ \A j \in 1 .. Len(c) + Len(b) :
           (c \o b)[j] = IF j <= Len(c) THEN c[j] ELSE b[j - Len(c)]
  BY <1>3, <1>5, ConcatProperties
<1>7. \A j \in i + 1 .. Len(s) + 1 : (c \o b)[j] = s[j - 1]
  <2> TAKE j \in i + 1 .. Len(s) + 1
  <2>1. (c \o b)[j] = b[j - i] /\ j - i \in 1 .. Len(s) - i + 1
    BY <1>1, <1>3, <1>5, <1>6
  <2>2. b[j - i] = s[i + (j - i) - 1] /\ i + (j - i) - 1 = j - 1
    BY <1>1, <1>3, <2>1
  <2> QED BY <2>1, <2>2
<1>8. Len(c \o b) = Len(s) + 1 /\ (\A j \in 1 .. i - 1 : (c \o b)[j] = s[j]) /\ (c \o b)[i] = e
  BY <1>1, <1>3, <1>5, <1>6
<1> QED BY <1>4, <1>6, <1>7, <1>8

LEMMA RemoveAtElements ==
  ASSUME NEW S, NEW s \in Seq(S), NEW i \in 1 .. Len(s)
  PROVE  /\ RemoveAt(s, i) \in Seq(S)
         /\ Len(RemoveAt(s, i)) = Len(s) - 1
         /\ \A j \in 1 .. i - 1 : RemoveAt(s, i)[j] = s[j]
         /\ \A j \in i .. Len(s) - 1 : RemoveAt(s, i)[j] = s[j + 1]
<1> DEFINE a == SubSeq(s, 1, i - 1)
           b == SubSeq(s, i + 1, Len(s))
<1>1. Len(s) \in Nat /\ \A j \in 1 .. Len(s) : s[j] \in S
  BY LenProperties, ElementOfSeq
<1>2. a \in Seq(S) /\ Len(a) = i - 1 /\ \A j \in 1 .. i - 1 : a[j] = s[j]
  BY <1>1, SubSeqProperties
<1>3. b \in Seq(S) /\ Len(b) = Len(s) - i
      /\ \A j \in 1 .. Len(s) - i : b[j] = s[i + 1 + j - 1]
  BY <1>1, SubSeqProperties
<1>4. RemoveAt(s, i) = a \o b
  BY DEF RemoveAt
<1> HIDE DEF a, b
<1>5. a \o b \in Seq(S) /\ Len(a \o b) = Len(a) + Len(b)
      /\ \A j \in 1 .. Len(a) + Len(b) :
           (a \o b)[j] = IF j <= Len(a) THEN a[j] ELSE b[j - Len(a)]
  BY <1>2, <1>3, ConcatProperties
<1>6. \A j \in i .. Len(s) - 1 : (a \o b)[j] = s[j + 1]
  <2> TAKE j \in i .. Len(s) - 1
  <2>1. (a \o b)[j] = b[j - (i - 1)] /\ j - (i - 1) \in 1 .. Len(s) - i
    BY <1>1, <1>2, <1>3, <1>5
  <2>2. b[j - (i - 1)] = s[i + 1 + (j - (i - 1)) - 1] /\ i + 1 + (j - (i - 1)) - 1 = j + 1
    BY <1>1, <1>3, <2>1
  <2> QED BY <2>1, <2>2
<1>7. Len(a \o b) = Len(s) - 1 /\ \A j \in 1 .. i - 1 : (a \o b)[j] = s[j]
  BY <1>1, <1>2, <1>3, <1>5
<1> QED BY <1>4, <1>5, <1>6, <1>7

\* A set of naturals that is not empty has a least and, below a bound, a
\* greatest element.
LEMMA LeastElement ==
  ASSUME NEW T, T \subseteq Nat, T # {}
  PROVE  \E x \in T : \A y \in T : x <= y
<1>1. PICK x \in T : \A y \in T : ~(<<y, x>> \in OpToRel(<, Nat))
  BY NatLessThanWellFounded, WFMin
<1>2. ASSUME NEW y \in T PROVE x <= y
  <2>1. CASE y < x
    <3>1. <<y, x>> \in Nat \X Nat
      OBVIOUS
    <3>2. <<y, x>> \in OpToRel(<, Nat)
      BY <2>1, <3>1 DEF OpToRel
    <3> QED BY <1>1, <3>2
  <2> QED BY <2>1
<1> QED BY <1>2

LEMMA GreatestElement ==
  ASSUME NEW m \in Nat, NEW T, T \subseteq 0 .. m, T # {}
  PROVE  \E x \in T : \A y \in T : y <= x
<1> DEFINE U == {u \in 0 .. m : m - u \in T}
<1>1. U \subseteq Nat /\ U # {}
  <2>1. PICK y \in T : TRUE
    OBVIOUS
  <2>2. m - y \in 0 .. m /\ m - (m - y) = y
    OBVIOUS
  <2>3. m - y \in U
    BY <2>2
  <2>4. U \subseteq Nat
    OBVIOUS
  <2> QED BY <2>3, <2>4
<1>2. PICK u \in U : \A v \in U : u <= v
  BY <1>1, LeastElement
<1>3. m - u \in T
  OBVIOUS
<1>4. ASSUME NEW y \in T PROVE y <= m - u
  <2>1. m - y \in 0 .. m /\ m - (m - y) = y
    OBVIOUS
  <2>2. u <= m - y
    BY <1>2, <2>1
  <2> QED BY <2>2
<1> QED BY <1>3, <1>4

-----------------------------------------------------------------------------
(* Lists *)

\* A list links nodes, none of them twice.
IsList(list) ==
  /\ list \in Seq(Node)
  /\ \A i, j \in 1 .. Len(list) : list[i] = list[j] => i = j

LEMMA PositionOf ==
  ASSUME NEW list, NEW n, IsLinked(list, n)
  PROVE  Position(list, n) \in 1 .. Len(list) /\ list[Position(list, n)] = n
BY DEF IsLinked, Contains, Position

\* Node::remove takes the node out and leaves the others linked.
LEMMA UnlinkList ==
  ASSUME NEW list, IsList(list), NEW n \in Node
  PROVE  /\ IsList(Unlink(list, n))
         /\ ~IsLinked(Unlink(list, n), n)
         /\ \A m \in Node : m # n => (IsLinked(Unlink(list, n), m) <=> IsLinked(list, m))
         /\ Len(Unlink(list, n)) = IF IsLinked(list, n) THEN Len(list) - 1 ELSE Len(list)
<1>1. CASE ~IsLinked(list, n)
  BY <1>1 DEF Unlink
<1>2. CASE IsLinked(list, n)
  <2> DEFINE p == Position(list, n)
             new == Unlink(list, n)
  <2>1. p \in 1 .. Len(list) /\ list[p] = n
    BY <1>2, PositionOf
  <2>2. Len(list) \in Nat /\ list \in Seq(Node)
    BY LenProperties DEF IsList
  <2>3. new = RemoveAt(list, p)
    BY <1>2 DEF Unlink
  <2> HIDE DEF p, new
  <2>4. /\ new \in Seq(Node)
        /\ Len(new) = Len(list) - 1
        /\ \A j \in 1 .. p - 1 : new[j] = list[j]
        /\ \A j \in p .. Len(list) - 1 : new[j] = list[j + 1]
    BY <2>1, <2>2, <2>3, RemoveAtElements
  <2> DEFINE Old(j) == IF j < p THEN j ELSE j + 1
  <2>5. ASSUME NEW j \in 1 .. Len(new)
        PROVE  Old(j) \in 1 .. Len(list) /\ Old(j) # p /\ new[j] = list[Old(j)]
    <3>1. CASE j < p
      BY <2>1, <2>2, <2>4, <3>1
    <3>2. CASE j >= p
      BY <2>1, <2>2, <2>4, <3>2
    <3> QED BY <2>1, <2>2, <2>4, <3>1, <3>2
  <2>6. IsList(new)
    <3> SUFFICES ASSUME NEW j \in 1 .. Len(new), NEW k \in 1 .. Len(new), new[j] = new[k]
                 PROVE  j = k
      BY <2>4 DEF IsList
    <3>1. Old(j) = Old(k)
      BY <2>5 DEF IsList
    <3> QED BY <2>1, <2>2, <2>4, <3>1
  <2>7. ~IsLinked(new, n)
    <3> SUFFICES ASSUME NEW j \in 1 .. Len(new), new[j] = n PROVE FALSE
      BY DEF IsLinked, Contains
    <3>1. Old(j) \in 1 .. Len(list) /\ Old(j) # p /\ list[Old(j)] = list[p]
      BY <2>1, <2>5
    <3> QED BY <2>1, <3>1 DEF IsList
  <2> HIDE DEF Old
  <2>8. ASSUME NEW m \in Node, m # n
        PROVE  IsLinked(new, m) <=> IsLinked(list, m)
    <3>1. ASSUME IsLinked(list, m) PROVE IsLinked(new, m)
      <4>1. PICK k \in 1 .. Len(list) : list[k] = m
        BY <3>1 DEF IsLinked, Contains
      <4>2. k # p
        BY <2>1, <2>8, <4>1
      <4>3. CASE k < p
        BY <2>1, <2>2, <2>4, <4>1, <4>3 DEF IsLinked, Contains
      <4>4. CASE k > p
        <5>1. k - 1 \in p .. Len(list) - 1 /\ (k - 1) + 1 = k
          BY <2>1, <2>2, <4>4
        <5>2. new[k - 1] = m /\ k - 1 \in 1 .. Len(new)
          BY <2>1, <2>4, <4>1, <5>1
        <5> QED BY <5>2 DEF IsLinked, Contains
      <4> QED BY <2>1, <2>2, <4>2, <4>3, <4>4
    <3>2. ASSUME IsLinked(new, m) PROVE IsLinked(list, m)
      BY <2>5, <3>2 DEF IsLinked, Contains
    <3> QED BY <3>1, <3>2
  <2> QED BY <1>2, <2>4, <2>6, <2>7, <2>8 DEF new
<1> QED BY <1>1, <1>2

\* Linking a node that is in no list adds it and nothing else.
LEMMA InsertList ==
  ASSUME NEW list, IsList(list), NEW n \in Node, ~IsLinked(list, n),
         NEW i \in 1 .. Len(list) + 1
  PROVE  /\ IsList(InsertAt(list, i, n))
         /\ \A m \in Node : IsLinked(InsertAt(list, i, n), m) <=> m = n \/ IsLinked(list, m)
<1> DEFINE new == InsertAt(list, i, n)
<1>1. list \in Seq(Node) /\ Len(list) \in Nat
  BY LenProperties DEF IsList
<1>2. /\ new \in Seq(Node)
      /\ Len(new) = Len(list) + 1
      /\ \A j \in 1 .. i - 1 : new[j] = list[j]
      /\ new[i] = n
      /\ \A j \in i + 1 .. Len(list) + 1 : new[j] = list[j - 1]
  BY <1>1, InsertAtElements
<1> HIDE DEF new
<1> DEFINE Old(j) == IF j < i THEN j ELSE j - 1
<1>3. ASSUME NEW j \in 1 .. Len(new), j # i
      PROVE  Old(j) \in 1 .. Len(list) /\ new[j] = list[Old(j)]
  <2>1. CASE j < i
    BY <1>1, <1>2, <1>3, <2>1
  <2>2. CASE j > i
    BY <1>1, <1>2, <1>3, <2>2
  <2> QED BY <1>1, <1>2, <1>3, <2>1, <2>2
<1>4. \A j \in 1 .. Len(new) : new[j] = n => j = i
  BY <1>3 DEF IsLinked, Contains
<1>5. IsList(new)
  <2> SUFFICES ASSUME NEW j \in 1 .. Len(new), NEW k \in 1 .. Len(new), new[j] = new[k]
               PROVE  j = k
    BY <1>2 DEF IsList
  <2>1. CASE j = i \/ k = i
    BY <1>2, <1>4, <2>1
  <2>2. CASE j # i /\ k # i
    <3>1. Old(j) = Old(k)
      BY <1>3, <2>2 DEF IsList
    <3> QED BY <1>1, <1>2, <2>2, <3>1
  <2> QED BY <2>1, <2>2
<1>6. ASSUME NEW m \in Node
      PROVE  IsLinked(new, m) <=> m = n \/ IsLinked(list, m)
  <2>1. ASSUME IsLinked(list, m) PROVE IsLinked(new, m)
    <3>1. PICK k \in 1 .. Len(list) : list[k] = m
      BY <2>1 DEF IsLinked, Contains
    <3>2. CASE k < i
      BY <1>1, <1>2, <3>1, <3>2 DEF IsLinked, Contains
    <3>3. CASE k >= i
      <4>1. k + 1 \in i + 1 .. Len(list) + 1 /\ (k + 1) - 1 = k
        BY <1>1, <3>3
      <4>2. new[k + 1] = list[(k + 1) - 1]
        BY <1>2, <4>1
      <4>3. new[k + 1] = m /\ k + 1 \in 1 .. Len(new)
        BY <1>1, <1>2, <3>1, <4>1, <4>2
      <4> QED BY <4>3 DEF IsLinked, Contains
    <3> QED BY <3>2, <3>3, <1>1
  <2>2. IsLinked(new, n)
    BY <1>1, <1>2 DEF IsLinked, Contains
  <2>3. ASSUME IsLinked(new, m), m # n PROVE IsLinked(list, m)
    BY <1>2, <1>3, <2>3 DEF IsLinked, Contains
  <2> QED BY <2>1, <2>2, <2>3
<1> QED BY <1>5, <1>6 DEF new

LEMMA PushFrontList ==
  ASSUME NEW list, IsList(list), NEW n \in Node
  PROVE  /\ IsList(PushFront(list, n))
         /\ \A m \in Node : IsLinked(PushFront(list, n), m) <=> m = n \/ IsLinked(list, m)
<1> DEFINE rest == Unlink(list, n)
<1>1. IsList(rest) /\ ~IsLinked(rest, n)
      /\ \A m \in Node : m # n => (IsLinked(rest, m) <=> IsLinked(list, m))
  BY UnlinkList
<1>2. PushFront(list, n) = InsertAt(rest, 1, n)
  BY DEF PushFront
<1> HIDE DEF rest
<1>3. 1 \in 1 .. Len(rest) + 1
  BY <1>1, LenProperties DEF IsList
<1> QED BY <1>1, <1>2, <1>3, InsertList

LEMMA PushBackList ==
  ASSUME NEW list, IsList(list), NEW n \in Node
  PROVE  /\ IsList(PushBack(list, n))
         /\ \A m \in Node : IsLinked(PushBack(list, n), m) <=> m = n \/ IsLinked(list, m)
<1> DEFINE rest == Unlink(list, n)
           i == Len(rest) + 1
<1>1. IsList(rest) /\ ~IsLinked(rest, n)
      /\ \A m \in Node : m # n => (IsLinked(rest, m) <=> IsLinked(list, m))
  BY UnlinkList
<1>2. PushBack(list, n) = Append(rest, n)
  BY DEF PushBack
<1> HIDE DEF rest
<1>3. rest \in Seq(Node) /\ Len(rest) \in Nat
  BY <1>1, LenProperties DEF IsList
<1>4. Append(rest, n) = InsertAt(rest, i, n)
  <2>1. /\ InsertAt(rest, i, n) \in Seq(Node)
        /\ Len(InsertAt(rest, i, n)) = Len(rest) + 1
        /\ \A j \in 1 .. i - 1 : InsertAt(rest, i, n)[j] = rest[j]
        /\ InsertAt(rest, i, n)[i] = n
    <3>1. i \in 1 .. Len(rest) + 1
      BY <1>3
    <3> HIDE DEF i
    <3> QED BY <1>3, <3>1, InsertAtElements
  <2>2. /\ Append(rest, n) \in Seq(Node)
        /\ Len(Append(rest, n)) = Len(rest) + 1
        /\ \A j \in 1 .. i - 1 : Append(rest, n)[j] = rest[j]
        /\ Append(rest, n)[i] = n
    BY <1>3
  <2> QED BY <1>3, <2>1, <2>2, SeqEqual
<1> QED BY <1>1, <1>2, <1>3, <1>4, InsertList

\* addTask links the new task behind the cursor.
LEMMA InsertAfterList ==
  ASSUME NEW list, IsList(list), NEW p \in Node, IsLinked(list, p),
         NEW n \in Node, ~IsLinked(list, n)
  PROVE  /\ IsList(InsertAfter(list, p, n))
         /\ \A m \in Node : IsLinked(InsertAfter(list, p, n), m) <=> m = n \/ IsLinked(list, m)
<1>1. Position(list, p) + 1 \in 1 .. Len(list) + 1
  BY PositionOf, LenProperties DEF IsList
<1> QED BY <1>1, InsertList DEF InsertAfter

\* Both walks of updateRank stop inside the list.
LEMMA LeftStopBounds ==
  ASSUME NEW list, IsList(list), NEW rank \in [Node -> Rank], NEW n \in Node,
         IsLinked(list, n), MovesLeft(list, rank, n)
  PROVE  LET k == LeftStop(list, rank, n)
         IN  /\ k \in 0 .. Position(list, n) - 2
             /\ k = 0 \/ rank[list[k]] <= rank[n]
             /\ \A j \in k + 1 .. Position(list, n) - 2 : rank[n] < rank[list[j]]
<1> DEFINE i == Position(list, n)
           T == {k \in 0 .. i - 2 : k = 0 \/ rank[list[k]] <= rank[n]}
           Stops(k) == /\ k = 0 \/ rank[list[k]] <= rank[n]
                       /\ \A j \in k + 1 .. i - 2 : rank[n] < rank[list[j]]
<1>1. i \in 1 .. Len(list) /\ i > 1 /\ Len(list) \in Nat /\ \A j \in 1 .. Len(list) : list[j] \in Node
  BY PositionOf, LenProperties, ElementOfSeq DEF IsList, MovesLeft
<1> HIDE DEF i
<1>2. i - 2 \in Nat /\ T \subseteq 0 .. i - 2 /\ 0 \in T
  BY <1>1
<1>3. PICK k \in T : \A j \in T : j <= k
  BY <1>2, GreatestElement
<1>4. \A j \in k + 1 .. i - 2 : rank[n] < rank[list[j]]
  <2> TAKE j \in k + 1 .. i - 2
  <2>1. j \notin T /\ j \in 1 .. i - 2
    BY <1>1, <1>3
  <2>2. rank[list[j]] \in Int /\ rank[n] \in Int /\ ~(rank[list[j]] <= rank[n])
    BY <1>1, <2>1, WrapAssumption DEF Rank
  <2> QED BY <2>2
<1>5. \E m \in 0 .. i - 2 : Stops(m)
  BY <1>3, <1>4
<1>6. LeftStop(list, rank, n) = CHOOSE m \in 0 .. i - 2 : Stops(m)
  BY DEF LeftStop, i
<1> QED BY <1>5, <1>6 DEF i

LEMMA RightStopBounds ==
  ASSUME NEW list, IsList(list), NEW rank \in [Node -> Rank], NEW n \in Node,
         IsLinked(list, n), MovesRight(list, rank, n)
  PROVE  LET k == RightStop(list, rank, n)
         IN  /\ k \in Position(list, n) + 2 .. Len(list) + 1
             /\ k = Len(list) + 1 \/ rank[n] <= rank[list[k]]
             /\ \A j \in Position(list, n) + 2 .. k - 1 : rank[list[j]] < rank[n]
<1> DEFINE i == Position(list, n)
           T == {k \in i + 2 .. Len(list) + 1 : k = Len(list) + 1 \/ rank[n] <= rank[list[k]]}
           Stops(k) == /\ k = Len(list) + 1 \/ rank[n] <= rank[list[k]]
                       /\ \A j \in i + 2 .. k - 1 : rank[list[j]] < rank[n]
<1>1. i \in 1 .. Len(list) /\ i < Len(list) /\ Len(list) \in Nat /\ \A j \in 1 .. Len(list) : list[j] \in Node
  BY PositionOf, LenProperties, ElementOfSeq DEF IsList, MovesRight
<1> HIDE DEF i
<1>2. T \subseteq Nat /\ Len(list) + 1 \in T
  BY <1>1
<1>3. PICK k \in T : \A j \in T : k <= j
  BY <1>2, LeastElement
<1>4. \A j \in i + 2 .. k - 1 : rank[list[j]] < rank[n]
  <2> TAKE j \in i + 2 .. k - 1
  <2>1. j \notin T /\ j \in i + 2 .. Len(list)
    BY <1>1, <1>3
  <2>2. rank[list[j]] \in Int /\ rank[n] \in Int /\ ~(rank[n] <= rank[list[j]])
    BY <1>1, <2>1, WrapAssumption DEF Rank
  <2> QED BY <2>2
<1>5. \E m \in i + 2 .. Len(list) + 1 : Stops(m)
  BY <1>3, <1>4
<1>6. RightStop(list, rank, n) = CHOOSE m \in i + 2 .. Len(list) + 1 : Stops(m)
  BY DEF RightStop, i
<1> QED BY <1>5, <1>6 DEF i

\* Sorting a node changes the place of that node only.  It may link a node
\* that was in no list, and never unlinks one.
Keeps(old, new, n) ==
  /\ IsList(new)
  /\ \A m \in Node : m # n => (IsLinked(new, m) <=> IsLinked(old, m))
  /\ IsLinked(old, n) => IsLinked(new, n)

LEMMA UpdateRankList ==
  ASSUME NEW list, IsList(list), NEW rank \in [Node -> Rank], NEW n \in Node
  PROVE  Keeps(list, UpdateRank(list, rank, n), n)
<1> DEFINE rest == Unlink(list, n)
           i == Position(list, n)
<1>1. CASE ~IsLinked(list, n)
  BY <1>1 DEF UpdateRank, Keeps
<1>2. CASE IsLinked(list, n)
  <2>1. IsList(rest) /\ ~IsLinked(rest, n) /\ Len(rest) = Len(list) - 1
        /\ \A m \in Node : m # n => (IsLinked(rest, m) <=> IsLinked(list, m))
    BY <1>2, UnlinkList
  <2>2. i \in 1 .. Len(list) /\ Len(list) \in Nat
    BY <1>2, PositionOf, LenProperties DEF IsList
  <2>3. CASE MovesLeft(list, rank, n)
    <3>1. LeftStop(list, rank, n) \in 0 .. i - 2
      BY <1>2, <2>3, LeftStopBounds
    <3>2. LeftStop(list, rank, n) + 1 \in 1 .. Len(rest) + 1
      BY <2>1, <2>2, <3>1
    <3>3. UpdateRank(list, rank, n) = InsertAt(rest, LeftStop(list, rank, n) + 1, n)
      BY <1>2, <2>3 DEF UpdateRank
    <3> HIDE DEF rest
    <3> QED BY <2>1, <3>2, <3>3, InsertList DEF Keeps
  <2>4. CASE ~MovesLeft(list, rank, n) /\ MovesRight(list, rank, n)
    <3>1. RightStop(list, rank, n) \in i + 2 .. Len(list) + 1
      BY <1>2, <2>4, RightStopBounds
    <3>2. RightStop(list, rank, n) - 1 \in 1 .. Len(rest) + 1
      BY <2>1, <2>2, <3>1
    <3>3. UpdateRank(list, rank, n) = InsertAt(rest, RightStop(list, rank, n) - 1, n)
      BY <1>2, <2>4 DEF UpdateRank
    <3> HIDE DEF rest
    <3> QED BY <2>1, <3>2, <3>3, InsertList DEF Keeps
  <2>5. CASE ~MovesLeft(list, rank, n) /\ ~MovesRight(list, rank, n)
    BY <1>2, <2>5 DEF UpdateRank, Keeps
  <2> QED BY <2>3, <2>4, <2>5
<1> QED BY <1>1, <1>2

LEMMA SortTaskList ==
  ASSUME NEW list, IsList(list), NEW rank \in [Node -> Rank], NEW n \in Node
  PROVE  Keeps(list, SortTask(list, rank, n), n)
<1>1. Keeps(list, PushFront(list, n), n)
  BY PushFrontList DEF Keeps
<1>2. Keeps(list, PushBack(list, n), n)
  BY PushBackList DEF Keeps
<1>3. Keeps(list, UpdateRank(list, rank, n), n)
  BY UpdateRankList
<1> QED BY <1>1, <1>2, <1>3 DEF SortTask

LEMMA AddedListList ==
  ASSUME NEW list, IsList(list), IsLinked(list, Cursor),
         NEW rank \in [Node -> Rank], NEW n \in Task, ~IsLinked(list, n)
  PROVE  /\ IsList(AddedList(list, rank, n))
         /\ AddedRank(rank, n) \in [Node -> Rank]
         /\ \A m \in Node : IsLinked(AddedList(list, rank, n), m) <=> m = n \/ IsLinked(list, m)
<1> DEFINE mid == InsertAfter(list, Cursor, n)
<1>1. Cursor \in Node /\ n \in Node
  BY DEF Node
<1>2. IsList(mid) /\ \A m \in Node : IsLinked(mid, m) <=> m = n \/ IsLinked(list, m)
  BY <1>1, InsertAfterList
<1>3. AddedRank(rank, n) \in [Node -> Rank]
  BY <1>1 DEF AddedRank
<1>4. AddedList(list, rank, n) = SortTask(mid, AddedRank(rank, n), n)
  BY DEF AddedList
<1> HIDE DEF mid
<1>5. Keeps(mid, SortTask(mid, AddedRank(rank, n), n), n)
  BY <1>1, <1>2, <1>3, SortTaskList
<1> QED BY <1>1, <1>2, <1>3, <1>4, <1>5 DEF Keeps

\* getNextTask moves the cursor only.
LEMMA AdvanceCursorList ==
  ASSUME NEW list, IsList(list), IsLinked(list, Cursor)
  PROVE  /\ IsList(AdvanceCursor(list))
         /\ \A m \in Node : IsLinked(AdvanceCursor(list), m) <=> IsLinked(list, m)
<1>1. Cursor \in Node
  BY DEF Node
<1>2. IsList(PushFront(list, Cursor))
      /\ \A m \in Node : IsLinked(PushFront(list, Cursor), m) <=> IsLinked(list, m)
  BY <1>1, PushFrontList
<1> QED BY <1>2 DEF AdvanceCursor

-----------------------------------------------------------------------------
(* Where the nodes stand *)

LEMMA PositionIs ==
  ASSUME NEW list, IsList(list), NEW i \in 1 .. Len(list)
  PROVE  IsLinked(list, list[i]) /\ Position(list, list[i]) = i
<1>1. IsLinked(list, list[i])
  BY DEF IsLinked, Contains
<1> QED BY <1>1, PositionOf DEF IsList

\* A node that goes leaves those behind it one place further in front.
LEMMA UnlinkPositions ==
  ASSUME NEW list, IsList(list), NEW n \in Node, IsLinked(list, n),
         NEW m \in Node, m # n, IsLinked(list, m)
  PROVE  LET p == Position(list, n)
             q == Position(list, m)
         IN  Position(Unlink(list, n), m) = IF q < p THEN q ELSE q - 1
<1> DEFINE p == Position(list, n)
           q == Position(list, m)
           rest == Unlink(list, n)
           r == IF q < p THEN q ELSE q - 1
<1>1. /\ p \in 1 .. Len(list) /\ list[p] = n
      /\ q \in 1 .. Len(list) /\ list[q] = m
      /\ Len(list) \in Nat /\ list \in Seq(Node)
  BY PositionOf, LenProperties DEF IsList
<1>2. rest = RemoveAt(list, p) /\ IsList(rest)
  BY UnlinkList DEF Unlink
<1> HIDE DEF p, q, rest
<1>3. /\ Len(rest) = Len(list) - 1
      /\ \A j \in 1 .. p - 1 : rest[j] = list[j]
      /\ \A j \in p .. Len(list) - 1 : rest[j] = list[j + 1]
  BY <1>1, <1>2, RemoveAtElements
<1>4. p # q
  BY <1>1
<1>5. r \in 1 .. Len(rest) /\ rest[r] = m
  <2>1. CASE q < p
    BY <1>1, <1>3, <2>1
  <2>2. CASE q > p
    <3>1. q - 1 \in p .. Len(list) - 1 /\ (q - 1) + 1 = q /\ r = q - 1
      BY <1>1, <2>2
    <3> QED BY <1>1, <1>3, <3>1
  <2> QED BY <1>1, <1>4, <2>1, <2>2
<1>6. Position(rest, m) = r
  BY <1>2, <1>5, PositionIs
<1> QED BY <1>6 DEF p, q, rest

\* A node that comes moves those behind its place on by one.
LEMMA InsertPositions ==
  ASSUME NEW list, IsList(list), NEW n \in Node, ~IsLinked(list, n),
         NEW i \in 1 .. Len(list) + 1
  PROVE  LET new == InsertAt(list, i, n)
         IN  /\ Position(new, n) = i
             /\ \A m \in Node : IsLinked(list, m) =>
                  Position(new, m) = IF Position(list, m) < i THEN Position(list, m)
                                     ELSE Position(list, m) + 1
<1> DEFINE new == InsertAt(list, i, n)
<1>1. list \in Seq(Node) /\ Len(list) \in Nat
  BY LenProperties DEF IsList
<1>2. /\ new \in Seq(Node)
      /\ Len(new) = Len(list) + 1
      /\ \A j \in 1 .. i - 1 : new[j] = list[j]
      /\ new[i] = n
      /\ \A j \in i + 1 .. Len(list) + 1 : new[j] = list[j - 1]
  BY <1>1, InsertAtElements
<1>3. IsList(new)
  BY InsertList
<1> HIDE DEF new
<1>4. Position(new, n) = i
  <2>1. i \in 1 .. Len(new)
    BY <1>1, <1>2
  <2> QED BY <1>2, <1>3, <2>1, PositionIs
<1>5. ASSUME NEW m \in Node, IsLinked(list, m)
      PROVE  Position(new, m) = IF Position(list, m) < i THEN Position(list, m)
                                ELSE Position(list, m) + 1
  <2> DEFINE q == Position(list, m)
             r == IF q < i THEN q ELSE q + 1
  <2>1. q \in 1 .. Len(list) /\ list[q] = m
    BY <1>5, PositionOf
  <2> HIDE DEF q
  <2>2. r \in 1 .. Len(new) /\ new[r] = m
    <3>1. CASE q < i
      BY <1>1, <1>2, <2>1, <3>1
    <3>2. CASE q >= i
      <4>1. q + 1 \in i + 1 .. Len(list) + 1 /\ (q + 1) - 1 = q /\ r = q + 1
        BY <1>1, <2>1, <3>2
      <4> QED BY <1>1, <1>2, <2>1, <4>1
    <3> QED BY <2>1, <3>1, <3>2
  <2>3. Position(new, m) = r
    BY <1>3, <2>2, PositionIs
  <2> QED BY <2>3 DEF q
<1> QED BY <1>4, <1>5 DEF new

-----------------------------------------------------------------------------
(* What sorting a node does to the order *)

\* A linked node in front of another one.
Before(list, a, b) == Position(list, a) < Position(list, b)

Others(list, n) == {m \in Node : m # n /\ IsLinked(list, m)}

\* The nodes but n stand in the order of their ranks.
OthersSorted(list, rank, n) ==
  \A a, b \in Others(list, n) : Before(list, a, b) => rank[a] <= rank[b]

\* The new list has n where its rank belongs and the others where they were;
\* n moves in front of a node only if it is ranked below it.
Sorts(list, new, rank, n) ==
  /\ \A a, b \in Others(list, n) : Before(new, a, b) <=> Before(list, a, b)
  /\ \A b \in Others(list, n) :
       /\ Before(new, n, b) => rank[n] <= rank[b]
       /\ Before(new, b, n) => rank[b] <= rank[n]
       /\ Before(list, b, n) /\ Before(new, n, b) => rank[n] < rank[b]

\* Two nodes of a list stand one in front of the other.
LEMMA BeforeTotal ==
  ASSUME NEW list, NEW a, IsLinked(list, a), NEW b, IsLinked(list, b), a # b
  PROVE  Before(list, a, b) <=> ~Before(list, b, a)
<1>1. /\ Position(list, a) \in 1 .. Len(list) /\ list[Position(list, a)] = a
      /\ Position(list, b) \in 1 .. Len(list) /\ list[Position(list, b)] = b
  BY PositionOf
<1> QED BY <1>1 DEF Before

\* Taking a node out leaves the order of the others.
LEMMA UnlinkOrder ==
  ASSUME NEW list, IsList(list), NEW n \in Node, NEW a \in Others(list, n), NEW b \in Others(list, n)
  PROVE  Before(Unlink(list, n), a, b) <=> Before(list, a, b)
<1>1. CASE ~IsLinked(list, n)
  BY <1>1 DEF Unlink
<1>2. CASE IsLinked(list, n)
  <2> DEFINE p == Position(list, n)
             q == Position(list, a)
             r == Position(list, b)
  <2>1. /\ Position(Unlink(list, n), a) = IF q < p THEN q ELSE q - 1
        /\ Position(Unlink(list, n), b) = IF r < p THEN r ELSE r - 1
    BY <1>2, UnlinkPositions DEF Others
  <2>2. /\ p \in 1 .. Len(list) /\ q \in 1 .. Len(list) /\ r \in 1 .. Len(list)
        /\ list[p] = n /\ list[q] = a /\ list[r] = b /\ a # n /\ b # n
    BY <1>2, PositionOf DEF Others
  <2>3. p # q /\ p # r
    BY <2>2
  <2> HIDE DEF p, q, r
  <2>4. (IF q < p THEN q ELSE q - 1) < (IF r < p THEN r ELSE r - 1) <=> q < r
    BY <2>2, <2>3
  <2> QED BY <2>1, <2>4 DEF Before, q, r
<1> QED BY <1>1, <1>2

\* A linked node that moves to place k of the others.
LEMMA MoveOrder ==
  ASSUME NEW list, IsList(list), NEW n \in Node, IsLinked(list, n), NEW k \in 1 .. Len(list),
         NEW new, new = InsertAt(Unlink(list, n), k, n)
  PROVE  /\ \A a, b \in Others(list, n) : Before(new, a, b) <=> Before(list, a, b)
         /\ \A b \in Others(list, n) :
              LET p == Position(list, n)
                  q == Position(list, b)
              IN  /\ q < p => (Before(new, b, n) <=> q < k) /\ (Before(new, n, b) <=> k <= q)
                  /\ q > p => (Before(new, b, n) <=> q <= k) /\ (Before(new, n, b) <=> k < q)
<1> DEFINE rest == Unlink(list, n)
           p == Position(list, n)
           P(b) == Position(list, b)
           R(b) == IF P(b) < p THEN P(b) ELSE P(b) - 1
<1>1. /\ IsList(rest) /\ ~IsLinked(rest, n) /\ Len(rest) = Len(list) - 1 /\ Len(list) \in Nat
      /\ \A b \in Others(list, n) : b \in Node /\ IsLinked(rest, b)
  BY UnlinkList, LenProperties DEF IsList, Others
<1>2. \A b \in Others(list, n) : Position(rest, b) = R(b)
  BY UnlinkPositions DEF Others
<1>3. new = InsertAt(rest, k, n) /\ k \in 1 .. Len(rest) + 1
  BY <1>1
<1> HIDE DEF rest
<1>4. /\ Position(new, n) = k
      /\ \A b \in Others(list, n) : Position(new, b) = IF R(b) < k THEN R(b) ELSE R(b) + 1
  BY <1>1, <1>2, <1>3, InsertPositions
<1>5. p \in 1 .. Len(list) /\ list[p] = n
  BY PositionOf
<1>6. \A b \in Others(list, n) : P(b) \in 1 .. Len(list) /\ P(b) # p
  BY <1>5, PositionOf DEF Others
<1> HIDE DEF p, P
<1>7. \A a, b \in Others(list, n) : Position(new, a) < Position(new, b) <=> P(a) < P(b)
  BY <1>4, <1>5, <1>6
<1>8. ASSUME NEW b \in Others(list, n)
      PROVE  /\ P(b) < p => (Before(new, b, n) <=> P(b) < k) /\ (Before(new, n, b) <=> k <= P(b))
             /\ P(b) > p => (Before(new, b, n) <=> P(b) <= k) /\ (Before(new, n, b) <=> k < P(b))
  BY <1>4, <1>5, <1>6 DEF Before
<1> QED BY <1>7, <1>8 DEF Before, p, P

\* PushBack moves a linked node to the last place of all.
LEMMA PushBackMoves ==
  ASSUME NEW list, IsList(list), NEW n \in Node, IsLinked(list, n)
  PROVE  PushBack(list, n) = InsertAt(Unlink(list, n), Len(list), n)
<1> DEFINE rest == Unlink(list, n)
<1>1. IsList(rest) /\ Len(rest) = Len(list) - 1 /\ Len(list) \in Nat
  BY UnlinkList, LenProperties DEF IsList
<1>2. PushBack(list, n) = Append(rest, n)
  BY DEF PushBack
<1> HIDE DEF rest
<1>3. Len(list) \in 1 .. Len(rest) + 1 /\ rest \in Seq(Node) /\ Len(rest) \in Nat
  BY <1>1, LenProperties DEF IsList
<1>4. /\ InsertAt(rest, Len(list), n) \in Seq(Node)
      /\ Len(InsertAt(rest, Len(list), n)) = Len(rest) + 1
      /\ \A j \in 1 .. Len(list) - 1 : InsertAt(rest, Len(list), n)[j] = rest[j]
      /\ InsertAt(rest, Len(list), n)[Len(list)] = n
  BY <1>3, InsertAtElements
<1>5. /\ Append(rest, n) \in Seq(Node)
      /\ Len(Append(rest, n)) = Len(rest) + 1
      /\ \A j \in 1 .. Len(rest) : Append(rest, n)[j] = rest[j]
      /\ Append(rest, n)[Len(rest) + 1] = n
  BY <1>3
<1>6. Append(rest, n) = InsertAt(rest, Len(list), n)
  BY <1>1, <1>3, <1>4, <1>5, SeqEqual
<1> QED BY <1>2, <1>6 DEF rest

\* The facts about a node b and a place i of the list that SortOrder compares.
LEMMA RankAt ==
  ASSUME NEW list, IsList(list), NEW rank \in [Node -> Rank], NEW n \in Node, IsLinked(list, n),
         OthersSorted(list, rank, n), NEW i \in 1 .. Len(list), list[i] # n,
         NEW b \in Others(list, n)
  PROVE  /\ i <= Position(list, b) => rank[list[i]] <= rank[b]
         /\ Position(list, b) <= i => rank[b] <= rank[list[i]]
<1>1. list[i] \in Node /\ Position(list, list[i]) = i /\ IsLinked(list, list[i])
  BY PositionIs, ElementOfSeq DEF IsList
<1>2. list[i] \in Others(list, n)
  BY <1>1 DEF Others
<1>3. Position(list, b) \in 1 .. Len(list) /\ list[Position(list, b)] = b /\ b \in Node
  BY PositionOf DEF Others
<1>4. rank[b] \in Int /\ rank[list[i]] \in Int
  BY <1>1, <1>3, WordsAreIntegers
<1>5. CASE Position(list, b) = i
  BY <1>3, <1>4, <1>5
<1>6. CASE Position(list, b) # i
  BY <1>1, <1>2, <1>3, <1>6 DEF OthersSorted, Before
<1> QED BY <1>5, <1>6

\* updateRank puts one node that is out of order where it belongs.
LEMMA UpdateRankOrder ==
  ASSUME NEW list, IsList(list), NEW rank \in [Node -> Rank], NEW n \in Node, IsLinked(list, n),
         OthersSorted(list, rank, n)
  PROVE  Sorts(list, UpdateRank(list, rank, n), rank, n)
<1> DEFINE p == Position(list, n)
           new == UpdateRank(list, rank, n)
           Q(b) == Position(list, b)
<1>1. /\ p \in 1 .. Len(list) /\ list[p] = n /\ Len(list) \in Nat
      /\ \A i \in 1 .. Len(list) : list[i] \in Node /\ (list[i] = n => i = p)
  BY PositionOf, LenProperties, ElementOfSeq DEF IsList
<1>2. \A b \in Others(list, n) : Q(b) \in 1 .. Len(list) /\ list[Q(b)] = b /\ Q(b) # p
  BY <1>1, PositionOf DEF Others
<1>3. rank[n] \in Int /\ \A i \in 1 .. Len(list) : rank[list[i]] \in Int
  BY <1>1, WordsAreIntegers
<1>4. \A b \in Others(list, n) : rank[b] \in Int
  BY WordsAreIntegers DEF Others
<1> HIDE DEF p, new, Q
<1>5. \A b \in Others(list, n) : \A i \in 1 .. Len(list) : i # p =>
        /\ i <= Q(b) => rank[list[i]] <= rank[b]
        /\ Q(b) <= i => rank[b] <= rank[list[i]]
  BY <1>1, RankAt DEF Q
<1>6. ASSUME NEW k \in 1 .. Len(list), new = InsertAt(Unlink(list, n), k, n)
      PROVE  /\ \A a, b \in Others(list, n) : Before(new, a, b) <=> Before(list, a, b)
             /\ \A b \in Others(list, n) :
                  /\ Q(b) < p => (Before(new, b, n) <=> Q(b) < k) /\ (Before(new, n, b) <=> k <= Q(b))
                  /\ Q(b) > p => (Before(new, b, n) <=> Q(b) <= k) /\ (Before(new, n, b) <=> k < Q(b))
  BY <1>6, MoveOrder DEF p, Q
<1>7. CASE MovesLeft(list, rank, n)
  <2> DEFINE s == LeftStop(list, rank, n)
  <2>1. p > 1 /\ rank[n] < rank[list[p - 1]]
    BY <1>7 DEF MovesLeft, p
  <2>2. /\ s \in 0 .. p - 2
        /\ s = 0 \/ rank[list[s]] <= rank[n]
        /\ \A j \in s + 1 .. p - 2 : rank[n] < rank[list[j]]
    BY <1>7, LeftStopBounds DEF p
  <2>3. new = InsertAt(Unlink(list, n), s + 1, n)
    BY <1>7 DEF UpdateRank, new
  <2> HIDE DEF s
  <2>4. s + 1 \in 1 .. Len(list)
    BY <1>1, <2>2
  <2>5. ASSUME NEW b \in Others(list, n)
        PROVE  /\ Q(b) <= s => rank[b] <= rank[n] /\ Q(b) < p
               /\ Q(b) > s => rank[n] < rank[b]
    <3>1. CASE Q(b) <= s
      <4>1. s \in 1 .. Len(list) /\ s # p /\ s # 0
        BY <1>1, <1>2, <2>2, <3>1
      <4>2. rank[b] <= rank[list[s]] /\ rank[list[s]] <= rank[n]
        BY <1>5, <2>2, <3>1, <4>1
      <4> QED BY <1>1, <1>2, <1>3, <1>4, <2>2, <3>1, <4>1, <4>2
    <3>2. CASE Q(b) > s /\ Q(b) <= p - 2
      <4>1. rank[n] < rank[list[Q(b)]] /\ list[Q(b)] = b
        BY <1>1, <1>2, <2>2, <3>2
      <4> QED BY <1>1, <1>2, <2>2, <3>2, <4>1
    <3>3. CASE Q(b) >= p - 1
      <4>1. p - 1 \in 1 .. Len(list) /\ p - 1 # p
        BY <1>1, <2>1
      <4>2. rank[list[p - 1]] <= rank[b]
        BY <1>5, <3>3, <4>1
      <4> QED BY <1>1, <1>2, <1>3, <1>4, <2>1, <2>2, <3>3, <4>1, <4>2
    <3> QED BY <1>1, <1>2, <2>2, <3>1, <3>2, <3>3
  <2>6. ASSUME NEW b \in Others(list, n)
        PROVE  (Before(new, b, n) => Q(b) <= s) /\ (Before(new, n, b) => Q(b) > s)
    BY <1>1, <1>2, <1>6, <2>2, <2>3, <2>4
  <2>7. \A a, b \in Others(list, n) : Before(new, a, b) <=> Before(list, a, b)
    BY <1>6, <2>3, <2>4
  <2>8. ASSUME NEW b \in Others(list, n)
        PROVE  /\ Before(new, n, b) => rank[n] < rank[b] /\ rank[n] <= rank[b]
               /\ Before(new, b, n) => rank[b] <= rank[n]
    BY <1>3, <1>4, <2>5, <2>6
  <2> QED BY <2>7, <2>8 DEF Sorts, new
<1>8. CASE ~MovesLeft(list, rank, n)
  <2>1. ASSUME NEW b \in Others(list, n), Q(b) < p PROVE rank[b] <= rank[n]
    <3>1. p > 1 /\ p - 1 \in 1 .. Len(list) /\ p - 1 # p /\ Q(b) <= p - 1
      BY <1>1, <1>2, <2>1
    <3>2. rank[list[p - 1]] <= rank[n]
      BY <1>3, <1>8, <3>1 DEF MovesLeft, p
    <3>3. rank[b] <= rank[list[p - 1]]
      BY <1>5, <3>1
    <3> QED BY <1>3, <1>4, <3>1, <3>2, <3>3
  <2>2. CASE MovesRight(list, rank, n)
    <3> DEFINE s == RightStop(list, rank, n)
    <3>1. p < Len(list) /\ rank[list[p + 1]] < rank[n]
      BY <2>2 DEF MovesRight, p
    <3>2. /\ s \in p + 2 .. Len(list) + 1
          /\ s = Len(list) + 1 \/ rank[n] <= rank[list[s]]
          /\ \A j \in p + 2 .. s - 1 : rank[list[j]] < rank[n]
      BY <2>2, RightStopBounds DEF p
    <3>3. new = InsertAt(Unlink(list, n), s - 1, n)
      BY <1>8, <2>2 DEF UpdateRank, new
    <3> HIDE DEF s
    <3>4. s - 1 \in 1 .. Len(list)
      BY <1>1, <3>2
    <3>5. ASSUME NEW b \in Others(list, n)
          PROVE  /\ Q(b) < s => rank[b] <= rank[n]
                 /\ Q(b) >= s => rank[n] <= rank[b]
      <4>1. CASE Q(b) <= p + 1
        <5>1. CASE Q(b) < p
          BY <1>1, <1>2, <2>1, <3>2, <5>1
        <5>2. CASE Q(b) = p + 1
          BY <1>1, <1>2, <1>3, <1>4, <3>1, <3>2, <5>2
        <5> QED BY <1>1, <1>2, <4>1, <5>1, <5>2
      <4>2. CASE Q(b) >= p + 2 /\ Q(b) < s
        <5>1. rank[list[Q(b)]] < rank[n] /\ list[Q(b)] = b
          BY <1>1, <1>2, <3>2, <4>2
        <5> QED BY <1>1, <1>2, <1>3, <1>4, <3>2, <4>2, <5>1
      <4>3. CASE Q(b) >= s
        <5>1. s \in 1 .. Len(list) /\ s # p
          BY <1>1, <1>2, <3>2, <4>3
        <5>2. rank[list[s]] <= rank[b] /\ rank[n] <= rank[list[s]]
          BY <1>5, <3>2, <4>3, <5>1, <1>1
        <5> QED BY <1>2, <1>3, <1>4, <3>2, <4>3, <5>1, <5>2
      <4> QED BY <1>1, <1>2, <3>2, <4>1, <4>2, <4>3
    <3>6. ASSUME NEW b \in Others(list, n)
          PROVE  /\ Before(new, b, n) => Q(b) < s
                 /\ Before(new, n, b) => Q(b) >= s /\ Q(b) > p
      BY <1>1, <1>2, <1>6, <3>2, <3>3, <3>4
    <3>7. \A a, b \in Others(list, n) : Before(new, a, b) <=> Before(list, a, b)
      BY <1>6, <3>3, <3>4
    <3>8. \A b \in Others(list, n) : ~(Before(list, b, n) /\ Before(new, n, b))
      BY <1>1, <1>2, <3>6 DEF Before, p, Q
    <3> QED BY <3>5, <3>6, <3>7, <3>8 DEF Sorts, new
  <2>3. CASE ~MovesRight(list, rank, n)
    <3>1. new = list
      BY <1>8, <2>3 DEF UpdateRank, new
    <3>2. ASSUME NEW b \in Others(list, n), Q(b) > p PROVE rank[n] <= rank[b]
      <4>1. p < Len(list) /\ p + 1 \in 1 .. Len(list) /\ p + 1 # p /\ p + 1 <= Q(b)
        BY <1>1, <1>2, <3>2
      <4>2. rank[n] <= rank[list[p + 1]]
        BY <1>3, <2>3, <4>1 DEF MovesRight, p
      <4>3. rank[list[p + 1]] <= rank[b]
        BY <1>5, <4>1
      <4> QED BY <1>3, <1>4, <4>1, <4>2, <4>3
    <3>3. \A b \in Others(list, n) : ~(Before(list, b, n) /\ Before(list, n, b))
      BY <1>1, <1>2 DEF Before, p, Q
    <3> QED BY <2>1, <3>1, <3>2, <3>3 DEF Sorts, Before, new, p, Q
  <2> QED BY <2>2, <2>3
<1> QED BY <1>7, <1>8 DEF new

\* sortTask does the same, whether the node goes to an end or not.
LEMMA SortTaskOrder ==
  ASSUME NEW list, IsList(list), NEW rank \in [Node -> Rank], NEW n \in Node, IsLinked(list, n),
         OthersSorted(list, rank, n)
  PROVE  Sorts(list, SortTask(list, rank, n), rank, n)
<1> DEFINE p == Position(list, n)
           Q(b) == Position(list, b)
<1>1. /\ p \in 1 .. Len(list) /\ list[p] = n /\ Len(list) \in Nat
      /\ \A i \in 1 .. Len(list) : list[i] \in Node /\ rank[list[i]] \in Int
      /\ 1 \in 1 .. Len(list) /\ Len(list) \in 1 .. Len(list) /\ rank[n] \in Int
  BY PositionOf, LenProperties, ElementOfSeq, WordsAreIntegers DEF IsList
<1>2. \A b \in Others(list, n) :
        Q(b) \in 1 .. Len(list) /\ list[Q(b)] = b /\ Q(b) # p /\ rank[b] \in Int
  BY <1>1, PositionOf, WordsAreIntegers DEF Others
<1>3. ASSUME NEW k \in 1 .. Len(list), NEW new, new = InsertAt(Unlink(list, n), k, n)
      PROVE  /\ \A a, b \in Others(list, n) : Before(new, a, b) <=> Before(list, a, b)
             /\ \A b \in Others(list, n) :
                  /\ k = 1 => ~Before(new, b, n)
                  /\ k = Len(list) => ~Before(new, n, b)
  <2>1. /\ \A a, b \in Others(list, n) : Before(new, a, b) <=> Before(list, a, b)
        /\ \A b \in Others(list, n) :
             /\ Q(b) < p => (Before(new, b, n) <=> Q(b) < k) /\ (Before(new, n, b) <=> k <= Q(b))
             /\ Q(b) > p => (Before(new, b, n) <=> Q(b) <= k) /\ (Before(new, n, b) <=> k < Q(b))
    BY <1>3, MoveOrder
  <2> HIDE DEF p, Q
  <2> QED BY <1>1, <1>2, <2>1
<1>4. CASE rank[n] < rank[list[1]]
  <2>1. SortTask(list, rank, n) = InsertAt(Unlink(list, n), 1, n)
    BY <1>4 DEF SortTask, PushFront
  <2>2. list[1] # n
    BY <1>1, <1>4
  <2>3. \A b \in Others(list, n) : rank[n] < rank[b]
    <3> TAKE b \in Others(list, n)
    <3>1. rank[list[1]] <= rank[b]
      BY <1>1, <1>2, <2>2, RankAt
    <3> QED BY <1>1, <1>2, <1>4, <3>1
  <2> DEFINE new == SortTask(list, rank, n)
  <2> HIDE DEF new
  <2>4. /\ \A a, b \in Others(list, n) : Before(new, a, b) <=> Before(list, a, b)
        /\ \A b \in Others(list, n) : ~Before(new, b, n)
    BY <1>1, <1>3, <2>1 DEF new
  <2>5. \A b \in Others(list, n) : rank[n] <= rank[b]
    BY <1>1, <1>2, <2>3
  <2> QED BY <2>3, <2>4, <2>5 DEF Sorts, new
<1>5. CASE ~(rank[n] < rank[list[1]]) /\ rank[n] > rank[list[Len(list)]]
  <2>1. SortTask(list, rank, n) = InsertAt(Unlink(list, n), Len(list), n)
    BY <1>5, PushBackMoves DEF SortTask
  <2>2. list[Len(list)] # n
    BY <1>1, <1>5
  <2>3. \A b \in Others(list, n) : rank[b] <= rank[n]
    <3> TAKE b \in Others(list, n)
    <3>1. rank[b] <= rank[list[Len(list)]]
      BY <1>1, <1>2, <2>2, RankAt
    <3> QED BY <1>1, <1>2, <1>5, <3>1
  <2> DEFINE new == SortTask(list, rank, n)
  <2> HIDE DEF new
  <2>4. /\ \A a, b \in Others(list, n) : Before(new, a, b) <=> Before(list, a, b)
        /\ \A b \in Others(list, n) : ~Before(new, n, b)
    BY <1>1, <1>3, <2>1 DEF new
  <2> QED BY <2>3, <2>4 DEF Sorts, new
<1>6. CASE ~(rank[n] < rank[list[1]]) /\ ~(rank[n] > rank[list[Len(list)]])
  BY <1>6, UpdateRankOrder DEF SortTask
<1> QED BY <1>4, <1>5, <1>6

\* addTask puts the new task among those that have the cursor's rank, behind the
\* cursor, and leaves the order of the others.
LEMMA AddedListOrder ==
  ASSUME NEW list, IsList(list), IsLinked(list, Cursor), NEW rank \in [Node -> Rank],
         NEW n \in Task, ~IsLinked(list, n), OthersSorted(list, rank, n),
         NEW new, new = AddedList(list, rank, n)
  PROVE  /\ \A a, b \in Others(list, n) : Before(new, a, b) <=> Before(list, a, b)
         /\ \A b \in Others(list, n) :
              /\ Before(new, n, b) => rank[Cursor] <= rank[b]
              /\ Before(new, b, n) => rank[b] <= rank[Cursor]
         /\ ~Before(new, n, Cursor)
<1> DEFINE mid == InsertAfter(list, Cursor, n)
           c == Position(list, Cursor)
           r == AddedRank(rank, n)
<1>1. Cursor \in Node /\ n \in Node /\ Cursor # n /\ Cursor \in Others(list, n)
  BY NodeAssumption DEF Node, Others
<1>2. c \in 1 .. Len(list) /\ Len(list) \in Nat
  BY PositionOf, LenProperties DEF IsList
<1>3. /\ IsList(mid) /\ IsLinked(mid, n)
      /\ \A m \in Node : m # n => (IsLinked(mid, m) <=> IsLinked(list, m))
  BY <1>1, InsertAfterList
<1>4. /\ r \in [Node -> Rank] /\ r[n] = rank[Cursor]
      /\ \A b \in Node : b # n => r[b] = rank[b]
  BY <1>1 DEF AddedRank
<1>5. mid = InsertAt(list, c + 1, n) /\ c + 1 \in 1 .. Len(list) + 1
  BY <1>2 DEF InsertAfter
<1>6. new = SortTask(mid, r, n)
  BY DEF AddedList
<1> HIDE DEF mid, c, r
<1>7. /\ Position(mid, n) = c + 1
      /\ \A m \in Node : IsLinked(list, m) =>
           Position(mid, m) = IF Position(list, m) < c + 1 THEN Position(list, m)
                              ELSE Position(list, m) + 1
  BY <1>1, <1>5, InsertPositions
<1>8. \A a \in Others(list, n) : Position(list, a) \in Nat
  BY <1>2, PositionOf DEF Others
<1>9. \A a, b \in Others(list, n) : Before(mid, a, b) <=> Before(list, a, b)
  BY <1>2, <1>7, <1>8 DEF Before, Others
<1>10. Before(mid, Cursor, n)
  BY <1>1, <1>2, <1>7 DEF Before, Others, c
<1>11. Others(mid, n) = Others(list, n)
  BY <1>3 DEF Others
<1>12. OthersSorted(mid, r, n)
  BY <1>4, <1>9, <1>11 DEF OthersSorted, Others
<1>13. Sorts(mid, new, r, n)
  BY <1>1, <1>3, <1>4, <1>6, <1>12, SortTaskOrder
<1>14. rank[Cursor] \in Int
  BY <1>1, WordsAreIntegers
<1>15. ~Before(new, n, Cursor)
  <2>1. Before(new, n, Cursor) => r[n] < r[Cursor]
    BY <1>1, <1>10, <1>11, <1>13 DEF Sorts
  <2>2. r[n] = rank[Cursor] /\ r[Cursor] = rank[Cursor]
    BY <1>1, <1>4
  <2> QED BY <1>14, <2>1, <2>2
<1>16. ASSUME NEW b \in Others(list, n)
       PROVE  /\ Before(new, n, b) => rank[Cursor] <= rank[b]
              /\ Before(new, b, n) => rank[b] <= rank[Cursor]
  <2>1. r[b] = rank[b] /\ r[n] = rank[Cursor]
    BY <1>4 DEF Others
  <2> QED BY <1>11, <1>13, <2>1 DEF Sorts
<1>17. \A a, b \in Others(list, n) : Before(new, a, b) <=> Before(list, a, b)
  BY <1>9, <1>11, <1>13 DEF Sorts
<1> QED BY <1>15, <1>16, <1>17

-----------------------------------------------------------------------------
(* Lists in the order of their ranks *)

\* Words are in the order of the list; those that have wrapped around, and only
\* those, stand in front of the cursor.
Ordered(list, rank) ==
  /\ \A a, b \in Node : IsLinked(list, a) /\ IsLinked(list, b) /\ Before(list, a, b) =>
       rank[a] <= rank[b]
  /\ \A t \in Task : IsLinked(list, t) /\ Before(list, t, Cursor) => rank[t] < rank[Cursor]

\* A node that goes, or is placed by its rank, leaves the list in order.
LEMMA PlacedOrder ==
  ASSUME NEW old, NEW new, NEW was, NEW rank, Ordered(old, was), IsLinked(old, Cursor),
         rank[Cursor] = was[Cursor], NEW t \in Task,
         \A m \in Node : m # t => (IsLinked(new, m) <=> IsLinked(old, m)),
         \A b \in Others(old, t) : rank[b] = was[b],
         \A a, b \in Others(old, t) : Before(new, a, b) <=> Before(old, a, b),
         IsLinked(new, t) =>
           /\ ~Before(new, t, t)
           /\ \A b \in Others(old, t) :
                /\ Before(new, t, b) => rank[t] <= rank[b]
                /\ Before(new, b, t) => rank[b] <= rank[t]
           /\ Before(new, t, Cursor) => rank[t] < rank[Cursor]
  PROVE  Ordered(new, rank)
<1>0. Cursor \in Node /\ Task \subseteq Node /\ Cursor # t
  BY NodeAssumption DEF Node
<1>1. ASSUME NEW a \in Node, NEW b \in Node, IsLinked(new, a), IsLinked(new, b), Before(new, a, b)
      PROVE  rank[a] <= rank[b]
  <2>1. CASE a # t /\ b # t
    BY <1>1, <2>1 DEF Ordered, Others
  <2>2. CASE a = t /\ b # t
    BY <1>1, <2>2 DEF Others
  <2>3. CASE a # t /\ b = t
    BY <1>1, <2>3 DEF Others
  <2> QED BY <1>1, <2>1, <2>2, <2>3
<1>2. ASSUME NEW u \in Task, IsLinked(new, u), Before(new, u, Cursor)
      PROVE  rank[u] < rank[Cursor]
  <2>1. CASE u # t
    BY <1>0, <1>2, <2>1 DEF Ordered, Others
  <2>2. CASE u = t
    BY <1>2, <2>2
  <2> QED BY <2>1, <2>2
<1> QED BY <1>1, <1>2 DEF Ordered

\* The task getNextTask returns is the first one at or after the cursor's word.
LEMMA NextIsFirst ==
  ASSUME NEW list, IsList(list), IsLinked(list, Cursor), NEW t \in Task, NextTask(list) = t
  PROVE  /\ IsLinked(list, t) /\ ~IsEmpty(list)
         /\ CursorIsLast(list) =>
              \A u \in Task : IsLinked(list, u) =>
                Before(list, u, Cursor) /\ (u # t => Before(list, t, u))
         /\ ~CursorIsLast(list) =>
              /\ Before(list, Cursor, t)
              /\ \A u \in Task : IsLinked(list, u) /\ u # t =>
                   Before(list, u, Cursor) \/ Before(list, t, u)
<1> DEFINE c == Position(list, Cursor)
<1>1. /\ c \in 1 .. Len(list) /\ list[c] = Cursor /\ Len(list) \in Nat /\ t # Cursor /\ t # NoTask
      /\ 1 \in 1 .. Len(list) /\ Len(list) \in 1 .. Len(list)
  BY PositionOf, LenProperties, NodeAssumption DEF IsList
<1>2. \A u \in Task : IsLinked(list, u) =>
        Position(list, u) \in 1 .. Len(list) /\ list[Position(list, u)] = u /\ Position(list, u) # c
  BY <1>1, PositionOf, NodeAssumption
<1>3. ~IsEmpty(list)
  BY <1>1 DEF NextTask
<1>4. CASE CursorIsLast(list)
  <2>1. c = Len(list)
    BY <1>1, <1>4 DEF CursorIsLast, IsList
  <2>2. list[1] = t
    BY <1>3, <1>4 DEF NextTask
  <2>3. IsLinked(list, t) /\ Position(list, t) = 1
    BY <1>1, <2>2, PositionIs
  <2>4. ASSUME NEW u \in Task, IsLinked(list, u)
        PROVE  Before(list, u, Cursor) /\ (u # t => Before(list, t, u))
    <3>1. Position(list, u) \in 1 .. Len(list) /\ Position(list, u) < c
      BY <1>1, <1>2, <2>1, <2>4
    <3>2. u # t => Position(list, u) # 1
      BY <1>2, <2>2, <2>4
    <3> QED BY <2>3, <3>1, <3>2 DEF Before, c
  <2> QED BY <1>3, <1>4, <2>3, <2>4
<1>5. CASE ~CursorIsLast(list)
  <2>1. c + 1 \in 1 .. Len(list)
    BY <1>1, <1>5 DEF CursorIsLast
  <2>2. list[c + 1] = t
    BY <1>3, <1>5 DEF NextTask
  <2>3. IsLinked(list, t) /\ Position(list, t) = c + 1
    BY <2>1, <2>2, PositionIs
  <2>4. ASSUME NEW u \in Task, IsLinked(list, u), u # t
        PROVE  Before(list, u, Cursor) \/ Before(list, t, u)
    <3>1. Position(list, u) \in 1 .. Len(list) /\ Position(list, u) # c /\ Position(list, u) # c + 1
      BY <1>2, <2>2, <2>4
    <3>2. Position(list, u) < c \/ c + 1 < Position(list, u)
      BY <1>1, <3>1
    <3> QED BY <2>3, <3>2 DEF Before, c
  <2>5. Before(list, Cursor, t)
    BY <1>1, <2>3 DEF Before, c
  <2> QED BY <1>3, <1>5, <2>3, <2>4, <2>5
<1> QED BY <1>4, <1>5

\* Once the cursor has taken the rank of that task, and moved to the front if it
\* was last, the list is in order again.
LEMMA AdvancedOrder ==
  ASSUME NEW list, IsList(list), IsLinked(list, Cursor), NEW rank \in [Node -> Rank],
         Ordered(list, rank), NEW t \in Task, NextTask(list) = t
  PROVE  Ordered(AdvanceCursor(list), [rank EXCEPT ![Cursor] = rank[t]])
<1> DEFINE new == AdvanceCursor(list)
           moved == [rank EXCEPT ![Cursor] = rank[t]]
<1>0. /\ Cursor \in Node /\ Task \subseteq Node /\ Cursor \notin Task
      /\ IsLinked(list, t) /\ ~IsEmpty(list)
  BY NodeAssumption, NextIsFirst DEF Node
<1>1. /\ moved[Cursor] = rank[t]
      /\ \A u \in Task : moved[u] = rank[u]
      /\ \A a \in Node : moved[a] \in Int /\ rank[a] \in Int
  BY <1>0, WordsAreIntegers
<1>2. IsList(new) /\ \A m \in Node : IsLinked(new, m) <=> IsLinked(list, m)
  BY AdvanceCursorList
<1>3. \A u \in Task : IsLinked(list, u) =>
        /\ Before(list, t, u) => rank[t] <= rank[u]
        /\ Before(list, u, Cursor) => rank[u] < rank[Cursor]
        /\ Before(list, Cursor, u) => rank[Cursor] <= rank[u]
  BY <1>0 DEF Ordered
<1>4. \A a \in Node : a \in Task \/ a = Cursor
  BY DEF Node
<1> HIDE DEF moved
<1>5. CASE ~CursorIsLast(list)
  <2>1. new = list
    BY <1>5 DEF AdvanceCursor
  <2>2. /\ Before(list, Cursor, t)
        /\ \A u \in Task : IsLinked(list, u) /\ u # t =>
             Before(list, u, Cursor) \/ Before(list, t, u)
    BY <1>5, NextIsFirst
  <2>3. rank[Cursor] <= rank[t]
    BY <1>0, <1>3, <2>2
  <2>4. ASSUME NEW u \in Task, IsLinked(list, u)
        PROVE  /\ Before(list, u, Cursor) => moved[u] < moved[Cursor]
               /\ Before(list, Cursor, u) => moved[Cursor] <= moved[u]
    <3>1. Before(list, Cursor, u) => ~Before(list, u, Cursor)
      BY <1>0, <2>4, BeforeTotal
    <3>2. Before(list, u, Cursor) => rank[u] < rank[t]
      BY <1>0, <1>1, <1>3, <2>3, <2>4
    <3>3. Before(list, Cursor, u) => rank[t] <= rank[u]
      BY <1>0, <1>1, <1>3, <2>2, <2>4, <3>1
    <3> QED BY <1>1, <3>2, <3>3
  <2>5. ASSUME NEW a \in Node, NEW b \in Node, IsLinked(list, a), IsLinked(list, b),
               Before(list, a, b)
        PROVE  moved[a] <= moved[b]
    <3>1. CASE a \in Task /\ b \in Task
      BY <1>1, <2>5, <3>1 DEF Ordered
    <3>2. CASE a = Cursor /\ b \in Task
      BY <2>4, <2>5, <3>2
    <3>3. CASE a \in Task /\ b = Cursor
      BY <1>1, <2>4, <2>5, <3>3
    <3>4. CASE a = Cursor /\ b = Cursor
      BY <1>1, <3>4, <1>0
    <3> QED BY <1>4, <3>1, <3>2, <3>3, <3>4
  <2> QED BY <2>1, <2>4, <2>5 DEF Ordered, new, moved
<1>6. CASE CursorIsLast(list)
  <2>1. new = InsertAt(Unlink(list, Cursor), 1, Cursor) /\ 1 \in 1 .. Len(list)
    BY <1>0, <1>6, PositionOf, LenProperties DEF AdvanceCursor, PushFront, IsList
  <2>2. \A u \in Task : IsLinked(list, u) => u = t \/ Before(list, t, u)
    BY <1>6, NextIsFirst
  <2> HIDE DEF new
  <2>3. \A a, b \in Others(list, Cursor) : Before(new, a, b) <=> Before(list, a, b)
    BY <1>0, <2>1, MoveOrder
  <2>4. ASSUME NEW u \in Task, IsLinked(list, u)
        PROVE  ~Before(new, u, Cursor)
    <3>1. u \in Others(list, Cursor)
      BY <1>0, <2>4 DEF Others
    <3>2. LET p == Position(list, Cursor)
              q == Position(list, u)
          IN  /\ q < p => (Before(new, u, Cursor) <=> q < 1)
              /\ q > p => (Before(new, u, Cursor) <=> q <= 1)
      BY <1>0, <2>1, <3>1, MoveOrder
    <3>3. /\ Position(list, u) \in 1 .. Len(list) /\ list[Position(list, u)] = u
          /\ Position(list, Cursor) \in 1 .. Len(list) /\ list[Position(list, Cursor)] = Cursor
      BY <2>4, PositionOf
    <3>4. Position(list, u) # Position(list, Cursor)
      BY <1>0, <3>3
    <3> QED BY <3>2, <3>3, <3>4
  <2>5. ASSUME NEW a \in Node, NEW b \in Node, IsLinked(new, a), IsLinked(new, b),
               Before(new, a, b)
        PROVE  moved[a] <= moved[b]
    <3>1. IsLinked(list, a) /\ IsLinked(list, b)
      BY <1>2, <2>5
    <3>2. CASE a \in Task /\ b \in Task
      <4>1. a \in Others(list, Cursor) /\ b \in Others(list, Cursor)
        BY <1>0, <3>1, <3>2 DEF Others
      <4>2. rank[a] <= rank[b]
        BY <2>3, <2>5, <3>1, <4>1 DEF Ordered
      <4> QED BY <1>1, <3>2, <4>2
    <3>3. CASE a = Cursor /\ b \in Task
      BY <1>0, <1>1, <1>3, <2>2, <3>1, <3>3
    <3>4. CASE a \in Task /\ b = Cursor
      BY <2>4, <2>5, <3>1, <3>4
    <3>5. CASE a = Cursor /\ b = Cursor
      BY <1>0, <1>1, <3>5
    <3> QED BY <1>4, <3>2, <3>3, <3>4, <3>5
  <2>6. \A u \in Task : IsLinked(new, u) => ~Before(new, u, Cursor)
    BY <1>0, <1>2, <2>4
  <2> QED BY <2>5, <2>6 DEF Ordered, new, moved
<1> QED BY <1>5, <1>6

-----------------------------------------------------------------------------
(* The order in which the scheduler comes to the tasks *)

\* From the cursor on, the scheduler comes to a before it comes to b.
VisitedBefore(list, a, b) ==
  IF Before(list, a, Cursor) THEN Before(list, b, Cursor) /\ Before(list, a, b)
  ELSE Before(list, b, Cursor) \/ Before(list, a, b)

LEMMA VisitsInOrder ==
  ASSUME NEW list, IsList(list), IsLinked(list, Cursor)
  PROVE  LET v == Visits(list)
         IN  \A i \in 1 .. Len(v) :
               /\ v[i] \in Task /\ IsLinked(list, v[i])
               /\ \A j \in 1 .. Len(v) : i < j => VisitedBefore(list, v[i], v[j])
<1> DEFINE c == Position(list, Cursor)
           n == Len(list)
           a == SubSeq(list, c + 1, n)
           b == SubSeq(list, 1, c - 1)
           v == Visits(list)
           Old(i) == IF i <= n - c THEN c + i ELSE i - (n - c)
<1>1. c \in 1 .. n /\ list[c] = Cursor /\ n \in Nat /\ list \in Seq(Node)
      /\ \A i \in 1 .. n : list[i] \in Node
  BY PositionOf, LenProperties, ElementOfSeq DEF IsList
<1>2. v = a \o b
  BY DEF Visits
<1> HIDE DEF c, n, v
<1>3. a \in Seq(Node) /\ Len(a) = n - c /\ \A i \in 1 .. n - c : a[i] = list[c + 1 + i - 1]
  BY <1>1, SubSeqProperties DEF n
<1>4. b \in Seq(Node) /\ Len(b) = c - 1 /\ \A i \in 1 .. c - 1 : b[i] = list[i]
  BY <1>1, SubSeqProperties DEF n
<1> HIDE DEF a, b
<1>5. Len(v) = n - 1
      /\ \A i \in 1 .. n - 1 : v[i] = IF i <= n - c THEN a[i] ELSE b[i - (n - c)]
  BY <1>1, <1>2, <1>3, <1>4, ConcatProperties
<1>6. ASSUME NEW i \in 1 .. n - 1
      PROVE  Old(i) \in 1 .. n /\ Old(i) # c /\ v[i] = list[Old(i)]
  <2>1. CASE i <= n - c
    <3>1. i \in 1 .. n - c /\ c + 1 + i - 1 = c + i
      BY <1>1, <2>1
    <3> QED BY <1>1, <1>3, <1>5, <2>1, <3>1
  <2>2. CASE ~(i <= n - c)
    <3>1. i - (n - c) \in 1 .. c - 1
      BY <1>1, <2>2
    <3> QED BY <1>1, <1>4, <1>5, <2>2, <3>1
  <2> QED BY <2>1, <2>2
<1>7. \A i \in 1 .. n - 1 :
        v[i] \in Task /\ IsLinked(list, v[i]) /\ Position(list, v[i]) = Old(i)
  <2> TAKE i \in 1 .. n - 1
  <2>1. Old(i) \in 1 .. n /\ Old(i) # c /\ v[i] = list[Old(i)]
    BY <1>6
  <2> HIDE DEF Old
  <2>2. IsLinked(list, v[i]) /\ Position(list, v[i]) = Old(i)
    BY <2>1, PositionIs DEF n
  <2>3. v[i] \in Node /\ v[i] # Cursor
    BY <1>1, <2>1, <2>2 DEF c
  <2> QED BY <2>2, <2>3 DEF Node
<1>8. ASSUME NEW i \in 1 .. n - 1, NEW j \in 1 .. n - 1, i < j
      PROVE  VisitedBefore(list, v[i], v[j])
  <2>1. /\ Before(list, v[i], Cursor) <=> Old(i) < c
        /\ Before(list, v[j], Cursor) <=> Old(j) < c
        /\ Before(list, v[i], v[j]) <=> Old(i) < Old(j)
    BY <1>7 DEF Before, c
  <2> QED BY <1>1, <1>8, <2>1 DEF VisitedBefore
<1> QED BY <1>5, <1>7, <1>8 DEF v

\* getNextTask finds a task if there is one, and the scheduler comes to it first.
LEMMA NextExists ==
  ASSUME NEW list, IsList(list), IsLinked(list, Cursor), NEW u \in Task, IsLinked(list, u)
  PROVE  NextTask(list) \in Task
<1> DEFINE c == Position(list, Cursor)
<1>1. /\ c \in 1 .. Len(list) /\ list[c] = Cursor /\ Len(list) \in Nat
      /\ \A i \in 1 .. Len(list) : list[i] \in Node /\ (list[i] # Cursor => list[i] \in Task)
  BY PositionOf, LenProperties, ElementOfSeq DEF IsList, Node
<1>2. u # Cursor /\ Position(list, u) \in 1 .. Len(list) /\ list[Position(list, u)] = u
  BY PositionOf, NodeAssumption
<1>3. ~IsEmpty(list)
  <2> SUFFICES ASSUME list[1] = list[Len(list)] PROVE FALSE
    BY DEF IsEmpty
  <2>1. Len(list) = 1
    BY <1>1 DEF IsList
  <2> QED BY <1>1, <1>2, <2>1
<1>4. CASE CursorIsLast(list)
  <2>1. NextTask(list) = list[1] /\ 1 \in 1 .. Len(list)
    BY <1>1, <1>3, <1>4 DEF NextTask
  <2>2. list[1] # Cursor
    BY <1>3, <1>4 DEF IsEmpty, CursorIsLast
  <2> QED BY <1>1, <2>1, <2>2
<1>5. CASE ~CursorIsLast(list)
  <2>1. c # Len(list)
    BY <1>1, <1>5 DEF CursorIsLast
  <2>2. c + 1 \in 1 .. Len(list) /\ c + 1 # c
    BY <1>1, <2>1
  <2>3. list[c + 1] # Cursor
    BY <1>1, <2>2 DEF IsList
  <2>4. NextTask(list) = list[c + 1]
    BY <1>3, <1>5 DEF NextTask
  <2> QED BY <1>1, <2>2, <2>3, <2>4
<1> QED BY <1>4, <1>5

LEMMA NextIsVisitedFirst ==
  ASSUME NEW list, IsList(list), IsLinked(list, Cursor), NEW t \in Task, NextTask(list) = t,
         NEW u \in Task, u # t, IsLinked(list, u)
  PROVE  VisitedBefore(list, t, u)
<1>1. CASE CursorIsLast(list)
  <2>1. Before(list, t, Cursor) /\ Before(list, u, Cursor) /\ Before(list, t, u)
    BY <1>1, NextIsFirst
  <2> QED BY <2>1 DEF VisitedBefore
<1>2. CASE ~CursorIsLast(list)
  <2>1. /\ Before(list, Cursor, t) /\ IsLinked(list, t)
        /\ Before(list, u, Cursor) \/ Before(list, t, u)
    BY <1>2, NextIsFirst
  <2>2. ~Before(list, t, Cursor)
    BY <2>1, BeforeTotal, NodeAssumption
  <2> QED BY <2>1, <2>2 DEF VisitedBefore
<1> QED BY <1>1, <1>2

\* In a list that is in order the scheduler comes to the tasks in the order of
\* the distances of their words from the cursor's.
LEMMA OrderedDistance ==
  ASSUME NEW list, IsLinked(list, Cursor), NEW rank \in [Node -> Rank], Ordered(list, rank),
         NEW a \in Task, NEW b \in Task, IsLinked(list, a), IsLinked(list, b),
         VisitedBefore(list, a, b)
  PROVE  Minus(rank[a], rank[Cursor]) <= Minus(rank[b], rank[Cursor])
<1>0. /\ Cursor \in Node /\ a \in Node /\ b \in Node /\ a # Cursor /\ b # Cursor
      /\ rank[a] \in Rank /\ rank[b] \in Rank /\ rank[Cursor] \in Rank
  BY NodeAssumption DEF Node
<1>1. /\ Before(list, a, Cursor) => rank[a] < rank[Cursor]
      /\ Before(list, b, Cursor) => rank[b] < rank[Cursor]
      /\ Before(list, Cursor, a) => rank[Cursor] <= rank[a]
      /\ Before(list, Cursor, b) => rank[Cursor] <= rank[b]
      /\ Before(list, a, b) => rank[a] <= rank[b]
  BY <1>0 DEF Ordered
<1>2. /\ Before(list, Cursor, a) <=> ~Before(list, a, Cursor)
      /\ Before(list, Cursor, b) <=> ~Before(list, b, Cursor)
  BY <1>0, BeforeTotal
<1>3. /\ rank[a] < rank[Cursor] => Minus(rank[a], rank[Cursor]) = rank[a] - rank[Cursor] + Wrap
      /\ rank[Cursor] <= rank[a] => Minus(rank[a], rank[Cursor]) = rank[a] - rank[Cursor]
      /\ rank[b] < rank[Cursor] => Minus(rank[b], rank[Cursor]) = rank[b] - rank[Cursor] + Wrap
      /\ rank[Cursor] <= rank[b] => Minus(rank[b], rank[Cursor]) = rank[b] - rank[Cursor]
  BY <1>0, MinusWord
<1>4. \/ rank[a] < rank[Cursor] /\ rank[b] < rank[Cursor] /\ rank[a] <= rank[b]
      \/ rank[Cursor] <= rank[a] /\ rank[b] < rank[Cursor]
      \/ rank[Cursor] <= rank[a] /\ rank[Cursor] <= rank[b] /\ rank[a] <= rank[b]
  BY <1>1, <1>2 DEF VisitedBefore
<1> QED BY <1>0, <1>3, <1>4, WordsAreIntegers

\* A cursor that was last has started over in front, and keeps the largest word
\* until run() finds a task ready.
Fronted(list, rank) ==
  /\ \A t \in Task : IsLinked(list, t) => Before(list, Cursor, t) /\ rank[t] < rank[Cursor]
  /\ \A a, b \in Task : IsLinked(list, a) /\ IsLinked(list, b) /\ Before(list, a, b) =>
       rank[a] <= rank[b]

LEMMA FrontedDistance ==
  ASSUME NEW list, IsLinked(list, Cursor), NEW rank \in [Node -> Rank], Fronted(list, rank),
         NEW a \in Task, NEW b \in Task, IsLinked(list, a), IsLinked(list, b),
         VisitedBefore(list, a, b)
  PROVE  Minus(rank[a], rank[Cursor]) <= Minus(rank[b], rank[Cursor])
<1>0. /\ Cursor \in Node /\ a # Cursor /\ b # Cursor
      /\ rank[a] \in Rank /\ rank[b] \in Rank /\ rank[Cursor] \in Rank
  BY NodeAssumption DEF Node
<1>1. ~Before(list, a, Cursor) /\ ~Before(list, b, Cursor)
  BY <1>0, BeforeTotal DEF Fronted
<1>2. rank[a] < rank[Cursor] /\ rank[b] < rank[Cursor] /\ rank[a] <= rank[b]
  BY <1>1 DEF Fronted, VisitedBefore
<1>3. /\ Minus(rank[a], rank[Cursor]) = rank[a] - rank[Cursor] + Wrap
      /\ Minus(rank[b], rank[Cursor]) = rank[b] - rank[Cursor] + Wrap
  BY <1>0, <1>2, MinusWord
<1> QED BY <1>0, <1>2, <1>3, WordsAreIntegers

\* getNextTask leaves a list in order, or brings the cursor to the front of it.
LEMMA AdvanceKeepsOrder ==
  ASSUME NEW list, IsList(list), IsLinked(list, Cursor), NEW rank, Ordered(list, rank)
  PROVE  Ordered(AdvanceCursor(list), rank) \/ Fronted(AdvanceCursor(list), rank)
<1> DEFINE new == AdvanceCursor(list)
<1>1. CASE IsEmpty(list) \/ ~CursorIsLast(list)
  BY <1>1 DEF AdvanceCursor
<1>2. CASE ~IsEmpty(list) /\ CursorIsLast(list)
  <2>0. Cursor \in Node /\ Task \subseteq Node /\ Cursor \notin Task
    BY NodeAssumption DEF Node
  <2>1. new = InsertAt(Unlink(list, Cursor), 1, Cursor) /\ 1 \in 1 .. Len(list)
    BY <1>2, PositionOf, LenProperties DEF AdvanceCursor, PushFront, IsList
  <2>2. Position(list, Cursor) = Len(list)
    BY <1>2, <2>1, PositionIs, LenProperties DEF CursorIsLast, IsList
  <2>3. IsList(new) /\ \A m \in Node : IsLinked(new, m) <=> IsLinked(list, m)
    BY AdvanceCursorList
  <2> HIDE DEF new
  <2>4. \A a, b \in Others(list, Cursor) : Before(new, a, b) <=> Before(list, a, b)
    BY <2>0, <2>1, MoveOrder
  <2>5. ASSUME NEW u \in Task, IsLinked(list, u)
        PROVE  Before(list, u, Cursor) /\ Before(new, Cursor, u)
    <3>1. u \in Others(list, Cursor)
      BY <2>0, <2>5 DEF Others
    <3>2. LET p == Position(list, Cursor)
              q == Position(list, u)
          IN  q < p => (Before(new, Cursor, u) <=> 1 <= q)
      BY <2>0, <2>1, <3>1, MoveOrder
    <3>3. /\ Position(list, u) \in 1 .. Len(list) /\ list[Position(list, u)] = u
          /\ list[Position(list, Cursor)] = Cursor
      BY <2>5, PositionOf
    <3>4. Position(list, u) < Position(list, Cursor)
      BY <2>0, <2>2, <3>3, LenProperties DEF IsList
    <3> QED BY <3>2, <3>3, <3>4 DEF Before
  <2>6. \A t \in Task : IsLinked(new, t) => Before(new, Cursor, t) /\ rank[t] < rank[Cursor]
    BY <2>0, <2>3, <2>5 DEF Ordered
  <2>7. \A a, b \in Task : IsLinked(new, a) /\ IsLinked(new, b) /\ Before(new, a, b) =>
          rank[a] <= rank[b]
    BY <2>0, <2>3, <2>4 DEF Ordered, Others
  <2> QED BY <2>6, <2>7 DEF Fronted, new
<1> QED BY <1>1, <1>2

\* A cursor that is in front already stays there,
LEMMA FrontedStays ==
  ASSUME NEW list, IsList(list), IsLinked(list, Cursor), NEW rank, Fronted(list, rank)
  PROVE  AdvanceCursor(list) = list
<1> SUFFICES ASSUME ~IsEmpty(list), CursorIsLast(list) PROVE FALSE
  BY DEF AdvanceCursor
<1>1. Position(list, Cursor) \in 1 .. Len(list) /\ Len(list) \in Nat
      /\ \A i \in 1 .. Len(list) : list[i] \in Node
  BY PositionOf, LenProperties, ElementOfSeq DEF IsList
<1>2. 1 \in 1 .. Len(list) /\ Len(list) \in 1 .. Len(list)
  BY <1>1
<1>3. Position(list, Cursor) = Len(list)
  BY <1>2, PositionIs DEF CursorIsLast
<1>4. list[1] # Cursor /\ list[1] \in Node
  BY <1>1, <1>2 DEF IsEmpty, CursorIsLast
<1>5. list[1] \in Task /\ IsLinked(list, list[1]) /\ Position(list, list[1]) = 1
  BY <1>2, <1>4, PositionIs DEF Node
<1>6. Position(list, Cursor) < 1
  BY <1>5 DEF Fronted, Before
<1> QED BY <1>1, <1>6

\* and the list is in order as soon as it takes the word of the first task.
LEMMA FrontedBegins ==
  ASSUME NEW list, IsList(list), IsLinked(list, Cursor), NEW rank \in [Node -> Rank],
         Fronted(list, rank), NEW t \in Task, NextTask(list) = t
  PROVE  Ordered(list, [rank EXCEPT ![Cursor] = rank[t]])
<1> DEFINE moved == [rank EXCEPT ![Cursor] = rank[t]]
<1>0. Cursor \in Node /\ Task \subseteq Node /\ Cursor \notin Task /\ IsLinked(list, t)
  BY NodeAssumption, NextIsFirst DEF Node
<1>1. /\ moved[Cursor] = rank[t]
      /\ \A u \in Task : moved[u] = rank[u]
      /\ \A u \in Node : rank[u] \in Int
  BY <1>0, WordsAreIntegers
<1> HIDE DEF moved
<1>2. \A u \in Task : IsLinked(list, u) => ~Before(list, u, Cursor)
  BY <1>0, BeforeTotal DEF Fronted
<1>3. \A u \in Task : IsLinked(list, u) => rank[t] <= rank[u]
  <2> SUFFICES ASSUME NEW u \in Task, IsLinked(list, u), u # t PROVE rank[t] <= rank[u]
    BY <1>0, <1>1
  <2>1. VisitedBefore(list, t, u)
    BY NextIsVisitedFirst
  <2>2. Before(list, t, u)
    BY <1>0, <1>2, <2>1 DEF VisitedBefore
  <2> QED BY <1>0, <2>2 DEF Fronted
<1>4. ~Before(list, Cursor, Cursor)
  BY PositionOf DEF Before
<1>5. \A a, b \in Node : IsLinked(list, a) /\ IsLinked(list, b) /\ Before(list, a, b) =>
        moved[a] <= moved[b]
  BY <1>0, <1>1, <1>2, <1>3, <1>4 DEF Fronted, Node
<1> QED BY <1>2, <1>5 DEF Ordered, moved

\* Either way, the list is in order once run() has picked its next task.
LEMMA BeginKeepsOrder ==
  ASSUME NEW list, IsList(list), IsLinked(list, Cursor), NEW rank \in [Node -> Rank],
         Ordered(list, rank) \/ Fronted(list, rank), NEW t \in Task, NextTask(list) = t
  PROVE  Ordered(AdvanceCursor(list), [rank EXCEPT ![Cursor] = rank[t]])
BY AdvancedOrder, FrontedBegins, FrontedStays

\* The task getNextTask returns is the nearest one.
LEMMA NextIsNearest ==
  ASSUME NEW list, IsList(list), IsLinked(list, Cursor), NEW rank \in [Node -> Rank],
         Ordered(list, rank) \/ Fronted(list, rank), NEW t \in Task, NextTask(list) = t,
         NEW u \in Task, IsLinked(list, u)
  PROVE  Minus(rank[t], rank[Cursor]) <= Minus(rank[u], rank[Cursor])
<1>1. IsLinked(list, t)
  BY NextIsFirst
<1>2. CASE u = t
  BY <1>2, MinusWord, WordsAreIntegers, NodeAssumption DEF Node
<1>3. CASE u # t
  BY <1>1, <1>3, NextIsVisitedFirst, OrderedDistance, FrontedDistance
<1> QED BY <1>2, <1>3

\* A list without tasks is in order.
LEMMA OnlyCursorOrdered ==
  ASSUME NEW rank
  PROVE  Ordered(<<Cursor>>, rank) /\ \A t \in Task : ~IsLinked(<<Cursor>>, t)
<1>1. \A n : IsLinked(<<Cursor>>, n) => n = Cursor
  BY DEF IsLinked, Contains
<1>2. IsLinked(<<Cursor>>, Cursor)
  BY DEF IsLinked, Contains
<1>3. ~Before(<<Cursor>>, Cursor, Cursor)
  BY <1>2, PositionOf DEF Before
<1> QED BY <1>1, <1>3, NodeAssumption DEF Ordered

\* A task that goes leaves the order of the others.
LEMMA UnlinkKeepsOrder ==
  ASSUME NEW list, IsList(list), IsLinked(list, Cursor), NEW was, NEW rank, NEW t \in Task,
         \A m \in Node : m # t => rank[m] = was[m]
  PROVE  /\ Ordered(list, was) => Ordered(Unlink(list, t), rank)
         /\ Fronted(list, was) => Fronted(Unlink(list, t), rank)
<1> DEFINE new == Unlink(list, t)
<1>0. Cursor \in Node /\ Task \subseteq Node /\ Cursor # t
  BY NodeAssumption DEF Node
<1>1. ~IsLinked(new, t) /\ \A m \in Node : m # t => (IsLinked(new, m) <=> IsLinked(list, m))
  BY <1>0, UnlinkList
<1>2. \A a, b \in Others(list, t) : Before(new, a, b) <=> Before(list, a, b)
  BY <1>0, UnlinkOrder
<1> HIDE DEF new
<1>3. \A b \in Others(list, t) : rank[b] = was[b]
  BY DEF Others
<1>4. ASSUME Ordered(list, was) PROVE Ordered(new, rank)
  BY <1>0, <1>1, <1>2, <1>3, <1>4, PlacedOrder
<1>5. ASSUME Fronted(list, was) PROVE Fronted(new, rank)
  <2>1. Cursor \in Others(list, t) /\ rank[Cursor] = was[Cursor]
    BY <1>0 DEF Others
  <2>2. \A u \in Task : IsLinked(new, u) => u \in Others(list, t) /\ IsLinked(list, u)
    BY <1>0, <1>1 DEF Others
  <2> QED BY <1>2, <1>3, <1>5, <2>1, <2>2 DEF Fronted
<1> QED BY <1>4, <1>5 DEF new

\* sortTask puts a task with a new word where it belongs.  A task that gets the
\* cursor's word is on the right side of it if it was before.
LEMMA SortKeepsOrder ==
  ASSUME NEW list, IsList(list), IsLinked(list, Cursor), NEW was \in [Node -> Rank],
         Ordered(list, was), NEW t \in Task, IsLinked(list, t), NEW k \in Rank,
         k # was[Cursor] \/ was[t] = was[Cursor]
  PROVE  LET rank == [was EXCEPT ![t] = k]
         IN  Ordered(SortTask(list, rank, t), rank)
<1> DEFINE rank == [was EXCEPT ![t] = k]
           new == SortTask(list, rank, t)
<1>0. Cursor \in Node /\ t \in Node /\ Cursor # t
  BY NodeAssumption DEF Node
<1>1. /\ rank \in [Node -> Rank] /\ rank[t] = k
      /\ \A m \in Node : m # t => rank[m] = was[m]
  BY <1>0
<1> HIDE DEF rank
<1>2. Keeps(list, new, t)
  BY <1>0, <1>1, SortTaskList
<1>3. OthersSorted(list, rank, t)
  BY <1>1 DEF Ordered, OthersSorted, Others
<1>4. Sorts(list, new, rank, t)
  BY <1>0, <1>1, <1>3, SortTaskOrder
<1> HIDE DEF new
<1>5. Cursor \in Others(list, t)
  BY <1>0 DEF Others
<1>6. ASSUME Before(new, t, Cursor) PROVE rank[t] < rank[Cursor]
  <2>1. CASE k # was[Cursor]
    <3>1. rank[t] <= rank[Cursor]
      BY <1>4, <1>5, <1>6 DEF Sorts
    <3> QED BY <1>0, <1>1, <2>1, <3>1, WordsAreIntegers
  <2>2. CASE was[t] = was[Cursor]
    <3>1. ~Before(list, t, Cursor)
      BY <1>0, <2>2, WordsAreIntegers DEF Ordered
    <3>2. Before(list, Cursor, t)
      BY <1>0, <3>1, BeforeTotal
    <3> QED BY <1>4, <1>5, <1>6, <3>2 DEF Sorts
  <2> QED BY <2>1, <2>2
<1>7. ~Before(new, t, t)
  BY <1>0, <1>2, PositionOf DEF Before, Keeps
<1>8. IsLinked(new, t) =>
        /\ ~Before(new, t, t)
        /\ \A b \in Others(list, t) :
             /\ Before(new, t, b) => rank[t] <= rank[b]
             /\ Before(new, b, t) => rank[b] <= rank[t]
        /\ Before(new, t, Cursor) => rank[t] < rank[Cursor]
  BY <1>4, <1>6, <1>7 DEF Sorts
<1>9. \A a, b \in Others(list, t) : Before(new, a, b) <=> Before(list, a, b)
  BY <1>4 DEF Sorts
<1>10. \A b \in Others(list, t) : rank[b] = was[b]
  BY <1>1 DEF Others
<1>11. /\ rank[Cursor] = was[Cursor]
       /\ \A m \in Node : m # t => (IsLinked(new, m) <=> IsLinked(list, m))
  BY <1>0, <1>1, <1>2 DEF Keeps
<1>12. Ordered(new, rank)
  BY <1>8, <1>9, <1>10, <1>11, PlacedOrder
<1> QED BY <1>12 DEF new, rank

\* addTask puts a new task behind the cursor, with the cursor's word.
LEMMA AddKeepsOrder ==
  ASSUME NEW list, IsList(list), IsLinked(list, Cursor), NEW was \in [Node -> Rank],
         Ordered(list, was), NEW t \in Task, ~IsLinked(list, t)
  PROVE  Ordered(AddedList(list, was, t), AddedRank(was, t))
<1> DEFINE new == AddedList(list, was, t)
           rank == AddedRank(was, t)
<1>0. Cursor \in Node /\ t \in Node /\ Cursor # t
  BY NodeAssumption DEF Node
<1>1. /\ rank[Cursor] = was[Cursor] /\ rank[t] = was[Cursor]
      /\ \A b \in Others(list, t) : rank[b] = was[b]
  BY <1>0 DEF AddedRank, Others
<1>2. IsList(new) /\ \A m \in Node : IsLinked(new, m) <=> m = t \/ IsLinked(list, m)
  BY AddedListList
<1>3. OthersSorted(list, was, t)
  BY DEF Ordered, OthersSorted, Others
<1>4. /\ \A a, b \in Others(list, t) : Before(new, a, b) <=> Before(list, a, b)
      /\ \A b \in Others(list, t) :
           /\ Before(new, t, b) => was[Cursor] <= was[b]
           /\ Before(new, b, t) => was[b] <= was[Cursor]
      /\ ~Before(new, t, Cursor)
  BY <1>3, AddedListOrder
<1> HIDE DEF new, rank
<1>5. ~Before(new, t, t)
  BY <1>0, <1>2, PositionOf DEF Before
<1>6. \A m \in Node : m # t => (IsLinked(new, m) <=> IsLinked(list, m))
  BY <1>2
<1>7. \A b \in Others(list, t) :
        /\ Before(new, t, b) => rank[t] <= rank[b]
        /\ Before(new, b, t) => rank[b] <= rank[t]
  BY <1>1, <1>4
<1>8. Ordered(new, rank)
  BY <1>1, <1>4, <1>5, <1>6, <1>7, PlacedOrder
<1> QED BY <1>8 DEF new, rank
=============================================================================
