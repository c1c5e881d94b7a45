---------------------------- MODULE PrintfProofs ----------------------------
(***************************************************************************)
(* Theorems about module Printf, for every width of a long, and every      *)
(* format with the arguments that it asks for.                             *)
(***************************************************************************)
EXTENDS Printf, SequenceTheorems, WellFoundedInduction, TLAPS

\* A set of naturals with a member has a least one.
LEMMA LeastMember ==
    ASSUME NEW S, S \subseteq Nat, S # {}
    PROVE  \E k \in S : \A j \in S : k <= j
<1> DEFINE Less == OpToRel(<, Nat)
<1>1. \A i, j \in Nat : i < j => <<i, j>> \in Less
  BY DEF OpToRel
<1>2. IsWellFoundedOn(Less, Nat)
  BY NatLessThanWellFounded
<1> HIDE DEF Less
<1>3. PICK k \in S : \A j \in S : ~(<<j, k>> \in Less)
  BY <1>2, WFMin
<1>4. \A j \in S : ~(j < k)
  BY <1>1, <1>3
<1>5. \A j \in S : k <= j
  BY <1>4
<1> QED
  BY <1>5

\* Induction up to a bound.
LEMMA UpTo ==
    ASSUME NEW n \in Nat, NEW S, 0 \in S,
           \A k \in 0 .. n - 1 : k \in S => k + 1 \in S
    PROVE  \A k \in 0 .. n : k \in S
<1> DEFINE Missing == {k \in 0 .. n : k \notin S}
<1>1. SUFFICES ASSUME Missing # {} PROVE FALSE
  OBVIOUS
<1>2. Missing \subseteq Nat
  OBVIOUS
<1>3. PICK k \in Missing : \A j \in Missing : k <= j
  <2> HIDE DEF Missing
  <2> QED
    BY <1>1, <1>2, LeastMember
<1>4. k \in Nat /\ k # 0 /\ k \in 0 .. n /\ k \notin S
  OBVIOUS
<1>5. k - 1 \in S
  <2>1. k - 1 \in 0 .. n /\ ~(k <= k - 1)
    BY <1>4
  <2> QED
    BY <1>3, <2>1
<1>6. (k - 1) + 1 \in S
  BY <1>4, <1>5
<1> QED
  BY <1>4, <1>6

-----------------------------------------------------------------------------
(***************************************************************************)
(* The recursive functions on a format are what their equations say.       *)
(***************************************************************************)

LEMMA FitsIs ==
    ASSUME NEW fmt, NEW args, Len(fmt) \in Nat
    PROVE  \A p \in 1 .. Len(fmt) + 2 : \A a \in Nat :
             LET fits == Fits(fmt, args) IN
             fits[p][a] <=>
               (\/ p > Len(fmt)
                \/ fmt[p] # "%" /\ fits[p + 1][a]
                \/ /\ fmt[p] = "%" /\ p < Len(fmt)
                   /\ fmt[p + 1] \notin Conversions /\ fits[p + 2][a]
                \/ /\ fmt[p] = "%" /\ p < Len(fmt) /\ fmt[p + 1] \in Conversions
                   /\ a \in DOMAIN args /\ args[a] \in Argument(fmt[p + 1])
                   /\ fits[p + 2][a + 1])
<1> DEFINE N == Len(fmt)
           Row(f, p) ==
             [a \in Nat |->
                \/ p > N
                \/ fmt[p] # "%" /\ f[p + 1][a]
                \/ /\ fmt[p] = "%" /\ p < N
                   /\ fmt[p + 1] \notin Conversions /\ f[p + 2][a]
                \/ /\ fmt[p] = "%" /\ p < N /\ fmt[p + 1] \in Conversions
                   /\ a \in DOMAIN args /\ args[a] \in Argument(fmt[p + 1])
                   /\ f[p + 2][a + 1]]
           IsFrom(f, n) == f = [p \in n .. N + 2 |-> Row(f, p)]
           Reached == {j \in 0 .. N + 2 : \E f : IsFrom(f, N + 3 - j)}
<1>0. N \in Nat
  OBVIOUS
<1>1. \A f, g : \A p \in 1 .. N + 2 :
         (p <= N => f[p + 1] = g[p + 1] /\ f[p + 2] = g[p + 2]) => Row(f, p) = Row(g, p)
  OBVIOUS
<1> HIDE DEF N, Row
<1>2. 0 \in Reached
  <2> DEFINE f == [p \in {} |-> 0]
  <2>1. IsFrom(f, N + 3 - 0)
    BY <1>0
  <2> HIDE DEF f, IsFrom
  <2> QED
    BY <1>0, <2>1
<1>3. ASSUME NEW j \in 0 .. (N + 2) - 1, j \in Reached
      PROVE  j + 1 \in Reached
  <2> HIDE DEF IsFrom
  <2>1. PICK f : IsFrom(f, N + 3 - j)
    BY <1>3
  <2> DEFINE n == N + 2 - j
             g == [p \in n .. N + 2 |-> IF p = n THEN Row(f, p) ELSE f[p]]
  <2>2. n \in 1 .. N + 2 /\ N + 3 - j = n + 1 /\ N + 3 - (j + 1) = n
    BY <1>0
  <2> HIDE DEF n
  <2>3. f = [p \in n + 1 .. N + 2 |-> Row(f, p)]
    BY <2>1, <2>2 DEF IsFrom
  <2>4. \A p \in n + 1 .. N + 2 : g[p] = f[p]
    BY <1>0, <2>2
  <2>5. ASSUME NEW p \in n .. N + 2 PROVE Row(f, p) = Row(g, p)
    <3>1. p \in 1 .. N + 2 /\ (p <= N => p + 1 \in n + 1 .. N + 2 /\ p + 2 \in n + 1 .. N + 2)
      BY <1>0, <2>2
    <3> HIDE DEF g
    <3> QED
      BY <1>1, <2>4, <3>1
  <2>6. ASSUME NEW p \in n .. N + 2 PROVE g[p] = Row(g, p)
    <3>1. p # n => p \in n + 1 .. N + 2
      BY <1>0, <2>2
    <3>2. p # n => f[p] = Row(f, p)
      BY <2>3, <3>1
    <3>3. g[p] = IF p = n THEN Row(f, p) ELSE f[p]
      OBVIOUS
    <3> HIDE DEF g
    <3> QED
      BY <2>5, <3>2, <3>3
  <2>7. IsFrom(g, n)
    <3>1. g = [p \in n .. N + 2 |-> g[p]]
      OBVIOUS
    <3> HIDE DEF g
    <3> QED
      BY <2>6, <3>1 DEF IsFrom
  <2> HIDE DEF g
  <2> QED
    BY <1>0, <2>2, <2>7
<1>4. \E f : IsFrom(f, 1)
  <2>1. \A j \in 0 .. N + 2 : j \in Reached
    <3>1. N + 2 \in Nat
      BY <1>0
    <3> HIDE DEF Reached
    <3> QED
      BY <1>2, <1>3, <3>1, UpTo
  <2>2. N + 2 \in Reached /\ N + 3 - (N + 2) = 1
    BY <1>0, <2>1
  <2> HIDE DEF IsFrom
  <2> QED
    BY <2>2
<1> DEFINE fits == CHOOSE f : IsFrom(f, 1)
<1>5. IsFrom(fits, 1)
  <2> HIDE DEF IsFrom
  <2> QED
    BY <1>4
<1>6. Fits(fmt, args) = fits
  BY DEF Fits, N, Row
<1> HIDE DEF fits
<1>7. \A p \in 1 .. N + 2 : fits[p] = Row(fits, p)
  BY <1>5
<1>8. \A p \in 1 .. N + 2 : \A a \in Nat :
         fits[p][a] <=>
           (\/ p > N
            \/ fmt[p] # "%" /\ fits[p + 1][a]
            \/ /\ fmt[p] = "%" /\ p < N
               /\ fmt[p + 1] \notin Conversions /\ fits[p + 2][a]
            \/ /\ fmt[p] = "%" /\ p < N /\ fmt[p + 1] \in Conversions
               /\ a \in DOMAIN args /\ args[a] \in Argument(fmt[p + 1])
               /\ fits[p + 2][a + 1])
  BY <1>7 DEF Row
<1> QED
  BY <1>6, <1>8 DEF N

\* The same at one position, in a form to instantiate first and to expand after.
FitsEquation(fmt, args, p, a) ==
    LET fits == Fits(fmt, args) IN
    fits[p][a] =>
      /\ fmt[p] # "%" => fits[p + 1][a]
      /\ fmt[p] = "%" => p < Len(fmt)
      /\ fmt[p] = "%" /\ fmt[p + 1] \notin Conversions => fits[p + 2][a]
      /\ fmt[p] = "%" /\ fmt[p + 1] \in Conversions =>
            args[a] \in Argument(fmt[p + 1]) /\ fits[p + 2][a + 1]

LEMMA FitsAt ==
    ASSUME NEW fmt, NEW args, Len(fmt) \in Nat,
           NEW p \in 1 .. Len(fmt), NEW a \in Nat
    PROVE  FitsEquation(fmt, args, p, a)
<1>1. p \in 1 .. Len(fmt) + 2 /\ ~(p > Len(fmt))
  OBVIOUS
<1> QED
  BY <1>1, FitsIs DEF FitsEquation

\* Concatenation, for steps in which it stays as it is.
Cat(s, t) == s \o t

LEMMA CatIs ==
    /\ \A s, t \in Seq(Char) : Cat(s, t) \in Seq(Char)
    /\ \A s, t, u \in Seq(Char) : Cat(Cat(s, t), u) = Cat(s, Cat(t, u))
    /\ \A s \in Seq(Char) : Cat(s, <<>>) = s /\ Cat(<<>>, s) = s
  BY ConcatProperties, ConcatAssociative, ConcatEmptySeq DEF Cat

LEMMA TextIs ==
    ASSUME NEW fmt, NEW args, Len(fmt) \in Nat
    PROVE  \A p \in 1 .. Len(fmt) + 2 : \A a \in Nat :
             LET text == TextFrom(fmt, args) IN
             /\ p > Len(fmt) => text[p][a] = <<>>
             /\ p <= Len(fmt) /\ fmt[p] # "%" => text[p][a] = Cat(<<fmt[p]>>, text[p + 1][a])
             /\ p <= Len(fmt) /\ fmt[p] = "%" /\ fmt[p + 1] \in Conversions =>
                   text[p][a] = Cat(Shown(fmt[p + 1], args[a]), text[p + 2][a + 1])
             /\ p <= Len(fmt) /\ fmt[p] = "%" /\ fmt[p + 1] \notin Conversions =>
                   text[p][a] = Cat(IF fmt[p + 1] = "%" THEN <<"%">> ELSE <<"%", fmt[p + 1]>>,
                                    text[p + 2][a])
<1> DEFINE N == Len(fmt)
           Row(f, p) ==
             [a \in Nat |->
                IF p > N THEN <<>>
                ELSE IF fmt[p] # "%" THEN Cat(<<fmt[p]>>, f[p + 1][a])
                ELSE IF fmt[p + 1] \in Conversions
                     THEN Cat(Shown(fmt[p + 1], args[a]), f[p + 2][a + 1])
                ELSE Cat(IF fmt[p + 1] = "%" THEN <<"%">> ELSE <<"%", fmt[p + 1]>>,
                         f[p + 2][a])]
           IsFrom(f, n) == f = [p \in n .. N + 2 |-> Row(f, p)]
           Reached == {j \in 0 .. N + 2 : \E f : IsFrom(f, N + 3 - j)}
<1>0. N \in Nat
  OBVIOUS
<1>1. \A f, g : \A p \in 1 .. N + 2 :
         (p <= N => f[p + 1] = g[p + 1] /\ f[p + 2] = g[p + 2]) => Row(f, p) = Row(g, p)
  OBVIOUS
<1> HIDE DEF N, Row
<1>2. 0 \in Reached
  <2> DEFINE f == [p \in {} |-> 0]
  <2>1. IsFrom(f, N + 3 - 0)
    BY <1>0
  <2> HIDE DEF f, IsFrom
  <2> QED
    BY <1>0, <2>1
<1>3. ASSUME NEW j \in 0 .. (N + 2) - 1, j \in Reached
      PROVE  j + 1 \in Reached
  <2> HIDE DEF IsFrom
  <2>1. PICK f : IsFrom(f, N + 3 - j)
    BY <1>3
  <2> DEFINE n == N + 2 - j
             g == [p \in n .. N + 2 |-> IF p = n THEN Row(f, p) ELSE f[p]]
  <2>2. n \in 1 .. N + 2 /\ N + 3 - j = n + 1 /\ N + 3 - (j + 1) = n
    BY <1>0
  <2> HIDE DEF n
  <2>3. f = [p \in n + 1 .. N + 2 |-> Row(f, p)]
    BY <2>1, <2>2 DEF IsFrom
  <2>4. \A p \in n + 1 .. N + 2 : g[p] = f[p]
    BY <1>0, <2>2
  <2>5. ASSUME NEW p \in n .. N + 2 PROVE Row(f, p) = Row(g, p)
    <3>1. p \in 1 .. N + 2 /\ (p <= N => p + 1 \in n + 1 .. N + 2 /\ p + 2 \in n + 1 .. N + 2)
      BY <1>0, <2>2
    <3> HIDE DEF g
    <3> QED
      BY <1>1, <2>4, <3>1
  <2>6. ASSUME NEW p \in n .. N + 2 PROVE g[p] = Row(g, p)
    <3>1. p # n => p \in n + 1 .. N + 2
      BY <1>0, <2>2
    <3>2. p # n => f[p] = Row(f, p)
      BY <2>3, <3>1
    <3>3. g[p] = IF p = n THEN Row(f, p) ELSE f[p]
      OBVIOUS
    <3> HIDE DEF g
    <3> QED
      BY <2>5, <3>2, <3>3
  <2>7. IsFrom(g, n)
    <3>1. g = [p \in n .. N + 2 |-> g[p]]
      OBVIOUS
    <3> HIDE DEF g
    <3> QED
      BY <2>6, <3>1 DEF IsFrom
  <2> HIDE DEF g
  <2> QED
    BY <1>0, <2>2, <2>7
<1>4. \E f : IsFrom(f, 1)
  <2>1. \A j \in 0 .. N + 2 : j \in Reached
    <3>1. N + 2 \in Nat
      BY <1>0
    <3> HIDE DEF Reached
    <3> QED
      BY <1>2, <1>3, <3>1, UpTo
  <2>2. N + 2 \in Reached /\ N + 3 - (N + 2) = 1
    BY <1>0, <2>1
  <2> HIDE DEF IsFrom
  <2> QED
    BY <2>2
<1> DEFINE text == CHOOSE f : IsFrom(f, 1)
<1>5. IsFrom(text, 1)
  <2> HIDE DEF IsFrom
  <2> QED
    BY <1>4
<1>6. TextFrom(fmt, args) = text
  BY DEF TextFrom, N, Row, Cat
<1> HIDE DEF text
<1>7. \A p \in 1 .. N + 2 : text[p] = Row(text, p)
  BY <1>5
<1>8. ASSUME NEW p \in 1 .. N + 2, NEW a \in Nat
      PROVE  /\ p > N => text[p][a] = <<>>
             /\ p <= N /\ fmt[p] # "%" => text[p][a] = Cat(<<fmt[p]>>, text[p + 1][a])
             /\ p <= N /\ fmt[p] = "%" /\ fmt[p + 1] \in Conversions =>
                   text[p][a] = Cat(Shown(fmt[p + 1], args[a]), text[p + 2][a + 1])
             /\ p <= N /\ fmt[p] = "%" /\ fmt[p + 1] \notin Conversions =>
                   text[p][a] = Cat(IF fmt[p + 1] = "%" THEN <<"%">> ELSE <<"%", fmt[p + 1]>>,
                                    text[p + 2][a])
  <2>1. text[p][a] = Row(text, p)[a]
    BY <1>7
  <2>2. p <= N <=> ~(p > N)
    BY <1>0
  <2> QED
    BY <2>1, <2>2 DEF Row
<1> QED
  BY <1>6, <1>8 DEF N

-----------------------------------------------------------------------------
(***************************************************************************)
(* Numerals.                                                               *)
(***************************************************************************)

\* The powers of a base grow.
LEMMA PowersAre ==
    ASSUME NEW b \in Nat, b >= 2
    PROVE  /\ Powers(b)[0] = 1
           /\ \A l \in 0 .. LONG : Powers(b)[l] \in Nat \ {0} /\ l < Powers(b)[l]
           /\ \A l \in 1 .. LONG : Powers(b)[l] = b * Powers(b)[l - 1]
           /\ \A l \in 0 .. LONG : \A k \in 0 .. l : Powers(b)[k] <= Powers(b)[l]
<1> DEFINE IsRun(f, n) == f = [l \in 0 .. n |-> IF l = 0 THEN 1 ELSE b * f[l - 1]]
           Reached == {n \in 0 .. LONG : \E f : IsRun(f, n)}
<1>0. LONG \in Nat
  BY PrintfAssumption
<1>1. 0 \in Reached
  <2> DEFINE f == [l \in 0 .. 0 |-> 1]
  <2>1. IsRun(f, 0)
    OBVIOUS
  <2> HIDE DEF f, IsRun
  <2> QED
    BY <1>0, <2>1
<1>2. ASSUME NEW n \in 0 .. LONG - 1, n \in Reached
      PROVE  n + 1 \in Reached
  <2> HIDE DEF IsRun
  <2>1. PICK f : IsRun(f, n)
    BY <1>2
  <2> DEFINE g == [l \in 0 .. n + 1 |-> IF l <= n THEN f[l] ELSE b * f[n]]
  <2>2. IsRun(g, n + 1)
    BY <1>0, <2>1 DEF IsRun
  <2> HIDE DEF g
  <2> QED
    BY <1>0, <2>2
<1>3. \E f : IsRun(f, LONG)
  <2>1. \A n \in 0 .. LONG : n \in Reached
    <3> HIDE DEF Reached
    <3> QED
      BY <1>0, <1>1, <1>2, UpTo
  <2> HIDE DEF IsRun
  <2> QED
    BY <1>0, <2>1
<1> DEFINE power == CHOOSE f : IsRun(f, LONG)
<1>4. IsRun(power, LONG)
  <2> HIDE DEF IsRun
  <2> QED
    BY <1>3
<1>5. Powers(b) = power
  BY DEF Powers
<1> HIDE DEF power
<1>6. power[0] = 1 /\ \A l \in 1 .. LONG : power[l] = b * power[l - 1]
  BY <1>0, <1>4
<1> DEFINE Big == {l \in 0 .. LONG : power[l] \in Nat /\ l < power[l]}
<1>7. ASSUME NEW l \in 0 .. LONG - 1, l \in Big
      PROVE  /\ l + 1 \in Big /\ power[l] <= power[l + 1]
  <2> DEFINE x == power[l]
  <2>1. x \in Nat /\ l < x /\ l \in Nat /\ power[l + 1] = b * x
    BY <1>0, <1>6, <1>7
  <2> HIDE DEF x
  <2>2. b * x = x + x + (b - 2) * x /\ (b - 2) * x >= 0 /\ b * x \in Nat
    BY <2>1
  <2>3. power[l + 1] \in Nat /\ l + 1 < power[l + 1] /\ x <= power[l + 1]
    BY <2>1, <2>2
  <2> QED
    BY <1>0, <2>3 DEF x
<1>8. \A l \in 0 .. LONG : l \in Big
  <2>1. 0 \in Big
    BY <1>0, <1>6
  <2> HIDE DEF Big
  <2> QED
    BY <1>0, <1>7, <2>1, UpTo
<1>9. \A l \in 0 .. LONG : \A k \in 0 .. l : power[k] <= power[l]
  <2> DEFINE Above == {l \in 0 .. LONG : \A k \in 0 .. l : power[k] <= power[l]}
  <2>1. 0 \in Above
    BY <1>0, <1>6
  <2>2. ASSUME NEW l \in 0 .. LONG - 1, l \in Above
        PROVE  l + 1 \in Above
    <3>1. /\ power[l] \in Nat /\ power[l + 1] \in Nat /\ power[l] <= power[l + 1]
          /\ \A k \in 0 .. l : power[k] \in Nat
      BY <1>0, <1>7, <1>8
    <3>2. ASSUME NEW k \in 0 .. l + 1 PROVE power[k] <= power[l + 1]
      <4>1. CASE k = l + 1
        BY <3>1, <4>1
      <4>2. CASE k \in 0 .. l
        BY <2>2, <3>1, <4>2
      <4> QED
        BY <1>0, <4>1, <4>2
    <3> QED
      BY <1>0, <3>2
  <2>3. \A l \in 0 .. LONG : l \in Above
    <3> HIDE DEF Above
    <3> QED
      BY <1>0, <2>1, <2>2, UpTo
  <2> QED
    BY <2>3
<1> QED
  BY <1>5, <1>6, <1>8, <1>9

\* Every number has a length, and no two.
LEMMA LengthIs ==
    ASSUME NEW b \in Nat, b >= 2, NEW n \in 0 .. LONG - 1
    PROVE  /\ \E l \in 1 .. LONG :
                n < Powers(b)[l] /\ (l = 1 \/ n >= Powers(b)[l - 1])
           /\ \A l, j \in 1 .. LONG :
                /\ n < Powers(b)[l] /\ (l = 1 \/ n >= Powers(b)[l - 1])
                /\ n < Powers(b)[j] /\ (j = 1 \/ n >= Powers(b)[j - 1])
                => l = j
<1> DEFINE P == Powers(b)
           Above == {l \in 1 .. LONG : n < P[l]}
<1>1. /\ LONG \in Nat /\ n \in Nat /\ \A l \in 0 .. LONG : P[l] \in Nat /\ l < P[l]
      /\ \A l \in 0 .. LONG : \A k \in 0 .. l : P[k] <= P[l]
  BY PowersAre, PrintfAssumption
<1> HIDE DEF P
<1>2. PICK l \in Above : \A j \in Above : l <= j
  <2>1. LONG \in Above /\ Above \subseteq Nat
    BY <1>1
  <2> HIDE DEF Above
  <2> QED
    BY <2>1, LeastMember
<1>3. l = 1 \/ n >= P[l - 1]
  <2>1. CASE l > 1 /\ n < P[l - 1]
    <3>1. l - 1 \in Above /\ ~(l <= l - 1)
      BY <1>1, <2>1
    <3> QED
      BY <1>2, <3>1
  <2> QED
    BY <1>1, <2>1
<1>4. ASSUME NEW i \in 1 .. LONG, NEW j \in 1 .. LONG, i < j,
             n < P[i], j = 1 \/ n >= P[j - 1]
      PROVE  FALSE
  <2>1. i \in 0 .. j - 1 /\ j - 1 \in 0 .. LONG /\ i \in 0 .. LONG
    BY <1>1, <1>4
  <2>2. P[i] <= P[j - 1] /\ P[i] \in Nat /\ P[j - 1] \in Nat
    BY <1>1, <2>1
  <2> QED
    BY <1>1, <1>4, <2>2
<1>5. \A i, j \in 1 .. LONG : i = j \/ i < j \/ j < i
  BY <1>1
<1> QED
  BY <1>2, <1>3, <1>4, <1>5 DEF P

\* The sixteen digits are characters.
LEMMA DigitIs == \A n \in 0 .. 15 : Digit(n) \in Char
<1>1. {"0", "1", "2", "3", "4", "5", "6", "7", "8", "9",
       "a", "b", "c", "d", "e", "f"} \subseteq Char
  BY PrintfAssumption
<1>2. /\ Digit(0) = "0" /\ Digit(1) = "1" /\ Digit(2) = "2" /\ Digit(3) = "3"
      /\ Digit(4) = "4" /\ Digit(5) = "5" /\ Digit(6) = "6" /\ Digit(7) = "7"
      /\ Digit(8) = "8" /\ Digit(9) = "9" /\ Digit(10) = "a" /\ Digit(11) = "b"
      /\ Digit(12) = "c" /\ Digit(13) = "d" /\ Digit(14) = "e" /\ Digit(15) = "f"
  BY DEF Digit
<1>3. \A n \in 0 .. 15 : n \in {0, 1, 2, 3, 4, 5, 6, 7, 8, 9, 10, 11, 12, 13, 14, 15}
  OBVIOUS
<1> QED
  BY <1>1, <1>2, <1>3

\* The numeral of a number of known length.
LEMMA NumeralIs ==
    ASSUME NEW b \in {10, 16}, NEW n \in 0 .. LONG - 1, NEW l \in 1 .. LONG,
           n < Powers(b)[l], l = 1 \/ n >= Powers(b)[l - 1]
    PROVE  /\ Numeral(n, b) = [k \in 1 .. l |-> Digit((n \div Powers(b)[l - k]) % b)]
           /\ Numeral(n, b) \in Seq(Char)
<1>1. b \in Nat /\ b >= 2 /\ LONG \in Nat
  BY PrintfAssumption
<1>2. (CHOOSE j \in 1 .. LONG :
          n < Powers(b)[j] /\ (j = 1 \/ n >= Powers(b)[j - 1])) = l
  BY <1>1, LengthIs
<1>3. Numeral(n, b) = [k \in 1 .. l |-> Digit((n \div Powers(b)[l - k]) % b)]
  BY <1>2 DEF Numeral
<1>4. ASSUME NEW k \in 1 .. l
      PROVE  Digit((n \div Powers(b)[l - k]) % b) \in Char
  <2>1. Powers(b)[l - k] \in Nat \ {0}
    <3>1. l - k \in 0 .. LONG
      BY <1>1
    <3> QED
      BY <1>1, <3>1, PowersAre
  <2> DEFINE q == n \div Powers(b)[l - k]
  <2>2. q \in Int
    BY <1>1, <2>1
  <2> HIDE DEF q
  <2>3. q % b \in 0 .. 15
    BY <2>2
  <2> QED
    BY <2>3, DigitIs DEF q
<1>5. l \in Nat
  BY <1>1
<1> QED
  BY <1>3, <1>4, <1>5

LEMMA NumeralType ==
    \A b \in {10, 16}, n \in 0 .. LONG - 1 : Numeral(n, b) \in Seq(Char)
<1> SUFFICES ASSUME NEW b \in {10, 16}, NEW n \in 0 .. LONG - 1
             PROVE  Numeral(n, b) \in Seq(Char)
  OBVIOUS
<1>1. b \in Nat /\ b >= 2
  OBVIOUS
<1> QED
  BY <1>1, LengthIs, NumeralIs

\* A remainder is determined by the multiple below it.
LEMMA Remainder ==
    ASSUME NEW n \in Nat \ {0}, NEW q \in Int, NEW r \in 0 .. n - 1
    PROVE  (q * n + r) % n = r /\ (q * n + r) \div n = q
<1> DEFINE x == q * n + r
           d == x \div n
           m == x % n
<1>1. x \in Int /\ d \in Int /\ m \in 0 .. n - 1 /\ x = n * d + m
  OBVIOUS
<1>2. n * (q - d) = m - r
  BY <1>1
<1>3. CASE q - d >= 1
  BY <1>1, <1>2, <1>3
<1>4. CASE q - d <= -1
  BY <1>1, <1>2, <1>4
<1>5. CASE q = d
  BY <1>1, <1>2, <1>5
<1> QED
  BY <1>1, <1>3, <1>4, <1>5

\* An unsigned long is a number modulo LONG.
LEMMA LongIs ==
    ASSUME NEW x \in Int, -LONG <= x, x < LONG
    PROVE  x % LONG = IF x < 0 THEN x + LONG ELSE x
<1>1. LONG \in Nat \ {0}
  BY PrintfAssumption
<1>2. CASE x < 0
  <2>1. x + LONG \in 0 .. LONG - 1 /\ x = -1 * LONG + (x + LONG)
    BY <1>1, <1>2
  <2>2. (-1 * LONG + (x + LONG)) % LONG = x + LONG
    BY <1>1, <2>1, Remainder
  <2> QED
    BY <1>2, <2>1, <2>2
<1>3. CASE x >= 0
  <2>1. x \in 0 .. LONG - 1 /\ x = 0 * LONG + x
    BY <1>1, <1>3
  <2>2. (0 * LONG + x) % LONG = x
    BY <1>1, <2>1, Remainder
  <2> QED
    BY <1>3, <2>1, <2>2
<1> QED
  BY <1>2, <1>3

\* Dividing by the base goes on to the next power.
LEMMA DivideAgain ==
    ASSUME NEW n \in Nat, NEW p \in Nat \ {0}, NEW b \in Nat \ {0}
    PROVE  /\ n \div p \in Nat /\ (n \div p > 0 <=> n >= p)
           /\ (n \div p) \div b = n \div (b * p)
<1> DEFINE q == n \div p
           r == n % p
           s == q \div b
           t == q % b
<1>1. q \in Int /\ r \in 0 .. p - 1 /\ n = q * p + r
  OBVIOUS
<1> HIDE DEF q, r
<1>2. q >= 0
  <2>1. CASE q <= -1
    BY <1>1, <2>1
  <2> QED
    BY <1>1, <2>1
<1>3. q > 0 <=> n >= p
  <2>1. CASE q = 0
    BY <1>1, <2>1
  <2>2. CASE q >= 1
    <3>1. q * p = p + (q - 1) * p /\ (q - 1) * p >= 0
      BY <1>1, <2>2
    <3> QED
      BY <1>1, <2>2, <3>1
  <2> QED
    BY <1>1, <1>2, <2>1, <2>2
<1>4. s \in Int /\ t \in 0 .. b - 1 /\ q = s * b + t
  BY <1>1
<1> HIDE DEF s, t
<1>5. b * p \in Nat \ {0} /\ n = s * (b * p) + (t * p + r)
  <2>1. b * p \in Nat /\ b * p # 0
    OBVIOUS
  <2>2. q * p = s * (b * p) + t * p
    BY <1>1, <1>4
  <2> QED
    BY <1>1, <1>4, <2>1, <2>2
<1>6. t * p + r \in 0 .. b * p - 1
  <2> DEFINE c == b - 1 - t
  <2>1. c \in Nat /\ b * p = t * p + c * p + p /\ c * p >= 0 /\ t * p >= 0
    BY <1>1, <1>4
  <2>2. t * p \in Int /\ c * p \in Int /\ b * p \in Int
    BY <1>4, <2>1
  <2> DEFINE tp == t * p
             cp == c * p
             bp == b * p
  <2>3. tp + r \in 0 .. bp - 1
    <3>1. tp \in Int /\ cp \in Int /\ bp \in Int /\ bp = tp + cp + p /\ cp >= 0 /\ tp >= 0
      BY <2>1, <2>2
    <3> HIDE DEF tp, cp, bp
    <3> QED
      BY <1>1, <3>1
  <2> QED
    BY <2>3
<1>7. n \div (b * p) = s
  <2> DEFINE x == t * p + r
             bp == b * p
  <2>1. bp \in Nat \ {0} /\ n = s * bp + x /\ x \in 0 .. bp - 1
    BY <1>5, <1>6
  <2> HIDE DEF x, bp
  <2>2. (s * bp + x) \div bp = s
    BY <1>4, <2>1, Remainder
  <2> QED
    BY <2>1, <2>2 DEF bp
<1> QED
  BY <1>1, <1>2, <1>3, <1>7 DEF q, s

-----------------------------------------------------------------------------
(***************************************************************************)
(* What a format prints is made of characters.                             *)
(***************************************************************************)

LEMMA HalfIs == LONG \div 2 \in Nat \ {0} /\ LONG = 2 * (LONG \div 2) /\ LONG \in Nat
  BY PrintfAssumption

LEMMA ShownType ==
    ASSUME NEW conv \in Conversions, NEW value \in Argument(conv)
    PROVE  Shown(conv, value) \in Seq(Char)
<1>1. CASE conv = "d"
  <2> DEFINE half == LONG \div 2
  <2>1. value \in -half .. half - 1 /\ half \in Nat \ {0} /\ LONG = 2 * half
    BY <1>1, HalfIs DEF Argument
  <2> HIDE DEF half
  <2>2. value < 0 => -value \in 0 .. LONG - 1
    BY <2>1
  <2>3. ~(value < 0) => value \in 0 .. LONG - 1
    BY <2>1
  <2>4. "-" \in Char
    BY PrintfAssumption
  <2>5. CASE value < 0
    <3>1. Shown(conv, value) = <<"-">> \o Numeral(-value, 10)
      BY <1>1, <2>5 DEF Shown
    <3>2. Numeral(-value, 10) \in Seq(Char) /\ <<"-">> \in Seq(Char)
      BY <2>2, <2>4, <2>5, NumeralType
    <3> QED
      BY <3>1, <3>2, ConcatProperties
  <2>6. CASE ~(value < 0)
    BY <1>1, <2>3, <2>6, NumeralType DEF Shown
  <2> QED
    BY <2>5, <2>6
<1>2. CASE conv = "x"
  BY <1>2, NumeralType DEF Shown, Argument
<1>3. CASE conv = "s"
  BY <1>3 DEF Shown, Argument
<1>4. CASE conv = "c"
  BY <1>4 DEF Shown, Argument
<1> QED
  BY <1>1, <1>2, <1>3, <1>4 DEF Conversions

\* The same at one position.
TextEquation(fmt, args, p, a) ==
    LET text == TextFrom(fmt, args) IN
    /\ fmt[p] # "%" => text[p][a] = Cat(<<fmt[p]>>, text[p + 1][a])
    /\ fmt[p] = "%" /\ fmt[p + 1] \in Conversions =>
          text[p][a] = Cat(Shown(fmt[p + 1], args[a]), text[p + 2][a + 1])
    /\ fmt[p] = "%" /\ fmt[p + 1] \notin Conversions =>
          text[p][a] = Cat(IF fmt[p + 1] = "%" THEN <<"%">> ELSE <<"%", fmt[p + 1]>>,
                           text[p + 2][a])

LEMMA TextAt ==
    ASSUME NEW fmt, NEW args, Len(fmt) \in Nat,
           NEW p \in 1 .. Len(fmt), NEW a \in Nat
    PROVE  TextEquation(fmt, args, p, a)
<1>1. p \in 1 .. Len(fmt) + 2 /\ p <= Len(fmt)
  OBVIOUS
<1> QED
  BY <1>1, TextIs DEF TextEquation

LEMMA TextStepType ==
    ASSUME NEW fmt \in Seq(Char), NEW args, NEW p \in 1 .. Len(fmt), NEW a \in Nat,
           Fits(fmt, args)[p][a]
    PROVE  (/\ \A b \in Nat : Fits(fmt, args)[p + 1][b] => TextFrom(fmt, args)[p + 1][b] \in Seq(Char)
            /\ \A b \in Nat : Fits(fmt, args)[p + 2][b] => TextFrom(fmt, args)[p + 2][b] \in Seq(Char))
           => TextFrom(fmt, args)[p][a] \in Seq(Char)
<1>0. Len(fmt) \in Nat /\ p \in 1 .. Len(fmt) + 2 /\ p <= Len(fmt) /\ ~(p > Len(fmt))
      /\ fmt[p] \in Char /\ a + 1 \in Nat
  OBVIOUS
<1> DEFINE Typed(q) ==
             \A b \in Nat : Fits(fmt, args)[q][b] => TextFrom(fmt, args)[q][b] \in Seq(Char)
<1> HIDE DEF Typed
<1> SUFFICES ASSUME Typed(p + 1), Typed(p + 2) PROVE TextFrom(fmt, args)[p][a] \in Seq(Char)
  BY DEF Typed
<1>1. TextEquation(fmt, args, p, a) /\ FitsEquation(fmt, args, p, a)
  BY <1>0, TextAt, FitsAt
<1>2. CASE fmt[p] # "%"
  <2> DEFINE s == <<fmt[p]>>
             t == TextFrom(fmt, args)[p + 1][a]
  <2>1. Fits(fmt, args)[p + 1][a]
    BY <1>1, <1>2 DEF FitsEquation
  <2>2. t \in Seq(Char) /\ s \in Seq(Char)
    BY <1>0, <2>1 DEF Typed
  <2>3. TextFrom(fmt, args)[p][a] = Cat(s, t)
    BY <1>1, <1>2 DEF TextEquation
  <2> HIDE DEF s, t
  <2>4. Cat(s, t) \in Seq(Char)
    BY <2>2, CatIs
  <2> QED
    BY <2>3, <2>4
<1>3. CASE fmt[p] = "%" /\ fmt[p + 1] \in Conversions
  <2> DEFINE s == Shown(fmt[p + 1], args[a])
             t == TextFrom(fmt, args)[p + 2][a + 1]
  <2>1. Fits(fmt, args)[p + 2][a + 1] /\ args[a] \in Argument(fmt[p + 1])
    BY <1>1, <1>3 DEF FitsEquation
  <2>2. t \in Seq(Char)
    BY <1>0, <2>1 DEF Typed
  <2>3. s \in Seq(Char)
    BY <1>3, <2>1, ShownType
  <2>4. TextFrom(fmt, args)[p][a] = Cat(s, t)
    BY <1>1, <1>3 DEF TextEquation
  <2> HIDE DEF s, t
  <2>5. Cat(s, t) \in Seq(Char)
    BY <2>2, <2>3, CatIs
  <2> QED
    BY <2>4, <2>5
<1>4. CASE fmt[p] = "%" /\ fmt[p + 1] \notin Conversions
  <2> DEFINE s == IF fmt[p + 1] = "%" THEN <<"%">> ELSE <<"%", fmt[p + 1]>>
             t == TextFrom(fmt, args)[p + 2][a]
  <2>1. Fits(fmt, args)[p + 2][a] /\ p < Len(fmt)
    BY <1>1, <1>4 DEF FitsEquation
  <2>2. fmt[p + 1] \in Char /\ "%" \in Char
    BY <1>0, <2>1, PrintfAssumption
  <2>3. t \in Seq(Char) /\ s \in Seq(Char)
    BY <2>1, <2>2 DEF Typed
  <2>4. TextFrom(fmt, args)[p][a] = Cat(s, t)
    BY <1>1, <1>4 DEF TextEquation
  <2> HIDE DEF s, t
  <2>5. Cat(s, t) \in Seq(Char)
    BY <2>3, CatIs
  <2> QED
    BY <2>4, <2>5
<1> QED
  BY <1>2, <1>3, <1>4

LEMMA TextType ==
    ASSUME NEW fmt \in Seq(Char), NEW args
    PROVE  \A p \in 1 .. Len(fmt) + 2 : \A a \in Nat :
              Fits(fmt, args)[p][a] => TextFrom(fmt, args)[p][a] \in Seq(Char)
<1> DEFINE N    == Len(fmt)
           fits == Fits(fmt, args)
           text == TextFrom(fmt, args)
           Typed(p) == \A a \in Nat : fits[p][a] => text[p][a] \in Seq(Char)
           Done == {j \in 0 .. N + 1 : \A p \in 1 .. N + 2 : p >= N + 2 - j => Typed(p)}
<1>0. N \in Nat /\ Len(fmt) \in Nat
  OBVIOUS
<1>1. ASSUME NEW p \in 1 .. N + 2, p <= N => Typed(p + 1) /\ Typed(p + 2)
      PROVE  Typed(p)
  <2> SUFFICES ASSUME NEW a \in Nat, fits[p][a] PROVE text[p][a] \in Seq(Char)
    OBVIOUS
  <2>1. CASE p > N
    <3>1. text[p][a] = <<>>
      BY <1>0, <2>1, TextIs
    <3> QED
      BY <3>1
  <2>2. CASE p <= N
    <3>1. p \in 1 .. Len(fmt)
      BY <1>0, <2>2
    <3> QED
      BY <1>1, <2>2, <3>1, TextStepType
  <2> QED
    BY <1>0, <2>1, <2>2
<1> HIDE DEF Typed, N
<1>2. 0 \in Done
  <2>1. \A p \in 1 .. N + 2 : p >= N + 2 - 0 => p = N + 2 /\ ~(p <= N)
    BY <1>0
  <2> QED
    BY <1>0, <1>1, <2>1
<1>3. ASSUME NEW j \in 0 .. (N + 1) - 1, j \in Done PROVE j + 1 \in Done
  <2>1. ASSUME NEW p \in 1 .. N + 2, p >= N + 2 - (j + 1) PROVE Typed(p)
    <3>1. CASE p >= N + 2 - j
      BY <1>3, <3>1
    <3>2. CASE p < N + 2 - j
      <4>1. p <= N => /\ p + 1 \in 1 .. N + 2 /\ p + 1 >= N + 2 - j
                      /\ p + 2 \in 1 .. N + 2 /\ p + 2 >= N + 2 - j
        BY <1>0, <2>1, <3>2
      <4> QED
        BY <1>1, <1>3, <4>1
    <3> QED
      BY <1>0, <3>1, <3>2
  <2> QED
    BY <1>0, <2>1
<1>4. N + 1 \in Done
  <2>1. N + 1 \in Nat /\ N + 1 \in 0 .. N + 1
    BY <1>0
  <2> HIDE DEF Done
  <2> QED
    BY <1>2, <1>3, <2>1, UpTo
<1>5. \A p \in 1 .. N + 2 : Typed(p)
  BY <1>0, <1>4
<1> QED
  BY <1>5 DEF Typed, N
-----------------------------------------------------------------------------
(***************************************************************************)
(* The invariant: what is on the wire, what the register holds, what is    *)
(* left to put, and what the loops have still to produce make the text.    *)
(***************************************************************************)

Rest == TextFrom(call.fmt, call.args)[pos][arg]

Held == IF thr = EMPTY THEN <<>> ELSE <<thr>>

TypeInv ==
    /\ call \in Calls
    /\ pc \in {"scan", "digits", "returned"}
    /\ pos \in 1 .. Len(call.fmt) + 1 /\ arg \in Nat
    /\ Fits(call.fmt, call.args)[pos][arg]
    /\ num \in 0 .. LONG - 1 /\ base \in {10, 16} /\ buf \in Seq(Char)
    /\ todo \in Seq(Char) /\ thr \in Char \cup {EMPTY} /\ wire \in Seq(Char)

\* print_num has produced the last Len(buf) digits of n.
Divided(n) ==
    /\ Len(buf) < LONG
    /\ num = n \div Powers(base)[Len(buf)]
    /\ Len(buf) > 0 => n >= Powers(base)[Len(buf) - 1]
    /\ \A k \in 1 .. Len(buf) : buf[k] = Digit((n \div Powers(base)[k - 1]) % base)

\* What comes after todo.
Ahead(chars) ==
    /\ pc = "scan" => chars = Rest
    /\ pc = "digits" => \E n \in 1 .. LONG - 1 :
                          Divided(n) /\ chars = Cat(Numeral(n, base), Rest)
    /\ pc = "returned" => todo = <<>> /\ chars = <<>>

IInv ==
    /\ TypeInv
    /\ \E chars \in Seq(Char) :
         /\ Ahead(chars)
         /\ Cat(wire, Cat(Held, Cat(todo, chars))) = Text(call.fmt, call.args)

-----------------------------------------------------------------------------
(***************************************************************************)
(* printf.                                                                 *)
(***************************************************************************)

LEMMA NumeralOfZero == ASSUME NEW b \in {10, 16} PROVE Numeral(0, b) = <<Digit(0)>>
<1>1. b \in Nat /\ b >= 2 /\ LONG \in Nat \ {0} /\ 1 \in 1 .. LONG /\ 0 \in 0 .. LONG - 1
  BY PrintfAssumption
<1>2. Powers(b)[0] = 1 /\ Powers(b)[1] \in Nat \ {0}
  <2>1. 1 \in 0 .. LONG
    BY <1>1
  <2> QED
    BY <1>1, <2>1, PowersAre
<1>3. 0 < Powers(b)[1]
  BY <1>2
<1>4. Numeral(0, b) = [k \in 1 .. 1 |-> Digit((0 \div Powers(b)[1 - k]) % b)]
  BY <1>1, <1>3, NumeralIs
<1>5. \A k \in 1 .. 1 : k = 1 /\ 1 - k = 0
  OBVIOUS
<1>6. (0 \div Powers(b)[0]) % b = 0
  BY <1>1, <1>2
<1>7. Numeral(0, b) = [k \in 1 .. 1 |-> Digit(0)]
  <2> HIDE DEF Digit
  <2> QED
    BY <1>4, <1>5, <1>6
<1> QED
  BY <1>7

\* What print_num has done when it enters its loop or has returned.
Printing(b, shown) ==
    /\ base' = b /\ buf' = <<>> /\ todo' \in Seq(Char)
    /\ \/ pc' = "scan" /\ num' = 0 /\ todo' = shown
       \/ pc' = "digits" /\ num' \in 1 .. LONG - 1 /\ Cat(todo', Numeral(num', b)) = shown

LEMMA SignedIs ==
    ASSUME NEW value \in Argument("d"), PrintNum(value % LONG, 10, TRUE)
    PROVE  Printing(10, Shown("d", value))
<1> DEFINE half == LONG \div 2
           n    == value % LONG
<1>1. value \in -half .. half - 1 /\ half \in Nat \ {0} /\ LONG = 2 * half
  BY HalfIs DEF Argument
<1> HIDE DEF half
<1>2. n = IF value < 0 THEN value + LONG ELSE value
  BY <1>1, LongIs
<1>3. "-" \in Char /\ Digit(0) \in Char
  BY PrintfAssumption, DigitIs
<1>4. CASE value < 0
  <2>1. n >= half /\ -n = -value - LONG /\ n = value + LONG /\ -value \in 1 .. LONG - 1
    BY <1>1, <1>2, <1>4
  <2>2. -n % LONG = -value
    <3> DEFINE v == -value
               m == -n
    <3>1. v \in 0 .. LONG - 1 /\ m = -1 * LONG + v /\ LONG \in Nat \ {0}
      BY <1>1, <2>1
    <3> HIDE DEF v, m
    <3>2. (-1 * LONG + v) % LONG = v
      BY <3>1, Remainder
    <3>3. m % LONG = v
      BY <3>1, <3>2
    <3> QED
      BY <3>3 DEF v, m
  <2>3. -value # 0
    BY <1>1, <1>4
  <2>4. n >= LONG \div 2
    BY <2>1 DEF half
  <2> HIDE DEF n
  <2>5. /\ todo' = <<"-">> \o <<>> /\ pc' = "digits"
        /\ num' = -value /\ base' = 10 /\ buf' = <<>>
    BY <2>2, <2>3, <2>4 DEF PrintNum, n
  <2>6. todo' = <<"-">>
    BY <2>5
  <2>7. Shown("d", value) = Cat(todo', Numeral(num', 10))
    BY <1>4, <2>5, <2>6 DEF Shown, Cat
  <2> QED
    BY <1>3, <2>1, <2>5, <2>6, <2>7 DEF Printing
<1>5. CASE ~(value < 0)
  <2>1. n = value /\ ~(n >= half) /\ value \in 0 .. LONG - 1
    BY <1>1, <1>2, <1>5
  <2> HIDE DEF n
  <2>2. Shown("d", value) = Numeral(value, 10)
    BY <1>5 DEF Shown
  <2>3. CASE value = 0
    <3>1. /\ todo' = <<>> \o <<Digit(0)>> /\ pc' = "scan"
          /\ num' = 0 /\ base' = 10 /\ buf' = <<>>
      BY <2>1, <2>3 DEF PrintNum, half, n
    <3>2. todo' = <<Digit(0)>>
      BY <3>1
    <3>3. Numeral(value, 10) = <<Digit(0)>>
      BY <2>3, NumeralOfZero
    <3> QED
      BY <1>3, <2>2, <3>1, <3>2, <3>3 DEF Printing
  <2>4. CASE value # 0
    <3>1. /\ todo' = <<>> /\ pc' = "digits"
          /\ num' = value /\ base' = 10 /\ buf' = <<>>
      BY <2>1, <2>4 DEF PrintNum, half, n
    <3>2. Cat(<<>>, Numeral(value, 10)) = Numeral(value, 10)
      BY <2>1, NumeralType, CatIs
    <3> QED
      BY <2>1, <2>2, <2>4, <3>1, <3>2 DEF Printing
  <2> QED
    BY <2>3, <2>4
<1> QED
  BY <1>4, <1>5

LEMMA UnsignedIs ==
    ASSUME NEW value \in Argument("x"), PrintNum(value, 16, FALSE)
    PROVE  Printing(16, Shown("x", value))
<1>1. value \in 0 .. LONG - 1 /\ Digit(0) \in Char
  BY DigitIs DEF Argument
<1>2. Shown("x", value) = Numeral(value, 16)
  BY DEF Shown
<1>3. CASE value = 0
  <2>1. /\ todo' = <<>> \o <<Digit(0)>> /\ pc' = "scan"
        /\ num' = 0 /\ base' = 16 /\ buf' = <<>>
    BY <1>3 DEF PrintNum
  <2>2. todo' = <<Digit(0)>>
    BY <2>1
  <2>3. Numeral(value, 16) = <<Digit(0)>>
    BY <1>3, NumeralOfZero
  <2> QED
    BY <1>1, <1>2, <2>1, <2>2, <2>3 DEF Printing
<1>4. CASE value # 0
  <2>1. /\ todo' = <<>> /\ pc' = "digits"
        /\ num' = value /\ base' = 16 /\ buf' = <<>>
    BY <1>4 DEF PrintNum
  <2>2. Cat(<<>>, Numeral(value, 16)) = Numeral(value, 16)
    BY <1>1, NumeralType, CatIs
  <2> QED
    BY <1>1, <1>2, <1>4, <2>1, <2>2 DEF Printing
<1> QED
  BY <1>3, <1>4

\* One round of the loop produces some characters, at once or by print_num.
Produces(chars) ==
    \/ pc' = "scan" /\ todo' = chars /\ todo' \in Seq(Char) /\ UNCHANGED <<num, base, buf>>
    \/ \E b \in {10, 16} : Printing(b, chars)

LEMMA ScanProduces ==
    ASSUME TypeInv, Scan
    PROVE  /\ pos' \in 1 .. Len(call.fmt) + 1 /\ arg' \in Nat
           /\ Fits(call.fmt, call.args)[pos'][arg']
           /\ \E out : /\ Rest = Cat(out, TextFrom(call.fmt, call.args)[pos'][arg'])
                       /\ Produces(out)
<1> DEFINE fmt  == call.fmt
           args == call.args
           N    == Len(fmt)
           c    == fmt[pos]
           conv == fmt[pos + 1]
           Left == TextFrom(fmt, args)[pos'][arg']
<1>0. fmt \in Seq(Char) /\ N \in Nat /\ pos \in 1 .. N + 1 /\ arg \in Nat /\ pc = "scan"
      /\ arg + 1 \in Nat /\ Fits(fmt, args)[pos][arg]
  <2>1. call \in Calls /\ pos \in 1 .. N + 1 /\ arg \in Nat /\ pc = "scan"
        /\ Fits(fmt, args)[pos][arg]
    BY DEF TypeInv, Scan
  <2>2. fmt \in Seq(Char)
    BY <2>1, CallsAssumption
  <2>3. N \in Nat
    BY <2>2
  <2> QED
    BY <2>1, <2>2, <2>3
<1>1. pos \in 1 .. N /\ At(pos) = c /\ c \in Char /\ pos \in 1 .. N + 2
  <2>1. pos <= N
    BY <1>0 DEF Scan, At
  <2> QED
    BY <1>0, <2>1 DEF At
<1>2. TextEquation(fmt, args, pos, arg) /\ FitsEquation(fmt, args, pos, arg)
  BY <1>0, <1>1, TextAt, FitsAt
<1>3. CASE c # "%"
  <2>1. pos' = pos + 1 /\ arg' = arg /\ Put(<<c>>)
    <3>1. pos' = pos + 1 /\ arg' = arg + 0
      BY <1>1, <1>3 DEF Scan
    <3>2. Put(<<c>>)
      BY <1>1, <1>3 DEF Scan
    <3> QED
      BY <1>0, <3>1, <3>2
  <2>2. Fits(fmt, args)[pos + 1][arg]
    BY <1>0, <1>2, <1>3 DEF FitsEquation
  <2>3. Rest = Cat(<<c>>, Left)
    BY <1>2, <1>3, <2>1 DEF TextEquation, Rest
  <2>4. Produces(<<c>>)
    <3>1. <<c>> \in Seq(Char)
      BY <1>1
    <3> QED
      BY <1>0, <2>1, <3>1 DEF Put, Produces
  <2>5. pos' \in 1 .. N + 1 /\ arg' \in Nat /\ Fits(fmt, args)[pos'][arg']
    <3>1. pos + 1 \in 1 .. N + 1
      BY <1>0, <1>1
    <3> QED
      BY <1>0, <2>1, <2>2, <3>1, Zenon
  <2> QED
    BY <2>3, <2>4, <2>5
<1>4. CASE c = "%" /\ conv \in Conversions
  <2>1. /\ pos < N /\ args[arg] \in Argument(conv)
        /\ Fits(fmt, args)[pos + 2][arg + 1]
    BY <1>0, <1>2, <1>4 DEF FitsEquation
  <2>2. At(pos + 1) = conv
    BY <1>0, <1>1, <2>1 DEF At
  <2>3. pos' = pos + 2 /\ arg' = arg + 1
    BY <1>1, <1>4, <2>2 DEF Scan
  <2>4. Rest = Cat(Shown(conv, args[arg]), Left)
    BY <1>2, <1>4, <2>3 DEF TextEquation, Rest
  <2>5. Produces(Shown(conv, args[arg]))
    <3>1. CASE conv = "d"
      <4>1. PrintNum(args[arg] % LONG, 10, TRUE)
        BY <1>1, <1>4, <2>2, <3>1 DEF Scan
      <4> QED
        BY <2>1, <3>1, <4>1, SignedIs DEF Produces
    <3>2. CASE conv = "x"
      <4>1. PrintNum(args[arg], 16, FALSE)
        BY <1>1, <1>4, <2>2, <3>2 DEF Scan
      <4> QED
        BY <2>1, <3>2, <4>1, UnsignedIs DEF Produces
    <3>3. CASE conv = "s"
      <4>1. Put(args[arg])
        BY <1>1, <1>4, <2>2, <3>3 DEF Scan
      <4>2. Shown(conv, args[arg]) = args[arg] /\ args[arg] \in Seq(Char)
        BY <2>1, <3>3 DEF Shown, Argument
      <4> QED
        BY <1>0, <4>1, <4>2 DEF Put, Produces
    <3>4. CASE conv = "c"
      <4>1. Put(<<args[arg]>>)
        BY <1>1, <1>4, <2>2, <3>4 DEF Scan
      <4>2. Shown(conv, args[arg]) = <<args[arg]>> /\ <<args[arg]>> \in Seq(Char)
        BY <2>1, <3>4 DEF Shown, Argument
      <4> QED
        BY <1>0, <4>1, <4>2 DEF Put, Produces
    <3> QED
      BY <1>4, <3>1, <3>2, <3>3, <3>4 DEF Conversions
  <2>6. pos' \in 1 .. N + 1 /\ arg' \in Nat /\ Fits(fmt, args)[pos'][arg']
    <3>1. pos + 2 \in 1 .. N + 1
      BY <1>0, <1>1, <2>1
    <3> QED
      BY <1>0, <2>1, <2>3, <3>1, Zenon
  <2> QED
    BY <2>4, <2>5, <2>6
<1>5. CASE c = "%" /\ conv \notin Conversions
  <2> DEFINE out == IF conv = "%" THEN <<"%">> ELSE <<"%", conv>>
  <2>1. pos < N /\ Fits(fmt, args)[pos + 2][arg]
    BY <1>0, <1>2, <1>5 DEF FitsEquation
  <2>2. At(pos + 1) = conv /\ conv \in Char /\ "%" \in Char
    BY <1>0, <1>1, <2>1, PrintfAssumption DEF At
  <2>3. pos' = pos + 2 /\ arg' = arg
    <3>1. pos' = pos + 2 /\ arg' = arg + 0
      BY <1>1, <1>5, <2>2 DEF Scan
    <3> QED
      BY <1>0, <3>1
  <2>4. Rest = Cat(out, Left)
    BY <1>2, <1>5, <2>3 DEF TextEquation, Rest
  <2>5. Put(out)
    <3>1. conv \notin {"d", "x", "s", "c"}
      BY <1>5 DEF Conversions
    <3>2. CASE conv = "%"
      <4>1. Put(<<"%">>)
        BY <1>1, <1>5, <2>2, <3>1, <3>2 DEF Scan
      <4> QED
        BY <3>2, <4>1
    <3>3. CASE conv # "%"
      <4>1. Put(<<"%", conv>>)
        BY <1>1, <1>5, <2>2, <3>1, <3>3 DEF Scan
      <4> QED
        BY <3>3, <4>1
    <3> QED
      BY <3>2, <3>3
  <2>6. out \in Seq(Char)
    BY <2>2
  <2>7. Produces(out)
    <3> HIDE DEF out
    <3> QED
      BY <1>0, <2>5, <2>6 DEF Put, Produces
  <2>8. pos' \in 1 .. N + 1 /\ arg' \in Nat /\ Fits(fmt, args)[pos'][arg']
    <3>1. pos + 2 \in 1 .. N + 1
      BY <1>0, <1>1, <2>1
    <3> QED
      BY <1>0, <2>1, <2>3, <3>1, Zenon
  <2> HIDE DEF out
  <2> QED
    BY <2>4, <2>7, <2>8
<1> QED
  BY <1>3, <1>4, <1>5

LEMMA RestIs ==
    ASSUME TypeInv
    PROVE  /\ call.fmt \in Seq(Char) /\ Len(call.fmt) \in Nat
           /\ Rest \in Seq(Char)
           /\ At(pos) = NUL => Rest = <<>>
<1>1. /\ call \in Calls /\ pos \in 1 .. Len(call.fmt) + 1 /\ arg \in Nat
      /\ Fits(call.fmt, call.args)[pos][arg]
  BY DEF TypeInv
<1>2. call.fmt \in Seq(Char)
  BY <1>1, CallsAssumption
<1>3. Len(call.fmt) \in Nat
  BY <1>2
<1>4. pos \in 1 .. Len(call.fmt) + 2
  BY <1>1, <1>3
<1>5. Rest \in Seq(Char)
  BY <1>1, <1>2, <1>4, TextType DEF Rest
<1>6. ASSUME At(pos) = NUL PROVE Rest = <<>>
  <2>1. pos <= Len(call.fmt) => call.fmt[pos] \in Char
    BY <1>1, <1>2
  <2>2. pos > Len(call.fmt)
    BY <1>1, <1>3, <1>6, <2>1, PrintfAssumption DEF At
  <2> QED
    BY <1>1, <1>3, <1>4, <2>2, TextIs DEF Rest
<1> QED
  BY <1>2, <1>3, <1>5, <1>6

\* printf and print_num leave the device alone: what they have still to produce
\* may change its form.
LEMMA SameText ==
    ASSUME IInv, TypeInv', UNCHANGED <<call, thr, wire>>,
           \A chars \in Seq(Char) :
              Ahead(chars) => \E left \in Seq(Char) :
                                Ahead(left)' /\ Cat(todo', left) = Cat(todo, chars)
    PROVE  IInv'
<1>1. PICK chars \in Seq(Char) :
         /\ Ahead(chars)
         /\ Cat(wire, Cat(Held, Cat(todo, chars))) = Text(call.fmt, call.args)
  BY DEF IInv
<1>2. PICK left \in Seq(Char) : Ahead(left)' /\ Cat(todo', left) = Cat(todo, chars)
  BY <1>1
<1>3. Held' = Held
  BY DEF Held
<1>4. Cat(wire', Cat(Held', Cat(todo', left))) = Text(call'.fmt, call'.args)
  BY <1>1, <1>2, <1>3
<1> HIDE DEF Ahead, TypeInv
<1> QED
  BY <1>2, <1>4 DEF IInv

LEMMA ScanStep == ASSUME IInv, Scan PROVE IInv'
<1>0. TypeInv /\ UNCHANGED <<call, thr, wire>> /\ pc = "scan" /\ todo = <<>>
  BY DEF IInv, Scan
<1>1. /\ pos' \in 1 .. Len(call.fmt) + 1 /\ arg' \in Nat
      /\ Fits(call.fmt, call.args)[pos'][arg']
  BY <1>0, ScanProduces
<1>2. PICK out : /\ Rest = Cat(out, TextFrom(call.fmt, call.args)[pos'][arg'])
                 /\ Produces(out)
  BY <1>0, ScanProduces
<1>3. TypeInv'
  <2>1. /\ pc' \in {"scan", "digits"} /\ todo' \in Seq(Char)
        /\ num' \in 0 .. LONG - 1 /\ base' \in {10, 16} /\ buf' \in Seq(Char)
    <3>1. /\ num \in 0 .. LONG - 1 /\ base \in {10, 16} /\ buf \in Seq(Char)
          /\ LONG \in Nat \ {0} /\ 0 \in 0 .. LONG - 1
      BY <1>0, PrintfAssumption DEF TypeInv
    <3>2. CASE /\ pc' = "scan" /\ todo' = out /\ todo' \in Seq(Char)
               /\ UNCHANGED <<num, base, buf>>
      BY <3>1, <3>2
    <3>3. CASE \E b \in {10, 16} : Printing(b, out)
      <4>1. \A n \in 1 .. LONG - 1 : n \in 0 .. LONG - 1
        OBVIOUS
      <4> QED
        BY <3>1, <3>3, <4>1 DEF Printing
    <3> QED
      BY <1>2, <3>2, <3>3 DEF Produces
  <2> QED
    BY <1>0, <1>1, <2>1 DEF TypeInv
<1>4. Rest' \in Seq(Char) /\ Rest = Cat(out, Rest')
  <2>1. call.fmt \in Seq(Char) /\ pos' \in 1 .. Len(call.fmt) + 2
    <3>1. call.fmt \in Seq(Char) /\ Len(call.fmt) \in Nat
      BY <1>0, RestIs
    <3> QED
      BY <1>1, <3>1
  <2>2. TextFrom(call.fmt, call.args)[pos'][arg'] \in Seq(Char)
    BY <1>1, <2>1, TextType
  <2> QED
    BY <1>0, <1>2, <2>2 DEF Rest
<1>5. PICK rest \in Seq(Char) : rest = Rest'
  BY <1>4
<1>6. ASSUME NEW chars \in Seq(Char), Ahead(chars)
      PROVE  \E left \in Seq(Char) : Ahead(left)' /\ Cat(todo', left) = Cat(todo, chars)
  <2>1. Cat(todo, chars) = Rest
    BY <1>0, <1>6, CatIs DEF Ahead
  <2>2. CASE pc' = "scan"
    <3>1. todo' = out
      BY <1>2, <2>2 DEF Produces, Printing
    <3>2. Ahead(rest)'
      BY <1>5, <2>2 DEF Ahead
    <3> QED
      BY <1>4, <1>5, <2>1, <3>1, <3>2
  <2>3. CASE pc' # "scan"
    <3>1. PICK b \in {10, 16} :
             /\ base' = b /\ buf' = <<>> /\ pc' = "digits" /\ num' \in 1 .. LONG - 1
             /\ todo' \in Seq(Char) /\ Cat(todo', Numeral(num', b)) = out
      BY <1>2, <2>3 DEF Produces, Printing
    <3>2. PICK n \in 1 .. LONG - 1 : n = num'
      BY <3>1
    <3> DEFINE left == Cat(Numeral(n, b), rest)
    <3>3. n \in Nat /\ n \in 0 .. LONG - 1 /\ LONG \in Nat \ {0} /\ b \in Nat /\ b >= 2
      BY PrintfAssumption
    <3>4. Numeral(n, b) \in Seq(Char) /\ left \in Seq(Char)
      <4>1. Numeral(n, b) \in Seq(Char)
        BY <3>3, NumeralType
      <4> QED
        BY <4>1, CatIs
    <3>5. Divided(n)'
      <4>1. Powers(b)[0] = 1
        BY <3>3, PowersAre
      <4>2. Len(buf') = 0 /\ n = n \div 1
        BY <3>1, <3>3
      <4>3. num' = n \div Powers(base')[Len(buf')]
        BY <3>1, <3>2, <4>1, <4>2
      <4>4. Len(buf') < LONG /\ ~(Len(buf') > 0) /\ 1 .. Len(buf') = {}
        BY <3>3, <4>2
      <4> QED
        BY <4>3, <4>4 DEF Divided
    <3>6. Ahead(left)'
      <4>1. left = Cat(Numeral(n, base'), Rest')
        BY <1>5, <3>1
      <4> HIDE DEF left
      <4> QED
        BY <3>1, <3>5, <4>1 DEF Ahead
    <3>7. Cat(todo', left) = Rest
      <4> DEFINE w == Numeral(n, b)
      <4>1. Cat(todo', w) = out /\ w \in Seq(Char)
        BY <3>1, <3>2, <3>4
      <4> HIDE DEF w
      <4>2. Cat(todo', Cat(w, rest)) = Cat(Cat(todo', w), rest)
        BY <3>1, <4>1, CatIs
      <4> QED
        BY <1>4, <1>5, <4>1, <4>2 DEF w
    <3> QED
      BY <2>1, <3>4, <3>6, <3>7
  <2> QED
    BY <2>2, <2>3
<1> QED
  BY <1>0, <1>3, <1>6, SameText

LEMMA ReturnStep == ASSUME IInv, Return PROVE IInv'
<1>0. /\ TypeInv /\ pc = "scan" /\ pc' = "returned" /\ todo = <<>> /\ At(pos) = NUL
      /\ UNCHANGED <<call, pos, arg, num, base, buf, todo, thr, wire>>
  BY DEF IInv, Return
<1>1. TypeInv'
  BY <1>0 DEF TypeInv
<1>2. Rest = <<>>
  BY <1>0, RestIs
<1>3. ASSUME NEW chars \in Seq(Char), Ahead(chars)
      PROVE  \E left \in Seq(Char) : Ahead(left)' /\ Cat(todo', left) = Cat(todo, chars)
  <2>1. chars = <<>>
    BY <1>0, <1>2, <1>3 DEF Ahead
  <2>2. Ahead(<<>>)'
    BY <1>0 DEF Ahead
  <2> QED
    BY <1>0, <2>1, <2>2
<1> QED
  BY <1>0, <1>1, <1>3, SameText

LEMMA DivideStep == ASSUME IInv, Divide PROVE IInv'
<1>0. /\ TypeInv /\ pc = "digits" /\ pc' = "digits" /\ todo = <<>> /\ num > 0
      /\ buf' = Append(buf, Digit(num % base)) /\ num' = num \div base
      /\ UNCHANGED <<call, pc, pos, arg, base, todo, thr, wire>>
  BY DEF IInv, Divide
<1>1. /\ base \in {10, 16} /\ base \in Nat \ {0} /\ base >= 2 /\ buf \in Seq(Char)
      /\ num \in 0 .. LONG - 1 /\ LONG \in Nat \ {0}
  <2>1. base \in {10, 16} /\ buf \in Seq(Char) /\ num \in 0 .. LONG - 1
    BY <1>0 DEF TypeInv
  <2> QED
    BY <2>1, PrintfAssumption
<1>2. num' \in 0 .. LONG - 1 /\ Digit(num % base) \in Char
  <2>1. num % base \in 0 .. 15
    BY <1>1
  <2>2. num \div base \in 0 .. LONG - 1
    <3> DEFINE q == num \div base
               r == num % base
    <3>1. q \in Int /\ r \in 0 .. base - 1 /\ num = q * base + r /\ num \in Nat
      BY <1>1
    <3> HIDE DEF q, r
    <3>2. q >= 0
      <4>1. CASE base = 10
        BY <1>1, <3>1, <4>1
      <4>2. CASE base = 16
        BY <1>1, <3>1, <4>2
      <4> QED
        BY <1>1, <4>1, <4>2
    <3>3. q <= num
      <4>1. CASE base = 10
        BY <1>1, <3>1, <3>2, <4>1
      <4>2. CASE base = 16
        BY <1>1, <3>1, <3>2, <4>2
      <4> QED
        BY <1>1, <4>1, <4>2
    <3>4. q \in 0 .. LONG - 1
      BY <1>1, <3>1, <3>2, <3>3
    <3> QED
      BY <3>4 DEF q
  <2> QED
    BY <1>0, <2>1, <2>2, DigitIs
<1>3. /\ buf' \in Seq(Char) /\ Len(buf) \in Nat /\ Len(buf') = Len(buf) + 1
      /\ \A k \in 1 .. Len(buf) : buf'[k] = buf[k]
      /\ buf'[Len(buf) + 1] = Digit(num % base)
  BY <1>0, <1>1, <1>2, AppendProperties
<1>4. TypeInv'
  BY <1>0, <1>2, <1>3 DEF TypeInv
<1>5. ASSUME NEW n \in 1 .. LONG - 1, Divided(n)
      PROVE  Divided(n)'
  <2> DEFINE len == Len(buf)
             power == Powers(base)
  <2>1. /\ len < LONG /\ len \in 0 .. LONG /\ num = n \div power[len] /\ n \in Nat
    BY <1>1, <1>3, <1>5 DEF Divided
  <2>2. power[len] \in Nat \ {0} /\ len < power[len]
    BY <1>1, <2>1, PowersAre
  <2>3. n >= power[len]
    BY <1>0, <2>1, <2>2, DivideAgain
  <2>4. len + 1 < LONG /\ len + 1 \in 1 .. LONG /\ (len + 1) - 1 = len
    BY <1>1, <2>1, <2>2, <2>3
  <2>5. power[len + 1] = base * power[len]
    BY <1>1, <2>4, PowersAre
  <2>6. num \div base = n \div power[len + 1]
    <3>1. PICK p \in Nat \ {0} : p = power[len]
      BY <2>2
    <3>2. (n \div p) \div base = n \div (base * p)
      BY <1>1, <2>1, DivideAgain
    <3> HIDE DEF len, power
    <3> QED
      BY <2>1, <2>5, <3>1, <3>2
  <2>7. ASSUME NEW k \in 1 .. len + 1
        PROVE  buf'[k] = Digit((n \div power[k - 1]) % base)
    <3>1. CASE k \in 1 .. len
      BY <1>3, <1>5, <3>1 DEF Divided
    <3>2. CASE k = len + 1
      BY <1>3, <2>1, <2>4, <3>2
    <3> QED
      BY <1>3, <3>1, <3>2
  <2>8. Len(buf') = len + 1 /\ base' = base /\ num' = num \div base
    BY <1>0, <1>3
  <2> HIDE DEF len, power
  <2>9. Powers(base') = power /\ Len(buf') - 1 = len
    BY <2>4, <2>8 DEF power
  <2>10. Len(buf') < LONG /\ num' = n \div Powers(base')[Len(buf')]
    BY <2>4, <2>6, <2>8, <2>9
  <2>11. n >= Powers(base')[Len(buf') - 1]
    BY <2>3, <2>9
  <2>12. \A k \in 1 .. Len(buf') : buf'[k] = Digit((n \div Powers(base')[k - 1]) % base')
    BY <2>7, <2>8, <2>9
  <2> QED
    BY <2>10, <2>11, <2>12 DEF Divided
<1>6. ASSUME NEW chars \in Seq(Char), Ahead(chars)
      PROVE  \E left \in Seq(Char) : Ahead(left)' /\ Cat(todo', left) = Cat(todo, chars)
  <2>1. PICK n \in 1 .. LONG - 1 : Divided(n) /\ chars = Cat(Numeral(n, base), Rest)
    BY <1>0, <1>6 DEF Ahead
  <2>2. Divided(n)'
    BY <1>5, <2>1
  <2>3. chars = Cat(Numeral(n, base'), Rest')
    BY <1>0, <2>1 DEF Rest
  <2>4. Ahead(chars)'
    BY <1>0, <2>2, <2>3 DEF Ahead
  <2> QED
    BY <1>0, <2>4
<1> QED
  BY <1>0, <1>4, <1>6, SameText

\* The digits that print_num has produced, backwards, are the numeral.
LEMMA DigitsAreNumeral ==
    ASSUME TypeInv, num = 0, NEW n \in 1 .. LONG - 1, Divided(n)
    PROVE  Reverse(buf) = Numeral(n, base) /\ Numeral(n, base) \in Seq(Char)
<1> DEFINE len == Len(buf)
           power == Powers(base)
<1>1. /\ base \in {10, 16} /\ base \in Nat \ {0} /\ base >= 2 /\ buf \in Seq(Char)
      /\ LONG \in Nat \ {0}
  BY PrintfAssumption DEF TypeInv
<1>2. /\ len \in Nat /\ len < LONG /\ len \in 0 .. LONG /\ n \in Nat
      /\ 0 = n \div power[len] /\ (len > 0 => n >= power[len - 1])
  BY <1>1 DEF Divided
<1>3. power[0] = 1 /\ power[len] \in Nat \ {0}
  BY <1>1, <1>2, PowersAre
<1>4. n < power[len]
  <2>1. ~(n >= power[len])
    <3>1. PICK p \in Nat \ {0} : p = power[len]
      BY <1>3
    <3>2. n \div p > 0 <=> n >= p
      BY <1>1, <1>2, DivideAgain
    <3>3. n \div p = 0
      BY <1>2, <3>1
    <3> HIDE DEF len, power
    <3> QED
      BY <3>1, <3>2, <3>3
  <2> QED
    BY <1>2, <1>3, <2>1
<1>5. len # 0
  BY <1>2, <1>3, <1>4
<1>6. len \in 1 .. LONG /\ n \in 0 .. LONG - 1 /\ n >= power[len - 1]
  BY <1>1, <1>2, <1>5
<1>7. /\ Numeral(n, base) = [k \in 1 .. len |-> Digit((n \div power[len - k]) % base)]
      /\ Numeral(n, base) \in Seq(Char)
  BY <1>1, <1>4, <1>6, NumeralIs
<1>8. ASSUME NEW k \in 1 .. len
      PROVE  buf[(len - k) + 1] = Digit((n \div power[len - k]) % base)
  <2>1. (len - k) + 1 \in 1 .. Len(buf) /\ ((len - k) + 1) - 1 = len - k
    BY <1>2
  <2>2. buf[(len - k) + 1] = Digit((n \div Powers(base)[((len - k) + 1) - 1]) % base)
    BY <2>1 DEF Divided
  <2> QED
    BY <2>1, <2>2
<1>9. Reverse(buf) = [k \in 1 .. len |-> buf[(len - k) + 1]]
  BY DEF Reverse
<1> QED
  BY <1>7, <1>8, <1>9

LEMMA PrintDigitsStep == ASSUME IInv, PrintDigits PROVE IInv'
<1>0. /\ TypeInv /\ pc = "digits" /\ pc' = "scan" /\ todo = <<>> /\ num = 0
      /\ todo' = Reverse(buf)
      /\ UNCHANGED <<call, pos, arg, num, base, buf, thr, wire>>
  BY DEF IInv, PrintDigits
<1>1. Rest \in Seq(Char) /\ Rest' = Rest
  BY <1>0, RestIs DEF Rest
<1>2. PICK rest \in Seq(Char) : rest = Rest
  BY <1>1
<1>3. Ahead(rest)'
  BY <1>0, <1>1, <1>2 DEF Ahead
<1>4. ASSUME NEW chars \in Seq(Char), Ahead(chars)
      PROVE  todo' \in Seq(Char) /\ Cat(todo', rest) = Cat(todo, chars)
  <2>1. PICK n \in 1 .. LONG - 1 : Divided(n) /\ chars = Cat(Numeral(n, base), Rest)
    BY <1>0, <1>4 DEF Ahead
  <2>2. todo' = Numeral(n, base) /\ todo' \in Seq(Char)
    BY <1>0, <2>1, DigitsAreNumeral
  <2>3. Cat(todo, chars) = chars
    BY <1>0, CatIs
  <2> QED
    BY <1>2, <2>1, <2>2, <2>3
<1>5. TypeInv'
  <2>1. PICK chars \in Seq(Char) : Ahead(chars)
    BY DEF IInv
  <2>2. todo' \in Seq(Char)
    BY <1>4, <2>1
  <2> QED
    BY <1>0, <2>2 DEF TypeInv
<1>6. ASSUME NEW chars \in Seq(Char), Ahead(chars)
      PROVE  \E left \in Seq(Char) : Ahead(left)' /\ Cat(todo', left) = Cat(todo, chars)
  BY <1>3, <1>4, <1>6
<1> QED
  BY <1>0, <1>5, <1>6, SameText

-----------------------------------------------------------------------------
(***************************************************************************)
(* The UART.                                                               *)
(***************************************************************************)

\* The rest of printf stays where it is.
LEMMA SameAhead ==
    ASSUME UNCHANGED <<call, pc, pos, arg, num, base, buf>>,
           todo = <<>> => todo' = <<>>,
           NEW chars, Ahead(chars)
    PROVE  Ahead(chars)'
<1>1. Rest' = Rest
  BY DEF Rest
<1>2. \A n : Divided(n) => Divided(n)'
  BY DEF Divided
<1> QED
  BY <1>1, <1>2 DEF Ahead

LEMMA UartPutcStep == ASSUME IInv, UartPutc PROVE IInv'
<1>0. /\ TypeInv /\ todo # <<>> /\ thr = EMPTY /\ thr' = Head(todo) /\ todo' = Tail(todo)
      /\ UNCHANGED <<call, pc, pos, arg, num, base, buf, wire>>
  BY DEF IInv, UartPutc, LsrEmpty
<1>1. /\ todo \in Seq(Char) /\ Head(todo) \in Char /\ Tail(todo) \in Seq(Char)
      /\ wire \in Seq(Char) /\ todo = <<Head(todo)>> \o Tail(todo)
  BY <1>0 DEF TypeInv
<1>2. TypeInv'
  BY <1>0, <1>1 DEF TypeInv
<1>3. PICK chars \in Seq(Char) :
         /\ Ahead(chars)
         /\ Cat(wire, Cat(Held, Cat(todo, chars))) = Text(call.fmt, call.args)
  BY DEF IInv
<1>4. Ahead(chars)'
  BY <1>0, <1>3, SameAhead
<1>5. Cat(Held, Cat(todo, chars)) = Cat(Held', Cat(todo', chars))
  <2> DEFINE h == <<Head(todo)>>
             t == Tail(todo)
  <2>1. h \in Seq(Char) /\ t \in Seq(Char) /\ todo = Cat(h, t)
    BY <1>1 DEF Cat
  <2>2. Held = <<>>
    BY <1>0 DEF Held
  <2>3. Held' = h /\ todo' = t
    <3>1. thr' # EMPTY
      BY <1>0, <1>1, PrintfAssumption
    <3> QED
      BY <1>0, <3>1 DEF Held
  <2> HIDE DEF h, t
  <2>4. Cat(Cat(h, t), chars) = Cat(h, Cat(t, chars))
    BY <2>1, CatIs
  <2>5. Cat(todo, chars) \in Seq(Char)
    BY <1>1, CatIs
  <2>6. Cat(<<>>, Cat(todo, chars)) = Cat(todo, chars)
    BY <2>5, CatIs
  <2> QED
    BY <2>1, <2>2, <2>3, <2>4, <2>6
<1>6. Cat(wire', Cat(Held', Cat(todo', chars))) = Text(call'.fmt, call'.args)
  BY <1>0, <1>3, <1>5
<1> HIDE DEF TypeInv, Ahead
<1> QED
  BY <1>2, <1>4, <1>6 DEF IInv

LEMMA TransmitStep == ASSUME IInv, Transmit PROVE IInv'
<1>0. /\ TypeInv /\ thr # EMPTY /\ thr' = EMPTY /\ wire' = Append(wire, thr)
      /\ UNCHANGED <<call, pc, pos, arg, num, base, buf, todo>>
  BY DEF IInv, Transmit
<1>1. todo \in Seq(Char) /\ wire \in Seq(Char) /\ thr \in Char
  BY <1>0 DEF TypeInv
<1>2. wire' \in Seq(Char) /\ wire' = Cat(wire, <<thr>>)
  BY <1>0, <1>1, AppendProperties, AppendIsConcat DEF Cat
<1>3. TypeInv'
  BY <1>0, <1>2 DEF TypeInv
<1>4. PICK chars \in Seq(Char) :
         /\ Ahead(chars)
         /\ Cat(wire, Cat(Held, Cat(todo, chars))) = Text(call.fmt, call.args)
  BY DEF IInv
<1>5. Ahead(chars)'
  BY <1>0, <1>4, SameAhead
<1>6. Cat(wire', Cat(Held', Cat(todo', chars))) = Cat(wire, Cat(Held, Cat(todo, chars)))
  <2> DEFINE h == <<thr>>
             x == Cat(todo, chars)
  <2>1. h \in Seq(Char) /\ x \in Seq(Char)
    BY <1>1, CatIs
  <2>2. Held = h /\ Held' = <<>> /\ Cat(todo', chars) = x
    BY <1>0 DEF Held
  <2> HIDE DEF h, x
  <2>3. Cat(Cat(wire, h), x) = Cat(wire, Cat(h, x)) /\ Cat(<<>>, x) = x
    BY <1>1, <2>1, CatIs
  <2>4. wire' = Cat(wire, h)
    BY <1>2 DEF h
  <2> QED
    BY <2>2, <2>3, <2>4 DEF x
<1>7. Cat(wire', Cat(Held', Cat(todo', chars))) = Text(call'.fmt, call'.args)
  BY <1>0, <1>4, <1>6
<1> HIDE DEF TypeInv, Ahead
<1> QED
  BY <1>3, <1>5, <1>7 DEF IInv

-----------------------------------------------------------------------------
LEMMA IInvInit == ASSUME Init PROVE IInv
<1>1. /\ call \in Calls /\ call.fmt \in Seq(Char) /\ Fits(call.fmt, call.args)[1][1]
      /\ LONG \in Nat \ {0}
  BY CallsAssumption, PrintfAssumption DEF Init
<1>2. TypeInv
  <2>1. 1 \in 1 .. Len(call.fmt) + 1 /\ 0 \in 0 .. LONG - 1
    BY <1>1
  <2> QED
    BY <1>1, <2>1 DEF Init, TypeInv
<1>3. Rest \in Seq(Char) /\ Rest = Text(call.fmt, call.args)
  BY <1>2, RestIs DEF Init, Rest, Text
<1>4. Ahead(Rest)
  BY DEF Init, Ahead
<1>5. Cat(wire, Cat(Held, Cat(todo, Rest))) = Rest
  <2>1. wire = <<>> /\ Held = <<>> /\ todo = <<>>
    BY DEF Init, Held
  <2> QED
    BY <1>3, <2>1, CatIs
<1> QED
  BY <1>2, <1>3, <1>4, <1>5 DEF IInv

LEMMA IInvStep == ASSUME IInv, [Next]_vars PROVE IInv'
<1>1. CASE Scan
  BY <1>1, ScanStep
<1>2. CASE Return
  BY <1>2, ReturnStep
<1>3. CASE Divide
  BY <1>3, DivideStep
<1>4. CASE PrintDigits
  BY <1>4, PrintDigitsStep
<1>5. CASE UartPutc
  BY <1>5, UartPutcStep
<1>6. CASE Transmit
  BY <1>6, TransmitStep
<1>7. CASE UNCHANGED vars
  <2>1. TypeInv'
    BY <1>7 DEF IInv, TypeInv, vars
  <2>2. \A chars : Ahead(chars) => Ahead(chars)'
    BY <1>7, SameAhead DEF vars
  <2>3. Held' = Held /\ wire' = wire /\ todo' = todo /\ call' = call
    BY <1>7 DEF Held, vars
  <2> HIDE DEF TypeInv, Ahead
  <2> QED
    BY <2>1, <2>2, <2>3 DEF IInv
<1> QED
  BY <1>1, <1>2, <1>3, <1>4, <1>5, <1>6, <1>7 DEF Next, Software

\* What has gone out is the beginning of the text.
LEMMA IInvImplies == IInv => WireShowsText
<1> SUFFICES ASSUME IInv PROVE WireShowsText
  OBVIOUS
<1>1. PICK chars \in Seq(Char) :
         /\ Ahead(chars)
         /\ Cat(wire, Cat(Held, Cat(todo, chars))) = Text(call.fmt, call.args)
  BY DEF IInv
<1>2. /\ wire \in Seq(Char) /\ todo \in Seq(Char) /\ Held \in Seq(Char)
  BY DEF IInv, TypeInv, Held
<1> DEFINE x == Cat(Held, Cat(todo, chars))
<1>3. x \in Seq(Char)
  BY <1>2, CatIs
<1>4. ASSUME pc = "returned", thr = EMPTY PROVE x = <<>>
  BY <1>1, <1>4, CatIs DEF Ahead, Held
<1> HIDE DEF x
<1>5. Text(call.fmt, call.args) = wire \o x
  BY <1>1 DEF x, Cat
<1>6. IsPrefix(wire, wire \o x)
  <2>1. Len(wire) \in Nat /\ Len(x) \in Nat /\ Len(wire \o x) = Len(wire) + Len(x)
    BY <1>2, <1>3, ConcatProperties
  <2>2. \A i \in 1 .. Len(wire) : (wire \o x)[i] = wire[i]
    BY <1>2, <1>3, <2>1, ConcatProperties
  <2>3. SubSeq(wire, 1, Len(wire)) = SubSeq(wire \o x, 1, Len(wire))
    BY <1>2, <1>3, <2>1, <2>2
  <2> QED
    BY <2>1, <2>3 DEF IsPrefix
<1>7. pc = "returned" /\ thr = EMPTY => wire = wire \o x
  BY <1>2, <1>4, ConcatEmptySeq
<1> QED
  BY <1>5, <1>6, <1>7 DEF WireShowsText

(***************************************************************************)
(* What goes out is the text of the call, for every width of a long, every *)
(* format and all the arguments that it asks for (printf.c:47-83,          *)
(* uart.c:36-45).                                                          *)
(***************************************************************************)
THEOREM TextIsSent == Spec => []WireShowsText
<1>1. Init => IInv
  BY IInvInit
<1>2. IInv /\ [Next]_vars => IInv'
  BY IInvStep
<1>3. IInv => WireShowsText
  BY IInvImplies
<1> QED
  BY <1>1, <1>2, <1>3, PTL DEF Spec
=============================================================================
