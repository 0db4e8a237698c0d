----------------------- MODULE SelectionSampling_proofs -----------------------
(***************************************************************************)
(* For words of any width a draw is as uniform as the words. For every     *)
(* album and every setting: however the draws fall, the walk over an album *)
(* ends with exactly as many pictures as it was to take, and what it hands *)
(* over is what AlbumSample promises, and each subset of that size comes   *)
(* up with the same probability.                                           *)
(***************************************************************************)
EXTENDS SelectionSampling, Numbers_proofs, FiniteSetTheorems,
        SequenceTheorems, TLAPS

InputInv ==
  count \in Sizes /\ invalid \in SUBSET (1..count) /\ memory \in BOOLEAN

StatusInv == status \in {"drawing", "done", "failed"}

SelectionInv == SelectionInvariant /\ InputInv /\ StatusInv

-------------------------------------------------------------------------------
(* random_below()                                                          *)

(* A draw from n numbers is one of them.                                   *)
LEMMA DrawBelow ==
  ASSUME NEW n \in 1..UINT64_MAX
  PROVE  random_below(n) \subseteq 0..(n - 1)
  BY WordAssumption DEF WordAssumption, random_below, Accepted

(* For any width of a word: the words that give d and those that give e    *)
(* are as many, since x |-> x - d + e leads from the ones to the others.   *)
(* So random_below() is as uniform as its generator.                       *)
THEOREM DrawsEquallyLikely ==
  ASSUME NEW n \in 1..UINT64_MAX, NEW d \in 0..(n - 1), NEW e \in 0..(n - 1),
         NEW x \in Accepted(n), x % n = d
  PROVE  x - d + e \in Accepted(n) /\ (x - d + e) % n = e
<1> DEFINE limit == UINT64_MAX - (UINT64_MAX % n)
           L == UINT64_MAX \div n
           q == x \div n
<1>1. L \in Nat /\ limit = L * n
  BY WordAssumption DEF WordAssumption
<1>2. x \in Nat /\ q \in Nat /\ x = q * n + d /\ x < limit
  BY WordAssumption DEF WordAssumption, Accepted
<1>3. q < L
  BY <1>1, <1>2
<1>4. (q + 1) * n <= L * n
  BY <1>3, <1>1, <1>2
<1>5. q * n + e \in Nat /\ q * n + e < limit
  BY <1>1, <1>2, <1>4
<1>6. (q * n + e) % n = e
  BY <1>2
<1>7. x - d + e = q * n + e
  BY <1>2
<1>8. q * n + e \in Accepted(n)
  BY <1>5, WordAssumption DEF WordAssumption, Accepted
<1>9. QED
  BY <1>6, <1>7, <1>8

-------------------------------------------------------------------------------
(* The walk over the album                                                 *)

(* The walk never needs more pictures than there are.                      *)
LEMMA SampleFits ==
  ASSUME InputInv
  PROVE  count \in Nat /\ k \in 0..count
<1>1. count \in Nat
  BY SelectionAssumption, WordAssumption
  DEF InputInv, SelectionAssumption, WordAssumption
<1>2. QED
  BY <1>1, SelectionAssumption, SampleSizeBounds DEF SelectionAssumption, k

(* An album has at least as many pictures as are asked of it.              *)
LEMMA SelectionInit ==
  ASSUME Init
  PROVE  SelectionInv
<1>1. InputInv /\ StatusInv
  BY DEF Init, InputInv, StatusInv
<1>2. SelectionInvariant
  BY <1>1, SampleFits, EmptySeq DEF Init, SelectionInvariant, selected
<1>3. QED
  BY <1>1, <1>2 DEF SelectionInv

(* Every draw leaves enough pictures to choose from.                       *)
LEMMA SelectionStep ==
  ASSUME SelectionInv, [Next]_vars
  PROVE  SelectionInv'
<1> USE DEF SelectionInv
<1>1. count \in Nat /\ k \in 0..count /\ k' = k /\ InputInv'
  BY SampleFits
  DEF InputInv, k, Next, vars, input, NoBuffer, Skip, Keep, Return, Done
<1>2. StatusInv'
  BY DEF StatusInv, Next, vars, NoBuffer, Skip, Keep, Return, Done
<1> USE DEF SelectionInvariant, selected
<1>3. CASE NoBuffer
  BY <1>1, <1>2, <1>3 DEF NoBuffer, input
<1>4. CASE Skip
  <2>1. k - selected <= count - (i + 1)
    <3>1. i \in Nat /\ i < count
      BY <1>4 DEF Skip, InLoop
    <3>2. count \in 0..UINT64_MAX
      BY SelectionAssumption DEF SelectionAssumption, InputInv
    <3>3. Left \in 1..UINT64_MAX
      BY <3>1, <3>2, WordAssumption DEF WordAssumption, Left
    <3>4. PICK x \in 0..(Left - 1) : ~Kept(x)
      BY <1>4, <3>3, DrawBelow DEF Skip
    <3>5. QED
      BY <1>1, <3>1, <3>4 DEF Left, Kept
  <2>2. QED
    BY <1>1, <1>2, <1>4, <2>1 DEF Skip, InLoop, input
<1>5. CASE Keep
  <2>1. CASE i + 1 \in invalid
    BY <1>1, <1>2, <1>5, <2>1 DEF Keep, InLoop, input
  <2>2. CASE i + 1 \notin invalid
    <3>1. /\ sample' = Append(sample, i + 1) /\ i' = i + 1
          /\ UNCHANGED <<input, status, result>>
      BY <1>5, <2>2 DEF Keep
    <3>2. selected' = selected + 1 /\ sample' \in Seq(1..i')
      BY <1>1, <3>1, AppendProperties
    <3>3. \A a \in 1..selected' : sample'[a] = IF a <= selected THEN sample[a]
                                               ELSE i + 1
      BY <3>1, <3>2, AppendProperties
    <3>4. i' \in 0..count /\ selected' <= k /\ k - selected' <= count - i'
      BY <1>1, <1>5, <3>1, <3>2 DEF InLoop, Keep
    <3>5. \A a \in 1..selected : sample[a] \in 1..i
      BY <1>1, LenProperties
    <3>6. \A a, b \in 1..selected' : a < b => sample'[a] < sample'[b]
      <4>1. SUFFICES ASSUME NEW a \in 1..selected', NEW b \in 1..selected',
                            a < b
                     PROVE  sample'[a] < sample'[b]
        OBVIOUS
      <4>2. a \in 1..selected /\ selected \in Nat /\ i \in Nat
        BY <1>1, <3>2, <4>1
      <4>3. sample'[a] = sample[a] /\ sample[a] \in 1..i
        BY <3>3, <3>5, <4>2
      <4>4. CASE b = selected + 1
        BY <3>3, <4>2, <4>3, <4>4
      <4>5. CASE b \in 1..selected
        BY <3>3, <4>1, <4>2, <4>3, <4>5
      <4>6. b = selected + 1 \/ b \in 1..selected
        <5>1. \A n \in Nat : \A c \in 1..n + 1 : c = n + 1 \/ c \in 1..n
          OBVIOUS
        <5>2. b \in 1..selected + 1
          BY <3>2, Zenon
        <5>3. QED
          BY <4>2, <5>1, <5>2, Zenon
      <4>7. QED
        BY <4>4, <4>5, <4>6
    <3>7. \A a \in 1..selected' : sample'[a] \notin invalid'
      BY <2>2, <3>1, <3>2, <3>3 DEF input
    <3>8. status' = "drawing" /\ result' = <<>>
      BY <1>5, <3>1 DEF InLoop, Keep
    <3>9. QED
      BY <1>1, <1>2, <3>1, <3>2, <3>4, <3>6, <3>7, <3>8 DEF input
  <2>3. QED
    BY <2>1, <2>2
<1>6. CASE Return
  BY <1>1, <1>2, <1>6 DEF Return, input
<1>7. CASE Done \/ UNCHANGED vars
  BY <1>1, <1>2, <1>7 DEF Done, vars, input
<1>8. QED
  BY <1>3, <1>4, <1>5, <1>6, <1>7 DEF Next

(* The strengthened invariant, which the two theorems below share.         *)
LEMMA SelectionInvCorrect == Spec => []SelectionInv
BY SelectionInit, SelectionStep, PTL DEF Spec

(* The sample keeps the album's order, holds no unusable ID, and is full   *)
(* when the walk is over.                                                  *)
THEOREM SelectionCorrect == Spec => []SelectionInvariant
<1>1. SelectionInv => SelectionInvariant
  BY DEF SelectionInv
<1>2. QED
  BY <1>1, SelectionInvCorrect, PTL

-------------------------------------------------------------------------------
(* sample_size() is the documented size: the nearest percentage, at least  *)
(* one picture, within the limit.                                          *)
LEMMA SizeIsDocumented ==
  ASSUME NEW n \in Nat
  PROVE  Promise!Size(n, sample_size(n, max_pictures, percent))
<1> DEFINE scaled == IF percent < 100 THEN Rounded(n, percent) ELSE n
           t == IF percent < 100 /\ scaled = 0 /\ n > 0 THEN 1 ELSE scaled
<1>1. n * percent \in Nat /\ percent \in 1..100 /\ max_pictures \in Nat
  BY SelectionAssumption, SMT DEF SelectionAssumption
<1>2. scaled \in 0..n
  <2>1. CASE percent = 100
    BY <2>1
  <2>2. CASE percent < 100
    <3>1. n * percent <= n * 99
      BY <1>1, <2>2, SMT
    <3>2. n * percent + 50 < 100 * (n + 1)
      BY <1>1, <3>1
    <3>3. QED
      BY <1>1, <2>2, <3>2 DEF Rounded
  <2>3. QED
    BY <1>1, <2>1, <2>2
<1>3. Promise!Nearest(n, scaled)
  <2>1. CASE percent = 100
    BY <2>1 DEF Promise!Nearest
  <2>2. CASE percent < 100
    BY <1>1, <2>2 DEF Promise!Nearest, Rounded
  <2>3. QED
    BY <1>1, <2>1, <2>2
<1>4. ASSUME NEW x \in Nat, Promise!Nearest(n, x) PROVE x = scaled
  <2>1. PICK y \in Nat : y = scaled
    BY <1>2
  <2> HIDE DEF scaled
  <2>2. QED
    BY <1>1, <1>3, <1>4, <2>1 DEF Promise!Nearest
<1>5. percent = 100 => scaled = n
  OBVIOUS
<1> HIDE DEF scaled
<1>6. Promise!Nearest(n, 0) <=> scaled = 0
  BY <1>3, <1>4
<1>7. t \in 0..n /\ Promise!Share(n, t)
  BY <1>1, <1>2, <1>3, <1>5, <1>6 DEF Promise!Share
<1>8. sample_size(n, max_pictures, percent)
        = IF max_pictures > 0 /\ t > max_pictures THEN max_pictures ELSE t
  BY Zenon DEF sample_size, scaled
<1> HIDE DEF t
<1>9. sample_size(n, max_pictures, percent)
        = IF max_pictures \in 1..t THEN max_pictures ELSE t
  BY <1>1, <1>7, <1>8
<1>10. QED
  BY <1>7, <1>9 DEF Promise!Size

(* The walk over an album keeps the promise of AlbumSample: all that the   *)
(* settings are documented to ask for, or nothing, and nothing only for a  *)
(* reason.                                                                 *)
THEOREM PromiseKept == Spec => KeepsPromise
<1>1. Init => Promise!Init
  BY DEF Init, Promise!Init
<1>2. SelectionInv /\ [Next]_vars => [Promise!Next]_Promise!vars
  <2> SUFFICES ASSUME SelectionInv, [Next]_vars
               PROVE  Promise!Next \/ UNCHANGED Promise!vars
    OBVIOUS
  <2> USE DEF Promise!vars
  <2>1. CASE NoBuffer
    <3>1. count > 0
      BY <2>1, SampleFits DEF NoBuffer, SelectionInv
    <3>2. QED
      BY <2>1, <3>1 DEF NoBuffer, input, Promise!Next, Promise!GiveUp
  <2>2. CASE Skip
    BY <2>2 DEF Skip, input
  <2>3. CASE Keep
    BY <2>3 DEF Keep, InLoop, input, Promise!Next, Promise!GiveUp
  <2>4. CASE Return
    <3>1. /\ status' = "done" /\ result' = sample
          /\ UNCHANGED input /\ status = "drawing"
      BY <2>4 DEF Return
    <3>2. /\ count \in Nat /\ k \in 0..count
          /\ Len(sample) = k /\ sample \in Seq(1..i) /\ i \in 0..count
      BY <2>4, SampleFits DEF Return, SelectionInv, SelectionInvariant, selected
    <3>3. sample \in [1..k -> (1..count) \ invalid]
      BY <3>2, LenProperties DEF SelectionInv, SelectionInvariant, selected
    <3>4. Promise!Increasing(sample)
      BY <3>2, <3>3 DEF SelectionInv, SelectionInvariant, selected,
                        Promise!Increasing
    <3>5. Promise!Size(count, k)
      BY <3>2, SizeIsDocumented DEF k
    <3>6. k \in 0..count /\ UNCHANGED <<count, invalid, memory>>
      BY <3>1, <3>2 DEF input
    <3>7. Promise!Draw
      BY <3>1, <3>3, <3>4, <3>5, <3>6 DEF Promise!Draw, Promise!Increasing
    <3>8. QED
      BY <3>7 DEF Promise!Next
  <2>5. CASE Done \/ UNCHANGED vars
    BY <2>5 DEF Done, vars, input
  <2>6. QED
    BY <2>1, <2>2, <2>3, <2>4, <2>5 DEF Next
<1>3. QED
  BY <1>1, <1>2, SelectionInvCorrect, PTL DEF Spec, KeepsPromise, Promise!Spec

-------------------------------------------------------------------------------
(* Pascal's triangle is well defined, and what follows from its rule.       *)

(* The row that follows the last one of g                                  *)
Row(g, n) == [m \in 0..n |-> IF m = 0 \/ m = n THEN 1
                             ELSE g[n - 1][m - 1] + g[n - 1][m]]

(* g begins with rows 0 to n of the triangle                               *)
Rows(g, n) == \A y \in 0..n : g[y] = Row(g, y)

(* A row depends on the one before only.                                    *)
LEMMA RowDepends ==
  ASSUME NEW n \in Nat, NEW g, NEW h, n > 0 => g[n - 1] = h[n - 1]
  PROVE  Row(g, n) = Row(h, n)
<1>1. CASE n = 0
  BY <1>1 DEF Row
<1>2. CASE n > 0
  BY <1>2 DEF Row
<1>3. QED
  BY <1>1, <1>2

(* There is a triangle of any height.                                       *)
LEMMA RowsExist ==
  ASSUME NEW n \in Nat
  PROVE  \E g : Rows(g, n)
<1> DEFINE S == {x \in Nat : \E g : Rows(g, x)}
<1>1. 0 \in S
  <2> DEFINE g == [y \in {0} |-> Row(<<>>, 0)]
  <2>1. g[0] = Row(g, 0)
    BY RowDepends
  <2>2. \A y \in 0..0 : y = 0
    OBVIOUS
  <2> HIDE DEF g
  <2>3. Rows(g, 0)
    BY <2>1, <2>2 DEF Rows
  <2>4. QED
    BY <2>3
<1>2. ASSUME NEW x \in Nat, x \in S PROVE x + 1 \in S
  <2>1. PICK g : Rows(g, x)
    BY <1>2
  <2> DEFINE h == [y \in 0..x + 1 |-> IF y = x + 1 THEN Row(g, x + 1) ELSE g[y]]
  <2>2. \A y \in 0..x : h[y] = g[y]
    OBVIOUS
  <2>3. h[x + 1] = Row(g, x + 1)
    OBVIOUS
  <2> HIDE DEF h
  <2>4. ASSUME NEW y \in 0..x + 1 PROVE h[y] = Row(h, y)
    <3>1. y > 0 => g[y - 1] = h[y - 1]
      BY <2>2
    <3>2. Row(g, y) = Row(h, y)
      BY <3>1, RowDepends
    <3>3. CASE y = x + 1
      BY <2>3, <3>2, <3>3
    <3>4. CASE y \in 0..x
      BY <2>1, <2>2, <3>2, <3>4 DEF Rows
    <3>5. QED
      BY <3>3, <3>4
  <2>5. Rows(h, x + 1)
    BY <2>4 DEF Rows
  <2>6. QED
    BY <2>5
<1> HIDE DEF S
<1>3. Nat \subseteq S
  BY <1>1, <1>2, SetInduction
<1>4. QED
  BY <1>3 DEF S

(* There is only one.                                                       *)
LEMMA RowsUnique ==
  ASSUME NEW g, NEW h, NEW n \in Nat, Rows(g, n), Rows(h, n), NEW y \in 0..n
  PROVE  g[y] = h[y]
<1> DEFINE S == {x \in Nat : x <= n => g[x] = h[x]}
<1>1. 0 \in S
  <2>1. g[0] = Row(g, 0) /\ h[0] = Row(h, 0)
    BY DEF Rows
  <2>2. QED
    BY <2>1, RowDepends
<1>2. ASSUME NEW x \in Nat, x \in S PROVE x + 1 \in S
  <2>1. SUFFICES ASSUME x + 1 <= n PROVE g[x + 1] = h[x + 1]
    OBVIOUS
  <2>2. g[x + 1] = Row(g, x + 1) /\ h[x + 1] = Row(h, x + 1)
    BY <2>1 DEF Rows
  <2>3. g[x + 1 - 1] = h[x + 1 - 1]
    BY <1>2, <2>1
  <2>4. QED
    BY <2>2, <2>3, RowDepends
<1> HIDE DEF S
<1>3. Nat \subseteq S
  BY <1>1, <1>2, SetInduction
<1>4. y \in S
  BY <1>3
<1>5. QED
  BY <1>4 DEF S

(* So the recursive definition does define Pascal's triangle,               *)
LEMMA BinomialRows ==
  ASSUME NEW n \in Nat
  PROVE  Binomial[n] = Row(Binomial, n)
<1> DEFINE first(x) == CHOOSE g : Rows(g, x)
           G == [x \in Nat |-> first(x)[x]]
<1>1. \A x \in Nat : Rows(first(x), x)
  BY RowsExist, Zenon
<1> HIDE DEF first
<1>2. ASSUME NEW x \in Nat PROVE G[x] = Row(G, x)
  <2>1. first(x)[x] = Row(first(x), x)
    BY <1>1 DEF Rows
  <2>2. ASSUME x > 0 PROVE first(x)[x - 1] = first(x - 1)[x - 1]
    <3>1. Rows(first(x - 1), x - 1)
      BY <1>1, <2>2
    <3>2. Rows(first(x), x - 1)
      BY <1>1, <2>2 DEF Rows
    <3>3. QED
      BY <2>2, <3>1, <3>2, RowsUnique
  <2>3. Row(first(x), x) = Row(G, x)
    BY <2>2, RowDepends
  <2>4. QED
    BY <2>1, <2>3
<1> HIDE DEF G
<1>3. G = [x \in Nat |-> Row(G, x)]
  BY <1>2 DEF G
<1>4. \E g : g = [x \in Nat |-> Row(g, x)]
  BY <1>3
<1>5. Binomial = [x \in Nat |-> Row(Binomial, x)]
  BY <1>4, Zenon DEF Binomial, Row
<1>6. QED
  BY <1>5

(* each of whose numbers is 1 or the sum of the two above it,               *)
LEMMA BinomialAt ==
  ASSUME NEW n \in Nat, NEW m \in 0..n
  PROVE  Binomial[n][m] = IF m = 0 \/ m = n THEN 1
                          ELSE Binomial[n - 1][m - 1] + Binomial[n - 1][m]
  BY BinomialRows DEF Row

(* and a natural number.                                                    *)
LEMMA BinomialType ==
  ASSUME NEW n \in Nat
  PROVE  Binomial[n] \in [0..n -> Nat]
<1> DEFINE S == {x \in Nat : \A m \in 0..x : Binomial[x][m] \in Nat}
<1>1. 0 \in S
  BY BinomialAt
<1>2. ASSUME NEW x \in Nat, x \in S PROVE x + 1 \in S
  <2>1. ASSUME NEW m \in 0..x + 1 PROVE Binomial[x + 1][m] \in Nat
    <3>1. CASE m = 0 \/ m = x + 1
      BY <3>1, BinomialAt
    <3>2. CASE m \in 1..x
      <4>1. Binomial[x + 1][m] = Binomial[x][m - 1] + Binomial[x][m]
        BY <3>2, BinomialAt
      <4>2. Binomial[x][m - 1] \in Nat /\ Binomial[x][m] \in Nat
        BY <1>2, <3>2
      <4>3. QED
        BY <4>1, <4>2
    <3>3. QED
      BY <3>1, <3>2
  <2>2. QED
    BY <2>1
<1> HIDE DEF S
<1>3. n \in S
  BY <1>1, <1>2, SetInduction
<1>4. QED
  BY <1>3, BinomialRows DEF S, Row

(* Of the subsets of size m, the share of m in n holds a given element.    *)
LEMMA BinomialWith ==
  ASSUME NEW n \in Nat, n > 0, NEW m \in 1..n
  PROVE  m * Binomial[n][m] = n * Binomial[n - 1][m - 1]
<1> DEFINE P(x) == \A j \in 1..x : j * Binomial[x][j] = x * Binomial[x - 1][j - 1]
           S == {x \in Nat : x > 0 => P(x)}
<1>1. 0 \in S
  OBVIOUS
<1>2. ASSUME NEW x \in Nat, x \in S PROVE x + 1 \in S
  <2> DEFINE B(y, j) == Binomial[y][j]
  <2> HIDE DEF B
  <2>a. \A y \in Nat : \A j \in 0..y : B(y, j) \in Nat
    BY BinomialType DEF B
  <2>b. \A y \in Nat : B(y, 0) = 1 /\ B(y, y) = 1
    BY BinomialAt DEF B
  <2>c. \A y \in Nat : \A j \in 1..y : B(y + 1, j) = B(y, j - 1) + B(y, j)
    <3>1. ASSUME NEW y \in Nat, NEW j \in 1..y
          PROVE  B(y + 1, j) = B(y, j - 1) + B(y, j)
      <4>1. y + 1 \in Nat /\ j \in 0..y + 1 /\ j # 0 /\ j # y + 1 /\ y + 1 - 1 = y
        OBVIOUS
      <4>2. QED
        BY <4>1, BinomialAt DEF B
    <3>2. QED
      BY <3>1
  <2>d. x > 0 => \A j \in 1..x : j * B(x, j) = x * B(x - 1, j - 1)
    BY <1>2 DEF B
  <2>1. ASSUME NEW j \in 1..x + 1
        PROVE  j * B(x + 1, j) = (x + 1) * B(x, j - 1)
    <3>1. CASE j = x + 1
      BY <2>b, <3>1
    <3>2. CASE j = 1 /\ x > 0
      <4>1. B(x + 1, 1) = 1 + B(x, 1)
        BY <2>b, <2>c, <3>2
      <4>2. 1 * B(x, 1) = x * 1
        BY <2>b, <2>d, <3>2
      <4>3. QED
        BY <2>a, <2>b, <3>2, <4>1, <4>2
    <3>3. CASE j \in 2..x
      <4>1. PICK b \in Nat, c \in Nat, e \in Nat, h \in Nat :
              /\ b = B(x, j - 1) /\ c = B(x, j)
              /\ e = B(x - 1, j - 1) /\ h = B(x - 1, j - 2)
        <5>1. /\ x - 1 \in Nat /\ j \in 0..x /\ j - 1 \in 0..x
              /\ j - 1 \in 0..x - 1 /\ j - 2 \in 0..x - 1
          BY <3>3
        <5>2. /\ B(x, j - 1) \in Nat /\ B(x, j) \in Nat
              /\ B(x - 1, j - 1) \in Nat /\ B(x - 1, j - 2) \in Nat
          BY <2>a, <5>1
        <5>3. QED
          BY <5>2
      <4>2. B(x + 1, j) = b + c
        BY <2>c, <3>3, <4>1
      <4>3. j * c = x * e
        BY <2>d, <3>3, <4>1
      <4>4. (j - 1) * b = x * h
        <5>1. j - 1 \in 1..x /\ j - 1 - 1 = j - 2 /\ x > 0
          BY <3>3
        <5>2. QED
          BY <2>d, <4>1, <5>1
      <4>5. b = h + e
        <5>1. x - 1 \in Nat /\ j - 1 \in 1..x - 1 /\ x - 1 + 1 = x /\ j - 1 - 1 = j - 2
          BY <3>3
        <5>2. QED
          BY <2>c, <4>1, <5>1
      <4>6. j * (b + c) = (j - 1) * b + b + j * c
        BY <3>3
      <4>7. (j - 1) * b + b + j * c = (x + 1) * b
        BY <4>3, <4>4, <4>5
      <4>8. QED
        BY <4>1, <4>2, <4>6, <4>7
    <3>4. QED
      BY <3>1, <3>2, <3>3
  <2>2. x + 1 - 1 = x
    OBVIOUS
  <2>3. P(x + 1)
    BY <2>1, <2>2 DEF B
  <2>4. QED
    BY <2>3
<1> HIDE DEF S
<1>3. n \in S
  BY <1>1, <1>2, SetInduction
<1>4. QED
  BY <1>3 DEF S

(* The others do without it.                                               *)
LEMMA BinomialWithout ==
  ASSUME NEW n \in Nat, n > 0, NEW m \in 0..n - 1
  PROVE  (n - m) * Binomial[n][m] = n * Binomial[n - 1][m]
<1>1. CASE m = 0
  <2>1. Binomial[n][m] = 1 /\ Binomial[n - 1][m] = 1
    BY <1>1, BinomialAt
  <2>2. QED
    BY <1>1, <2>1
<1>2. CASE m \in 1..n - 1
  <2>1. PICK a \in Nat, b \in Nat, c \in Nat :
          a = Binomial[n][m] /\ b = Binomial[n - 1][m - 1] /\ c = Binomial[n - 1][m]
    <3>1. n - 1 \in Nat /\ m \in 0..n /\ m \in 0..n - 1 /\ m - 1 \in 0..n - 1
      BY <1>2
    <3>2. /\ Binomial[n][m] \in Nat /\ Binomial[n - 1][m - 1] \in Nat
          /\ Binomial[n - 1][m] \in Nat
      BY <3>1, BinomialType
    <3>3. QED
      BY <3>2
  <2>2. a = b + c
    BY <1>2, <2>1, BinomialAt
  <2>3. m * a = n * b
    <3>1. m \in 1..n
      BY <1>2
    <3>2. QED
      BY <2>1, <3>1, BinomialWith
  <2>4. (n - m) * a = n * a - m * a
    BY <1>2
  <2>5. n * a = n * b + n * c
    BY <2>2
  <2>6. (n - m) * a = n * c
    BY <2>3, <2>4, <2>5
  <2>7. QED
    BY <2>1, <2>6
<1>3. QED
  BY <1>1, <1>2

-------------------------------------------------------------------------------
(* How likely a walk is                                                     *)

(* Of every n numbers in a row from a multiple of n, m leave a remainder   *)
(* below m.                                                                *)
LEMMA RemaindersBelow ==
  ASSUME NEW n \in Nat, n > 0, NEW m \in 0..n, NEW q \in Nat
  PROVE  LET W == {x \in 0..(q * n - 1) : x % n < m}
         IN  IsFiniteSet(W) /\ Cardinality(W) = q * m
<1> DEFINE W(p) == {x \in 0..(p * n - 1) : x % n < m}
           S == {p \in Nat : IsFiniteSet(W(p)) /\ Cardinality(W(p)) = p * m}
<1>1. 0 \in S
  <2>1. W(0) = {}
    OBVIOUS
  <2>2. QED
    BY <2>1, FS_EmptySet
<1>2. ASSUME NEW p \in Nat, p \in S PROVE p + 1 \in S
  <2> DEFINE b == p * n
             V == b..(b + m - 1)
  <2>0. IsFiniteSet(W(p)) /\ Cardinality(W(p)) = p * m
    BY <1>2
  <2>1. b \in Nat /\ (p + 1) * n = b + n
    OBVIOUS
  <2>2. \A d \in 0..n - 1 : (b + d) % n = d
    <3>1. ASSUME NEW d \in 0..n - 1 PROVE (p * n + d) % n = d
      OBVIOUS
    <3>2. QED
      BY <3>1
  <2> HIDE DEF b
  <2>3. \A x \in b..(b + n - 1) : x % n = x - b
    <3>1. ASSUME NEW x \in b..(b + n - 1) PROVE x % n = x - b
      <4>1. x - b \in 0..n - 1 /\ b + (x - b) = x
        BY <2>1
      <4>2. QED
        BY <2>2, <4>1
    <3>2. QED
      BY <3>1
  <2>4. W(p + 1) = W(p) \cup V
    <3>1. W(p) = {x \in 0..(b - 1) : x % n < m}
      BY DEF b
    <3>2. W(p + 1) = {x \in 0..(b + n - 1) : x % n < m}
      BY <2>1
    <3>3. ASSUME NEW x \in b..(b + n - 1) PROVE x % n < m <=> x \in V
      <4>1. x % n = x - b
        BY <2>3
      <4>2. QED
        BY <2>1, <4>1
    <3>4. ASSUME NEW x \in V PROVE x \in b..(b + n - 1)
      BY <2>1
    <3>5. 0..(b + n - 1) = 0..(b - 1) \cup b..(b + n - 1)
      BY <2>1
    <3> HIDE DEF V, W
    <3>6. QED
      BY <3>1, <3>2, <3>3, <3>4, <3>5
  <2>5. W(p) \cap V = {}
    BY <2>1 DEF b
  <2>6. IsFiniteSet(V) /\ Cardinality(V) = m
    <3>1. b \in Int /\ b + m - 1 \in Int
      BY <2>1
    <3>2. QED
      BY <2>1, <3>1, FS_Interval
  <2> HIDE DEF V, W
  <2>7. /\ IsFiniteSet(W(p) \cup V)
        /\ Cardinality(W(p) \cup V) = Cardinality(W(p)) + Cardinality(V)
                                      - Cardinality(W(p) \cap V)
    BY <2>0, <2>6, FS_Union, Zenon
  <2>8. Cardinality(W(p + 1)) = p * m + m
    <3>1. Cardinality(W(p) \cap V) = 0
      BY <2>5, FS_EmptySet, Zenon
    <3>2. Cardinality(W(p + 1)) = p * m + m - 0
      BY <2>0, <2>4, <2>6, <2>7, <3>1, Zenon
    <3>3. QED
      BY <3>2
  <2>9. p * m + m = (p + 1) * m
    OBVIOUS
  <2>10. IsFiniteSet(W(p + 1)) /\ Cardinality(W(p + 1)) = (p + 1) * m
    BY <2>4, <2>7, <2>8, <2>9
  <2>11. QED
    BY <2>10
<1> HIDE DEF S, W
<1>3. q \in S
  BY <1>1, <1>2, SetInduction
<1>4. QED
  BY <1>3 DEF S, W

(* The words that are accepted, and those of them that keep a picture.     *)
LEMMA WordsThatKeep ==
  ASSUME NEW n \in 1..UINT64_MAX, NEW m \in 0..n
  PROVE  LET q == UINT64_MAX \div n
             W == {x \in Accepted(n) : x % n < m}
         IN  /\ q \in Nat /\ q > 0
             /\ IsFiniteSet(Accepted(n)) /\ Cardinality(Accepted(n)) = q * n
             /\ Cardinality(W) = q * m
             /\ Cardinality(Accepted(n) \ W) = q * (n - m)
<1> DEFINE q == UINT64_MAX \div n
           W == {x \in Accepted(n) : x % n < m}
<1>1. q \in Nat /\ UINT64_MAX - (UINT64_MAX % n) = q * n
  BY WordAssumption DEF WordAssumption
<1>2. q > 0
  <2>1. UINT64_MAX % n < n
    BY WordAssumption DEF WordAssumption
  <2>2. q # 0
    BY <1>1, <2>1, WordAssumption DEF WordAssumption
  <2>3. QED
    BY <1>1, <2>2
<1> HIDE DEF q
<1>3. Accepted(n) = 0..(q * n - 1)
  BY <1>1 DEF Accepted
<1>4. IsFiniteSet(W) /\ Cardinality(W) = q * m
  <2>1. W = {x \in 0..(q * n - 1) : x % n < m}
    BY <1>3
  <2>2. n \in Nat /\ n > 0
    OBVIOUS
  <2> HIDE DEF W
  <2>3. QED
    BY <1>1, <2>1, <2>2, RemaindersBelow, Zenon
<1>5. IsFiniteSet(Accepted(n)) /\ Cardinality(Accepted(n)) = q * n
  <2>1. q * n \in Nat
    BY <1>1
  <2>2. QED
    BY <1>3, <2>1, FS_Interval
<1>6. Cardinality(Accepted(n) \ W) = q * n - q * m
  <2>1. Accepted(n) \cap W = W
    OBVIOUS
  <2>2. Cardinality(Accepted(n) \ W) =
          Cardinality(Accepted(n)) - Cardinality(Accepted(n) \cap W)
    BY <1>5, FS_Difference, Zenon
  <2>3. QED
    BY <1>4, <1>5, <2>1, <2>2, Zenon
<1>7. q * n - q * m = q * (n - m)
  BY <1>1
<1>8. QED
  BY <1>1, <1>2, <1>4, <1>5, <1>6, <1>7 DEF q

(* What is added to the property: both numbers are natural, and the walk    *)
(* never divides by zero.                                                   *)
LikelyInv ==
  /\ num \in Nat /\ den \in Nat /\ den > 0
  /\ SubsetsEquallyLikely

(* As long as the walk goes on, there are enough pictures, and each draw    *)
(* is from as many numbers as there are pictures left.                      *)
LEMMA WordsOfStep ==
  ASSUME SelectionInv, InLoop
  PROVE  /\ count \in Nat /\ i \in Nat /\ k \in Nat /\ selected \in Nat
         /\ i < count /\ selected < k /\ k - selected <= count - i
         /\ Left \in 1..UINT64_MAX /\ k - selected \in 1..Left
         /\ \E q \in Nat \ {0} :
              /\ Cardinality(Accepted(Left)) = q * Left
              /\ Cardinality(Keeping) = q * (k - selected)
              /\ Cardinality(Accepted(Left) \ Keeping)
                   = q * (Left - (k - selected))
<1> DEFINE m == k - selected
           W == {x \in Accepted(Left) : x % Left < m}
<1>1. /\ count \in Nat /\ i \in Nat /\ k \in Nat /\ selected \in Nat
      /\ i < count /\ selected < k /\ k - selected <= count - i
  BY SampleFits, LenProperties
  DEF SelectionInv, SelectionInvariant, InLoop, selected
<1>2. count \in 0..UINT64_MAX
  BY SelectionAssumption DEF SelectionAssumption, SelectionInv, InputInv
<1>3. Left \in 1..UINT64_MAX /\ m \in 1..Left
  BY <1>1, <1>2, WordAssumption DEF WordAssumption, Left
<1>4. Keeping = W
  <2>1. ASSUME NEW x \in Accepted(Left) PROVE Kept(x % Left) <=> x % Left < m
    <3>1. x \in Nat
      BY <1>3, <2>1, WordAssumption DEF Accepted, WordAssumption
    <3>2. x % Left \in Nat
      BY <1>3, <3>1
    <3>3. QED
      BY <1>1, <3>2 DEF Kept
  <2>2. QED
    BY <2>1 DEF Keeping
<1>5. \E q \in Nat \ {0} :
        /\ Cardinality(Accepted(Left)) = q * Left
        /\ Cardinality(W) = q * m
        /\ Cardinality(Accepted(Left) \ W) = q * (Left - m)
  <2>1. m \in 0..Left
    BY <1>3
  <2> DEFINE q == UINT64_MAX \div Left
  <2>2. /\ q \in Nat /\ q > 0
        /\ Cardinality(Accepted(Left)) = q * Left
        /\ Cardinality(W) = q * m
        /\ Cardinality(Accepted(Left) \ W) = q * (Left - m)
    BY <1>3, <2>1, WordsThatKeep, Zenon
  <2> HIDE DEF m, W, q
  <2>3. QED
    BY <2>2
<1>6. QED
  BY <1>1, <1>3, <1>4, <1>5

(* A draw takes the share of the subsets that go on as the walk does.       *)
LEMMA LikelyStep ==
  ASSUME SelectionInv, LikelyInv, [Next]_vars
  PROVE  LikelyInv'
<1>1. CASE NoBuffer
  BY <1>1 DEF NoBuffer, LikelyInv, SubsetsEquallyLikely
<1>2. CASE InLoop /\ (Skip \/ Keep)
  <2>1. /\ count \in Nat /\ i \in Nat /\ k \in Nat /\ selected \in Nat
        /\ i < count /\ selected < k /\ k - selected <= count - i
        /\ Left \in 1..UINT64_MAX /\ k - selected \in 1..Left
    BY <1>2, WordsOfStep
  <2>2. PICK q \in Nat \ {0} :
          /\ Cardinality(Accepted(Left)) = q * Left
          /\ Cardinality(Keeping) = q * (k - selected)
          /\ Cardinality(Accepted(Left) \ Keeping)
               = q * (Left - (k - selected))
    BY <1>2, WordsOfStep
  <2>3. PICK n \in Nat, m \in Nat : n = Left /\ m = k - selected
    BY <2>1
  <2>4. n > 0 /\ m > 0 /\ m <= n
    BY <2>1, <2>3
  <2>5. status = "drawing" /\ k \in 0..count
    BY <1>2, SampleFits DEF InLoop, SelectionInv
  <2>6. PICK all \in Nat, these \in Nat :
          all = Binomial[count][k] /\ these = Binomial[n][m]
    <3>1. Binomial[count][k] \in Nat
      BY <2>1, <2>5, BinomialType
    <3>2. Binomial[n][m] \in Nat
      BY <2>4, BinomialType
    <3>3. QED
      BY <3>1, <3>2
  <2>7. num \in Nat /\ den \in Nat /\ den > 0 /\ num * all = den * these
    BY <2>3, <2>5, <2>6 DEF LikelyInv, SubsetsEquallyLikely, Left
  <2>8. count' = count /\ k' = k
    BY <1>2 DEF Skip, Keep, input, k
  <2>9. q * n \in Nat /\ q * n > 0
    BY <2>4
  <2>10. den' = den * (q * n) /\ den' \in Nat /\ den' > 0
    <3>1. den' = den * (q * n)
      BY <1>2, <2>2, <2>3 DEF Skip, Keep
    <3>2. den * (q * n) \in Nat /\ den * (q * n) > 0
      BY <2>7, <2>9
    <3>3. QED
      BY <3>1, <3>2
  <2>11. CASE Skip
    <3>1. m < n
      <4>1. PICK x \in 0..(Left - 1) : ~Kept(x)
        BY <2>1, <2>11, DrawBelow DEF Skip
      <4>2. QED
        BY <2>1, <2>3, <4>1 DEF Kept
    <3>2. num' = num * (q * (n - m)) /\ num' \in Nat
      <4>1. num' = num * (q * (n - m))
        BY <2>2, <2>3, <2>11 DEF Skip
      <4>2. num * (q * (n - m)) \in Nat
        BY <2>4, <2>7
      <4>3. QED
        BY <4>1, <4>2
    <3>3. PICK rest \in Nat : rest = Binomial[n - 1][m]
      <4>1. n - 1 \in Nat /\ m \in 0..n - 1
        BY <2>4, <3>1
      <4>2. QED
        BY <4>1, BinomialType
    <3>4. (n - m) * these = n * rest
      BY <2>4, <2>6, <3>1, <3>3, BinomialWithout
    <3>5. num' * all = den' * rest
      <4>1. num * (q * (n - m)) * all = q * (n - m) * (num * all)
        BY <2>4, <2>7
      <4>2. q * (n - m) * (den * these) = q * den * ((n - m) * these)
        BY <2>4, <2>7
      <4>3. q * den * (n * rest) = den * (q * n) * rest
        BY <2>7
      <4>4. QED
        BY <2>7, <2>10, <3>2, <3>4, <4>1, <4>2, <4>3
    <3>6. count' - i' = n - 1 /\ k' - selected' = m
      BY <2>1, <2>3, <2>8, <2>11 DEF Skip, Left, selected
    <3>7. QED
      BY <2>6, <2>8, <2>10, <3>2, <3>3, <3>5, <3>6
      DEF LikelyInv, SubsetsEquallyLikely
  <2>12. CASE Keep
    <3>1. num' = num * (q * m) /\ num' \in Nat
      <4>1. num' = num * (q * m)
        BY <2>2, <2>3, <2>12 DEF Keep
      <4>2. num * (q * m) \in Nat
        BY <2>7
      <4>3. QED
        BY <4>1, <4>2
    <3>2. CASE i + 1 \in invalid
      BY <2>10, <2>12, <3>1, <3>2 DEF Keep, LikelyInv, SubsetsEquallyLikely
    <3>3. CASE i + 1 \notin invalid
      <4>1. PICK rest \in Nat : rest = Binomial[n - 1][m - 1]
        <5>1. n - 1 \in Nat /\ m - 1 \in 0..n - 1
          BY <2>4
        <5>2. QED
          BY <5>1, BinomialType
      <4>2. m * these = n * rest
        BY <2>4, <2>6, <4>1, BinomialWith
      <4>3. num' * all = den' * rest
        <5>1. num * (q * m) * all = q * m * (num * all)
          BY <2>7
        <5>2. q * m * (den * these) = q * den * (m * these)
          BY <2>7
        <5>3. q * den * (n * rest) = den * (q * n) * rest
          BY <2>7
        <5>4. QED
          BY <2>7, <2>10, <3>1, <4>2, <5>1, <5>2, <5>3
      <4>4. i' = i + 1 /\ selected' = selected + 1
        <5>1. i' = i + 1 /\ sample' = Append(sample, i + 1)
          BY <2>12, <3>3 DEF Keep
        <5>2. sample \in Seq(1..i)
          BY DEF SelectionInv, SelectionInvariant
        <5>3. sample \in Seq(Int)
          <6>1. 1..i \subseteq Int
            BY <2>1
          <6>2. QED
            BY <5>2, <6>1, SeqMonotonic
        <5>4. QED
          BY <2>1, <5>1, <5>3, AppendProperties DEF selected
      <4>5. count' - i' = n - 1 /\ k' - selected' = m - 1
        BY <2>1, <2>3, <2>8, <4>4 DEF Left
      <4>6. QED
        BY <2>6, <2>8, <2>10, <3>1, <4>1, <4>3, <4>5
        DEF LikelyInv, SubsetsEquallyLikely
    <3>4. QED
      BY <3>2, <3>3
  <2>13. QED
    BY <1>2, <2>11, <2>12
<1>3. CASE Return
  BY <1>3 DEF Return, LikelyInv, SubsetsEquallyLikely
<1>4. CASE Done \/ UNCHANGED vars
  BY <1>4 DEF Done, vars, input, LikelyInv, SubsetsEquallyLikely, k, selected
<1>5. QED
  BY <1>1, <1>2, <1>3, <1>4 DEF Next, Skip, Keep

(* Every subset of sample_size() pictures is equally likely, for albums of  *)
(* any size, any cap and percentage, and words of any width: as long as the *)
(* walk goes on, its probability is the share of the subsets that begin as  *)
(* it did.                                                                  *)
THEOREM LikelyCorrect == Spec => []SubsetsEquallyLikely
<1>1. Init => LikelyInv
  <2> SUFFICES ASSUME Init PROVE LikelyInv
    OBVIOUS
  <2>1. SelectionInv /\ count \in Nat /\ k \in 0..count
    BY SelectionInit, SampleFits DEF SelectionInv
  <2>2. count - i = count /\ k - selected = k
    BY <2>1, EmptySeq DEF Init, selected
  <2>3. Binomial[count][k] \in Nat
    BY <2>1, BinomialType
  <2>4. QED
    BY <2>2, <2>3 DEF Init, LikelyInv, SubsetsEquallyLikely
<1>2. LikelyInv => SubsetsEquallyLikely
  BY DEF LikelyInv
<1>3. SelectionInv /\ LikelyInv /\ [Next]_vars => LikelyInv'
  BY LikelyStep
<1>4. QED
  BY <1>1, <1>2, <1>3, SelectionInvCorrect, PTL DEF Spec
===============================================================================
