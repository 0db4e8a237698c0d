-------------------------- MODULE AlbumFilter_proofs --------------------------
(***************************************************************************)
(* Theorems about the decision on an album, for any filters and albums.    *)
(***************************************************************************)
EXTENDS AlbumFilter, Numbers_proofs, SequenceTheorems, TLAPS

(* Four decimal digits make a number.                                      *)
LEMMA FourDigits ==
  ASSUME NEW a \in Nat, NEW b \in Nat, NEW c \in Nat, NEW d \in Nat
  PROVE  1000 * a + 100 * b + 10 * c + d \in Nat
OBVIOUS

(* What is read from a date is a year, or 0.                               *)
LEMMA YearIsNat ==
  ASSUME NEW iso \in Seq(Chars)
  PROVE  iso_year(iso) \in Nat
<1> DEFINE dated == Len(iso) >= 4 /\ \A i \in 1..4 : iso[i] \in DOMAIN Digits
           d(i)  == Digits[iso[i]]
           year  == 1000 * d(1) + 100 * d(2) + 10 * d(3) + d(4)
<1>1. iso_year(iso) = IF dated THEN year ELSE 0
  BY Zenon DEF iso_year
<1>2. ASSUME dated PROVE year \in Nat
  <2>1. \A i \in 1..4 : d(i) \in 0..9
    BY <1>2, FilterAssumption DEF FilterAssumption
  <2> HIDE DEF d
  <2>2. 1 \in 1..4 /\ 2 \in 1..4 /\ 3 \in 1..4 /\ 4 \in 1..4
    OBVIOUS
  <2>3. \A x \in 0..9 : x \in Nat
    OBVIOUS
  <2>4. d(1) \in Nat /\ d(2) \in Nat /\ d(3) \in Nat /\ d(4) \in Nat
    BY <2>1, <2>2, <2>3, Zenon
  <2>5. PICK a \in Nat, b \in Nat, c \in Nat, e \in Nat :
          a = d(1) /\ b = d(2) /\ c = d(3) /\ e = d(4)
    BY <2>4
  <2>6. year = 1000 * a + 100 * b + 10 * c + e
    BY <2>5, SMT
  <2>7. 1000 * a + 100 * b + 10 * c + e \in Nat
    BY FourDigits, SMT
  <2> HIDE DEF year
  <2>8. QED
    BY <2>6, <2>7, SMT
<1> HIDE DEF dated, year
<1>3. QED
  BY <1>1, <1>2

(* The arguments of the call                                               *)
InputInv ==
  /\ filter \in [name : Seq(Chars), exclude : Seq(Chars), from_year : Nat,
                 to_year : Nat]
  /\ album \in [name : Seq(Chars), asset_count : Int, start_date : Seq(Chars),
                end_date : Seq(Chars)]
  /\ album.name \in {c[2].name : c \in Cases}

(* For all bounds and all dates, known or not: a filter with a bound lets  *)
(* the dates of an album pass iff it spans some year of the filter's range. *)
LEMMA YearsPassIs ==
  ASSUME InputInv, Accepted(filter),
         filter.from_year # 0 \/ filter.to_year # 0,
         iso_year(album.start_date) # 0 /\ iso_year(album.end_date) # 0
           => iso_year(album.start_date) <= iso_year(album.end_date)
  PROVE  LET known == {iso_year(album.start_date), iso_year(album.end_date)} \ {0}
         IN  YearsPass(filter, album) <=>
               \E k, l \in known : \E y \in k..l :
                 /\ filter.from_year = 0 \/ filter.from_year <= y
                 /\ filter.to_year = 0 \/ y <= filter.to_year
<1> DEFINE start == iso_year(album.start_date)
           end   == iso_year(album.end_date)
           from  == filter.from_year
           to    == filter.to_year
           first == IF start = 0 THEN end ELSE start
           last  == IF end = 0 THEN start ELSE end
           known == {start, end} \ {0}
           Meets(y) == (from = 0 \/ from <= y) /\ (to = 0 \/ y <= to)
<1>1. from \in Nat /\ to \in Nat /\ start \in Nat /\ end \in Nat
  <2>1. from \in Nat /\ to \in Nat
    BY DEF InputInv
  <2>2. album.start_date \in Seq(Chars) /\ album.end_date \in Seq(Chars)
    BY DEF InputInv
  <2>3. start \in Nat /\ end \in Nat
    BY <2>2, YearIsNat
  <2> HIDE DEF start, end, from, to
  <2>4. QED
    BY <2>1, <2>3
<1>2. YearsPass(filter, album) <=>
        \/ from = 0 /\ to = 0
        \/ first # 0 /\ (from # 0 => last >= from) /\ (to # 0 => first <= to)
  BY DEF YearsPass, InRange
<1>3. Accepted(filter) => (from # 0 /\ to # 0 => from <= to)
  BY DEF Accepted
<1>0. (from # 0 \/ to # 0) /\ Accepted(filter) /\ (start # 0 /\ end # 0 => start <= end)
  OBVIOUS
<1> HIDE DEF start, end, from, to
<1>4. first # 0 => first <= last
  BY <1>0, <1>1
<1>5. first = 0 => known = {}
  OBVIOUS
<1>6. first # 0 => first \in known /\ last \in known
  OBVIOUS
<1>7. \A k, l \in known : \A y \in k..l :
        first # 0 /\ first <= y /\ y <= last /\ y \in Nat
  BY <1>1, <1>4
<1>8. ASSUME first # 0, from # 0 => last >= from, to # 0 => first <= to
      PROVE  \E y \in first..last : Meets(y)
  <2> DEFINE y == IF from > first THEN from ELSE first
  <2>1. y \in first..last
    BY <1>1, <1>4, <1>8
  <2>2. Meets(y)
    BY <1>1, <1>3, <1>8
  <2>3. QED
    BY <2>1, <2>2
<1>9. ASSUME NEW k \in known, NEW l \in known, NEW y \in k..l, Meets(y)
      PROVE  first # 0 /\ (from # 0 => last >= from) /\ (to # 0 => first <= to)
  <2>1. y \in Nat /\ first # 0 /\ first <= y /\ y <= last
    BY <1>7
  <2>2. QED
    BY <1>1, <1>9, <2>1
<1> HIDE DEF first, last, known, Meets
<1>10. YearsPass(filter, album) <=> \E k, l \in known : \E y \in k..l : Meets(y)
  BY <1>0, <1>2, <1>6, <1>8, <1>9
<1>11. QED
  BY <1>10 DEF Meets, known, start, end, from, to

-------------------------------------------------------------------------------
(* Find finds.                                                             *)
LEMMA FindIs ==
  ASSUME NEW list \in Seq(Chars), NEW i \in 1..Len(list) + 1, NEW S
  PROVE  /\ Find(list, i, S) \in i..Len(list) + 1
         /\ Find(list, i, S) <= Len(list) => list[Find(list, i, S)] \in S
         /\ \A h \in i..Find(list, i, S) - 1 : list[h] \notin S
<1> DEFINE Is(j) == /\ j <= Len(list) => list[j] \in S
                    /\ \A h \in i..j - 1 : list[h] \notin S
           T == {j \in i..Len(list) + 1 : j <= Len(list) => list[j] \in S}
<1>0. Len(list) \in Nat
  OBVIOUS
<1>1. Len(list) + 1 \in T /\ T \in SUBSET Nat
  BY <1>0
<1>2. PICK j \in T : \A y \in T : j <= y
  BY <1>1, Smallest
<1>3. \A h \in i..j - 1 : h \notin T
  BY <1>0, <1>2
<1>4. j \in i..Len(list) + 1 /\ Is(j)
  BY <1>0, <1>2, <1>3
<1>5. Find(list, i, S) = CHOOSE x \in i..Len(list) + 1 : Is(x)
  BY DEF Find
<1> HIDE DEF Is
<1>6. Find(list, i, S) \in i..Len(list) + 1 /\ Is(Find(list, i, S))
  BY <1>4, <1>5
<1>7. QED
  BY <1>6 DEF Is

(* A piece is empty when it holds no more than spaces.                     *)
LEMMA EmptyPiece ==
  ASSUME NEW list \in Seq(Chars), NEW b \in 1..Len(list) + 1,
         NEW e \in b..Len(list) + 1
  PROVE  Trimmed(list, b, e) = <<>> <=> \A i \in b..e - 1 : list[i] \in Spaces
<1> DEFINE text  == {i \in b..e - 1 : list[i] \notin Spaces}
           First == CHOOSE i \in text : \A j \in text : i <= j
           Final == CHOOSE i \in text : \A j \in text : j <= i
<1>1. Trimmed(list, b, e) = IF text = {} THEN <<>> ELSE SubSeq(list, First, Final)
  BY DEF Trimmed
<1>2. ASSUME text # {} PROVE SubSeq(list, First, Final) # <<>>
  <2>0. Len(list) \in Nat
    OBVIOUS
  <2>1. text \in SUBSET Nat /\ text \in SUBSET (0..Len(list))
    BY <2>0
  <2>2. \E i \in text : \A j \in text : i <= j
    BY <1>2, <2>1, Smallest
  <2>3. \E i \in text : \A j \in text : j <= i
    BY <1>2, <2>0, <2>1, Largest
  <2> HIDE DEF text
  <2>4. First \in text /\ Final \in text /\ First <= Final
    BY <2>2, <2>3
  <2> HIDE DEF First, Final
  <2>5. First \in 1..Len(list) /\ Final \in 1..Len(list)
    BY <2>0, <2>4 DEF text
  <2>6. Len(SubSeq(list, First, Final)) = Final - First + 1
    BY <2>4, <2>5, SubSeqProperties
  <2>7. QED
    BY <2>4, <2>5, <2>6
<1>3. text = {} <=> \A i \in b..e - 1 : list[i] \in Spaces
  OBVIOUS
<1> HIDE DEF text, First, Final
<1>4. QED
  BY <1>1, <1>2, <1>3

-------------------------------------------------------------------------------
(* Never unfolded for SMT, which cannot read the string                   *)
Comma == ","

(* The pieces of a list begin behind these positions                       *)
Starts(list) == {0} \cup {i \in DOMAIN list : list[i] = Comma}

(* and reach to the next comma.                                            *)
PieceAt(list, b) == Trimmed(list, b + 1, Find(list, b + 1, {Comma}))

LEMMA StartsAre ==
  ASSUME NEW list \in Seq(Chars)
  PROVE  /\ Len(list) \in Nat
         /\ Starts(list) \subseteq 0..Len(list) /\ 0 \in Starts(list)
         /\ \A i \in 1..Len(list) : i \in Starts(list) <=> list[i] = Comma
         /\ \A b \in Starts(list) : b = 0 \/ (b \in 1..Len(list) /\ list[b] = Comma)
<1> DEFINE n == Len(list)
<1>1. n \in Nat /\ DOMAIN list = 1..n
  OBVIOUS
<1> HIDE DEF n
<1>2. Starts(list) = {0} \cup {i \in 1..n : list[i] = Comma}
  BY <1>1 DEF Starts
<1>3. Starts(list) \subseteq 0..n
  BY <1>1, <1>2
<1>4. \A i \in 1..n : i # 0
  BY <1>1
<1>5. QED
  BY <1>1, <1>2, <1>3, <1>4 DEF n

LEMMA PatternsAre ==
  ASSUME NEW list \in Seq(Chars)
  PROVE  PatternsOf(list) = {PieceAt(list, b) : b \in Starts(list)} \ {<<>>}
<1> DEFINE cut == {0, Len(list) + 1} \cup {i \in DOMAIN list : list[i] = Comma}
           cutFrom(b) == CHOOSE e \in cut : b < e /\ \A d \in cut : b < d => e <= d
<1>1. Len(list) \in Nat /\ DOMAIN list = 1..Len(list)
  OBVIOUS
<1>2. cut \ {Len(list) + 1} = Starts(list)
  BY <1>1 DEF Starts
<1>3. ASSUME NEW b \in Starts(list) PROVE cutFrom(b) = Find(list, b + 1, {Comma})
  <2> DEFINE e == Find(list, b + 1, {Comma})
  <2>1. b \in 0..Len(list) /\ b + 1 \in 1..Len(list) + 1
    BY <1>1 DEF Starts
  <2>2. /\ e \in b + 1..Len(list) + 1
        /\ e <= Len(list) => list[e] = Comma
        /\ \A h \in b + 1..e - 1 : list[h] # Comma
    BY <2>1, FindIs
  <2> HIDE DEF e
  <2>3. e \in cut /\ b < e
    BY <1>1, <2>1, <2>2
  <2>4. ASSUME NEW d \in cut, b < d PROVE e <= d
    BY <1>1, <2>1, <2>2, <2>4
  <2>5. cut \subseteq Nat
    BY <1>1
  <2> HIDE DEF cut
  <2>6. \A x \in cut : b < x /\ (\A d \in cut : b < d => x <= d) => x = e
    BY <2>3, <2>4, <2>5
  <2>7. cutFrom(b) = e
    BY <2>3, <2>4, <2>6
  <2>8. QED
    BY <2>7 DEF e
<1>4. PatternsOf(list) =
        {Trimmed(list, b + 1, cutFrom(b)) : b \in cut \ {Len(list) + 1}} \ {<<>>}
  BY Zenon DEF PatternsOf, Comma
<1> HIDE DEF cut, cutFrom
<1>5. QED
  BY <1>2, <1>3, <1>4 DEF PieceAt

(* There is a pattern iff some character is neither space nor comma.       *)
LEMMA PatternsExist ==
  ASSUME NEW list \in Seq(Chars)
  PROVE  has_patterns(list) <=> PatternsOf(list) # {}
<1>1. /\ Len(list) \in Nat /\ DOMAIN list = 1..Len(list)
      /\ has_patterns(list) <=>
           \E i \in 1..Len(list) : list[i] \notin Spaces \cup {Comma}
  <2>1. Len(list) \in Nat /\ DOMAIN list = 1..Len(list)
    OBVIOUS
  <2>2. QED
    BY <2>1, Zenon DEF has_patterns, Comma
<1>2. ASSUME NEW b \in Starts(list)
      PROVE  LET e == Find(list, b + 1, {Comma})
             IN  /\ b + 1 \in 1..Len(list) + 1 /\ e \in b + 1..Len(list) + 1
                 /\ e <= Len(list) => list[e] = Comma
                 /\ \A h \in b + 1..e - 1 : list[h] # Comma
                 /\ PieceAt(list, b) = <<>> <=>
                      \A i \in b + 1..e - 1 : list[i] \in Spaces
  <2> DEFINE e == Find(list, b + 1, {Comma})
  <2>1. b + 1 \in 1..Len(list) + 1
    BY <1>1 DEF Starts
  <2>2. /\ e \in b + 1..Len(list) + 1
        /\ e <= Len(list) => list[e] = Comma
        /\ \A h \in b + 1..e - 1 : list[h] # Comma
    BY <2>1, FindIs
  <2>3. PieceAt(list, b) = Trimmed(list, b + 1, e)
    BY DEF PieceAt
  <2> HIDE DEF e
  <2>4. PieceAt(list, b) = <<>> <=> \A i \in b + 1..e - 1 : list[i] \in Spaces
    BY <2>1, <2>2, <2>3, EmptyPiece
  <2>5. QED
    BY <2>1, <2>2, <2>4 DEF e
<1>3. ASSUME has_patterns(list) PROVE \E b \in Starts(list) : PieceAt(list, b) # <<>>
  <2>1. PICK i \in 1..Len(list) : list[i] \notin Spaces /\ list[i] # Comma
    BY <1>1, <1>3
  <2> DEFINE T == {b \in Starts(list) : b <= i}
  <2>2. T \in SUBSET (0..Len(list)) /\ 0 \in T
    BY <1>1 DEF Starts
  <2>3. PICK b \in T : \A y \in T : y <= b
    BY <1>1, <2>2, Largest
  <2>4. b \in Starts(list) /\ b < i /\ b \in 0..Len(list)
    BY <1>1, <2>1 DEF Starts
  <2>5. ASSUME NEW h \in b + 1..i PROVE list[h] # Comma
    <3>1. h \in 1..Len(list)
      BY <1>1, <2>4
    <3>2. h \notin T
      BY <2>3, <2>4
    <3>3. QED
      BY <1>1, <3>1, <3>2 DEF Starts
  <2> DEFINE e == Find(list, b + 1, {Comma})
  <2>6. /\ e \in b + 1..Len(list) + 1
        /\ e <= Len(list) => list[e] = Comma
        /\ PieceAt(list, b) = <<>> => \A j \in b + 1..e - 1 : list[j] \in Spaces
    BY <1>2, <2>4
  <2> HIDE DEF e, T
  <2>7. i < e
    BY <1>1, <2>1, <2>4, <2>5, <2>6
  <2>8. PieceAt(list, b) # <<>>
    BY <2>1, <2>4, <2>6, <2>7
  <2>9. QED
    BY <2>4, <2>8
<1>4. ASSUME NEW b \in Starts(list), PieceAt(list, b) # <<>> PROVE has_patterns(list)
  <2> DEFINE e == Find(list, b + 1, {Comma})
  <2>1. /\ b + 1 \in 1..Len(list) + 1 /\ e \in b + 1..Len(list) + 1
        /\ \A h \in b + 1..e - 1 : list[h] # Comma
    BY <1>2
  <2>2. PICK i \in b + 1..e - 1 : list[i] \notin Spaces
    BY <1>2, <1>4
  <2> HIDE DEF e
  <2>3. i \in 1..Len(list)
    BY <1>1, <2>1
  <2>4. QED
    BY <1>1, <2>1, <2>2, <2>3
<1>5. PatternsOf(list) # {} <=> \E b \in Starts(list) : PieceAt(list, b) # <<>>
  BY PatternsAre
<1>6. QED
  BY <1>3, <1>4, <1>5

-------------------------------------------------------------------------------
(* A turn of the loop at position i takes the piece from Begin to End      *)
Begin(list, i) == Find(list, i, Chars \ {Comma})
End(list, i)   == Find(list, Begin(list, i), {Comma})
PieceFrom(list, i)  == Trimmed(list, Begin(list, i), End(list, i))

Fits(piece, who) == Usable(piece) /\ Matches(piece, who)

(* Some piece that begins at position i or later decides                   *)
Later(list, who, i) ==
  \E b \in Starts(list) : b + 1 >= i /\ Fits(PieceAt(list, b), who)

LEMMA PieceFromIs ==
  ASSUME NEW list \in Seq(Chars), NEW i \in 1..Len(list)
  PROVE  LET g == Begin(list, i)
             e == End(list, i)
         IN  /\ g \in i..Len(list) + 1
             /\ g <= Len(list) => list[g] # Comma
             /\ \A h \in i..g - 1 : list[h] = Comma
             /\ e \in i + 1..Len(list) + 1 /\ e \in g..Len(list) + 1
             /\ e <= Len(list) => list[e] = Comma
             /\ \A h \in g..e - 1 : list[h] # Comma
<1> DEFINE g == Begin(list, i)
           e == End(list, i)
<1>1. Len(list) \in Nat /\ \A h \in 1..Len(list) : list[h] \in Chars
  OBVIOUS
<1>2. /\ g \in i..Len(list) + 1
      /\ g <= Len(list) => list[g] \in Chars \ {Comma}
      /\ \A h \in i..g - 1 : list[h] \notin Chars \ {Comma}
  <2>1. i \in 1..Len(list) + 1
    BY <1>1
  <2>2. QED
    BY <2>1, FindIs DEF Begin
<1>3. /\ e \in g..Len(list) + 1
      /\ e <= Len(list) => list[e] = Comma
      /\ \A h \in g..e - 1 : list[h] # Comma
  <2>1. g \in 1..Len(list) + 1
    BY <1>1, <1>2
  <2>2. e = Find(list, g, {Comma})
    BY DEF End
  <2> HIDE DEF g, e
  <2>3. QED
    BY <2>1, <2>2, FindIs
<1> HIDE DEF g, e
<1>4. \A h \in i..g - 1 : list[h] = Comma
  BY <1>1, <1>2
<1>5. e \in i + 1..Len(list) + 1
  BY <1>1, <1>2, <1>3
<1>6. QED
  BY <1>2, <1>3, <1>4, <1>5 DEF g, e

(* Nothing is between two commas in a row, or behind one at the end.       *)
LEMMA NoPiece ==
  ASSUME NEW list \in Seq(Chars), NEW who, NEW b \in Starts(list),
         b = Len(list) \/ list[b + 1] = Comma
  PROVE  ~Fits(PieceAt(list, b), who)
<1>1. Len(list) \in Nat /\ b \in 0..Len(list)
  BY StartsAre
<1> DEFINE e == Find(list, b + 1, {Comma})
<1>2. e \in b + 1..Len(list) + 1 /\ \A h \in b + 1..e - 1 : list[h] # Comma
  <2>1. b + 1 \in 1..Len(list) + 1
    BY <1>1
  <2>2. QED
    BY <2>1, FindIs
<1>3. PieceAt(list, b) = Trimmed(list, b + 1, e)
  BY DEF PieceAt
<1> HIDE DEF e
<1>4. e = b + 1
  BY <1>1, <1>2
<1>5. \A h \in b + 1..e - 1 : list[h] \in Spaces
  BY <1>1, <1>4
<1>6. PieceAt(list, b) = <<>>
  BY <1>1, <1>2, <1>3, <1>5, EmptyPiece
<1>7. QED
  BY <1>6 DEF Fits, Usable

LEMMA NoneAtEnd ==
  ASSUME NEW list \in Seq(Chars), NEW who
  PROVE  ~Later(list, who, Len(list) + 1)
<1>1. \A b \in Starts(list) : b + 1 >= Len(list) + 1 => b = Len(list)
  BY StartsAre
<1>2. QED
  BY <1>1, NoPiece DEF Later

(* A turn at the beginning of the list, or at a comma, skips only pieces   *)
(* that are empty.                                                         *)
LEMMA LaterStep ==
  ASSUME NEW list \in Seq(Chars), NEW who, NEW i \in 1..Len(list),
         i = 1 \/ list[i] = Comma
  PROVE  Later(list, who, i) <=>
           Fits(PieceFrom(list, i), who) \/ Later(list, who, End(list, i))
<1> DEFINE g == Begin(list, i)
           e == End(list, i)
           n == Len(list)
<1>1. /\ n \in Nat /\ i \in 1..n
      /\ \A b \in Starts(list) : b = 0 \/ (b \in 1..n /\ list[b] = Comma)
      /\ 0 \in Starts(list)
      /\ \A b \in 1..n : list[b] = Comma => b \in Starts(list)
  BY StartsAre
<1>2. /\ g \in i..n + 1
      /\ g <= n => list[g] # Comma
      /\ \A h \in i..g - 1 : list[h] = Comma
      /\ e \in i + 1..n + 1 /\ e \in g..n + 1
      /\ \A h \in g..e - 1 : list[h] # Comma
  BY PieceFromIs
<1>3. PieceFrom(list, i) = Trimmed(list, g, e) /\ e = Find(list, g, {Comma})
  BY DEF PieceFrom, End
<1>4. ASSUME NEW b \in Starts(list), b = n \/ list[b + 1] = Comma
      PROVE  ~Fits(PieceAt(list, b), who)
  BY <1>4, NoPiece
<1> HIDE DEF g, e, n
<1>5. g <= n => g - 1 \in Starts(list)
  <2>1. SUFFICES ASSUME g <= n PROVE g - 1 \in Starts(list)
    OBVIOUS
  <2>2. CASE g = i
    BY <1>1, <1>2, <2>1, <2>2
  <2>3. CASE g > i
    <3>1. g - 1 \in 1..n /\ g - 1 \in i..g - 1
      BY <1>1, <1>2, <2>1, <2>3
    <3>2. QED
      BY <1>1, <1>2, <3>1
  <2>4. QED
    BY <1>1, <1>2, <2>2, <2>3
<1>6. g <= n => PieceAt(list, g - 1) = PieceFrom(list, i)
  <2>1. g - 1 + 1 = g
    BY <1>1, <1>2
  <2>2. QED
    BY <1>3, <2>1 DEF PieceAt
<1>7. ASSUME NEW b \in Starts(list), b + 1 >= i, Fits(PieceAt(list, b), who)
      PROVE  Fits(PieceFrom(list, i), who) \/ Later(list, who, e)
  <2>1. b \in 0..n
    BY <1>1
  <2>2. b # n /\ list[b + 1] # Comma
    BY <1>4, <1>7
  <2>3. CASE b + 1 < g
    <3>1. b + 1 \in i..g - 1
      BY <1>1, <1>2, <1>7, <2>1, <2>3
    <3>2. QED
      BY <1>2, <2>2, <3>1
  <2>4. CASE b + 1 = g
    <3>1. g <= n /\ b = g - 1
      BY <1>1, <2>1, <2>2, <2>4
    <3>2. QED
      BY <1>6, <1>7, <3>1
  <2>5. CASE b >= g
    <3>1. b \in 1..n /\ list[b] = Comma
      BY <1>1, <1>2, <2>1, <2>5
    <3>2. b \notin g..e - 1
      BY <1>2, <3>1
    <3>3. b + 1 >= e
      BY <1>1, <1>2, <2>1, <2>5, <3>2
    <3>4. QED
      BY <1>7, <3>3 DEF Later
  <2>6. QED
    BY <1>1, <1>2, <2>1, <2>3, <2>4, <2>5
<1>8. ASSUME Fits(PieceFrom(list, i), who) PROVE Later(list, who, i)
  <2>1. g <= n
    <3>1. SUFFICES ASSUME g = n + 1 PROVE FALSE
      BY <1>1, <1>2
    <3>2. e = n + 1
      BY <1>1, <1>2, <3>1
    <3>3. \A h \in g..e - 1 : list[h] \in Spaces
      BY <1>1, <3>1, <3>2
    <3>4. g \in 1..Len(list) + 1 /\ e \in g..Len(list) + 1
      BY <1>1, <3>1, <3>2 DEF n
    <3>5. PieceFrom(list, i) = <<>>
      BY <1>3, <3>3, <3>4, EmptyPiece
    <3>6. QED
      BY <1>8, <3>5 DEF Fits, Usable
  <2>2. g - 1 \in Starts(list) /\ Fits(PieceAt(list, g - 1), who)
    BY <1>5, <1>6, <1>8, <2>1
  <2>3. g - 1 + 1 >= i
    BY <1>1, <1>2
  <2>4. QED
    BY <2>2, <2>3 DEF Later
<1>9. Later(list, who, e) => Later(list, who, i)
  <2>1. \A b \in Starts(list) : b + 1 >= e => b + 1 >= i
    BY <1>1, <1>2
  <2>2. QED
    BY <2>1 DEF Later
<1>10. QED
  BY <1>7, <1>8, <1>9 DEF Later, e

(* A piece that is tried is there because some character is no space.      *)
LEMMA PieceIsPattern ==
  ASSUME NEW list \in Seq(Chars), NEW i \in 1..Len(list),
         Usable(PieceFrom(list, i))
  PROVE  has_patterns(list)
<1> DEFINE g == Begin(list, i)
           e == End(list, i)
<1>1. Len(list) \in Nat /\ DOMAIN list = 1..Len(list)
  OBVIOUS
<1>2. /\ g \in i..Len(list) + 1 /\ e \in g..Len(list) + 1
      /\ \A h \in g..e - 1 : list[h] # Comma
  BY PieceFromIs
<1>3. PieceFrom(list, i) = Trimmed(list, g, e) /\ PieceFrom(list, i) # <<>>
  BY DEF PieceFrom, Usable
<1> HIDE DEF g, e
<1>4. g \in 1..Len(list) + 1
  BY <1>1, <1>2
<1>5. PICK h \in g..e - 1 : list[h] \notin Spaces
  BY <1>2, <1>3, <1>4, EmptyPiece
<1>6. h \in DOMAIN list /\ list[h] \notin Spaces \cup {Comma}
  BY <1>1, <1>2, <1>4, <1>5
<1>7. QED
  BY <1>6, Zenon DEF has_patterns, Comma

(* Some pattern of the list that fits the buffer matches the name          *)
OneOf(list, who) ==
  \E p \in PatternsOf(list) : Len(p) < MAX_PATTERN /\ Matches(p, who)

LEMMA LaterIsOneOf ==
  ASSUME NEW list \in Seq(Chars), NEW who
  PROVE  Later(list, who, 1) <=> OneOf(list, who)
<1>1. \A b \in Starts(list) : b + 1 >= 1
  BY StartsAre
<1>2. Later(list, who, 1) <=>
        \E b \in Starts(list) : Fits(PieceAt(list, b), who)
  BY <1>1 DEF Later
<1>3. QED
  BY <1>2, PatternsAre DEF OneOf, Fits, Usable

-------------------------------------------------------------------------------
(* Where the call has got to                                               *)
Searching == pc \in {"pieces", "glob"}

PlaceInv ==
  /\ pc \in {"called", "pieces", "glob", "returned"}
  /\ arg \in {"name", "exclude"} /\ keep \in BOOLEAN
  /\ Searching => /\ at \in 1..Len(List) + 1
                  /\ at = 1 \/ (at <= Len(List) => List[at] = Comma)

(* What the way there has shown, whatever glob_match() answers             *)
StageInv ==
  /\ Searching => album.asset_count > 0
  /\ Searching /\ arg = "name" => has_patterns(filter.name)
  /\ pc = "glob" => has_patterns(List)
  /\ pc = "returned" =>
       /\ keep => YearsPass(filter, album)
       /\ /\ YearsPass(filter, album) /\ album.asset_count > 0
          /\ ~has_patterns(filter.name) /\ ~has_patterns(filter.exclude)
          => keep

FilterInv == InputInv /\ PlaceInv /\ StageInv

LEMMA ListsAre ==
  ASSUME InputInv, arg \in {"name", "exclude"}
  PROVE  /\ filter.name \in Seq(Chars) /\ filter.exclude \in Seq(Chars)
         /\ List \in Seq(Chars) /\ Len(List) \in Nat
         /\ List = IF arg = "name" THEN filter.name ELSE filter.exclude
<1>1. filter.name \in Seq(Chars) /\ filter.exclude \in Seq(Chars)
  BY DEF InputInv
<1>2. List = IF arg = "name" THEN filter.name ELSE filter.exclude
  BY DEF List
<1>3. QED
  BY <1>1, <1>2, LenProperties

(* Read with the names of the pieces                                       *)
LEMMA NextPieceIs ==
  ASSUME NextPiece
  PROVE  /\ pc = "pieces" /\ at <= Len(List)
         /\ at' = End(List, at)
         /\ \/ /\ Usable(PieceFrom(List, at)) /\ pc' = "glob"
               /\ Glob!Call(PieceFrom(List, at), album.name)
            \/ ~Usable(PieceFrom(List, at)) /\ UNCHANGED <<pc, globVars>>
         /\ UNCHANGED <<filter, album, arg, keep>>
BY Zenon DEF NextPiece, PieceFrom, Begin, End, Comma

(* The place in the list is in front of a comma, and it moves on.          *)
LEMMA PieceMoves ==
  ASSUME InputInv, PlaceInv, NextPiece
  PROVE  /\ List \in Seq(Chars) /\ at \in 1..Len(List)
         /\ at = 1 \/ List[at] = Comma
         /\ List' = List /\ at' \in 1..Len(List) + 1
         /\ at' <= Len(List) => List[at'] = Comma
<1>1. List \in Seq(Chars) /\ Len(List) \in Nat
  BY ListsAre DEF PlaceInv
<1>2. /\ at \in 1..Len(List) /\ (at = 1 \/ List[at] = Comma)
      /\ at' = End(List, at)
  BY <1>1, NextPieceIs DEF PlaceInv, Searching
<1>3. List' = List
  BY NextPieceIs DEF List
<1>4. /\ End(List, at) \in at + 1..Len(List) + 1
      /\ End(List, at) <= Len(List) => List[End(List, at)] = Comma
  BY <1>1, <1>2, PieceFromIs
<1>5. QED
  BY <1>1, <1>2, <1>3, <1>4

LEMMA FilterInvInit == Init => FilterInv
<1> SUFFICES ASSUME Init PROVE FilterInv
  OBVIOUS
<1>1. PICK c \in Cases : filter = c[1] /\ album = c[2]
  BY DEF Init
<1>2. InputInv
  <2>1. /\ filter \in [name : Seq(Chars), exclude : Seq(Chars),
                      from_year : Nat, to_year : Nat]
        /\ album \in [name : Seq(Chars), asset_count : Int,
                     start_date : Seq(Chars), end_date : Seq(Chars)]
    BY <1>1, FilterAssumption DEF FilterAssumption
  <2>2. album.name \in {d[2].name : d \in Cases}
    BY <1>1
  <2>3. QED
    BY <2>1, <2>2 DEF InputInv
<1>3. PlaceInv /\ StageInv
  BY DEF Init, PlaceInv, StageInv, Searching
<1>4. QED
  BY <1>2, <1>3 DEF FilterInv

(* Every step but the last keeps what was shown before it.                 *)
LEMMA FilterInvStep ==
  ASSUME FilterInv, [Next]_vars
  PROVE  FilterInv'
<1> USE DEF FilterInv
<1>1. UNCHANGED <<filter, album>>
  BY DEF Next, NoAssets, TestName, NextPiece, GlobTurn, Differs, Matched,
     EndOfList, Done, vars
<1>2. InputInv'
  BY <1>1 DEF InputInv
<1>3. /\ filter.name \in Seq(Chars) /\ filter.exclude \in Seq(Chars)
      /\ List \in Seq(Chars) /\ Len(List) \in Nat
      /\ List = IF arg = "name" THEN filter.name ELSE filter.exclude
  BY ListsAre DEF PlaceInv
<1>4. PlaceInv' /\ StageInv'
  <2> USE <1>1 DEF Searching
  <2>a. ASSUME NEW l \in {"name", "exclude"}, Search(l)
        PROVE  PlaceInv'
    <3>1. List' = filter[l] /\ Len(filter[l]) \in Nat
      BY <1>1, <1>3, <2>a, LenProperties DEF Search, List
    <3>2. QED
      BY <2>a, <3>1 DEF Search, PlaceInv
  <2>1. CASE NoAssets
    <3>1. album.asset_count <= 0 /\ Return(FALSE) /\ pc = "called"
      BY <2>1 DEF NoAssets
    <3>2. album.asset_count \in Int
      BY DEF InputInv
    <3>3. ~(album.asset_count > 0)
      BY <3>1, <3>2
    <3>4. QED
      BY <3>1, <3>3, Zenon DEF Return, PlaceInv, StageInv
  <2>2. CASE TestName
    BY <2>a, <2>2 DEF TestName, Search, StageInv
  <2>3. CASE NextPiece
    <3>1. /\ List' = List /\ at' \in 1..Len(List) + 1
          /\ at' <= Len(List) => List[at'] = Comma
          /\ at \in 1..Len(List)
      BY <2>3, PieceMoves
    <3>2. /\ pc = "pieces" /\ UNCHANGED <<arg, keep>>
          /\ \/ Usable(PieceFrom(List, at)) /\ pc' = "glob"
             \/ UNCHANGED pc
      BY <2>3, NextPieceIs
    <3>3. Usable(PieceFrom(List, at)) => has_patterns(List)
      BY <1>3, <3>1, PieceIsPattern
    <3>4. QED
      BY <3>1, <3>2, <3>3 DEF PlaceInv, StageInv
  <2>4. CASE GlobTurn
    BY <2>4 DEF GlobTurn, PlaceInv, StageInv, List
  <2>5. CASE Differs
    BY <2>5 DEF Differs, PlaceInv, StageInv, List
  <2>6. CASE Matched
    <3>1. CASE arg = "name"
      <4>1. Search("exclude") /\ pc = "glob"
        BY <2>6, <3>1 DEF Matched
      <4>2. QED
        BY <2>a, <4>1 DEF Search, StageInv
    <3>2. CASE arg # "name"
      <4>1. Return(FALSE) /\ pc = "glob"
        BY <2>6, <3>2 DEF Matched
      <4>2. has_patterns(filter.exclude)
        BY <1>3, <3>2, <4>1 DEF StageInv
      <4>3. QED
        BY <4>1, <4>2 DEF Return, PlaceInv, StageInv
    <3>3. QED
      BY <3>1, <3>2
  <2>7. CASE EndOfList
    <3>1. /\ Return(arg = "exclude" /\ YearsPass(filter, album))
          /\ pc = "pieces"
      BY <2>7 DEF EndOfList
    <3>2. CASE arg = "name"
      BY <3>1, <3>2 DEF Return, PlaceInv, StageInv
    <3>3. CASE arg = "exclude"
      <4>1. pc' = "returned" /\ (keep' <=> YearsPass(filter, album))
            /\ UNCHANGED arg /\ keep' \in BOOLEAN
        BY <3>1, <3>3 DEF Return
      <4>2. QED
        BY <3>3, <4>1 DEF PlaceInv, StageInv
    <3>4. QED
      BY <3>2, <3>3 DEF PlaceInv
  <2>8. CASE Done \/ UNCHANGED vars
    BY <2>8 DEF Done, vars, PlaceInv, StageInv, List
  <2>9. QED
    BY <2>1, <2>2, <2>3, <2>4, <2>5, <2>6, <2>7, <2>8 DEF Next
<1>5. QED
  BY <1>2, <1>4

LEMMA FilterInvCorrect == Spec => []FilterInv
BY FilterInvInit, FilterInvStep, PTL DEF Spec

(* For all filters and albums: what is let through has a year in the range, *)
(* and only names, or the lack of assets, keep out what has (YearsOverlap). *)
THEOREM YearsCorrect == Spec => []YearsOverlap
<1>1. FilterInv => YearsOverlap
  <2> SUFFICES ASSUME FilterInv, pc = "returned", Accepted(filter),
                      filter.from_year # 0 \/ filter.to_year # 0,
                      iso_year(album.start_date) # 0
                        /\ iso_year(album.end_date) # 0
                        => iso_year(album.start_date)
                             <= iso_year(album.end_date)
               PROVE  YearsOverlap
    BY DEF YearsOverlap
  <2> DEFINE known == {iso_year(album.start_date), iso_year(album.end_date)} \ {0}
             overlap == \E k, l \in known : \E y \in k..l :
                          /\ filter.from_year = 0 \/ filter.from_year <= y
                          /\ filter.to_year = 0 \/ y <= filter.to_year
  <2>1. YearsPass(filter, album) <=> overlap
    BY YearsPassIs DEF FilterInv
  <2>2. filter.name \in Seq(Chars) /\ filter.exclude \in Seq(Chars)
    BY ListsAre DEF FilterInv, PlaceInv
  <2>3. /\ has_patterns(filter.name) <=> PatternsOf(filter.name) # {}
        /\ has_patterns(filter.exclude) <=> PatternsOf(filter.exclude) # {}
    BY <2>2, PatternsExist
  <2>4. /\ keep => YearsPass(filter, album)
        /\ /\ YearsPass(filter, album) /\ album.asset_count > 0
           /\ ~has_patterns(filter.name) /\ ~has_patterns(filter.exclude)
           => keep
    BY DEF FilterInv, StageInv
  <2> HIDE DEF overlap
  <2>5. /\ keep => overlap
        /\ /\ overlap /\ album.asset_count > 0
           /\ PatternsOf(filter.name) = {} /\ PatternsOf(filter.exclude) = {}
           => keep
    BY <2>1, <2>3, <2>4
  <2>6. QED
    BY <2>5, Zenon DEF YearsOverlap, overlap
<1>2. QED
  BY <1>1, FilterInvCorrect, PTL

-------------------------------------------------------------------------------
(* The lemmas about glob_match(), for its calls from here                  *)
GlobProofs == INSTANCE GlobMatch_proofs
                WITH Patterns <- {<<>>}, Names <- {c[2].name : c \in Cases}

(* What they assume of their constants holds of those given here.          *)
LEMMA GlobAssumptions ==
  /\ {<<>>} \subseteq Seq(Chars) /\ {c[2].name : c \in Cases} \subseteq Seq(Chars)
  /\ {"*", "?"} \subseteq Chars /\ Lower \in [Chars -> Chars]
<1>1. {"*", "?"} \subseteq Chars /\ Lower \in [Chars -> Chars]
  BY CharsAssumption, Zenon DEF CharsAssumption
<1>2. ASSUME NEW c \in Cases PROVE c[2].name \in Seq(Chars)
  BY FilterAssumption DEF FilterAssumption
<1>3. <<>> \in Seq(Chars)
  OBVIOUS
<1>4. QED
  BY <1>1, <1>2, <1>3, Zenon

(* They speak of the same steps and the same meaning.                      *)
LEMMA SameGlob ==
  /\ Glob!Turn => GlobProofs!Next
  /\ \A p, n : Glob!Call(p, n) => GlobProofs!Call(p, n)
  /\ \A p, n : GlobProofs!Matches(p, n) <=> Matches(p, n)
<1>1. Glob!Turn => GlobProofs!Next
  BY Zenon
  DEF Glob!Turn, GlobProofs!Next, GlobProofs!Turn,
      Glob!Advance, GlobProofs!Advance, Glob!MeetStar, GlobProofs!MeetStar,
      Glob!Backtrack, GlobProofs!Backtrack, Glob!Mismatch, GlobProofs!Mismatch,
      Glob!SkipStar, GlobProofs!SkipStar, Glob!Finish, GlobProofs!Finish,
      Glob!InLoop, GlobProofs!InLoop, Glob!Literal, GlobProofs!Literal,
      Glob!Star, GlobProofs!Star, Glob!AtEnd, GlobProofs!AtEnd,
      Glob!Same, GlobProofs!Same
<1>2. \A p, n : Glob!Call(p, n) => GlobProofs!Call(p, n)
  BY Zenon DEF Glob!Call, GlobProofs!Call
<1>3. \A p, n : GlobProofs!Matches(p, n) <=> Matches(p, n)
  BY Zenon
  DEF GlobProofs!Matches, Matches, GlobProofs!MatchesUpTo, MatchesUpTo,
      GlobProofs!Aligned, Aligned, GlobProofs!Before, Before,
      GlobProofs!Same, Same
<1>4. QED
  BY <1>1, <1>2, <1>3

(* No album's name holds a '*', nor a character that tolower() makes one of *)
PlainNames ==
  \A c \in Cases : \A i \in 1..Len(c[2].name) : Lower[c[2].name[i]] # Lower["*"]

LEMMA PlainNamesAreEnough == PlainNames => GlobProofs!NoStars
BY Zenon DEF PlainNames, GlobProofs!NoStars

(* glob_match() is in a state that leads to the documented answer          *)
GlobInv ==
  GlobProofs!InBounds /\ GlobProofs!PrefixInv /\ GlobProofs!BeyondInv

(* Once it has an answer, that is the one.                                 *)
LEMMA GlobAnswers ==
  ASSUME GlobInv, answer # "none"
  PROVE  answer = "match" <=> Matches(pattern, name)
<1>1. answer = "match" <=> GlobProofs!Matches(pattern, name)
  <2>1. GlobProofs!InBounds /\ GlobProofs!PrefixInv /\ GlobProofs!BeyondInv
    BY DEF GlobInv
  <2>2. QED
    BY <2>1, GlobAssumptions, GlobProofs!AnswerIs, Zenon
<1>2. QED
  BY <1>1, SameGlob

LEMMA GlobCalled ==
  ASSUME NEW p \in Seq(Chars), NEW n \in Seq(Chars),
         n \in {c[2].name : c \in Cases}, Glob!Call(p, n)
  PROVE  GlobInv' /\ pattern' = p /\ name' = n
<1>1. GlobProofs!Call(p, n)
  BY SameGlob
<1>2. GlobProofs!InBounds' /\ GlobProofs!PrefixInv' /\ GlobProofs!BeyondInv'
  BY <1>1, GlobAssumptions, GlobProofs!CallStarts, Zenon
<1>3. QED
  BY <1>1, <1>2 DEF GlobInv, GlobProofs!Call

LEMMA GlobGoesOn ==
  ASSUME PlainNames, GlobInv, Glob!Turn
  PROVE  GlobInv' /\ UNCHANGED <<pattern, name>>
<1>1. GlobProofs!NoStars /\ GlobProofs!Next
  BY PlainNamesAreEnough, SameGlob
<1>2. GlobProofs!InBounds' /\ GlobProofs!PrefixInv' /\ GlobProofs!BeyondInv'
  <2>1. GlobProofs!InBounds /\ GlobProofs!PrefixInv /\ GlobProofs!BeyondInv
    BY DEF GlobInv
  <2>2. GlobProofs!InBounds'
    BY <1>1, <2>1, GlobAssumptions, GlobProofs!BoundsStep, Zenon
  <2>3. GlobProofs!PrefixInv'
    BY <1>1, <2>1, GlobAssumptions, GlobProofs!PrefixStep, Zenon
  <2>4. GlobProofs!BeyondInv'
    BY <1>1, <2>1, GlobAssumptions, GlobProofs!BeyondStep, Zenon
  <2>5. QED
    BY <2>2, <2>3, <2>4
<1>3. UNCHANGED <<pattern, name>>
  BY DEF Glob!Turn, Glob!Advance, Glob!MeetStar, Glob!Backtrack,
     Glob!Mismatch, Glob!SkipStar, Glob!Finish
<1>4. QED
  BY <1>2, <1>3 DEF GlobInv

-------------------------------------------------------------------------------
(* Whether a list has a pattern that fits and matches                      *)
Hit(list) == Later(list, album.name, 1)

(* What is left to be tried of the list decides, and what was tried in     *)
(* lists before is known.                                                  *)
NamesInv ==
  /\ pc = "pieces" => (Hit(List) <=> Later(List, album.name, at))
  /\ pc = "glob" =>
       /\ GlobInv /\ name = album.name
       /\ Hit(List) <=> \/ Matches(pattern, name)
                        \/ Later(List, album.name, at)
  /\ Searching /\ arg = "exclude" =>
       (has_patterns(filter.name) => Hit(filter.name))
  /\ pc = "returned" =>
       (keep <=> /\ album.asset_count > 0
                 /\ has_patterns(filter.name) => Hit(filter.name)
                 /\ ~Hit(filter.exclude)
                 /\ YearsPass(filter, album))

(* A piece is made of characters.                                          *)
LEMMA PieceIsText ==
  ASSUME NEW list \in Seq(Chars), NEW i \in 1..Len(list)
  PROVE  PieceFrom(list, i) \in Seq(Chars)
<1> DEFINE g == Begin(list, i)
           e == End(list, i)
           text == {h \in g..e - 1 : list[h] \notin Spaces}
           First == CHOOSE h \in text : \A j \in text : h <= j
           Final == CHOOSE h \in text : \A j \in text : j <= h
<1>1. PieceFrom(list, i) = IF text = {} THEN <<>> ELSE SubSeq(list, First, Final)
  BY DEF PieceFrom, Trimmed
<1>2. Len(list) \in Nat /\ g \in i..Len(list) + 1 /\ e \in g..Len(list) + 1
  BY PieceFromIs
<1>3. ASSUME text # {} PROVE SubSeq(list, First, Final) \in Seq(Chars)
  <2>1. text \in SUBSET Nat /\ text \in SUBSET (0..Len(list))
    BY <1>2
  <2>2. \E h \in text : \A j \in text : h <= j
    BY <1>3, <2>1, Smallest
  <2>3. \E h \in text : \A j \in text : j <= h
    BY <1>2, <1>3, <2>1, Largest
  <2>4. text \subseteq 1..Len(list)
    BY <1>2
  <2> HIDE DEF text
  <2>5. First \in text /\ Final \in text
    BY <2>2, <2>3
  <2> HIDE DEF First, Final
  <2>6. First \in 1..Len(list) /\ Final \in 1..Len(list)
    BY <2>4, <2>5
  <2>7. \A h \in First..Final : list[h] \in Chars
    BY <1>2, <2>6
  <2>8. QED
    BY <2>6, <2>7, SubSeqProperties
<1> HIDE DEF text, First, Final
<1>4. QED
  BY <1>1, <1>3

LEMMA NamesStep ==
  ASSUME PlainNames, FilterInv, NamesInv, [Next]_vars
  PROVE  NamesInv'
<1> USE DEF FilterInv, Searching
<1>1. UNCHANGED <<filter, album>>
  BY DEF Next, NoAssets, TestName, NextPiece, GlobTurn, Differs, Matched,
     EndOfList, Done, vars
<1>2. /\ filter.name \in Seq(Chars) /\ filter.exclude \in Seq(Chars)
      /\ List \in Seq(Chars) /\ Len(List) \in Nat
      /\ List = IF arg = "name" THEN filter.name ELSE filter.exclude
  BY ListsAre DEF PlaceInv
<1>3. \A l : Hit(l)' <=> Hit(l)
  BY <1>1 DEF Hit
<1>4. YearsPass(filter, album)' <=> YearsPass(filter, album)
  BY <1>1
<1>5. album.name \in Seq(Chars) /\ album.name \in {c[2].name : c \in Cases}
  BY DEF InputInv
<1>6. ASSUME NEW l, Search(l)
      PROVE  /\ pc' = "pieces" /\ arg' = l /\ List' = filter[l]
             /\ Hit(filter[l]) <=> Later(List', album.name, at')
  BY <1>1, <1>6 DEF Search, List, Hit
<1>7. CASE NoAssets
  <2>1. album.asset_count <= 0 /\ Return(FALSE)
    BY <1>7 DEF NoAssets
  <2>2. album.asset_count \in Int
    BY DEF InputInv
  <2>3. ~(album.asset_count > 0)
    BY <2>1, <2>2
  <2>4. ~(album.asset_count > 0)' /\ pc' = "returned" /\ keep' = FALSE
    BY <1>1, <2>1, <2>3 DEF Return
  <2>5. QED
    BY <2>4 DEF NamesInv
<1>8. CASE TestName
  <2>1. PICK l \in {"name", "exclude"} :
          Search(l) /\ (l = "exclude" => ~has_patterns(filter.name))
    BY <1>8 DEF TestName
  <2>2. QED
    BY <1>1, <1>3, <1>6, <2>1 DEF NamesInv
<1>9. CASE NextPiece
  <2>1. /\ List \in Seq(Chars) /\ at \in 1..Len(List)
        /\ at = 1 \/ List[at] = Comma
        /\ List' = List
    BY <1>9, PieceMoves
  <2>2. Later(List, album.name, at) <=>
          \/ Fits(PieceFrom(List, at), album.name)
          \/ Later(List, album.name, End(List, at))
    BY <2>1, LaterStep
  <2>3. /\ pc = "pieces" /\ at' = End(List, at) /\ UNCHANGED <<arg, keep>>
    BY <1>9, NextPieceIs
  <2>4. Hit(List) <=> Later(List, album.name, at)
    BY <2>3 DEF NamesInv
  <2>5. CASE ~Usable(PieceFrom(List, at)) /\ UNCHANGED pc
    BY <1>1, <1>3, <2>1, <2>2, <2>3, <2>4, <2>5 DEF NamesInv, Fits
  <2>6. CASE /\ Usable(PieceFrom(List, at)) /\ pc' = "glob"
             /\ Glob!Call(PieceFrom(List, at), album.name)
    <3>1. PieceFrom(List, at) \in Seq(Chars)
      BY <2>1, PieceIsText
    <3>2. GlobInv' /\ pattern' = PieceFrom(List, at) /\ name' = album.name
      BY <1>5, <2>6, <3>1, GlobCalled
    <3>3. Hit(List) <=> \/ Matches(PieceFrom(List, at), album.name)
                        \/ Later(List, album.name, at')
      BY <2>2, <2>3, <2>4, <2>6 DEF Fits
    <3>4. QED
      BY <1>1, <1>3, <2>1, <2>3, <2>6, <3>2, <3>3 DEF NamesInv
  <2>7. QED
    BY <1>9, <2>5, <2>6, NextPieceIs
<1>10. CASE GlobTurn
  <2>1. GlobInv' /\ UNCHANGED <<pattern, name>>
    BY <1>10, GlobGoesOn DEF GlobTurn, NamesInv
  <2>2. pc = "glob" /\ UNCHANGED <<pc, arg, at, keep, List>>
    BY <1>1, <1>10 DEF GlobTurn, List
  <2>3. QED
    BY <1>1, <1>3, <2>1, <2>2 DEF NamesInv
<1>11. CASE Differs
  <2>1. pc = "glob" /\ pc' = "pieces" /\ UNCHANGED <<arg, at, keep, List>>
    BY <1>1, <1>11 DEF Differs, List
  <2>2. ~Matches(pattern, name)
    BY <1>11, GlobAnswers DEF Differs, NamesInv
  <2>3. QED
    BY <1>1, <1>3, <2>1, <2>2 DEF NamesInv
<1>12. CASE Matched
  <2>1. pc = "glob" /\ Hit(List)
    BY <1>12, GlobAnswers DEF Matched, NamesInv
  <2>2. CASE arg = "name"
    <3>1. Search("exclude") /\ Hit(filter.name)
      BY <1>2, <1>12, <2>1, <2>2 DEF Matched
    <3>2. QED
      BY <1>1, <1>3, <1>6, <3>1 DEF NamesInv
  <2>3. CASE arg = "exclude"
    <3>1. Return(FALSE) /\ Hit(filter.exclude)
      BY <1>2, <1>12, <2>1, <2>3 DEF Matched
    <3>2. QED
      BY <1>1, <1>3, <3>1 DEF Return, NamesInv
  <2>4. QED
    BY <2>2, <2>3 DEF PlaceInv
<1>13. CASE EndOfList
  <2>1. /\ pc = "pieces" /\ at > Len(List) /\ pc' = "returned"
        /\ keep' <=> (arg = "exclude" /\ YearsPass(filter, album))
    BY <1>13 DEF EndOfList, Return
  <2>2. at = Len(List) + 1
    BY <1>2, <2>1 DEF PlaceInv
  <2>3. ~Hit(List)
    BY <1>2, <2>1, <2>2, NoneAtEnd DEF NamesInv
  <2>4. album.asset_count > 0
    BY <2>1 DEF StageInv
  <2>5. CASE arg = "name"
    <3>1. has_patterns(filter.name) /\ ~Hit(filter.name)
      BY <1>2, <2>1, <2>3, <2>5 DEF StageInv
    <3>2. QED
      BY <1>1, <1>3, <2>1, <2>5, <3>1 DEF NamesInv
  <2>6. CASE arg = "exclude"
    <3>1. /\ has_patterns(filter.name) => Hit(filter.name)
          /\ ~Hit(filter.exclude)
      BY <1>2, <2>1, <2>3, <2>6 DEF NamesInv
    <3>2. QED
      BY <1>1, <1>3, <2>1, <2>4, <2>6, <3>1 DEF NamesInv
  <2>7. QED
    BY <2>5, <2>6 DEF PlaceInv
<1>14. CASE Done \/ UNCHANGED vars
  <2>1. UNCHANGED vars
    BY <1>14 DEF Done
  <2>2. GlobInv => GlobInv'
    <3>1. UNCHANGED <<pattern, name, pat, str, star, retry, answer>>
      BY <2>1 DEF vars, globVars
    <3>2. QED
      BY <3>1, Zenon
      DEF GlobInv, GlobProofs!InBounds, GlobProofs!PrefixInv,
          GlobProofs!BeyondInv, GlobProofs!FullMatch, GlobProofs!Beyond,
          GlobProofs!Complete
  <2>3. UNCHANGED <<pc, arg, at, keep, pattern, name, List>>
    BY <2>1 DEF vars, globVars, List
  <2>4. QED
    BY <1>1, <1>3, <2>2, <2>3 DEF NamesInv
<1>15. QED
  BY <1>7, <1>8, <1>9, <1>10, <1>11, <1>12, <1>13, <1>14 DEF Next

(* For all lists of patterns, and all album names without a '*': the names *)
(* decide by the patterns between the commas, as documented (NamesDecide). *)
THEOREM NamesCorrect == ASSUME PlainNames PROVE Spec => []NamesDecide
<1>1. Init => NamesInv
  BY DEF Init, NamesInv, Searching
<1>2. PlainNames /\ FilterInv /\ NamesInv /\ [Next]_vars => NamesInv'
  BY NamesStep
<1>3. FilterInv /\ NamesInv => NamesDecide
  <2> SUFFICES ASSUME FilterInv, NamesInv, pc = "returned",
                      filter.from_year = 0, filter.to_year = 0
               PROVE  keep <=> /\ album.asset_count > 0
                               /\ \/ PatternsOf(filter.name) = {}
                                  \/ OneOf(filter.name, album.name)
                               /\ ~OneOf(filter.exclude, album.name)
    BY DEF NamesDecide, OneOf
  <2>1. filter.name \in Seq(Chars) /\ filter.exclude \in Seq(Chars)
    BY ListsAre DEF FilterInv, PlaceInv
  <2>2. YearsPass(filter, album)
    BY DEF YearsPass
  <2>3. /\ Hit(filter.name) <=> OneOf(filter.name, album.name)
        /\ Hit(filter.exclude) <=> OneOf(filter.exclude, album.name)
    BY <2>1, LaterIsOneOf DEF Hit
  <2>4. has_patterns(filter.name) <=> PatternsOf(filter.name) # {}
    BY <2>1, PatternsExist
  <2>5. QED
    BY <2>2, <2>3, <2>4 DEF NamesInv
<1>4. QED
  BY PlainNames, <1>1, <1>2, <1>3, FilterInvCorrect, PTL DEF Spec
==============================================================================
