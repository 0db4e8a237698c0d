-------------------------- MODULE SelectionSampling --------------------------
(***************************************************************************)
(* The loop of sample_album() of random.c: selection sampling (Knuth's     *)
(* Algorithm S). It walks the album once and keeps each picture with       *)
(* probability (still needed) / (still left).                              *)
(*                                                                         *)
(* To speak of probabilities, num/den is the probability of the draws made *)
(* so far, on the ground that the generator's words are uniform: each step *)
(* multiplies num by the number of the words that lead the same way, and   *)
(* den by the number of all words that random_below() accepts.             *)
(***************************************************************************)
EXTENDS Integers, Sequences, FiniteSets, SampleSizes, RandomBelow

CONSTANTS
  Sizes,                  (* numbers of pictures in the album              *)
  max_pictures, percent   (* arguments of the sampler's constructor        *)

ASSUME SelectionAssumption ==
  Sizes \subseteq 0..UINT64_MAX /\ max_pictures \in Nat /\ percent \in 1..100

VARIABLES
  count,     \* pics.count
  invalid,   \* positions of the pictures whose ID is not a UUID
  memory,    \* whether malloc() finds room for a sample in this call
  status,    \* "drawing" in the call, then how it returned
  i,         \* pictures walked past
  sample,    \* the new buffer; its length is the local selected
  result,    \* r->sample
  num, den   \* history: the probability of having come here

input == <<count, invalid, memory>>
vars  == <<input, status, i, sample, result, num, den>>

k == sample_size(count, max_pictures, percent)
selected == Len(sample)

(* Mutant of Left: counts the picture that was walked past last            *)
LeftAndLast == count - i + 1

(* The pictures that have not been walked past                             *)
Left == count - i

(* The draw keeps the picture                                              *)
Kept(x) == ~(x >= k - selected)

(* The words from the generator that do so                                 *)
Keeping == {x \in Accepted(Left) : Kept(x % Left)}

Init ==
  /\ count \in Sizes /\ invalid \in SUBSET (1..count) /\ memory \in BOOLEAN
  /\ status = "drawing" /\ i = 0 /\ sample = <<>> /\ result = <<>>
  /\ num = 1 /\ den = 1

(* Mutant of NoBuffer: takes the NULL of malloc(0) for a failure           *)
NoBufferForNone ==
  /\ status = "drawing" /\ ~memory
  /\ status' = "failed"
  /\ UNCHANGED <<input, i, sample, result, num, den>>

(* Nothing is allocated for an empty sample                                *)
NoBuffer ==
  /\ status = "drawing" /\ k > 0 /\ ~memory
  /\ status' = "failed"
  /\ UNCHANGED <<input, i, sample, result, num, den>>

Allocated == k = 0 \/ memory

InLoop == status = "drawing" /\ Allocated /\ i < count /\ selected < k

Skip ==
  /\ InLoop
  /\ \E x \in random_below(Left) : ~Kept(x)
  /\ num' = num * Cardinality(Accepted(Left) \ Keeping)
  /\ den' = den * Cardinality(Accepted(Left))
  /\ i' = i + 1
  /\ UNCHANGED <<input, status, sample, result>>

(* Mutant of Keep: copies whatever ID the server sent                      *)
KeepUnchecked ==
  /\ InLoop
  /\ \E x \in random_below(Left) : Kept(x)
  /\ num' = num * Cardinality(Keeping)
  /\ den' = den * Cardinality(Accepted(Left))
  /\ sample' = Append(sample, i + 1) /\ i' = i + 1
  /\ UNCHANGED <<input, status, result>>

Keep ==
  /\ InLoop
  /\ \E x \in random_below(Left) : Kept(x)
  /\ num' = num * Cardinality(Keeping)
  /\ den' = den * Cardinality(Accepted(Left))
  /\ IF i + 1 \in invalid
     THEN status' = "failed" /\ UNCHANGED <<i, sample>>
     ELSE sample' = Append(sample, i + 1) /\ i' = i + 1 /\ UNCHANGED status
  /\ UNCHANGED <<input, result>>

(* r->sample_len becomes k without a look at selected                      *)
Return ==
  /\ status = "drawing" /\ Allocated /\ ~(i < count /\ selected < k)
  /\ status' = "done" /\ result' = sample
  /\ UNCHANGED <<input, i, sample, num, den>>

Done == status # "drawing" /\ UNCHANGED vars

Next == NoBuffer \/ Skip \/ Keep \/ Return \/ Done

Spec == Init /\ [][Next]_vars

-------------------------------------------------------------------------------
(* The loop always has as many pictures left as it still needs, keeps      *)
(* album order, and never draws from an empty range.                       *)
SelectionInvariant ==
  /\ i \in 0..count
  /\ sample \in Seq(1..i) /\ selected <= k /\ k - selected <= count - i
  /\ \A a, b \in 1..selected : a < b => sample[a] < sample[b]
  /\ \A a \in 1..selected : sample[a] \notin invalid
  /\ status = "done" => result = sample /\ selected = k
  /\ status # "done" => result = <<>>

(* Pascal's triangle                                                       *)
Binomial[n \in Nat] ==
  [m \in 0..n |-> IF m = 0 \/ m = n THEN 1
                  ELSE Binomial[n - 1][m - 1] + Binomial[n - 1][m]]

(* Every subset of k pictures is equally likely: a walk that has selected  *)
(* some pictures has used up exactly the share of the subsets that agree   *)
(* with it so far, whichever pictures they were.                           *)
SubsetsEquallyLikely ==
  status = "drawing" =>
    num * Binomial[count][k] = den * Binomial[count - i][k - selected]

(* The loop does what AlbumSample promises, whatever is drawn: it takes as  *)
(* many pictures as the settings are documented to ask for, an album of few *)
(* pictures is not skipped, and without a reason nothing fails.             *)
Promise == INSTANCE AlbumSample WITH sample <- result
KeepsPromise == Promise!Spec
==============================================================================
