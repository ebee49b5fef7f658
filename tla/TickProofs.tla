----------------------------- MODULE TickProofs -----------------------------
(***************************************************************************)
(* Proofs about what a tick does, for all values of the constants: the     *)
(* replay recording it samples (Replay), the waves its providers step in   *)
(* (Waves), and the energy it accounts for (Energy).                       *)
(*                                                                         *)
(* Three facts are by induction (FiniteInduction): the waves of a list of  *)
(* providers exist, a wave is below its provider's number, and the sum     *)
(* over the callers of an evaluation.                                      *)
(***************************************************************************)
EXTENDS Replay, Waves, Energy, FiniteInduction, SequenceTheorems, FiniteSetTheorems, TLAPS

---------------------------------------------------------------------------
(* Replay: the stored samples have no gap, in the order of their taking.   *)

\* Between two indices that are stored, every index is.
Gapless(set) == \A s, t \in set : \A i \in Nat : s.index <= i /\ i <= t.index => i \in Indices(set)

InTakeOrder(set) == \A s, t \in set : s.index < t.index <=> s.take < t.take

\* An index is below its take, so the takes bound the indices.
SamplesTyped ==
  /\ takes \in Nat /\ samples \subseteq [index: Nat, take: Nat] /\ IsFiniteSet(samples)
  /\ \A s \in samples : s.index < s.take /\ s.take <= takes

ReplayInv == SamplesTyped /\ Gapless(samples) /\ InTakeOrder(samples)

(* Samples with nothing missing above them keep the shape.                 *)
LEMMA UpperPart ==
  ASSUME NEW set, set \subseteq [index: Nat, take: Nat], Gapless(set), InTakeOrder(set),
         NEW part \in SUBSET set,
         \A s \in part, t \in set : s.index <= t.index => t \in part
  PROVE  Gapless(part) /\ InTakeOrder(part)
<1>1. ASSUME NEW s \in part, NEW t \in part, NEW i \in Nat, s.index <= i, i <= t.index
      PROVE  i \in Indices(part)
  <2>1. i \in Indices(set)
    BY <1>1 DEF Gapless
  <2>2. PICK u \in set : u.index = i
    BY <2>1 DEF Indices
  <2>3. u \in part
    BY <1>1, <2>2
  <2> QED BY <2>2, <2>3 DEF Indices
<1> QED BY <1>1 DEF Gapless, InTakeOrder

(* Evicting the oldest sample leaves an upper part.                        *)
LEMMA WithoutOldestKeeps ==
  ASSUME NEW set, set \subseteq [index: Nat, take: Nat], Gapless(set), InTakeOrder(set)
  PROVE  /\ WithoutOldest(set) \in SUBSET set
         /\ Gapless(WithoutOldest(set)) /\ InTakeOrder(WithoutOldest(set))
<1> DEFINE low == Min(Indices(set))
           part == WithoutOldest(set)
<1>1. part \in SUBSET set
  BY DEF WithoutOldest
<1>2. ASSUME NEW s \in part, NEW t \in set, s.index <= t.index PROVE t \in part
  <2>1. s \in set /\ s.index # low
    BY DEF WithoutOldest
  <2>2. Indices(set) \in SUBSET Nat /\ s.index \in Indices(set) /\ t.index \in Indices(set)
    BY <2>1 DEF Indices
  <2>3. low \in Indices(set) /\ \A x \in Indices(set) : low <= x
    BY <2>2, MinOfNaturals
  <2>4. low \in Nat /\ s.index \in Nat /\ t.index \in Nat /\ low <= s.index
    BY <2>2, <2>3
  <2> HIDE DEF low
  <2>5. t.index # low
    BY <1>2, <2>1, <2>4
  <2> QED BY <2>5 DEF WithoutOldest, low
<1> HIDE DEF part
<1>3. Gapless(part) /\ InTakeOrder(part)
  BY <1>1, <1>2, UpperPart
<1> QED BY <1>1, <1>3 DEF part

(* So does keeping the newest n.                                           *)
LEMMA NewestKeeps ==
  ASSUME NEW set, set \subseteq [index: Nat, take: Nat], IsFiniteSet(set),
         Gapless(set), InTakeOrder(set), NEW n \in Nat
  PROVE  /\ Newest(set, n) \in SUBSET set
         /\ Gapless(Newest(set, n)) /\ InTakeOrder(Newest(set, n))
<1> DEFINE part == Newest(set, n)
           Above(s) == {t \in set : t.index > s.index}
<1>1. part \in SUBSET set
  BY DEF Newest
<1>2. ASSUME NEW s \in part, NEW t \in set, s.index <= t.index PROVE t \in part
  <2>1. s \in set /\ Cardinality(Above(s)) < n
    BY DEF Newest
  <2>2. Above(s) \in SUBSET set /\ Above(t) \in SUBSET Above(s)
    BY <1>2, <2>1
  <2>3. IsFiniteSet(Above(s))
    BY <2>2, FS_Subset
  <2>4. IsFiniteSet(Above(t)) /\ Cardinality(Above(t)) <= Cardinality(Above(s))
    BY <2>2, <2>3, FS_Subset
  <2>5. Cardinality(Above(s)) \in Nat /\ Cardinality(Above(t)) \in Nat
    BY <2>3, <2>4, FS_CardinalityType
  <2>6. Cardinality(Above(t)) < n
    <3> HIDE DEF Above
    <3> QED BY <2>1, <2>4, <2>5
  <2> QED BY <2>6 DEF Newest
<1> HIDE DEF part
<1>3. Gapless(part) /\ InTakeOrder(part)
  BY <1>1, <1>2, UpperPart
<1> QED BY <1>1, <1>3 DEF part

(* A sample above all others, of the next take, goes on without a gap.     *)
LEMMA SampleAbove ==
  ASSUME NEW set, set \subseteq [index: Nat, take: Nat], IsFiniteSet(set),
         Gapless(set), InTakeOrder(set), NEW taken \in Nat,
         \A s \in set : s.index < s.take /\ s.take <= taken
  PROVE  LET next == IF set = {} THEN 0 ELSE Max(Indices(set)) + 1
             new == set \cup {[index |-> next, take |-> taken + 1]}
         IN /\ new \subseteq [index: Nat, take: Nat] /\ IsFiniteSet(new)
            /\ \A s \in new : s.index < s.take /\ s.take <= taken + 1
            /\ Gapless(new) /\ InTakeOrder(new)
<1> DEFINE next == IF set = {} THEN 0 ELSE Max(Indices(set)) + 1
           last == [index |-> next, take |-> taken + 1]
           new == set \cup {last}
<1>1. /\ next \in Nat /\ next <= taken
      /\ \A s \in set : s.index < next
      /\ \A i \in Nat : i < next => (\E s \in set : i <= s.index)
  <2>1. CASE set = {}
    BY <2>1
  <2>2. CASE set # {}
    <3> DEFINE high == Max(Indices(set))
    <3>1. /\ Indices(set) \in SUBSET Nat /\ Indices(set) # {}
          /\ \A x \in Indices(set) : x <= taken
      BY <2>2 DEF Indices
    <3>2. high \in Indices(set) /\ \A x \in Indices(set) : x <= high
      BY <3>1, MaxOfNaturals
    <3>3. next = high + 1
      BY <2>2
    <3> HIDE DEF high, next
    <3>4. PICK s \in set : s.index = high
      BY <3>2 DEF Indices
    <3>5. high \in Nat /\ high < taken
      BY <3>4
    <3>6. \A t \in set : t.index <= high
      BY <3>2 DEF Indices
    <3> QED BY <3>3, <3>4, <3>5, <3>6
  <2> QED BY <2>1, <2>2
<1>2. last \in [index: Nat, take: Nat] /\ last.index = next /\ last.take = taken + 1
  BY <1>1
<1>3. IsFiniteSet(new)
  BY FS_AddElement
<1> HIDE DEF next, last
<1>4. ASSUME NEW s \in new, NEW t \in new, NEW i \in Nat, s.index <= i, i <= t.index
      PROVE  i \in Indices(new)
  <2>1. CASE i = next
    BY <1>2, <2>1 DEF Indices
  <2>2. CASE i # next
    <3>1. i < next
      BY <1>1, <1>2, <1>4, <2>2
    <3>2. s \in set
      BY <1>2, <1>4, <3>1, <1>1
    <3>3. PICK u \in set : i <= u.index
      BY <1>1, <3>1
    <3>4. i \in Indices(set)
      BY <1>4, <3>2, <3>3 DEF Gapless
    <3> QED BY <3>4 DEF Indices
  <2> QED BY <2>1, <2>2
<1>5. ASSUME NEW s \in new, NEW t \in new PROVE s.index < t.index <=> s.take < t.take
  <2>1. CASE s \in set /\ t \in set
    BY <2>1 DEF InTakeOrder
  <2>2. CASE s \in set /\ t = last
    <3>1. s.index < t.index /\ s.take < t.take
      BY <1>1, <1>2, <2>2
    <3> QED BY <3>1
  <2>3. CASE s = last /\ t \in set
    <3>1. ~(s.index < t.index) /\ ~(s.take < t.take)
      BY <1>1, <1>2, <2>3
    <3> QED BY <3>1
  <2>4. CASE s = last /\ t = last
    BY <1>1, <1>2, <2>4
  <2> QED BY <2>1, <2>2, <2>3, <2>4
<1>6. Gapless(new) /\ InTakeOrder(new)
  <2> HIDE DEF new
  <2> QED BY <1>4, <1>5 DEF Gapless, InTakeOrder
<1>7. new \subseteq [index: Nat, take: Nat] /\ \A s \in new : s.index < s.take /\ s.take <= taken + 1
  BY <1>1, <1>2
<1> QED BY <1>3, <1>6, <1>7 DEF next, last

(* PlaysInOrder: whatever is evicted, trimmed or stored meanwhile, the     *)
(* stored indices have no gap and are in the order of their taking.        *)
THEOREM RecordingHasNoGap == ReplaySpec => []PlaysInOrder
<1> USE ReplayAssumption
<1>1. ReplayInit => ReplayInv
  BY FS_EmptySet DEF ReplayInit, ReplayInv, SamplesTyped, Gapless, InTakeOrder
<1>2. ReplayInv /\ [ReplayNext]_rpVars => ReplayInv'
  <2> SUFFICES ASSUME ReplayInv, [ReplayNext]_rpVars PROVE ReplayInv'
    OBVIOUS
  <2>0. SamplesTyped /\ Gapless(samples) /\ InTakeOrder(samples)
    BY DEF ReplayInv
  <2>1. ASSUME UNCHANGED <<samples, takes>> PROVE ReplayInv'
    BY <2>0, <2>1 DEF ReplayInv, SamplesTyped, Gapless, InTakeOrder, Indices
  <2>2. CASE StoreSample
    <3> DEFINE kept == IF sampling.full THEN WithoutOldest(samples) ELSE samples
    <3>1. /\ samples' = kept \cup {[index |-> IF kept = {} THEN 0 ELSE Max(Indices(kept)) + 1, take |-> takes + 1]}
          /\ takes' = takes + 1
      BY <2>2 DEF StoreSample
    <3>2. kept \in SUBSET samples /\ Gapless(kept) /\ InTakeOrder(kept)
      BY <2>0, WithoutOldestKeeps DEF SamplesTyped
    <3> HIDE DEF kept
    <3>3. /\ kept \subseteq [index: Nat, take: Nat] /\ IsFiniteSet(kept) /\ takes \in Nat
          /\ \A s \in kept : s.index < s.take /\ s.take <= takes
      BY <2>0, <3>2, FS_Subset DEF SamplesTyped
    <3>4. /\ samples' \subseteq [index: Nat, take: Nat] /\ IsFiniteSet(samples')
          /\ \A s \in samples' : s.index < s.take /\ s.take <= takes + 1
          /\ Gapless(samples') /\ InTakeOrder(samples')
      BY <3>1, <3>2, <3>3, SampleAbove
    <3> QED BY <3>1, <3>3, <3>4 DEF ReplayInv, SamplesTyped, Gapless, InTakeOrder, Indices
  <2>3. ASSUME NEW cap \in Caps, NEW mode \in {"overwrite", "stop"}, UpdateRecording(cap, mode)
        PROVE  ReplayInv'
    <3>1. takes' = takes /\ (samples' = samples \/ samples' = Newest(samples, cap))
      BY <2>3 DEF UpdateRecording
    <3>2. CASE samples' = samples
      BY <2>1, <3>1, <3>2
    <3>3. CASE samples' = Newest(samples, cap)
      <4>1. /\ Newest(samples, cap) \in SUBSET samples
            /\ Gapless(Newest(samples, cap)) /\ InTakeOrder(Newest(samples, cap))
        BY <2>0, NewestKeeps DEF SamplesTyped
      <4>2. samples' \in SUBSET samples /\ Gapless(samples') /\ InTakeOrder(samples')
        BY <3>3, <4>1
      <4>3. SamplesTyped'
        BY <2>0, <3>1, <4>2, FS_Subset DEF SamplesTyped
      <4> QED BY <4>2, <4>3 DEF ReplayInv, Gapless, InTakeOrder, Indices
    <3> QED BY <3>1, <3>2, <3>3
  <2>4. CASE BeginSample \/ StopRecording
    BY <2>1, <2>4 DEF BeginSample, StopRecording
  <2>5. CASE Play \/ PausePlay \/ SetLoop \/ StopPlay \/ Rewind
    BY <2>1, <2>5 DEF Play, PausePlay, SetLoop, StopPlay, Rewind, recordingVars
  <2>6. CASE \E index \in Indices(samples) : SeekTo(index)
    BY <2>1, <2>6 DEF SeekTo, recordingVars
  <2>7. CASE ReadRange \/ ReadFrame \/ Inject \/ RebuildObjects
    BY <2>1, <2>7 DEF ReadRange, ReadFrame, Inject, RebuildObjects, recordingVars
  <2>8. CASE \E steps \in 0..MaxSteps : MoveOn(steps)
    BY <2>1, <2>8 DEF MoveOn, recordingVars
  <2>9. CASE UNCHANGED rpVars
    BY <2>1, <2>9 DEF rpVars
  <2> QED BY <2>2, <2>3, <2>4, <2>5, <2>6, <2>7, <2>8, <2>9 DEF ReplayNext
<1>3. ReplayInv => PlaysInOrder
  <2> SUFFICES ASSUME ReplayInv PROVE PlaysInOrder
    OBVIOUS
  <2>1. SamplesTyped /\ Gapless(samples) /\ InTakeOrder(samples)
    BY DEF ReplayInv
  <2>2. ASSUME NEW s \in samples, s.index # Min(Indices(samples)) PROVE s.index - 1 \in Indices(samples)
    <3>1. Indices(samples) \in SUBSET Nat /\ s.index \in Indices(samples)
      BY <2>1 DEF SamplesTyped, Indices
    <3>2. Min(Indices(samples)) \in Indices(samples) /\ Min(Indices(samples)) <= s.index
      BY <3>1, MinOfNaturals
    <3>3. PICK t \in samples : t.index = Min(Indices(samples))
      BY <3>2 DEF Indices
    <3>4. s.index \in Nat /\ t.index \in Nat /\ t.index <= s.index /\ t.index # s.index
      BY <2>1, <2>2, <3>2, <3>3 DEF SamplesTyped
    <3>5. s.index - 1 \in Nat /\ t.index <= s.index - 1 /\ s.index - 1 <= s.index
      BY <3>4
    <3> QED BY <2>1, <3>5 DEF Gapless
  <2> QED BY <2>1, <2>2 DEF PlaysInOrder, InTakeOrder
<1> QED BY <1>1, <1>2, <1>3, PTL DEF ReplaySpec

---------------------------------------------------------------------------
(* Waves: what the staging of a pass promises, and what each provider      *)
(* reads of the providers before it.                                       *)

\* The providers before the nth that it reads from, and its wave, when f gives
\* theirs.
Before(items, n) == {k \in 1..(n - 1) : Read(items[n]) \cap Written(items[k]) # {}}
StageOf(items, f, n) ==
  IF Before(items, n) = {} THEN 0
  ELSE 1 + CHOOSE w \in {f[k] : k \in Before(items, n)} : \A k \in Before(items, n) : f[k] <= w

\* The waves of the first m.
Staged(items, m, f) ==
  /\ f \in [1..m -> Nat]
  /\ \A n \in 1..m : f[n] < n /\ f[n] = StageOf(items, f, n)

(* A provider's wave is the first one after the waves of those it reads.   *)
LEMMA StageAfter ==
  ASSUME NEW items, NEW n \in Nat \ {0}, NEW f, \A k \in 1..(n - 1) : f[k] \in Nat /\ f[k] < k
  PROVE  /\ StageOf(items, f, n) \in Nat /\ StageOf(items, f, n) < n
         /\ \A k \in Before(items, n) : f[k] < StageOf(items, f, n)
         /\ (Before(items, n) # {} => \E k \in Before(items, n) : StageOf(items, f, n) = f[k] + 1)
         /\ (Before(items, n) = {} => StageOf(items, f, n) = 0)
<1>1. CASE Before(items, n) = {}
  BY <1>1 DEF StageOf
<1>2. CASE Before(items, n) # {}
  <2> DEFINE waves == {f[k] : k \in Before(items, n)}
             last == CHOOSE w \in waves : \A k \in Before(items, n) : f[k] <= w
  <2>1. \A k \in Before(items, n) : k \in 1..(n - 1) /\ f[k] \in Nat /\ f[k] < k /\ f[k] <= n
    BY DEF Before
  <2>2. waves \in SUBSET Nat /\ waves # {} /\ \A x \in waves : x <= n
    BY <1>2, <2>1
  <2>3. Max(waves) \in waves /\ \A x \in waves : x <= Max(waves)
    <3> HIDE DEF waves
    <3> QED BY <2>2, MaxOfNaturals
  <2>4. \A k \in Before(items, n) : f[k] \in waves
    OBVIOUS
  <2>5. \E w \in waves : \A k \in Before(items, n) : f[k] <= w
    BY <2>3, <2>4
  <2>6. last \in waves /\ \A k \in Before(items, n) : f[k] <= last
    <3> HIDE DEF waves
    <3> QED BY <2>5
  <2>7. StageOf(items, f, n) = 1 + last
    BY <1>2 DEF StageOf
  <2> HIDE DEF last
  <2>8. PICK k \in Before(items, n) : last = f[k]
    BY <2>6
  <2> HIDE DEF waves
  <2>9. last \in Nat /\ last + 1 < n /\ 1 + last = last + 1
    BY <2>1, <2>8
  <2>10. \A j \in Before(items, n) : f[j] < 1 + last
    BY <2>1, <2>6, <2>9
  <2> QED BY <1>2, <2>7, <2>8, <2>9, <2>10
<1> QED BY <1>1, <1>2

(* It is told by the waves of the providers before it.                     *)
LEMMA StageSame ==
  ASSUME NEW items, NEW n \in Nat \ {0}, NEW f, NEW g,
         \A k \in 1..(n - 1) : f[k] \in Nat /\ f[k] < k /\ g[k] = f[k]
  PROVE  StageOf(items, f, n) = StageOf(items, g, n)
<1> DEFINE a == StageOf(items, f, n)
           b == StageOf(items, g, n)
<1>1. CASE Before(items, n) = {}
  BY <1>1 DEF StageOf
<1>2. CASE Before(items, n) # {}
  <2>1. \A k \in Before(items, n) : f[k] \in Nat /\ g[k] = f[k]
    BY DEF Before
  <2>2. a \in Nat /\ (\A k \in Before(items, n) : f[k] < a) /\ \E k \in Before(items, n) : a = f[k] + 1
    BY <1>2, StageAfter
  <2>3. b \in Nat /\ (\A k \in Before(items, n) : g[k] < b) /\ \E k \in Before(items, n) : b = g[k] + 1
    BY <1>2, StageAfter
  <2> HIDE DEF a, b
  <2>4. a <= b /\ b <= a
    BY <2>1, <2>2, <2>3
  <2> QED BY <2>2, <2>3, <2>4 DEF a, b
<1> QED BY <1>1, <1>2

(* So a staging of any length exists, one provider after the other.        *)
LEMMA StagingExists ==
  ASSUME NEW items, NEW m \in Nat
  PROVE  \E f : Staged(items, m, f)
<1> DEFINE lengths == {l \in Nat : \E f : Staged(items, l, f)}
<1>1. 0 \in lengths
  <2>1. Staged(items, 0, [n \in 1..0 |-> 0])
    BY DEF Staged
  <2> QED BY <2>1
<1>2. ASSUME NEW l \in lengths PROVE l + 1 \in lengths
  <2>1. PICK f : Staged(items, l, f)
    OBVIOUS
  <2> DEFINE g == [n \in 1..(l + 1) |-> IF n <= l THEN f[n] ELSE StageOf(items, f, l + 1)]
  <2>2. \A k \in 1..l : f[k] \in Nat /\ f[k] < k /\ g[k] = f[k] /\ f[k] = StageOf(items, f, k)
    BY <2>1 DEF Staged
  <2>3. StageOf(items, f, l + 1) \in Nat /\ StageOf(items, f, l + 1) < l + 1
    <3>1. l + 1 \in Nat \ {0} /\ (l + 1) - 1 = l
      OBVIOUS
    <3> QED BY <2>2, <3>1, StageAfter
  <2>4. g \in [1..(l + 1) -> Nat] /\ g[l + 1] = StageOf(items, f, l + 1)
    <3> DEFINE last == StageOf(items, f, l + 1)
    <3>1. last \in Nat /\ l + 1 \in 1..(l + 1) /\ ~(l + 1 <= l)
      BY <2>3
    <3> HIDE DEF last
    <3>2. \A n \in 1..(l + 1) : n <= l => n \in 1..l
      OBVIOUS
    <3>3. \A n \in 1..(l + 1) : (IF n <= l THEN f[n] ELSE last) \in Nat
      BY <2>2, <3>1, <3>2
    <3>4. g = [n \in 1..(l + 1) |-> IF n <= l THEN f[n] ELSE last]
      BY DEF last
    <3> HIDE DEF g
    <3>5. g \in [1..(l + 1) -> Nat] /\ g[l + 1] = last
      BY <3>1, <3>3, <3>4
    <3> QED BY <3>5 DEF last
  <2> HIDE DEF g
  <2>5. ASSUME NEW n \in 1..(l + 1) PROVE g[n] < n /\ g[n] = StageOf(items, g, n)
    <3>1. n \in Nat \ {0} /\ \A k \in 1..(n - 1) : k \in 1..l
      OBVIOUS
    <3>2. StageOf(items, f, n) = StageOf(items, g, n)
      BY <2>2, <3>1, StageSame
    <3>3. CASE n = l + 1
      BY <2>3, <2>4, <3>2, <3>3
    <3>4. CASE n # l + 1
      <4>1. n \in 1..l
        BY <3>4
      <4> QED BY <2>2, <3>2, <4>1
    <3> QED BY <3>3, <3>4
  <2>6. Staged(items, l + 1, g)
    BY <2>4, <2>5 DEF Staged
  <2> QED BY <2>6
<1>3. lengths = Nat
  <2>1. lengths \in SUBSET Nat
    OBVIOUS
  <2> HIDE DEF lengths
  <2> QED BY <1>1, <1>2, <2>1, SetInduction
<1> QED BY <1>3

(* WaveOf puts a provider into a later wave than every earlier one it      *)
(* reads from.                                                             *)
LEMMA WaveOfStages ==
  ASSUME NEW items \in Seq(Modelled)
  PROVE  /\ WaveOf(items) \in [1..Len(items) -> Nat]
         /\ \A i, j \in 1..Len(items) :
              i < j /\ Read(items[j]) \cap Written(items[i]) # {} => WaveOf(items)[i] < WaveOf(items)[j]
<1> DEFINE w == WaveOf(items)
<1>1. w = CHOOSE g : g = [n \in 1..Len(items) |-> StageOf(items, g, n)]
  BY DEF WaveOf, StageOf, Before
<1>2. PICK f : Staged(items, Len(items), f)
  BY StagingExists
<1>3. f = [n \in 1..Len(items) |-> StageOf(items, f, n)]
  BY <1>2 DEF Staged
<1>4. w = [n \in 1..Len(items) |-> StageOf(items, w, n)]
  <2> HIDE DEF w
  <2> QED BY <1>1, <1>3, Zenon
<1> HIDE DEF w
<1>5. \A n \in 1..Len(items) : w[n] = StageOf(items, w, n)
  BY <1>4
<1> DEFINE told == {l \in Nat : \A k \in 1..Len(items) : k <= l => w[k] \in Nat /\ w[k] < k}
<1>6. 0 \in told
  OBVIOUS
<1>7. ASSUME NEW l \in told PROVE l + 1 \in told
  <2>1. ASSUME NEW k \in 1..Len(items), k <= l + 1 PROVE w[k] \in Nat /\ w[k] < k
    <3>1. k \in Nat \ {0} /\ \A j \in 1..(k - 1) : j \in 1..Len(items) /\ j <= l
      BY <2>1
    <3>2. \A j \in 1..(k - 1) : w[j] \in Nat /\ w[j] < j
      BY <3>1
    <3> QED BY <1>5, <3>1, <3>2, StageAfter
  <2> QED BY <2>1
<1>8. told = Nat
  <2>1. told \in SUBSET Nat
    OBVIOUS
  <2> HIDE DEF told
  <2> QED BY <1>6, <1>7, <2>1, SetInduction
<1>9. \A k \in 1..Len(items) : w[k] \in Nat /\ w[k] < k
  <2>1. Len(items) \in Nat /\ Len(items) \in told
    <3> HIDE DEF told
    <3> QED BY <1>8
  <2> QED BY <2>1
<1>10. w \in [1..Len(items) -> Nat]
  BY <1>4, <1>9
<1>11. ASSUME NEW i \in 1..Len(items), NEW j \in 1..Len(items), i < j,
              Read(items[j]) \cap Written(items[i]) # {}
       PROVE  w[i] < w[j]
  <2>1. i \in Before(items, j)
    BY <1>11 DEF Before
  <2>2. j \in Nat \ {0} /\ \A k \in 1..(j - 1) : w[k] \in Nat /\ w[k] < k
    BY <1>9
  <2> QED BY <1>5, <2>1, <2>2, StageAfter
<1> QED BY <1>10, <1>11 DEF w

\* No provider is in a list twice.
Once(list) == \A i, j \in 1..Len(list) : list[i] = list[j] => i = j

OrderSound == order \in Seq(Modelled) /\ Once(order)

\* The outputs of an object are points it is registered with.
ObjectsWired == DOMAIN model = Modelled /\ \A p \in Modelled : DOMAIN model[p].outputs \subseteq Written(p)

PassTyped ==
  /\ DOMAIN stepping = {"phase", "tick", "items", "staged", "wave", "now", "generated", "source", "seen",
                        "results", "left"}
  /\ stepping.items \in Seq(Modelled) /\ Once(stepping.items) /\ stepping.now \in Nat
  /\ \A i \in 1..Len(stepping.items) : stepping.wave[i] \in Nat

\* The points a provider of the pass can still be asked for: those of its
\* wiring or, once its object was replaced, of that object's last outputs; and
\* what it has answered already.
Could(p) == IF p \in DOMAIN stepping.left THEN DOMAIN stepping.left[p] ELSE Written(p)
Sent(p) == Could(p) \cup (IF p \in DOMAIN stepping.results THEN DOMAIN stepping.results[p] ELSE {})

\* Who was staged with a point another can send is in a later wave.
PassStaged ==
  \A i, j \in 1..Len(stepping.items) :
    i < j /\ stepping.staged[stepping.items[j]] \cap Sent(stepping.items[i]) # {} =>
      stepping.wave[i] < stepping.wave[j]

\* Who was not replaced reads what it was staged with.
AsStaged ==
  \A j \in 1..Len(stepping.items) :
    stepping.items[j] \notin DOMAIN stepping.left =>
      Read(stepping.items[j]) = stepping.staged[stepping.items[j]]

MergedHasValue == DOMAIN stepping.source \subseteq DOMAIN stepping.generated

\* No wave has read before its turn, nor what it was not staged with.
ReadInTurn ==
  \A j \in 1..Len(stepping.items) :
    stepping.items[j] \in DOMAIN stepping.seen =>
      /\ stepping.wave[j] <= stepping.now
      /\ stepping.items[j] \notin DOMAIN stepping.left =>
           DOMAIN stepping.seen[stepping.items[j]] \subseteq stepping.staged[stepping.items[j]]

WavesInv ==
  /\ OrderSound /\ ObjectsWired /\ PassTyped /\ PassStaged /\ AsStaged /\ MergedHasValue /\ ReadInTurn
  /\ EarlierIsSeen

(* Taking a provider out of the list leaves the others, once each.         *)
LEMMA RemovedIsGone ==
  ASSUME NEW s \in Seq(Modelled), Once(s), NEW e \in Modelled
  PROVE  /\ RemoveFirst(s, e) \in Seq(Modelled) /\ Once(RemoveFirst(s, e))
         /\ \A i \in 1..Len(RemoveFirst(s, e)) : RemoveFirst(s, e)[i] # e
<1> DEFINE places == {i \in 1..Len(s) : s[i] = e}
           at == SelectInSeq(s, LAMBDA v : v = e)
           rest == RemoveFirst(s, e)
<1>1. rest = IF \E i \in 1..Len(s) : s[i] = e THEN SubSeq(s, 1, at - 1) \o SubSeq(s, at + 1, Len(s)) ELSE s
  BY DEF RemoveFirst, RemoveAt
<1>2. at = IF places # {} THEN Min(places) ELSE 0
  BY DEF SelectInSeq
<1>3. CASE places = {}
  <2>1. rest = s /\ \A i \in 1..Len(s) : s[i] # e
    BY <1>1, <1>3
  <2> QED BY <2>1
<1>4. CASE places # {}
  <2>1. at \in 1..Len(s) /\ s[at] = e
    <3>1. places \in SUBSET Nat
      OBVIOUS
    <3>2. at \in places
      <4> HIDE DEF places, at
      <4> QED BY <1>2, <1>4, <3>1, MinOfNaturals
    <3> HIDE DEF at
    <3> QED BY <3>2
  <2>2. rest = SubSeq(s, 1, at - 1) \o SubSeq(s, at + 1, Len(s))
    BY <1>1, <1>4
  <2> HIDE DEF at, rest, places
  <2>3. /\ rest \in Seq(Modelled) /\ Len(rest) = Len(s) - 1
        /\ \A i \in 1..(Len(s) - 1) : rest[i] = IF i < at THEN s[i] ELSE s[i + 1]
    <3> DEFINE front == SubSeq(s, 1, at - 1)
               back == SubSeq(s, at + 1, Len(s))
    <3>1. front \in Seq(Modelled) /\ Len(front) = at - 1 /\ \A i \in 1..(at - 1) : front[i] = s[i]
      BY <2>1
    <3>2. /\ back \in Seq(Modelled) /\ Len(back) = Len(s) - at
          /\ \A i \in 1..(Len(s) - at) : back[i] = s[at + i]
      BY <2>1
    <3> HIDE DEF front, back
    <3>3. rest = front \o back
      BY <2>2 DEF front, back
    <3>4. rest \in Seq(Modelled) /\ Len(rest) = Len(s) - 1
      BY <2>1, <3>1, <3>2, <3>3
    <3>5. ASSUME NEW i \in 1..(Len(s) - 1) PROVE rest[i] = IF i < at THEN s[i] ELSE s[i + 1]
      <4>1. CASE i < at
        <5>1. i \in 1..(at - 1)
          BY <2>1, <4>1
        <5> QED BY <3>1, <3>2, <3>3, <4>1, <5>1
      <4>2. CASE ~(i < at)
        <5>1. i - (at - 1) \in 1..(Len(s) - at) /\ at + (i - (at - 1)) = i + 1 /\ i > at - 1
          BY <2>1, <4>2
        <5>2. i \in 1..(Len(front) + Len(back)) /\ ~(i <= Len(front)) /\ Len(front) = at - 1
          BY <2>1, <3>1, <3>2, <4>2
        <5>3. (front \o back)[i] = back[i - Len(front)]
          BY <3>1, <3>2, <5>2
        <5>4. rest[i] = back[i - (at - 1)]
          BY <3>3, <5>2, <5>3
        <5> QED BY <3>2, <4>2, <5>1, <5>4
      <4> QED BY <4>1, <4>2
    <3> QED BY <3>4, <3>5
  <2>4. ASSUME NEW i \in 1..Len(rest) PROVE rest[i] # e
    <3> DEFINE k == IF i < at THEN i ELSE i + 1
    <3>1. k \in 1..Len(s) /\ k # at /\ rest[i] = s[k]
      BY <2>1, <2>3
    <3> HIDE DEF k
    <3> QED BY <2>1, <3>1 DEF Once
  <2>5. ASSUME NEW i \in 1..Len(rest), NEW j \in 1..Len(rest), rest[i] = rest[j] PROVE i = j
    <3> DEFINE k == IF i < at THEN i ELSE i + 1
               l == IF j < at THEN j ELSE j + 1
    <3>1. k \in 1..Len(s) /\ rest[i] = s[k] /\ l \in 1..Len(s) /\ rest[j] = s[l]
      BY <2>1, <2>3
    <3>2. k = l => i = j
      BY <2>1, <2>3
    <3> HIDE DEF k, l
    <3>3. k = l
      BY <2>5, <3>1 DEF Once
    <3> QED BY <3>2, <3>3
  <2>6. Once(rest)
    BY <2>5 DEF Once
  <2> QED BY <2>3, <2>4, <2>6 DEF rest
<1> QED BY <1>3, <1>4

(* Another provider at the end.                                            *)
LEMMA AddedOnce ==
  ASSUME NEW s \in Seq(Modelled), Once(s), NEW e \in Modelled, \A i \in 1..Len(s) : s[i] # e
  PROVE  Append(s, e) \in Seq(Modelled) /\ Once(Append(s, e))
<1>1. /\ Append(s, e) \in Seq(Modelled) /\ Len(Append(s, e)) = Len(s) + 1 /\ Len(s) \in Nat
      /\ Append(s, e)[Len(s) + 1] = e
      /\ \A i \in 1..Len(s) : Append(s, e)[i] = s[i]
  OBVIOUS
<1> DEFINE more == Append(s, e)
<1> HIDE DEF more
<1>2. ASSUME NEW i \in 1..Len(more), NEW j \in 1..Len(more), more[i] = more[j] PROVE i = j
  <2>1. /\ (i = Len(s) + 1 \/ i \in 1..Len(s)) /\ (j = Len(s) + 1 \/ j \in 1..Len(s))
        /\ more[Len(s) + 1] = e /\ \A k \in 1..Len(s) : more[k] = s[k] /\ s[k] # e
    BY <1>1 DEF more
  <2> QED BY <1>2, <2>1 DEF Once
<1> QED BY <1>1, <1>2 DEF Once, more

(* A pass of the same shape, in which nobody can send more, and who is     *)
(* registered otherwise counts as replaced, keeps what is known of it.     *)
LEMMA PassFrame ==
  ASSUME WavesInv, DOMAIN stepping' = DOMAIN stepping,
         \A field \in {"items", "staged", "wave", "now", "generated", "source", "seen"} :
           stepping'[field] = stepping[field],
         DOMAIN stepping.left \subseteq DOMAIN stepping'.left,
         \A i \in 1..Len(stepping.items) : Sent(stepping.items[i])' \subseteq Sent(stepping.items[i]),
         \A i \in 1..Len(stepping.items) :
           stepping.items[i] \notin DOMAIN stepping'.left => Read(stepping.items[i])' = Read(stepping.items[i])
  PROVE  PassTyped' /\ PassStaged' /\ AsStaged' /\ MergedHasValue' /\ ReadInTurn' /\ EarlierIsSeen'
<1>0. PassTyped /\ PassStaged /\ AsStaged /\ MergedHasValue /\ ReadInTurn /\ EarlierIsSeen
  BY DEF WavesInv
<1>1. /\ stepping'.items = stepping.items /\ stepping'.wave = stepping.wave /\ stepping'.now = stepping.now
      /\ stepping'.generated = stepping.generated /\ stepping'.source = stepping.source
      /\ stepping'.seen = stepping.seen /\ stepping'.staged = stepping.staged
  OBVIOUS
<1>2. PassTyped'
  BY <1>0, <1>1 DEF PassTyped, Once
<1>3. PassStaged'
  <2>1. ASSUME NEW i \in 1..Len(stepping.items), NEW j \in 1..Len(stepping.items), i < j,
               stepping.staged[stepping.items[j]] \cap Sent(stepping.items[i])' # {}
        PROVE  stepping.wave[i] < stepping.wave[j]
    <3>1. Sent(stepping.items[i])' \subseteq Sent(stepping.items[i])
      OBVIOUS
    <3>2. stepping.staged[stepping.items[j]] \cap Sent(stepping.items[i]) # {}
      BY <2>1, <3>1, Zenon
    <3> QED BY <1>0, <2>1, <3>2 DEF PassStaged
  <2> QED BY <1>1, <2>1 DEF PassStaged
<1>4. AsStaged'
  BY <1>0, <1>1 DEF AsStaged
<1>5. MergedHasValue'
  BY <1>0, <1>1 DEF MergedHasValue
<1>6. ReadInTurn'
  BY <1>0, <1>1 DEF ReadInTurn
<1>7. EarlierIsSeen'
  BY <1>0, <1>1 DEF EarlierIsSeen
<1> QED BY <1>2, <1>3, <1>4, <1>5, <1>6, <1>7

(* An object that is replaced can send no more than it was wired to.       *)
LEMMA RegistryKeepsPass ==
  ASSUME WavesInv, NEW p \in Modelled, stepping' = Leave(p), NEW w, wires' = [wires EXCEPT ![p] = w]
  PROVE  PassTyped' /\ PassStaged' /\ AsStaged' /\ MergedHasValue' /\ ReadInTurn' /\ EarlierIsSeen'
<1>0. PassTyped /\ ObjectsWired
  BY DEF WavesInv
<1> DEFINE replaced == p \in ToSet(stepping.items) /\ p \notin DOMAIN stepping.left
           last == Updated(stepping.left, [x \in {p} |-> model[p].outputs])
<1>1. stepping' = IF replaced THEN [stepping EXCEPT !.left = last] ELSE stepping
  BY DEF Leave
<1>2. /\ DOMAIN last = DOMAIN stepping.left \cup {p}
      /\ last[p] = model[p].outputs
      /\ \A q \in DOMAIN stepping.left : q # p => last[q] = stepping.left[q]
  BY DEF Updated
<1> HIDE DEF last
<1>3. /\ DOMAIN stepping' = DOMAIN stepping /\ stepping'.results = stepping.results
      /\ stepping'.left = IF replaced THEN last ELSE stepping.left
      /\ \A field \in {"items", "staged", "wave", "now", "generated", "source", "seen"} :
           stepping'[field] = stepping[field]
  BY <1>0, <1>1 DEF PassTyped
<1>4. DOMAIN stepping.left \subseteq DOMAIN stepping'.left
  BY <1>2, <1>3
<1>5. \A q : q # p => Read(q)' = Read(q) /\ Written(q)' = Written(q)
  BY DEF Read, Written
<1>6. \A i \in 1..Len(stepping.items) : stepping.items[i] \in ToSet(stepping.items)
  BY <1>0 DEF PassTyped, ToSet
<1>7. p \in ToSet(stepping.items) => p \in DOMAIN stepping'.left
  BY <1>2, <1>3
<1> HIDE DEF replaced
<1>8. \A q : q # p => Could(q)' = Could(q)
  <2>1. ASSUME NEW q, q # p PROVE Could(q)' = Could(q)
    <3>1. q \in DOMAIN stepping'.left <=> q \in DOMAIN stepping.left
      BY <1>2, <1>3, <2>1
    <3>2. q \in DOMAIN stepping.left => stepping'.left[q] = stepping.left[q]
      BY <1>2, <1>3, <2>1
    <3> QED BY <1>5, <2>1, <3>1, <3>2 DEF Could
  <2> QED BY <2>1
<1>9. ASSUME NEW i \in 1..Len(stepping.items)
      PROVE  Could(stepping.items[i])' \subseteq Could(stepping.items[i])
  <2>1. CASE stepping.items[i] # p
    BY <1>3, <1>8, <2>1 DEF Could
  <2>2. CASE stepping.items[i] = p
    <3>1. Could(p)' = DOMAIN stepping'.left[p]
      BY <1>6, <1>7, <2>2 DEF Could
    <3>2. CASE replaced
      <4>1. stepping'.left[p] = model[p].outputs /\ p \notin DOMAIN stepping.left
        BY <1>2, <1>3, <3>2 DEF replaced
      <4> QED BY <1>0, <1>3, <2>2, <3>1, <4>1 DEF Could, ObjectsWired
    <3>3. CASE ~replaced
      <4>1. stepping'.left = stepping.left /\ p \in DOMAIN stepping.left
        BY <1>3, <1>6, <2>2, <3>3 DEF replaced
      <4> QED BY <1>3, <2>2, <3>1, <4>1 DEF Could
    <3> QED BY <3>2, <3>3
  <2> QED BY <2>1, <2>2
<1>10. \A i \in 1..Len(stepping.items) : Sent(stepping.items[i])' \subseteq Sent(stepping.items[i])
  BY <1>3, <1>9 DEF Sent
<1>11. \A i \in 1..Len(stepping.items) :
         stepping.items[i] \notin DOMAIN stepping'.left => Read(stepping.items[i])' = Read(stepping.items[i])
  BY <1>3, <1>5, <1>6, <1>7
<1> QED BY <1>3, <1>4, <1>10, <1>11, PassFrame

(* Registering and unregistering, with other points.                       *)
LEMMA RegistryKeepsWaves ==
  ASSUME WavesInv, NEW p \in Modelled, (\E w \in Wirings[p] : RegisterWired(p, w)) \/ UnregisterWired(p)
  PROVE  WavesInv'
<1>0. OrderSound /\ ObjectsWired
  BY DEF WavesInv
<1>1. /\ stepping' = Leave(p)
      /\ \E w : wires' = [wires EXCEPT ![p] = w]
      /\ order' = Append(RemoveFirst(order, p), p) \/ order' = RemoveFirst(order, p)
      /\ \E b : model' = [model EXCEPT ![p] = [inputs |-> None, outputs |-> None, running |-> b]]
  <2>1. ASSUME NEW w \in Wirings[p], RegisterWired(p, w)
        PROVE  /\ stepping' = Leave(p)
               /\ \E v : wires' = [wires EXCEPT ![p] = v]
               /\ order' = Append(RemoveFirst(order, p), p) \/ order' = RemoveFirst(order, p)
               /\ \E b : model' = [model EXCEPT ![p] = [inputs |-> None, outputs |-> None, running |-> b]]
    <3>1. PICK started \in BOOLEAN :
            /\ wires' = [wires EXCEPT ![p] = IF started THEN w ELSE NoWiring]
            /\ order' = IF started THEN Append(RemoveFirst(order, p), p) ELSE RemoveFirst(order, p)
            /\ model' = [model EXCEPT ![p] = [NoObject EXCEPT !.running = started]]
      BY <2>1 DEF RegisterWired
    <3>2. [NoObject EXCEPT !.running = started] = [inputs |-> None, outputs |-> None, running |-> started]
      BY DEF NoObject
    <3>3. stepping' = Leave(p)
      BY <2>1 DEF RegisterWired
    <3> QED BY <3>1, <3>2, <3>3
  <2>2. ASSUME UnregisterWired(p)
        PROVE  /\ stepping' = Leave(p)
               /\ \E v : wires' = [wires EXCEPT ![p] = v]
               /\ order' = Append(RemoveFirst(order, p), p) \/ order' = RemoveFirst(order, p)
               /\ \E b : model' = [model EXCEPT ![p] = [inputs |-> None, outputs |-> None, running |-> b]]
    BY <2>2 DEF UnregisterWired, NoObject
  <2> QED BY <2>1, <2>2
<1>2. PassTyped' /\ PassStaged' /\ AsStaged' /\ MergedHasValue' /\ ReadInTurn' /\ EarlierIsSeen'
  BY <1>1, RegistryKeepsPass
<1>3. OrderSound'
  <2>1. /\ RemoveFirst(order, p) \in Seq(Modelled) /\ Once(RemoveFirst(order, p))
        /\ \A i \in 1..Len(RemoveFirst(order, p)) : RemoveFirst(order, p)[i] # p
    BY <1>0, RemovedIsGone DEF OrderSound
  <2>2. Append(RemoveFirst(order, p), p) \in Seq(Modelled) /\ Once(Append(RemoveFirst(order, p), p))
    BY <2>1, AddedOnce
  <2>3. order' \in Seq(Modelled) /\ Once(order')
    BY <1>1, <2>1, <2>2
  <2> QED BY <2>3 DEF OrderSound, Once
<1>4. ObjectsWired'
  <2>1. ASSUME NEW q \in Modelled PROVE DOMAIN model'[q].outputs \subseteq Written(q)'
    <3>1. CASE q = p
      <4>1. model'[p].outputs = <<>>
        BY <1>0, <1>1 DEF ObjectsWired, None
      <4> QED BY <3>1, <4>1
    <3>2. CASE q # p
      <4>1. model'[q] = model[q] /\ Written(q)' = Written(q)
        BY <1>1, <3>2 DEF Written
      <4> QED BY <1>0, <4>1 DEF ObjectsWired
    <3> QED BY <3>1, <3>2
  <2>2. DOMAIN model' = Modelled
    BY <1>0, <1>1 DEF ObjectsWired
  <2> QED BY <2>1, <2>2 DEF ObjectsWired
<1> QED BY <1>2, <1>3, <1>4 DEF WavesInv

(* The start of a pass: nothing read, nothing merged.                      *)
LEMMA BeginKeepsWaves ==
  ASSUME WavesInv, BeginRound
  PROVE  WavesInv'
<1>0. OrderSound /\ ObjectsWired /\ PassTyped
  BY DEF WavesInv
<1>1. /\ stepping'.items = order /\ stepping'.wave = WaveOf(order) /\ stepping'.now = 0
      /\ stepping'.staged = [p \in ToSet(order) |-> Read(p)]
      /\ stepping'.source = <<>> /\ stepping'.seen = <<>> /\ stepping'.left = <<>> /\ stepping'.results = <<>>
      /\ DOMAIN stepping' = {"phase", "tick", "items", "staged", "wave", "now", "generated", "source", "seen",
                             "results", "left"}
      /\ UNCHANGED <<wires, order, model>>
  BY DEF BeginRound, NoPass, None
<1>2. /\ \A i \in 1..Len(order) : WaveOf(order)[i] \in Nat
      /\ \A i, j \in 1..Len(order) :
           i < j /\ Read(order[j]) \cap Written(order[i]) # {} => WaveOf(order)[i] < WaveOf(order)[j]
  BY <1>0, WaveOfStages DEF OrderSound
<1>3. \A q : Read(q)' = Read(q) /\ Written(q)' = Written(q)
  BY <1>1 DEF Read, Written
<1>4. OrderSound' /\ ObjectsWired'
  BY <1>0, <1>1, <1>3 DEF OrderSound, ObjectsWired, Once
<1>5. PassTyped'
  BY <1>0, <1>1, <1>2 DEF PassTyped, OrderSound, Once
<1>6. /\ DOMAIN stepping'.source = {} /\ DOMAIN stepping'.seen = {} /\ DOMAIN stepping'.left = {}
      /\ DOMAIN stepping'.results = {}
  BY <1>1
<1>7. \A i \in 1..Len(order) : stepping'.staged[order[i]] = Read(order[i])
  <2>1. \A i \in 1..Len(order) : order[i] \in ToSet(order)
    BY <1>0 DEF OrderSound, ToSet
  <2> QED BY <1>1, <2>1
<1>8. \A q : Sent(q)' = Written(q)
  BY <1>3, <1>6 DEF Sent, Could
<1>9. PassStaged'
  BY <1>1, <1>2, <1>7, <1>8 DEF PassStaged
<1>10. AsStaged'
  BY <1>1, <1>3, <1>7 DEF AsStaged
<1>11. MergedHasValue' /\ ReadInTurn' /\ EarlierIsSeen'
  BY <1>6 DEF MergedHasValue, ReadInTurn, EarlierIsSeen
<1> QED BY <1>4, <1>5, <1>9, <1>10, <1>11 DEF WavesInv

(* Its end.                                                                *)
LEMMA EndKeepsWaves ==
  ASSUME WavesInv, EndRound
  PROVE  WavesInv'
<1>0. OrderSound /\ ObjectsWired /\ PassTyped
  BY DEF WavesInv
<1>1. /\ stepping'.items = <<>> /\ stepping'.now = 0
      /\ stepping'.source = <<>> /\ stepping'.seen = <<>>
      /\ DOMAIN stepping' = {"phase", "tick", "items", "staged", "wave", "now", "generated", "source", "seen",
                             "results", "left"}
      /\ UNCHANGED <<wires, order, model>>
  BY DEF EndRound, NoPass, None
<1>2. OrderSound' /\ ObjectsWired'
  BY <1>0, <1>1 DEF OrderSound, ObjectsWired, Once, Written
<1>3. Len(stepping'.items) = 0 /\ stepping'.items \in Seq(Modelled) /\ 0 \in Nat
  BY <1>1
<1>4. PassTyped' /\ PassStaged' /\ AsStaged'
  BY <1>1, <1>3 DEF PassTyped, PassStaged, AsStaged, Once
<1>5. DOMAIN stepping'.source = {} /\ DOMAIN stepping'.seen = {}
  BY <1>1
<1>6. MergedHasValue' /\ ReadInTurn' /\ EarlierIsSeen'
  BY <1>5 DEF MergedHasValue, ReadInTurn, EarlierIsSeen
<1> QED BY <1>2, <1>4, <1>6 DEF WavesInv

(* A wave reads what there is of this tick before anything else.           *)
LEMMA ReadKeepsWaves ==
  ASSUME WavesInv, ReadWave
  PROVE  WavesInv'
<1>0. /\ OrderSound /\ ObjectsWired /\ PassTyped /\ PassStaged /\ AsStaged /\ MergedHasValue /\ ReadInTurn
      /\ EarlierIsSeen
  BY DEF WavesInv
<1> DEFINE read == [p \in InWave |-> InputValues(p)]
           values == Updated(lasting, stepping.generated)
<1>1. /\ stepping' = [stepping EXCEPT !.phase = "step", !.seen = Updated(stepping.seen, read)]
      /\ UNCHANGED <<wires, order, model>>
  BY DEF ReadWave
<1> HIDE DEF read
<1>2. /\ stepping'.items = stepping.items /\ stepping'.wave = stepping.wave /\ stepping'.now = stepping.now
      /\ stepping'.generated = stepping.generated /\ stepping'.source = stepping.source
      /\ stepping'.staged = stepping.staged /\ stepping'.left = stepping.left
      /\ stepping'.results = stepping.results
      /\ stepping'.seen = Updated(stepping.seen, read) /\ DOMAIN stepping' = DOMAIN stepping
  BY <1>0, <1>1 DEF PassTyped
<1>3. \A q : Read(q)' = Read(q) /\ Written(q)' = Written(q)
  BY <1>1 DEF Read, Written
<1>4. OrderSound' /\ ObjectsWired'
  BY <1>0, <1>1, <1>3 DEF OrderSound, ObjectsWired, Once
<1>5. PassTyped' /\ PassStaged' /\ AsStaged' /\ MergedHasValue'
  <2>1. PassTyped'
    BY <1>0, <1>2 DEF PassTyped, Once
  <2>2. \A q : Sent(q)' = Sent(q)
    BY <1>2, <1>3 DEF Sent, Could
  <2>3. PassStaged'
    BY <1>0, <1>2, <2>2 DEF PassStaged
  <2>4. AsStaged'
    BY <1>0, <1>2, <1>3 DEF AsStaged
  <2>5. MergedHasValue'
    BY <1>0, <1>2 DEF MergedHasValue
  <2> QED BY <2>1, <2>3, <2>4, <2>5
<1>6. /\ DOMAIN stepping'.seen = DOMAIN stepping.seen \cup InWave
      /\ \A q \in DOMAIN stepping'.seen :
           stepping'.seen[q] = IF q \in InWave THEN InputValues(q) ELSE stepping.seen[q]
  BY <1>2 DEF Updated, read
<1>7. \A q \in Modelled : DOMAIN InputValues(q) \subseteq Read(q)
  BY DEF InputValues, Only
<1>8. ASSUME NEW q \in Modelled, NEW x \in DOMAIN InputValues(q), x \in DOMAIN stepping.generated
      PROVE  InputValues(q)[x] = stepping.generated[x]
  <2>1. InputValues(q)[x] = values[x] /\ x \in DOMAIN values
    <3>1. InputValues(q) = Only(values, Read(q))
      BY DEF InputValues
    <3> HIDE DEF values
    <3> QED BY <1>8, <3>1 DEF Only
  <2>2. values[x] = stepping.generated[x]
    BY <1>8, <2>1 DEF Updated
  <2> QED BY <2>1, <2>2
<1>9. ASSUME NEW j \in 1..Len(stepping.items), stepping.items[j] \in InWave
      PROVE  stepping.wave[j] = stepping.now
  <2>1. PICK n \in 1..Len(stepping.items) :
          stepping.wave[n] = stepping.now /\ stepping.items[n] = stepping.items[j]
    BY <1>0, <1>9 DEF InWave, PassTyped
  <2> QED BY <1>0, <2>1 DEF PassTyped, Once
<1>10. \A j \in 1..Len(stepping.items) : stepping.items[j] \in Modelled
  BY <1>0 DEF PassTyped
<1>11. ReadInTurn'
  <2>1. ASSUME NEW j \in 1..Len(stepping.items), stepping.items[j] \in DOMAIN stepping'.seen
        PROVE  /\ stepping.wave[j] <= stepping.now
               /\ stepping.items[j] \notin DOMAIN stepping.left =>
                    DOMAIN stepping'.seen[stepping.items[j]] \subseteq stepping.staged[stepping.items[j]]
    <3>1. CASE stepping.items[j] \in InWave
      <4>1. stepping.wave[j] = stepping.now /\ stepping.now \in Nat
        BY <1>0, <1>9, <3>1 DEF PassTyped
      <4>2. DOMAIN stepping'.seen[stepping.items[j]] \subseteq Read(stepping.items[j])
        BY <1>6, <1>7, <1>10, <2>1, <3>1
      <4> QED BY <1>0, <4>1, <4>2 DEF AsStaged
    <3>2. CASE stepping.items[j] \notin InWave
      BY <1>0, <1>6, <2>1, <3>2 DEF ReadInTurn
    <3> QED BY <3>1, <3>2
  <2> QED BY <1>2, <2>1 DEF ReadInTurn
<1>12. EarlierIsSeen'
  <2>1. DOMAIN stepping.items = 1..Len(stepping.items)
    BY <1>0 DEF PassTyped
  <2>2. ASSUME NEW i \in 1..Len(stepping.items), NEW j \in 1..Len(stepping.items), i < j,
               stepping.items[j] \in DOMAIN stepping'.seen,
               NEW x \in DOMAIN stepping'.seen[stepping.items[j]] \cap DOMAIN stepping.source,
               stepping.source[x] = stepping.items[i],
               stepping.items[j] \in DOMAIN stepping.left => x \in stepping.staged[stepping.items[j]]
        PROVE  stepping'.seen[stepping.items[j]][x] = stepping.generated[x]
    <3>1. CASE stepping.items[j] \in InWave
      <4>1. stepping'.seen[stepping.items[j]] = InputValues(stepping.items[j])
        BY <1>6, <2>2, <3>1
      <4>2. x \in DOMAIN stepping.generated
        BY <1>0 DEF MergedHasValue
      <4> QED BY <1>8, <1>10, <2>2, <4>1, <4>2
    <3>2. CASE stepping.items[j] \notin InWave
      <4>1. stepping'.seen[stepping.items[j]] = stepping.seen[stepping.items[j]]
            /\ stepping.items[j] \in DOMAIN stepping.seen
        BY <1>6, <2>2, <3>2
      <4> QED BY <1>0, <2>1, <2>2, <4>1 DEF EarlierIsSeen
    <3> QED BY <3>1, <3>2
  <2> QED BY <1>2, <2>1, <2>2 DEF EarlierIsSeen
<1> QED BY <1>4, <1>5, <1>11, <1>12 DEF WavesInv

(* What an object answers are points it could be asked for.                *)
LEMMA StepKeepsWaves ==
  ASSUME WavesInv, NEW p \in Modelled, StepOne(p)
  PROVE  WavesInv'
<1>0. OrderSound /\ ObjectsWired /\ PassTyped
  BY DEF WavesInv
<1> DEFINE gone == p \in DOMAIN stepping.left
           inputs == Updated(model[p].inputs, stepping.seen[p])
           fresh == [x \in wires[p].outs |-> stepping.tick]
           computed == Updated(model[p].outputs, Updated(fresh, Exposed(p, inputs)))
           outputs(answer) == CASE answer = "values" -> computed
                                [] answer \in {"warmup", "lost"} -> None
                                [] OTHER -> IF gone THEN stepping.left[p] ELSE model[p].outputs
           object(answer) == [inputs |-> inputs, outputs |-> outputs(answer),
                              running |-> model[p].running /\ Built(p, inputs) /\ answer # "lost"]
<1>1. PICK answer \in {"none", "values", "error", "warmup", "lost"} :
        /\ stepping' = [stepping EXCEPT !.results = Updated(stepping.results, [q \in {p} |-> outputs(answer)])]
        /\ model' = IF gone THEN model ELSE [model EXCEPT ![p] = object(answer)]
        /\ gone => answer = "none"
  BY DEF StepOne
<1>2. UNCHANGED <<wires, order>>
  BY DEF StepOne
<1>3. \A q : Read(q)' = Read(q) /\ Written(q)' = Written(q)
  BY <1>2 DEF Read, Written
<1>4. DOMAIN computed \subseteq Written(p)
  <2>1. DOMAIN computed = DOMAIN model[p].outputs \cup DOMAIN Updated(fresh, Exposed(p, inputs))
    BY DEF Updated
  <2>2. DOMAIN Updated(fresh, Exposed(p, inputs)) = wires[p].outs \cup DOMAIN Exposed(p, inputs)
    BY DEF Updated
  <2>3. DOMAIN Exposed(p, inputs) \subseteq {s[2] : s \in wires[p].shown}
    BY DEF Exposed
  <2>4. wires[p].outs \subseteq Written(p) /\ {s[2] : s \in wires[p].shown} \subseteq Written(p)
    BY DEF Written, Declared
  <2> HIDE DEF computed
  <2> QED BY <1>0, <2>1, <2>2, <2>3, <2>4 DEF ObjectsWired
<1> HIDE DEF computed
<1>5. DOMAIN outputs(answer) \subseteq Could(p)
  <2>1. CASE gone
    <3>1. outputs(answer) = stepping.left[p]
      BY <1>1, <2>1
    <3> QED BY <2>1, <3>1 DEF Could
  <2>2. CASE ~gone
    <3>1. outputs(answer) = computed \/ outputs(answer) = <<>> \/ outputs(answer) = model[p].outputs
      BY <1>1, <2>2 DEF None
    <3>2. DOMAIN outputs(answer) \subseteq Written(p)
      <4> HIDE DEF outputs
      <4> QED BY <1>0, <1>4, <3>1 DEF ObjectsWired
    <3> QED BY <2>2, <3>2 DEF Could
  <2> QED BY <2>1, <2>2
<1>6. /\ DOMAIN stepping' = DOMAIN stepping /\ stepping'.left = stepping.left
      /\ stepping'.results = Updated(stepping.results, [q \in {p} |-> outputs(answer)])
      /\ \A field \in {"items", "staged", "wave", "now", "generated", "source", "seen"} :
           stepping'[field] = stepping[field]
  <2> HIDE DEF outputs
  <2> QED BY <1>0, <1>1 DEF PassTyped
<1>7. ObjectsWired'
  <2>1. CASE gone
    BY <1>0, <1>1, <1>3, <2>1 DEF ObjectsWired
  <2>2. CASE ~gone
    <3>1. model' = [model EXCEPT ![p] = object(answer)] /\ object(answer).outputs = outputs(answer)
      BY <1>1, <2>2
    <3>2. DOMAIN outputs(answer) \subseteq Written(p)
      BY <1>5, <2>2 DEF Could
    <3> HIDE DEF object, outputs
    <3>3. \A q \in Modelled : DOMAIN model'[q].outputs \subseteq Written(q)
      BY <1>0, <3>1, <3>2 DEF ObjectsWired
    <3>4. DOMAIN model' = Modelled
      BY <1>0, <3>1 DEF ObjectsWired
    <3> QED BY <1>3, <3>3, <3>4 DEF ObjectsWired
  <2> QED BY <2>1, <2>2
<1> HIDE DEF gone, outputs
<1>8. /\ DOMAIN stepping'.results = DOMAIN stepping.results \cup {p}
      /\ stepping'.results[p] = outputs(answer)
      /\ \A q \in DOMAIN stepping.results : q # p => stepping'.results[q] = stepping.results[q]
  BY <1>6 DEF Updated
<1>9. \A q : Could(q)' = Could(q)
  BY <1>3, <1>6 DEF Could
<1>10. \A q : Sent(q)' \subseteq Sent(q)
  <2>1. ASSUME NEW q, NEW x \in Sent(q)' PROVE x \in Sent(q)
    <3>1. CASE x \in Could(q)
      BY <3>1 DEF Sent
    <3>2. CASE x \notin Could(q)
      <4>1. q \in DOMAIN stepping'.results /\ x \in DOMAIN stepping'.results[q]
        BY <1>9, <2>1, <3>2 DEF Sent
      <4>2. q # p
        BY <1>5, <1>8, <3>2, <4>1
      <4>3. q \in DOMAIN stepping.results /\ x \in DOMAIN stepping.results[q]
        BY <1>8, <4>1, <4>2
      <4> QED BY <4>3 DEF Sent
    <3> QED BY <3>1, <3>2
  <2> QED BY <2>1
<1>11. \A i \in 1..Len(stepping.items) : Sent(stepping.items[i])' \subseteq Sent(stepping.items[i])
  BY <1>6, <1>10 DEF Sent, Could
<1>12. \A i \in 1..Len(stepping.items) :
         stepping.items[i] \notin DOMAIN stepping'.left => Read(stepping.items[i])' = Read(stepping.items[i])
  BY <1>2, <1>6 DEF Read
<1>13. PassTyped' /\ PassStaged' /\ AsStaged' /\ MergedHasValue' /\ ReadInTurn' /\ EarlierIsSeen'
  BY <1>6, <1>11, <1>12, PassFrame
<1>14. OrderSound'
  BY <1>0, <1>2 DEF OrderSound, Once
<1> QED BY <1>7, <1>13, <1>14 DEF WavesInv

(* What a wave merges was sent by one of its providers, and nobody who has *)
(* read before was staged with it.                                         *)
LEMMA MergeKeepsWaves ==
  ASSUME WavesInv, MergeWave
  PROVE  WavesInv'
<1>0. /\ OrderSound /\ ObjectsWired /\ PassTyped /\ PassStaged /\ AsStaged /\ MergedHasValue /\ ReadInTurn
      /\ EarlierIsSeen
  BY DEF WavesInv
<1> DEFINE kept(p) == Only(stepping.results[p], {x \in Written(p) : holder[x] = p})
           merged == [x \in UNION {DOMAIN kept(p) : p \in InWave} |->
                        CHOOSE p \in InWave : x \in DOMAIN kept(p)]
           fresh == [x \in DOMAIN merged |-> kept(merged[x])[x]]
<1>1. /\ stepping' = [stepping EXCEPT !.phase = "read", !.now = stepping.now + 1,
                        !.generated = Updated(stepping.generated, fresh),
                        !.source = Updated(stepping.source, merged)]
      /\ InWave \subseteq DOMAIN stepping.results
      /\ UNCHANGED <<wires, order, model>>
  BY DEF MergeWave
<1>2. \A x \in DOMAIN merged : merged[x] \in InWave /\ x \in DOMAIN kept(merged[x])
  <2>1. ASSUME NEW x \in DOMAIN merged PROVE merged[x] \in InWave /\ x \in DOMAIN kept(merged[x])
    <3>1. \E p \in InWave : x \in DOMAIN kept(p)
      OBVIOUS
    <3>2. merged[x] = CHOOSE p \in InWave : x \in DOMAIN kept(p)
      OBVIOUS
    <3> HIDE DEF kept, merged
    <3> QED BY <3>1, <3>2
  <2> QED BY <2>1
<1>3. \A p, x : x \in DOMAIN kept(p) => x \in DOMAIN stepping.results[p]
  BY DEF Only
<1>4. DOMAIN fresh = DOMAIN merged
  OBVIOUS
<1> HIDE DEF kept, merged, fresh
<1>5. /\ stepping'.items = stepping.items /\ stepping'.wave = stepping.wave /\ stepping'.now = stepping.now + 1
      /\ stepping'.generated = Updated(stepping.generated, fresh)
      /\ stepping'.source = Updated(stepping.source, merged)
      /\ stepping'.staged = stepping.staged /\ stepping'.left = stepping.left
      /\ stepping'.results = stepping.results
      /\ stepping'.seen = stepping.seen /\ DOMAIN stepping' = DOMAIN stepping
  BY <1>0, <1>1 DEF PassTyped
<1>6. \A q : Read(q)' = Read(q) /\ Written(q)' = Written(q)
  BY <1>1 DEF Read, Written
<1>7. OrderSound' /\ ObjectsWired'
  BY <1>0, <1>1, <1>6 DEF OrderSound, ObjectsWired, Once
<1>8. stepping.now \in Nat /\ \A i \in 1..Len(stepping.items) : stepping.wave[i] \in Nat
  BY <1>0 DEF PassTyped
<1>9. PassTyped' /\ PassStaged' /\ AsStaged' /\ ReadInTurn'
  <2>1. PassTyped'
    BY <1>0, <1>5, <1>8 DEF PassTyped, Once
  <2>2. \A q : Sent(q)' = Sent(q)
    BY <1>5, <1>6 DEF Sent, Could
  <2>3. PassStaged'
    BY <1>0, <1>5, <2>2 DEF PassStaged
  <2>4. AsStaged'
    BY <1>0, <1>5, <1>6 DEF AsStaged
  <2>5. \A n \in Nat : n <= stepping.now => n <= stepping.now + 1
    BY <1>8
  <2>6. ReadInTurn'
    BY <1>0, <1>5, <1>8, <2>5 DEF ReadInTurn
  <2> QED BY <2>1, <2>3, <2>4, <2>6
<1>10. ASSUME NEW x \in DOMAIN merged
       PROVE  \E n \in 1..Len(stepping.items) :
                /\ merged[x] = stepping.items[n] /\ stepping.wave[n] = stepping.now
                /\ x \in Sent(stepping.items[n])
  <2>1. PICK n \in 1..Len(stepping.items) : stepping.wave[n] = stepping.now /\ stepping.items[n] = merged[x]
    BY <1>0, <1>2 DEF InWave, PassTyped
  <2>2. merged[x] \in DOMAIN stepping.results /\ x \in DOMAIN stepping.results[merged[x]]
    BY <1>1, <1>2, <1>3
  <2> QED BY <2>1, <2>2 DEF Sent
<1>11. /\ DOMAIN stepping'.source = DOMAIN stepping.source \cup DOMAIN merged
       /\ DOMAIN stepping'.generated = DOMAIN stepping.generated \cup DOMAIN merged
       /\ \A x \in DOMAIN stepping'.source :
            stepping'.source[x] = IF x \in DOMAIN merged THEN merged[x] ELSE stepping.source[x]
       /\ \A x \in DOMAIN stepping.generated :
            x \notin DOMAIN merged => stepping'.generated[x] = stepping.generated[x]
  BY <1>4, <1>5 DEF Updated
<1>12. MergedHasValue'
  BY <1>0, <1>11 DEF MergedHasValue
<1>13. EarlierIsSeen'
  <2>1. DOMAIN stepping.items = 1..Len(stepping.items)
    BY <1>0 DEF PassTyped
  <2>2. ASSUME NEW i \in 1..Len(stepping.items), NEW j \in 1..Len(stepping.items), i < j,
               stepping.items[j] \in DOMAIN stepping.seen,
               NEW x \in DOMAIN stepping.seen[stepping.items[j]] \cap DOMAIN stepping'.source,
               stepping'.source[x] = stepping.items[i],
               stepping.items[j] \in DOMAIN stepping.left => x \in stepping.staged[stepping.items[j]]
        PROVE  stepping.seen[stepping.items[j]][x] = stepping'.generated[x]
    <3>1. CASE x \in DOMAIN merged
      <4>1. PICK n \in 1..Len(stepping.items) :
              /\ merged[x] = stepping.items[n] /\ stepping.wave[n] = stepping.now
              /\ x \in Sent(stepping.items[n])
        BY <1>10, <3>1
      <4>2. n = i
        BY <1>0, <1>11, <2>2, <3>1, <4>1 DEF PassTyped, Once
      <4>3. stepping.wave[j] <= stepping.now
        BY <1>0, <2>2 DEF ReadInTurn
      <4>4. x \in stepping.staged[stepping.items[j]]
        BY <1>0, <2>2 DEF ReadInTurn
      <4>5. stepping.staged[stepping.items[j]] \cap Sent(stepping.items[i]) # {}
        BY <4>1, <4>2, <4>4
      <4>6. stepping.now < stepping.wave[j]
        BY <1>0, <2>2, <4>1, <4>2, <4>5 DEF PassStaged
      <4> QED BY <1>8, <4>3, <4>6
    <3>2. CASE x \notin DOMAIN merged
      <4>1. x \in DOMAIN stepping.source /\ stepping.source[x] = stepping.items[i]
        BY <1>11, <2>2, <3>2
      <4>2. x \in DOMAIN stepping.generated
        BY <1>0, <4>1 DEF MergedHasValue
      <4>3. stepping'.generated[x] = stepping.generated[x]
        BY <1>11, <3>2, <4>2
      <4> QED BY <1>0, <2>1, <2>2, <4>1, <4>3 DEF EarlierIsSeen
    <3> QED BY <3>1, <3>2
  <2> QED BY <1>5, <2>1, <2>2 DEF EarlierIsSeen
<1> QED BY <1>7, <1>9, <1>12, <1>13 DEF WavesInv

(* EarlierIsSeen: whatever was registered, with whatever points,           *)
(* unregistered or lost while the waves ran, who read an earlier           *)
(* provider's point read what the tick has of it; of who was replaced      *)
(* before it read, this is so for the points it was staged with.           *)
THEOREM WavesReadThisTick == WavesSpec => []EarlierIsSeen
<1>1. WavesInit => WavesInv
  <2> SUFFICES ASSUME WavesInit PROVE WavesInv
    OBVIOUS
  <2>1. /\ stepping.items = <<>> /\ stepping.now = 0 /\ stepping.source = <<>> /\ stepping.seen = <<>>
        /\ DOMAIN stepping = {"phase", "tick", "items", "staged", "wave", "now", "generated", "source", "seen",
                              "results", "left"}
        /\ order = <<>>
    BY DEF WavesInit, NoPass, None
  <2>2. /\ Len(stepping.items) = 0 /\ stepping.items \in Seq(Modelled) /\ 0 \in Nat
        /\ Len(order) = 0 /\ order \in Seq(Modelled)
    BY <2>1
  <2>3. OrderSound /\ PassTyped /\ PassStaged /\ AsStaged
    BY <2>1, <2>2 DEF OrderSound, PassTyped, PassStaged, AsStaged, Once
  <2>4. ObjectsWired
    <3>1. DOMAIN model = Modelled /\ \A p \in Modelled : model[p].outputs = <<>>
      BY DEF WavesInit, NoObject, None
    <3> QED BY <3>1 DEF ObjectsWired
  <2>5. DOMAIN stepping.source = {} /\ DOMAIN stepping.seen = {}
    BY <2>1
  <2>6. MergedHasValue /\ ReadInTurn /\ EarlierIsSeen
    BY <2>5 DEF MergedHasValue, ReadInTurn, EarlierIsSeen
  <2> QED BY <2>3, <2>4, <2>6 DEF WavesInv
<1>2. WavesInv /\ [WavesNext]_wavesVars => WavesInv'
  <2> SUFFICES ASSUME WavesInv, [WavesNext]_wavesVars PROVE WavesInv'
    OBVIOUS
  <2>1. ASSUME NEW p \in Modelled, (\E w \in Wirings[p] : RegisterWired(p, w)) \/ UnregisterWired(p)
        PROVE  WavesInv'
    BY <2>1, RegistryKeepsWaves
  <2>2. ASSUME NEW p \in Modelled, StepOne(p) PROVE WavesInv'
    BY <2>2, StepKeepsWaves
  <2>3. CASE BeginRound
    BY <2>3, BeginKeepsWaves
  <2>4. CASE ReadWave
    BY <2>4, ReadKeepsWaves
  <2>5. CASE MergeWave
    BY <2>5, MergeKeepsWaves
  <2>6. CASE EndRound
    BY <2>6, EndKeepsWaves
  <2>7. CASE UNCHANGED wavesVars
    <3>1. /\ stepping' = stepping /\ UNCHANGED <<wires, order, model>>
          /\ \A q : Read(q)' = Read(q) /\ Written(q)' = Written(q)
      BY <2>7 DEF wavesVars, Read, Written
    <3>2. \A i \in 1..Len(stepping.items) : Sent(stepping.items[i])' = Sent(stepping.items[i])
      BY <3>1 DEF Sent, Could, Written
    <3>3. \A i \in 1..Len(stepping.items) : Read(stepping.items[i])' = Read(stepping.items[i])
      BY <3>1 DEF Read
    <3>4. PassTyped' /\ PassStaged' /\ AsStaged' /\ MergedHasValue' /\ ReadInTurn' /\ EarlierIsSeen'
      BY <3>1, <3>2, <3>3, PassFrame
    <3>5. OrderSound' /\ ObjectsWired'
      BY <3>1 DEF WavesInv, OrderSound, ObjectsWired, Once
    <3> QED BY <3>4, <3>5 DEF WavesInv
  <2> QED BY <2>1, <2>2, <2>3, <2>4, <2>5, <2>6, <2>7 DEF WavesNext
<1>3. WavesInv => EarlierIsSeen
  BY DEF WavesInv
<1> QED BY <1>1, <1>2, <1>3, PTL DEF WavesSpec

---------------------------------------------------------------------------
(* Energy: what an accumulator holds and what is owed to it stay within    *)
(* the time that was asked for.  What is owed is a sum over the callers.   *)
(* Two sums over a set take it apart in the same order, so they can be     *)
(* compared element by element.                                            *)

\* sum is the fold of f over every part of C.
Sums(C, f, sum) ==
  \A s \in SUBSET C : sum[s] = IF s = {} THEN 0 ELSE f[Taken(s)] + sum[s \ {Taken(s)}]

(* A larger function has a larger sum, and sums are integers.              *)
LEMMA SumsCompare ==
  ASSUME NEW C, IsFiniteSet(C), NEW f \in [C -> Int], NEW g \in [C -> Int], NEW a, NEW b,
         Sums(C, f, a), Sums(C, g, b), \A c \in C : f[c] <= g[c]
  PROVE  \A s \in SUBSET C : a[s] \in Int /\ b[s] \in Int /\ a[s] <= b[s]
<1> DEFINE P == {s \in SUBSET C : a[s] \in Int /\ b[s] \in Int /\ a[s] <= b[s]}
<1>1. {} \in P
  <2>1. {} \in SUBSET C
    OBVIOUS
  <2>2. a[{}] = 0 /\ b[{}] = 0
    BY <2>1 DEF Sums
  <2> QED BY <2>1, <2>2
<1>2. ASSUME NEW s \in SUBSET C, s # {}, s \ {Taken(s)} \in P PROVE s \in P
  <2> DEFINE x == Taken(s)
             rest == s \ {x}
  <2>1. x \in C
    BY <1>2 DEF Taken
  <2>2. a[s] = f[x] + a[rest] /\ b[s] = g[x] + b[rest]
    BY <1>2 DEF Sums
  <2>3. a[rest] \in Int /\ b[rest] \in Int /\ a[rest] <= b[rest]
    BY <1>2
  <2> HIDE DEF x, rest
  <2>4. f[x] \in Int /\ g[x] \in Int /\ f[x] <= g[x]
    BY <2>1
  <2> QED BY <2>2, <2>3, <2>4
<1>3. P = SUBSET C
  <2>1. P \in SUBSET SUBSET C
    OBVIOUS
  <2> HIDE DEF P
  <2> QED BY <1>1, <1>2, <2>1, SubsetInduction
<1> QED BY <1>3

(* Changing one value changes the sum by as much.                          *)
LEMMA SumsChange ==
  ASSUME NEW C, IsFiniteSet(C), NEW f \in [C -> Int], NEW g \in [C -> Int], NEW a, NEW b,
         Sums(C, f, a), Sums(C, g, b), NEW c \in C, \A d \in C : d # c => g[d] = f[d]
  PROVE  a[C] \in Int /\ b[C] \in Int /\ b[C] = a[C] - f[c] + g[c]
<1> DEFINE P == {s \in SUBSET C : /\ a[s] \in Int /\ b[s] \in Int
                                  /\ b[s] = IF c \in s THEN a[s] - f[c] + g[c] ELSE a[s]}
<1>1. {} \in P
  <2>1. {} \in SUBSET C
    OBVIOUS
  <2>2. a[{}] = 0 /\ b[{}] = 0
    BY <2>1 DEF Sums
  <2> QED BY <2>1, <2>2
<1>2. ASSUME NEW s \in SUBSET C, s # {}, s \ {Taken(s)} \in P PROVE s \in P
  <2> DEFINE x == Taken(s)
             rest == s \ {x}
  <2>1. x \in C /\ x \in s
    BY <1>2 DEF Taken
  <2>2. a[s] = f[x] + a[rest] /\ b[s] = g[x] + b[rest]
    BY <1>2 DEF Sums
  <2>3. /\ a[rest] \in Int /\ b[rest] \in Int
        /\ b[rest] = IF c \in rest THEN a[rest] - f[c] + g[c] ELSE a[rest]
    BY <1>2
  <2>4. c \in rest <=> (c \in s /\ c # x)
    OBVIOUS
  <2> HIDE DEF x, rest
  <2>5. f[x] \in Int /\ g[x] \in Int /\ f[c] \in Int /\ g[c] \in Int
    BY <2>1
  <2>6. CASE c = x
    BY <2>1, <2>2, <2>3, <2>4, <2>5, <2>6
  <2>7. CASE c # x
    <3>1. g[x] = f[x]
      BY <2>1, <2>7
    <3> QED BY <2>2, <2>3, <2>4, <2>5, <2>7, <3>1
  <2> QED BY <2>6, <2>7
<1>3. P = SUBSET C
  <2>1. P \in SUBSET SUBSET C
    OBVIOUS
  <2> HIDE DEF P
  <2> QED BY <1>1, <1>2, <2>1, SubsetInduction
<1>4. C \in P
  BY <1>3
<1> QED BY <1>4

(* There is a sum over any finite set.                                     *)
LEMMA SumsExist ==
  ASSUME NEW C, IsFiniteSet(C), NEW f \in [C -> Int]
  PROVE  \E sum \in [SUBSET C -> Int] : Sums(C, f, sum)
<1> DEFINE add == [x \in C \X Int |-> f[x[1]] + x[2]]
<1>1. add \in [C \X Int -> Int] /\ 0 \in Int
  OBVIOUS
<1>2. PICK sum \in [SUBSET C -> Int] : FoldsBy(C, 0, add, sum)
  <2> HIDE DEF add
  <2>1. \A base \in Int : \E sum \in [SUBSET C -> Int] : FoldsBy(C, base, add, sum)
    BY <1>1, FoldsExist
  <2> QED BY <1>1, <2>1
<1>3. ASSUME NEW s \in SUBSET C, s # {}
      PROVE  add[<<Taken(s), sum[s \ {Taken(s)}]>>] = f[Taken(s)] + sum[s \ {Taken(s)}]
  <2>1. Taken(s) \in C
    BY <1>3 DEF Taken
  <2>2. sum[s \ {Taken(s)}] \in Int
    OBVIOUS
  <2> QED BY <2>1, <2>2
<1> HIDE DEF add
<1> QED BY <1>2, <1>3 DEF Sums, FoldsBy

\* The sum of f over the callers.
Total(f) == (CHOOSE sum : Sums(EnergyCallers, f, sum))[EnergyCallers]

(* What is known of it.                                                    *)
LEMMA TotalIsSum ==
  ASSUME NEW f \in [EnergyCallers -> Int]
  PROVE  /\ Total(f) \in Int
         /\ \A sum : Sums(EnergyCallers, f, sum) => sum[EnergyCallers] = Total(f)
<1> DEFINE chosen == CHOOSE sum : Sums(EnergyCallers, f, sum)
<1>0. IsFiniteSet(EnergyCallers)
  BY EnergyAssumption
<1>1. \E sum : Sums(EnergyCallers, f, sum)
  BY <1>0, SumsExist
<1>2. Sums(EnergyCallers, f, chosen)
  BY <1>1
<1>3. Total(f) = chosen[EnergyCallers]
  BY DEF Total
<1> HIDE DEF chosen
<1>4. \A c \in EnergyCallers : f[c] <= f[c]
  OBVIOUS
<1>5. ASSUME NEW sum, Sums(EnergyCallers, f, sum)
      PROVE  sum[EnergyCallers] \in Int /\ chosen[EnergyCallers] \in Int /\ sum[EnergyCallers] = chosen[EnergyCallers]
  <2>1. sum[EnergyCallers] \in Int /\ chosen[EnergyCallers] \in Int /\ sum[EnergyCallers] <= chosen[EnergyCallers]
    BY <1>0, <1>2, <1>4, <1>5, SumsCompare
  <2>2. chosen[EnergyCallers] <= sum[EnergyCallers]
    BY <1>0, <1>2, <1>4, <1>5, SumsCompare
  <2> QED BY <2>1, <2>2
<1> QED BY <1>2, <1>3, <1>5

(* A larger function has a larger total.                                   *)
LEMMA TotalMonotone ==
  ASSUME NEW f \in [EnergyCallers -> Int], NEW g \in [EnergyCallers -> Int], \A c \in EnergyCallers : f[c] <= g[c]
  PROVE  Total(f) \in Int /\ Total(g) \in Int /\ Total(f) <= Total(g)
<1>0. IsFiniteSet(EnergyCallers)
  BY EnergyAssumption
<1>1. PICK a : Sums(EnergyCallers, f, a)
  BY <1>0, SumsExist
<1>2. PICK b : Sums(EnergyCallers, g, b)
  BY <1>0, SumsExist
<1>3. a[EnergyCallers] <= b[EnergyCallers]
  BY <1>0, <1>1, <1>2, SumsCompare
<1>4. a[EnergyCallers] = Total(f) /\ b[EnergyCallers] = Total(g) /\ Total(f) \in Int /\ Total(g) \in Int
  BY <1>1, <1>2, TotalIsSum
<1> QED BY <1>3, <1>4

(* One caller's share changes the total by as much.                        *)
LEMMA TotalChange ==
  ASSUME NEW f \in [EnergyCallers -> Int], NEW g \in [EnergyCallers -> Int], NEW c \in EnergyCallers,
         \A d \in EnergyCallers : d # c => g[d] = f[d]
  PROVE  Total(f) \in Int /\ Total(g) \in Int /\ Total(g) = Total(f) - f[c] + g[c]
<1>0. IsFiniteSet(EnergyCallers)
  BY EnergyAssumption
<1>1. PICK a : Sums(EnergyCallers, f, a)
  BY <1>0, SumsExist
<1>2. PICK b : Sums(EnergyCallers, g, b)
  BY <1>0, SumsExist
<1>3. b[EnergyCallers] = a[EnergyCallers] - f[c] + g[c]
  BY <1>0, <1>1, <1>2, SumsChange
<1>4. a[EnergyCallers] = Total(f) /\ b[EnergyCallers] = Total(g) /\ Total(f) \in Int /\ Total(g) \in Int
  BY <1>1, <1>2, TotalIsSum
<1> QED BY <1>3, <1>4

\* The time each caller has in flight.
Flights == [c \in EnergyCallers |-> working[c].elapsed]

(* InFlight, a fold of the community modules, is such a total.             *)
LEMMA InFlightIsTotal ==
  ASSUME \A c \in EnergyCallers : working[c].elapsed \in Int
  PROVE  InFlight = Total(Flights) /\ Flights \in [EnergyCallers -> Int]
<1> DEFINE Folds(sum) == sum = [s \in SUBSET EnergyCallers |->
                                  IF s = {} THEN 0
                                  ELSE working[Taken(s)].elapsed + sum[s \ {Taken(s)}]]
           fold == CHOOSE sum : Folds(sum)
<1>1. InFlight = fold[EnergyCallers]
  BY DEF InFlight, MapThenSumSet, MapThenFoldSet, Taken
<1>2. Flights \in [EnergyCallers -> Int]
  BY DEF Flights
<1>3. \A s \in SUBSET EnergyCallers : s # {} => Flights[Taken(s)] = working[Taken(s)].elapsed
  <2>1. ASSUME NEW s \in SUBSET EnergyCallers, s # {} PROVE Taken(s) \in EnergyCallers
    BY <2>1 DEF Taken
  <2> QED BY <2>1 DEF Flights
<1>4. \E sum : Folds(sum)
  <2>1. PICK sum \in [SUBSET EnergyCallers -> Int] : Sums(EnergyCallers, Flights, sum)
    BY <1>2, SumsExist, EnergyAssumption
  <2>2. Folds(sum)
    BY <1>3, <2>1 DEF Sums
  <2> QED BY <2>2
<1>5. Folds(fold)
  BY <1>4
<1> HIDE DEF fold
<1>6. Sums(EnergyCallers, Flights, fold)
  BY <1>3, <1>5 DEF Sums
<1> QED BY <1>1, <1>2, <1>6, TotalIsSum

(* Quotients are integers, and not negative for what is not.               *)
LEMMA Quotients ==
  ASSUME NEW a \in Int, NEW d \in Nat \ {0}
  PROVE  a \div d \in Int /\ (0 <= a => 0 <= a \div d)
OBVIOUS

(* Products with a number that is not negative keep the order.             *)
LEMMA Products ==
  ASSUME NEW m \in Nat, NEW a \in Int, NEW b \in Int
  PROVE  /\ m * a \in Int /\ m * (a + b) = m * a + m * b /\ m * (a - b) = m * a - m * b
         /\ a <= b => m * a <= m * b
<1>1. m * a \in Int /\ m * b \in Int /\ m * (b - a) \in Int
  OBVIOUS
<1>2. m * (a + b) = m * a + m * b /\ m * (a - b) = m * a - m * b /\ m * (b - a) = m * b - m * a
  OBVIOUS
<1>3. ASSUME a <= b PROVE m * a <= m * b
  <2>1. b - a \in Nat
    BY <1>3
  <2>2. m * (b - a) \in Nat
    BY <2>1
  <2> QED BY <1>1, <1>2, <2>2
<1> QED BY <1>1, <1>2, <1>3

(* A boiler's input is an integer, and one without points is not negative. *)
LEMMA InputsAreIntegers ==
  ASSUME NEW rated \in RatedInputs, NEW reading \in PlantReadings
  PROVE  /\ FuelInput(rated, reading) \in Int
         /\ (reading.gas = NoReading /\ reading.flow = NoReading) => 0 <= FuelInput(rated, reading)
<1> DEFINE wanted == rated * RunningPercent
           heat == reading.flow * reading.delta * 100
<1>0. /\ reading.gas \in Int \cup {NoReading} /\ reading.flow \in Int \cup {NoReading}
      /\ reading.delta \in Int \cup {NoReading}
      /\ rated \in Nat /\ RunningPercent \in Nat /\ EfficiencyPercent \in Nat \ {0}
  BY EnergyAssumption
<1>1. wanted \in Nat
  BY <1>0
<1>2. (reading.flow # NoReading /\ reading.delta # NoReading) => heat \in Int
  <2>1. ASSUME NEW x \in Int, NEW y \in Int PROVE x * y * 100 \in Int
    OBVIOUS
  <2> QED BY <1>0, <2>1
<1>3. wanted \div 100 \in Int /\ 0 <= wanted \div 100
  <2> HIDE DEF wanted
  <2> QED BY <1>1, Quotients
<1>4. (reading.flow # NoReading /\ reading.delta # NoReading) => heat \div EfficiencyPercent \in Int
  <2> HIDE DEF heat
  <2> QED BY <1>0, <1>2, Quotients
<1>5. FuelInput(rated, reading) =
        IF reading.gas # NoReading /\ reading.gas >= 0 THEN reading.gas
        ELSE IF reading.flow # NoReading /\ reading.flow >= 0 /\ reading.delta # NoReading
             THEN heat \div EfficiencyPercent
             ELSE wanted \div 100
  BY DEF FuelInput
<1> HIDE DEF heat, wanted
<1> QED BY <1>0, <1>3, <1>4, <1>5

(* MostFuel bounds every boiler's input.                                   *)
LEMMA MostFuelBounds ==
  /\ MostFuel \in Nat
  /\ \A rated \in RatedInputs, reading \in PlantReadings :
       FuelInput(rated, reading) \in Int /\ FuelInput(rated, reading) <= MostFuel
<1> DEFINE all == {FuelInput(r, p) : r \in RatedInputs, p \in PlantReadings}
           C == RatedInputs \X PlantReadings
           f == [x \in C |-> FuelInput(x[1], x[2])]
<1>1. IsFiniteSet(C)
  BY EnergyAssumption, FS_Product
<1>2. PICK unmapped \in PlantReadings : unmapped.gas = NoReading /\ unmapped.flow = NoReading
  BY EnergyAssumption
<1>3. PICK anyRated \in RatedInputs : TRUE
  BY EnergyAssumption
<1>4. f \in [C -> Int] /\ C # {}
  <2>1. \A x \in C : FuelInput(x[1], x[2]) \in Int
    BY InputsAreIntegers
  <2>2. <<anyRated, unmapped>> \in C
    OBVIOUS
  <2> HIDE DEF C
  <2> QED BY <2>1, <2>2
<1>5. PICK x \in C : \A y \in C : f[y] <= f[x]
  <2> HIDE DEF C, f
  <2> QED BY <1>1, <1>4, LargestExists
<1>6. \A r \in RatedInputs, p \in PlantReadings : <<r, p>> \in C /\ f[<<r, p>>] = FuelInput(r, p)
  OBVIOUS
<1>7. f[x] \in all
  BY <1>5
<1>8. \A y \in all : y <= f[x]
  <2>1. ASSUME NEW r \in RatedInputs, NEW p \in PlantReadings PROVE FuelInput(r, p) <= f[x]
    <3> HIDE DEF C, f
    <3> QED BY <1>5, <1>6
  <2> HIDE DEF f
  <2> QED BY <2>1
<1>9. MostFuel \in all /\ \A y \in all : y <= MostFuel
  <2> HIDE DEF f
  <2>1. MostFuel = CHOOSE m \in all : \A y \in all : y <= m
    BY DEF MostFuel
  <2> HIDE DEF all
  <2> QED BY <1>7, <1>8, <2>1
<1>10. \A y \in all : y \in Int
  BY InputsAreIntegers
<1>11. 0 <= FuelInput(anyRated, unmapped) /\ FuelInput(anyRated, unmapped) \in all
  BY <1>2, InputsAreIntegers
<1>12. \A r \in RatedInputs, p \in PlantReadings : FuelInput(r, p) \in all
  OBVIOUS
<1> HIDE DEF all
<1>13. MostFuel \in Nat
  BY <1>9, <1>10, <1>11
<1> QED BY <1>9, <1>10, <1>12, <1>13

\* The time each caller has still to charge to the accumulator of a key: it
\* holds that accumulator, or has yet to come to the key's row.
Owed(k) == [c \in EnergyCallers |->
  IF working[c].model = models[k] \/ (\E row \in working[c].rows : row[1] = k)
  THEN working[c].elapsed ELSE 0]

Accumulator == [config : RatedInputs, total : Int]

Evaluation == [rows : SUBSET (EnergyKeys \X RatedInputs), elapsed : Nat,
               key : EnergyKeys \cup {NoEnergyConfig}, model : Nat, busy : BOOLEAN]

EnergyTyped ==
  /\ configs \in [EnergyKeys -> RatedInputs \cup {NoEnergyConfig}]
  /\ models \in [EnergyKeys -> Nat]
  /\ totals \in Seq(Accumulator)
  /\ working \in [EnergyCallers -> Evaluation]
  /\ allowed \in Int

\* Accumulators are not shared, and a caller that holds one has dealt with the row it is for.
ModelsApart ==
  /\ \A k \in EnergyKeys : models[k] <= Len(totals)
  /\ \A k1, k2 \in EnergyKeys : (models[k1] = models[k2] /\ models[k1] # 0) => k1 = k2

Evaluates ==
  \A c \in EnergyCallers :
    /\ ~working[c].busy => working[c] = Off
    /\ working[c].model <= Len(totals)
    /\ \A row1, row2 \in working[c].rows : row1[1] = row2[1] => row1 = row2
    /\ working[c].model # 0 =>
         /\ working[c].busy /\ working[c].key \in EnergyKeys
         /\ \A row \in working[c].rows : row[1] # working[c].key
         /\ \A k \in EnergyKeys : models[k] = working[c].model => k = working[c].key

FlightsAllowed == Total(Flights) <= allowed

Covered ==
  \A k \in EnergyKeys :
    models[k] # 0 => totals[models[k]].total + MostFuel * Total(Owed(k)) <= MostFuel * allowed

EnergyInv == EnergyTyped /\ ModelsApart /\ Evaluates /\ FlightsAllowed /\ Covered

(* What is owed is never more than what is in flight, nor less than zero.  *)
LEMMA OwedInFlight ==
  ASSUME EnergyTyped, NEW k \in EnergyKeys
  PROVE  /\ Flights \in [EnergyCallers -> Int] /\ Total(Flights) \in Int
         /\ Owed(k) \in [EnergyCallers -> Int] /\ Total(Owed(k)) \in Int
         /\ Total(Owed(k)) <= Total(Flights)
<1>1. \A c \in EnergyCallers : working[c].elapsed \in Nat
  BY DEF EnergyTyped, Evaluation
<1>2. Flights \in [EnergyCallers -> Int] /\ Owed(k) \in [EnergyCallers -> Int]
  BY <1>1 DEF Flights, Owed
<1>3. \A c \in EnergyCallers : Owed(k)[c] <= Flights[c]
  BY <1>1 DEF Flights, Owed
<1> QED BY <1>2, <1>3, TotalMonotone

(* A step of one caller changes what is owed by what that caller owes.     *)
LEMMA OwedByOthers ==
  ASSUME EnergyTyped, EnergyTyped', NEW c \in EnergyCallers, NEW k \in EnergyKeys,
         models'[k] = models[k], \A d \in EnergyCallers : d # c => working'[d] = working[d]
  PROVE  Total(Owed(k))' = Total(Owed(k)) - Owed(k)[c] + Owed(k)'[c]
<1> DEFINE old == Owed(k)
           new == Owed(k)'
<1>1. old \in [EnergyCallers -> Int]
  BY OwedInFlight
<1>2. new \in [EnergyCallers -> Int]
  <2>1. \A d \in EnergyCallers : working'[d].elapsed \in Nat
    BY DEF EnergyTyped, Evaluation
  <2> QED BY <2>1 DEF Owed
<1>3. \A d \in EnergyCallers : d # c => new[d] = old[d]
  BY DEF Owed
<1>4. Total(new) = Total(Owed(k))'
  OBVIOUS
<1>5. Total(new) = Total(old) - old[c] + new[c]
  <2> HIDE DEF old, new
  <2> QED BY <1>1, <1>2, <1>3, TotalChange
<1> QED BY <1>4, <1>5

(* The same of what is in flight.                                          *)
LEMMA FlightsOfOthers ==
  ASSUME EnergyTyped, EnergyTyped', NEW c \in EnergyCallers,
         \A d \in EnergyCallers : d # c => working'[d] = working[d]
  PROVE  Total(Flights)' = Total(Flights) - working[c].elapsed + working'[c].elapsed
<1> DEFINE old == Flights
           new == Flights'
<1>1. old \in [EnergyCallers -> Int] /\ new \in [EnergyCallers -> Int]
  BY DEF EnergyTyped, Evaluation, Flights
<1>2. \A d \in EnergyCallers : d # c => new[d] = old[d]
  BY DEF Flights
<1>3. old[c] = working[c].elapsed /\ new[c] = working'[c].elapsed
  BY DEF Flights
<1>4. Total(new) = Total(Flights)'
  OBVIOUS
<1>5. Total(new) = Total(old) - old[c] + new[c]
  <2> HIDE DEF old, new
  <2> QED BY <1>1, <1>2, TotalChange
<1> QED BY <1>3, <1>4, <1>5

(* Only the accumulators and the callers count: other steps change nothing. *)
LEMMA EnergyFrame ==
  ASSUME EnergyInv, configs' \in [EnergyKeys -> RatedInputs \cup {NoEnergyConfig}],
         UNCHANGED <<models, totals, working, allowed>>
  PROVE  EnergyInv'
<1>1. EnergyTyped' /\ ModelsApart' /\ Evaluates' 
  BY DEF EnergyInv, EnergyTyped, ModelsApart, Evaluates
<1>2. Flights' = Flights
  BY DEF Flights
<1>3. FlightsAllowed'
  BY <1>2 DEF EnergyInv, FlightsAllowed
<1>4. \A k \in EnergyKeys : Owed(k)' = Owed(k)
  BY DEF Owed
<1>5. Covered'
  BY <1>4 DEF EnergyInv, Covered
<1> QED BY <1>1, <1>3, <1>5 DEF EnergyInv

(* A balance that holds is kept by changes that balance.                   *)
LEMMA Balance ==
  ASSUME NEW m \in Nat, NEW sum \in Int, NEW owed \in Int, NEW limit \in Int,
         NEW more \in Int, NEW owing \in Int, NEW longer \in Int,
         sum + m * owed <= m * limit, more + m * owing <= m * longer
  PROVE  (sum + more) + m * (owed + owing) <= m * (limit + longer)
<1> DEFINE p == m * owed
           q == m * owing
           r == m * limit
           s == m * longer
<1>1. m * (owed + owing) = p + q /\ m * (limit + longer) = r + s
  BY Products
<1>2. p \in Int /\ q \in Int /\ r \in Int /\ s \in Int
  BY Products
<1>3. sum + p <= r /\ more + q <= s
  OBVIOUS
<1> HIDE DEF p, q, r, s
<1> QED BY <1>1, <1>2, <1>3

(* What Covered says of a key's accumulator.                               *)
LEMMA CoveredSays ==
  ASSUME EnergyInv, NEW k \in EnergyKeys, models[k] # 0
  PROVE  /\ models[k] \in 1..Len(totals) /\ totals[models[k]] \in Accumulator
         /\ totals[models[k]].total \in Int /\ Total(Owed(k)) \in Int /\ allowed \in Int
         /\ totals[models[k]].total + MostFuel * Total(Owed(k)) <= MostFuel * allowed
<1>1. models[k] \in 1..Len(totals)
  BY DEF EnergyInv, EnergyTyped, ModelsApart
<1>2. totals[models[k]] \in Accumulator
  BY <1>1 DEF EnergyInv, EnergyTyped
<1>3. totals[models[k]].total \in Int
  BY <1>2 DEF Accumulator
<1>4. Total(Owed(k)) \in Int /\ allowed \in Int
  BY OwedInFlight DEF EnergyInv, EnergyTyped
<1>5. totals[models[k]].total + MostFuel * Total(Owed(k)) <= MostFuel * allowed
  BY DEF EnergyInv, Covered
<1> QED BY <1>1, <1>2, <1>3, <1>4, <1>5

(* An evaluation begins: its time is allowed, and owed to some.            *)
LEMMA BeginKeeps ==
  ASSUME EnergyInv, NEW c \in EnergyCallers, NEW elapsed \in Elapsed, BeginEvaluation(c, elapsed)
  PROVE  EnergyInv'
<1> DEFINE new == [Off EXCEPT !.rows = {<<k, configs[k]>> : k \in {k \in EnergyKeys : configs[k] # NoEnergyConfig}},
                              !.elapsed = elapsed, !.busy = TRUE]
<1>0. EnergyTyped /\ ModelsApart /\ Evaluates /\ FlightsAllowed /\ Covered
  BY DEF EnergyInv
<1>1. elapsed \in Nat
  BY EnergyAssumption
<1>2. /\ new.rows = {<<k, configs[k]>> : k \in {k \in EnergyKeys : configs[k] # NoEnergyConfig}}
      /\ new.elapsed = elapsed /\ new.key = NoEnergyConfig /\ new.model = 0 /\ new.busy = TRUE
  BY DEF Off
<1>3. new.rows \in SUBSET (EnergyKeys \X RatedInputs)
  BY <1>0, <1>2 DEF EnergyTyped
<1>4. new \in Evaluation
  BY <1>1, <1>3 DEF Evaluation, Off
<1>5. \A row1, row2 \in new.rows : row1[1] = row2[1] => row1 = row2
  BY <1>2
<1>6. /\ working' = [working EXCEPT ![c] = new] /\ allowed' = allowed + elapsed
      /\ configs' = configs /\ models' = models /\ totals' = totals
      /\ working[c] = Off
  BY <1>0 DEF BeginEvaluation, Evaluates
<1> HIDE DEF new
<1>7. EnergyTyped'
  BY <1>0, <1>1, <1>4, <1>6 DEF EnergyTyped
<1>8. ModelsApart'
  BY <1>0, <1>6 DEF ModelsApart
<1>9. working'[c] = new /\ \A d \in EnergyCallers : d # c => working'[d] = working[d]
  BY <1>0, <1>6 DEF EnergyTyped
<1>10. Evaluates'
  <2>1. ASSUME NEW d \in EnergyCallers, d # c
        PROVE  /\ ~working'[d].busy => working'[d] = Off
               /\ working'[d].model <= Len(totals')
               /\ \A row1, row2 \in working'[d].rows : row1[1] = row2[1] => row1 = row2
               /\ working'[d].model # 0 =>
                    /\ working'[d].busy /\ working'[d].key \in EnergyKeys
                    /\ \A row \in working'[d].rows : row[1] # working'[d].key
                    /\ \A k \in EnergyKeys : models'[k] = working'[d].model => k = working'[d].key
    BY <1>0, <1>6, <1>9, <2>1 DEF Evaluates
  <2>2. 0 <= Len(totals')
    BY <1>0, <1>6 DEF EnergyTyped
  <2> QED BY <1>2, <1>5, <1>9, <2>1, <2>2 DEF Evaluates
<1>11. Off.elapsed = 0
  BY DEF Off
<1>12. FlightsAllowed'
  <2>1. Total(Flights)' = Total(Flights) - 0 + elapsed
    BY <1>0, <1>2, <1>6, <1>7, <1>9, <1>11, FlightsOfOthers
  <2>2. Total(Flights) <= allowed /\ allowed \in Int
    BY <1>0 DEF FlightsAllowed, EnergyTyped
  <2>3. Total(Flights) \in Int
    <3>1. Flights \in [EnergyCallers -> Int]
      BY <1>0 DEF Flights, EnergyTyped, Evaluation
    <3> QED BY <3>1, TotalIsSum
  <2> QED BY <1>1, <1>6, <2>1, <2>2, <2>3 DEF FlightsAllowed
<1>13. ASSUME NEW k \in EnergyKeys, models'[k] # 0
       PROVE  totals'[models'[k]].total + MostFuel * Total(Owed(k))' <= MostFuel * allowed'
  <2> DEFINE sum == totals[models[k]].total
             owed == Total(Owed(k))
             owing == Owed(k)'[c]
  <2>1. sum + MostFuel * owed <= MostFuel * allowed /\ sum \in Int /\ owed \in Int /\ allowed \in Int
    BY <1>6, <1>13, CoveredSays
  <2>2. Total(Owed(k))' = owed - 0 + owing
    <3>1. Owed(k)[c] = 0
      BY <1>6, <1>11 DEF Owed
    <3> QED BY <1>0, <1>6, <1>7, <1>9, <3>1, OwedByOthers
  <2>3. owing \in Int /\ owing <= elapsed
    BY <1>1, <1>2, <1>9 DEF Owed
  <2>4. totals'[models'[k]].total = sum
    BY <1>6
  <2> HIDE DEF sum, owed, owing
  <2>5. MostFuel \in Nat /\ 0 + MostFuel * owing <= MostFuel * elapsed
    BY <1>1, <2>3, MostFuelBounds, Products
  <2>6. (sum + 0) + MostFuel * (owed + owing) <= MostFuel * (allowed + elapsed)
    <3> HIDE DEF MostFuel
    <3> QED BY <1>1, <2>1, <2>3, <2>5, Balance
  <2>7. sum + 0 = sum /\ Total(Owed(k))' = owed + owing
    BY <2>1, <2>2, <2>3
  <2> QED BY <1>6, <2>4, <2>6, <2>7
<1>14. Covered'
  BY <1>13 DEF Covered
<1> QED BY <1>7, <1>8, <1>10, <1>12, <1>14 DEF EnergyInv

(* An evaluation ends: nothing is left to charge.                          *)
LEMMA EndKeeps ==
  ASSUME EnergyInv, NEW c \in EnergyCallers, EndEvaluation(c)
  PROVE  EnergyInv'
<1>0. EnergyTyped /\ ModelsApart /\ Evaluates /\ FlightsAllowed /\ Covered
  BY DEF EnergyInv
<1>1. Off \in Evaluation /\ Off.elapsed = 0 /\ Off.model = 0 /\ Off.rows = {}
  BY DEF Off, Evaluation
<1>2. /\ working[c].model = 0 /\ working[c].rows = {} /\ working' = [working EXCEPT ![c] = Off]
      /\ configs' = configs /\ models' = models /\ totals' = totals /\ allowed' = allowed
  BY DEF EndEvaluation
<1>3. EnergyTyped'
  BY <1>0, <1>1, <1>2 DEF EnergyTyped
<1>4. ModelsApart'
  BY <1>0, <1>2 DEF ModelsApart
<1>5. working'[c] = Off /\ \A d \in EnergyCallers : d # c => working'[d] = working[d]
  BY <1>0, <1>2 DEF EnergyTyped
<1>6. Evaluates'
  <2>1. 0 <= Len(totals')
    BY <1>0, <1>2 DEF EnergyTyped
  <2> QED BY <1>0, <1>1, <1>2, <1>5, <2>1 DEF Evaluates
<1>7. FlightsAllowed'
  <2>1. Total(Flights)' = Total(Flights) - working[c].elapsed + 0
    BY <1>0, <1>1, <1>3, <1>5, FlightsOfOthers
  <2>2. Total(Flights) <= allowed /\ allowed \in Int /\ working[c].elapsed \in Nat
    BY <1>0 DEF FlightsAllowed, EnergyTyped, Evaluation
  <2>3. Total(Flights) \in Int
    <3>1. Flights \in [EnergyCallers -> Int]
      BY <1>0 DEF Flights, EnergyTyped, Evaluation
    <3> QED BY <3>1, TotalIsSum
  <2> QED BY <1>2, <2>1, <2>2, <2>3 DEF FlightsAllowed
<1>8. ASSUME NEW k \in EnergyKeys, models[k] # 0 PROVE Total(Owed(k))' = Total(Owed(k))
  <2>1. Owed(k)[c] = 0 /\ Owed(k)'[c] = 0
    BY <1>1, <1>2, <1>5, <1>8 DEF Owed
  <2>2. Total(Owed(k))' = Total(Owed(k)) - 0 + 0
    BY <1>0, <1>2, <1>3, <1>5, <2>1, OwedByOthers
  <2> QED BY <1>8, <2>2, CoveredSays
<1>9. Covered'
  BY <1>0, <1>2, <1>8 DEF Covered
<1> QED BY <1>3, <1>4, <1>6, <1>7, <1>9 DEF EnergyInv

(* The interval of one row is charged: what is added was owed.             *)
LEMMA AddKeeps ==
  ASSUME EnergyInv, NEW c \in EnergyCallers, NEW reading \in PlantReadings, AddInterval(c, reading)
  PROVE  EnergyInv'
<1> DEFINE n == working[c].model
           key == working[c].key
           elapsed == working[c].elapsed
           input == FuelInput(totals[n].config, reading)
           charge == IF IsBoiler[key] THEN input * elapsed ELSE 0
           new == [working[c] EXCEPT !.key = NoEnergyConfig, !.model = 0]
<1>0. EnergyTyped /\ ModelsApart /\ Evaluates /\ FlightsAllowed /\ Covered
  BY DEF EnergyInv
<1>1. /\ n # 0 /\ working' = [working EXCEPT ![c] = new]
      /\ configs' = configs /\ models' = models /\ allowed' = allowed
  BY DEF AddInterval
<1>2. /\ n \in 1..Len(totals) /\ working[c].busy /\ key \in EnergyKeys
      /\ \A row \in working[c].rows : row[1] # key
      /\ \A k \in EnergyKeys : models[k] = n => k = key
      /\ elapsed \in Nat /\ working[c] \in Evaluation
  BY <1>0, <1>1 DEF Evaluates, EnergyTyped, Evaluation
<1>3. /\ new \in Evaluation /\ new.elapsed = elapsed /\ new.model = 0
      /\ new.rows = working[c].rows /\ new.busy = working[c].busy
  BY <1>2 DEF Evaluation
<1>4. totals[n] \in Accumulator /\ totals[n].config \in RatedInputs /\ totals[n].total \in Int
  <2>1. totals[n] \in Accumulator
    BY <1>0, <1>2 DEF EnergyTyped
  <2> QED BY <2>1 DEF Accumulator
<1>5. /\ input \in Int /\ MostFuel \in Nat /\ MostFuel * elapsed \in Int
      /\ input * elapsed \in Int /\ input * elapsed <= MostFuel * elapsed
      /\ 0 <= MostFuel * elapsed
  <2>1. input \in Int /\ input <= MostFuel /\ MostFuel \in Nat
    BY <1>4, MostFuelBounds
  <2> HIDE DEF input, elapsed, MostFuel
  <2>2. elapsed * input <= elapsed * MostFuel /\ elapsed * input \in Int
    BY <1>2, <2>1, Products
  <2>3. elapsed * input = input * elapsed /\ elapsed * MostFuel = MostFuel * elapsed
    BY <1>2, <2>1
  <2>4. MostFuel * elapsed \in Nat
    BY <1>2, <2>1
  <2> QED BY <2>1, <2>2, <2>3, <2>4
<1>6. charge \in Int /\ charge <= MostFuel * elapsed
  BY <1>5
<1>7. \/ totals' = [totals EXCEPT ![n].total = @ + charge]
      \/ totals' = totals /\ charge = 0
  BY DEF AddInterval
<1> HIDE DEF charge, input, new
<1>8. /\ totals' \in Seq(Accumulator) /\ Len(totals') = Len(totals)
      /\ totals'[n].total = totals[n].total + charge
      /\ \A m \in 1..Len(totals) : m # n => totals'[m] = totals[m]
  <2>1. CASE totals' = [totals EXCEPT ![n].total = @ + charge]
    <3> DEFINE acc == [totals[n] EXCEPT !.total = @ + charge]
    <3>1. acc \in Accumulator /\ acc.total = totals[n].total + charge
      BY <1>4, <1>6 DEF Accumulator
    <3>2. totals' = [totals EXCEPT ![n] = acc]
      BY <2>1
    <3> HIDE DEF acc, n
    <3> QED BY <1>0, <1>2, <3>1, <3>2 DEF EnergyTyped
  <2>2. CASE totals' = totals /\ charge = 0
    BY <1>0, <1>4, <2>2 DEF EnergyTyped
  <2> QED BY <1>7, <2>1, <2>2
<1>9. EnergyTyped'
  BY <1>0, <1>1, <1>3, <1>8 DEF EnergyTyped
<1>10. ModelsApart'
  BY <1>0, <1>1, <1>8 DEF ModelsApart
<1>11. working'[c] = new /\ \A d \in EnergyCallers : d # c => working'[d] = working[d]
  BY <1>0, <1>1 DEF EnergyTyped
<1>12. Evaluates'
  <2>1. ASSUME NEW d \in EnergyCallers, d # c
        PROVE  /\ ~working'[d].busy => working'[d] = Off
               /\ working'[d].model <= Len(totals')
               /\ \A row1, row2 \in working'[d].rows : row1[1] = row2[1] => row1 = row2
               /\ working'[d].model # 0 =>
                    /\ working'[d].busy /\ working'[d].key \in EnergyKeys
                    /\ \A row \in working'[d].rows : row[1] # working'[d].key
                    /\ \A k \in EnergyKeys : models'[k] = working'[d].model => k = working'[d].key
    BY <1>0, <1>1, <1>8, <1>11, <2>1 DEF Evaluates
  <2>2. /\ new.busy /\ new.model = 0 /\ 0 <= Len(totals')
        /\ \A row1, row2 \in new.rows : row1[1] = row2[1] => row1 = row2
    BY <1>0, <1>2, <1>3, <1>8 DEF Evaluates, EnergyTyped
  <2> QED BY <1>11, <2>1, <2>2 DEF Evaluates
<1>13. FlightsAllowed'
  <2>1. Total(Flights)' = Total(Flights) - elapsed + elapsed
    BY <1>0, <1>3, <1>9, <1>11, FlightsOfOthers
  <2>2. Total(Flights) \in Int
    <3>1. Flights \in [EnergyCallers -> Int]
      BY <1>0 DEF Flights, EnergyTyped, Evaluation
    <3> QED BY <3>1, TotalIsSum
  <2> QED BY <1>0, <1>1, <1>2, <2>1, <2>2 DEF FlightsAllowed
<1>14. ASSUME NEW k \in EnergyKeys, models'[k] # 0
       PROVE  totals'[models'[k]].total + MostFuel * Total(Owed(k))' <= MostFuel * allowed'
  <2> DEFINE sum == totals[models[k]].total
             owed == Total(Owed(k))
  <2>1. /\ sum + MostFuel * owed <= MostFuel * allowed /\ sum \in Int /\ owed \in Int
        /\ allowed \in Int /\ models[k] \in 1..Len(totals)
    BY <1>1, <1>14, CoveredSays
  <2>2. Total(Owed(k))' = owed - Owed(k)[c] + Owed(k)'[c]
    BY <1>0, <1>1, <1>9, <1>11, OwedByOthers
  <2>3. CASE k = key /\ models[k] = n
    <3>1. Owed(k)[c] = elapsed /\ Owed(k)'[c] = 0
      BY <1>1, <1>2, <1>3, <1>11, <2>3 DEF Owed
    <3>2. totals'[models'[k]].total = sum + charge
      BY <1>1, <1>8, <2>3
    <3>3. Total(Owed(k))' = owed + (0 - elapsed)
      BY <1>2, <2>1, <2>2, <3>1
    <3> HIDE DEF sum, owed, elapsed, MostFuel
    <3>4. MostFuel * (0 - elapsed) = MostFuel * 0 - MostFuel * elapsed /\ MostFuel * 0 = 0
      BY <1>2, <1>5, Products
    <3>5. charge + MostFuel * (0 - elapsed) <= MostFuel * 0
      <4>1. MostFuel * (0 - elapsed) = 0 - MostFuel * elapsed
        BY <1>5, <3>4
      <4> DEFINE most == MostFuel * elapsed
      <4>2. most \in Int /\ charge \in Int /\ charge <= most
        BY <1>5, <1>6
      <4> HIDE DEF most
      <4> QED BY <3>4, <4>1, <4>2 DEF most
    <3>6. 0 - elapsed \in Int
      BY <1>2
    <3>7. (sum + charge) + MostFuel * (owed + (0 - elapsed)) <= MostFuel * (allowed + 0)
      BY <1>5, <1>6, <2>1, <3>5, <3>6, Balance
    <3>8. allowed + 0 = allowed
      BY <2>1
    <3> QED BY <1>1, <3>2, <3>3, <3>7, <3>8
  <2>4. CASE models[k] # n
    <3>1. Owed(k)'[c] = Owed(k)[c]
      BY <1>1, <1>2, <1>3, <1>11, <1>14, <2>4 DEF Owed
    <3>2. totals'[models'[k]].total = sum
      BY <1>1, <1>8, <2>1, <2>4
    <3>3. Owed(k)[c] \in Int
      BY <1>0, OwedInFlight
    <3>4. Total(Owed(k))' = owed
      BY <2>1, <2>2, <3>1, <3>3
    <3> QED BY <1>1, <2>1, <3>2, <3>4
  <2> QED BY <1>2, <2>3, <2>4
<1>15. Covered'
  BY <1>14 DEF Covered
<1> QED BY <1>9, <1>10, <1>12, <1>13, <1>15 DEF EnergyInv

(* A caller finds its row's accumulator, or makes one that nothing has     *)
(* been charged to and that nobody else knows.                             *)
LEMMA FindKeeps ==
  ASSUME EnergyInv, NEW c \in EnergyCallers, FindModel(c)
  PROVE  EnergyInv'
<1>0. EnergyTyped /\ ModelsApart /\ Evaluates /\ FlightsAllowed /\ Covered
  BY DEF EnergyInv
<1>1. PICK row \in working[c].rows :
        LET key == row[1]
            fits == models[key] # 0 /\ totals[models[key]].config = row[2]
            number == IF fits THEN models[key] ELSE Len(totals) + 1
        IN /\ totals' = IF fits THEN totals ELSE Append(totals, [config |-> row[2], total |-> 0])
           /\ models' = [models EXCEPT ![key] = number]
           /\ working' = [working EXCEPT ![c] =
                [working[c] EXCEPT !.rows = @ \ {row}, !.key = key, !.model = number]]
  BY DEF FindModel
<1> DEFINE key == row[1]
           fits == models[key] # 0 /\ totals[models[key]].config = row[2]
           number == IF fits THEN models[key] ELSE Len(totals) + 1
           new == [working[c] EXCEPT !.rows = @ \ {row}, !.key = key, !.model = number]
           made == [config |-> row[2], total |-> 0]
<1>2. /\ working[c].busy /\ working[c].model = 0 /\ working[c] \in Evaluation
      /\ configs' = configs /\ allowed' = allowed
  BY <1>0 DEF FindModel, EnergyTyped
<1>3. key \in EnergyKeys /\ row[2] \in RatedInputs
  BY <1>1, <1>2 DEF Evaluation
<1>4. made \in Accumulator /\ made.total = 0
  BY <1>3 DEF Accumulator
<1>5. totals \in Seq(Accumulator) /\ Len(totals) \in Nat /\ models[key] \in 0..Len(totals)
  BY <1>0, <1>3 DEF EnergyTyped, ModelsApart
<1>6. /\ totals' = IF fits THEN totals ELSE Append(totals, made)
      /\ models' = [models EXCEPT ![key] = number]
      /\ working' = [working EXCEPT ![c] = new]
  BY <1>1
<1>7. \/ fits /\ number = models[key] /\ totals' = totals /\ models[key] # 0
      \/ ~fits /\ number = Len(totals) + 1 /\ totals' = Append(totals, made)
  BY <1>6
<1> HIDE DEF fits, made
<1>8. number \in Nat /\ number # 0 /\ number <= Len(totals')
      /\ totals' \in Seq(Accumulator) /\ Len(totals) <= Len(totals')
      /\ \A m \in 1..Len(totals) : totals'[m] = totals[m]
  <2> HIDE DEF number, key
  <2>1. CASE fits /\ number = models[key] /\ totals' = totals /\ models[key] # 0
    BY <1>5, <2>1
  <2>2. CASE ~fits /\ number = Len(totals) + 1 /\ totals' = Append(totals, made)
    <3>1. /\ Append(totals, made) \in Seq(Accumulator) /\ Len(Append(totals, made)) = Len(totals) + 1
          /\ \A m \in 1..Len(totals) : Append(totals, made)[m] = totals[m]
      BY <1>4, <1>5
    <3> QED BY <1>5, <2>2, <3>1
  <2> QED BY <1>7, <2>1, <2>2
<1> HIDE DEF number
<1>9. /\ new \in Evaluation /\ new.rows = working[c].rows \ {row} /\ new.key = key
      /\ new.model = number /\ new.elapsed = working[c].elapsed /\ new.busy
  BY <1>2, <1>3, <1>8 DEF Evaluation
<1> HIDE DEF new, key
<1>10. EnergyTyped'
  BY <1>0, <1>2, <1>3, <1>6, <1>8, <1>9 DEF EnergyTyped
<1>11. models'[key] = number /\ \A k \in EnergyKeys : k # key => models'[k] = models[k]
  BY <1>0, <1>3, <1>6 DEF EnergyTyped
<1>12. \A k \in EnergyKeys : k # key => models[k] # number
  <2>1. CASE number = models[key]
    BY <1>0, <1>3, <1>8, <2>1 DEF ModelsApart
  <2>2. CASE number = Len(totals) + 1
    BY <1>0, <1>5, <2>2 DEF ModelsApart, EnergyTyped
  <2> QED BY <1>7, <2>1, <2>2
<1>13. ModelsApart'
  <2>1. \A k \in EnergyKeys : models'[k] <= Len(totals')
    <3>1. \A k \in EnergyKeys : models[k] <= Len(totals) /\ models[k] \in Nat
      BY <1>0 DEF ModelsApart, EnergyTyped
    <3> QED BY <1>5, <1>8, <1>11, <3>1
  <2>2. \A k1, k2 \in EnergyKeys : (models'[k1] = models'[k2] /\ models'[k1] # 0) => k1 = k2
    BY <1>0, <1>11, <1>12 DEF ModelsApart
  <2> QED BY <2>1, <2>2 DEF ModelsApart
<1>14. working'[c] = new /\ \A d \in EnergyCallers : d # c => working'[d] = working[d]
  BY <1>0, <1>6 DEF EnergyTyped
<1>15. \A other \in working[c].rows : other # row => other[1] # key
  BY <1>0, <1>1 DEF Evaluates, key
<1>16. Evaluates'
  <2>1. ASSUME NEW d \in EnergyCallers, d # c
        PROVE  /\ ~working'[d].busy => working'[d] = Off
               /\ working'[d].model <= Len(totals')
               /\ \A row1, row2 \in working'[d].rows : row1[1] = row2[1] => row1 = row2
               /\ working'[d].model # 0 =>
                    /\ working'[d].busy /\ working'[d].key \in EnergyKeys
                    /\ \A other \in working'[d].rows : other[1] # working'[d].key
                    /\ \A k \in EnergyKeys : models'[k] = working'[d].model => k = working'[d].key
    <3>1. /\ ~working[d].busy => working[d] = Off
          /\ working[d].model <= Len(totals) /\ working[d].model \in Nat
          /\ \A row1, row2 \in working[d].rows : row1[1] = row2[1] => row1 = row2
          /\ working[d].model # 0 =>
               /\ working[d].busy /\ working[d].key \in EnergyKeys
               /\ \A other \in working[d].rows : other[1] # working[d].key
               /\ \A k \in EnergyKeys : models[k] = working[d].model => k = working[d].key
      BY <1>0 DEF Evaluates, EnergyTyped, Evaluation
    <3>2. working'[d] = working[d]
      BY <1>14, <2>1
    <3>3. working[d].model <= Len(totals')
      BY <1>5, <1>8, <3>1
    <3>4. ASSUME working[d].model # 0, NEW k \in EnergyKeys, models'[k] = working[d].model
          PROVE  k = working[d].key
      <4>1. CASE k = key /\ number = models[key]
        BY <1>11, <3>1, <3>4, <4>1
      <4>2. CASE k = key /\ number = Len(totals) + 1
        BY <1>5, <1>11, <3>1, <3>4, <4>2
      <4>3. CASE k # key
        BY <1>11, <3>1, <3>4, <4>3
      <4> QED BY <1>7, <4>1, <4>2, <4>3
    <3> QED BY <3>1, <3>2, <3>3, <3>4
  <2>2. /\ new.busy /\ new.model <= Len(totals') /\ new.key \in EnergyKeys
        /\ \A row1, row2 \in new.rows : row1[1] = row2[1] => row1 = row2
        /\ \A other \in new.rows : other[1] # new.key
        /\ \A k \in EnergyKeys : models'[k] = new.model => k = new.key
    BY <1>0, <1>3, <1>8, <1>9, <1>11, <1>12, <1>15 DEF Evaluates
  <2> QED BY <1>14, <2>1, <2>2 DEF Evaluates
<1>17. Total(Flights)' = Total(Flights) /\ Total(Flights) \in Int
  <2>1. Total(Flights)' = Total(Flights) - working[c].elapsed + working[c].elapsed
    BY <1>0, <1>9, <1>10, <1>14, FlightsOfOthers
  <2>2. Total(Flights) \in Int
    <3>1. Flights \in [EnergyCallers -> Int]
      BY <1>0 DEF Flights, EnergyTyped, Evaluation
    <3> QED BY <3>1, TotalIsSum
  <2>3. working[c].elapsed \in Nat
    BY <1>2 DEF Evaluation
  <2> QED BY <2>1, <2>2, <2>3
<1>18. FlightsAllowed'
  BY <1>0, <1>2, <1>17 DEF FlightsAllowed
<1>19. ASSUME NEW k \in EnergyKeys, models[k] # 0, models'[k] = models[k]
       PROVE  totals'[models'[k]].total + MostFuel * Total(Owed(k))' <= MostFuel * allowed'
  <2>1. /\ totals[models[k]].total + MostFuel * Total(Owed(k)) <= MostFuel * allowed
        /\ Total(Owed(k)) \in Int /\ models[k] \in 1..Len(totals)
    BY <1>19, CoveredSays
  <2>2. Total(Owed(k))' = Total(Owed(k)) - Owed(k)[c] + Owed(k)'[c]
    BY <1>0, <1>10, <1>14, <1>19, OwedByOthers
  <2>3. Owed(k)'[c] = Owed(k)[c]
    <3>1. CASE k = key
      <4>1. Owed(k)[c] = working[c].elapsed
        BY <1>1, <3>1 DEF Owed, key
      <4>2. Owed(k)'[c] = working[c].elapsed
        BY <1>9, <1>11, <1>14, <3>1 DEF Owed
      <4> QED BY <4>1, <4>2
    <3>2. CASE k # key
      <4>1. (\E other \in new.rows : other[1] = k) <=> (\E other \in working[c].rows : other[1] = k)
        BY <1>9, <3>2 DEF key
      <4>2. new.model # models'[k] /\ working[c].model # models[k]
        BY <1>2, <1>9, <1>12, <1>19, <3>2
      <4> QED BY <1>9, <1>14, <4>1, <4>2 DEF Owed
    <3> QED BY <3>1, <3>2
  <2>4. Owed(k)[c] \in Int
    BY <1>0, OwedInFlight
  <2>5. Total(Owed(k))' = Total(Owed(k))
    BY <2>1, <2>2, <2>3, <2>4
  <2> QED BY <1>2, <1>8, <1>19, <2>1, <2>5
<1>20. ASSUME NEW k \in EnergyKeys, models'[k] # 0, models'[k] # models[k]
       PROVE  totals'[models'[k]].total + MostFuel * Total(Owed(k))' <= MostFuel * allowed'
  <2>1. k = key /\ models'[k] = Len(totals) + 1 /\ totals'[models'[k]] = made
    BY <1>4, <1>5, <1>7, <1>11, <1>20
  <2>2. Total(Owed(k))' <= Total(Flights)' /\ Total(Owed(k))' \in Int
    <3> DEFINE owed == Owed(k)'
               flights == Flights'
    <3>1. \A d \in EnergyCallers : working'[d].elapsed \in Nat
      BY <1>10 DEF EnergyTyped, Evaluation
    <3>2. owed \in [EnergyCallers -> Int] /\ flights \in [EnergyCallers -> Int]
      BY <3>1 DEF Owed, Flights
    <3>3. \A d \in EnergyCallers : owed[d] <= flights[d]
      BY <3>1 DEF Owed, Flights
    <3>4. Total(owed) \in Int /\ Total(owed) <= Total(flights)
      <4> HIDE DEF owed, flights
      <4> QED BY <3>2, <3>3, TotalMonotone
    <3> QED BY <3>4
  <2>3. Total(Owed(k))' <= allowed /\ allowed \in Int
    BY <1>0, <1>17, <2>2 DEF FlightsAllowed, EnergyTyped
  <2>4. /\ MostFuel * Total(Owed(k))' <= MostFuel * allowed /\ MostFuel * Total(Owed(k))' \in Int
    BY <2>2, <2>3, MostFuelBounds, Products
  <2> QED BY <1>2, <1>4, <2>1, <2>4
<1>21. Covered'
  BY <1>19, <1>20 DEF Covered
<1> QED BY <1>10, <1>13, <1>16, <1>18, <1>21 DEF EnergyInv

(* A reset clears what the accumulators hold; what is in flight may still be charged. *)
LEMMA ResetKeeps ==
  ASSUME EnergyInv, ResetEnergy
  PROVE  EnergyInv'
<1>0. EnergyTyped /\ ModelsApart /\ Evaluates /\ FlightsAllowed /\ Covered
  BY DEF EnergyInv
<1> DEFINE cleared == [n \in 1..Len(totals) |->
                        IF \E k \in EnergyKeys : models[k] = n THEN [totals[n] EXCEPT !.total = 0]
                        ELSE totals[n]]
<1>1. /\ totals' = cleared /\ allowed' = InFlight
      /\ configs' = configs /\ models' = models /\ working' = working
  BY DEF ResetEnergy
<1>2. Len(totals) \in Nat /\ totals \in Seq(Accumulator)
  BY <1>0 DEF EnergyTyped
<1>3. \A n \in 1..Len(totals) : /\ totals[n] \in Accumulator
                                /\ [totals[n] EXCEPT !.total = 0] \in Accumulator
                                /\ [totals[n] EXCEPT !.total = 0].total = 0
  <2>1. ASSUME NEW n \in 1..Len(totals) PROVE totals[n] \in Accumulator
    BY <1>2
  <2>2. ASSUME NEW acc \in Accumulator
        PROVE  [acc EXCEPT !.total = 0] \in Accumulator /\ [acc EXCEPT !.total = 0].total = 0
    BY DEF Accumulator
  <2> QED BY <2>1, <2>2
<1>4. cleared \in Seq(Accumulator) /\ Len(cleared) = Len(totals)
  <2>1. cleared \in [1..Len(totals) -> Accumulator]
    BY <1>3
  <2> HIDE DEF cleared
  <2> QED BY <1>2, <2>1
<1>5. \A k \in EnergyKeys : models[k] # 0 => cleared[models[k]].total = 0
  <2>1. ASSUME NEW k \in EnergyKeys, models[k] # 0 PROVE models[k] \in 1..Len(totals)
    BY <2>1, CoveredSays
  <2>2. ASSUME NEW k \in EnergyKeys, models[k] # 0 PROVE cleared[models[k]].total = 0
    <3>1. cleared[models[k]] = [totals[models[k]] EXCEPT !.total = 0]
      BY <2>1, <2>2
    <3> HIDE DEF cleared
    <3> QED BY <1>3, <2>1, <2>2, <3>1
  <2> QED BY <2>2
<1> HIDE DEF cleared
<1>6. Flights' = Flights
  BY <1>1 DEF Flights
<1>7. \A c \in EnergyCallers : working[c].elapsed \in Int
  BY <1>0 DEF EnergyTyped, Evaluation
<1>8. allowed' = Total(Flights) /\ Total(Flights) \in Int
  BY <1>1, <1>7, InFlightIsTotal, TotalIsSum
<1>9. EnergyTyped'
  BY <1>0, <1>1, <1>4, <1>8 DEF EnergyTyped
<1>10. ModelsApart' /\ Evaluates'
  BY <1>0, <1>1, <1>4 DEF ModelsApart, Evaluates
<1>11. FlightsAllowed'
  BY <1>6, <1>8 DEF FlightsAllowed
<1>12. ASSUME NEW k \in EnergyKeys, models'[k] # 0
       PROVE  totals'[models'[k]].total + MostFuel * Total(Owed(k))' <= MostFuel * allowed'
  <2>1. Owed(k)' = Owed(k)
    BY <1>1 DEF Owed
  <2>2. Total(Owed(k)) \in Int /\ Total(Owed(k)) <= Total(Flights)
    BY <1>0, OwedInFlight
  <2>3. /\ MostFuel * Total(Owed(k)) <= MostFuel * Total(Flights) /\ MostFuel * Total(Owed(k)) \in Int
    BY <1>8, <2>2, MostFuelBounds, Products
  <2>4. totals'[models'[k]].total = 0
    BY <1>1, <1>5, <1>12
  <2> QED BY <1>8, <2>1, <2>3, <2>4
<1>13. Covered'
  BY <1>12 DEF Covered
<1> QED BY <1>9, <1>10, <1>11, <1>13 DEF EnergyInv

(* Nothing adds up to nothing.                                             *)
LEMMA TotalOfNone == Total([c \in EnergyCallers |-> 0]) = 0
<1> DEFINE none == [c \in EnergyCallers |-> 0]
           zeros == [s \in SUBSET EnergyCallers |-> 0]
<1>1. none \in [EnergyCallers -> Int]
  OBVIOUS
<1>2. \A s \in SUBSET EnergyCallers : s # {} => none[Taken(s)] = 0
  <2>1. ASSUME NEW s \in SUBSET EnergyCallers, s # {} PROVE Taken(s) \in EnergyCallers
    BY <2>1 DEF Taken
  <2> QED BY <2>1
<1>3. zeros[EnergyCallers] = 0
  OBVIOUS
<1> HIDE DEF none
<1>4. Sums(EnergyCallers, none, zeros)
  BY <1>2 DEF Sums
<1> HIDE DEF zeros
<1>5. Total(none) = 0
  BY <1>1, <1>3, <1>4, TotalIsSum
<1> QED BY <1>5 DEF none

(* It holds at the start: no accumulator and nobody at work.               *)
LEMMA EnergyStarts == EnergyInit => EnergyInv
<1> SUFFICES ASSUME EnergyInit PROVE EnergyInv
  OBVIOUS
<1>0. (CHOOSE r \in RatedInputs : TRUE) \in RatedInputs
  BY EnergyAssumption
<1>1. /\ configs \in [EnergyKeys -> RatedInputs] /\ models = [k \in EnergyKeys |-> 0] /\ totals = <<>>
      /\ working = [c \in EnergyCallers |-> Off] /\ allowed = 0
  BY <1>0 DEF EnergyInit
<1>2. Off \in Evaluation /\ Off.model = 0 /\ Off.rows = {} /\ Off.elapsed = 0
  BY DEF Off, Evaluation
<1>3. EnergyTyped
  BY <1>1, <1>2 DEF EnergyTyped
<1>4. ModelsApart /\ Evaluates
  BY <1>1, <1>2 DEF ModelsApart, Evaluates
<1>5. FlightsAllowed
  <2>1. Flights = [c \in EnergyCallers |-> 0]
    BY <1>1, <1>2 DEF Flights
  <2> QED BY <1>1, <2>1, TotalOfNone DEF FlightsAllowed
<1>6. Covered
  BY <1>1 DEF Covered
<1> QED BY <1>3, <1>4, <1>5, <1>6 DEF EnergyInv

(* Every step keeps it.                                                    *)
LEMMA EnergySteps == EnergyInv /\ [EnergyNext]_enVars => EnergyInv'
<1> SUFFICES ASSUME EnergyInv, [EnergyNext]_enVars PROVE EnergyInv'
  OBVIOUS
<1>1. CASE \E c \in EnergyCallers, elapsed \in Elapsed : BeginEvaluation(c, elapsed)
  BY <1>1, BeginKeeps
<1>2. CASE \E c \in EnergyCallers : FindModel(c) \/ EndEvaluation(c)
  BY <1>2, FindKeeps, EndKeeps
<1>3. CASE \E c \in EnergyCallers, reading \in PlantReadings : AddInterval(c, reading)
  BY <1>3, AddKeeps
<1>4. CASE \E k \in EnergyKeys, config \in RatedInputs \cup {NoEnergyConfig} : EditConfig(k, config)
  <2>1. PICK k \in EnergyKeys, config \in RatedInputs \cup {NoEnergyConfig} : EditConfig(k, config)
    BY <1>4
  <2>2. configs' \in [EnergyKeys -> RatedInputs \cup {NoEnergyConfig}]
    BY <2>1 DEF EditConfig, EnergyInv, EnergyTyped
  <2>3. UNCHANGED <<models, totals, working, allowed>>
    BY <2>1 DEF EditConfig
  <2> QED BY <2>2, <2>3, EnergyFrame
<1>5. CASE ResetEnergy
  BY <1>5, ResetKeeps
<1>6. CASE UNCHANGED enVars
  <2>1. configs' \in [EnergyKeys -> RatedInputs \cup {NoEnergyConfig}] /\ UNCHANGED <<models, totals, working, allowed>>
    BY <1>6 DEF enVars, EnergyInv, EnergyTyped
  <2> QED BY <2>1, EnergyFrame
<1> QED BY <1>1, <1>2, <1>3, <1>4, <1>5, <1>6 DEF EnergyNext

(* What is owed is not negative, so a covered total is not overcharged.    *)
LEMMA CoveredIsEnough == EnergyInv => NeverOvercharged
<1> SUFFICES ASSUME EnergyInv, NEW k \in EnergyKeys, models[k] # 0
             PROVE  totals[models[k]].total <= MostFuel * allowed
  BY DEF NeverOvercharged
<1>1. /\ totals[models[k]].total \in Int /\ Total(Owed(k)) \in Int /\ allowed \in Int
      /\ totals[models[k]].total + MostFuel * Total(Owed(k)) <= MostFuel * allowed
  BY CoveredSays
<1> DEFINE none == [c \in EnergyCallers |-> 0]
           owed == Owed(k)
<1>2. none \in [EnergyCallers -> Int] /\ owed \in [EnergyCallers -> Int]
  BY OwedInFlight DEF EnergyInv
<1>3. Total(none) = 0
  BY TotalOfNone
<1>4. \A c \in EnergyCallers : none[c] <= owed[c]
  BY DEF EnergyInv, EnergyTyped, Evaluation, Owed
<1>5. 0 <= Total(owed)
  <2> HIDE DEF none, owed
  <2> QED BY <1>2, <1>3, <1>4, TotalMonotone
<1>6. MostFuel * 0 <= MostFuel * Total(owed) /\ MostFuel * 0 = 0 /\ MostFuel * Total(owed) \in Int
  <2>1. 0 \in Int /\ Total(owed) \in Int
    BY <1>1
  <2> HIDE DEF owed
  <2> QED BY <1>5, <2>1, MostFuelBounds, Products
<1>7. MostFuel * allowed \in Int
  BY <1>1, MostFuelBounds, Products
<1> DEFINE p == MostFuel * Total(owed)
           q == MostFuel * allowed
           sum == totals[models[k]].total
<1>8. sum + p <= q /\ 0 <= p /\ sum \in Int /\ p \in Int /\ q \in Int
  BY <1>1, <1>6, <1>7
<1> HIDE DEF p, q, sum
<1>9. sum <= q
  BY <1>8
<1> QED BY <1>9 DEF sum, q

(* However evaluations, edits and resets interleave, no accumulator holds  *)
(* more than the time it was asked to account for can have used.           *)
THEOREM TimeIsChargedOnce == EnergySpec => []NeverOvercharged
<1>1. EnergySpec => []EnergyInv
  BY EnergyStarts, EnergySteps, PTL DEF EnergySpec
<1> QED BY <1>1, CoveredIsEnough, PTL
=============================================================================
