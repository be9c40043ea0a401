------------------------- MODULE StringMerging_proof -------------------------
(***************************************************************************)
(* Proofs about StringMerging: for any sections, sizes of groups, limit on *)
(* the groups in hand and hash, in every schedule that ends without error, *)
(* all groups are merged, the pool is whole again and every bucket holds   *)
(* the first occurrence of each of its strings, in the order of the input. *)
(***************************************************************************)
EXTENDS StringMerging, FiniteSetTheorems, SequenceTheorems, WellFoundedInduction, TLAPS

-----------------------------------------------------------------------------
(* The inductive invariant *)

SharedOK ==
    /\ Len(groups) \in Nat \ {0}
    /\ capacity \in Nat /\ capacity >= Reserved
    /\ popped \in 0 .. Len(groups) /\ idle \in Nat /\ available \in Nat
    /\ errors \in BOOLEAN /\ result \in {"running", "ok", "error"}

\* Groups are popped in order; one is handing strings over until the last bucket has them.
GroupsOK ==
    /\ part \in [Group -> {"queued", "splitting", "handing", "done", "failed"}]
    /\ hand \in [Group -> 0 .. NumBuckets]
    /\ \A g \in Group :
          /\ part[g] = "queued" <=> g > popped
          /\ part[g] \in {"queued", "splitting"} => hand[g] = 0
          /\ part[g] = "handing" => hand[g] < NumBuckets
          /\ part[g] = "failed" => errors

\* The strings of group g for bucket b have been put in their slot.
Handed(g, b) == part[g] = "done" \/ (part[g] = "handing" /\ b < hand[g])

Looping == {"load", "exchange"}

\* The slot of bucket b in the group it is at: the bucket waits in it, or runs and finds what
\* was handed over, or has just taken it.
SlotOfNext(b, g) ==
    /\ pc[b] # "finished"
    /\ pc[b] = "slot" => slot[g][b] = "Waiting" /\ ~Handed(g, b)
    /\ pc[b] = "work" => slot[g][b] = IF Handed(g, b) THEN "Strings" ELSE "Empty"
    /\ pc[b] \in Looping \cup {"dropped"} => slot[g][b] = "Empty" /\ Handed(g, b)

\* A bucket has taken the strings of all groups before the one it is at, and of none after.
BucketOK(b) ==
    /\ bucket[b].next \in 1 .. Len(groups) + 1
    /\ bucket[b].next > Len(groups) => pc[b] \in {"work", "finished"}
    /\ \A g \in Group :
          /\ g < bucket[b].next => slot[g][b] = "Empty" /\ Handed(g, b)
          /\ g = bucket[b].next => SlotOfNext(b, g)
          /\ g > bucket[b].next => slot[g][b] = IF Handed(g, b) THEN "Strings" ELSE "Empty"

BucketsOK ==
    /\ slot \in [Group -> [Bucket -> {"Empty", "Waiting", "Strings"}]]
    /\ pc \in [Spawner -> {"slot", "work", "load", "exchange", "finished", "dropped"}]
    /\ pc[Main] \in Looping \cup {"finished"}
    /\ read \in [Spawner -> Nat]
    /\ \A w \in Spawner : pc[w] = "exchange" => read[w] >= Reserved
    /\ bucket \in [Bucket -> [next : Nat, strings : {bucket[c].strings : c \in Bucket}]]
    /\ \A b \in Bucket : BucketOK(b)

\* A bucket that failed to merge its strings stops, and the error is kept.
DroppedOK == \A b \in Bucket : pc[b] = "dropped" => errors

\* The vectors in hand: a group has one for each bucket until it hands it over, then the slot
\* has it until the bucket takes the strings.
InHand ==
    {v \in Group \X Bucket :
        \/ part[v[1]] = "splitting"
        \/ part[v[1]] = "handing" /\ ~Handed(v[1], v[2])
        \/ slot[v[1]][v[2]] = "Strings"}

\* Every vector is available, reserved by a task that has not popped a group, or in hand; only
\* an error loses one.
Accounted == available + NumBuckets * idle + Cardinality(InHand)

PoolOK == Accounted <= capacity /\ (~errors => Accounted = capacity)

\* Somebody will reserve vectors as long as there are enough of them and groups that need them:
\* a thread gives up only if another has changed what is available since, and that one tries
\* next.
SomebodyTries ==
    popped < Len(groups) /\ available >= Reserved =>
        \E w \in Spawner : pc[w] = "load" \/ (pc[w] = "exchange" /\ read[w] = available)

ResultOK ==
    /\ result # "running" => Quiescent
    /\ result = "ok" => ~errors

MergeInv ==
    SharedOK /\ GroupsOK /\ BucketsOK /\ DroppedOK /\ PoolOK /\ SomebodyTries /\ ResultOK

-----------------------------------------------------------------------------
(* The order of the strings: the inductive invariant *)

RawSection == [data : Seq(Nat), str : BOOLEAN]
Section == [data : Seq(Nat), str : BOOLEAN, start : Nat]

\* The sections, one after the other from 0 on, each with some bytes.
InARow(secs) ==
    /\ secs \in Seq(Section) /\ secs # <<>>
    /\ secs[1].start = 0
    /\ \A i \in 1 .. Len(secs) : /\ secs[i].data # <<>>
                                 /\ EndOf(secs[i]) \in Nat /\ secs[i].start < EndOf(secs[i])
    /\ \A i \in 2 .. Len(secs) : secs[i].start = EndOf(secs[i - 1])

MergeGroup == [first : Nat, last : Nat, lo : Nat, hi : Nat]

\* What a section is padded to is made of whole blocks, and so is where a group is cut.
WholeBlocks(n) == \E q \in Nat : n = q * BlockSize

SectionsOK == InARow(sections) /\ \A i \in DOMAIN sections : WholeBlocks(sections[i].start)

\* A group covers the bytes of the input from lo up to hi, which lie in its sections; only a
\* string section is cut, and never in its padding.
Fits(secs, g) ==
    /\ g.last \in 1 .. Len(secs) /\ g.first \in 1 .. g.last
    /\ secs[g.first].start <= g.lo /\ g.lo < g.hi /\ g.hi <= EndOf(secs[g.last])
    /\ \A i \in g.first .. g.last :
          /\ ~secs[i].str => g.lo <= secs[i].start /\ secs[i].start < g.hi
          /\ secs[i].str /\ secs[i].start < g.lo => g.lo - secs[i].start < Len(secs[i].data)

\* Groups follow each other from offset lo to the end of the input.
Follow(secs, gs, lo) ==
    /\ gs \in Seq(MergeGroup)
    /\ \A k \in 1 .. Len(gs) : Fits(secs, gs[k])
    /\ \A k \in 2 .. Len(gs) : gs[k].lo = gs[k - 1].hi
    /\ gs = <<>> => lo = InputSize(secs)
    /\ gs # <<>> => gs[1].lo = lo /\ gs[Len(gs)].hi = InputSize(secs)

InputOK == SectionsOK /\ Follow(sections, groups, 0)

\* Strings in the order of the input.
InOrder(strings) ==
    \A j, k \in DOMAIN strings : j < k => InputOffset(strings[j]) < InputOffset(strings[k])

\* No string with the same bytes starts before.
IsFirst(s) == \A t \in InputStrings : Bytes(t) = Bytes(s) => InputOffset(s) <= InputOffset(t)

\* What bucket b is to hold of the input before offset lo.
FirstOnes(b, lo) ==
    {s \in InputStrings : HashBucket(Bytes(s)) = b /\ IsFirst(s) /\ InputOffset(s) < lo}

\* Where group k ends.
Border(k) == IF k = 0 THEN 0 ELSE groups[k].hi

\* The last group whose strings bucket b has.
LastTaken(b) == IF pc[b] \in Looping THEN bucket[b].next ELSE bucket[b].next - 1

BucketInOrder(b) ==
    pc[b] # "dropped" =>
        LET strings == bucket[b].strings
        IN  /\ strings \in Seq(InputStrings) /\ InOrder(strings)
            /\ ToSet(strings) = FirstOnes(b, Border(LastTaken(b)))

\* A group that has been split was split without an error.
SplitsOK == \A g \in Group : part[g] \in {"handing", "done"} => ~SplitFails(g)

OrderInv == InputOK /\ SplitsOK /\ \A b \in Bucket : BucketInOrder(b)

-----------------------------------------------------------------------------
(* Induction over numbers, in the form the backends can use *)

LEMMA Induction ==
    ASSUME NEW S, 0 \in S, \A n \in Nat : n \in S => n + 1 \in S
    PROVE  Nat \subseteq S
<1> DEFINE T == Nat \ S
           R == OpToRel(<, Nat)
<1> SUFFICES ASSUME T # {} PROVE FALSE
  OBVIOUS
<1>1. IsWellFoundedOn(R, Nat)
  BY NatLessThanWellFounded
<1>2. T \subseteq Nat
  OBVIOUS
<1>3. R = {p \in Nat \X Nat : p[1] < p[2]}
  BY DEF OpToRel
<1> HIDE DEF T, R
<1>4. PICK n \in T : \A k \in T : <<k, n>> \notin R
  BY <1>1, <1>2, WFMin
<1>5. n \in Nat /\ n \notin S /\ n # 0
  BY DEF T
<1>6. n - 1 \in S
  <2>1. n - 1 \in Nat /\ n - 1 < n
    BY <1>5
  <2>2. <<n - 1, n>> \in R
    BY <1>3, <1>5, <2>1
  <2> QED
    BY <1>4, <2>1, <2>2 DEF T
<1>7. (n - 1) + 1 \in S
  BY <1>5, <1>6
<1> QED
  BY <1>5, <1>7

-----------------------------------------------------------------------------
(* Recursion over a measure, in the form the backends can use *)

LEMMA MeasureInduction ==
    ASSUME NEW T, NEW m \in [T -> Nat], NEW P,
           \A t \in T : (\A u \in T : m[u] < m[t] => u \in P) => t \in P
    PROVE  T \subseteq P
<1> DEFINE S == {k \in Nat : \A t \in T : m[t] < k => t \in P}
<1>1. 0 \in S
  OBVIOUS
<1>2. ASSUME NEW k \in Nat, k \in S PROVE k + 1 \in S
  <2>1. ASSUME NEW t \in T, m[t] < k + 1 PROVE t \in P
    <3>1. \A u \in T : m[u] < m[t] => u \in P
      BY <1>2, <2>1
    <3> QED
      BY <3>1
  <2> QED
    BY <2>1
<1>3. Nat \subseteq S
  <2> HIDE DEF S
  <2> QED
    BY <1>1, <1>2, Induction
<1>4. ASSUME NEW t \in T PROVE t \in P
  <2>1. m[t] + 1 \in Nat
    OBVIOUS
  <2>2. m[t] + 1 \in S
    BY <1>3, <2>1
  <2> QED
    BY <2>2
<1> QED
  BY <1>4

\* What a recursion needs that stops with base at some arguments and takes a step from the value
\* at the next argument elsewhere, where the measure m is less.
Recursion(T, V, bound, m, stop, next, base, step) ==
    /\ bound \in Nat /\ m \in [T -> 0 .. bound]
    /\ stop \in SUBSET T /\ next \in [T -> T]
    /\ base \in [T -> V] /\ step \in [T -> [V -> V]]
    /\ \A t \in T : t \notin stop => m[next[t]] < m[t]

Solves(f, T, stop, next, base, step) ==
    \A t \in T : f[t] = IF t \in stop THEN base[t] ELSE step[t][f[next[t]]]

LEMMA RecursionSolved ==
    ASSUME NEW T, NEW V, NEW bound, NEW m, NEW stop, NEW next, NEW base, NEW step,
           Recursion(T, V, bound, m, stop, next, base, step)
    PROVE  \E f \in [T -> V] : Solves(f, T, stop, next, base, step)
<1>0. /\ bound \in Nat /\ m \in [T -> 0 .. bound]
      /\ stop \in SUBSET T /\ next \in [T -> T]
      /\ base \in [T -> V] /\ step \in [T -> [V -> V]]
      /\ \A t \in T : t \notin stop => m[next[t]] < m[t]
  BY DEF Recursion
<1> DEFINE Step(f, t) == IF t \in stop THEN base[t] ELSE step[t][f[next[t]]]
           Good(f, k) == \A t \in T : m[t] < k => f[t] = Step(f, t)
           Solved == {k \in Nat : \E f \in [T -> V] : Good(f, k)}
<1>1. ASSUME NEW f \in [T -> V], NEW t \in T PROVE Step(f, t) \in V
  BY <1>0
<1>2. 0 \in Solved
  <2>1. Good(base, 0)
    BY <1>0
  <2> QED
    BY <1>0, <2>1
<1>3. ASSUME NEW k \in Nat, k \in Solved PROVE k + 1 \in Solved
  <2>1. PICK f \in [T -> V] : Good(f, k)
    BY <1>3
  <2> DEFINE h == [t \in T |-> Step(f, t)]
  <2>2. h \in [T -> V]
    <3> HIDE DEF Step
    <3> QED
      BY <1>1
  <2>3. ASSUME NEW t \in T, m[t] < k + 1 PROVE h[t] = Step(h, t)
    <3>1. h[t] = Step(f, t)
      OBVIOUS
    <3>2. CASE t \in stop
      BY <3>1, <3>2
    <3>3. CASE t \notin stop
      <4>1. next[t] \in T /\ m[next[t]] < m[t] /\ m[next[t]] \in Nat /\ m[t] \in Nat
        BY <1>0, <3>3
      <4>2. m[next[t]] < k
        BY <2>3, <4>1
      <4>3. f[next[t]] = Step(f, next[t])
        <5> HIDE DEF Step
        <5> QED
          BY <2>1, <4>1, <4>2
      <4>4. h[next[t]] = Step(f, next[t])
        <5> HIDE DEF Step
        <5> QED
          BY <4>1
      <4>5. h[next[t]] = f[next[t]]
        BY <4>3, <4>4
      <4> QED
        BY <3>1, <3>3, <4>5
    <3> QED
      BY <3>2, <3>3
  <2>4. Good(h, k + 1)
    <3> HIDE DEF h, Step
    <3> QED
      BY <2>3
  <2> HIDE DEF h, Good
  <2> QED
    BY <2>2, <2>4
<1>4. Nat \subseteq Solved
  <2> HIDE DEF Solved
  <2> QED
    BY <1>2, <1>3, Induction
<1>5. PICK f \in [T -> V] : Good(f, bound + 1)
  <2>1. bound + 1 \in Nat
    BY <1>0
  <2>2. bound + 1 \in Solved
    <3> HIDE DEF Solved
    <3> QED
      BY <1>4, <2>1
  <2> HIDE DEF Good
  <2> QED
    BY <2>2
<1>6. \A t \in T : f[t] = Step(f, t)
  <2> SUFFICES ASSUME NEW t \in T PROVE f[t] = Step(f, t)
    OBVIOUS
  <2>1. m[t] < bound + 1
    BY <1>0
  <2> HIDE DEF Step
  <2> QED
    BY <1>5, <2>1
<1> QED
  BY <1>6 DEF Solves

-----------------------------------------------------------------------------
(* The groups: split_sections ends, with one group or more *)

LEMMA PaddedPositive ==
    ASSUME NEW n \in Nat, n > 0
    PROVE  Padded(n) \in Nat /\ Padded(n) > 0
<1> DEFINE q == (n + BlockSize - 1) \div BlockSize
<1>1. BlockSize \in Nat /\ BlockSize > 0
  BY MergingAssumption
<1>2. q \in Int /\ BlockSize * q <= n + BlockSize - 1 /\ n + BlockSize - 1 < BlockSize * q + BlockSize
  BY <1>1
<1>3. Padded(n) = q * BlockSize
  BY DEF Padded
<1> HIDE DEF q
<1>4. q > 0
  <2> SUFFICES ASSUME q <= 0 PROVE FALSE
    BY <1>2
  <2>1. BlockSize * q <= 0
    BY <1>1, <1>2
  <2> QED
    BY <1>1, <1>2, <2>1
<1> QED
  BY <1>1, <1>2, <1>3, <1>4

LEMMA SectionsPlaced ==
    ASSUME NEW secs \in Seq(RawSection), secs # <<>>,
           \A k \in DOMAIN secs : secs[k].data # <<>>
    PROVE  InARow(Placed(secs))
<1> DEFINE n == Len(secs)
           I == 1 .. n
           pad == [i \in I |-> Padded(Len(secs[i].data))]
           Shifted(f) == [i \in I |-> IF i = 1 THEN 0 ELSE f[i - 1] + Padded(Len(secs[i - 1].data))]
           Upto(k) == I \cap 1 .. k
           Good(f, k) == /\ f \in [I -> Nat]
                         /\ \A i \in Upto(k) : f[i] = IF i = 1 THEN 0 ELSE f[i - 1] + pad[i - 1]
           Solved == {k \in Nat : \E f \in [I -> Nat] : Good(f, k)}
           start == CHOOSE f : f = Shifted(f)
<1>1. n \in Nat /\ n > 0 /\ DOMAIN secs = I
  BY EmptySeq, LenProperties
<1>2. \A i \in I : secs[i].data \in Seq(Nat) /\ secs[i].str \in BOOLEAN /\ Len(secs[i].data) \in Nat
                     /\ Len(secs[i].data) > 0
  <2> SUFFICES ASSUME NEW i \in I PROVE secs[i].data \in Seq(Nat) /\ secs[i].str \in BOOLEAN
                     /\ Len(secs[i].data) \in Nat /\ Len(secs[i].data) > 0
    OBVIOUS
  <2>1. secs[i] \in RawSection
    BY <1>1, ElementOfSeq
  <2>2. secs[i].data \in Seq(Nat) /\ secs[i].str \in BOOLEAN /\ secs[i].data # <<>>
    BY <2>1, <1>1 DEF RawSection
  <2> QED
    BY <2>2, EmptySeq, LenProperties
<1>3. pad \in [I -> Nat] /\ \A i \in I : pad[i] > 0 /\ pad[i] = Padded(Len(secs[i].data))
  BY <1>2, PaddedPositive
<1> HIDE DEF n, pad
<1>4. Nat \subseteq Solved
  <2>1. 0 \in Solved
    <3>1. Good([i \in I |-> 0], 0)
      OBVIOUS
    <3> QED
      BY <3>1
  <2>2. ASSUME NEW k \in Nat, k \in Solved PROVE k + 1 \in Solved
    <3>1. PICK f \in [I -> Nat] : Good(f, k)
      BY <2>2
    <3> DEFINE g == [i \in I |-> IF i = 1 THEN 0 ELSE f[i - 1] + pad[i - 1]]
    <3>2. \A i \in I : i # 1 => i - 1 \in I
      BY <1>1
    <3>3. g \in [I -> Nat]
      BY <1>3, <3>1, <3>2
    <3>4. \A i \in Upto(k) : g[i] = f[i]
      BY <3>1
    <3>5. \A i \in Upto(k + 1) : i # 1 => i - 1 \in Upto(k)
      BY <1>1
    <3>6. \A i \in Upto(k + 1) : g[i] = IF i = 1 THEN 0 ELSE g[i - 1] + pad[i - 1]
      BY <3>4, <3>5
    <3>7. Good(g, k + 1)
      BY <3>3, <3>6
    <3> HIDE DEF g, Good
    <3> QED
      BY <3>3, <3>7
  <2> HIDE DEF Solved
  <2> QED
    BY <2>1, <2>2, Induction
<1>5. PICK f \in [I -> Nat] : Good(f, n)
  BY <1>1, <1>4
<1>6. f = Shifted(f)
  <2>1. \A i \in I : i # 1 => i - 1 \in I
    BY <1>1
  <2>2. Upto(n) = I
    BY <1>1
  <2> QED
    BY <1>3, <1>5, <2>1, <2>2
<1>7. start = Shifted(start)
  BY <1>6
<1> HIDE DEF start
<1>8. start \in [I -> Nat] /\ \A i \in I : start[i] = IF i = 1 THEN 0 ELSE start[i - 1] + pad[i - 1]
  <2>0. \A i \in I : i # 1 => i - 1 \in I
    BY <1>1
  <2>1. \A i \in I : start[i] = IF i = 1 THEN 0 ELSE start[i - 1] + pad[i - 1]
    BY <1>3, <1>7, <2>0
  <2> DEFINE N == {k \in Nat : \A i \in Upto(k) : start[i] \in Nat}
  <2>2. 0 \in N
    OBVIOUS
  <2>3. ASSUME NEW k \in Nat, k \in N PROVE k + 1 \in N
    <3>1. \A i \in Upto(k + 1) : i # 1 => i - 1 \in Upto(k) /\ i - 1 \in I
      BY <1>1
    <3>2. \A i \in Upto(k) : start[i] \in Nat
      BY <2>3
    <3>3. ASSUME NEW i \in Upto(k + 1) PROVE start[i] \in Nat
      <4>1. CASE i = 1
        BY <4>1, <2>1
      <4>2. CASE i # 1
        <5>1. start[i] = start[i - 1] + pad[i - 1]
          BY <4>2, <2>1
        <5>2. start[i - 1] \in Nat /\ pad[i - 1] \in Nat
          BY <4>2, <3>1, <3>2, <1>3
        <5> QED
          BY <5>1, <5>2
      <4> QED
        BY <4>1, <4>2
    <3> QED
      BY <3>3
  <2>4. Nat \subseteq N
    <3> HIDE DEF N
    <3> QED
      BY <2>2, <2>3, Induction
  <2>5. \A i \in I : start[i] \in Nat
    BY <1>1, <2>4
  <2>6. DOMAIN start = I
    BY <1>7
  <2> QED
    BY <1>7, <2>1, <2>5, <2>6
<1> DEFINE P == [i \in 1 .. Len(secs) |->
                    [data |-> secs[i].data, str |-> secs[i].str, start |-> start[i]]]
<1>9. Placed(secs) = P
  BY DEF Placed, start, n
<1>10. P \in Seq(Section) /\ Len(P) = n /\ \A i \in I : P[i] = [data |-> secs[i].data, str |-> secs[i].str, start |-> start[i]]
  <2>1. \A i \in 1 .. Len(secs) :
            [data |-> secs[i].data, str |-> secs[i].str, start |-> start[i]] \in Section
    BY <1>2, <1>8 DEF Section, n
  <2>2. Len(secs) \in Nat /\ Len(secs) = n
    BY <1>1 DEF n
  <2>3. P \in [1 .. Len(secs) -> Section]
    BY <2>1
  <2>4. P \in Seq(Section) /\ Len(P) = n
    BY <2>2, <2>3, SeqDef, LenProperties
  <2>5. \A i \in I : P[i] = [data |-> secs[i].data, str |-> secs[i].str, start |-> start[i]]
    BY <2>2
  <2> QED
    BY <2>4, <2>5
<1> HIDE DEF P
<1>11. \A i \in I : EndOf(P[i]) = start[i] + pad[i] /\ P[i].start = start[i]
  <2> SUFFICES ASSUME NEW i \in I PROVE EndOf(P[i]) = start[i] + pad[i] /\ P[i].start = start[i]
    OBVIOUS
  <2>1. P[i].data = secs[i].data /\ P[i].start = start[i]
    BY <1>10
  <2> QED
    BY <1>3, <2>1 DEF EndOf
<1>12. P # <<>>
  BY <1>1, <1>10, EmptySeq
<1>13. \A i \in I : P[i].data # <<>> /\ EndOf(P[i]) \in Nat /\ P[i].start < EndOf(P[i])
  <2>1. \A i \in I : EndOf(P[i]) \in Nat /\ P[i].start < EndOf(P[i])
    BY <1>3, <1>8, <1>11
  <2>2. ASSUME NEW i \in I PROVE P[i].data # <<>>
    <3>1. P[i].data = secs[i].data /\ i \in DOMAIN secs
      BY <1>1, <1>10
    <3> QED
      BY <3>1
  <2> QED
    BY <2>1, <2>2
<1>14. \A i \in 2 .. n : P[i].start = EndOf(P[i - 1])
  <2> SUFFICES ASSUME NEW i \in 2 .. n PROVE P[i].start = EndOf(P[i - 1])
    OBVIOUS
  <2>1. i \in I /\ i - 1 \in I /\ i # 1
    BY <1>1
  <2> QED
    BY <2>1, <1>8, <1>11
<1>15. P[1].start = 0
  BY <1>1, <1>8, <1>11
<1> QED
  BY <1>9, <1>10, <1>12, <1>13, <1>14, <1>15 DEF InARow

LEMMA MinProperties ==
    ASSUME NEW S \in SUBSET Nat, S # {}
    PROVE  Min(S) \in S /\ \A n \in S : Min(S) <= n
<1> DEFINE R == OpToRel(<, Nat)
<1>1. R = {p \in Nat \X Nat : p[1] < p[2]}
  BY DEF OpToRel
<1>2. IsWellFoundedOn(R, Nat)
  BY NatLessThanWellFounded
<1> HIDE DEF R
<1>3. PICK m \in S : \A k \in S : <<k, m>> \notin R
  BY <1>2, WFMin
<1>4. ASSUME NEW k \in S PROVE m <= k
  <2>1. k \in Nat /\ m \in Nat /\ (k < m => <<k, m>> \in R)
    BY <1>1
  <2> QED
    BY <1>3, <2>1
<1> QED
  BY <1>3, <1>4 DEF Min

LEMMA EndsGrow ==
    ASSUME NEW secs, InARow(secs), NEW i \in 1 .. Len(secs), NEW j \in i .. Len(secs)
    PROVE  EndOf(secs[i]) <= EndOf(secs[j])
<1> DEFINE S == {n \in Nat : i + n <= Len(secs) => EndOf(secs[i]) <= EndOf(secs[i + n])}
<1>1. Len(secs) \in Nat
  BY LenProperties DEF InARow
<1>2. 0 \in S
  BY <1>1 DEF InARow
<1>3. ASSUME NEW n \in Nat, n \in S PROVE n + 1 \in S
  <2> SUFFICES ASSUME i + (n + 1) <= Len(secs)
               PROVE  EndOf(secs[i]) <= EndOf(secs[i + (n + 1)])
    OBVIOUS
  <2>1. i + n \in 1 .. Len(secs) /\ i + (n + 1) \in 2 .. Len(secs) /\ (i + (n + 1)) - 1 = i + n
    BY <1>1
  <2>2. EndOf(secs[i]) <= EndOf(secs[i + n])
    BY <1>1, <1>3, <2>1
  <2>3. EndOf(secs[i + n]) = secs[i + (n + 1)].start
    BY <2>1 DEF InARow
  <2>4. /\ EndOf(secs[i]) \in Nat /\ EndOf(secs[i + n]) \in Nat /\ EndOf(secs[i + (n + 1)]) \in Nat
        /\ secs[i + (n + 1)].start < EndOf(secs[i + (n + 1)])
    BY <1>1, <2>1 DEF InARow
  <2> QED
    BY <2>2, <2>3, <2>4
<1>4. Nat \subseteq S
  <2> HIDE DEF S
  <2> QED
    BY <1>2, <1>3, Induction
<1>5. j - i \in S
  BY <1>1, <1>4
<1> QED
  BY <1>1, <1>5

Starts(secs) == (1 .. Len(secs) + 1) \X (0 .. InputSize(secs))

\* What is left to split from here on.
Remaining(secs, at) == (Len(secs) + 1 - at[1]) * (InputSize(secs) + 1) + (InputSize(secs) - at[2])

LEMMA GroupEndsLater ==
    ASSUME NEW secs, InARow(secs), NEW size \in Nat, size > 0,
           NEW at \in Starts(secs), at[1] <= Len(secs)
    PROVE  LET g == GroupAt(secs, size, at) IN
              /\ g \in MergeGroup
              /\ AfterGroup(secs, g) \in Starts(secs)
              /\ Remaining(secs, AfterGroup(secs, g)) < Remaining(secs, at)
<1> DEFINE L == Len(secs)
           M == InputSize(secs)
           g == GroupAt(secs, size, at)
           Full == {i \in at[1] .. L : EndOf(secs[i]) - at[2] >= size} \cup {L}
           last == Min(Full)
           end == EndOf(secs[last])
           to == AfterGroup(secs, g)
<1>1. L \in Nat /\ L > 0 /\ M = EndOf(secs[L]) /\ M \in Nat
  <2>1. L \in Nat /\ L > 0
    BY EmptySeq, LenProperties DEF InARow
  <2> QED
    BY <2>1 DEF InARow, InputSize
<1>2. at[1] \in 1 .. L /\ at[2] \in 0 .. M /\ at = <<at[1], at[2]>>
  BY <1>1 DEF Starts
<1>3. last \in at[1] .. L
  <2>1. Full \in SUBSET Nat /\ Full # {} /\ Full \subseteq at[1] .. L
    BY <1>1, <1>2
  <2> HIDE DEF Full
  <2> QED
    BY <2>1, MinProperties
<1>4. /\ g.first = at[1] /\ g.last = last /\ g.lo = at[2]
      /\ g.hi = IF secs[last].str /\ end - at[2] > size THEN at[2] + size ELSE end
      /\ g = [first |-> g.first, last |-> g.last, lo |-> g.lo, hi |-> g.hi]
  BY DEF GroupAt
<1> HIDE DEF last, g
<1>5. end \in 0 .. M
  <2>1. last \in 1 .. L /\ L \in last .. Len(secs)
    BY <1>1, <1>2, <1>3
  <2> QED
    BY <1>1, <2>1, EndsGrow DEF InARow
<1>6. g.hi \in 0 .. M /\ (g.hi # end => g.hi > at[2])
  BY <1>1, <1>2, <1>4, <1>5
<1>7. to \in Starts(secs) /\ to[2] = g.hi /\ to[1] \in at[1] .. L + 1
      /\ (to[1] = at[1] => g.hi > at[2])
  <2>1. to = <<IF g.hi = end THEN last + 1 ELSE last, g.hi>>
    BY <1>4 DEF AfterGroup
  <2>2. to[1] = (IF g.hi = end THEN last + 1 ELSE last) /\ to[2] = g.hi /\ to = <<to[1], to[2]>>
    BY <2>1
  <2>3. to[1] \in at[1] .. L + 1 /\ (to[1] = at[1] => g.hi > at[2])
    BY <1>1, <1>2, <1>3, <1>6, <2>2
  <2> QED
    BY <1>1, <1>2, <1>6, <2>2, <2>3 DEF Starts
<1> HIDE DEF to
<1>8. Remaining(secs, to) < Remaining(secs, at)
  <2> DEFINE a == L + 1 - at[1]
             b == L + 1 - to[1]
  <2>1. a \in Nat /\ b \in Nat /\ b <= a /\ to[2] \in 0 .. M /\ (b = a => to[2] > at[2])
    BY <1>1, <1>2, <1>6, <1>7
  <2>2. Remaining(secs, to) = b * (M + 1) + (M - to[2]) /\ Remaining(secs, at) = a * (M + 1) + (M - at[2])
    BY DEF Remaining
  <2> HIDE DEF a, b
  <2>3. CASE b = a
    BY <1>1, <1>2, <2>1, <2>2, <2>3
  <2>4. CASE b + 1 <= a
    <3> HIDE DEF M
    <3> DEFINE p == b * (M + 1)
               q == a * (M + 1)
    <3>1. (b + 1) * (M + 1) = p + (M + 1)
      BY <1>1, <2>1
    <3>2. (b + 1) * (M + 1) <= q
      BY <1>1, <2>1, <2>4
    <3>3. Remaining(secs, to) = p + (M - to[2]) /\ Remaining(secs, at) = q + (M - at[2])
      BY <2>2
    <3>4. p \in Nat /\ q \in Nat
      BY <1>1, <2>1
    <3> HIDE DEF p, q
    <3>5. p + (M + 1) <= q
      BY <3>1, <3>2
    <3>6. /\ M \in Nat /\ to[2] \in 0 .. M /\ at[2] \in 0 .. M
      BY <1>1, <1>2, <2>1
    <3> QED
      BY <3>3, <3>4, <3>5, <3>6
  <2> QED
    BY <2>1, <2>3, <2>4
<1>9. g \in MergeGroup
  BY <1>1, <1>2, <1>3, <1>4, <1>6 DEF MergeGroup
<1> QED
  BY <1>7, <1>8, <1>9 DEF g, to

-----------------------------------------------------------------------------
(* Whole blocks *)

LEMMA BlocksAdd ==
    ASSUME NEW n \in Nat, NEW k \in Nat, WholeBlocks(n), WholeBlocks(k)
    PROVE  WholeBlocks(n + k)
<1>1. PICK p \in Nat : n = p * BlockSize
  BY DEF WholeBlocks
<1>2. PICK q \in Nat : k = q * BlockSize
  BY DEF WholeBlocks
<1>3. BlockSize \in Nat
  BY MergingAssumption
<1>4. n + k = (p + q) * BlockSize
  BY <1>1, <1>2, <1>3
<1> QED
  BY <1>4 DEF WholeBlocks

LEMMA NoBlocks == WholeBlocks(0)
<1>1. 0 \in Nat /\ 0 = 0 * BlockSize
  BY MergingAssumption
<1> QED
  BY <1>1 DEF WholeBlocks

\* A place that is whole blocks after the start of a section is not in its padding.
LEMMA NotInPadding ==
    ASSUME NEW n \in Nat, n > 0, NEW a \in Nat, NEW b \in Nat, WholeBlocks(a), WholeBlocks(b),
           a <= b, b < a + Padded(n)
    PROVE  WholeBlocks(Padded(n)) /\ b - a < n
<1> DEFINE q == (n + BlockSize - 1) \div BlockSize
<1>1. BlockSize \in Nat /\ BlockSize > 0
  BY MergingAssumption
<1>2. q \in Int /\ BlockSize * q <= n + BlockSize - 1
  BY <1>1
<1>3. Padded(n) = q * BlockSize /\ Padded(n) \in Nat /\ Padded(n) > 0
  BY PaddedPositive DEF Padded
<1> HIDE DEF q
<1>4. q \in Nat
  <2> SUFFICES ASSUME q < 0 PROVE FALSE
    BY <1>2
  <2> QED
    BY <1>1, <1>2, <1>3
<1>5. PICK r \in Nat : a = r * BlockSize
  BY DEF WholeBlocks
<1>6. PICK s \in Nat : b = s * BlockSize
  BY DEF WholeBlocks
<1>7. s < r + q
  <2> SUFFICES ASSUME s >= r + q PROVE FALSE
    BY <1>4
  <2>1. s * BlockSize >= (r + q) * BlockSize
    BY <1>1, <1>4
  <2>2. (r + q) * BlockSize = a + Padded(n)
    BY <1>1, <1>2, <1>3, <1>5
  <2> QED
    BY <1>3, <1>6, <2>1, <2>2
<1>8. b <= a + Padded(n) - BlockSize
  <2>1. s + 1 <= r + q
    BY <1>4, <1>7
  <2>2. (s + 1) * BlockSize <= (r + q) * BlockSize
    BY <1>1, <1>4, <2>1
  <2>3. (s + 1) * BlockSize = b + BlockSize /\ (r + q) * BlockSize = a + Padded(n)
    BY <1>1, <1>3, <1>4, <1>5, <1>6
  <2> QED
    BY <1>1, <1>3, <2>2, <2>3
<1>9. Padded(n) <= n + BlockSize - 1
  BY <1>1, <1>2, <1>3
<1> QED
  BY <1>1, <1>3, <1>4, <1>8, <1>9 DEF WholeBlocks

LEMMA StartsWhole ==
    ASSUME NEW secs, InARow(secs)
    PROVE  /\ DOMAIN secs = 1 .. Len(secs) /\ Len(secs) \in Nat /\ Len(secs) > 0
           /\ InputSize(secs) \in Nat
           /\ \A i \in 1 .. Len(secs) :
                /\ secs[i] \in Section /\ Len(secs[i].data) \in Nat /\ Len(secs[i].data) > 0
                /\ secs[i].data \in Seq(Nat) /\ DOMAIN secs[i].data = 1 .. Len(secs[i].data)
                /\ secs[i].start \in Nat /\ WholeBlocks(secs[i].start)
                /\ EndOf(secs[i]) \in Nat /\ secs[i].start < EndOf(secs[i])
                /\ EndOf(secs[i]) = secs[i].start + Padded(Len(secs[i].data))
                /\ EndOf(secs[i]) <= InputSize(secs)
                /\ Padded(Len(secs[i].data)) \in Nat
                /\ WholeBlocks(Padded(Len(secs[i].data)))
                /\ WholeBlocks(EndOf(secs[i]))
<1> DEFINE n == Len(secs)
<1>1. DOMAIN secs = 1 .. n /\ n \in Nat /\ n > 0
  BY LenProperties, EmptySeq DEF InARow
<1>2. ASSUME NEW i \in 1 .. n
      PROVE /\ secs[i] \in Section /\ Len(secs[i].data) \in Nat /\ Len(secs[i].data) > 0
            /\ secs[i].data \in Seq(Nat) /\ DOMAIN secs[i].data = 1 .. Len(secs[i].data)
            /\ secs[i].start \in Nat
  <2>1. secs[i] \in Section
    BY <1>1, ElementOfSeq DEF InARow
  <2>2. secs[i].data \in Seq(Nat) /\ secs[i].start \in Nat /\ secs[i].data # <<>>
    BY <2>1 DEF Section, InARow
  <2>3. secs[i].data \in Seq(Nat) => Len(secs[i].data) \in Nat /\ DOMAIN secs[i].data = 1 .. Len(secs[i].data)
    BY LenProperties
  <2> QED
    BY <2>1, <2>2, <2>3, EmptySeq
<1>3. ASSUME NEW i \in 1 .. n
      PROVE  /\ EndOf(secs[i]) \in Nat /\ secs[i].start < EndOf(secs[i])
             /\ EndOf(secs[i]) = secs[i].start + Padded(Len(secs[i].data))
             /\ EndOf(secs[i]) <= InputSize(secs)
             /\ Padded(Len(secs[i].data)) \in Nat
             /\ WholeBlocks(Padded(Len(secs[i].data)))
  <2>1. EndOf(secs[i]) <= InputSize(secs)
    BY <1>1, EndsGrow DEF InputSize
  <2>2. Padded(Len(secs[i].data)) \in Nat /\ Padded(Len(secs[i].data)) > 0
    BY <1>2, PaddedPositive
  <2>4. WholeBlocks(Padded(Len(secs[i].data)))
    BY <1>2, <2>2, NoBlocks, NotInPadding
  <2> QED
    BY <1>1, <2>1, <2>2, <2>4 DEF InARow, EndOf
<1> DEFINE S == {k \in Nat : k \in 1 .. n => WholeBlocks(secs[k].start)}
<1>4. 0 \in S
  OBVIOUS
<1>5. ASSUME NEW k \in Nat, k \in S PROVE k + 1 \in S
  <2> SUFFICES ASSUME k + 1 \in 1 .. n PROVE WholeBlocks(secs[k + 1].start)
    OBVIOUS
  <2>1. CASE k = 0
    BY <1>1, <2>1, NoBlocks DEF InARow
  <2>2. CASE k # 0
    <3>1. k \in 1 .. n /\ k + 1 \in 2 .. n /\ (k + 1) - 1 = k
      BY <1>1, <2>2
    <3>2. WholeBlocks(secs[k].start) /\ WholeBlocks(Padded(Len(secs[k].data)))
      BY <1>3, <1>5, <3>1
    <3>3. secs[k + 1].start = secs[k].start + Padded(Len(secs[k].data))
      BY <1>3, <3>1 DEF InARow
    <3> QED
      BY <1>2, <1>3, <3>1, <3>2, <3>3, BlocksAdd
  <2> QED
    BY <2>1, <2>2
<1>6. Nat \subseteq S
  <2> HIDE DEF S
  <2> QED
    BY <1>4, <1>5, Induction
<1>7. ASSUME NEW i \in 1 .. n PROVE WholeBlocks(secs[i].start) /\ WholeBlocks(EndOf(secs[i]))
  <2>1. WholeBlocks(secs[i].start)
    BY <1>1, <1>6
  <2> QED
    BY <1>2, <1>3, <2>1, BlocksAdd
<1>8. InputSize(secs) \in Nat
  BY <1>1, <1>3 DEF InputSize
<1> QED
  BY <1>1, <1>2, <1>3, <1>7, <1>8

-----------------------------------------------------------------------------
(* split_sections, group by group *)

LEMMA RemainingBounded ==
    ASSUME NEW secs, InARow(secs), NEW at \in Starts(secs)
    PROVE  /\ Remaining(secs, at) \in Nat
           /\ Remaining(secs, at) <= Len(secs) * (InputSize(secs) + 1) + InputSize(secs)
           /\ Len(secs) * (InputSize(secs) + 1) + InputSize(secs) \in Nat
<1> DEFINE L == Len(secs)
           M == InputSize(secs)
           a == L + 1 - at[1]
<1>1. L \in Nat /\ M \in Nat /\ a \in 0 .. L /\ at[2] \in 0 .. M
  BY StartsWhole DEF Starts
<1>2. Remaining(secs, at) = a * (M + 1) + (M - at[2])
  BY DEF Remaining
<1> HIDE DEF L, M, a
<1>3. a * (M + 1) <= L * (M + 1) /\ a * (M + 1) \in Nat /\ L * (M + 1) \in Nat
  BY <1>1
<1> DEFINE p == a * (M + 1)
           q == L * (M + 1)
<1>4. p <= q /\ p \in Nat /\ q \in Nat /\ Remaining(secs, at) = p + (M - at[2])
  BY <1>2, <1>3
<1> HIDE DEF p, q
<1>5. Remaining(secs, at) \in Nat /\ Remaining(secs, at) <= q + M /\ q + M \in Nat
  BY <1>1, <1>4
<1> QED
  BY <1>5 DEF q, L, M

LEMMA SplitEquation ==
    ASSUME NEW secs, InARow(secs), NEW size \in Nat, size > 0
    PROVE  \E from :
              /\ SplitSections(secs, size) = from[<<1, 0>>]
              /\ \A at \in Starts(secs) :
                    from[at] = IF at[1] > Len(secs) THEN <<>>
                               ELSE <<GroupAt(secs, size, at)>>
                                      \o from[AfterGroup(secs, GroupAt(secs, size, at))]
<1> DEFINE T == Starts(secs)
           V == Seq(MergeGroup)
           group(at) == GroupAt(secs, size, at)
           to(at) == AfterGroup(secs, group(at))
           stop == {at \in T : at[1] > Len(secs)}
           m == [at \in T |-> Remaining(secs, at)]
           bound == Len(secs) * (InputSize(secs) + 1) + InputSize(secs)
           next == [at \in T |-> IF at \in stop THEN at ELSE to(at)]
           base == [at \in T |-> <<>>]
           step == [at \in T |-> [v \in V |-> IF at \in stop THEN v ELSE <<group(at)>> \o v]]
           F(f) == [at \in T |-> IF at[1] > Len(secs) THEN <<>> ELSE <<group(at)>> \o f[to(at)]]
<1>1. Len(secs) \in Nat /\ Len(secs) > 0
  BY StartsWhole
<1>2. ASSUME NEW at \in T, at \notin stop
      PROVE  group(at) \in MergeGroup /\ to(at) \in T /\ Remaining(secs, to(at)) < Remaining(secs, at)
  <2>1. at[1] <= Len(secs)
    BY <1>1, <1>2 DEF Starts
  <2> QED
    BY <2>1, GroupEndsLater
<1>3. <<1, 0>> \in T
  BY <1>1, StartsWhole DEF Starts
<1> HIDE DEF T, group, to
<1>4. bound \in Nat /\ m \in [T -> 0 .. bound]
  <2>1. bound \in Nat /\ \A at \in T : Remaining(secs, at) \in Nat /\ Remaining(secs, at) <= bound
    BY <1>3, RemainingBounded DEF T
  <2> HIDE DEF bound
  <2> QED
    BY <2>1
<1>5. next \in [T -> T] /\ stop \in SUBSET T
  BY <1>2
<1>6. base \in [T -> V]
  BY EmptySeq
<1>7. step \in [T -> [V -> V]]
  <2>1. ASSUME NEW at \in T, NEW v \in V, at \notin stop PROVE <<group(at)>> \o v \in V
    <3>1. <<group(at)>> \in V
      BY <1>2, <2>1
    <3> QED
      BY <3>1, ConcatProperties
  <2> HIDE DEF V
  <2> QED
    BY <2>1
<1>8. \A at \in T : at \notin stop => m[next[at]] < m[at]
  BY <1>2, <1>5
<1>9. PICK f \in [T -> V] : Solves(f, T, stop, next, base, step)
  <2> HIDE DEF V, bound, m, next, base, step, stop
  <2>1. Recursion(T, V, bound, m, stop, next, base, step)
    BY <1>4, <1>5, <1>6, <1>7, <1>8 DEF Recursion
  <2> QED
    BY <2>1, RecursionSolved
<1>10. f = F(f)
  <2>1. ASSUME NEW at \in T
        PROVE  f[at] = F(f)[at]
    <3>1. CASE at \in stop
      BY <1>9, <3>1 DEF Solves
    <3>2. CASE at \notin stop
      <4>1. next[at] = to(at) /\ f[to(at)] \in V
        BY <1>2, <1>9, <3>2
      <4>2. step[at][f[to(at)]] = <<group(at)>> \o f[to(at)]
        <5> HIDE DEF V
        <5> QED
          BY <3>2, <4>1
      <4> HIDE DEF step, next, V
      <4> QED
        BY <1>9, <3>2, <4>1, <4>2 DEF Solves
    <3> QED
      BY <3>1, <3>2
  <2> HIDE DEF base, step, next, V
  <2> QED
    BY <2>1
<1> DEFINE from == CHOOSE h : h = F(h)
<1>11. from = F(from)
  <2> HIDE DEF F
  <2> QED
    BY <1>10
<1>12. SplitSections(secs, size) = from[<<1, 0>>]
  BY DEF SplitSections, T, Starts, group, to
<1> HIDE DEF from
<1>13. \A at \in T : from[at] = IF at[1] > Len(secs) THEN <<>> ELSE <<group(at)>> \o from[to(at)]
  BY <1>11
<1> QED
  BY <1>12, <1>13 DEF T, group, to

LEMMA ConsProperties ==
    ASSUME NEW S, NEW x \in S, NEW s \in Seq(S)
    PROVE  /\ <<x>> \o s \in Seq(S) /\ Len(<<x>> \o s) = Len(s) + 1 /\ <<x>> \o s # <<>>
           /\ (<<x>> \o s)[1] = x
           /\ \A k \in 2 .. Len(s) + 1 : (<<x>> \o s)[k] = s[k - 1]
<1>1. <<x>> \in Seq(S) /\ Len(<<x>>) = 1 /\ <<x>>[1] = x
  OBVIOUS
<1>2. Len(s) \in Nat
  BY LenProperties
<1>3. /\ <<x>> \o s \in Seq(S) /\ Len(<<x>> \o s) = 1 + Len(s)
      /\ \A k \in 1 .. 1 + Len(s) : (<<x>> \o s)[k] = IF k <= 1 THEN <<x>>[k] ELSE s[k - 1]
  BY <1>1, ConcatProperties
<1>4. <<x>> \o s # <<>>
  BY <1>2, <1>3, EmptySeq
<1> QED
  BY <1>1, <1>2, <1>3, <1>4

LEMMA StartsLater ==
    ASSUME NEW secs, InARow(secs), NEW i \in 1 .. Len(secs), NEW j \in 1 .. Len(secs), i < j
    PROVE  EndOf(secs[i]) <= secs[j].start
<1>1. Len(secs) \in Nat
  BY StartsWhole
<1>2. j \in 2 .. Len(secs) /\ j - 1 \in i .. Len(secs)
  BY <1>1
<1>3. secs[j].start = EndOf(secs[j - 1])
  BY <1>2 DEF InARow
<1> QED
  BY <1>2, <1>3, EndsGrow

\* Where a group starts: with a section, or inside one that holds strings.
Proper(secs, at) ==
    \/ at[1] = Len(secs) + 1 /\ at[2] = InputSize(secs)
    \/ /\ at[1] \in 1 .. Len(secs)
       /\ secs[at[1]].start <= at[2] /\ at[2] < EndOf(secs[at[1]])
       /\ at[2] = secs[at[1]].start \/ secs[at[1]].str
       /\ WholeBlocks(at[2])

LEMMA GroupFits ==
    ASSUME NEW secs, InARow(secs), NEW size \in Nat, size > 0, WholeBlocks(size),
           NEW at \in Starts(secs), at[1] <= Len(secs), Proper(secs, at)
    PROVE  LET g == GroupAt(secs, size, at) IN
              /\ Fits(secs, g) /\ g.lo = at[2]
              /\ AfterGroup(secs, g)[2] = g.hi
              /\ Proper(secs, AfterGroup(secs, g))
<1> DEFINE L == Len(secs)
           g == GroupAt(secs, size, at)
           Full == {i \in at[1] .. L : EndOf(secs[i]) - at[2] >= size} \cup {L}
           last == Min(Full)
           end == EndOf(secs[last])
           to == AfterGroup(secs, g)
<1>1. /\ L \in Nat /\ L > 0 /\ at[1] \in 1 .. L /\ at[2] \in Nat
      /\ \A i \in 1 .. L : secs[i].start \in Nat /\ EndOf(secs[i]) \in Nat
  BY StartsWhole DEF Starts
<1>2. /\ secs[at[1]].start <= at[2] /\ at[2] < EndOf(secs[at[1]])
      /\ at[2] = secs[at[1]].start \/ secs[at[1]].str
      /\ WholeBlocks(at[2])
  BY <1>1 DEF Proper
<1>3. last \in at[1] .. L /\ last \in Full /\ \A i \in Full : last <= i
  <2>1. Full \in SUBSET Nat /\ Full # {} /\ Full \subseteq at[1] .. L
    BY <1>1
  <2> HIDE DEF Full
  <2> QED
    BY <2>1, MinProperties
<1>4. /\ g.first = at[1] /\ g.last = last /\ g.lo = at[2]
      /\ g.hi = IF secs[last].str /\ end - at[2] > size THEN at[2] + size ELSE end
  BY DEF GroupAt
<1>5. \A i \in at[1] .. L : i < last => EndOf(secs[i]) < at[2] + size
  <2> SUFFICES ASSUME NEW i \in at[1] .. L, i < last PROVE EndOf(secs[i]) < at[2] + size
    OBVIOUS
  <2>1. i \notin Full
    <3> HIDE DEF Full, last
    <3> QED
      BY <1>1, <1>3
  <2>2. ~(EndOf(secs[i]) - at[2] >= size)
    BY <2>1
  <2> HIDE DEF last
  <2> QED
    BY <1>1, <2>2
<1>6. to = <<IF g.hi = end THEN last + 1 ELSE last, g.hi>>
  BY <1>4 DEF AfterGroup
<1> HIDE DEF last, g, to
<1>7. last \in 1 .. L /\ L = Len(secs) /\ end \in Nat /\ secs[last].start < end
  BY <1>1, <1>3, StartsWhole
<1>8. end > at[2]
  <2>1. CASE last = at[1]
    BY <1>2, <2>1
  <2>2. CASE last # at[1]
    <3>1. at[1] < last
      BY <1>1, <1>3, <2>2
    <3>2. EndOf(secs[at[1]]) <= secs[last].start
      BY <1>1, <1>7, <3>1, StartsLater
    <3> QED
      BY <1>1, <1>2, <1>7, <3>2
  <2> QED
    BY <2>1, <2>2
<1>9. g.hi > at[2] /\ g.hi <= end /\ g.hi \in Nat /\ WholeBlocks(g.hi)
  <2>1. WholeBlocks(end)
    BY <1>7, StartsWhole
  <2>2. WholeBlocks(at[2] + size)
    BY <1>1, <1>2, BlocksAdd
  <2> QED
    BY <1>1, <1>4, <1>7, <1>8, <2>1, <2>2
<1>10. g.hi # end => secs[last].str /\ g.hi = at[2] + size
  BY <1>4
<1>11. secs[last].start < g.hi
  <2>1. CASE g.hi = end
    BY <1>7, <2>1
  <2>2. CASE g.hi # end /\ last = at[1]
    BY <1>1, <1>2, <1>9, <2>2
  <2>3. CASE g.hi # end /\ last # at[1]
    <3>1. last \in 2 .. L /\ last - 1 \in at[1] .. L /\ last - 1 < last
      BY <1>1, <1>3, <2>3
    <3>2. secs[last].start = EndOf(secs[last - 1])
      BY <3>1 DEF InARow
    <3> QED
      BY <1>5, <1>10, <2>3, <3>1, <3>2
  <2> QED
    BY <2>1, <2>2, <2>3
<1>12. ASSUME NEW i \in at[1] .. last, ~secs[i].str
       PROVE  at[2] <= secs[i].start /\ secs[i].start < g.hi
  <2>0. i \in 1 .. L
    BY <1>1, <1>7, <1>12
  <2>1. at[2] <= secs[i].start
    <3>1. CASE i = at[1]
      BY <1>1, <1>2, <1>12, <3>1
    <3>2. CASE i # at[1]
      <4>1. EndOf(secs[at[1]]) <= secs[i].start
        BY <1>1, <2>0, <1>12, <3>2, StartsLater
      <4> QED
        BY <1>1, <1>2, <2>0, <4>1
    <3> QED
      BY <3>1, <3>2
  <2>2. secs[i].start < g.hi
    <3>1. CASE i = last
      BY <1>11, <3>1
    <3>2. CASE i # last
      <4>1. EndOf(secs[i]) <= secs[last].start
        BY <1>1, <1>7, <1>12, <2>0, <3>2, StartsLater
      <4>2. secs[i].start < EndOf(secs[i])
        BY <2>0, StartsWhole
      <4> QED
        BY <1>1, <1>7, <1>9, <1>11, <2>0, <4>1, <4>2
    <3> QED
      BY <3>1, <3>2
  <2> QED
    BY <2>1, <2>2
<1>13. ASSUME NEW i \in at[1] .. last, secs[i].start < at[2]
       PROVE  at[2] - secs[i].start < Len(secs[i].data)
  <2>0. i \in 1 .. L
    BY <1>1, <1>7, <1>13
  <2>1. i = at[1]
    <3> SUFFICES ASSUME i # at[1] PROVE FALSE
      OBVIOUS
    <3>1. EndOf(secs[at[1]]) <= secs[i].start
      BY <1>1, <2>0, <1>13, StartsLater
    <3> QED
      BY <1>1, <1>2, <1>13, <2>0, <3>1
  <2>2. /\ Len(secs[i].data) \in Nat /\ Len(secs[i].data) > 0 /\ WholeBlocks(secs[i].start)
        /\ EndOf(secs[i]) = secs[i].start + Padded(Len(secs[i].data))
    BY <2>0, StartsWhole
  <2> QED
    BY <1>1, <1>2, <2>0, <2>1, <2>2, NotInPadding
<1>14. Fits(secs, g)
  <2>1. g.last \in 1 .. Len(secs) /\ g.first \in 1 .. g.last
    BY <1>1, <1>3, <1>4, <1>7
  <2> QED
    BY <1>2, <1>4, <1>9, <1>12, <1>13, <2>1 DEF Fits
<1>15. Proper(secs, to)
  <2>1. CASE g.hi # end
    <3>1. to[1] = last /\ to[2] = g.hi
      BY <1>6, <2>1
    <3> QED
      <4>1. secs[last].start <= g.hi /\ g.hi < end /\ secs[last].str
        BY <1>1, <1>7, <1>9, <1>10, <1>11, <2>1
      <4> QED
        BY <1>7, <1>9, <3>1, <4>1 DEF Proper
  <2>2. CASE g.hi = end /\ last = L
    BY <1>6, <2>2 DEF Proper, InputSize
  <2>3. CASE g.hi = end /\ last # L
    <3>1. to[1] = last + 1 /\ to[2] = end /\ last + 1 \in 2 .. L /\ (last + 1) - 1 = last
      BY <1>1, <1>6, <1>7, <2>3
    <3>2. secs[last + 1].start = end /\ last + 1 \in 1 .. L
      BY <3>1 DEF InARow
    <3>3. end < EndOf(secs[last + 1])
      BY <3>2, StartsWhole
    <3> QED
      BY <1>7, <1>9, <2>3, <3>1, <3>2, <3>3 DEF Proper
  <2> QED
    BY <2>1, <2>2, <2>3
<1> QED
  BY <1>4, <1>6, <1>14, <1>15 DEF g, to

LEMMA GroupsFollow ==
    ASSUME NEW secs, InARow(secs), NEW size \in Nat, size > 0
    PROVE  /\ SplitSections(secs, size) \in Seq(MergeGroup) /\ SplitSections(secs, size) # <<>>
           /\ WholeBlocks(size) => Follow(secs, SplitSections(secs, size), 0)
<1> DEFINE T == Starts(secs)
           m == [at \in T |-> Remaining(secs, at)]
           group(at) == GroupAt(secs, size, at)
           to(at) == AfterGroup(secs, group(at))
<1>1. PICK from : /\ SplitSections(secs, size) = from[<<1, 0>>]
                  /\ \A at \in T : from[at] = IF at[1] > Len(secs) THEN <<>>
                                              ELSE <<group(at)>> \o from[to(at)]
  BY SplitEquation
<1>2. m \in [T -> Nat]
  BY RemainingBounded
<1>3. Len(secs) \in Nat /\ Len(secs) > 0 /\ InputSize(secs) \in Nat
  BY StartsWhole
<1>4. <<1, 0>> \in T
  BY <1>3 DEF Starts
<1>5. ASSUME NEW at \in T, ~(at[1] > Len(secs))
      PROVE  /\ group(at) \in MergeGroup /\ to(at) \in T /\ m[to(at)] < m[at]
             /\ at[1] <= Len(secs)
  <2>1. at[1] <= Len(secs)
    BY <1>3, <1>5 DEF Starts
  <2>2. group(at) \in MergeGroup /\ to(at) \in T /\ Remaining(secs, to(at)) < Remaining(secs, at)
    BY <2>1, GroupEndsLater
  <2> QED
    BY <2>1, <2>2
<1>6. ASSUME NEW at \in T, ~(at[1] > Len(secs)), WholeBlocks(size), Proper(secs, at)
      PROVE  Fits(secs, group(at)) /\ group(at).lo = at[2] /\ to(at)[2] = group(at).hi
             /\ Proper(secs, to(at))
  BY <1>5, <1>6, GroupFits
<1> HIDE DEF T, group, to, m
<1> DEFINE P == {at \in T : from[at] \in Seq(MergeGroup)}
           Q == {at \in T : WholeBlocks(size) /\ Proper(secs, at) => Follow(secs, from[at], at[2])}
<1>7. T \subseteq P
  <2>1. ASSUME NEW at \in T, \A u \in T : m[u] < m[at] => u \in P
        PROVE  at \in P
    <3>1. CASE at[1] > Len(secs)
      BY <1>1, <3>1, EmptySeq
    <3>2. CASE ~(at[1] > Len(secs))
      <4>1. group(at) \in MergeGroup /\ from[to(at)] \in Seq(MergeGroup)
        BY <1>5, <2>1, <3>2
      <4>2. from[at] = <<group(at)>> \o from[to(at)]
        BY <1>1, <3>2
      <4>3. from[at] \in Seq(MergeGroup)
        BY <4>1, <4>2, ConsProperties
      <4> QED
        BY <4>3
    <3> QED
      BY <3>1, <3>2
  <2> HIDE DEF P
  <2> QED
    BY <1>2, <2>1, MeasureInduction
<1>8. T \subseteq Q
  <2>1. ASSUME NEW at \in T, \A u \in T : m[u] < m[at] => u \in Q
        PROVE  at \in Q
    <3> SUFFICES ASSUME WholeBlocks(size), Proper(secs, at)
                 PROVE  Follow(secs, from[at], at[2])
      OBVIOUS
    <3>1. CASE at[1] > Len(secs)
      <4>0. from[at] = <<>>
        BY <1>1, <3>1
      <4>1. at[2] = InputSize(secs)
        BY <1>3, <3>1 DEF Proper
      <4>2. from[at] \in Seq(MergeGroup) /\ Len(from[at]) = 0
        BY <4>0, EmptySeq
      <4> QED
        BY <4>0, <4>1, <4>2 DEF Follow
    <3>2. CASE ~(at[1] > Len(secs))
      <4> DEFINE g == group(at)
                 rest == from[to(at)]
                 gs == from[at]
      <4>1. g \in MergeGroup /\ to(at) \in T /\ Fits(secs, g) /\ g.lo = at[2] /\ to(at)[2] = g.hi
        BY <1>5, <1>6, <3>2
      <4>2. Follow(secs, rest, g.hi)
        <5>1. to(at) \in Q /\ Proper(secs, to(at))
          BY <1>5, <1>6, <2>1, <3>2
        <5> QED
          BY <4>1, <5>1
      <4>3. gs = <<g>> \o rest /\ rest \in Seq(MergeGroup)
        BY <1>1, <1>7, <3>2, <4>1
      <4> HIDE DEF g, rest, gs
      <4>4. /\ gs \in Seq(MergeGroup) /\ Len(gs) = Len(rest) + 1 /\ gs # <<>> /\ gs[1] = g
            /\ \A k \in 2 .. Len(rest) + 1 : gs[k] = rest[k - 1]
        BY <4>1, <4>3, ConsProperties
      <4>5. Len(rest) \in Nat /\ (rest = <<>> <=> Len(rest) = 0)
        BY <4>3, LenProperties, EmptySeq
      <4>6. \A k \in 1 .. Len(gs) : Fits(secs, gs[k])
        <5> SUFFICES ASSUME NEW k \in 1 .. Len(gs) PROVE Fits(secs, gs[k])
          OBVIOUS
        <5>1. CASE k = 1
          BY <4>1, <4>4, <5>1
        <5>2. CASE k # 1
          <6>1. k \in 2 .. Len(rest) + 1 /\ k - 1 \in 1 .. Len(rest)
            BY <4>4, <4>5, <5>2
          <6> QED
            BY <4>2, <4>4, <6>1 DEF Follow
        <5> QED
          BY <5>1, <5>2
      <4>7. ASSUME NEW k \in 2 .. Len(gs) PROVE gs[k].lo = gs[k - 1].hi
        <5>1. k \in 2 .. Len(rest) + 1 /\ k - 1 \in 1 .. Len(rest) /\ rest # <<>>
          BY <4>4, <4>5, <4>7
        <5>2. gs[k] = rest[k - 1]
          BY <4>4, <5>1
        <5>3. CASE k = 2
          <6>1. rest[1].lo = g.hi
            BY <4>2, <5>1 DEF Follow
          <6> QED
            BY <4>4, <5>2, <5>3, <6>1
        <5>4. CASE k # 2
          <6>1. k - 1 \in 2 .. Len(rest) /\ k - 1 \in 2 .. Len(rest) + 1 /\ (k - 1) - 1 = k - 2
            BY <4>5, <5>1, <5>4
          <6>2. rest[k - 1].lo = rest[(k - 1) - 1].hi
            BY <4>2, <6>1 DEF Follow
          <6>3. gs[k - 1] = rest[(k - 1) - 1]
            BY <4>4, <6>1
          <6> QED
            BY <5>2, <6>2, <6>3
        <5> QED
          BY <5>3, <5>4
      <4>8. gs[Len(gs)].hi = InputSize(secs)
        <5>1. CASE rest = <<>>
          BY <4>2, <4>4, <4>5, <5>1 DEF Follow
        <5>2. CASE rest # <<>>
          <6>1. Len(gs) \in 2 .. Len(rest) + 1 /\ Len(gs) - 1 = Len(rest)
            BY <4>4, <4>5, <5>2
          <6>2. gs[Len(gs)] = rest[Len(rest)]
            BY <4>4, <6>1
          <6> QED
            BY <4>2, <5>2, <6>2 DEF Follow
        <5> QED
          BY <5>1, <5>2
      <4>9. gs[1].lo = at[2]
        BY <4>1, <4>4
      <4> QED
        BY <4>4, <4>6, <4>7, <4>8, <4>9 DEF Follow, gs
    <3> QED
      BY <3>1, <3>2
  <2> HIDE DEF Q
  <2> QED
    BY <1>2, <2>1, MeasureInduction
<1>9. SplitSections(secs, size) \in Seq(MergeGroup)
  BY <1>1, <1>4, <1>7
<1>10. SplitSections(secs, size) # <<>>
  <2>1. ~(<<1, 0>>[1] > Len(secs))
    BY <1>3
  <2>2. from[<<1, 0>>] = <<group(<<1, 0>>)>> \o from[to(<<1, 0>>)]
    BY <1>1, <1>4, <2>1
  <2>3. group(<<1, 0>>) \in MergeGroup /\ from[to(<<1, 0>>)] \in Seq(MergeGroup)
    BY <1>4, <1>5, <1>7, <2>1
  <2> QED
    BY <1>1, <2>2, <2>3, ConsProperties
<1>11. Proper(secs, <<1, 0>>)
  <2>1. secs[1].start = 0 /\ 1 \in 1 .. Len(secs) /\ secs[1].start < EndOf(secs[1])
    BY <1>3, StartsWhole DEF InARow
  <2> QED
    BY <2>1, NoBlocks DEF Proper
<1>12. ASSUME WholeBlocks(size) PROVE Follow(secs, SplitSections(secs, size), 0)
  <2>1. <<1, 0>> \in Q /\ <<1, 0>>[2] = 0
    BY <1>4, <1>8
  <2> QED
    BY <1>1, <1>11, <1>12, <2>1
<1> QED
  BY <1>9, <1>10, <1>12

-----------------------------------------------------------------------------
(* The initial state *)

LEMMA InitInput == Init => InputOK
<1>0. SUFFICES ASSUME Init PROVE InputOK
  OBVIOUS
<1>1. PICK i \in Inputs : /\ sections = Placed(i.sections)
                          /\ groups = SplitSections(Placed(i.sections), i.size)
  BY <1>0 DEF Init
<1>2. /\ i.sections \in Seq(RawSection) /\ i.sections # <<>>
      /\ \A k \in DOMAIN i.sections : i.sections[k].data # <<>>
      /\ i.size \in Nat /\ i.size > 0 /\ i.size % BlockSize = 0
  BY InputsAssumption DEF InputType, RawSection
<1>3. InARow(sections)
  BY <1>1, <1>2, SectionsPlaced
<1>4. WholeBlocks(i.size)
  <2>1. BlockSize \in Nat /\ BlockSize > 0
    BY MergingAssumption
  <2>2. ASSUME NEW n \in Nat, n % BlockSize = 0 PROVE WholeBlocks(n)
    <3> DEFINE q == n \div BlockSize
    <3>1. n % BlockSize = n - BlockSize * (n \div BlockSize)
      BY <2>1
    <3>2. q \in Nat
      BY <2>1
    <3>3. n = BlockSize * q
      BY <2>1, <2>2, <3>1
    <3> HIDE DEF q
    <3>4. n = q * BlockSize
      BY <2>1, <3>2, <3>3
    <3> QED
      BY <3>2, <3>4 DEF WholeBlocks
  <2> QED
    BY <1>2, <2>2
<1>5. Follow(sections, groups, 0)
  BY <1>1, <1>2, <1>3, <1>4, GroupsFollow
<1> QED
  BY <1>3, <1>5, StartsWhole DEF InputOK, SectionsOK

LEMMA InitShared == Init => SharedOK /\ groups \in Seq(MergeGroup)
<1>0. SUFFICES ASSUME Init PROVE SharedOK /\ groups \in Seq(MergeGroup)
  OBVIOUS
<1>1. PICK i \in Inputs : /\ groups = SplitSections(Placed(i.sections), i.size)
                          /\ capacity = NumBuckets * i.parallelism
  BY <1>0 DEF Init
<1>2. /\ i.sections \in Seq(RawSection) /\ i.sections # <<>>
      /\ \A k \in DOMAIN i.sections : i.sections[k].data # <<>>
      /\ i.size \in Nat /\ i.size > 0 /\ i.parallelism \in Nat /\ i.parallelism > 0
  BY InputsAssumption DEF InputType, RawSection
<1>3. groups \in Seq(MergeGroup) /\ groups # <<>>
  BY <1>1, <1>2, SectionsPlaced, GroupsFollow
<1>4. Len(groups) \in Nat \ {0}
  BY <1>3, EmptySeq
<1>5. capacity \in Nat /\ capacity >= NumBuckets
  <2>1. NumBuckets \in Nat /\ NumBuckets > 0
    BY MergingAssumption
  <2>2. NumBuckets * i.parallelism >= NumBuckets /\ NumBuckets * i.parallelism \in Nat
    BY <1>2, <2>1
  <2> QED
    BY <1>1, <2>2
<1>6. popped = 0 /\ idle = 0 /\ available = capacity /\ errors = FALSE /\ result = "running"
  BY <1>0 DEF Init
<1>7. errors \in BOOLEAN /\ result \in {"running", "ok", "error"}
  BY <1>6
<1>8. popped \in 0 .. Len(groups) /\ idle \in Nat /\ available \in Nat
  BY <1>4, <1>5, <1>6
<1> QED
  BY <1>3, <1>4, <1>5, <1>7, <1>8 DEF SharedOK, Reserved

LEMMA InitMerge == Init => MergeInv
<1>0. SUFFICES ASSUME Init PROVE MergeInv
  OBVIOUS
<1>1. SharedOK /\ NumBuckets \in Nat /\ NumBuckets > 0
  BY <1>0, InitShared, MergingAssumption
<1>2. Len(groups) \in Nat /\ Len(groups) > 0 /\ Group = 1 .. Len(groups) /\ Bucket = 0 .. NumBuckets - 1
      /\ Spawner = 0 .. NumBuckets /\ Main = NumBuckets
  BY <1>1 DEF SharedOK, Group, Bucket, Spawner, Main
<1>3. GroupsOK
  BY <1>0, <1>1, <1>2 DEF Init, GroupsOK
<1>4. \A g \in Group, b \in Bucket : ~Handed(g, b)
  BY <1>0 DEF Handed, Init
<1>5. pc = [w \in Spawner |-> IF w = Main THEN "load" ELSE "slot"] /\ Main \in Spawner
  <2>1. pc = [w \in Spawner |-> IF w = Main THEN "load" ELSE "slot"]
    BY <1>0 DEF Init
  <2>2. Main \in Spawner
    BY <1>1, <1>2
  <2> QED
    BY <2>1, <2>2
<1>6. BucketsOK
  <2>1. \A b \in Bucket : pc[b] = "slot" /\ bucket[b].next = 1
    <3>1. \A b \in Bucket : b # Main /\ b \in Spawner
      BY <1>1, <1>2
    <3>2. /\ pc = [w \in Spawner |-> IF w = Main THEN "load" ELSE "slot"]
          /\ bucket = [b \in Bucket |-> [next |-> 1, strings |-> <<>>]]
      BY <1>0 DEF Init
    <3> QED
      BY <3>1, <3>2
  <2>2. \A g \in Group, b \in Bucket : slot[g][b] = IF g = 1 THEN "Waiting" ELSE "Empty"
    <3>1. slot = [g \in Group |-> [b \in Bucket |-> IF g = 1 THEN "Waiting" ELSE "Empty"]]
      BY <1>0 DEF Init
    <3> QED
      BY <3>1
  <2>3. ASSUME NEW b \in Bucket PROVE BucketOK(b)
    <3>1. bucket[b].next = 1 /\ pc[b] = "slot"
      BY <2>1
    <3>2. \A g \in Group : g = 1 => SlotOfNext(b, g)
      BY <1>4, <2>2, <3>1 DEF SlotOfNext, Looping
    <3>3. \A g \in Group : ~(g < 1) /\ (g > 1 => slot[g][b] = "Empty")
      BY <1>2, <2>2
    <3>4. 1 \in 1 .. Len(groups) + 1 /\ ~(1 > Len(groups))
      BY <1>2
    <3>5. \A g \in Group : ~Handed(g, b)
      BY <1>4
    <3> HIDE DEF Bucket
    <3>6. \A g \in Group : g > 1 => slot[g][b] = IF Handed(g, b) THEN "Strings" ELSE "Empty"
      BY <3>3, <3>5
    <3> QED
      BY <3>1, <3>2, <3>3, <3>4, <3>6 DEF BucketOK
  <2>4. pc[Main] = "load" /\ pc \in [Spawner -> {"slot", "work", "load", "exchange", "finished", "dropped"}]
    BY <1>2, <1>5
  <2>5. read \in [Spawner -> Nat] /\ \A w \in Spawner : pc[w] # "exchange"
    BY <1>0, <1>2 DEF Init
  <2>6. slot \in [Group -> [Bucket -> {"Empty", "Waiting", "Strings"}]]
    BY <1>0 DEF Init
  <2>7. bucket \in [Bucket -> [next : Nat, strings : {bucket[c].strings : c \in Bucket}]]
    BY <1>0 DEF Init
  <2> QED
    BY <2>3, <2>4, <2>5, <2>6, <2>7 DEF BucketsOK, Looping
<1>7. PoolOK
  <2>1. InHand = {}
    BY <1>0, <1>2 DEF InHand, Init, Handed
  <2>2. Cardinality(InHand) = 0
    BY <2>1, FS_EmptySet
  <2>3. available = capacity /\ idle = 0 /\ NumBuckets * idle = 0
    BY <1>0, <1>1 DEF Init
  <2>4. Accounted = capacity /\ capacity \in Nat
    BY <1>1, <2>2, <2>3 DEF Accounted, SharedOK
  <2>5. Accounted <= capacity
    BY <2>4
  <2> QED
    BY <2>4, <2>5 DEF PoolOK
<1>8. SomebodyTries
  BY <1>5 DEF SomebodyTries
<1>9. ResultOK
  BY <1>0 DEF Init, ResultOK
<1>10. DroppedOK
  BY <1>2, <1>5 DEF DroppedOK
<1> QED
  BY <1>1, <1>3, <1>6, <1>7, <1>8, <1>9, <1>10 DEF MergeInv

-----------------------------------------------------------------------------
(* Steps *)

LEMMA Ranges ==
    /\ NumBuckets \in Nat /\ NumBuckets > 0
    /\ Bucket = 0 .. NumBuckets - 1 /\ Spawner = 0 .. NumBuckets /\ Main = NumBuckets
    /\ Main \notin Bucket /\ Main \in Spawner /\ \A b \in Bucket : b \in Spawner /\ b # Main
<1>1. NumBuckets \in Nat /\ NumBuckets > 0
  BY MergingAssumption
<1> QED
  BY <1>1 DEF Bucket, Spawner, Main

LEMMA SharedStep ==
    ASSUME SharedOK, BucketsOK, Next
    PROVE  SharedOK'
<1>1. UNCHANGED <<groups, capacity>>
  BY DEF Next, LoadAvailable, Exchange, StartInputTask, SplitGroup, HandOver, FinishBucket,
         WaitForStrings, ProcessStrings, FinishMerge, inputVars
<1>2. popped' \in 0 .. Len(groups) /\ idle' \in Nat /\ available' \in Nat
  <2>1. CASE \E w \in Spawner : LoadAvailable(w)
    BY <2>1 DEF LoadAvailable, SharedOK
  <2>2. ASSUME NEW w \in Spawner, Exchange(w)
        PROVE  popped' \in 0 .. Len(groups) /\ idle' \in Nat /\ available' \in Nat
    <3>1. available = read[w] => available >= NumBuckets
      BY <2>2 DEF Exchange, BucketsOK, Reserved
    <3>2. popped' = popped /\ \/ available' = available - NumBuckets /\ available = read[w] /\ idle' = idle + 1
                              \/ available' = available /\ idle' = idle
      BY <2>2 DEF Exchange, Reserved
    <3> QED
      BY <3>1, <3>2, Ranges DEF SharedOK
  <2>3. CASE StartInputTask
    BY <2>3, Ranges DEF StartInputTask, SharedOK, Unreserved
  <2>4. CASE \E g \in Group : SplitGroup(g) \/ HandOver(g)
    BY <2>4 DEF SplitGroup, HandOver, SharedOK
  <2>5. CASE \E b \in Bucket : FinishBucket(b) \/ WaitForStrings(b)
    BY <2>5 DEF FinishBucket, WaitForStrings, SharedOK
  <2>6. ASSUME NEW b \in Bucket, ProcessStrings(b)
        PROVE  popped' \in 0 .. Len(groups) /\ idle' \in Nat /\ available' \in Nat
    <3>1. popped' = popped /\ idle' = idle /\ (available' = available \/ available' = available + 1)
      BY <2>6 DEF ProcessStrings
    <3> QED
      BY <3>1 DEF SharedOK
  <2>7. CASE FinishMerge
    BY <2>7 DEF FinishMerge, SharedOK
  <2> QED
    BY <2>1, <2>2, <2>3, <2>4, <2>5, <2>6, <2>7 DEF Next
<1>3. errors' \in BOOLEAN /\ result' \in {"running", "ok", "error"}
  <2>1. errors' = errors \/ errors' = TRUE
    BY DEF Next, LoadAvailable, Exchange, StartInputTask, SplitGroup, HandOver, FinishBucket,
           WaitForStrings, ProcessStrings, FinishMerge
  <2>2. result' = result \/ result' \in {"ok", "error"}
    BY DEF Next, LoadAvailable, Exchange, StartInputTask, SplitGroup, HandOver, FinishBucket,
           WaitForStrings, ProcessStrings, FinishMerge
  <2>3. errors \in BOOLEAN /\ result \in {"running", "ok", "error"}
    BY DEF SharedOK
  <2> QED
    BY <2>1, <2>2, <2>3
<1> QED
  BY <1>1, <1>2, <1>3 DEF SharedOK, Reserved

LEMMA GroupsStep ==
    ASSUME SharedOK, GroupsOK, Next
    PROVE  GroupsOK' /\ Group' = Group
<1>0. Group = 1 .. Len(groups) /\ Group' = Group /\ Len(groups) \in Nat /\ popped \in 0 .. Len(groups)
  BY DEF Next, LoadAvailable, Exchange, StartInputTask, SplitGroup, HandOver, FinishBucket,
         WaitForStrings, ProcessStrings, FinishMerge, inputVars, Group, SharedOK
<1>1. CASE UNCHANGED <<popped, part, hand>> /\ (errors => errors')
  BY <1>0, <1>1 DEF GroupsOK
<1>2. CASE StartInputTask
  <2>1. CASE popped < Len(groups)
    <3>1. popped' = popped + 1 /\ part' = [part EXCEPT ![popped + 1] = "splitting"] /\ hand' = hand
          /\ errors' = errors
      BY <1>2, <2>1 DEF StartInputTask
    <3>2. popped + 1 \in Group
      BY <1>0, <2>1
    <3> QED
      BY <1>0, <3>1, <3>2 DEF GroupsOK
  <2>2. CASE ~(popped < Len(groups))
    <3>1. UNCHANGED <<popped, part, hand, errors>>
      BY <1>2, <2>2 DEF StartInputTask
    <3> QED
      BY <1>1, <3>1
  <2> QED
    BY <2>1, <2>2
<1>3. ASSUME NEW g \in Group, SplitGroup(g) PROVE GroupsOK'
  <2>1. /\ part[g] = "splitting" /\ popped' = popped /\ hand' = hand
        /\ \/ part' = [part EXCEPT ![g] = "failed"] /\ errors'
           \/ part' = [part EXCEPT ![g] = "handing"] /\ errors' = errors
    BY <1>3 DEF SplitGroup
  <2>2. hand[g] = 0 /\ ~(g > popped)
    BY <2>1 DEF GroupsOK
  <2>3. CASE part' = [part EXCEPT ![g] = "failed"] /\ errors'
    BY <1>0, <2>1, <2>2, <2>3 DEF GroupsOK
  <2>4. CASE part' = [part EXCEPT ![g] = "handing"] /\ errors' = errors
    BY <1>0, <2>1, <2>2, <2>4, Ranges DEF GroupsOK
  <2> QED
    BY <2>1, <2>3, <2>4
<1>4. ASSUME NEW g \in Group, HandOver(g) PROVE GroupsOK'
  <2>1. /\ part[g] = "handing" /\ popped' = popped /\ errors' = errors
        /\ hand' = [hand EXCEPT ![g] = hand[g] + 1]
        /\ part' = [part EXCEPT ![g] = IF hand[g] + 1 = NumBuckets THEN "done" ELSE "handing"]
    BY <1>4 DEF HandOver, GroupsOK
  <2>2. hand[g] \in 0 .. NumBuckets /\ hand[g] < NumBuckets /\ ~(g > popped)
    BY <2>1 DEF GroupsOK
  <2>3. hand' \in [Group -> 0 .. NumBuckets]
    BY <2>1, <2>2, Ranges DEF GroupsOK
  <2> QED
    BY <1>0, <2>1, <2>2, <2>3, Ranges DEF GroupsOK
<1>5. CASE \/ \E w \in Spawner : LoadAvailable(w) \/ Exchange(w)
           \/ \E b \in Bucket : FinishBucket(b) \/ WaitForStrings(b) \/ ProcessStrings(b)
           \/ FinishMerge
  BY <1>1, <1>5 DEF LoadAvailable, Exchange, FinishBucket, WaitForStrings, ProcessStrings,
                    FinishMerge
<1> QED
  BY <1>0, <1>2, <1>3, <1>4, <1>5 DEF Next

\* What a step leaves alone of the slots of a bucket and of what was put in them.
SlotsSame(b) ==
    /\ Len(groups)' = Len(groups)
    /\ \A g \in Group : slot'[g][b] = slot[g][b] /\ (Handed(g, b)' <=> Handed(g, b))

LEMMA BucketSame ==
    ASSUME NEW b \in Bucket, BucketOK(b), SlotsSame(b),
           bucket'[b].next = bucket[b].next, pc'[b] = pc[b]
    PROVE  BucketOK(b)'
<1>1. Group' = Group
  BY DEF SlotsSame, Group
<1>2. \A g \in Group : SlotOfNext(b, g) => SlotOfNext(b, g)'
  BY DEF SlotOfNext, SlotsSame
<1> QED
  BY <1>1, <1>2 DEF BucketOK, SlotsSame

LEMMA BucketGoesOn ==
    ASSUME NEW b \in Bucket, SharedOK, BucketOK(b), SlotsSame(b), pc[b] \in Looping,
           bucket'[b].next = bucket[b].next + 1, pc'[b] = "work"
    PROVE  BucketOK(b)'
<1> DEFINE n == bucket[b].next
<1>1. Group' = Group /\ Group = 1 .. Len(groups) /\ Len(groups) \in Nat /\ n \in 1 .. Len(groups)
  BY DEF SlotsSame, Group, BucketOK, Looping, SharedOK
<1>2. slot[n][b] = "Empty" /\ Handed(n, b)
  BY <1>1 DEF BucketOK, SlotOfNext
<1>3. \A g \in Group : g = n + 1 => SlotOfNext(b, g)'
  <2> SUFFICES ASSUME NEW g \in Group, g = n + 1 PROVE SlotOfNext(b, g)'
    OBVIOUS
  <2>1. slot[g][b] = IF Handed(g, b) THEN "Strings" ELSE "Empty"
    BY <1>1 DEF BucketOK
  <2> QED
    BY <2>1 DEF SlotOfNext, SlotsSame, Looping
<1>4. \A g \in Group : g < n + 1 => slot'[g][b] = "Empty" /\ Handed(g, b)'
  <2> SUFFICES ASSUME NEW g \in Group, g < n + 1 PROVE slot'[g][b] = "Empty" /\ Handed(g, b)'
    OBVIOUS
  <2>1. g < n \/ g = n
    BY <1>1
  <2>2. slot[g][b] = "Empty" /\ Handed(g, b)
    BY <1>2, <2>1 DEF BucketOK
  <2> QED
    BY <2>2 DEF SlotsSame
<1>5. \A g \in Group : g > n + 1 => slot'[g][b] = IF Handed(g, b)' THEN "Strings" ELSE "Empty"
  <2> SUFFICES ASSUME NEW g \in Group, g > n + 1
               PROVE  slot'[g][b] = IF Handed(g, b)' THEN "Strings" ELSE "Empty"
    OBVIOUS
  <2>1. g > n
    BY <1>1
  <2>2. slot[g][b] = IF Handed(g, b) THEN "Strings" ELSE "Empty"
    BY <2>1 DEF BucketOK
  <2>3. slot'[g][b] = slot[g][b] /\ (Handed(g, b)' <=> Handed(g, b))
    BY DEF SlotsSame
  <2> QED
    BY <2>2, <2>3
<1>6. n + 1 \in 1 .. Len(groups)' + 1
  BY <1>1 DEF SlotsSame
<1> HIDE DEF n
<1>7. bucket'[b].next = n + 1
  BY DEF n
<1> QED
  BY <1>1, <1>3, <1>4, <1>5, <1>6, <1>7 DEF BucketOK

\* The strings of group g are put in the slot of bucket b, which may have waited there.
LEMMA BucketHanded ==
    ASSUME NEW b \in Bucket, NEW g \in Group, SharedOK, BucketOK(b), ~Handed(g, b),
           pc[b] \in {"slot", "work", "load", "exchange", "finished", "dropped"},
           Len(groups)' = Len(groups), bucket'[b].next = bucket[b].next,
           slot'[g][b] = "Strings", Handed(g, b)',
           pc'[b] = IF slot[g][b] = "Waiting" THEN "work" ELSE pc[b],
           \A h \in Group \ {g} : slot'[h][b] = slot[h][b] /\ (Handed(h, b)' <=> Handed(h, b))
    PROVE  BucketOK(b)'
<1> DEFINE n == bucket[b].next
<1>1. Group' = Group /\ Group = 1 .. Len(groups) /\ Len(groups) \in Nat /\ n \in 1 .. Len(groups) + 1
  BY DEF Group, BucketOK, SharedOK
<1>2. g >= n
  BY <1>1 DEF BucketOK
<1>3. CASE g = n
  <2>1. pc[b] \in {"slot", "work"} /\ (slot[g][b] = "Waiting" <=> pc[b] = "slot")
    BY <1>3 DEF BucketOK, SlotOfNext, Looping
  <2>2. pc'[b] = "work"
    BY <2>1
  <2>3. SlotOfNext(b, g)'
    BY <2>2 DEF SlotOfNext, Looping
  <2>4. \A h \in Group : h # n => slot'[h][b] = slot[h][b] /\ (Handed(h, b)' <=> Handed(h, b))
    BY <1>3
  <2> QED
    BY <1>1, <1>3, <2>2, <2>3, <2>4 DEF BucketOK
<1>4. CASE g > n
  <2>1. slot[g][b] = "Empty"
    BY <1>4 DEF BucketOK
  <2>2. pc'[b] = pc[b]
    BY <2>1
  <2>3. \A h \in Group : h <= n => slot'[h][b] = slot[h][b] /\ (Handed(h, b)' <=> Handed(h, b))
    BY <1>1, <1>4
  <2>4. \A h \in Group : h = n => SlotOfNext(b, h)'
    BY <1>1, <2>2, <2>3 DEF BucketOK, SlotOfNext
  <2>5. \A h \in Group : h < n => slot'[h][b] = "Empty" /\ Handed(h, b)'
    BY <1>1, <2>3 DEF BucketOK
  <2>6. ASSUME NEW h \in Group, h > n
        PROVE  slot'[h][b] = IF Handed(h, b)' THEN "Strings" ELSE "Empty"
    <3>1. CASE h = g
      BY <3>1
    <3>2. CASE h # g
      <4>1. slot[h][b] = IF Handed(h, b) THEN "Strings" ELSE "Empty"
        BY <2>6 DEF BucketOK
      <4>2. slot'[h][b] = slot[h][b] /\ (Handed(h, b)' <=> Handed(h, b))
        BY <3>2
      <4> QED
        BY <4>1, <4>2
    <3> QED
      BY <3>1, <3>2
  <2>7. n \in 1 .. Len(groups)' + 1 /\ (n > Len(groups)' => pc'[b] \in {"work", "finished"})
    BY <1>1, <2>2 DEF BucketOK
  <2>8. bucket'[b].next = n
    OBVIOUS
  <2> HIDE DEF n
  <2> QED
    BY <1>1, <2>4, <2>5, <2>6, <2>7, <2>8 DEF BucketOK
<1> QED
  BY <1>1, <1>2, <1>3, <1>4

\* A bucket at a group that is there changes its slot and what it does.
LEMMA BucketMoves ==
    ASSUME NEW b \in Bucket, NEW n \in Group, SharedOK, BucketOK(b), bucket[b].next = n,
           Len(groups)' = Len(groups), bucket'[b].next = n, SlotOfNext(b, n)',
           \A h \in Group : Handed(h, b)' <=> Handed(h, b),
           \A h \in Group \ {n} : slot'[h][b] = slot[h][b]
    PROVE  BucketOK(b)'
<1>1. Group' = Group /\ Group = 1 .. Len(groups) /\ Len(groups) \in Nat /\ n \in 1 .. Len(groups)
  BY DEF Group, BucketOK, SharedOK
<1>2. \A h \in Group : h < n => slot'[h][b] = "Empty" /\ Handed(h, b)'
  BY <1>1 DEF BucketOK
<1>3. ASSUME NEW h \in Group, h > n
      PROVE  slot'[h][b] = IF Handed(h, b)' THEN "Strings" ELSE "Empty"
  <2>1. slot[h][b] = IF Handed(h, b) THEN "Strings" ELSE "Empty"
    BY <1>3 DEF BucketOK
  <2>2. slot'[h][b] = slot[h][b] /\ (Handed(h, b)' <=> Handed(h, b))
    BY <1>1, <1>3
  <2> QED
    BY <2>1, <2>2
<1>4. \A h \in Group : h = n => SlotOfNext(b, h)'
  OBVIOUS
<1>5. bucket'[b].next = n /\ n \in 1 .. Len(groups)' + 1 /\ ~(n > Len(groups)')
  BY <1>1
<1> QED
  BY <1>1, <1>2, <1>3, <1>4, <1>5 DEF BucketOK

LEMMA BucketsStep ==
    ASSUME SharedOK, GroupsOK, BucketsOK, Next
    PROVE  BucketsOK'
<1> DEFINE PC == {"slot", "work", "load", "exchange", "finished", "dropped"}
           ST == {"Empty", "Waiting", "Strings"}
           BT == [next : Nat, strings : {bucket[c].strings : c \in Bucket}]
<1>0. /\ Group' = Group /\ Len(groups)' = Len(groups) /\ Group = 1 .. Len(groups) /\ Len(groups) \in Nat
      /\ GroupsOK'
  BY GroupsStep DEF Next, LoadAvailable, Exchange, StartInputTask, SplitGroup, HandOver, FinishBucket,
         WaitForStrings, ProcessStrings, FinishMerge, inputVars, Group, SharedOK
<1>1. ASSUME slot' = slot, bucket' = bucket, pc' = pc, read' = read,
             \A g \in Group, b \in Bucket : Handed(g, b)' <=> Handed(g, b)
      PROVE  BucketsOK'
  <2>1. \A b \in Bucket : BucketOK(b)'
    BY <1>0, <1>1, BucketSame DEF BucketsOK, SlotsSame
  <2> QED
    BY <1>0, <1>1, <2>1 DEF BucketsOK
<1>2. ASSUME NEW w \in Spawner, pc[w] \in Looping, slot' = slot, part' = part, hand' = hand,
             LeaveLoop(w), read' = [read EXCEPT ![w] = 0] \/ read' = read
      PROVE  BucketsOK'
  <2>1. \A g \in Group, b \in Bucket : Handed(g, b)' <=> Handed(g, b)
    BY <1>2 DEF Handed
  <2>2. \A b \in Bucket : SlotsSame(b)
    BY <1>0, <1>2, <2>1 DEF SlotsSame
  <2>3. CASE w = Main
    <3>1. pc' = [pc EXCEPT ![w] = "finished"] /\ bucket' = bucket
      BY <1>2, <2>3 DEF LeaveLoop
    <3>2. \A b \in Bucket : BucketOK(b)'
      BY <2>2, <2>3, <3>1, Ranges, BucketSame DEF BucketsOK
    <3> QED
      BY <1>0, <1>2, <2>3, <3>1, <3>2, Ranges DEF BucketsOK
  <2>4. CASE w # Main
    <3>0. w \in Bucket
      BY <2>4, Ranges
    <3>1. pc' = [pc EXCEPT ![w] = "work"] /\ bucket' = [bucket EXCEPT ![w].next = @ + 1]
      BY <1>2, <2>4 DEF LeaveLoop
    <3>2. bucket[w].next \in Nat /\ bucket \in [Bucket -> BT]
      BY <3>0 DEF BucketsOK
    <3>3. bucket'[w].next = bucket[w].next + 1
      BY <3>0, <3>1, <3>2
    <3>4. \A b \in Bucket : b # w => bucket'[b] = bucket[b] /\ pc'[b] = pc[b]
      BY <3>0, <3>1, <3>2, Ranges DEF BucketsOK
    <3>5. BucketOK(w)'
      BY <1>2, <2>2, <3>0, <3>1, <3>3, BucketGoesOn, Ranges DEF BucketsOK
    <3>6. \A b \in Bucket : BucketOK(b)'
      BY <2>2, <3>4, <3>5, BucketSame DEF BucketsOK
    <3>7. bucket' \in [Bucket -> [next : Nat, strings : {bucket'[c].strings : c \in Bucket}]]
      <4>1. \A c \in Bucket : bucket'[c].strings = bucket[c].strings
        BY <3>0, <3>1, <3>2
      <4>2. bucket' \in [Bucket -> BT]
        BY <3>0, <3>1, <3>2
      <4> QED
        BY <4>1, <4>2
    <3>8. /\ pc' \in [Spawner -> PC] /\ pc'[Main] = pc[Main]
          /\ \A x \in Spawner : pc'[x] = "exchange" => pc[x] = "exchange" /\ x # w
      BY <2>4, <3>1, Ranges DEF BucketsOK
    <3>9. read' \in [Spawner -> Nat] /\ \A x \in Spawner : x # w => read'[x] = read[x]
      BY <1>2 DEF BucketsOK
    <3> QED
      BY <1>0, <1>2, <3>6, <3>7, <3>8, <3>9 DEF BucketsOK
  <2> QED
    BY <2>3, <2>4
<1>3. ASSUME NEW w \in Spawner, pc[w] \in Looping, NEW p \in Looping, pc' = [pc EXCEPT ![w] = p],
             UNCHANGED <<slot, part, hand, bucket>>,
             \/ p = "exchange" /\ read' = [read EXCEPT ![w] = available] /\ ~(available < Reserved)
             \/ p = "load" /\ read' = [read EXCEPT ![w] = 0]
      PROVE  BucketsOK'
  <2>1. \A g \in Group, b \in Bucket : Handed(g, b)' <=> Handed(g, b)
    BY <1>3 DEF Handed
  <2>2. ASSUME NEW b \in Bucket PROVE BucketOK(b)'
    <3>1. SlotsSame(b) /\ BucketOK(b)
      BY <1>0, <1>3, <2>1 DEF SlotsSame, BucketsOK
    <3>2. CASE b # w
      BY <1>3, <3>1, <3>2, Ranges, BucketSame DEF BucketsOK
    <3>3. CASE b = w
      <4>1. pc[b] \in Looping /\ pc'[b] \in Looping
        BY <1>3, <3>3 DEF BucketsOK
      <4>2. \A g \in Group : SlotOfNext(b, g) => SlotOfNext(b, g)'
        BY <3>1, <4>1 DEF SlotOfNext, Looping, SlotsSame
      <4> QED
        BY <1>0, <1>3, <3>1, <4>1, <4>2 DEF BucketOK, SlotsSame, Looping
    <3> QED
      BY <3>2, <3>3
  <2>3. pc' \in [Spawner -> PC] /\ pc'[Main] \in Looping \cup {"finished"}
    BY <1>3, Ranges DEF BucketsOK, Looping
  <2>4. read' \in [Spawner -> Nat] /\ \A x \in Spawner : pc'[x] = "exchange" => read'[x] >= Reserved
    BY <1>3, Ranges DEF BucketsOK, SharedOK, Reserved, Looping
  <2> QED
    BY <1>0, <1>3, <2>2, <2>3, <2>4 DEF BucketsOK, Reserved
<1>4. ASSUME NEW w \in Spawner, LoadAvailable(w) PROVE BucketsOK'
  <2>1. CASE available < Reserved
    BY <1>2, <1>4, <2>1 DEF LoadAvailable, Looping
  <2>2. CASE ~(available < Reserved)
    BY <1>3, <1>4, <2>2 DEF LoadAvailable, Looping
  <2> QED
    BY <2>1, <2>2
<1>5. ASSUME NEW w \in Spawner, Exchange(w) PROVE BucketsOK'
  <2>1. CASE available = read[w]
    BY <1>3, <1>5, <2>1 DEF Exchange, Looping
  <2>2. CASE available # read[w]
    BY <1>2, <1>5, <2>2 DEF Exchange, Looping
  <2> QED
    BY <2>1, <2>2
<1>6. CASE StartInputTask
  <2>1. \A g \in Group, b \in Bucket : Handed(g, b)' <=> Handed(g, b)
    BY <1>0, <1>6 DEF StartInputTask, GroupsOK, Handed, SharedOK
  <2> QED
    BY <1>1, <1>6, <2>1 DEF StartInputTask
<1>7. ASSUME NEW g \in Group, SplitGroup(g) PROVE BucketsOK'
  <2>1. \A h \in Group, b \in Bucket : Handed(h, b)' <=> Handed(h, b)
    BY <1>0, <1>7, Ranges DEF SplitGroup, GroupsOK, Handed
  <2> QED
    BY <1>1, <1>7, <2>1 DEF SplitGroup
<1>8. ASSUME NEW g \in Group, HandOver(g) PROVE BucketsOK'
  <2>0. PICK b : b = hand[g]
    OBVIOUS
  <2>1. /\ part[g] = "handing" /\ b \in 0 .. NumBuckets /\ b < NumBuckets
        /\ slot' = [slot EXCEPT ![g][b] = "Strings"]
        /\ pc' = IF slot[g][b] = "Waiting" THEN [pc EXCEPT ![b] = "work"] ELSE pc
        /\ hand' = [hand EXCEPT ![g] = b + 1]
        /\ part' = [part EXCEPT ![g] = IF b + 1 = NumBuckets THEN "done" ELSE "handing"]
        /\ bucket' = bucket /\ read' = read
    BY <1>8, <2>0 DEF HandOver, GroupsOK, Woken
  <2>2. b \in Bucket /\ ~Handed(g, b) /\ Handed(g, b)'
    BY <1>0, <2>0, <2>1, Ranges DEF Handed, GroupsOK
  <2>3. \A h \in Group, c \in Bucket : h # g \/ c # b => (Handed(h, c)' <=> Handed(h, c))
    BY <2>0, <2>1, Ranges DEF Handed, GroupsOK
  <2>4. /\ \A h \in Group, c \in Bucket : h # g \/ c # b => slot'[h][c] = slot[h][c]
        /\ slot'[g][b] = "Strings" /\ slot' \in [Group -> [Bucket -> ST]]
    BY <2>1, <2>2 DEF BucketsOK
  <2>5. /\ pc' \in [Spawner -> PC] /\ \A w \in Spawner : w # b => pc'[w] = pc[w]
        /\ pc'[b] = IF slot[g][b] = "Waiting" THEN "work" ELSE pc[b]
    BY <2>1, <2>2, Ranges DEF BucketsOK
  <2>6. BucketOK(b)'
    <3>1. BucketOK(b) /\ pc[b] \in PC /\ bucket'[b].next = bucket[b].next
      BY <2>1, <2>2, Ranges DEF BucketsOK
    <3>2. \A h \in Group \ {g} : slot'[h][b] = slot[h][b] /\ (Handed(h, b)' <=> Handed(h, b))
      BY <2>2, <2>3, <2>4
    <3> QED
      BY <1>0, <2>2, <2>4, <2>5, <3>1, <3>2, BucketHanded
  <2>7. ASSUME NEW c \in Bucket, c # b PROVE BucketOK(c)'
    BY <1>0, <2>1, <2>3, <2>4, <2>5, <2>7, Ranges, BucketSame DEF BucketsOK, SlotsSame
  <2>8. pc'[Main] = pc[Main] /\ \A w \in Spawner : pc'[w] = "exchange" => pc[w] = "exchange"
    BY <2>2, <2>5, Ranges
  <2> QED
    BY <1>0, <2>1, <2>4, <2>5, <2>6, <2>7, <2>8 DEF BucketsOK
<1>9. ASSUME NEW b \in Bucket, pc[b] = "work", NEW p \in PC \ {"exchange"},
             pc' = [pc EXCEPT ![b] = p], UNCHANGED <<part, hand, read>>,
             BucketOK(b)', \A c \in Bucket : bucket'[c].next = bucket[c].next,
             bucket' \in [Bucket -> [next : Nat, strings : {bucket'[c].strings : c \in Bucket}]],
             slot' \in [Group -> [Bucket -> ST]],
             \A h \in Group, c \in Bucket : c # b => slot'[h][c] = slot[h][c]
      PROVE  BucketsOK'
  <2>1. ASSUME NEW c \in Bucket, c # b PROVE BucketOK(c)'
    <3>1. SlotsSame(c)
      BY <1>0, <1>9, <2>1 DEF SlotsSame, Handed
    <3>2. pc'[c] = pc[c]
      BY <1>9, <2>1, Ranges DEF BucketsOK
    <3> QED
      BY <1>9, <3>1, <3>2, BucketSame DEF BucketsOK
  <2>2. /\ pc' \in [Spawner -> PC] /\ pc'[Main] = pc[Main]
        /\ \A w \in Spawner : pc'[w] = "exchange" => pc[w] = "exchange"
    BY <1>9, Ranges DEF BucketsOK
  <2> QED
    BY <1>0, <1>9, <2>1, <2>2 DEF BucketsOK
<1>10. ASSUME NEW b \in Bucket, FinishBucket(b) PROVE BucketsOK'
  <2>1. /\ pc[b] = "work" /\ bucket[b].next > Len(groups) /\ pc' = [pc EXCEPT ![b] = "finished"]
        /\ UNCHANGED <<part, hand, slot, read, bucket>>
    BY <1>10 DEF FinishBucket
  <2>2. BucketOK(b) /\ b \in Spawner /\ pc'[b] = "finished" /\ bucket[b].next \in 1 .. Len(groups) + 1
    BY <2>1, Ranges DEF BucketsOK, BucketOK
  <2>3. BucketOK(b)'
    BY <1>0, <2>1, <2>2 DEF BucketOK, Handed
  <2> QED
    BY <1>0, <1>9, <2>1, <2>3 DEF BucketsOK
<1>11. ASSUME NEW b \in Bucket, WaitForStrings(b) PROVE BucketsOK'
  <2>0. PICK g : g = bucket[b].next
    OBVIOUS
  <2>1. /\ pc[b] = "work" /\ g <= Len(groups) /\ slot[g][b] # "Strings"
        /\ slot' = [slot EXCEPT ![g][b] = "Waiting"] /\ pc' = [pc EXCEPT ![b] = "slot"]
        /\ UNCHANGED <<part, hand, read, bucket>>
    BY <1>11, <2>0 DEF WaitForStrings
  <2>2. BucketOK(b) /\ g \in Group
    BY <1>0, <2>0, <2>1 DEF BucketsOK, BucketOK
  <2>3. ~Handed(g, b)
    BY <2>0, <2>1, <2>2 DEF BucketOK, SlotOfNext
  <2>4. /\ slot'[g][b] = "Waiting" /\ slot' \in [Group -> [Bucket -> ST]]
        /\ \A h \in Group, c \in Bucket : h # g \/ c # b => slot'[h][c] = slot[h][c]
        /\ pc'[b] = "slot"
    BY <2>1, <2>2, Ranges DEF BucketsOK
  <2>5. \A h \in Group : Handed(h, b)' <=> Handed(h, b)
    BY <2>1 DEF Handed
  <2>6. SlotOfNext(b, g)'
    BY <2>2, <2>3, <2>4, <2>5 DEF SlotOfNext, Looping
  <2>7. BucketOK(b)'
    BY <1>0, <2>1, <2>2, <2>4, <2>5, <2>6, <2>0, BucketMoves
  <2>8. /\ \A c \in Bucket : bucket'[c].next = bucket[c].next
        /\ bucket' \in [Bucket -> [next : Nat, strings : {bucket'[c].strings : c \in Bucket}]]
    BY <2>1 DEF BucketsOK
  <2>9. \A h \in Group, c \in Bucket : c # b => slot'[h][c] = slot[h][c]
    BY <2>4
  <2> QED
    BY <1>9, <2>1, <2>4, <2>7, <2>8, <2>9
<1>12. ASSUME NEW b \in Bucket, ProcessStrings(b) PROVE BucketsOK'
  <2>0. PICK g : g = bucket[b].next
    OBVIOUS
  <2>1. /\ pc[b] = "work" /\ g <= Len(groups) /\ slot[g][b] = "Strings"
        /\ slot' = [slot EXCEPT ![g][b] = "Empty"] /\ UNCHANGED <<part, hand, read>>
    BY <1>12, <2>0 DEF ProcessStrings
  <2>2. PICK p \in {"load", "dropped"} : pc' = [pc EXCEPT ![b] = p]
    BY <1>12 DEF ProcessStrings
  <2>3. bucket' = bucket \/ \E s : bucket' = [bucket EXCEPT ![b].strings = s]
    BY <1>12 DEF ProcessStrings
  <2>4. BucketOK(b) /\ g \in Group
    BY <1>0, <2>0, <2>1 DEF BucketsOK, BucketOK
  <2>5. Handed(g, b)
    BY <2>0, <2>1, <2>4 DEF BucketOK, SlotOfNext
  <2>6. /\ slot'[g][b] = "Empty" /\ slot' \in [Group -> [Bucket -> ST]]
        /\ \A h \in Group, c \in Bucket : h # g \/ c # b => slot'[h][c] = slot[h][c]
        /\ pc'[b] = p
    BY <2>1, <2>2, <2>4, Ranges DEF BucketsOK
  <2>7. \A h \in Group : Handed(h, b)' <=> Handed(h, b)
    BY <2>1 DEF Handed
  <2>8. SlotOfNext(b, g)'
    BY <2>4, <2>5, <2>6, <2>7 DEF SlotOfNext, Looping
  <2>9. /\ \A c \in Bucket : bucket'[c].next = bucket[c].next
        /\ bucket' \in [Bucket -> [next : Nat, strings : {bucket'[c].strings : c \in Bucket}]]
    <3>1. bucket \in [Bucket -> BT]
      BY DEF BucketsOK
    <3>2. ASSUME NEW s, bucket' = [bucket EXCEPT ![b].strings = s]
          PROVE  /\ \A c \in Bucket : bucket'[c].next = bucket[c].next
                 /\ bucket' \in [Bucket -> [next : Nat, strings : {bucket'[c].strings : c \in Bucket}]]
      BY <3>1, <3>2
    <3> QED
      BY <2>3, <3>1, <3>2
  <2>10. BucketOK(b)'
    BY <1>0, <2>1, <2>4, <2>6, <2>7, <2>8, <2>9, <2>0, BucketMoves
  <2> QED
    BY <1>9, <2>1, <2>2, <2>6, <2>9, <2>10
<1>13. CASE FinishMerge
  BY <1>1, <1>13 DEF FinishMerge, Handed
<1> QED
  BY <1>4, <1>5, <1>6, <1>7, <1>8, <1>10, <1>11, <1>12, <1>13 DEF Next

LEMMA HandFinite ==
    ASSUME SharedOK, NEW S \in SUBSET (Group \X Bucket)
    PROVE  IsFiniteSet(S) /\ Cardinality(S) \in Nat
<1>1. IsFiniteSet(Group) /\ IsFiniteSet(Bucket)
  BY Ranges, FS_Interval DEF Group, SharedOK
<1> QED
  BY <1>1, FS_Product, FS_Subset, FS_CardinalityType

\* A group that is popped takes a vector for each bucket.
LEMMA VectorsOfGroup ==
    ASSUME NEW g
    PROVE  IsFiniteSet({g} \X Bucket) /\ Cardinality({g} \X Bucket) = NumBuckets
<1>1. IsFiniteSet({g}) /\ Cardinality({g}) = 1
  BY FS_Singleton
<1>2. IsFiniteSet(Bucket) /\ Cardinality(Bucket) = NumBuckets
  BY Ranges, FS_Interval
<1>3. /\ IsFiniteSet({g} \X Bucket)
      /\ Cardinality({g} \X Bucket) = Cardinality({g}) * Cardinality(Bucket)
  BY <1>1, <1>2, FS_Product
<1> QED
  BY <1>1, <1>2, <1>3, Ranges

LEMMA Times ==
    ASSUME NEW m \in Nat, NEW n \in Nat
    PROVE  m * n \in Nat /\ m * (n + 1) = m * n + m /\ (n > 0 => m * (n - 1) = m * n - m)
OBVIOUS

LEMMA PoolStep ==
    ASSUME SharedOK, GroupsOK, BucketsOK, PoolOK, Next
    PROVE  PoolOK'
<1> DEFINE N == NumBuckets
<1>0. /\ Group' = Group /\ capacity' = capacity /\ Len(groups)' = Len(groups) /\ SharedOK' /\ GroupsOK'
      /\ Group = 1 .. Len(groups) /\ Len(groups) \in Nat
  BY SharedStep, GroupsStep
     DEF Next, LoadAvailable, Exchange, StartInputTask, SplitGroup, HandOver, FinishBucket,
         WaitForStrings, ProcessStrings, FinishMerge, inputVars, SharedOK, Group
<1>1. /\ IsFiniteSet(InHand) /\ Cardinality(InHand) \in Nat
      /\ IsFiniteSet(InHand') /\ Cardinality(InHand') \in Nat
  <2>1. InHand \in SUBSET (Group \X Bucket) /\ InHand' \in SUBSET (Group \X Bucket)
    BY <1>0 DEF InHand
  <2> QED
    BY <2>1, HandFinite
<1>2. PICK held, k \in Nat : held = Cardinality(InHand) /\ k = Cardinality(InHand')
  BY <1>1
<1>3. /\ idle \in Nat /\ available \in Nat /\ capacity \in Nat /\ N \in Nat
      /\ idle' \in Nat /\ available' \in Nat /\ capacity' = capacity
      /\ held \in Nat /\ k \in Nat
  BY <1>0, <1>2, Ranges DEF SharedOK
<1>4. /\ available + N * idle + held <= capacity
      /\ ~errors => available + N * idle + held = capacity
  BY <1>2 DEF PoolOK, Accounted, N
<1> HIDE DEF N
<1>5. ASSUME available' + N * idle' + k = available + N * idle + held,
             errors' = errors
      PROVE  PoolOK'
  <2>1. available' + N * idle' + k <= capacity'
    BY <1>3, <1>4, <1>5
  <2>2. ~errors' => available' + N * idle' + k = capacity'
    BY <1>3, <1>4, <1>5
  <2> QED
    BY <2>1, <2>2, <1>2 DEF PoolOK, Accounted, N
<1>6. ASSUME available' + N * idle' + k <= available + N * idle + held, errors' = TRUE
      PROVE  PoolOK'
  <2>1. N * idle \in Nat /\ N * idle' \in Nat
    BY <1>3, Times
  <2>2. PICK p, q, v \in Nat : p = N * idle /\ q = N * idle' /\ v = available'
    BY <1>3, <2>1
  <2>3. v + q + k <= available + p + held /\ available + p + held <= capacity
    BY <1>4, <1>6, <2>2
  <2>4. v + q + k <= capacity
    <3>1. /\ v \in Nat /\ q \in Nat /\ k \in Nat /\ p \in Nat /\ held \in Nat
          /\ available \in Nat /\ capacity \in Nat
      BY <1>3, <2>2
    <3> QED
      BY <2>3, <3>1
  <2>5. available' + N * idle' + k <= capacity'
    BY <1>3, <2>2, <2>4
  <2> QED
    BY <1>6, <2>5, <1>2 DEF PoolOK, Accounted, N
<1>7. ASSUME UNCHANGED <<part, hand, slot>> PROVE k = held
  BY <1>0, <1>2, <1>7 DEF InHand, Handed
<1>8. ASSUME NEW w \in Spawner, LoadAvailable(w) PROVE PoolOK'
  BY <1>3, <1>5, <1>7, <1>8 DEF LoadAvailable
<1>9. ASSUME NEW w \in Spawner, Exchange(w) PROVE PoolOK'
  <2>1. UNCHANGED <<part, hand, slot, errors>>
    BY <1>9 DEF Exchange
  <2>2. \/ available' = available - N /\ idle' = idle + 1
        \/ available' = available /\ idle' = idle
    BY <1>9 DEF Exchange, Reserved, N
  <2>3. available' + N * idle' = available + N * idle
    <3>1. N * idle \in Nat /\ N * (idle + 1) = N * idle + N
      BY <1>3, Times
    <3>2. CASE available' = available - N /\ idle' = idle + 1
      <4>1. N * idle' = N * idle + N
        BY <3>1, <3>2
      <4>2. PICK p \in Nat : p = N * idle
        BY <3>1
      <4> QED
        BY <1>3, <3>2, <4>1, <4>2
    <3>3. CASE available' = available /\ idle' = idle
      BY <3>3
    <3> QED
      BY <2>2, <3>2, <3>3
  <2> QED
    BY <1>3, <1>5, <1>7, <2>1, <2>3
<1>10. CASE StartInputTask
  <2>0. idle' = idle - 1 /\ hand' = hand /\ slot' = slot /\ errors' = errors
    BY <1>10 DEF StartInputTask
  <2>1. CASE popped < Len(groups)
    <3> DEFINE g == popped + 1
               V == {g} \X Bucket
    <3>1. g \in Group /\ part' = [part EXCEPT ![g] = "splitting"] /\ available' = available
      BY <1>0, <1>10, <2>1 DEF StartInputTask, SharedOK
    <3>2. part[g] = "queued" /\ \A b \in Bucket : ~Handed(g, b)
      BY <3>1 DEF GroupsOK, Handed, SharedOK
    <3>3. \A b \in Bucket : slot[g][b] # "Strings"
      <4> SUFFICES ASSUME NEW b \in Bucket PROVE slot[g][b] # "Strings"
        OBVIOUS
      <4>1. BucketOK(b) /\ pc[b] \in {"slot", "work", "load", "exchange", "finished", "dropped"}
        BY Ranges DEF BucketsOK
      <4>2. g >= bucket[b].next
        BY <1>0, <3>1, <3>2, <4>1 DEF BucketOK
      <4> QED
        BY <1>0, <3>1, <3>2, <4>1, <4>2 DEF BucketOK, SlotOfNext, Looping
    <3>4. InHand' = InHand \cup V /\ InHand \cap V = {}
      <4>1. ASSUME NEW h \in Group, NEW b \in Bucket
            PROVE  <<h, b>> \in InHand' <=> <<h, b>> \in InHand \cup V
        <5>1. CASE h = g
          BY <1>0, <3>1, <5>1 DEF InHand, GroupsOK
        <5>2. CASE h # g
          BY <1>0, <2>0, <3>1, <5>2 DEF InHand, GroupsOK, Handed
        <5> QED
          BY <5>1, <5>2
      <4>2. InHand' \subseteq Group \X Bucket /\ InHand \cup V \subseteq Group \X Bucket
        BY <1>0, <3>1 DEF InHand
      <4>3. InHand \cap V = {}
        BY <3>2, <3>3 DEF InHand
      <4> HIDE DEF V
      <4> QED
        BY <4>1, <4>2, <4>3
    <3>5. k = held + N
      <4>1. IsFiniteSet(V) /\ Cardinality(V) = N
        BY VectorsOfGroup DEF N
      <4> HIDE DEF V
      <4>2. Cardinality(InHand \cup V) = Cardinality(InHand) + Cardinality(V) - Cardinality(InHand \cap V)
        BY <1>1, <4>1, FS_Union
      <4>3. Cardinality(InHand \cap V) = 0
        BY <3>4, FS_EmptySet
      <4> QED
        BY <1>3, <3>4, <4>1, <4>2, <4>3, <1>1, <1>2
    <3> QED
      BY <1>3, <1>5, <2>0, <3>1, <3>5
  <2>2. CASE ~(popped < Len(groups))
    <3>1. available' = available + N /\ part' = part
      BY <1>10, <2>2 DEF StartInputTask, Unreserved, N
    <3>2. available' + N * idle' = available + N * idle
      BY <1>3, <2>0, <3>1
    <3> QED
      BY <1>3, <1>5, <1>7, <2>0, <3>1, <3>2
  <2> QED
    BY <2>1, <2>2
<1>11. ASSUME NEW g \in Group, SplitGroup(g) PROVE PoolOK'
  <2>0. /\ part[g] = "splitting" /\ UNCHANGED <<hand, slot, idle, available>>
        /\ \/ part' = [part EXCEPT ![g] = "failed"] /\ errors' = TRUE
           \/ part' = [part EXCEPT ![g] = "handing"] /\ errors' = errors
    BY <1>11 DEF SplitGroup
  <2>1. CASE part' = [part EXCEPT ![g] = "failed"] /\ errors' = TRUE
    <3>1. InHand' \subseteq InHand
      BY <1>0, <2>0, <2>1 DEF InHand, Handed, GroupsOK
    <3>2. k <= held
      BY <1>3, <3>1, FS_Subset, <1>1, <1>2
    <3>3. N * idle \in Nat /\ N * idle' = N * idle
      BY <1>3, <2>0, Times
    <3>4. available' + N * idle' + k <= available + N * idle + held
      BY <1>3, <2>0, <3>2, <3>3
    <3> QED
      BY <1>6, <2>1, <3>4
  <2>2. CASE part' = [part EXCEPT ![g] = "handing"] /\ errors' = errors
    <3>1. hand[g] = 0
      BY <2>0 DEF GroupsOK
    <3>2. \A h \in Group, b \in Bucket :
             (part[h] = "splitting" \/ (part[h] = "handing" /\ ~Handed(h, b))) <=>
             (part'[h] = "splitting" \/ (part'[h] = "handing" /\ ~Handed(h, b)'))
      BY <2>0, <2>2, <3>1, Ranges DEF Handed, GroupsOK
    <3>3. InHand' = InHand
      BY <1>0, <2>0, <3>2 DEF InHand
    <3> QED
      BY <1>3, <1>5, <2>0, <2>2, <3>3, <1>1, <1>2
  <2> QED
    BY <2>0, <2>1, <2>2
<1>12. ASSUME NEW g \in Group, HandOver(g) PROVE PoolOK'
  <2>0. PICK b : b = hand[g]
    OBVIOUS
  <2>1. /\ part[g] = "handing" /\ b \in 0 .. NumBuckets /\ b < NumBuckets
        /\ slot' = [slot EXCEPT ![g][b] = "Strings"]
        /\ hand' = [hand EXCEPT ![g] = b + 1]
        /\ part' = [part EXCEPT ![g] = IF b + 1 = NumBuckets THEN "done" ELSE "handing"]
        /\ UNCHANGED <<idle, available, errors>>
    BY <1>12, <2>0 DEF HandOver, GroupsOK
  <2>2. b \in Bucket /\ slot'[g][b] = "Strings"
        /\ \A h \in Group, c \in Bucket : h # g \/ c # b => slot'[h][c] = slot[h][c]
    <3>1. b \in Bucket
      BY <2>1, Ranges
    <3> QED
      BY <2>1, <3>1 DEF BucketsOK
  <2>3. \A h \in Group, c \in Bucket : <<h, c>> \in InHand' <=> <<h, c>> \in InHand
    <3> SUFFICES ASSUME NEW h \in Group, NEW c \in Bucket
                 PROVE  <<h, c>> \in InHand' <=> <<h, c>> \in InHand
      OBVIOUS
    <3>1. CASE h # g
      BY <1>0, <2>1, <2>2, <3>1 DEF InHand, Handed, GroupsOK
    <3>2. CASE h = g /\ c = b
      BY <1>0, <2>0, <2>1, <2>2, <3>2, Ranges DEF InHand, Handed, GroupsOK
    <3>3. CASE h = g /\ c # b
      <4>1. Handed(h, c)' <=> Handed(h, c)
        BY <2>0, <2>1, <3>3, Ranges DEF Handed, GroupsOK
      <4>2. part[h] = "handing" /\ part'[h] \in {"handing", "done"}
            /\ (part'[h] = "done" => Handed(h, c)')
        BY <2>1, <3>3 DEF GroupsOK, Handed
      <4>3. slot'[h][c] = slot[h][c]
        BY <2>2, <3>3
      <4> QED
        BY <1>0, <4>1, <4>2, <4>3 DEF InHand
    <3> QED
      BY <3>1, <3>2, <3>3
  <2>4. InHand' = InHand
    BY <1>0, <2>3 DEF InHand
  <2> QED
    BY <1>3, <1>5, <2>1, <2>4, <1>1, <1>2
<1>13. ASSUME NEW b \in Bucket, FinishBucket(b) PROVE PoolOK'
  BY <1>3, <1>5, <1>7, <1>13 DEF FinishBucket
<1>14. ASSUME NEW b \in Bucket, WaitForStrings(b) PROVE PoolOK'
  <2>0. PICK g : g = bucket[b].next
    OBVIOUS
  <2>1. /\ g <= Len(groups) /\ slot[g][b] # "Strings" /\ slot' = [slot EXCEPT ![g][b] = "Waiting"]
        /\ UNCHANGED <<part, hand, idle, available, errors>>
    BY <1>14, <2>0 DEF WaitForStrings
  <2>2. g \in Group
    BY <1>0, <2>0, <2>1 DEF BucketsOK, BucketOK
  <2>3. /\ slot'[g][b] = "Waiting"
        /\ \A h \in Group, c \in Bucket : h # g \/ c # b => slot'[h][c] = slot[h][c]
    BY <2>1, <2>2 DEF BucketsOK
  <2>4. \A h \in Group, c \in Bucket : slot'[h][c] = "Strings" <=> slot[h][c] = "Strings"
    BY <2>1, <2>3
  <2>5. InHand' = InHand
    BY <1>0, <2>1, <2>4 DEF InHand, Handed
  <2> QED
    BY <1>3, <1>5, <2>1, <2>5, <1>1, <1>2
<1>15. ASSUME NEW b \in Bucket, ProcessStrings(b) PROVE PoolOK'
  <2>0. PICK g : g = bucket[b].next
    OBVIOUS
  <2>1. /\ pc[b] = "work" /\ g <= Len(groups) /\ slot[g][b] = "Strings"
        /\ slot' = [slot EXCEPT ![g][b] = "Empty"] /\ UNCHANGED <<part, hand, idle>>
        /\ \/ errors' = TRUE /\ available' = available
           \/ errors' = errors /\ available' = available + 1
    BY <1>15, <2>0 DEF ProcessStrings
  <2>2. g \in Group /\ BucketOK(b)
    BY <1>0, <2>0, <2>1 DEF BucketsOK, BucketOK
  <2>3. Handed(g, b)
    BY <2>0, <2>1, <2>2 DEF BucketOK, SlotOfNext
  <2>4. /\ slot'[g][b] = "Empty"
        /\ \A h \in Group, c \in Bucket : h # g \/ c # b => slot'[h][c] = slot[h][c]
    BY <2>1, <2>2 DEF BucketsOK
  <2>5. InHand' = InHand \ {<<g, b>>} /\ <<g, b>> \in InHand
    <3>1. \A h \in Group, c \in Bucket : <<h, c>> \in InHand' <=> <<h, c>> \in InHand \ {<<g, b>>}
      <4> SUFFICES ASSUME NEW h \in Group, NEW c \in Bucket
                   PROVE  <<h, c>> \in InHand' <=> <<h, c>> \in InHand \ {<<g, b>>}
        OBVIOUS
      <4>1. CASE h = g /\ c = b
        <5>1. part[g] # "splitting"
          BY <2>3 DEF Handed
        <5> QED
          BY <1>0, <2>1, <2>2, <2>3, <2>4, <4>1, <5>1 DEF InHand, Handed
      <4>2. CASE h # g \/ c # b
        BY <1>0, <2>1, <2>4, <4>2 DEF InHand, Handed
      <4> QED
        BY <4>1, <4>2
    <3>2. <<g, b>> \in InHand
      BY <2>1, <2>2 DEF InHand
    <3> QED
      BY <1>0, <3>1, <3>2 DEF InHand
  <2>6. k = held - 1
    BY <1>3, <2>5, FS_RemoveElement, <1>1, <1>2
  <2>7. CASE errors' = TRUE /\ available' = available
    BY <1>3, <1>6, <2>1, <2>6, <2>7
  <2>8. CASE errors' = errors /\ available' = available + 1
    BY <1>3, <1>5, <2>1, <2>6, <2>8
  <2> QED
    BY <2>1, <2>7, <2>8
<1>16. CASE FinishMerge
  BY <1>3, <1>5, <1>7, <1>16 DEF FinishMerge
<1> QED
  BY <1>8, <1>9, <1>10, <1>11, <1>12, <1>13, <1>14, <1>15, <1>16 DEF Next

LEMMA TriesStep ==
    ASSUME SharedOK, GroupsOK, BucketsOK, SomebodyTries, Next
    PROVE  SomebodyTries'
<1> DEFINE Tries(w) == pc[w] = "load" \/ (pc[w] = "exchange" /\ read[w] = available)
<1>0. Len(groups)' = Len(groups) /\ Len(groups) \in Nat /\ popped \in 0 .. Len(groups)
      /\ pc \in [Spawner -> {"slot", "work", "load", "exchange", "finished", "dropped"}]
      /\ read \in [Spawner -> Nat]
  BY DEF Next, LoadAvailable, Exchange, StartInputTask, SplitGroup, HandOver, FinishBucket,
         WaitForStrings, ProcessStrings, FinishMerge, inputVars, SharedOK, BucketsOK
<1>1. ASSUME popped' = popped, available' = available, read' = read,
             \A w \in Spawner : pc[w] \in Looping => pc'[w] = pc[w]
      PROVE  SomebodyTries'
  BY <1>0, <1>1 DEF SomebodyTries, Looping, Reserved
<1>2. ASSUME NEW w \in Spawner, pc'[w] = "load" PROVE SomebodyTries'
  BY <1>2 DEF SomebodyTries
<1>3. ASSUME NEW w \in Spawner, LoadAvailable(w) PROVE SomebodyTries'
  <2>0. pc[w] = "load" /\ popped' = popped /\ available' = available
    BY <1>3 DEF LoadAvailable
  <2>1. CASE available < Reserved
    <3>1. ~(available' >= Reserved')
      BY <2>0, <2>1, Ranges DEF SharedOK, Reserved
    <3> QED
      BY <3>1 DEF SomebodyTries
  <2>2. CASE ~(available < Reserved)
    <3>1. pc'[w] = "exchange" /\ read'[w] = available'
      BY <1>0, <1>3, <2>0, <2>2 DEF LoadAvailable
    <3> QED
      BY <3>1 DEF SomebodyTries
  <2> QED
    BY <2>1, <2>2
<1>4. ASSUME NEW w \in Spawner, Exchange(w) PROVE SomebodyTries'
  <2>1. CASE available = read[w]
    <3>1. pc'[w] = "load"
      BY <1>0, <1>4, <2>1 DEF Exchange
    <3> QED
      BY <1>2, <3>1
  <2>2. CASE available # read[w]
    <3>1. popped' = popped /\ available' = available /\ pc[w] = "exchange"
      BY <1>4, <2>2 DEF Exchange
    <3>2. \A x \in Spawner : x # w => pc'[x] = pc[x] /\ read'[x] = read[x]
      BY <1>0, <1>4, <2>2 DEF Exchange, LeaveLoop
    <3>3. ~Tries(w)
      BY <2>2, <3>1
    <3> QED
      BY <1>0, <3>1, <3>2, <3>3 DEF SomebodyTries, Reserved
  <2> QED
    BY <2>1, <2>2
<1>5. CASE StartInputTask
  <2>1. CASE popped < Len(groups)
    <3>1. popped' = popped + 1 /\ available' = available /\ pc' = pc /\ read' = read
      BY <1>5, <2>1 DEF StartInputTask
    <3> QED
      BY <1>0, <2>1, <3>1 DEF SomebodyTries, Reserved
  <2>2. CASE ~(popped < Len(groups))
    <3>1. popped' = popped
      BY <1>5, <2>2 DEF StartInputTask
    <3> QED
      BY <1>0, <2>2, <3>1 DEF SomebodyTries
  <2> QED
    BY <2>1, <2>2
<1>6. ASSUME NEW g \in Group, SplitGroup(g) PROVE SomebodyTries'
  BY <1>1, <1>6 DEF SplitGroup
<1>7. ASSUME NEW g \in Group, HandOver(g) PROVE SomebodyTries'
  <2>0. PICK b : b = hand[g]
    OBVIOUS
  <2>1. /\ pc' = IF slot[g][b] = "Waiting" THEN [pc EXCEPT ![b] = "work"] ELSE pc
        /\ popped' = popped /\ available' = available /\ read' = read /\ part[g] = "handing"
    BY <1>7, <2>0 DEF HandOver, Woken
  <2>2. b \in Bucket
    BY <1>7, <2>0, <2>1, Ranges DEF GroupsOK
  <2>3. slot[g][b] = "Waiting" => pc[b] \notin Looping
    <3>1. BucketOK(b) /\ g \in Group /\ Group = 1 .. Len(groups)
      BY <2>2 DEF BucketsOK, Group
    <3>2. bucket[b].next \in 1 .. Len(groups) + 1
      BY <3>1 DEF BucketOK
    <3> QED
      BY <1>0, <3>1, <3>2 DEF BucketOK, SlotOfNext
  <2>4. \A w \in Spawner : pc[w] \in Looping => pc'[w] = pc[w]
    BY <1>0, <2>1, <2>2, <2>3, Ranges
  <2> QED
    BY <1>1, <2>1, <2>4
<1>8. ASSUME NEW b \in Bucket, FinishBucket(b) \/ WaitForStrings(b) PROVE SomebodyTries'
  <2>1. /\ pc[b] = "work" /\ \E p : pc' = [pc EXCEPT ![b] = p]
        /\ popped' = popped /\ available' = available /\ read' = read
    BY <1>8 DEF FinishBucket, WaitForStrings
  <2>2. \A w \in Spawner : pc[w] \in Looping => pc'[w] = pc[w]
    BY <1>0, <2>1, Ranges DEF Looping
  <2> QED
    BY <1>1, <2>1, <2>2
<1>9. ASSUME NEW b \in Bucket, ProcessStrings(b) PROVE SomebodyTries'
  <2>0. b \in Spawner /\ pc[b] = "work" /\ popped' = popped /\ read' = read
    BY <1>9, Ranges DEF ProcessStrings
  <2>1. \/ pc' = [pc EXCEPT ![b] = "load"]
        \/ pc' = [pc EXCEPT ![b] = "dropped"] /\ available' = available
    BY <1>9 DEF ProcessStrings
  <2>2. CASE pc' = [pc EXCEPT ![b] = "load"]
    BY <1>0, <1>2, <2>0, <2>2
  <2>3. CASE pc' = [pc EXCEPT ![b] = "dropped"] /\ available' = available
    BY <1>0, <1>1, <2>0, <2>3 DEF Looping
  <2> QED
    BY <2>1, <2>2, <2>3
<1>10. CASE FinishMerge
  BY <1>1, <1>10 DEF FinishMerge
<1> QED
  BY <1>3, <1>4, <1>5, <1>6, <1>7, <1>8, <1>9, <1>10 DEF Next

LEMMA DroppedStep ==
    ASSUME SharedOK, GroupsOK, BucketsOK, DroppedOK, Next
    PROVE  DroppedOK'
<1>0. pc \in [Spawner -> {"slot", "work", "load", "exchange", "finished", "dropped"}]
  BY DEF BucketsOK
<1>1. ASSUME errors => errors', \A b \in Bucket : pc'[b] = "dropped" => pc[b] = "dropped"
      PROVE  DroppedOK'
  BY <1>1 DEF DroppedOK
<1>2. ASSUME errors' = TRUE PROVE DroppedOK'
  BY <1>2 DEF DroppedOK
<1>3. ASSUME NEW w \in Spawner, NEW p \in {"slot", "work", "load", "exchange", "finished"},
             pc' = [pc EXCEPT ![w] = p]
      PROVE  \A b \in Bucket : pc'[b] = "dropped" => pc[b] = "dropped"
  BY <1>0, <1>3, Ranges
<1>4. ASSUME NEW w \in Spawner, LoadAvailable(w) \/ Exchange(w) PROVE DroppedOK'
  <2>1. errors' = errors
    BY <1>4 DEF LoadAvailable, Exchange
  <2>2. PICK p \in {"slot", "work", "load", "exchange", "finished"} : pc' = [pc EXCEPT ![w] = p]
    BY <1>4 DEF LoadAvailable, Exchange, LeaveLoop
  <2> QED
    BY <1>1, <1>3, <2>1, <2>2
<1>5. ASSUME NEW g \in Group, HandOver(g) PROVE DroppedOK'
  <2>0. PICK c : c = hand[g]
    OBVIOUS
  <2>1. /\ errors' = errors /\ part[g] = "handing"
        /\ pc' = IF slot[g][c] = "Waiting" THEN [pc EXCEPT ![c] = "work"] ELSE pc
    BY <1>5, <2>0 DEF HandOver, Woken
  <2>2. c \in Spawner
    BY <1>5, <2>0, <2>1, Ranges DEF GroupsOK
  <2>3. \A b \in Bucket : pc'[b] = "dropped" => pc[b] = "dropped"
    BY <1>0, <1>3, <2>1, <2>2
  <2> QED
    BY <1>1, <2>1, <2>3
<1>6. ASSUME NEW b \in Bucket, FinishBucket(b) \/ WaitForStrings(b) PROVE DroppedOK'
  <2>1. errors' = errors /\ b \in Spawner
    BY <1>6, Ranges DEF FinishBucket, WaitForStrings
  <2>2. PICK p \in {"slot", "work", "load", "exchange", "finished"} : pc' = [pc EXCEPT ![b] = p]
    BY <1>6 DEF FinishBucket, WaitForStrings
  <2> QED
    BY <1>1, <1>3, <2>1, <2>2
<1>7. ASSUME NEW b \in Bucket, ProcessStrings(b) PROVE DroppedOK'
  <2>1. \/ errors' = TRUE
        \/ errors' = errors /\ pc' = [pc EXCEPT ![b] = "load"]
    BY <1>7 DEF ProcessStrings
  <2>2. CASE errors' = errors /\ pc' = [pc EXCEPT ![b] = "load"]
    BY <1>1, <1>3, <2>2, Ranges
  <2> QED
    BY <1>2, <2>1, <2>2
<1>8. ASSUME NEW g \in Group, SplitGroup(g) PROVE DroppedOK'
  <2>1. pc' = pc /\ (errors' = TRUE \/ errors' = errors)
    BY <1>8 DEF SplitGroup
  <2> QED
    BY <1>1, <1>2, <2>1
<1>9. CASE StartInputTask \/ FinishMerge
  <2>1. pc' = pc /\ errors' = errors
    BY <1>9 DEF StartInputTask, FinishMerge
  <2> QED
    BY <1>1, <2>1
<1> QED
  BY <1>4, <1>5, <1>6, <1>7, <1>8, <1>9 DEF Next

LEMMA ResultStep ==
    ASSUME SharedOK, GroupsOK, BucketsOK, ResultOK, Next
    PROVE  ResultOK'
<1>1. CASE result = "running"
  <2>1. CASE FinishMerge
    <3>1. Quiescent'
      BY <2>1 DEF FinishMerge, Quiescent, inputVars, Group
    <3>2. result' = "ok" => ~errors'
      BY <2>1 DEF FinishMerge
    <3> QED
      BY <3>1, <3>2 DEF ResultOK
  <2>2. CASE ~FinishMerge
    <3>1. result' = result
      BY <2>2 DEF Next, LoadAvailable, Exchange, StartInputTask, SplitGroup, HandOver,
                  FinishBucket, WaitForStrings, ProcessStrings
    <3> QED
      BY <1>1, <3>1 DEF ResultOK
  <2> QED
    BY <2>1, <2>2
<1>2. CASE result # "running"
  <2>1. Quiescent
    BY <1>2 DEF ResultOK
  <2>2. \A w \in Spawner : pc[w] \notin Looping
    BY <2>1, Ranges DEF Quiescent, Looping, Spawner, Bucket
  <2>3. ~(\E w \in Spawner : LoadAvailable(w) \/ Exchange(w)) /\ ~StartInputTask
    BY <2>1, <2>2 DEF Quiescent, LoadAvailable, Exchange, StartInputTask, Looping, SharedOK
  <2>4. ~(\E g \in Group : SplitGroup(g) \/ HandOver(g))
    BY <2>1 DEF Quiescent, SplitGroup, HandOver
  <2>5. ~(\E b \in Bucket : FinishBucket(b) \/ WaitForStrings(b) \/ ProcessStrings(b))
    BY <2>1 DEF Quiescent, FinishBucket, WaitForStrings, ProcessStrings
  <2>6. ~FinishMerge
    BY <1>2 DEF FinishMerge
  <2> QED
    BY <2>3, <2>4, <2>5, <2>6 DEF Next
<1> QED
  BY <1>1, <1>2

LEMMA MergeInvariant == Spec => []MergeInv
<1>1. Init => MergeInv
  BY InitMerge
<1>2. MergeInv /\ [Next]_vars => MergeInv'
  <2> SUFFICES ASSUME MergeInv, [Next]_vars PROVE MergeInv'
    OBVIOUS
  <2>1. CASE Next
    <3>1. SharedOK /\ GroupsOK /\ BucketsOK /\ DroppedOK /\ PoolOK /\ SomebodyTries /\ ResultOK
      BY DEF MergeInv
    <3> QED
      BY <2>1, <3>1, SharedStep, GroupsStep, BucketsStep, DroppedStep, PoolStep,
         TriesStep, ResultStep
         DEF MergeInv
  <2>2. CASE UNCHANGED vars
    <3>1. UNCHANGED <<groups, capacity, popped, idle, part, hand, slot, pc, read, bucket,
                      available, errors, result>>
      BY <2>2 DEF vars
    <3>2. Group' = Group /\ \A g \in Group, b \in Bucket : Handed(g, b)' <=> Handed(g, b)
      BY <3>1 DEF Group, Handed
    <3>3. SharedOK' /\ GroupsOK' /\ DroppedOK' /\ SomebodyTries' /\ ResultOK'
      BY <3>1, <3>2 DEF MergeInv, DroppedOK, SharedOK, GroupsOK, SomebodyTries, ResultOK, Quiescent
    <3>4. BucketsOK'
      <4>1. \A b \in Bucket : BucketOK(b)'
        BY <3>1, <3>2, BucketSame DEF MergeInv, BucketsOK, SlotsSame
      <4> QED
        BY <3>1, <3>2, <4>1 DEF MergeInv, BucketsOK
    <3>5. PoolOK'
      BY <3>1, <3>2 DEF MergeInv, PoolOK, Accounted, InHand, Handed
    <3> QED
      BY <3>3, <3>4, <3>5 DEF MergeInv
  <2> QED
    BY <2>1, <2>2
<1> QED
  BY <1>1, <1>2, PTL DEF Spec

\* When the scope has ended without an error, no group is left: were one, every bucket would
\* wait for it, every vector would be available, and somebody would still try to spawn a task.
LEMMA NothingLeft ==
    ASSUME MergeInv, Quiescent, ~errors
    PROVE  popped = Len(groups) /\ (\A b \in Bucket : pc[b] = "finished") /\ available = capacity
<1>0. /\ SharedOK /\ GroupsOK /\ BucketsOK /\ DroppedOK /\ PoolOK /\ SomebodyTries
      /\ Group = 1 .. Len(groups) /\ Len(groups) \in Nat /\ popped \in 0 .. Len(groups)
  BY DEF MergeInv, SharedOK, Group
<1>1. ASSUME NEW g \in Group, NEW b \in Bucket PROVE g <= popped <=> Handed(g, b)
  <2>1. part[g] \in {"queued", "done"}
    BY <1>0 DEF Quiescent, GroupsOK
  <2> QED
    BY <1>0, <2>1 DEF GroupsOK, Handed
<1>2. ASSUME NEW b \in Bucket
      PROVE  /\ pc[b] \in {"slot", "finished"}
             /\ pc[b] = "slot" => bucket[b].next = popped + 1 /\ popped < Len(groups)
             /\ pc[b] = "finished" => popped = Len(groups)
             /\ \A g \in Group : slot[g][b] # "Strings"
  <2>1. BucketOK(b) /\ pc[b] \in {"slot", "finished", "dropped"}
    BY <1>0 DEF BucketsOK, Quiescent
  <2> DEFINE n == bucket[b].next
  <2>2. n \in 1 .. Len(groups) + 1 /\ (n > Len(groups) => pc[b] \in {"work", "finished"})
    BY <2>1 DEF BucketOK
  <2>3. \A g \in Group : g < n => slot[g][b] = "Empty" /\ g <= popped
    BY <1>1, <2>1 DEF BucketOK
  <2>4. \A g \in Group : g = n => SlotOfNext(b, g)
    BY <2>1 DEF BucketOK
  <2>5. \A g \in Group : g > n => slot[g][b] = IF g <= popped THEN "Strings" ELSE "Empty"
    <3> SUFFICES ASSUME NEW g \in Group, g > n
                 PROVE  slot[g][b] = IF g <= popped THEN "Strings" ELSE "Empty"
      OBVIOUS
    <3>1. slot[g][b] = IF Handed(g, b) THEN "Strings" ELSE "Empty"
      BY <2>1 DEF BucketOK
    <3> QED
      BY <1>1, <3>1
  <2> HIDE DEF n
  <2>6. CASE pc[b] = "slot"
    <3>1. n \in Group /\ slot[n][b] = "Waiting" /\ ~(n <= popped)
      BY <1>0, <1>1, <2>2, <2>4, <2>6 DEF SlotOfNext
    <3>2. n = popped + 1
      <4>1. CASE n = 1
        BY <1>0, <3>1, <4>1
      <4>2. CASE n > 1
        <5>1. n - 1 \in Group /\ n - 1 < n
          BY <1>0, <3>1, <4>2
        <5>2. n - 1 <= popped
          BY <2>3, <5>1
        <5> QED
          BY <1>0, <3>1, <5>2
      <4> QED
        BY <1>0, <3>1, <4>1, <4>2
    <3>3. \A g \in Group : slot[g][b] # "Strings"
      <4> SUFFICES ASSUME NEW g \in Group PROVE slot[g][b] # "Strings"
        OBVIOUS
      <4>1. CASE g < n
        BY <2>3, <4>1
      <4>2. CASE g = n
        BY <3>1, <4>2
      <4>3. CASE g > n
        <5>1. ~(g <= popped)
          BY <1>0, <3>2, <4>3
        <5> QED
          BY <2>5, <4>3, <5>1
      <4> QED
        BY <1>0, <3>1, <4>1, <4>2, <4>3
    <3> QED
      BY <1>0, <2>6, <3>1, <3>2, <3>3 DEF n
  <2>7. CASE pc[b] # "slot"
    <3>1. n = Len(groups) + 1
      <4>1. CASE n \in Group
        <5>1. SlotOfNext(b, n)
          BY <2>4, <4>1
        <5>2. pc[b] = "dropped"
          BY <2>1, <2>7, <5>1 DEF SlotOfNext
        <5> QED
          BY <1>0, <5>2 DEF DroppedOK
      <4> QED
        BY <1>0, <2>2, <4>1
    <3>2. pc[b] = "finished"
      BY <1>0, <2>1, <2>2, <3>1
    <3>3. popped = Len(groups)
      <4>1. Len(groups) \in Group
        BY <1>0 DEF SharedOK
      <4>2. Len(groups) <= popped
        BY <1>0, <2>3, <3>1, <4>1
      <4> QED
        BY <1>0, <4>2
    <3>4. \A g \in Group : slot[g][b] # "Strings"
      BY <1>0, <2>3, <3>1
    <3> QED
      BY <2>7, <3>2, <3>3, <3>4
  <2> QED
    BY <2>6, <2>7
<1>3. InHand = {}
  <2>1. ASSUME NEW g \in Group, NEW b \in Bucket PROVE <<g, b>> \notin InHand
    BY <1>2 DEF InHand, Quiescent
  <2> QED
    BY <2>1 DEF InHand
<1>4. available = capacity /\ capacity \in Nat /\ capacity >= Reserved
  <2>1. Cardinality(InHand) = 0
    BY <1>3, FS_EmptySet
  <2>2. idle = 0 /\ NumBuckets * idle = 0
    BY Ranges DEF Quiescent
  <2>3. available + NumBuckets * idle + Cardinality(InHand) = capacity
    BY <1>0 DEF PoolOK, Accounted
  <2> QED
    BY <1>0, <2>1, <2>2, <2>3 DEF SharedOK
<1>5. \A w \in Spawner : pc[w] \notin Looping
  BY Ranges DEF Quiescent, Looping, Spawner, Bucket
<1>6. popped = Len(groups)
  <2> SUFFICES ASSUME popped < Len(groups) PROVE FALSE
    BY <1>0
  <2>1. available >= Reserved
    BY <1>4
  <2> QED
    BY <1>0, <1>5, <2>1 DEF SomebodyTries, Looping
<1> QED
  BY <1>0, <1>2, <1>4, <1>6

\* NothingLeftBehind, for any sections, sizes of groups, buckets and limit on the groups in hand:
\* try_spawn_input_processing may give up after a lost compare_exchange, tasks may find the
\* queue empty, and buckets wait in slots; when the scope ends without an error every group is
\* merged and every vector is back in the pool.
THEOREM AllMerged == Spec => []NothingLeftBehind
<1>1. MergeInv => NothingLeftBehind
  <2> SUFFICES ASSUME MergeInv, result = "ok"
               PROVE  /\ popped = Len(groups) /\ \A b \in Bucket : pc[b] = "finished"
                      /\ available = capacity
    BY DEF NothingLeftBehind, AllGroupsMerged, PoolRestored
  <2>1. Quiescent /\ ~errors
    BY DEF MergeInv, ResultOK
  <2> QED
    BY <2>1, NothingLeft
<1> QED
  BY <1>1, MergeInvariant, PTL

-----------------------------------------------------------------------------
(* The strings of a section *)

Place == [sec : Nat, at : Nat, len : Nat]

LEMMA ConcatInOrder ==
    ASSUME NEW S, NEW s \in Seq(S), NEW t \in Seq(S)
    PROVE  /\ s \o t \in Seq(S) /\ ToSet(s \o t) = ToSet(s) \cup ToSet(t)
           /\ InOrder(s) /\ InOrder(t)
              /\ (\A x \in ToSet(s), y \in ToSet(t) : InputOffset(x) < InputOffset(y))
              => InOrder(s \o t)
<1> DEFINE u == s \o t
           m == Len(s)
           n == Len(t)
<1>1. /\ m \in Nat /\ n \in Nat /\ DOMAIN s = 1 .. m /\ DOMAIN t = 1 .. n
  BY LenProperties
<1>2. /\ u \in Seq(S) /\ Len(u) = m + n
      /\ \A k \in 1 .. m + n : u[k] = IF k <= m THEN s[k] ELSE t[k - m]
  BY ConcatProperties
<1> HIDE DEF u, m, n
<1>3. DOMAIN u = 1 .. m + n
  BY <1>2, LenProperties
<1>4. ToSet(u) = ToSet(s) \cup ToSet(t)
  <2>1. ASSUME NEW k \in 1 .. m + n PROVE u[k] \in ToSet(s) \cup ToSet(t)
    <3>1. CASE k <= m
      <4>1. k \in 1 .. m /\ u[k] = s[k]
        BY <1>1, <1>2, <3>1
      <4> QED
        BY <1>1, <4>1 DEF ToSet
    <3>2. CASE ~(k <= m)
      <4>1. k - m \in 1 .. n /\ u[k] = t[k - m]
        BY <1>1, <1>2, <3>2
      <4> QED
        BY <1>1, <4>1 DEF ToSet
    <3> QED
      BY <3>1, <3>2
  <2>2. ASSUME NEW k \in 1 .. m PROVE s[k] \in ToSet(u)
    <3>1. k \in 1 .. m + n /\ u[k] = s[k]
      BY <1>1, <1>2
    <3> QED
      BY <1>3, <3>1 DEF ToSet
  <2>3. ASSUME NEW k \in 1 .. n PROVE t[k] \in ToSet(u)
    <3>1. k + m \in 1 .. m + n /\ ~(k + m <= m) /\ (k + m) - m = k
      BY <1>1
    <3>2. u[k + m] = t[k]
      BY <1>2, <3>1
    <3> QED
      BY <1>3, <3>1, <3>2 DEF ToSet
  <2> QED
    BY <1>1, <1>3, <2>1, <2>2, <2>3 DEF ToSet
<1>5. ASSUME InOrder(s), InOrder(t), \A x \in ToSet(s), y \in ToSet(t) : InputOffset(x) < InputOffset(y)
      PROVE  InOrder(u)
  <2> SUFFICES ASSUME NEW j \in 1 .. m + n, NEW k \in 1 .. m + n, j < k
               PROVE  InputOffset(u[j]) < InputOffset(u[k])
    BY <1>3 DEF InOrder
  <2>1. CASE k <= m
    <3>1. j \in 1 .. m /\ k \in 1 .. m /\ u[j] = s[j] /\ u[k] = s[k]
      BY <1>1, <1>2, <2>1
    <3> QED
      BY <1>1, <1>5, <3>1 DEF InOrder
  <2>2. CASE j > m
    <3>1. /\ j - m \in 1 .. n /\ k - m \in 1 .. n /\ j - m < k - m
          /\ u[j] = t[j - m] /\ u[k] = t[k - m]
      BY <1>1, <1>2, <2>2
    <3> QED
      BY <1>1, <1>5, <3>1 DEF InOrder
  <2>3. CASE j <= m /\ k > m
    <3>1. j \in 1 .. m /\ k - m \in 1 .. n /\ u[j] = s[j] /\ u[k] = t[k - m]
      BY <1>1, <1>2, <2>3
    <3>2. u[j] \in ToSet(s) /\ u[k] \in ToSet(t)
      BY <1>1, <3>1 DEF ToSet
    <3> QED
      BY <1>5, <3>2
  <2> QED
    BY <1>1, <2>1, <2>2, <2>3
<1> QED
  BY <1>2, <1>4, <1>5 DEF u

LEMMA OneInOrder ==
    ASSUME NEW x \in Place
    PROVE  <<x>> \in Seq(Place) /\ ToSet(<<x>>) = {x} /\ InOrder(<<x>>)
<1>1. <<x>> \in Seq(Place) /\ DOMAIN <<x>> = {1} /\ <<x>>[1] = x
  OBVIOUS
<1> QED
  BY <1>1 DEF ToSet, InOrder

LEMMA ConsInOrder ==
    ASSUME NEW x \in Place, NEW t \in Seq(Place)
    PROVE  /\ <<x>> \o t \in Seq(Place) /\ ToSet(<<x>> \o t) = {x} \cup ToSet(t)
           /\ InOrder(t) /\ (\A y \in ToSet(t) : InputOffset(x) < InputOffset(y))
              => InOrder(<<x>> \o t)
<1> DEFINE u == <<x>>
<1>1. u \in Seq(Place) /\ ToSet(u) = {x} /\ InOrder(u)
  BY OneInOrder
<1> HIDE DEF u
<1>2. u \o t \in Seq(Place) /\ ToSet(u \o t) = ToSet(u) \cup ToSet(t)
  BY <1>1, ConcatInOrder
<1>3. ASSUME InOrder(t), \A y \in ToSet(t) : InputOffset(x) < InputOffset(y)
      PROVE  InOrder(u \o t)
  <2>1. \A z \in ToSet(u), y \in ToSet(t) : InputOffset(z) < InputOffset(y)
    BY <1>1, <1>3
  <2> QED
    BY <1>1, <1>3, <2>1, ConcatInOrder
<1> QED
  BY <1>1, <1>2, <1>3 DEF u

LEMMA NoneInOrder ==
    <<>> \in Seq(Place) /\ ToSet(<<>>) = {} /\ InOrder(<<>>)
<1>1. <<>> \in Seq(Place) /\ DOMAIN <<>> = {}
  BY EmptySeq
<1> QED
  BY <1>1 DEF ToSet, InOrder

LEMMA NextNull ==
    ASSUME NEW data \in Seq(Nat), NEW p \in 0 .. Len(data), Terminated(data, p)
    PROVE  /\ AfterNull(data, p) \in p + 1 .. Len(data) /\ data[AfterNull(data, p)] = 0
           /\ \A q \in p + 1 .. Len(data) : data[q] = 0 => AfterNull(data, p) <= q
<1> DEFINE S == {q \in p + 1 .. Len(data) : data[q] = 0}
<1>1. Len(data) \in Nat
  BY LenProperties
<1>2. S \in SUBSET Nat /\ S # {}
  BY <1>1 DEF Terminated
<1>3. AfterNull(data, p) = Min(S)
  BY DEF AfterNull
<1> HIDE DEF S
<1>4. Min(S) \in S /\ \A q \in S : Min(S) <= q
  BY <1>2, MinProperties
<1> QED
  BY <1>3, <1>4 DEF S

StringStart(i, p) == p = 0 \/ (sections[i].str /\ sections[i].data[p] = 0)

\* The strings that start in section i.
StringsOf(i) ==
    {Piece(i, p, StringEnd(i, p) - p) :
        p \in {q \in 0 .. Len(sections[i].data) - 1 : StringStart(i, q)}}

LEMMA StringsBySection == InputStrings = UNION {StringsOf(i) : i \in DOMAIN sections}
  BY DEF InputStrings, StringsOf, StringStart

\* take of process_input_section: the strings of section i from one of its offsets on.
LEMMA TakeEquation ==
    ASSUME InputOK, NEW i \in DOMAIN sections, sections[i].str, NEW hi \in Nat
    PROVE  \E take :
              /\ \A lo : SectionPieces(i, lo, hi) = take[Advance(sections[i], lo)]
              /\ \A p \in 0 .. Len(sections[i].data) :
                    take[p] =
                      IF p = Len(sections[i].data) \/ sections[i].start + p >= hi THEN <<>>
                      ELSE IF ~Terminated(sections[i].data, p) THEN <<Piece(i, p, 0)>>
                      ELSE <<Piece(i, p, AfterNull(sections[i].data, p) - p)>>
                             \o take[AfterNull(sections[i].data, p)]
<1> DEFINE data == sections[i].data
           n == Len(data)
           T == 0 .. n
           V == Seq(Place)
           over(p) == p = n \/ sections[i].start + p >= hi
           null(p) == AfterNull(data, p)
           last(p) == ~Terminated(data, p)
           stop == {p \in T : over(p) \/ last(p)}
           m == [p \in T |-> n - p]
           next == [p \in T |-> IF p \in stop THEN p ELSE null(p)]
           base == [p \in T |-> IF over(p) THEN <<>> ELSE <<Piece(i, p, 0)>>]
           step == [p \in T |-> [v \in V |->
                       IF p \in stop THEN v ELSE <<Piece(i, p, null(p) - p)>> \o v]]
           F(f) == [p \in T |-> IF over(p) THEN <<>>
                                ELSE IF last(p) THEN <<Piece(i, p, 0)>>
                                ELSE <<Piece(i, p, null(p) - p)>> \o f[null(p)]]
<1>1. i \in 1 .. Len(sections) /\ i \in Nat /\ data \in Seq(Nat) /\ n \in Nat
  <2>1. InARow(sections)
    BY DEF InputOK, SectionsOK
  <2> QED
    BY <2>1, StartsWhole
<1>2. ASSUME NEW p \in T, p \notin stop
      PROVE  null(p) \in T /\ n - null(p) < n - p /\ Piece(i, p, null(p) - p) \in Place
  <2>1. null(p) \in p + 1 .. n
    BY <1>1, <1>2, NextNull
  <2> HIDE DEF null
  <2> QED
    BY <1>1, <2>1 DEF Piece, Place
<1>3. ASSUME NEW p \in T PROVE Piece(i, p, 0) \in Place
  BY <1>1 DEF Piece, Place
<1> HIDE DEF data, over, null, last
<1>4. m \in [T -> 0 .. n] /\ n \in Nat
  BY <1>1
<1> HIDE DEF n
<1>5. next \in [T -> T] /\ stop \in SUBSET T
  BY <1>2
<1>6. base \in [T -> V]
  <2>1. ASSUME NEW p \in T PROVE <<Piece(i, p, 0)>> \in V
    BY <1>3, OneInOrder
  <2>2. <<>> \in V
    BY EmptySeq
  <2> HIDE DEF V
  <2> QED
    BY <2>1, <2>2
<1>7. step \in [T -> [V -> V]]
  <2>1. ASSUME NEW p \in T, NEW v \in V, p \notin stop
        PROVE  <<Piece(i, p, null(p) - p)>> \o v \in V
    BY <1>2, <2>1, ConsProperties
  <2> HIDE DEF V, stop
  <2> QED
    BY <2>1
<1>8. \A p \in T : p \notin stop => m[next[p]] < m[p]
  <2> SUFFICES ASSUME NEW p \in T, p \notin stop PROVE m[next[p]] < m[p]
    OBVIOUS
  <2>1. next[p] = null(p) /\ null(p) \in T
    BY <1>2
  <2> QED
    BY <1>2, <2>1
<1>9. PICK f \in [T -> V] : Solves(f, T, stop, next, base, step)
  <2> HIDE DEF V, m, next, base, step, stop, T
  <2>1. Recursion(T, V, n, m, stop, next, base, step)
    BY <1>4, <1>5, <1>6, <1>7, <1>8 DEF Recursion
  <2> QED
    BY <2>1, RecursionSolved
<1>10. f = F(f)
  <2>1. ASSUME NEW p \in T
        PROVE  f[p] = F(f)[p]
    <3>1. CASE p \in stop
      BY <1>9, <3>1 DEF Solves
    <3>2. CASE p \notin stop
      <4>1. next[p] = null(p) /\ f[null(p)] \in V
        BY <1>2, <1>9, <3>2
      <4>2. step[p][f[null(p)]] = <<Piece(i, p, null(p) - p)>> \o f[null(p)]
        <5> HIDE DEF V
        <5> QED
          BY <3>2, <4>1
      <4>3. f[p] = <<Piece(i, p, null(p) - p)>> \o f[null(p)]
        <5> HIDE DEF step, next, V, stop
        <5> QED
          BY <1>9, <3>2, <4>1, <4>2 DEF Solves
      <4> HIDE DEF step, next, V
      <4> QED
        BY <3>2, <4>3
    <3> QED
      BY <3>1, <3>2
  <2> HIDE DEF base, step, next, V
  <2> QED
    BY <2>1
<1> DEFINE take == CHOOSE h : h = F(h)
<1>11. take = F(take)
  <2> HIDE DEF F
  <2> QED
    BY <1>10
<1>12. ASSUME NEW lo PROVE SectionPieces(i, lo, hi) = take[Advance(sections[i], lo)]
  BY DEF SectionPieces, T, n, data, over, null, last
<1> HIDE DEF take
<1>13. \A p \in T : take[p] = IF over(p) THEN <<>>
                              ELSE IF last(p) THEN <<Piece(i, p, 0)>>
                              ELSE <<Piece(i, p, null(p) - p)>> \o take[null(p)]
  BY <1>11
<1> QED
  BY <1>12, <1>13 DEF n, data, over, null, last

LEMMA SectionOfInput ==
    ASSUME InputOK, NEW i \in DOMAIN sections
    PROVE  /\ i \in 1 .. Len(sections) /\ i \in Nat
           /\ sections[i].str \in BOOLEAN /\ sections[i].data \in Seq(Nat)
           /\ Len(sections[i].data) \in Nat /\ Len(sections[i].data) > 0
           /\ sections[i].start \in Nat
           /\ \A p : StringEnd(i, p) =
                 IF sections[i].str /\ Terminated(sections[i].data, p)
                   THEN AfterNull(sections[i].data, p) ELSE Len(sections[i].data)
           /\ sections[i].start + Len(sections[i].data) <= EndOf(sections[i])
           /\ EndOf(sections[i]) \in Nat /\ EndOf(sections[i]) <= InputSize(sections)
<1>1. InARow(sections)
  BY DEF InputOK, SectionsOK
<1>2. i \in 1 .. Len(sections) /\ sections[i] \in Section
  BY <1>1, StartsWhole
<1>3. sections[i].start + Len(sections[i].data) <= EndOf(sections[i])
  <2> DEFINE n == Len(sections[i].data)
             q == (n + BlockSize - 1) \div BlockSize
  <2>1. n \in Nat /\ BlockSize \in Nat /\ BlockSize > 0
    BY <1>1, <1>2, StartsWhole, MergingAssumption
  <2>2. n + BlockSize - 1 < BlockSize * q + BlockSize /\ q \in Int
    <3> HIDE DEF n
    <3> QED
      BY <2>1
  <2>3. Padded(n) = BlockSize * q
    <3>1. Padded(n) = q * BlockSize
      BY DEF Padded
    <3> HIDE DEF n, q
    <3> QED
      BY <2>1, <2>2, <3>1
  <2>4. Padded(n) >= n
    <3> HIDE DEF n, q
    <3> QED
      BY <2>1, <2>2, <2>3
  <2> QED
    BY <1>1, <1>2, <2>1, <2>4, StartsWhole
<1> QED
  BY <1>1, <1>2, <1>3, StartsWhole DEF StringEnd, Section

\* A string of section i.
LEMMA StringOfSection ==
    ASSUME InputOK, NEW i \in DOMAIN sections, NEW s \in StringsOf(i)
    PROVE  /\ s \in Place /\ s.sec = i /\ s.at \in 0 .. Len(sections[i].data) - 1
           /\ StringStart(i, s.at) /\ s.len = StringEnd(i, s.at) - s.at
           /\ InputOffset(s) = sections[i].start + s.at /\ InputOffset(s) \in Nat
           /\ s = Piece(i, s.at, StringEnd(i, s.at) - s.at)
<1>1. PICK p \in 0 .. Len(sections[i].data) - 1 :
         StringStart(i, p) /\ s = Piece(i, p, StringEnd(i, p) - p)
  BY DEF StringsOf
<1>2. /\ i \in Nat /\ Len(sections[i].data) \in Nat /\ sections[i].start \in Nat
      /\ sections[i].data \in Seq(Nat)
  BY SectionOfInput
<1>3. s.sec = i /\ s.at = p /\ s.len = StringEnd(i, p) - p
  BY <1>1 DEF Piece
<1>4. StringEnd(i, p) - p \in Nat
  <2>1. CASE sections[i].str /\ Terminated(sections[i].data, p)
    <3>1. AfterNull(sections[i].data, p) \in p + 1 .. Len(sections[i].data)
      BY <1>2, <2>1, NextNull
    <3> QED
      BY <1>2, <2>1, <3>1, SectionOfInput
  <2>2. CASE ~(sections[i].str /\ Terminated(sections[i].data, p))
    BY <1>2, <2>2, SectionOfInput
  <2> QED
    BY <2>1, <2>2
<1>5. s \in Place
  BY <1>1, <1>2, <1>4 DEF Piece, Place
<1> QED
  BY <1>1, <1>2, <1>3, <1>5 DEF InputOffset

LEMMA SectionInOrder ==
    ASSUME InputOK, NEW i \in DOMAIN sections, NEW lo \in Nat, NEW hi \in Nat,
           ~sections[i].str => lo <= sections[i].start /\ sections[i].start < hi,
           sections[i].str /\ sections[i].start < lo =>
               lo - sections[i].start < Len(sections[i].data)
    PROVE  LET strings == SectionPieces(i, lo, hi) IN
              /\ strings \in Seq(Place)
              /\ (\A s \in ToSet(strings) : s.len # 0) =>
                    /\ InOrder(strings)
                    /\ ToSet(strings) = {s \in StringsOf(i) : lo <= InputOffset(s) /\ InputOffset(s) < hi}
<1> DEFINE data == sections[i].data
           n == Len(data)
           start == sections[i].start
           Window(a) == {s \in StringsOf(i) : a <= s.at /\ start + s.at < hi}
           Right(strings, a) ==
              /\ strings \in Seq(Place)
              /\ (\A s \in ToSet(strings) : s.len # 0) => InOrder(strings) /\ ToSet(strings) = Window(a)
<1>1. i \in Nat /\ data \in Seq(Nat) /\ n \in Nat /\ n > 0 /\ start \in Nat /\ DOMAIN data = 1 .. n
  BY SectionOfInput, LenProperties
<1>2. \A s \in StringsOf(i) : s.at \in 0 .. n - 1 /\ InputOffset(s) = start + s.at /\ s \in Place
  BY StringOfSection
<1>3. ASSUME NEW a \in Int, Right(SectionPieces(i, lo, hi), a),
             \A s \in StringsOf(i) : a <= s.at <=> lo <= start + s.at
      PROVE  LET strings == SectionPieces(i, lo, hi) IN
              /\ strings \in Seq(Place)
              /\ (\A s \in ToSet(strings) : s.len # 0) =>
                    /\ InOrder(strings)
                    /\ ToSet(strings) = {s \in StringsOf(i) : lo <= InputOffset(s) /\ InputOffset(s) < hi}
  <2>1. Window(a) = {s \in StringsOf(i) : lo <= InputOffset(s) /\ InputOffset(s) < hi}
    BY <1>2, <1>3
  <2> HIDE DEF Window
  <2> QED
    BY <1>3, <2>1
<1> HIDE DEF data, n, start
<1>4. CASE ~sections[i].str
  <2> DEFINE s == Piece(i, 0, n)
  <2>1. SectionPieces(i, lo, hi) = <<s>>
    BY <1>4 DEF SectionPieces, n, data
  <2>2. s \in Place /\ s.at = 0
    BY <1>1 DEF Place, Piece
  <2>3. StringsOf(i) = {s}
    <3>1. StringEnd(i, 0) = n
      BY <1>4, SectionOfInput DEF n, data
    <3>2. \A q \in 0 .. n - 1 : StringStart(i, q) <=> q = 0
      BY <1>4 DEF StringStart
    <3>3. 0 \in 0 .. n - 1 /\ StringEnd(i, 0) - 0 = n
      BY <1>1, <3>1
    <3>4. {q \in 0 .. n - 1 : StringStart(i, q)} = {0}
      BY <3>2, <3>3
    <3> QED
      BY <3>3, <3>4 DEF StringsOf, n, data
  <2> HIDE DEF s
  <2>4. ToSet(<<s>>) = {s} /\ InOrder(<<s>>) /\ <<s>> \in Seq(Place)
    BY <2>2, OneInOrder
  <2>5. Window(0) = {s}
    BY <1>1, <1>4, <2>2, <2>3 DEF start
  <2>6. Right(<<s>>, 0)
    BY <2>4, <2>5
  <2>7. \A t \in StringsOf(i) : 0 <= t.at <=> lo <= start + t.at
    BY <1>1, <1>4, <2>2, <2>3 DEF start
  <2> HIDE DEF Right
  <2> QED
    BY <1>3, <2>1, <2>6, <2>7
<1>5. CASE sections[i].str
  <2>1. PICK take :
          /\ \A l : SectionPieces(i, l, hi) = take[Advance(sections[i], l)]
          /\ \A p \in 0 .. n :
                take[p] = IF p = n \/ start + p >= hi THEN <<>>
                          ELSE IF ~Terminated(data, p) THEN <<Piece(i, p, 0)>>
                          ELSE <<Piece(i, p, AfterNull(data, p) - p)>> \o take[AfterNull(data, p)]
    BY <1>5, TakeEquation DEF n, data, start
  <2> DEFINE P == {p \in 0 .. n : p = n \/ StringStart(i, p) => Right(take[p], p)}
             m == [p \in 0 .. n |-> n - p]
  <2>2. \A p \in 0 .. n - 1 : StringStart(i, p) <=> p = 0 \/ data[p] = 0
    BY <1>5 DEF StringStart, data
  <2>3. 0 .. n \subseteq P
    <3>1. ASSUME NEW p \in 0 .. n, \A q \in 0 .. n : m[q] < m[p] => q \in P, p = n \/ StringStart(i, p)
          PROVE  Right(take[p], p)
      <4>1. CASE p = n \/ start + p >= hi
        <5>1. take[p] = <<>>
          BY <2>1, <4>1
        <5>2. Window(p) = {}
          BY <1>1, <1>2, <4>1
        <5> HIDE DEF Window
        <5> QED
          BY <5>1, <5>2, NoneInOrder
      <4>2. CASE ~(p = n \/ start + p >= hi) /\ ~Terminated(data, p)
        <5>1. take[p] = <<Piece(i, p, 0)>>
          BY <2>1, <4>2
        <5>2. Piece(i, p, 0) \in Place /\ Piece(i, p, 0).len = 0
          BY <1>1 DEF Piece, Place
        <5>3. <<Piece(i, p, 0)>> \in Seq(Place) /\ ToSet(<<Piece(i, p, 0)>>) = {Piece(i, p, 0)}
          BY <5>2, OneInOrder
        <5> HIDE DEF Window
        <5> QED
          BY <5>1, <5>2, <5>3
      <4>3. CASE ~(p = n \/ start + p >= hi) /\ Terminated(data, p)
        <5> DEFINE q == AfterNull(data, p)
                   s == Piece(i, p, q - p)
        <5>1. q \in p + 1 .. n /\ data[q] = 0 /\ \A r \in p + 1 .. n : data[r] = 0 => q <= r
          BY <1>1, <4>3, NextNull DEF n
        <5>2. take[p] = <<s>> \o take[q]
          BY <2>1, <4>3
        <5>3. p \in 0 .. n - 1 /\ StringEnd(i, p) = q
          BY <1>1, <1>5, <3>1, <4>3, SectionOfInput DEF data
        <5> HIDE DEF q
        <5>4. s \in StringsOf(i) /\ s.at = p /\ s.len = q - p /\ s \in Place
          <6>1. s = Piece(i, p, StringEnd(i, p) - p) /\ StringStart(i, p)
            BY <1>1, <3>1, <5>3
          <6>2. s \in StringsOf(i)
            BY <5>3, <6>1 DEF StringsOf, n, data
          <6> QED
            BY <1>2, <6>2 DEF Piece
        <5>5. Right(take[q], q)
          <6>1. q \in 0 .. n /\ m[q] < m[p] /\ (q = n \/ StringStart(i, q))
            BY <1>1, <2>2, <5>1
          <6> QED
            BY <3>1, <6>1
        <5>6. Window(p) = {s} \cup Window(q)
          <6>1. ASSUME NEW t \in StringsOf(i), p <= t.at PROVE t = s \/ q <= t.at
            <7>1. t.at \in 0 .. n - 1 /\ t = Piece(i, t.at, StringEnd(i, t.at) - t.at) /\ StringStart(i, t.at)
              BY <1>2, StringOfSection
            <7>2. CASE t.at = p
              BY <5>3, <7>1, <7>2
            <7>3. CASE t.at # p
              <8>1. t.at \in p + 1 .. n /\ data[t.at] = 0
                BY <1>1, <2>2, <6>1, <7>1, <7>3
              <8> QED
                BY <5>1, <8>1
            <7> QED
              BY <7>2, <7>3
          <6>2. \A t \in StringsOf(i) : q <= t.at => p <= t.at
            BY <1>1, <1>2, <5>1
          <6>3. p <= p /\ start + p < hi
            BY <1>1, <4>3
          <6> HIDE DEF s
          <6> QED
            BY <5>4, <6>1, <6>2, <6>3
        <5> HIDE DEF s, Window
        <5>7. take[q] \in Seq(Place)
          BY <5>5
        <5>8. take[p] \in Seq(Place) /\ ToSet(take[p]) = {s} \cup ToSet(take[q])
          BY <5>2, <5>4, <5>7, ConsInOrder
        <5>9. ASSUME \A t \in ToSet(take[p]) : t.len # 0 PROVE InOrder(take[p]) /\ ToSet(take[p]) = Window(p)
          <6>1. InOrder(take[q]) /\ ToSet(take[q]) = Window(q)
            BY <5>5, <5>8, <5>9
          <6>2. \A t \in Window(q) : InputOffset(s) < InputOffset(t)
            BY <1>1, <1>2, <5>1, <5>4 DEF Window
          <6>3. InOrder(take[p])
            BY <5>2, <5>4, <5>7, <6>1, <6>2, ConsInOrder
          <6> QED
            BY <5>6, <5>8, <6>1, <6>3
        <5> QED
          BY <5>8, <5>9
      <4> QED
        BY <4>1, <4>2, <4>3
    <3> DEFINE T == 0 .. n
    <3>2. \A p \in T : (\A q \in T : m[q] < m[p] => q \in P) => p \in P
      <4> HIDE DEF Right, m
      <4> QED
        BY <3>1
    <3>3. m \in [T -> Nat]
      BY <1>1
    <3>4. T \subseteq P
      <4> HIDE DEF P, m, T
      <4> QED
        BY <3>2, <3>3, MeasureInduction
    <3> QED
      BY <3>4
  <2> DEFINE a == Advance(sections[i], lo)
             p0 == lo - start
  <2>4. /\ a \in 0 .. n /\ (a = n \/ StringStart(i, a))
        /\ \A s \in StringsOf(i) : a <= s.at <=> lo <= start + s.at
    <3>1. a = CASE p0 <= 0 -> 0
                [] p0 > 0 /\ data[p0] = 0 -> p0
                [] OTHER -> IF Terminated(data, p0) THEN AfterNull(data, p0) ELSE n
      BY DEF Advance, start, data, n
    <3>2. p0 \in Int /\ (p0 > 0 => p0 < n)
      BY <1>1, <1>5 DEF start, n, data
    <3> HIDE DEF a, p0
    <3>3. \A s \in StringsOf(i) : s.at \in 0 .. n - 1 /\ (s.at = 0 \/ data[s.at] = 0) /\ (p0 <= s.at <=> lo <= start + s.at)
      <4> SUFFICES ASSUME NEW s \in StringsOf(i)
                   PROVE  s.at \in 0 .. n - 1 /\ (s.at = 0 \/ data[s.at] = 0) /\ (p0 <= s.at <=> lo <= start + s.at)
        OBVIOUS
      <4>1. s.at \in 0 .. n - 1 /\ StringStart(i, s.at)
        BY <1>2, StringOfSection
      <4> QED
        BY <1>1, <2>2, <4>1 DEF p0
    <3>4. CASE p0 <= 0
      <4>1. a = 0
        BY <3>1, <3>2, <3>4
      <4> QED
        BY <1>1, <2>2, <3>2, <3>3, <3>4, <4>1
    <3>5. CASE p0 > 0 /\ data[p0] = 0
      <4>1. a = p0
        BY <3>1, <3>2, <3>5
      <4> QED
        BY <1>1, <2>2, <3>2, <3>3, <3>5, <4>1
    <3>6. CASE p0 > 0 /\ data[p0] # 0 /\ Terminated(data, p0)
      <4>1. a = AfterNull(data, p0)
        BY <3>1, <3>2, <3>6
      <4>2. a \in p0 + 1 .. n /\ data[a] = 0 /\ \A r \in p0 + 1 .. n : data[r] = 0 => a <= r
        BY <1>1, <3>2, <3>6, <4>1, NextNull DEF n
      <4>3. ASSUME NEW s \in StringsOf(i) PROVE a <= s.at <=> p0 <= s.at
        <5>1. s.at \in 0 .. n - 1 /\ (s.at = 0 \/ data[s.at] = 0)
          BY <3>3
        <5>2. p0 <= s.at => s.at \in p0 + 1 .. n /\ data[s.at] = 0
          BY <1>1, <3>2, <3>6, <5>1
        <5> QED
          BY <1>1, <3>2, <4>2, <5>1, <5>2
      <4>4. a \in 0 .. n /\ (a = n \/ StringStart(i, a))
        BY <1>1, <2>2, <3>2, <3>6, <4>2
      <4> QED
        BY <3>3, <4>3, <4>4
    <3>7. CASE p0 > 0 /\ data[p0] # 0 /\ ~Terminated(data, p0)
      <4>1. a = n
        BY <3>1, <3>2, <3>7
      <4>2. ASSUME NEW s \in StringsOf(i) PROVE ~(n <= s.at) /\ ~(p0 <= s.at)
        <5>1. s.at \in 0 .. n - 1 /\ (s.at = 0 \/ data[s.at] = 0)
          BY <3>3
        <5>2. p0 <= s.at => s.at \in p0 + 1 .. n /\ data[s.at] = 0
          BY <1>1, <3>2, <3>7, <5>1
        <5>3. ~(p0 <= s.at)
          BY <3>7, <5>2 DEF Terminated, n
        <5> QED
          BY <1>1, <5>1, <5>3
      <4> QED
        BY <1>1, <3>3, <4>1, <4>2
    <3> QED
      BY <3>2, <3>4, <3>5, <3>6, <3>7
  <2>5. SectionPieces(i, lo, hi) = take[a]
    BY <2>1
  <2> HIDE DEF a, p0
  <2>6. Right(take[a], a)
    <3> HIDE DEF Right
    <3> QED
      BY <2>3, <2>4
  <2>7. a \in Int /\ Right(SectionPieces(i, lo, hi), a)
    BY <1>1, <2>4, <2>5, <2>6
  <2> HIDE DEF Right
  <2> QED
    BY <1>3, <2>4, <2>7
<1> QED
  BY <1>4, <1>5

-----------------------------------------------------------------------------
(* The strings of a group *)

LEMMA StringOfInput ==
    ASSUME InputOK, NEW s \in InputStrings
    PROVE  /\ s \in Place /\ s.sec \in DOMAIN sections /\ s \in StringsOf(s.sec)
           /\ InputOffset(s) \in Nat /\ sections[s.sec].start <= InputOffset(s)
           /\ InputOffset(s) < EndOf(sections[s.sec]) /\ InputOffset(s) < InputSize(sections)
<1>1. PICK i \in DOMAIN sections : s \in StringsOf(i)
  BY StringsBySection
<1>2. /\ s \in Place /\ s.sec = i /\ s.at \in 0 .. Len(sections[i].data) - 1
      /\ InputOffset(s) = sections[i].start + s.at
  BY <1>1, StringOfSection
<1>3. /\ sections[i].start \in Nat /\ Len(sections[i].data) \in Nat
      /\ sections[i].start + Len(sections[i].data) <= EndOf(sections[i])
      /\ EndOf(sections[i]) \in Nat /\ EndOf(sections[i]) <= InputSize(sections)
  BY SectionOfInput
<1>4. InputSize(sections) \in Nat
  BY StartsWhole DEF InputOK, SectionsOK
<1> QED
  BY <1>1, <1>2, <1>3, <1>4

LEMMA GroupOfInput ==
    ASSUME InputOK, NEW g \in Group
    PROVE  /\ groups[g] \in MergeGroup /\ Fits(sections, groups[g])
           /\ groups[g].first \in Nat /\ groups[g].first >= 1 /\ groups[g].last \in Nat
           /\ groups[g].first <= groups[g].last
           /\ groups[g].lo \in Nat /\ groups[g].hi \in Nat
           /\ \A i \in groups[g].first .. groups[g].last : i \in DOMAIN sections
<1>1. groups \in Seq(MergeGroup) /\ g \in 1 .. Len(groups) /\ Fits(sections, groups[g])
  BY DEF InputOK, Follow, Group
<1>2. groups[g] \in MergeGroup
  BY <1>1, ElementOfSeq
<1>3. DOMAIN sections = 1 .. Len(sections) /\ Len(sections) \in Nat
  BY StartsWhole DEF InputOK, SectionsOK
<1> QED
  BY <1>1, <1>2, <1>3 DEF Fits, MergeGroup

LEMMA PiecesEquation ==
    ASSUME InputOK, NEW g \in Group
    PROVE  \E upto :
              /\ Pieces(g) = upto[groups[g].last]
              /\ \A i \in 0 .. groups[g].last :
                    upto[i] = IF i < groups[g].first THEN <<>>
                              ELSE upto[i - 1] \o SectionPieces(i, groups[g].lo, groups[g].hi)
<1> DEFINE first == groups[g].first
           last == groups[g].last
           strings(i) == SectionPieces(i, groups[g].lo, groups[g].hi)
           T == 0 .. last
           V == Seq(Place)
           stop == {i \in T : i < first}
           m == [i \in T |-> i]
           next == [i \in T |-> IF i \in stop THEN i ELSE i - 1]
           base == [i \in T |-> <<>>]
           step == [i \in T |-> [v \in V |-> IF i \in stop THEN v ELSE v \o strings(i)]]
           F(f) == [i \in T |-> IF i < first THEN <<>> ELSE f[i - 1] \o strings(i)]
<1>1. first \in Nat /\ first >= 1 /\ last \in Nat /\ first <= last
  BY GroupOfInput
<1>2. ASSUME NEW i \in T, i \notin stop PROVE strings(i) \in V /\ i - 1 \in T
  <2>1. i \in first .. last /\ i - 1 \in T
    BY <1>1, <1>2
  <2>2. i \in DOMAIN sections /\ groups[g].lo \in Nat /\ groups[g].hi \in Nat
    BY <2>1, GroupOfInput
  <2>3. /\ ~sections[i].str => groups[g].lo <= sections[i].start /\ sections[i].start < groups[g].hi
        /\ sections[i].str /\ sections[i].start < groups[g].lo =>
              groups[g].lo - sections[i].start < Len(sections[i].data)
    BY <2>1, GroupOfInput DEF Fits
  <2> QED
    BY <2>1, <2>2, <2>3, SectionInOrder
<1> HIDE DEF first, last, strings
<1>4. m \in [T -> 0 .. last] /\ last \in Nat
  BY <1>1
<1>5. next \in [T -> T] /\ stop \in SUBSET T
  BY <1>2
<1>6. base \in [T -> V]
  BY EmptySeq
<1>7. step \in [T -> [V -> V]]
  <2>1. ASSUME NEW i \in T, NEW v \in V, i \notin stop PROVE v \o strings(i) \in V
    BY <1>2, <2>1, ConcatProperties
  <2> HIDE DEF V, stop
  <2> QED
    BY <2>1
<1>8. \A i \in T : i \notin stop => m[next[i]] < m[i]
  <2> SUFFICES ASSUME NEW i \in T, i \notin stop PROVE m[next[i]] < m[i]
    OBVIOUS
  <2>1. next[i] = i - 1 /\ i - 1 \in T
    BY <1>2
  <2> QED
    BY <1>1, <2>1
<1>9. PICK f \in [T -> V] : Solves(f, T, stop, next, base, step)
  <2> HIDE DEF V, m, next, base, step, stop, T
  <2>1. Recursion(T, V, last, m, stop, next, base, step)
    BY <1>4, <1>5, <1>6, <1>7, <1>8 DEF Recursion
  <2> QED
    BY <2>1, RecursionSolved
<1>10. f = F(f)
  <2>1. ASSUME NEW i \in T
        PROVE  f[i] = F(f)[i]
    <3>1. CASE i \in stop
      BY <1>9, <3>1 DEF Solves
    <3>2. CASE i \notin stop
      <4>1. next[i] = i - 1 /\ f[i - 1] \in V
        BY <1>2, <1>9, <3>2
      <4>2. step[i][f[i - 1]] = f[i - 1] \o strings(i)
        <5> HIDE DEF V
        <5> QED
          BY <3>2, <4>1
      <4>3. f[i] = f[i - 1] \o strings(i)
        <5> HIDE DEF step, next, V, stop
        <5> QED
          BY <1>9, <3>2, <4>1, <4>2 DEF Solves
      <4> HIDE DEF step, next, V
      <4> QED
        BY <3>2, <4>3
    <3> QED
      BY <3>1, <3>2
  <2> HIDE DEF base, step, next, V
  <2> QED
    BY <2>1
<1> DEFINE upto == CHOOSE h : h = F(h)
<1>11. upto = F(upto)
  <2> HIDE DEF F
  <2> QED
    BY <1>10
<1>12. Pieces(g) = upto[last]
  BY DEF Pieces, T, last, first, strings
<1> HIDE DEF upto
<1>13. \A i \in T : upto[i] = IF i < first THEN <<>> ELSE upto[i - 1] \o strings(i)
  BY <1>11
<1> QED
  BY <1>12, <1>13 DEF first, last, strings

Between(lo, hi) == {s \in InputStrings : lo <= InputOffset(s) /\ InputOffset(s) < hi}

LEMMA PiecesInOrder ==
    ASSUME InputOK, NEW g \in Group
    PROVE  /\ Pieces(g) \in Seq(Place)
           /\ ~SplitFails(g) =>
                 InOrder(Pieces(g)) /\ ToSet(Pieces(g)) = Between(groups[g].lo, groups[g].hi)
<1> DEFINE first == groups[g].first
           last == groups[g].last
           lo == groups[g].lo
           hi == groups[g].hi
           Window(i) == {s \in InputStrings : /\ first <= s.sec /\ s.sec <= i
                                             /\ lo <= InputOffset(s) /\ InputOffset(s) < hi}
           Right(strings, i) ==
              /\ strings \in Seq(Place)
              /\ (\A s \in ToSet(strings) : s.len # 0) => InOrder(strings) /\ ToSet(strings) = Window(i)
<1>1. /\ first \in Nat /\ first >= 1 /\ last \in Nat /\ first <= last /\ lo \in Nat /\ hi \in Nat
      /\ Fits(sections, groups[g]) /\ \A i \in first .. last : i \in DOMAIN sections
  BY GroupOfInput
<1>2. PICK upto :
         /\ Pieces(g) = upto[last]
         /\ \A i \in 0 .. last :
               upto[i] = IF i < first THEN <<>> ELSE upto[i - 1] \o SectionPieces(i, lo, hi)
  BY PiecesEquation
<1>0. DOMAIN sections = 1 .. Len(sections) /\ Len(sections) \in Nat /\ InARow(sections)
  BY StartsWhole DEF InputOK, SectionsOK
<1> DEFINE S == {i \in Nat : i <= last => Right(upto[i], i)}
<1> HIDE DEF first, last, lo, hi
<1>3. ASSUME NEW i \in 0 .. last, i < first PROVE Right(upto[i], i)
  <2>1. upto[i] = <<>>
    BY <1>2, <1>3
  <2>2. Window(i) = {}
    <3> SUFFICES ASSUME NEW s \in InputStrings, first <= s.sec, s.sec <= i PROVE FALSE
      OBVIOUS
    <3>1. s.sec \in Nat
      BY StringOfInput DEF Place
    <3> QED
      BY <1>1, <1>3, <3>1
  <2> HIDE DEF Window
  <2> QED
    BY <2>1, <2>2, NoneInOrder
<1>4. ASSUME NEW i \in first .. last, Right(upto[i - 1], i - 1) PROVE Right(upto[i], i)
  <2> DEFINE before == upto[i - 1]
             here == SectionPieces(i, lo, hi)
  <2>0. i \in 0 .. last /\ ~(i < first) /\ i \in DOMAIN sections
    BY <1>1
  <2>1. upto[i] = before \o here /\ i \in DOMAIN sections
    BY <1>2, <2>0
  <2>2. /\ here \in Seq(Place)
        /\ (\A s \in ToSet(here) : s.len # 0) =>
              /\ InOrder(here)
              /\ ToSet(here) = {s \in StringsOf(i) : lo <= InputOffset(s) /\ InputOffset(s) < hi}
    <3>1. /\ ~sections[i].str => lo <= sections[i].start /\ sections[i].start < hi
          /\ sections[i].str /\ sections[i].start < lo => lo - sections[i].start < Len(sections[i].data)
      BY <1>1 DEF Fits, lo, hi, first, last
    <3> QED
      BY <1>1, <2>1, <3>1, SectionInOrder
  <2>3. before \in Seq(Place)
    BY <1>4
  <2> HIDE DEF before, here
  <2>4. upto[i] \in Seq(Place) /\ ToSet(upto[i]) = ToSet(before) \cup ToSet(here)
    BY <2>1, <2>2, <2>3, ConcatInOrder
  <2>5. ASSUME \A s \in ToSet(upto[i]) : s.len # 0
        PROVE  InOrder(upto[i]) /\ ToSet(upto[i]) = Window(i)
    <3>1. InOrder(before) /\ ToSet(before) = Window(i - 1)
      BY <1>4, <2>4, <2>5 DEF before
    <3>2. /\ InOrder(here)
          /\ ToSet(here) = {s \in StringsOf(i) : lo <= InputOffset(s) /\ InputOffset(s) < hi}
      BY <2>2, <2>4, <2>5
    <3>3. ASSUME NEW s \in Window(i - 1), NEW t \in StringsOf(i) PROVE InputOffset(s) < InputOffset(t)
      <4>1. /\ s.sec \in 1 .. Len(sections) /\ s.sec < i /\ i \in 1 .. Len(sections)
            /\ InputOffset(s) \in Nat /\ InputOffset(s) < EndOf(sections[s.sec])
        BY <1>0, <1>1, <2>1, StringOfInput
      <4>2. EndOf(sections[s.sec]) <= sections[i].start
        BY <1>0, <4>1, StartsLater
      <4>3. t \in InputStrings /\ t.sec = i
        BY <2>1, StringsBySection, StringOfSection
      <4>4. InputOffset(t) \in Nat /\ sections[i].start <= InputOffset(t)
        BY <4>3, StringOfInput
      <4>5. EndOf(sections[s.sec]) \in Nat /\ sections[i].start \in Nat
        BY <1>0, <2>1, <4>1, SectionOfInput
      <4> QED
        BY <4>1, <4>2, <4>4, <4>5
    <3>4. InOrder(upto[i])
      <4>1. \A x \in ToSet(before), y \in ToSet(here) : InputOffset(x) < InputOffset(y)
        <5> HIDE DEF Window
        <5> QED
          BY <3>1, <3>2, <3>3
      <4> QED
        BY <2>1, <2>2, <2>3, <3>1, <3>2, <4>1, ConcatInOrder
    <3>5. Window(i) = Window(i - 1) \cup {s \in StringsOf(i) : lo <= InputOffset(s) /\ InputOffset(s) < hi}
      <4>1. ASSUME NEW s \in InputStrings
            PROVE  /\ s.sec \in Nat
                   /\ first <= s.sec /\ s.sec <= i <=> (first <= s.sec /\ s.sec <= i - 1) \/ s \in StringsOf(i)
        <5>1. s.sec \in Nat /\ s \in StringsOf(s.sec)
          BY StringOfInput DEF Place
        <5>2. s \in StringsOf(i) => s.sec = i
          BY <2>1, StringOfSection
        <5> QED
          BY <1>1, <5>1, <5>2
      <4>2. \A s \in StringsOf(i) : s \in InputStrings
        BY <2>1, StringsBySection
      <4> QED
        BY <4>1, <4>2
    <3> QED
      BY <2>4, <3>1, <3>2, <3>4, <3>5
  <2> QED
    BY <2>4, <2>5
<1>5. Nat \subseteq S
  <2>1. 0 \in S
    BY <1>1, <1>3
  <2>2. ASSUME NEW i \in Nat, i \in S PROVE i + 1 \in S
    <3> SUFFICES ASSUME i + 1 <= last PROVE Right(upto[i + 1], i + 1)
      OBVIOUS
    <3>1. CASE i + 1 < first
      <4>1. i + 1 \in 0 .. last
        BY <1>1
      <4> HIDE DEF Right
      <4> QED
        BY <1>3, <3>1, <4>1
    <3>2. CASE ~(i + 1 < first)
      <4>1. i + 1 \in first .. last /\ (i + 1) - 1 = i /\ i <= last
        BY <1>1, <3>2
      <4>2. Right(upto[i], i)
        BY <2>2, <4>1
      <4> HIDE DEF Right
      <4>3. Right(upto[(i + 1) - 1], (i + 1) - 1)
        BY <4>1, <4>2
      <4> QED
        BY <1>4, <4>1, <4>3
    <3> QED
      BY <3>1, <3>2
  <2> HIDE DEF S
  <2> QED
    BY <2>1, <2>2, Induction
<1>6. Right(Pieces(g), last)
  <2>1. last \in S
    BY <1>1, <1>5
  <2> HIDE DEF Right
  <2> QED
    BY <1>1, <1>2, <2>1
<1>7. Window(last) = Between(lo, hi)
  <2>1. ASSUME NEW s \in InputStrings, lo <= InputOffset(s), InputOffset(s) < hi
        PROVE  first <= s.sec /\ s.sec <= last
    <3> DEFINE k == s.sec
    <3>1. /\ k \in 1 .. Len(sections) /\ InputOffset(s) \in Nat
          /\ sections[k].start <= InputOffset(s) /\ InputOffset(s) < EndOf(sections[k])
          /\ sections[k].start \in Nat /\ EndOf(sections[k]) \in Nat
      BY <1>0, StringOfInput, SectionOfInput
    <3>2. first \in DOMAIN sections /\ last \in DOMAIN sections
      BY <1>1
    <3>3. /\ sections[first].start \in Nat /\ EndOf(sections[last]) \in Nat
          /\ sections[first].start <= lo /\ hi <= EndOf(sections[last])
      BY <1>1, <3>2, SectionOfInput DEF Fits, first, last, lo, hi
    <3> HIDE DEF k
    <3>4. ~(k < first)
      <4> SUFFICES ASSUME k < first PROVE FALSE
        OBVIOUS
      <4>1. EndOf(sections[k]) <= sections[first].start
        BY <1>0, <3>1, <3>2, StartsLater
      <4> QED
        BY <1>1, <2>1, <3>1, <3>3, <4>1
    <3>5. ~(k > last)
      <4> SUFFICES ASSUME k > last PROVE FALSE
        OBVIOUS
      <4>1. EndOf(sections[last]) <= sections[k].start
        BY <1>0, <1>1, <3>1, <3>2, StartsLater
      <4> QED
        BY <1>1, <2>1, <3>1, <3>3, <4>1
    <3> QED
      BY <1>1, <3>1, <3>4, <3>5 DEF k
  <2> QED
    BY <2>1 DEF Between
<1> HIDE DEF Window
<1>8. /\ Pieces(g) \in Seq(Place)
      /\ (\A s \in ToSet(Pieces(g)) : s.len # 0) => InOrder(Pieces(g)) /\ ToSet(Pieces(g)) = Between(lo, hi)
  BY <1>6, <1>7
<1> QED
  BY <1>8 DEF SplitFails, lo, hi

-----------------------------------------------------------------------------
(* The strings of a bucket *)

LEMMA AddedEquation ==
    ASSUME InputOK, NEW g \in Group, NEW b, NEW strings \in Seq(Place)
    PROVE  \E after :
              /\ Added(strings, g, b) = after[Len(Pieces(g))]
              /\ \A k \in 0 .. Len(Pieces(g)) :
                    after[k] =
                      IF k = 0 THEN strings
                      ELSE IF HashBucket(Bytes(Pieces(g)[k])) # b \/ Holds(after[k - 1], Pieces(g)[k])
                             THEN after[k - 1]
                             ELSE Append(after[k - 1], Pieces(g)[k])
<1> DEFINE pieces == Pieces(g)
           n == Len(pieces)
           foreign(k) == HashBucket(Bytes(pieces[k])) # b
           Grown(list, k) == IF foreign(k) \/ Holds(list, pieces[k]) THEN list ELSE Append(list, pieces[k])
           T == 0 .. n
           V == Seq(Place)
           stop == {0}
           m == [k \in T |-> k]
           next == [k \in T |-> IF k = 0 THEN 0 ELSE k - 1]
           base == [k \in T |-> strings]
           step == [k \in T |-> [v \in V |-> IF k = 0 THEN v ELSE Grown(v, k)]]
           F(f) == [k \in T |-> IF k = 0 THEN strings ELSE Grown(f[k - 1], k)]
<1>1. n \in Nat /\ \A k \in 1 .. n : pieces[k] \in Place
  <2>1. pieces \in Seq(Place)
    BY PiecesInOrder
  <2> HIDE DEF pieces
  <2> QED
    BY <2>1, ElementOfSeq, LenProperties
<1>2. ASSUME NEW k \in T, k # 0, NEW v \in V PROVE Grown(v, k) \in V
  <2>1. pieces[k] \in Place
    BY <1>1, <1>2
  <2>2. Append(v, pieces[k]) \in V
    BY <2>1, AppendProperties
  <2> HIDE DEF pieces, foreign, V
  <2> QED
    BY <2>2
<1> HIDE DEF pieces, n, Grown
<1>4. m \in [T -> 0 .. n] /\ n \in Nat
  BY <1>1
<1>5. next \in [T -> T] /\ stop \in SUBSET T
  BY <1>1
<1>6. base \in [T -> V]
  OBVIOUS
<1>7. step \in [T -> [V -> V]]
  <2> HIDE DEF V
  <2> QED
    BY <1>2
<1>8. \A k \in T : k \notin stop => m[next[k]] < m[k]
  <2> SUFFICES ASSUME NEW k \in T, k # 0 PROVE m[next[k]] < m[k]
    OBVIOUS
  <2>1. next[k] = k - 1 /\ k - 1 \in T
    BY <1>1
  <2> QED
    BY <1>1, <2>1
<1>9. PICK f \in [T -> V] : Solves(f, T, stop, next, base, step)
  <2> HIDE DEF V, m, next, base, step, stop, T
  <2>1. Recursion(T, V, n, m, stop, next, base, step)
    BY <1>4, <1>5, <1>6, <1>7, <1>8 DEF Recursion
  <2> QED
    BY <2>1, RecursionSolved
<1>10. f = F(f)
  <2>1. ASSUME NEW k \in T
        PROVE  f[k] = F(f)[k]
    <3>1. CASE k = 0
      BY <1>9, <3>1 DEF Solves
    <3>2. CASE k # 0
      <4>1. next[k] = k - 1 /\ f[k - 1] \in V
        BY <1>1, <1>9, <3>2
      <4>2. step[k][f[k - 1]] = Grown(f[k - 1], k)
        <5> HIDE DEF V
        <5> QED
          BY <3>2, <4>1
      <4>3. f[k] = Grown(f[k - 1], k)
        <5> HIDE DEF step, next, V
        <5> QED
          BY <1>9, <3>2, <4>1, <4>2 DEF Solves
      <4> HIDE DEF step, next, V
      <4> QED
        BY <3>2, <4>3
    <3> QED
      BY <3>1, <3>2
  <2> HIDE DEF base, step, next, V
  <2> QED
    BY <2>1
<1> DEFINE after == CHOOSE h : h = F(h)
<1>11. after = F(after)
  <2> HIDE DEF F
  <2> QED
    BY <1>10
<1>12. Added(strings, g, b) = after[n]
  BY DEF Added, T, n, pieces, Grown
<1> HIDE DEF after
<1>13. \A k \in T : after[k] = IF k = 0 THEN strings ELSE Grown(after[k - 1], k)
  BY <1>11
<1> QED
  BY <1>12, <1>13 DEF n, pieces, Grown

LEMMA AppendInOrder ==
    ASSUME NEW s \in Seq(Place), NEW x \in Place
    PROVE  /\ Append(s, x) \in Seq(Place) /\ ToSet(Append(s, x)) = ToSet(s) \cup {x}
           /\ InOrder(s) /\ (\A y \in ToSet(s) : InputOffset(y) < InputOffset(x))
              => InOrder(Append(s, x))
<1> DEFINE u == Append(s, x)
           n == Len(s)
<1>1. n \in Nat /\ DOMAIN s = 1 .. n
  BY LenProperties
<1>2. /\ u \in Seq(Place) /\ DOMAIN u = 1 .. n + 1 /\ u[n + 1] = x
      /\ \A k \in 1 .. n : u[k] = s[k]
  BY <1>1, AppendProperties
<1> HIDE DEF u, n
<1>3. ToSet(u) = ToSet(s) \cup {x}
  <2>1. ASSUME NEW k \in 1 .. n + 1 PROVE u[k] \in ToSet(s) \cup {x}
    <3>1. CASE k = n + 1
      BY <1>2, <3>1
    <3>2. CASE k # n + 1
      <4>1. k \in 1 .. n
        BY <1>1, <3>2
      <4> QED
        BY <1>1, <1>2, <4>1 DEF ToSet
    <3> QED
      BY <3>1, <3>2
  <2>2. \A k \in 1 .. n : k \in 1 .. n + 1
    BY <1>1
  <2>3. n + 1 \in 1 .. n + 1
    BY <1>1
  <2> QED
    BY <1>1, <1>2, <2>1, <2>2, <2>3 DEF ToSet
<1>4. ASSUME InOrder(s), \A y \in ToSet(s) : InputOffset(y) < InputOffset(x)
      PROVE  InOrder(u)
  <2> SUFFICES ASSUME NEW j \in 1 .. n + 1, NEW k \in 1 .. n + 1, j < k
               PROVE  InputOffset(u[j]) < InputOffset(u[k])
    BY <1>2 DEF InOrder
  <2>1. j \in 1 .. n /\ u[j] = s[j]
    BY <1>1, <1>2
  <2>2. CASE k = n + 1
    <3>1. s[j] \in ToSet(s)
      BY <1>1, <2>1 DEF ToSet
    <3> QED
      BY <1>2, <1>4, <2>1, <2>2, <3>1
  <2>3. CASE k # n + 1
    <3>1. k \in 1 .. n /\ u[k] = s[k]
      BY <1>1, <1>2, <2>3
    <3> QED
      BY <1>1, <1>4, <2>1, <3>1 DEF InOrder
  <2> QED
    BY <2>2, <2>3
<1> QED
  BY <1>2, <1>3, <1>4 DEF u

\* Among the strings with the same bytes there is a first one.
LEMMA FirstExists ==
    ASSUME InputOK, NEW s \in InputStrings
    PROVE  \E t \in InputStrings :
              Bytes(t) = Bytes(s) /\ IsFirst(t) /\ InputOffset(t) <= InputOffset(s)
<1> DEFINE S == {InputOffset(t) : t \in {u \in InputStrings : Bytes(u) = Bytes(s)}}
<1>1. S \in SUBSET Nat /\ InputOffset(s) \in S
  BY StringOfInput
<1>2. Min(S) \in S /\ \A n \in S : Min(S) <= n
  <2> HIDE DEF S
  <2> QED
    BY <1>1, MinProperties
<1>3. PICK t \in InputStrings : Bytes(t) = Bytes(s) /\ InputOffset(t) = Min(S)
  BY <1>2
<1>4. \A u \in InputStrings : Bytes(u) = Bytes(s) => InputOffset(t) <= InputOffset(u)
  BY <1>2, <1>3
<1> HIDE DEF S
<1> QED
  BY <1>1, <1>2, <1>3, <1>4 DEF IsFirst

\* The strings of a group are added to those of the groups before: the first ones up to the end
\* of the group.
LEMMA AddedInOrder ==
    ASSUME InputOK, NEW g \in Group, ~SplitFails(g), NEW b, NEW strings \in Seq(InputStrings),
           InOrder(strings), ToSet(strings) = FirstOnes(b, groups[g].lo),
           groups[g].lo <= groups[g].hi
    PROVE  /\ Added(strings, g, b) \in Seq(InputStrings) /\ InOrder(Added(strings, g, b))
           /\ ToSet(Added(strings, g, b)) = FirstOnes(b, groups[g].hi)
<1> DEFINE pieces == Pieces(g)
           n == Len(pieces)
           lo == groups[g].lo
           hi == groups[g].hi
           Ones(k) == {s \in FirstOnes(b, hi) : InputOffset(s) < lo \/ \E j \in 1 .. k : s = pieces[j]}
           Right(list, k) == list \in Seq(Place) /\ InOrder(list) /\ ToSet(list) = Ones(k)
<1>1. /\ pieces \in Seq(Place) /\ n \in Nat /\ DOMAIN pieces = 1 .. n
      /\ InOrder(pieces) /\ ToSet(pieces) = Between(lo, hi)
      /\ \A k \in 1 .. n : pieces[k] \in Place /\ pieces[k] \in Between(lo, hi)
  <2>1. pieces \in Seq(Place) /\ InOrder(pieces) /\ ToSet(pieces) = Between(lo, hi)
    BY PiecesInOrder
  <2> HIDE DEF pieces
  <2>2. n \in Nat /\ DOMAIN pieces = 1 .. n
    BY <2>1, LenProperties
  <2>3. \A k \in 1 .. n : pieces[k] \in Place /\ pieces[k] \in ToSet(pieces)
    BY <2>1, <2>2, ElementOfSeq DEF ToSet
  <2> QED
    BY <2>1, <2>2, <2>3
<1>2. lo \in Nat /\ hi \in Nat /\ lo <= hi
  BY GroupOfInput
<1>3. strings \in Seq(Place)
  <2>1. InputStrings \subseteq Place
    BY StringOfInput
  <2>2. \A k \in 1 .. Len(strings) : strings[k] \in InputStrings
    BY ElementOfSeq
  <2>3. strings \in [1 .. Len(strings) -> Place] /\ Len(strings) \in Nat
    BY <2>1, <2>2, LenProperties
  <2> QED
    BY <2>3, SeqDef
<1>4. PICK after :
         /\ Added(strings, g, b) = after[n]
         /\ \A k \in 0 .. n :
               after[k] = IF k = 0 THEN strings
                          ELSE IF HashBucket(Bytes(pieces[k])) # b \/ Holds(after[k - 1], pieces[k])
                                 THEN after[k - 1]
                                 ELSE Append(after[k - 1], pieces[k])
  BY <1>3, AddedEquation
<1> HIDE DEF pieces, n, lo, hi
<1>5. \A s \in InputStrings : InputOffset(s) \in Nat
  BY StringOfInput
<1>6. Right(after[0], 0)
  <2>1. after[0] = strings
    BY <1>1, <1>4
  <2>2. Ones(0) = FirstOnes(b, lo)
    BY <1>2, <1>5 DEF FirstOnes
  <2> QED
    BY <1>3, <2>1, <2>2 DEF lo
<1>7. ASSUME NEW k \in 1 .. n, Right(after[k - 1], k - 1) PROVE Right(after[k], k)
  <2> DEFINE list == after[k - 1]
             s == pieces[k]
  <2>1. after[k] = IF HashBucket(Bytes(s)) # b \/ Holds(list, s) THEN list ELSE Append(list, s)
    <3>1. k \in 0 .. n /\ k # 0
      BY <1>1
    <3> QED
      BY <1>4, <3>1
  <2>2. /\ s \in Place /\ s \in InputStrings /\ lo <= InputOffset(s) /\ InputOffset(s) < hi
        /\ InputOffset(s) \in Nat
    BY <1>1, <1>5 DEF Between
  <2>3. list \in Seq(Place) /\ InOrder(list) /\ ToSet(list) = Ones(k - 1)
    BY <1>7
  <2> HIDE DEF list
  <2>4. \A t \in Ones(k - 1) : t \in FirstOnes(b, hi) /\ InputOffset(t) < InputOffset(s)
    <3> SUFFICES ASSUME NEW t \in Ones(k - 1) PROVE InputOffset(t) < InputOffset(s)
      OBVIOUS
    <3>1. t \in InputStrings /\ InputOffset(t) \in Nat
      BY <1>5 DEF FirstOnes
    <3>2. CASE InputOffset(t) < lo
      BY <1>2, <2>2, <3>1, <3>2
    <3>3. CASE \E j \in 1 .. k - 1 : t = pieces[j]
      <4>1. PICK j \in 1 .. k - 1 : t = pieces[j]
        BY <3>3
      <4>2. j \in 1 .. n /\ j < k
        BY <1>1
      <4> QED
        BY <1>1, <4>1, <4>2 DEF InOrder
    <3> QED
      BY <3>2, <3>3
  <2>5. Ones(k) = IF s \in FirstOnes(b, hi) THEN Ones(k - 1) \cup {s} ELSE Ones(k - 1)
    <3>1. \A j : j \in 1 .. k <=> j \in 1 .. k - 1 \/ j = k
      BY <1>1
    <3> QED
      BY <3>1
  <2>6. s \in FirstOnes(b, hi) <=> HashBucket(Bytes(s)) = b /\ IsFirst(s)
    BY <2>2 DEF FirstOnes
  <2>7. Holds(list, s) <=> \E t \in Ones(k - 1) : Bytes(t) = Bytes(s)
    BY <2>3 DEF Holds, ToSet
  <2>8. CASE HashBucket(Bytes(s)) # b
    BY <2>1, <2>3, <2>5, <2>6, <2>8 DEF list
  <2>9. CASE HashBucket(Bytes(s)) = b /\ Holds(list, s)
    <3>1. PICK t \in Ones(k - 1) : Bytes(t) = Bytes(s)
      BY <2>7, <2>9
    <3>2. t \in InputStrings /\ InputOffset(t) < InputOffset(s) /\ InputOffset(t) \in Nat
      BY <1>5, <2>4, <3>1 DEF FirstOnes
    <3>3. ~IsFirst(s)
      BY <2>2, <3>1, <3>2 DEF IsFirst
    <3> QED
      BY <2>1, <2>3, <2>5, <2>6, <2>9, <3>3 DEF list
  <2>10. CASE HashBucket(Bytes(s)) = b /\ ~Holds(list, s)
    <3>1. PICK t \in InputStrings : Bytes(t) = Bytes(s) /\ IsFirst(t) /\ InputOffset(t) <= InputOffset(s)
      BY <2>2, FirstExists
    <3>2. InputOffset(t) = InputOffset(s)
      <4> SUFFICES ASSUME InputOffset(t) < InputOffset(s) PROVE FALSE
        BY <1>5, <2>2, <3>1
      <4>1. t \in FirstOnes(b, hi)
        BY <1>2, <1>5, <2>2, <2>10, <3>1 DEF FirstOnes
      <4>2. t \in Ones(k - 1)
        <5>1. CASE InputOffset(t) < lo
          BY <4>1, <5>1
        <5>2. CASE ~(InputOffset(t) < lo)
          <6>1. t \in Between(lo, hi)
            BY <1>2, <1>5, <4>1, <5>2 DEF FirstOnes, Between
          <6>2. PICK j \in 1 .. n : t = pieces[j]
            BY <1>1, <6>1 DEF ToSet
          <6>3. ~(j >= k)
            <7>1. j > k => InputOffset(s) < InputOffset(t)
              BY <1>1, <6>2 DEF InOrder
            <7>2. j = k => InputOffset(s) = InputOffset(t)
              BY <6>2
            <7> QED
              BY <1>1, <1>5, <2>2, <7>1, <7>2
          <6>4. j \in 1 .. k - 1
            BY <1>1, <6>3
          <6> QED
            BY <4>1, <6>2, <6>4
        <5> QED
          BY <5>1, <5>2
      <4> QED
        BY <2>7, <2>10, <3>1, <4>2
    <3>3. IsFirst(s)
      BY <3>1, <3>2 DEF IsFirst
    <3>4. after[k] = Append(list, s) /\ Ones(k) = Ones(k - 1) \cup {s}
      BY <2>1, <2>5, <2>6, <2>10, <3>3
    <3> HIDE DEF Ones, s
    <3>5. /\ Append(list, s) \in Seq(Place) /\ ToSet(Append(list, s)) = ToSet(list) \cup {s}
          /\ InOrder(Append(list, s))
      BY <2>2, <2>3, <2>4, AppendInOrder
    <3> QED
      BY <2>3, <3>4, <3>5
  <2> QED
    BY <2>8, <2>9, <2>10
<1> DEFINE S == {k \in Nat : k <= n => Right(after[k], k)}
<1>8. Nat \subseteq S
  <2>1. 0 \in S
    BY <1>6
  <2>2. ASSUME NEW k \in Nat, k \in S PROVE k + 1 \in S
    <3> SUFFICES ASSUME k + 1 <= n PROVE Right(after[k + 1], k + 1)
      OBVIOUS
    <3>1. k + 1 \in 1 .. n /\ (k + 1) - 1 = k /\ k <= n
      BY <1>1
    <3>2. Right(after[k], k)
      BY <2>2, <3>1
    <3> HIDE DEF Right
    <3>3. Right(after[(k + 1) - 1], (k + 1) - 1)
      BY <3>1, <3>2
    <3> QED
      BY <1>7, <3>1, <3>3
  <2> HIDE DEF S
  <2> QED
    BY <2>1, <2>2, Induction
<1>9. Right(Added(strings, g, b), n)
  <2>1. n \in S
    BY <1>1, <1>8
  <2> HIDE DEF Right
  <2> QED
    BY <1>1, <1>4, <2>1
<1>10. Ones(n) = FirstOnes(b, hi)
  <2>1. ASSUME NEW s \in FirstOnes(b, hi), ~(InputOffset(s) < lo) PROVE \E j \in 1 .. n : s = pieces[j]
    <3>1. s \in Between(lo, hi)
      BY <1>2, <1>5, <2>1 DEF FirstOnes, Between
    <3> QED
      BY <1>1, <3>1 DEF ToSet
  <2> QED
    BY <2>1
<1> DEFINE list == Added(strings, g, b)
<1>11. list \in Seq(Place) /\ InOrder(list) /\ ToSet(list) = FirstOnes(b, hi)
  BY <1>9, <1>10
<1> HIDE DEF list
<1>12. list \in Seq(InputStrings)
  <2>1. Len(list) \in Nat /\ DOMAIN list = 1 .. Len(list) /\ list \in [1 .. Len(list) -> Place]
    BY <1>11, LenProperties
  <2>2. \A k \in 1 .. Len(list) : list[k] \in InputStrings
    BY <1>11, <2>1 DEF ToSet, FirstOnes
  <2>3. list \in [1 .. Len(list) -> InputStrings]
    BY <2>1, <2>2
  <2> QED
    BY <2>1, <2>3, SeqDef
<1> QED
  BY <1>11, <1>12 DEF list, hi

-----------------------------------------------------------------------------
(* Every schedule adds the strings of the groups in order *)

LEMMA SameInput ==
    ASSUME UNCHANGED <<sections, groups>>
    PROVE  /\ InputOK => InputOK'
           /\ Group' = Group /\ InputStrings' = InputStrings
           /\ \A s : InOrder(s) => InOrder(s)'
           /\ \A b, lo : FirstOnes(b, lo)' = FirstOnes(b, lo)
           /\ \A k : Border(k)' = Border(k)
           /\ \A g : SplitFails(g)' <=> SplitFails(g)
<1>1. InputOK => InputOK'
  BY DEF InputOK, SectionsOK
<1>2. InputStrings' = InputStrings /\ Group' = Group
  BY DEF InputStrings, StringEnd, Group
<1>3. \A s : InOrder(s) => InOrder(s)'
  BY DEF InOrder, InputOffset
<1>4. \A b, lo : FirstOnes(b, lo)' = FirstOnes(b, lo)
  BY <1>2 DEF FirstOnes, IsFirst, InputOffset, Bytes
<1>5. \A k : Border(k)' = Border(k)
  BY DEF Border
<1>6. \A g : SplitFails(g)' <=> SplitFails(g)
  <2> SUFFICES ASSUME NEW g PROVE SplitFails(g)' <=> SplitFails(g)
    OBVIOUS
  <2>1. Pieces(g)' = Pieces(g)
    BY DEF Pieces, SectionPieces
  <2> QED
    BY <2>1 DEF SplitFails
<1> QED
  BY <1>1, <1>2, <1>3, <1>4, <1>5, <1>6

\* What a bucket holds stays as it was.
LEMMA BucketOrderSame ==
    ASSUME NEW b \in Bucket, BucketInOrder(b), UNCHANGED <<sections, groups>>,
           bucket'[b].strings = bucket[b].strings,
           pc'[b] # "dropped" => pc[b] # "dropped" /\ LastTaken(b)' = LastTaken(b)
    PROVE  BucketInOrder(b)'
<1> SUFFICES ASSUME pc'[b] # "dropped"
             PROVE  /\ bucket'[b].strings \in Seq(InputStrings') /\ InOrder(bucket[b].strings)'
                    /\ ToSet(bucket[b].strings) = FirstOnes(b, Border(LastTaken(b)))'
  BY DEF BucketInOrder, InOrder
<1> DEFINE strings == bucket[b].strings
           last == LastTaken(b)
<1>1. /\ strings \in Seq(InputStrings) /\ InOrder(strings)
      /\ ToSet(strings) = FirstOnes(b, Border(last))
  BY DEF BucketInOrder
<1> QED
  BY <1>1, SameInput

\* The task of a bucket takes the strings of its next group.
LEMMA BucketTakes ==
    ASSUME MergeInv, OrderInv, NEW b \in Bucket, ProcessStrings(b)
    PROVE  BucketInOrder(b)'
<1>0. PICK g, strings, added :
         g = bucket[b].next /\ strings = bucket[b].strings /\ added = Added(strings, g, b)
  OBVIOUS
<1>1. /\ pc[b] = "work" /\ g <= Len(groups) /\ slot[g][b] = "Strings"
      /\ UNCHANGED <<sections, groups>>
      /\ \/ pc' = [pc EXCEPT ![b] = "dropped"]
         \/ bucket' = [bucket EXCEPT ![b].strings = added] /\ pc' = [pc EXCEPT ![b] = "load"]
  BY <1>0 DEF ProcessStrings, inputVars
<1>2. /\ BucketOK(b) /\ SharedOK /\ InputOK /\ BucketInOrder(b) /\ SplitsOK
      /\ pc \in [Spawner -> {"slot", "work", "load", "exchange", "finished", "dropped"}]
      /\ bucket \in [Bucket -> [next : Nat, strings : {bucket[c].strings : c \in Bucket}]]
      /\ b \in Spawner
  BY Ranges DEF MergeInv, BucketsOK, OrderInv
<1>3. g \in 1 .. Len(groups) /\ Group = 1 .. Len(groups) /\ Len(groups) \in Nat
  BY <1>0, <1>1, <1>2 DEF BucketOK, SharedOK, Group
<1>4. CASE pc' = [pc EXCEPT ![b] = "dropped"]
  BY <1>2, <1>4 DEF BucketInOrder
<1>5. CASE bucket' = [bucket EXCEPT ![b].strings = added] /\ pc' = [pc EXCEPT ![b] = "load"]
  <2>1. pc'[b] = "load" /\ bucket'[b].strings = added /\ bucket'[b].next = g
    BY <1>0, <1>2, <1>5
  <2>2. ~SplitFails(g)
    <3>1. Handed(g, b)
      BY <1>0, <1>1, <1>2, <1>3 DEF BucketOK, SlotOfNext
    <3> QED
      BY <1>2, <1>3, <3>1 DEF Handed, SplitsOK
  <2>3. LastTaken(b) = g - 1 /\ LastTaken(b)' = g
    BY <1>0, <1>1, <2>1 DEF LastTaken, Looping
  <2>4. Border(g - 1) = groups[g].lo /\ Border(g) = groups[g].hi /\ groups[g].lo <= groups[g].hi
    <3>1. groups[g].lo <= groups[g].hi
      BY <1>2, <1>3, GroupOfInput DEF Fits
    <3>2. CASE g = 1
      <4>1. groups # <<>>
        BY <1>3, <3>2, EmptySeq
      <4>2. groups[g].lo = 0
        BY <1>2, <3>2, <4>1 DEF InputOK, Follow
      <4> QED
        BY <3>1, <3>2, <4>2 DEF Border
    <3>3. CASE g # 1
      <4>1. g \in 2 .. Len(groups) /\ g - 1 # 0 /\ g # 0
        BY <1>3, <3>3
      <4>2. groups[g].lo = groups[g - 1].hi
        BY <1>2, <4>1 DEF InputOK, Follow
      <4> QED
        BY <3>1, <4>1, <4>2 DEF Border
    <3> QED
      BY <3>2, <3>3
  <2>5. /\ strings \in Seq(InputStrings) /\ InOrder(strings)
        /\ ToSet(strings) = FirstOnes(b, groups[g].lo)
    BY <1>0, <1>1, <1>2, <2>3, <2>4 DEF BucketInOrder
  <2>6. /\ added \in Seq(InputStrings) /\ InOrder(added)
        /\ ToSet(added) = FirstOnes(b, Border(g))
    BY <1>2, <1>3, <2>2, <2>4, <2>5, <1>0, AddedInOrder
  <2>7. /\ added \in Seq(InputStrings') /\ InOrder(added)'
        /\ FirstOnes(b, Border(LastTaken(b)))' = FirstOnes(b, Border(g))
    <3>1. UNCHANGED <<sections, groups>> /\ Border(g)' = Border(g)
      BY <1>1, SameInput
    <3>2. InputStrings' = InputStrings
      BY <1>1, SameInput
    <3>3. InOrder(added)'
      BY <1>1, <2>6 DEF InOrder, InputOffset
    <3> QED
      BY <2>3, <2>6, <3>1, <3>2, <3>3, SameInput
  <2> QED
    BY <2>1, <2>6, <2>7 DEF BucketInOrder
<1> QED
  BY <1>1, <1>4, <1>5

LEMMA InitOrder == Init => OrderInv
<1> SUFFICES ASSUME Init PROVE OrderInv
  OBVIOUS
<1>1. InputOK
  BY InitInput
<1>2. SplitsOK
  BY DEF Init, SplitsOK
<1>3. ASSUME NEW b \in Bucket PROVE BucketInOrder(b)
  <2>1. bucket[b].next = 1 /\ bucket[b].strings = <<>> /\ pc[b] = "slot"
    <3>1. b \in Spawner /\ b # Main
      BY Ranges
    <3> QED
      BY <3>1 DEF Init
  <2>2. LastTaken(b) = 0 /\ Border(LastTaken(b)) = 0
    BY <2>1 DEF LastTaken, Looping, Border
  <2>3. FirstOnes(b, 0) = {}
    BY <1>1, StringOfInput DEF FirstOnes
  <2>4. <<>> \in Seq(InputStrings) /\ ToSet(<<>>) = {} /\ InOrder(<<>>)
    BY EmptySeq, NoneInOrder
  <2> QED
    BY <2>1, <2>2, <2>3, <2>4 DEF BucketInOrder
<1> QED
  BY <1>1, <1>2, <1>3 DEF OrderInv

LEMMA OrderStep ==
    ASSUME MergeInv, OrderInv, Next
    PROVE  OrderInv'
<1>0. UNCHANGED <<sections, groups>>
  BY DEF Next, LoadAvailable, Exchange, StartInputTask, SplitGroup, HandOver, FinishBucket,
         WaitForStrings, ProcessStrings, FinishMerge, inputVars
<1>1. InputOK' /\ Group' = Group
  BY <1>0, SameInput DEF OrderInv
<1>2. /\ part \in [Group -> {"queued", "splitting", "handing", "done", "failed"}]
      /\ pc \in [Spawner -> {"slot", "work", "load", "exchange", "finished", "dropped"}]
      /\ bucket \in [Bucket -> [next : Nat, strings : {bucket[c].strings : c \in Bucket}]]
      /\ \A b \in Bucket : BucketOK(b) /\ BucketInOrder(b)
      /\ SplitsOK /\ SharedOK /\ GroupsOK
  BY DEF MergeInv, BucketsOK, GroupsOK, OrderInv
<1>3. SplitsOK'
  <2>1. ASSUME \A g \in Group : part'[g] \in {"handing", "done"} =>
                                  part[g] \in {"handing", "done"} \/ ~SplitFails(g)
        PROVE  SplitsOK'
    BY <1>0, <1>1, <1>2, <2>1, SameInput DEF SplitsOK
  <2>2. CASE part' = part
    BY <2>1, <2>2
  <2>3. CASE StartInputTask
    <3>1. part' = part \/ part' = [part EXCEPT ![popped + 1] = "splitting"]
      BY <2>3 DEF StartInputTask
    <3> QED
      BY <1>2, <2>1, <3>1
  <2>4. ASSUME NEW g \in Group, SplitGroup(g) PROVE SplitsOK'
    <3>1. \/ part' = [part EXCEPT ![g] = "failed"]
          \/ part' = [part EXCEPT ![g] = "handing"] /\ ~SplitFails(g)
      BY <2>4 DEF SplitGroup
    <3> QED
      BY <1>2, <2>1, <3>1
  <2>5. ASSUME NEW g \in Group, HandOver(g) PROVE SplitsOK'
    <3>1. part[g] = "handing" /\ \E p : part' = [part EXCEPT ![g] = p]
      BY <2>5 DEF HandOver
    <3> QED
      BY <1>2, <2>1, <3>1
  <2>6. CASE \/ \E w \in Spawner : LoadAvailable(w) \/ Exchange(w)
             \/ \E b \in Bucket : FinishBucket(b) \/ WaitForStrings(b) \/ ProcessStrings(b)
             \/ FinishMerge
    BY <2>2, <2>6 DEF LoadAvailable, Exchange, FinishBucket, WaitForStrings, ProcessStrings,
                      FinishMerge
  <2> QED
    BY <2>3, <2>4, <2>5, <2>6 DEF Next
<1>4. ASSUME NEW b \in Bucket PROVE BucketInOrder(b)'
  <2>0. b \in Spawner /\ b # Main /\ BucketInOrder(b) /\ BucketOK(b) /\ bucket[b].next \in Nat
    BY <1>2, Ranges
  <2>1. ASSUME bucket'[b].strings = bucket[b].strings,
               pc'[b] # "dropped" => pc[b] # "dropped" /\ LastTaken(b)' = LastTaken(b)
        PROVE  BucketInOrder(b)'
    BY <1>0, <2>0, <2>1, BucketOrderSame
  <2>2. ASSUME bucket'[b] = bucket[b], pc'[b] = pc[b] PROVE BucketInOrder(b)'
    BY <2>1, <2>2 DEF LastTaken
  <2>3. ASSUME NEW w \in Spawner, LoadAvailable(w) \/ Exchange(w) PROVE BucketInOrder(b)'
    <3>1. /\ pc[w] \in Looping
          /\ \/ LeaveLoop(w)
             \/ bucket' = bucket /\ \E p \in Looping : pc' = [pc EXCEPT ![w] = p]
      BY <2>3 DEF LoadAvailable, Exchange, Looping
    <3>2. CASE w # b
      <4>1. pc'[b] = pc[b]
        BY <1>2, <2>0, <3>1, <3>2 DEF LeaveLoop
      <4>2. bucket'[b] = bucket[b]
        BY <1>2, <2>0, <3>1, <3>2 DEF LeaveLoop
      <4> QED
        BY <2>2, <4>1, <4>2
    <3>3. CASE w = b /\ LeaveLoop(w)
      <4>1. pc' = [pc EXCEPT ![b] = "work"] /\ bucket' = [bucket EXCEPT ![b].next = @ + 1]
        BY <2>0, <3>3 DEF LeaveLoop
      <4>2. pc'[b] = "work" /\ bucket'[b].next = bucket[b].next + 1 /\ bucket'[b].strings = bucket[b].strings
        BY <1>2, <2>0, <4>1
      <4>3. LastTaken(b)' = LastTaken(b) /\ pc[b] # "dropped"
        BY <2>0, <3>1, <3>3, <4>2 DEF LastTaken, Looping
      <4> QED
        BY <2>1, <4>2, <4>3
    <3>4. CASE w = b /\ ~LeaveLoop(w)
      <4>1. bucket' = bucket /\ pc'[b] \in Looping /\ pc[b] \in Looping
        BY <1>2, <2>0, <3>1, <3>4
      <4>2. LastTaken(b)' = LastTaken(b) /\ pc[b] # "dropped"
        BY <4>1 DEF LastTaken, Looping
      <4> QED
        BY <2>1, <4>1, <4>2
    <3> QED
      BY <3>2, <3>3, <3>4
  <2>4. CASE StartInputTask \/ FinishMerge
    BY <2>2, <2>4 DEF StartInputTask, FinishMerge
  <2>5. ASSUME NEW g \in Group, SplitGroup(g) PROVE BucketInOrder(b)'
    BY <2>2, <2>5 DEF SplitGroup
  <2>6. ASSUME NEW g \in Group, HandOver(g) PROVE BucketInOrder(b)'
    <3>0. PICK c : c = hand[g]
      OBVIOUS
    <3>1. /\ part[g] = "handing" /\ bucket' = bucket
          /\ pc' = IF slot[g][c] = "Waiting" THEN [pc EXCEPT ![c] = "work"] ELSE pc
      BY <2>6, <3>0 DEF HandOver, Woken
    <3>2. CASE c = b /\ slot[g][c] = "Waiting"
      <4>1. pc[b] = "slot"
        <5>1. g \in Group /\ bucket[b].next \in 1 .. Len(groups) + 1 /\ Group = 1 .. Len(groups)
          BY <2>0 DEF BucketOK, Group
        <5>2. /\ g < bucket[b].next => slot[g][b] = "Empty"
              /\ g > bucket[b].next => slot[g][b] = IF Handed(g, b) THEN "Strings" ELSE "Empty"
          BY <2>0 DEF BucketOK
        <5>3. ~(g < bucket[b].next) /\ ~(g > bucket[b].next)
          BY <3>2, <5>2
        <5>4. g = bucket[b].next
          BY <1>2, <2>0, <5>1, <5>3 DEF SharedOK
        <5> QED
          BY <1>2, <2>0, <3>2, <5>4 DEF BucketOK, SlotOfNext, Looping
      <4>2. pc'[b] = "work"
        BY <1>2, <2>0, <3>1, <3>2
      <4>3. LastTaken(b)' = LastTaken(b)
        BY <3>1, <4>1, <4>2 DEF LastTaken, Looping
      <4> QED
        BY <2>1, <3>1, <4>1, <4>3
    <3>3. CASE ~(c = b /\ slot[g][c] = "Waiting")
      BY <1>2, <2>0, <2>2, <3>1, <3>3
    <3> QED
      BY <3>2, <3>3
  <2>7. ASSUME NEW c \in Bucket, FinishBucket(c) \/ WaitForStrings(c) PROVE BucketInOrder(b)'
    <3>1. /\ pc[c] = "work" /\ bucket' = bucket
          /\ \E p \in {"slot", "finished"} : pc' = [pc EXCEPT ![c] = p]
      BY <2>7 DEF FinishBucket, WaitForStrings
    <3>2. CASE c = b
      <4>1. pc[b] = "work" /\ pc'[b] \in {"slot", "finished"}
        BY <1>2, <2>0, <3>1, <3>2
      <4>2. LastTaken(b)' = LastTaken(b)
        BY <3>1, <4>1 DEF LastTaken, Looping
      <4> QED
        BY <2>1, <3>1, <4>1, <4>2
    <3>3. CASE c # b
      BY <1>2, <2>0, <2>2, <3>1, <3>3
    <3> QED
      BY <3>2, <3>3
  <2>8. ASSUME NEW c \in Bucket, ProcessStrings(c) PROVE BucketInOrder(b)'
    <3>1. CASE c = b
      BY <2>8, <3>1, BucketTakes
    <3>2. CASE c # b
      <4>1. /\ \E p : pc' = [pc EXCEPT ![c] = p]
            /\ bucket' = bucket \/ \E strings : bucket' = [bucket EXCEPT ![c].strings = strings]
        BY <2>8 DEF ProcessStrings
      <4>2. pc'[b] = pc[b] /\ bucket'[b] = bucket[b]
        BY <1>2, <2>0, <3>2, <4>1
      <4> QED
        BY <2>2, <4>2
    <3> QED
      BY <3>1, <3>2
  <2> QED
    BY <2>3, <2>4, <2>5, <2>6, <2>7, <2>8 DEF Next
<1> QED
  BY <1>1, <1>3, <1>4, Ranges DEF OrderInv, Bucket

LEMMA OrderInvariant == Spec => []OrderInv
<1>1. MergeInv /\ OrderInv /\ [Next]_vars => OrderInv'
  <2> SUFFICES ASSUME MergeInv, OrderInv, [Next]_vars PROVE OrderInv'
    OBVIOUS
  <2>1. CASE Next
    BY <2>1, OrderStep
  <2>2. CASE UNCHANGED vars
    <3>1. UNCHANGED <<sections, groups, part, pc, bucket>>
      BY <2>2 DEF vars
    <3>2. InputOK' /\ Group' = Group
      BY <3>1, SameInput DEF OrderInv
    <3>3. SplitsOK'
      BY <3>1, <3>2, SameInput DEF OrderInv, SplitsOK
    <3>4. ASSUME NEW b \in Bucket PROVE BucketInOrder(b)'
      <4>1. LastTaken(b)' = LastTaken(b)
        BY <3>1 DEF LastTaken
      <4> QED
        BY <3>1, <4>1, BucketOrderSame DEF OrderInv
    <3> QED
      BY <3>2, <3>3, <3>4 DEF OrderInv, Bucket
  <2> QED
    BY <2>1, <2>2
<1> QED
  BY <1>1, InitOrder, MergeInvariant, PTL DEF Spec

\* MergingIsDeterministic, for any sections, sizes of groups, hash, buckets and limit on the
\* groups in hand: whichever thread splits a group, wherever a bucket waits or is carried
\* (work_with_bucket, process_split_output), in every schedule that ends without an error each
\* bucket holds the first occurrence of each of its strings, in the order of the input.
THEOREM MergedInOrder == Spec => []MergingIsDeterministic
<1>1. MergeInv /\ OrderInv => MergingIsDeterministic
  <2> SUFFICES ASSUME MergeInv, OrderInv, result = "ok", NEW b \in Bucket
               PROVE  LET strings == bucket[b].strings
                      IN  /\ ToSet(strings) =
                               {s \in InputStrings :
                                   /\ HashBucket(Bytes(s)) = b
                                   /\ \A t \in InputStrings :
                                         Bytes(t) = Bytes(s) => InputOffset(s) <= InputOffset(t)}
                          /\ \A j, k \in DOMAIN strings :
                                j < k => InputOffset(strings[j]) < InputOffset(strings[k])
    BY DEF MergingIsDeterministic
  <2>1. Quiescent /\ ~errors
    BY DEF MergeInv, ResultOK
  <2>2. pc[b] = "finished"
    BY <2>1, NothingLeft
  <2>3. InputOK /\ BucketInOrder(b) /\ BucketOK(b) /\ SharedOK
    BY DEF OrderInv, MergeInv, BucketsOK
  <2>4. bucket[b].next = Len(groups) + 1 /\ Len(groups) \in Nat \ {0}
    <3>1. bucket[b].next \in 1 .. Len(groups) + 1 /\ Len(groups) \in Nat \ {0}
      BY <2>3 DEF BucketOK, SharedOK
    <3>2. ~(bucket[b].next \in Group)
      BY <2>2, <2>3 DEF BucketOK, SlotOfNext
    <3> QED
      BY <3>1, <3>2 DEF Group
  <2>5. Border(LastTaken(b)) = InputSize(sections)
    <3>1. LastTaken(b) = Len(groups)
      BY <2>2, <2>4 DEF LastTaken, Looping
    <3>2. groups # <<>>
      BY <2>4, EmptySeq
    <3> QED
      BY <2>3, <2>4, <3>1, <3>2 DEF Border, InputOK, Follow
  <2>6. /\ InOrder(bucket[b].strings)
        /\ ToSet(bucket[b].strings) = FirstOnes(b, InputSize(sections))
    BY <2>2, <2>3, <2>5 DEF BucketInOrder
  <2>7. \A s \in InputStrings : InputOffset(s) < InputSize(sections)
    BY <2>3, StringOfInput
  <2>8. FirstOnes(b, InputSize(sections)) =
            {s \in InputStrings :
                /\ HashBucket(Bytes(s)) = b
                /\ \A t \in InputStrings : Bytes(t) = Bytes(s) => InputOffset(s) <= InputOffset(t)}
    BY <2>7 DEF FirstOnes, IsFirst
  <2> QED
    BY <2>6, <2>8 DEF InOrder
<1> QED
  BY <1>1, MergeInvariant, OrderInvariant, PTL

=============================================================================
