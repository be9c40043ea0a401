---------------------------- MODULE StringMerging ----------------------------
(***************************************************************************)
(* libsld/src/string_merging.rs: how the strings of all the input sections *)
(* that go to one output section are merged (add_input_sections).  The     *)
(* input is cut into groups; tasks split groups into strings and put them, *)
(* by hash, in the slots of the buckets; each bucket is carried from slot  *)
(* to slot by a task, or waits in the slot of the group it needs next.  A  *)
(* pool limits how many groups are in hand at once.                        *)
(*                                                                         *)
(* What is abstracted: a section is a short sequence of bytes, the hash is *)
(* a parameter, and the vectors of the pool are only counted.  A string    *)
(* taken from a section is its place there, as the code's slices are.      *)
(***************************************************************************)
EXTENDS Integers, FiniteSets, SequencesExt

CONSTANTS
    Inputs,         \* what is merged, see InputType
    NumBuckets,     \* MERGE_STRING_BUCKETS
    HashBucket(_),  \* the bucket of a string
    BlockSize,      \* MAP_BLOCK_SIZE
    BlockCapacity,  \* how many offsets a block of the offset map holds
    MaxOffset,      \* 1 << (32 - MERGE_STRING_BUCKET_BITS)
    None

Bucket == 0 .. (NumBuckets - 1)

\* The thread that merges, beside the tasks of the buckets.
Main == NumBuckets
Spawner == 0 .. NumBuckets

\* The sections in the order of the link, the target size of a group and how many groups
\* may be split at once (MergeStringMinGroupBytes, MergeStringSplitParallelism).
InputType == [sections : Seq([data : Seq(Nat), str : BOOLEAN]), size : Nat, parallelism : Nat]

ASSUME MergingAssumption ==
    /\ NumBuckets \in Nat \ {0} /\ BlockSize \in Nat \ {0} /\ BlockCapacity \in Nat
    /\ MaxOffset \in Nat \ {0}

\* resolve_section discards empty sections; the size of a group is made of whole blocks.
ASSUME InputsAssumption ==
    \A i \in Inputs :
        /\ i \in InputType
        /\ i.sections # <<>> /\ \A k \in DOMAIN i.sections : i.sections[k].data # <<>>
        /\ i.size > 0 /\ i.size % BlockSize = 0
        /\ i.parallelism > 0

VARIABLES
    sections,   \* StringMergeInputSection: data, is_string and start_input_offset
    groups,     \* the groups split_sections makes
    capacity,   \* ReusePool::capacity
    popped,     \* how many groups have been popped from unprocessed, a FIFO
    idle,       \* input tasks that were spawned and have not popped a group
    part,       \* how far the processing of each group is
    hand,       \* the next bucket a group hands its strings to
    slot,       \* strings_by_bucket_and_group
    pc,         \* what the main thread and the task of each bucket do
    read,       \* what each of them last read from available
    bucket,     \* MergeStringsSectionBucket: next_input_group_index and strings
    offsets,    \* string_offsets, the map from input offsets
    spilled,    \* overflowed_offsets of all threads
    available,  \* ReusePool::available
    errors,     \* errors is not empty
    result      \* what add_input_sections returns

vars == <<sections, groups, capacity, popped, idle, part, hand, slot, pc, read, bucket, offsets,
          spilled, available, errors, result>>
inputVars == <<sections, groups, capacity>>

Group == 1 .. Len(groups)

-----------------------------------------------------------------------------
(* Sections, groups and strings *)

\* padded_len.
Padded(n) == ((n + BlockSize - 1) \div BlockSize) * BlockSize

\* group_merge_string_sections_by_output: the sections one after the other.
Placed(secs) ==
    LET start[i \in 1 .. Len(secs)] ==
            IF i = 1 THEN 0 ELSE start[i - 1] + Padded(Len(secs[i - 1].data))
    IN  [i \in 1 .. Len(secs) |->
            [data |-> secs[i].data, str |-> secs[i].str, start |-> start[i]]]

EndOf(sec) == sec.start + Padded(Len(sec.data))

\* total_input_size.
InputSize(secs) == EndOf(secs[Len(secs)])

\* split_sections, one group, which starts at offset at[2] in section at[1]: whole sections
\* until size bytes are there; a string section that has more of them is cut.
GroupAt(secs, size, at) ==
    LET last == Min({i \in at[1] .. Len(secs) : EndOf(secs[i]) - at[2] >= size} \cup {Len(secs)})
        end == EndOf(secs[last])
    IN  [first |-> at[1], last |-> last, lo |-> at[2],
         hi |-> IF secs[last].str /\ end - at[2] > size THEN at[2] + size ELSE end]

\* Where the group after g starts.
AfterGroup(secs, g) ==
    <<IF g.hi = EndOf(secs[g.last]) THEN g.last + 1 ELSE g.last, g.hi>>

\* split_sections.
SplitSections(secs, size) ==
    LET from[at \in (1 .. Len(secs) + 1) \X (0 .. InputSize(secs))] ==
            IF at[1] > Len(secs) THEN <<>>
            ELSE <<GroupAt(secs, size, at)>> \o from[AfterGroup(secs, GroupAt(secs, size, at))]
    IN  from[<<1, 0>>]

\* memchr for a null from offset p on: the offset after it.
Terminated(data, p) == \E q \in p + 1 .. Len(data) : data[q] = 0
AfterNull(data, p) == Min({q \in p + 1 .. Len(data) : data[q] = 0})

\* Mutant: a group that starts after a null looks for the next one all the same.
SkipToNull(sec, lo) ==
    IF lo <= sec.start THEN 0
    ELSE IF Terminated(sec.data, lo - sec.start) THEN AfterNull(sec.data, lo - sec.start)
         ELSE Len(sec.data)

\* process_input_section: the first string that starts in the group's range.
Advance(sec, lo) ==
    LET p == lo - sec.start
    IN  CASE p <= 0 -> 0
          [] p > 0 /\ sec.data[p] = 0 -> p
          [] OTHER -> IF Terminated(sec.data, p) THEN AfterNull(sec.data, p) ELSE Len(sec.data)

\* A string is where it starts and how long it is; length 0 is for one without a terminator.
Piece(i, p, n) == [sec |-> i, at |-> p, len |-> n]
Bytes(piece) == SubSeq(sections[piece.sec].data, piece.at + 1, piece.at + piece.len)
InputOffset(piece) == sections[piece.sec].start + piece.at

\* process_input_section: the strings of section i that start between lo and hi.
SectionPieces(i, lo, hi) ==
    LET sec == sections[i]
        take[p \in 0 .. Len(sec.data)] ==
            IF p = Len(sec.data) \/ sec.start + p >= hi THEN <<>>
            ELSE IF ~Terminated(sec.data, p) THEN <<Piece(i, p, 0)>>
            ELSE LET q == AfterNull(sec.data, p) IN <<Piece(i, p, q - p)>> \o take[q]
    IN  IF sec.str THEN take[Advance(sec, lo)] ELSE <<Piece(i, 0, Len(sec.data))>>

\* process_input_section_group: the strings of a group, in order.
Pieces(g) ==
    LET upto[i \in 0 .. groups[g].last] ==
            IF i < groups[g].first THEN <<>>
            ELSE upto[i - 1] \o SectionPieces(i, groups[g].lo, groups[g].hi)
    IN  upto[groups[g].last]

SplitFails(g) == \E piece \in ToSet(Pieces(g)) : piece.len = 0

StringsFor(g, b) == {piece \in ToSet(Pieces(g)) : HashBucket(Bytes(piece)) = b}

\* Shard::insert fails when the block already holds as many offsets as it can.
Spills(g, piece) ==
    LET block == InputOffset(piece) \div BlockSize
    IN  Cardinality({q \in ToSet(Pieces(g)) :
            /\ InputOffset(q) \div BlockSize = block
            /\ InputOffset(q) < InputOffset(piece)}) >= BlockCapacity

-----------------------------------------------------------------------------
(* Buckets *)

ByteSize(strings) == FoldLeft(LAMBDA n, piece : n + piece.len, 0, strings)

\* Mutant: a string is compared with the last one only.
HoldsLast(strings, piece) ==
    strings # <<>> /\ Bytes(strings[Len(strings)]) = Bytes(piece)

\* The entry of string_offsets is occupied.
Holds(strings, piece) == \E k \in DOMAIN strings : Bytes(strings[k]) = Bytes(piece)

\* add_string, for each string of group g that is the bucket's: one that is there already is not
\* added again.
Added(strings, g, b) ==
    LET pieces == Pieces(g)
        after[k \in 0 .. Len(pieces)] ==
            IF k = 0 THEN strings
            ELSE LET list == after[k - 1]
                 IN  IF HashBucket(Bytes(pieces[k])) # b \/ Holds(list, pieces[k]) THEN list
                     ELSE Append(list, pieces[k])
    IN  after[Len(pieces)]

\* The offset of a string in its bucket: what string_offsets has for its bytes.
OffsetIn(strings, piece) ==
    ByteSize(SubSeq(strings, 1, Min({k \in DOMAIN strings : Bytes(strings[k]) = Bytes(piece)}) - 1))

\* BucketOffset: bucket and offset in one word.
Encoded(b, offset) == b * MaxOffset + offset
BucketOf(code) == code \div MaxOffset
OffsetInBucket(code) == code % MaxOffset

\* BucketOffset::new fails on one of the pieces.
TooLarge(strings, pieces) == \E piece \in pieces : OffsetIn(strings, piece) >= MaxOffset

TypeOK ==
    /\ popped \in 0 .. Len(groups) /\ idle \in Nat
    /\ part \in [Group -> {"queued", "splitting", "handing", "done", "failed"}]
    /\ hand \in [Group -> 0 .. NumBuckets]
    /\ slot \in [Group -> [Bucket -> {"Empty", "Waiting", "Strings"}]]
    /\ pc \in [Spawner -> {"slot", "work", "load", "exchange", "finished", "dropped"}]
    /\ read \in [Spawner -> Nat]
    /\ \A b \in Bucket : bucket[b].next \in 1 .. Len(groups) + 1
    /\ available \in 0 .. capacity
    /\ errors \in BOOLEAN
    /\ result \in {"running", "ok", "error"}

\* create_split_resources: every bucket waits for the first group.
Init ==
    /\ \E i \in Inputs :
        /\ sections = Placed(i.sections)
        /\ groups = SplitSections(Placed(i.sections), i.size)
        /\ capacity = NumBuckets * i.parallelism
    /\ popped = 0 /\ idle = 0
    /\ part = [g \in Group |-> "queued"]
    /\ hand = [g \in Group |-> 0]
    /\ slot = [g \in Group |-> [b \in Bucket |-> IF g = 1 THEN "Waiting" ELSE "Empty"]]
    /\ pc = [w \in Spawner |-> IF w = Main THEN "load" ELSE "slot"]
    /\ read = [w \in Spawner |-> 0]
    /\ bucket = [b \in Bucket |-> [next |-> 1, strings |-> <<>>]]
    /\ offsets = [p \in 0 .. InputSize(sections) - 1 |-> None]
    /\ spilled = {}
    /\ available = capacity
    /\ errors = FALSE /\ result = "running"

-----------------------------------------------------------------------------
(* The pool and the tasks that split groups *)

\* try_spawn_input_processing returns: the main thread waits for the scope, a bucket goes on
\* to its next group.
LeaveLoop(w) ==
    IF w = Main
      THEN pc' = [pc EXCEPT ![w] = "finished"] /\ UNCHANGED bucket
      ELSE /\ pc' = [pc EXCEPT ![w] = "work"]
           /\ bucket' = [bucket EXCEPT ![w].next = @ + 1]

\* try_reserve(MERGE_STRING_BUCKETS).
Reserved == NumBuckets

\* try_reserve reads available; too few vectors end the loop.
LoadAvailable(w) ==
    /\ pc[w] = "load"
    /\ IF available < Reserved
         THEN LeaveLoop(w) /\ UNCHANGED read
         ELSE /\ pc' = [pc EXCEPT ![w] = "exchange"]
              /\ read' = [read EXCEPT ![w] = available]
              /\ UNCHANGED bucket
    /\ UNCHANGED <<popped, idle, part, hand, slot, offsets, spilled, available, errors, result>>
    /\ UNCHANGED inputVars

\* compare_exchange: a task is spawned with the reservation, or another thread was faster and
\* the loop ends.
Exchange(w) ==
    /\ pc[w] = "exchange"
    /\ read' = [read EXCEPT ![w] = 0]
    /\ IF available = read[w]
         THEN /\ available' = available - Reserved
              /\ idle' = idle + 1
              /\ pc' = [pc EXCEPT ![w] = "load"]
              /\ UNCHANGED bucket
         ELSE LeaveLoop(w) /\ UNCHANGED <<available, idle>>
    /\ UNCHANGED <<popped, part, hand, slot, offsets, spilled, errors, result>>
    /\ UNCHANGED inputVars

\* Mutant: a task that finds no group keeps its reservation.
UnreserveNothing == 0

\* unreserve: what a task that found no group gives back.
Unreserved == NumBuckets

\* The spawned task pops a group and takes a vector for each bucket, or finds none left.
StartInputTask ==
    /\ idle > 0 /\ idle' = idle - 1
    /\ IF popped < Len(groups)
         THEN /\ popped' = popped + 1
              /\ part' = [part EXCEPT ![popped + 1] = "splitting"]
              /\ UNCHANGED available
         ELSE available' = available + Unreserved /\ UNCHANGED <<popped, part>>
    /\ UNCHANGED <<hand, slot, pc, read, bucket, offsets, spilled, errors, result>>
    /\ UNCHANGED inputVars

\* process_input_section for each section of the group; an error drops the vectors.
SplitGroup(g) ==
    /\ part[g] = "splitting"
    /\ IF SplitFails(g)
         THEN /\ part' = [part EXCEPT ![g] = "failed"] /\ errors' = TRUE
              /\ UNCHANGED offsets
         ELSE /\ part' = [part EXCEPT ![g] = "handing"] /\ UNCHANGED errors
              /\ LET kept == {InputOffset(piece) :
                               piece \in {q \in ToSet(Pieces(g)) : ~Spills(g, q)}}
                 IN  offsets' = [p \in DOMAIN offsets |-> IF p \in kept THEN 0 ELSE offsets[p]]
    /\ UNCHANGED <<popped, idle, hand, slot, pc, read, bucket, spilled, available, result>>
    /\ UNCHANGED inputVars

\* Mutant: a bucket that waits in the slot is not taken out of it.
NotWoken(g, b) == FALSE

\* The slot swapped for the strings held the bucket: a task is spawned for it.
Woken(g, b) == slot[g][b] = "Waiting"

\* process_input_section_group: the strings of one bucket are put in its slot.
HandOver(g) ==
    /\ part[g] = "handing"
    /\ LET b == hand[g]
       IN  /\ slot' = [slot EXCEPT ![g][b] = "Strings"]
           /\ pc' = IF Woken(g, b) THEN [pc EXCEPT ![b] = "work"] ELSE pc
           /\ hand' = [hand EXCEPT ![g] = b + 1]
           /\ part' = [part EXCEPT ![g] = IF b + 1 = NumBuckets THEN "done" ELSE @]
    /\ UNCHANGED <<popped, idle, read, bucket, offsets, spilled, available, errors, result>>
    /\ UNCHANGED inputVars

-----------------------------------------------------------------------------
(* The tasks that carry buckets: work_with_bucket *)

\* The bucket has seen every group: finished_buckets.
FinishBucket(b) ==
    /\ pc[b] = "work" /\ bucket[b].next > Len(groups)
    /\ pc' = [pc EXCEPT ![b] = "finished"]
    /\ UNCHANGED <<popped, idle, part, hand, slot, read, bucket, offsets, spilled, available,
                   errors, result>>
    /\ UNCHANGED inputVars

\* The strings of the next group are not there: the bucket waits for them in their slot.
WaitForStrings(b) ==
    LET g == bucket[b].next
    IN  /\ pc[b] = "work" /\ g <= Len(groups) /\ slot[g][b] # "Strings"
        /\ slot' = [slot EXCEPT ![g][b] = "Waiting"]
        /\ pc' = [pc EXCEPT ![b] = "slot"]
        /\ UNCHANGED <<popped, idle, part, hand, read, bucket, offsets, spilled, available,
                       errors, result>>
        /\ UNCHANGED inputVars

\* process_split_output: the strings are added and their offsets filled in; the vector goes
\* back to the pool and try_spawn_input_processing is called.  An error drops bucket and
\* vector.
ProcessStrings(b) ==
    LET g == bucket[b].next
        pieces == StringsFor(g, b)
        strings == Added(bucket[b].strings, g, b)
        code(piece) == Encoded(b, OffsetIn(strings, piece))
        kept == {piece \in pieces : ~Spills(g, piece)}
    IN  /\ pc[b] = "work" /\ g <= Len(groups) /\ slot[g][b] = "Strings"
        /\ slot' = [slot EXCEPT ![g][b] = "Empty"]
        /\ IF TooLarge(strings, pieces)
             THEN /\ pc' = [pc EXCEPT ![b] = "dropped"] /\ errors' = TRUE
                  /\ UNCHANGED <<bucket, offsets, spilled, available>>
             ELSE /\ bucket' = [bucket EXCEPT ![b].strings = strings]
                  /\ offsets' = [p \in DOMAIN offsets |->
                         IF \E piece \in kept : InputOffset(piece) = p
                           THEN code(CHOOSE piece \in kept : InputOffset(piece) = p)
                           ELSE offsets[p]]
                  /\ spilled' = spilled \cup
                         {[input |-> InputOffset(piece), output |-> code(piece)] :
                             piece \in pieces \ kept}
                  /\ available' = available + 1
                  /\ pc' = [pc EXCEPT ![b] = "load"]
                  /\ UNCHANGED errors
        /\ UNCHANGED <<popped, idle, part, hand, read, result>>
        /\ UNCHANGED inputVars

\* No task is left: rayon's scope ends.
Quiescent ==
    /\ pc[Main] = "finished" /\ idle = 0
    /\ \A g \in Group : part[g] \notin {"splitting", "handing"}
    /\ \A b \in Bucket : pc[b] \in {"slot", "finished", "dropped"}

\* add_input_sections after the scope: the error, or the offsets that were spilled added to
\* the map's.
FinishMerge ==
    /\ Quiescent /\ result = "running"
    /\ result' = IF errors THEN "error" ELSE "ok"
    /\ offsets' = [p \in DOMAIN offsets |->
          IF ~errors /\ \E o \in spilled : o.input = p
            THEN (CHOOSE o \in spilled : o.input = p).output
            ELSE offsets[p]]
    /\ UNCHANGED <<popped, idle, part, hand, slot, pc, read, bucket, spilled, available, errors>>
    /\ UNCHANGED inputVars

-----------------------------------------------------------------------------
(* What the rest of the linker asks of the merged section *)

\* bucket_offsets.
BucketStart(b) ==
    FoldLeft(LAMBDA n, k : n + ByteSize(bucket[k - 1].strings), 0, [k \in 1 .. b |-> k])

\* write_merged_strings_to_buffer: the buckets one after the other.
Output ==
    FlattenSeq([b \in 1 .. NumBuckets |->
        FoldLeft(LAMBDA bytes, piece : bytes \o Bytes(piece), <<>>, bucket[b - 1].strings)])

\* The offset in the output section of what a BucketOffset names.
Address(code) == BucketStart(BucketOf(code)) + OffsetInBucket(code)

\* The offsets of section i, at or before p, at which the map has a string.
Known(i, p) == {q \in 0 .. p : offsets[sections[i].start + q] # None}

\* Mutant: offsets inside a string are those of its start.
FindStart(i, p) ==
    IF Known(i, p) = {} THEN None ELSE offsets[sections[i].start + Max(Known(i, p))]

\* find_string: the nearest string that starts at or before offset p of section i; None for
\* the error that there is none.
FindString(i, p) ==
    IF Known(i, p) = {} THEN None
    ELSE offsets[sections[i].start + Max(Known(i, p))] + (p - Max(Known(i, p)))

\* owns_string_at, output_offset_if_owned: the bucket holds this very string, not an equal one.
Owned(piece) ==
    LET code == offsets[InputOffset(piece)]
        strings == bucket[BucketOf(code)].strings
    IN  code # None /\ \E k \in DOMAIN strings :
            strings[k] = piece /\ ByteSize(SubSeq(strings, 1, k - 1)) = OffsetInBucket(code)

\* Mutant: the strings of a section need not follow each other.
AnyOrder(pieces) == TRUE

Contiguous(pieces) ==
    \A k \in 1 .. Len(pieces) - 1 :
        Address(offsets[InputOffset(pieces[k + 1])]) =
            Address(offsets[InputOffset(pieces[k])]) + pieces[k].len

\* patch_record_for_input_section: the range of the output an incremental link may overwrite
\* with section i; None if there is none.
PatchRecord(i) ==
    LET pieces == SectionPieces(i, 0, InputSize(sections))
    IN  IF (\A k \in DOMAIN pieces : Owned(pieces[k])) /\ Contiguous(pieces)
          THEN [at |-> Address(offsets[InputOffset(pieces[1])]),
                size |-> Len(sections[i].data)]
          ELSE None

Next ==
    \/ \E w \in Spawner : LoadAvailable(w) \/ Exchange(w)
    \/ StartInputTask
    \/ \E g \in Group : SplitGroup(g) \/ HandOver(g)
    \/ \E b \in Bucket : FinishBucket(b) \/ WaitForStrings(b) \/ ProcessStrings(b)
    \/ FinishMerge

Spec == Init /\ [][Next]_vars

-----------------------------------------------------------------------------
(* Properties *)

\* Whatever tasks the pool let run, and whoever lost a race for it, no group is left behind
\* and no bucket waits when the scope ends: add_input_sections indexes all of them.
AllGroupsMerged ==
    result = "ok" => popped = Len(groups) /\ \A b \in Bucket : pc[b] = "finished"

\* merge_strings asserts it before the pool is used for the next output section: every vector
\* reserved by a task, also by one that found no group, is available again.
PoolRestored == result = "ok" => available = capacity

\* A thread that loses the race for the pool gives up, a task may have reserved for nothing, a
\* bucket waits where it is: all the same every group is merged in the end and every vector is
\* back (add_input_sections, merge_strings).
NothingLeftBehind == AllGroupsMerged /\ PoolRestored

\* The strings of the input, by what a string is: it starts with the section or after a null,
\* and ends with the next null, or is all of a section that does not hold strings.
StringEnd(i, p) ==
    IF sections[i].str /\ Terminated(sections[i].data, p) THEN AfterNull(sections[i].data, p)
    ELSE Len(sections[i].data)

\* The output holds these bytes at this address.
OutputHas(at, bytes) ==
    at + Len(bytes) <= Len(Output) /\ SubSeq(Output, at + 1, at + Len(bytes)) = bytes

InputStrings ==
    UNION {{Piece(i, p, StringEnd(i, p) - p) :
                p \in {q \in 0 .. Len(sections[i].data) - 1 :
                          q = 0 \/ (sections[i].str /\ sections[i].data[q] = 0)}}
             : i \in DOMAIN sections}

\* "Input sections need to be added to a bucket in deterministic order, otherwise we'll get
\* non-deterministic results": in every schedule a bucket ends with the first occurrence of
\* each of its strings, in the order of the input.
MergingIsDeterministic ==
    result = "ok" =>
        \A b \in Bucket :
            LET strings == bucket[b].strings
            IN  /\ ToSet(strings) =
                     {s \in InputStrings :
                         /\ HashBucket(Bytes(s)) = b
                         /\ \A t \in InputStrings :
                               Bytes(t) = Bytes(s) => InputOffset(s) <= InputOffset(t)}
                /\ \A j, k \in DOMAIN strings :
                      j < k => InputOffset(strings[j]) < InputOffset(strings[k])

\* A reference to any byte of an input section, also one inside a string, one whose offset was
\* spilled or one in a string cut by the border of a group, finds in the output what follows
\* that byte in its string (get_merged_string_output_address).  A bucket that outgrows what
\* BucketOffset can name is excepted: an offset inside its last string is not checked.
ReferencesFindTheirStrings ==
    result = "ok" /\ (\A b \in Bucket : ByteSize(bucket[b].strings) <= MaxOffset) =>
        \A i \in DOMAIN sections : \A p \in 0 .. Len(sections[i].data) - 1 :
            /\ FindString(i, p) # None
            /\ OutputHas(Address(FindString(i, p)),
                         SubSeq(sections[i].data, p + 1, StringEnd(i, p)))

\* A range recorded for patching holds the bytes of its section (patch_records).
PatchRangesHoldTheirSection ==
    result = "ok" =>
        \A i \in DOMAIN sections :
            PatchRecord(i) # None =>
                OutputHas(PatchRecord(i).at, sections[i].data)

=============================================================================
