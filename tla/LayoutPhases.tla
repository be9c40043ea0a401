----------------------------- MODULE LayoutPhases -----------------------------
(***************************************************************************)
(* The layout phase after garbage collection (layout.rs: compute): sizes   *)
(* per group, attributes, order, totals with the late adjustments, thunks, *)
(* placement, relaxation, segments, and the addresses that every group     *)
(* then hands out on its own.  OutputLayout, Thunks and Relaxation define  *)
(* what each phase computes.                                               *)
(*                                                                         *)
(* A program is fixed at the start: its sections in link order, their      *)
(* symbols and branches, the symbols the linker defines.  Group 1 is the   *)
(* prelude, the last group the epilogue.  A unit is two bytes.             *)
(***************************************************************************)
EXTENDS OutputLayout, Relaxation, Thunks

CONSTANTS Programs,       \* the programs to lay out
          MaxPasses,      \* MAX_RELAXATION_ITERATIONS
          ThunkSize

ASSUME PhasesAssumption == MaxPasses \in Nat /\ ThunkSize \in Nat \ {0}

VARIABLES prog, pc,
          info,       \* output sections: attributes, kind, location
          sizes,      \* group -> part -> allocated size
          order,      \* sections and segments in the order of the output
          total,      \* part -> allocated size of all groups
          index,      \* section -> index of its header, -1 if it has none
          active,     \* ids of the program segments that are kept
          blocks,     \* thunk blocks: [part, owner, syms]
          assigned,   \* object -> block of its primary part
          parts,      \* part -> record
          dels,       \* input section -> deletions
          rescan,     \* sections to scan in the next pass
          pass,
          sections, merged, segments,
          addr,       \* input section -> address, Unresolved before
          thunkAt,    \* <<block, symbol>> -> address
          offsets,    \* group -> part -> offset when the group was finished
          internal,   \* linker-defined symbol -> value, Unresolved if it has none
          waiting     \* groups that have not assigned addresses

vars == <<prog, pc, info, sizes, order, total, index, active, blocks, assigned, parts, dels,
          rescan, pass, sections, merged, segments, addr, thunkAt, offsets, internal, waiting>>

Secs == DOMAIN prog.secs
Groups == 1..prog.groups
Text == <<"text", 2>>          \* thunk_config().primary_function_part_id
EmptyMap == [p \in PartIds(info) |-> 0]
AddTo(f, p, n) == [f EXCEPT ![p] = @ + n]

-----------------------------------------------------------------------------
(***************************************************************************)
(* Sizes.                                                                  *)
(***************************************************************************)
\* incremental_extra_capacity: prog.padding percent of the section, in an incremental link.
ExtraCapacity(s) ==
  IF prog.padding > 0 /\ s.pad /\ s.size > 0 /\ ~ShouldPack(s.part[1])
    THEN AlignUp(PartAlignment(info, s.part), MaxOf(1, (s.size * prog.padding + 99) \div 100)) ELSE 0

\* Section::capacity: packed sections take their size, others are rounded up
\* and followed by the padding of an incremental link.
CapacityAt(s, size) ==
  IF ShouldPack(s.part[1]) THEN size
  ELSE AlignUp(PartAlignment(info, s.part), size) + ExtraCapacity(s)

CurrentSize(i) == prog.secs[i].size - TotalDeleted(dels[i])
Capacity(i) == CapacityAt(prog.secs[i], CurrentSize(i))

SizeOf(g) ==
  LET base == Through(LAMBDA f, i : IF prog.secs[i].g = g THEN AddTo(f, prog.secs[i].part, Capacity(i)) ELSE f,
                       EmptyMap, [n \in Secs |-> n])
      mine == IF g = 1 THEN AddTo(base, <<"rodata", 1>>, prog.merged) ELSE base
  IN AddTo(mine, <<"symtab", 0>>, prog.symbols[g])

FinaliseAllSizes ==
  /\ pc = "sizes"
  /\ sizes' = [g \in Groups |-> SizeOf(g)]
  /\ pc' = "order"
  /\ UNCHANGED <<prog, info, order, total, index, active, blocks, assigned, parts, dels, rescan,
                 pass, sections, merged, segments, addr, thunkAt, offsets, internal, waiting>>

\* Attributes of the input sections, then the order that follows from them.
MaxType(a, b) == IF TypeRank(a) >= TypeRank(b) THEN a ELSE b

Propagated ==
  Through(LAMBDA f, i : [f EXCEPT ![prog.secs[i].part[1]] =
                            [@ EXCEPT !.flags = @ \cup prog.secs[i].flags,
                                      !.type = MaxType(@, prog.secs[i].type)]],
           info, [n \in Secs |-> n])

PropagateSectionAttributes ==
  /\ pc = "order"
  /\ info' = Propagated
  /\ order' = OutputOrder(Propagated, prog.custom, prog.partial)
  /\ pc' = "totals"
  /\ UNCHANGED <<prog, sizes, total, index, active, blocks, assigned, parts, dels, rescan, pass,
                 sections, merged, segments, addr, thunkAt, offsets, internal, waiting>>

Merge(f, h) == [p \in DOMAIN f |-> f[p] + h[p]]
MergeAll(maps) == Through(LAMBDA f, g : Merge(f, maps[g]), EmptyMap, [g \in DOMAIN maps |-> g])

SectionSize(t, s) == Through(LAMBDA n, p : n + t[p], 0, PartsOf(s))

\* The epilogue's late adjustment: the .hash table.
EpilogueExtra == AddTo(EmptyMap, <<"hash", 0>>, prog.hash)

Forced == {"header", "phdrs", "shdrs", "shstrtab"} \cup (IF prog.relro THEN {"relro_padding"} ELSE {})

\* Which sections get a header, given the totals after the epilogue's turn.
KeepSections(t) ==
  LET first == prog.must \cup {s \in DOMAIN info : SectionSize(t, s) > 0} \cup Forced
               \cup {prog.internal[n].s : n \in {m \in DOMAIN prog.internal : prog.internal[m].used
                                                                            /\ prog.internal[m].at # "redirect"}}
      primaries == {Target(info, s) : s \in first}
      typed == {s \in primaries : info[s].type # "NULL" \/ s = "header" \/ s \notin DOMAIN BuiltIn}
      relro == \E s \in typed \ {"relro_padding"} :
                 SectionSize(t, s) > 0 /\ ("T" \in info[s].flags \/ IsRelro(s))
  IN IF prog.relro /\ ~relro THEN typed \ {"relro_padding"} ELSE typed

OrderedSections == LET evs == SelectSeq(order.ev, LAMBDA e : e.k = "section")
                   IN [n \in DOMAIN evs |-> evs[n].v]

\* Indexes are given out in the order of the output.
Indexes(keep) ==
  LET kept == SelectSeq(OrderedSections, LAMBDA s : s \in keep)
  IN [s \in DOMAIN info |-> IF \E n \in DOMAIN kept : kept[n] = s
                              THEN (CHOOSE n \in DOMAIN kept : kept[n] = s) - 1 ELSE -1]

\* A LOAD segment is kept for what it holds, another one for any kept section.
KeepSegment(t, keep, id) ==
  LET at(k) == CHOOSE n \in DOMAIN order.ev : order.ev[n] = Ev(k, id)
      inside == {order.ev[n].v : n \in {m \in at("start")..at("end") : order.ev[m].k = "section"}}
  IN \/ order.segs[id].t \in {"STACK", "PHDR"} \/ id = 1
     \/ \E s \in inside : /\ Target(info, s) \in keep
                          /\ \/ s \in {"header", "phdrs", "shdrs"}
                             \/ SectionSize(t, s) > 0
                             \/ order.segs[id].t # "LOAD"

\* update_segment_keep_list drops RELRO when it is disabled.
ActiveSegments(t, keep) ==
  IF prog.partial THEN {}
  ELSE {id \in DOMAIN order.segs : /\ KeepSegment(t, keep, id)
                                   /\ order.segs[id].t = "RELRO" => prog.relro}

\* Mutant: room for every segment of the order, kept or not.
HeaderSizesOfAllSegments(keep, segs) ==
  AddTo(AddTo(AddTo(AddTo(EmptyMap, <<"header", 0>>, 2), <<"phdrs", 0>>, Len(order.segs)),
              <<"shdrs", 0>>, Cardinality(keep)), <<"shstrtab", 0>>, Cardinality(keep))

HeaderSizes(keep, segs) ==
  AddTo(AddTo(AddTo(AddTo(EmptyMap, <<"header", 0>>, 2), <<"phdrs", 0>>, Cardinality(segs)),
              <<"shdrs", 0>>, Cardinality(keep)), <<"shstrtab", 0>>, Cardinality(keep))

\* Linker-defined symbols are kept when they are used or their section is.
InternalKept(keep, n) == prog.internal[n].used \/ (prog.internal[n].at # "redirect" /\ prog.internal[n].s \in keep)

ComputeTotalSectionPartSizes ==
  /\ pc = "totals"
  /\ \E base \in {Merge(MergeAll(sizes), EpilogueExtra)} : \E keep \in {KeepSections(base)} :
     LET segs == ActiveSegments(base, keep)
         syms == Cardinality({n \in DOMAIN prog.internal : InternalKept(keep, n)})
         extra == AddTo(HeaderSizes(keep, segs), <<"symtab", 0>>, syms)
     IN /\ sizes' = [sizes EXCEPT ![prog.groups] = Merge(@, EpilogueExtra), ![1] = Merge(@, extra)]
        /\ total' = Merge(base, extra)
        /\ info' = [s \in DOMAIN info |->
                      IF info[s].type = "NULL" /\ s \notin DOMAIN BuiltIn
                        THEN [info[s] EXCEPT !.type = "PROGBITS"] ELSE info[s]]
        /\ index' = Indexes(keep)
        /\ active' = segs
        /\ internal' = [n \in DOMAIN prog.internal |->
                          IF InternalKept(keep, n) THEN 0 ELSE Unresolved]
  /\ pc' = "thunks"
  /\ UNCHANGED <<prog, order, blocks, assigned, parts, dels, rescan, pass, sections, merged,
                 segments, addr, thunkAt, offsets, waiting>>

-----------------------------------------------------------------------------
(***************************************************************************)
(* Thunks.                                                                 *)
(***************************************************************************)
Objects == 1..prog.objects
SecsIn(o, p) == {i \in Secs : prog.secs[i].o = o /\ prog.secs[i].part = p}
GroupOf(o) == prog.secs[CHOOSE i \in Secs : prog.secs[i].o = o].g

\* post_gc_primary_bytes: sizes, not capacities.
PrimaryBytes(o) == FoldSet(LAMBDA i, n : prog.secs[i].size + n, 0, SecsIn(o, Text))

ExecutableBytes == FoldSet(LAMBDA i, n : prog.secs[i].size + n, 0, {i \in Secs : "X" \in prog.secs[i].flags})

FixedExecutable == \E i \in Secs : "X" \in prog.secs[i].flags /\ info[prog.secs[i].part[1]].loc # -1

NeedsThunks == prog.arch = "aarch64" /\ (ExecutableBytes >= BranchRange \/ FixedExecutable)

BranchesFrom(o, p) == {prog.rels[n].sym : n \in {m \in DOMAIN prog.rels : /\ prog.rels[m].kind = "call"
                                                                        /\ prog.rels[m].sec \in SecsIn(o, p)}}

PartRange(ps, p) == IF ps[p].msize > 0 THEN {[lo |-> ps[p].mem, hi |-> ps[p].mem + ps[p].msize]} ELSE {}

\* Where the code behind each symbol is, if that is known.
TargetRanges(ps, ranges) ==
  [y \in DOMAIN prog.syms |->
     LET sec == prog.secs[prog.syms[y].sec]
     IN IF sec.part = Text THEN {ranges[sec.o]} ELSE PartRange(ps, sec.part)]

\* Parts other than the primary one that branch, smallest id first.
ExtraParts == SelectSeq(<<<<"init", 1>>, <<"text", 8>>, <<"text", 4>>, <<"text", 1>>>> \o
                        [n \in DOMAIN prog.custom |-> <<prog.custom[n], 2>>],
                        LAMBDA p : \E o \in Objects : BranchesFrom(o, p) # {})

ExtraBlock(ps, ranges, p) ==
  LET refs == UNION {BranchesFrom(o, p) : o \in Objects}
      owners == {o \in Objects : SecsIn(o, p) # {}}
  IN [part |-> p, owner |-> MinIn(owners),
      syms |-> IF PartRange(ps, p) = {} THEN {}
               ELSE UNION {ExtraSymbols(r, refs, TargetRanges(ps, ranges)) : r \in PartRange(ps, p)}]

PrimaryBlock(ps, ranges, asg, b) ==
  [part |-> Text, owner |-> asg.owner[b],
   syms |-> PrimarySymbols(asg, ranges, b - 1, [o \in Objects |-> BranchesFrom(o, Text)],
                           TargetRanges(ps, ranges))]

BlocksFor(ps, ranges, asg) ==
  [asg |-> asg,
   list |-> [b \in DOMAIN asg.owner |-> PrimaryBlock(ps, ranges, asg, b)]
            \o SelectSeq([n \in DOMAIN ExtraParts |-> ExtraBlock(ps, ranges, ExtraParts[n])],
                         LAMBDA b : b.syms # {})]

BlocksOver(ps, ranges) == BlocksFor(ps, ranges, AssignThunkBlocks(ranges))
BlocksAt(ps) == BlocksOver(ps, PrimaryRanges([o \in Objects |-> PrimaryBytes(o)], ps[Text].mem))

\* A preliminary placement decides; the thunks added later move everything.
BuiltBlocks == BlocksAt(LayoutSectionParts(info, total, order, prog.partial, prog.base))

BlockSize(b) == AlignUp(PartAlignment(info, b.part), Cardinality(b.syms) * ThunkSize)

\* Space for the block and its symbols, in the group of the block's owner.
AllocateThunkBlockSpace(f, g, list) ==
  Through(LAMBDA h, b : IF GroupOf(b.owner) = g
                           THEN AddTo(AddTo(h, b.part, BlockSize(b)), <<"symtab", 0>>, Cardinality(b.syms)) ELSE h,
           f, list)

BuildThunks ==
  /\ pc = "thunks"
  /\ \E built \in {IF NeedsThunks THEN BuiltBlocks ELSE [asg |-> NoBlocks, list |-> <<>>]} :
       LET more == [g \in Groups |-> AllocateThunkBlockSpace(EmptyMap, g, built.list)]
       IN /\ blocks' = built.list
          /\ assigned' = built.asg
          /\ sizes' = [g \in Groups |-> Merge(sizes[g], more[g])]
          /\ total' = Merge(total, MergeAll(more))
  /\ pc' = "place"
  /\ UNCHANGED <<prog, info, order, index, active, parts, dels, rescan, pass, sections, merged,
                 segments, addr, thunkAt, offsets, internal, waiting>>

-----------------------------------------------------------------------------
(***************************************************************************)
(* Placement and relaxation.                                               *)
(***************************************************************************)
Placed(t) == LayoutSectionParts(info, t, order, prog.partial, prog.base)

Executable == {i \in Secs : "X" \in prog.secs[i].flags}

LayoutParts ==
  /\ pc = "place"
  /\ parts' = Placed(total)
  /\ rescan' = Executable
  /\ pc' = IF prog.arch = "riscv64" THEN "relax" ELSE "segments"
  /\ UNCHANGED <<prog, info, sizes, order, total, index, active, blocks, assigned, dels, pass,
                 sections, merged, segments, addr, thunkAt, offsets, internal, waiting>>

GroupStart(g) ==
  [p \in DOMAIN parts |-> parts[p].mem + Through(LAMBDA n, h : n + sizes[h][p], 0, [h \in 1..(g - 1) |-> h])]

\* Sections of a group one after another in their parts.
AddressIn(start, i) ==
  start[prog.secs[i].part] +
  FoldSet(LAMBDA j, n : Capacity(j) + n, 0,
          {j \in Secs : j < i /\ prog.secs[j].g = prog.secs[i].g /\ prog.secs[j].part = prog.secs[i].part})

ScanAddresses == [i \in Secs |-> AddressIn(GroupStart(prog.secs[i].g), i)]

\* Offsets of symbols are those of the input, whatever was deleted before them.
ScanTargets(at) ==
  [y \in DOMAIN prog.syms |-> IF prog.syms[y].interposable THEN Unresolved
                              ELSE at[prog.syms[y].sec] + prog.syms[y].off]

Scan(at, i) ==
  CollectRelaxationDeltas(SelectSeq(prog.rels, LAMBDA r : r.sec = i), dels[i], at[i],
                          ScanTargets(at))

\* Mutant: takes the deleted bytes off the part, not the change of capacity.
ShrinkByDeleted(scans, i) == TotalDeleted(scans[i].new)

Shrink(scans, i) ==
  CapacityAt(prog.secs[i], CurrentSize(i))
  - CapacityAt(prog.secs[i], CurrentSize(i) - TotalDeleted(scans[i].new))

Shrunk(scans, f, g) ==
  FoldSet(LAMBDA i, h : IF g = 0 \/ prog.secs[i].g = g
                          THEN AddTo(h, prog.secs[i].part, -Shrink(scans, i)) ELSE h,
          f, rescan)

\* One pass scans every section in rescan; the next one only those whose
\* closest miss the bytes just deleted could bring within reach.
RelaxationPass ==
  /\ pc = "relax" /\ pass < MaxPasses /\ rescan # {}
  /\ \E at \in {ScanAddresses} : \E scans \in {[i \in rescan |-> Scan(at, i)]} :
     LET deleted == FoldSet(LAMBDA i, n : Shrink(scans, i) + n, 0, rescan)
         newTotal == Shrunk(scans, total, 0)
     IN /\ dels' = [i \in Secs |-> IF i \in rescan THEN dels[i] \cup scans[i].new ELSE dels[i]]
        /\ sizes' = [g \in Groups |-> Shrunk(scans, sizes[g], g)]
        /\ total' = newTotal
        /\ rescan' = IF deleted = 0 THEN {}
                     ELSE {i \in rescan : scans[i].margin # Unresolved /\ scans[i].margin <= deleted}
        /\ parts' = IF deleted = 0 THEN parts ELSE Placed(newTotal)
  /\ pass' = pass + 1
  /\ UNCHANGED <<prog, pc, info, order, index, active, blocks, assigned, sections, merged, segments,
                 addr, thunkAt, offsets, internal, waiting>>

RelaxationDone ==
  /\ pc = "relax" /\ (pass = MaxPasses \/ rescan = {})
  /\ pc' = "segments"
  /\ UNCHANGED <<prog, info, sizes, order, total, index, active, blocks, assigned, parts, dels,
                 rescan, pass, sections, merged, segments, addr, thunkAt, offsets, internal, waiting>>

ComputeSegmentLayout ==
  /\ pc = "segments"
  /\ \E secs \in {LayoutSections(info, parts)} :
        /\ sections' = secs
        /\ merged' = MergeSecondaryParts(info, secs)
        /\ segments' = [id \in active |-> SegmentExtent(info, order, secs, index, id)]
        /\ pc' = IF ~prog.partial /\ SegmentErrors(info, order, secs, index) # {} THEN "error" ELSE "groups"
  /\ waiting' = Groups
  /\ UNCHANGED <<prog, info, sizes, order, total, index, active, blocks, assigned, parts, dels,
                 rescan, pass, addr, thunkAt, offsets, internal>>

-----------------------------------------------------------------------------
(***************************************************************************)
(* Every group assigns its addresses, in parallel with the others.         *)
(***************************************************************************)
\* Sections, then the thunk blocks that follow the object.
FinaliseObject(acc, o) ==
  LET put(a, i) == [a EXCEPT !.addr[i] = a.off[prog.secs[i].part],
                             !.off[prog.secs[i].part] = @ + Capacity(i)]
      secs == SelectSeq([n \in Secs |-> n], LAMBDA i : prog.secs[i].o = o)
      thunks == SelectSeq([n \in DOMAIN blocks |-> n], LAMBDA b : blocks[b].owner = o /\ blocks[b].syms # {})
      block(a, b) == [a EXCEPT !.at = @ @@ [k \in {<<b, y>> : y \in blocks[b].syms} |->
                                              a.off[blocks[b].part]
                                              + ThunkSize * Cardinality({z \in blocks[b].syms : z < k[2]})],
                               !.off[blocks[b].part] = @ + BlockSize(blocks[b])]
  IN Through(block, Through(put, acc, secs), thunks)

Bound(r) == r.mem + r.msize

InternalValue(d) ==
  CASE d.at = "start" -> sections[d.s].mem
    [] d.at = "end" -> Bound(sections[d.s])
    [] d.at = "group_start" -> merged[d.s].mem
    [] d.at = "group_end" -> Bound(merged[d.s])
    [] d.at = "redirect" -> 0

FinaliseGroup(g) ==
  /\ pc = "groups" /\ g \in waiting
  /\ LET start == GroupStart(g)
         objs == SelectSeq([o \in Objects |-> o], LAMBDA o : GroupOf(o) = g)
         done == Through(FinaliseObject, [addr |-> addr, at |-> thunkAt, off |-> start], objs)
         last == AddTo(IF g = 1 THEN AddTo(done.off, <<"rodata", 1>>, prog.merged) ELSE done.off,
                       <<"symtab", 0>>, sizes[g][<<"symtab", 0>>])
     IN /\ addr' = done.addr
        /\ thunkAt' = done.at
        /\ offsets' = [offsets EXCEPT ![g] = last]
        /\ internal' = IF g # 1 THEN internal
                       ELSE [n \in DOMAIN internal |-> IF internal[n] = Unresolved THEN Unresolved
                                                       ELSE InternalValue(prog.internal[n])]
  /\ waiting' = waiting \ {g}
  /\ pc' = IF waiting = {g} THEN "redirects" ELSE pc
  /\ UNCHANGED <<prog, info, sizes, order, total, index, active, blocks, assigned, parts, dels,
                 rescan, pass, sections, merged, segments>>

\* Redirects in the order of their definition, each from the value its target has then.
UpdateRedirectResolutions ==
  /\ pc = "redirects"
  /\ internal' = Through(LAMBDA v, n : IF /\ prog.internal[n].at = "redirect" /\ v[n] # Unresolved
                                              /\ v[prog.internal[n].s] # Unresolved
                                           THEN [v EXCEPT ![n] = v[prog.internal[n].s] + prog.internal[n].off] ELSE v,
                          internal, [n \in DOMAIN internal |-> n])
  /\ pc' = "done"
  /\ UNCHANGED <<prog, info, sizes, order, total, index, active, blocks, assigned, parts, dels,
                 rescan, pass, sections, merged, segments, addr, thunkAt, offsets, waiting>>

-----------------------------------------------------------------------------
Init ==
  /\ prog \in Programs
  /\ pc = "sizes"
  /\ info = prog.info
  /\ sizes = <<>> /\ order = [ev |-> <<>>, segs |-> <<>>] /\ total = <<>> /\ index = <<>>
  /\ active = {} /\ blocks = <<>> /\ assigned = NoBlocks /\ parts = <<>>
  /\ dels = [i \in DOMAIN prog.secs |-> {}]
  /\ rescan = {} /\ pass = 0
  /\ sections = <<>> /\ merged = <<>> /\ segments = <<>>
  /\ addr = [i \in DOMAIN prog.secs |-> Unresolved]
  /\ thunkAt = <<>>
  /\ offsets = [g \in 1..prog.groups |-> <<>>]
  /\ internal = <<>>
  /\ waiting = {}

Next ==
  \/ FinaliseAllSizes \/ PropagateSectionAttributes \/ ComputeTotalSectionPartSizes
  \/ BuildThunks \/ LayoutParts \/ RelaxationPass \/ RelaxationDone \/ ComputeSegmentLayout
  \/ (\E g \in 1..prog.groups : FinaliseGroup(g))
  \/ UpdateRedirectResolutions

Spec == Init /\ [][Next]_vars

-----------------------------------------------------------------------------
(***************************************************************************)
(* Correctness.                                                            *)
(***************************************************************************)
Finished == pc = "done"

\* What is laid out inside parts: input sections, merged strings, thunk blocks.
Extents ==
  {[part |-> prog.secs[i].part, at |-> addr[i], len |-> CurrentSize(i)] : i \in Secs}
  \cup {[part |-> <<"rodata", 1>>, at |-> parts[<<"rodata", 1>>].mem, len |-> prog.merged]}
  \cup {[part |-> blocks[k[1]].part, at |-> thunkAt[k], len |-> ThunkSize] : k \in DOMAIN thunkAt}

Apart(a, b) == a.at + a.len <= b.at \/ b.at + b.len <= a.at

\* The parts whose offsets the groups do not advance (verification.rs).
Ignored == {"header", "phdrs", "shdrs", "shstrtab", "hash"}

(* Every group works from its own copy of the offsets, and sizes were       *)
(* allocated phases before: still input sections, merged strings and thunks *)
(* are aligned, lie in their part and never overlap, and each group stops   *)
(* exactly where the next one started (layout.rs: compute_symbols_and_      *)
(* layouts, verification.rs: OffsetVerifier).                               *)
InputsPlaced ==
  Finished =>
    /\ \A e \in Extents : e.len > 0 => /\ parts[e.part].mem <= e.at
                                       /\ e.at + e.len <= parts[e.part].mem + parts[e.part].msize
    /\ \A a, b \in Extents : a # b /\ a.part = b.part /\ a.len > 0 /\ b.len > 0 => Apart(a, b)
    /\ \A i \in Secs : CurrentSize(i) > 0 /\ ~ShouldPack(prog.secs[i].part[1]) => addr[i] % PartAlignment(info, prog.secs[i].part) = 0
    /\ \A g \in Groups, p \in DOMAIN parts : p[1] \notin Ignored =>
         offsets[g][p] = parts[p].mem + Through(LAMBDA n, h : n + sizes[h][p], 0, [h \in 1..g |-> h])

InMemory == {s \in DOMAIN info \ {"relro_padding"} : IsAlloc(info, s) /\ sections[s].msize > 0}

Holds(id, s) == s \in SegmentSections(info, order, sections, index, id)
Permits(def, s) == LET f == info[Target(info, s)].flags IN ("W" \in f) = def.w /\ ("X" \in f) = def.x

Loads == {id \in active : order.segs[id].t = "LOAD"}
Pages(r) == (r.mem \div Page)..((r.mem + r.msize - 1) \div Page)

(* What the loader does with the segments gives every section its content   *)
(* and its permissions: an allocated section lies in one LOAD segment that  *)
(* has its permissions and maps its bytes from its place in the file,       *)
(* segments share no page, RELRO is padded to a page, and sections do not   *)
(* overlap in the file (layout.rs: layout_section_parts,                    *)
(* compute_segment_layout).                                                 *)
SegmentsMapTheFile ==
  Finished /\ ~prog.partial =>
    /\ \A s \in InMemory :
         \E id \in Loads :
           /\ Holds(id, s) /\ Permits(order.segs[id], s)
           /\ segments[id].mem <= sections[s].mem
           /\ Bound(sections[s]) <= Bound(segments[id])
           /\ sections[s].fsize > 0 => sections[s].mem - segments[id].mem = sections[s].file - segments[id].file
           /\ \A other \in Loads \ {id} : ~Holds(other, s)
    /\ \A id \in Loads : /\ segments[id].mem % Page = segments[id].file % Page
                         /\ segments[id].fsize <= segments[id].msize
    /\ \A a, b \in Loads : a # b /\ segments[a].msize > 0 /\ segments[b].msize > 0 =>
                             Pages(segments[a]) \cap Pages(segments[b]) = {}
    /\ \A id \in active : order.segs[id].t = "RELRO" /\ Holds(id, "relro_padding") => Bound(segments[id]) % Page = 0
    /\ \A s, t \in DOMAIN info : s # t /\ sections[s].fsize > 0 /\ sections[t].fsize > 0 =>
         Apart([at |-> sections[s].file, len |-> sections[s].fsize], [at |-> sections[t].file, len |-> sections[t].fsize])

(* The header tables are sized before anything is placed, from sizes that   *)
(* later phases still change: in the end every section with content has a   *)
(* header, indexes are consecutive, and the tables have one entry for each  *)
(* header and each segment (layout.rs: determine_header_sizes).             *)
HeadersComplete ==
  Finished =>
    LET indexed == {s \in DOMAIN info : index[s] # -1}
    IN /\ {index[s] : s \in indexed} = 0..(Cardinality(indexed) - 1)
       /\ \A s \in DOMAIN info :
            SectionSize(total, s) > 0 /\ Target(info, s) \notin {"phdrs", "shdrs"} => index[Target(info, s)] # -1
       /\ parts[<<"shdrs", 0>>].fsize = Cardinality(indexed)
       /\ parts[<<"phdrs", 0>>].fsize = Cardinality(active)
       /\ \A id \in DOMAIN order.segs : ~prog.partial /\ id \notin active /\ order.segs[id].t = "LOAD" =>
            \A s \in InMemory : ~Holds(id, s)

SymbolAt(y) == addr[prog.syms[y].sec] + InputToOutputOffset(dels[prog.syms[y].sec], prog.syms[y].off)
PlaceOf(r) == addr[r.sec] + InputToOutputOffset(dels[r.sec], r.off)

\* block_id_for_source_part
BlockFor(r) ==
  IF prog.secs[r.sec].part = Text THEN BlockOf(assigned, prog.secs[r.sec].o) + 1
  ELSE LET bs == {b \in DOMAIN blocks : blocks[b].part = prog.secs[r.sec].part}
       IN IF bs = {} THEN 0 ELSE CHOOSE b \in bs : TRUE

InReach(from, to) == -BranchRange <= to - from /\ to - from < BranchRange

InReachOrThunk(r) ==
  \/ InReach(PlaceOf(r), SymbolAt(r.sym))
  \/ /\ <<BlockFor(r), r.sym>> \in DOMAIN thunkAt
     /\ InReach(PlaceOf(r), thunkAt[<<BlockFor(r), r.sym>>])

\* Room that code takes and the sums of the thunk decision leave out: what rounding up and
\* incremental padding add to its sections.
Unseen == FoldSet(LAMBDA i, n : (Capacity(i) - CurrentSize(i)) + n, 0, Executable)

\* The slack of the decision takes this room as well: the branch range when it is decided that
\* no thunks are needed, MaxThunkBytes with the thunks of any block when they are placed.
\* Where the slack does not, a branch may be out of reach without a thunk.
SlackCoversUnseen ==
  IF NeedsThunks THEN \A n \in DOMAIN blocks : BlockSize(blocks[n]) + Unseen <= MaxThunkBytes
                 ELSE ExecutableBytes + Unseen <= BranchRange

(* Blocks are placed and thunks chosen from sizes and positions that the    *)
(* thunks themselves, alignment and padding then move: as long as the slack *)
(* covers these, every branch of an aarch64 output reaches its target, or a *)
(* thunk for it in the block of its part (thunks.rs: assign_thunk_blocks,   *)
(* elf_writer.rs: maybe_get_thunk_for_relocation).                          *)
BranchesReach ==
  Finished /\ prog.arch = "aarch64" /\ SlackCoversUnseen =>
    \A n \in DOMAIN prog.rels : InReachOrThunk(prog.rels[n])
=============================================================================
