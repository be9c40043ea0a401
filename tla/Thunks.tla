------------------------------- MODULE Thunks ---------------------------------
(***************************************************************************)
(* Range-extension thunks (libsld/src/thunks.rs): which objects share a    *)
(* block of thunks, which object the block follows, and which symbols get  *)
(* a thunk in it.                                                          *)
(*                                                                         *)
(* Objects are the integers 1..n in the order of the output; an object's   *)
(* range is the code it has in the primary part (.text).                   *)
(***************************************************************************)
EXTENDS Integers, Sequences, FiniteSets, SequencesExt

CONSTANTS BranchRange,     \* min_branch_range
          MaxThunkBytes    \* MAXIMUM_THUNK_BYTES_PER_BLOCK

ASSUME ThunkAssumption == MaxThunkBytes \in Nat /\ BranchRange \in Nat /\ MaxThunkBytes < BranchRange

\* Mutant: no slack for the thunks themselves.
PlannedRangeNoSlack == BranchRange

PlannedRange == BranchRange - MaxThunkBytes

\* collect_primary_ranges: objects one after another from the start of the part.
PrimaryRanges(bytes, start) ==
  FoldLeft(LAMBDA acc, b : Append(acc, [lo |-> IF acc = <<>> THEN start ELSE Last(acc).hi,
                                        hi |-> (IF acc = <<>> THEN start ELSE Last(acc).hi) + b]),
           <<>>, bytes)

\* block: object -> block (0 the first); owner: block -> the object it follows;
\* pend: the object that opened a block not placed yet (0 none).
NoBlocks == [block |-> <<>>, owner |-> <<>>, pos |-> 0, pend |-> 0]

PlaceInBlock(acc, ranges, o) ==
  LET r == ranges[o]
      cur == Len(acc.owner) - 1
      joined == [acc EXCEPT !.block = Append(@, <<o, cur>>)]
      open == [acc EXCEPT !.block = Append(@, <<o, cur + 1>>), !.owner = Append(@, o), !.pend = o]
  IN CASE acc.owner = <<>> -> [block |-> <<<<o, 0>>>>, owner |-> <<o>>, pos |-> r.hi, pend |-> 0]
       [] acc.owner # <<>> /\ acc.pend # 0 ->
            IF r.hi - ranges[acc.pend].lo >= PlannedRange
              THEN [joined EXCEPT !.owner[Len(acc.owner)] = o, !.pos = r.hi, !.pend = 0]
              ELSE joined
       [] OTHER -> IF r.hi - acc.pos >= PlannedRange THEN open ELSE joined

\* assign_thunk_blocks over the objects that have code.  A block still open at
\* the end follows the object that opened it.
AssignThunkBlocks(ranges) ==
  LET withCode == SelectSeq([n \in DOMAIN ranges |-> n], LAMBDA o : ranges[o].hi > ranges[o].lo)
  IN FoldLeft(LAMBDA acc, o : PlaceInBlock(acc, ranges, o), NoBlocks, withCode)

BlockOf(assigned, o) ==
  IF \E n \in DOMAIN assigned.block : assigned.block[n][1] = o
    THEN (CHOOSE e \in Range(assigned.block) : e[1] = o)[2] ELSE 0

\* The span of source and target, both ends included, stays below the range.
SpanFits(src, dst) ==
  LET lo == IF src.lo < dst.lo THEN src.lo ELSE dst.lo
      hi == IF src.hi > dst.hi THEN src.hi ELSE dst.hi
  IN hi - lo < PlannedRange

\* Symbols branched to from the primary part by the objects of block b.  A
\* target range of unknown extent always gets a thunk.
PrimarySymbols(assigned, ranges, b, refs, targets) ==
  {y \in UNION {refs[o] : o \in {q \in DOMAIN ranges : /\ ranges[q].hi > ranges[q].lo
                                                       /\ BlockOf(assigned, q) = b}} :
     \E o \in DOMAIN ranges :
       /\ ranges[o].hi > ranges[o].lo /\ BlockOf(assigned, o) = b /\ y \in refs[o]
       /\ (targets[y] = {} \/ \E t \in targets[y] : ~SpanFits(ranges[o], t))}

\* Symbols branched to from another part: one more block, at the end of the
\* first object that has code there.
ExtraSymbols(source, refs, targets) ==
  {y \in refs : targets[y] = {} \/ \E t \in targets[y] : ~SpanFits(source, t)}
=============================================================================
