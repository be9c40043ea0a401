------------------------------ MODULE Relaxation ------------------------------
(***************************************************************************)
(* Shrinking code (libsld/src/elf_riscv64.rs, linker-utils/relaxation.rs): *)
(* which bytes of an input section a scan of its relocations deletes, and  *)
(* how offsets into the section translate afterwards.  The unit is two     *)
(* bytes: a call takes four units and loses two, a lui takes two and loses *)
(* two or one, an alignment directive stands for `add` units of NOPs.      *)
(*                                                                         *)
(* Deletions are a set of pairs <<input offset, units deleted>>.           *)
(***************************************************************************)
EXTENDS Integers, Sequences, FiniteSets, SequencesExt, FiniteSetsExt

CONSTANTS JalReach,   \* JAL_RANGE is -JalReach .. JalReach - 1
          HiPage      \* what one unit of a HI20 immediate stands for

ASSUME RelaxationAssumption == JalReach \in Nat \ {0} /\ HiPage \in Nat \ {0}

Unresolved == -1

TotalDeleted(dels) == FoldSet(LAMBDA d, n : d[2] + n, 0, dels)
DeletedBefore(dels, off) == TotalDeleted({d \in dels : d[1] < off})
HasDeltaAt(dels, off) == \E d \in dels : d[1] = off

InputToOutputOffset(dels, off) == off - DeletedBefore(dels, off)

FitsJal(distance) == -JalReach <= distance /\ distance < JalReach
Abs(n) == IF n < 0 THEN -n ELSE n
JalMargin(distance) == Abs(distance) - (JalReach - 1)

NextPowerOfTwo(n) == CHOOSE p \in {1, 2, 4, 8, 16} : p >= n /\ (p \div 2 < n \/ p = 1)
NextMultipleOf(a, v) == ((v + a - 1) \div a) * a

Hi20(v) == (v + HiPage \div 2) \div HiPage
FitsClui(v) == Hi20(v) \in 1..31

\* A scan's state: the deletions it adds and the closest miss.
Scan0 == [new |-> {}, margin |-> Unresolved]
Miss(acc, m) == [acc EXCEPT !.margin = IF @ = Unresolved \/ m < @ THEN m ELSE @]
Delete(acc, off, n) == [acc EXCEPT !.new = @ \cup {<<off, n>>}]

ScanAlign(acc, old, addr, r) ==
  LET p == addr + r.off - DeletedBefore(old, r.off) - TotalDeleted(acc.new)
      desired == NextMultipleOf(NextPowerOfTwo(r.add), p)
      actual == p + r.add
  IN IF r.add = 0 \/ HasDeltaAt(old, r.off) \/ actual <= desired THEN acc
     ELSE Delete(acc, r.off, actual - desired)

ScanCall(acc, old, addr, r, target) ==
  LET distance == target - (addr + r.off)
  IN CASE HasDeltaAt(old, r.off + 2) \/ target = Unresolved -> acc
       [] OTHER -> IF FitsJal(distance) THEN Delete(acc, r.off + 2, 2) ELSE Miss(acc, JalMargin(distance))

ScanLui(acc, old, r, target) ==
  CASE HasDeltaAt(old, r.off) \/ HasDeltaAt(old, r.off + 1) \/ target = Unresolved -> acc
    [] OTHER -> CASE Hi20(target + r.add) = 0 -> Delete(acc, r.off, 2)
                  [] FitsClui(target + r.add) -> Delete(acc, r.off + 1, 1)
                  [] OTHER -> Miss(acc, (Hi20(target + r.add) - 31) * HiPage)

\* rels: the relocations of the section in order; targets: the output addresses
\* of the symbols, Unresolved when unknown or interposable.
CollectRelaxationDeltas(rels, old, addr, targets) ==
  FoldLeft(LAMBDA acc, r : CASE r.kind = "align" -> ScanAlign(acc, old, addr, r)
                             [] r.kind = "call" -> ScanCall(acc, old, addr, r, targets[r.sym])
                             [] r.kind = "lui" -> ScanLui(acc, old, r, targets[r.sym]),
           Scan0, rels)
=============================================================================
