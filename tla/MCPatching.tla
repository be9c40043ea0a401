---------------------------- MODULE MCPatching ----------------------------
(***************************************************************************)
(* Instances for TLC of the two halves of a patched link: the bytes of the *)
(* output (PatchInputs) and the files of the state directory (StateFiles). *)
(* A behaviour is one of either; they meet in IncrementalLink.             *)
(*                                                                         *)
(* For PatchInputs, families of versions of a file.  A version differs from*)
(* another in what an edit of the source would change: the bytes of a      *)
(* function, its length, a pointer in a table, a symbol, a function with   *)
(* its frame entry, a member of an archive.                                *)
(***************************************************************************)
EXTENDS PatchInputs, StateFiles

No == [s \in {} |-> 0]
S(name, data) == [name |-> name, stable |-> TRUE, direct |-> TRUE, data |-> data]
Anon(name, data) == [S(name, data) EXCEPT !.stable = FALSE]
Fixed(name, data) == [S(name, data) EXCEPT !.direct = FALSE]
R(sec, off, kind, sym, add) == [sec |-> sec, off |-> off, kind |-> kind, sym |-> sym, add |-> add]
At(sec, off) == [sec |-> sec, off |-> off]
F(sec, add, body) == [sec |-> sec, add |-> add, body |-> body]
Obj(secs, relas, syms, fdes, rest) ==
    [secs |-> secs, relas |-> relas, syms |-> syms, fdes |-> fdes, rest |-> rest]
Plain(o) == [archive |-> FALSE, members |-> <<[id |-> "o", o |-> o]>>]
Archive(members) == [archive |-> TRUE, members |-> members]
M(id, o) == [id |-> id, o |-> o]

\* Two functions and a section the linker generates from; one function changes and grows into
\* its padding and beyond, and other bytes of the file change.
Bytes(a, rest) == Plain(Obj(<<S("a", a), Fixed("s", <<8>>), S("b", <<5>>)>>, {}, No, <<>>, rest))
BytesVersions == {Bytes(<<1>>, 0), Bytes(<<2>>, 0), Bytes(<<2, 3>>, 0), Bytes(<<1, 0, 4>>, 0),
                  Bytes(<<2>>, 1)}

\* A table of pointers to sections whose names say nothing.
Table(x, y, first) ==
    Plain(Obj(<<S("t", <<0, 0>>), Anon("n", <<x>>), Anon("n", <<y>>)>>,
              {R(1, 1, "abs", first, 0), R(1, 2, "abs", 3 - first, 0)},
              [s \in {1, 2} |-> At(s + 1, 0)], <<>>, 0))
TableVersions == {Table(1, 2, 1), Table(3, 2, 1), Table(2, 1, 1), Table(2, 1, 2)}

\* A section with up to two pointers, and symbols they may be to.
Pointers(relas, word) ==
    Plain(Obj(<<S("d", <<0, 0, word>>)>>, relas, [s \in {1, 2} |-> At(1, s)], <<>>, 0))
PointerVersions ==
    {Pointers({R(1, 1, "abs", 1, 0)}, 6), Pointers({R(1, 1, "abs", 1, 4)}, 6),
     Pointers({R(1, 1, "abs", 1, 0), R(1, 2, "abs", 1, 2)}, 6), Pointers({}, 6),
     Pointers({R(1, 2, "abs", 1, 2)}, 7)}

\* A pointer to a symbol that moves within its section, or whose addend changes.
Moved(off, add) ==
    Plain(Obj(<<S("d", <<0>>), S("a", <<1, 1>>)>>, {R(1, 1, "abs", 1, add)},
              [s \in {1} |-> At(2, off)], <<>>, 0))
MovedVersions == {Moved(0, 0), Moved(1, 0), Moved(0, 3)}

\* Functions with frame entries: a comes and goes with a call that cannot be patched in the
\* other one.
Unwind(secs, fdes) ==
    Plain(Obj(secs, IF Len(secs) = 2 THEN {R(2, 1, "pc", 1, 0)} ELSE {}, [s \in {1} |-> At(1, 0)],
              fdes, 0))
A == S("a", <<1, 2>>)
B == S("b", <<0>>)
Both == Unwind(<<A, B>>, <<F(1, 0, 11), F(2, 0, 12)>>)
OneGone == {Both, Unwind(<<A>>, <<F(1, 0, 11)>>), Unwind(<<A, B>>, <<F(1, 1, 11), F(2, 0, 12)>>),
            Unwind(<<A, B>>, <<F(1, 0, 14), F(2, 0, 12)>>)}
OneMore == {Both, Unwind(<<A, B>>, <<F(1, 0, 11), F(2, 0, 12), F(1, 1, 13)>>),
            Unwind(<<A, B>>, <<F(1, 0, 11), F(1, 1, 13), F(2, 0, 12)>>)}

\* An archive whose members change, change places and share a name.
Member(data) == Obj(<<S("m", data)>>, {}, No, <<>>, 0)
ArchiveVersions ==
    {Archive(<<M("x", Member(<<1>>)), M("y", Member(<<2>>))>>),
     Archive(<<M("x", Member(<<3>>)), M("y", Member(<<2>>))>>),
     Archive(<<M("y", Member(<<2>>)), M("x", Member(<<1>>))>>),
     Archive(<<M("x", Member(<<1>>)), M("x", Member(<<2>>))>>),
     Archive(<<M("x", Member(<<1>>)), M("x", Member(<<4>>))>>)}

Family(versions, dynamic, n) ==
    {[versions |-> versions, dynamic |-> dynamic, indexed |-> i, edits |-> n] : i \in BOOLEAN}

PatchedFamilies ==
    Family(BytesVersions, "no", 2) \cup Family(TableVersions, "no", 2)
    \cup Family(PointerVersions, "symbolic", 2) \cup Family(MovedVersions, "no", 1)
    \cup Family(OneGone, "no", 2) \cup Family(OneMore, "no", 2) \cup Family(ArchiveVersions, "no", 2)

\* The families the passing run leaves out, because what the code makes of them is wrong.
MovedTwice == Family(MovedVersions, "no", 2)
RelativePointers == Family({Pointers({R(1, 1, "abs", 1, 0)}, w) : w \in {6, 7}}, "relative", 1)
TwoGone == Family(OneGone \cup OneMore, "no", 1)
OtherSymbol == Family({Pointers({R(1, 1, "abs", 1, 0)}, 6), Pointers({}, 6),
                       Pointers({R(1, 1, "abs", 2, 0)}, 6)}, "symbolic", 2)

-----------------------------------------------------------------------------
(* For StateFiles, an object file and an archive with two members *)

ObjectFile == <<"object", "object">>
First == <<"archive", "first">>
Second == <<"archive", "second">>

Rec(kind, n, input, target) == [kind |-> kind, n |-> n, input |-> input, target |-> target]

\* References in both directions, between members, and to no input.
AllKept ==
    {Rec("section", 1, ObjectFile, Absent), Rec("section", 2, First, Absent), Rec("section", 3, Second, Absent),
     Rec("reloc", 1, ObjectFile, Second), Rec("reloc", 2, First, ObjectFile), Rec("reloc", 3, First, Second),
     Rec("reloc", 4, ObjectFile, Absent), Rec("fde", 1, First, Absent), Rec("dynrel", 1, ObjectFile, Absent)}

\* A link after which only relocations of the archive are left.
Collected ==
    {Rec("section", 1, ObjectFile, Absent), Rec("reloc", 2, First, ObjectFile), Rec("dynrel", 2, Second, Absent)}

TwoRecordSets == {AllKept, Collected}

OneAtATime == {{"object"}, {"archive"}}

-----------------------------------------------------------------------------

PatchOff ==
    /\ setting = None /\ file = None /\ snap = None /\ out = None /\ lay = None /\ st = None
    /\ tree = None /\ marker = FALSE /\ pc = "off" /\ level = None /\ work = None /\ edits = 0
StateOff ==
    /\ edited = {} /\ source = Absent /\ plain = Absent /\ compressed = Absent /\ sidecar = <<>>
    /\ index = Absent /\ update = Absent /\ marked = FALSE /\ saver = "off" /\ saving = Absent
    /\ loaded = Absent /\ todo = {} /\ last = Absent /\ raced = {} /\ used = Absent

Init == (PatchInit /\ StateOff) \/ (StateInit /\ PatchOff)

Next ==
    \/ pc # "off" /\ PatchNext /\ UNCHANGED stateVars
    \/ saver # "off" /\ StateNext /\ UNCHANGED patchVars

Spec == Init /\ [][Next]_<<patchVars, stateVars>>
=============================================================================
