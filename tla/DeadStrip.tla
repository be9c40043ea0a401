------------------------------ MODULE DeadStrip ------------------------------
(***************************************************************************)
(* Dead stripping of Mach-O objects (libsld/src/macho.rs): the traversal   *)
(* marks subsections, compact unwind entries and frame descriptions live   *)
(* as references reach them, in any order of the requests; then the dead   *)
(* ones are deleted from their sections.                                   *)
(*                                                                         *)
(* Offsets and sizes are in pointers of eight bytes.  A compact unwind     *)
(* entry is four of them (function, length and encoding, personality,      *)
(* LSDA); a CIE is its length and perhaps its personality; an FDE is its   *)
(* length, its function and perhaps its LSDA.                              *)
(***************************************************************************)
EXTENDS Integers, Sequences, FiniteSets, TLC

CONSTANTS
  MachLinks,   \* the links to check: see MCOutputTables for the fields
  UnwindPage   \* entries of a second-level page of __unwind_info (511 in the code)

ASSUME UnwindPageAssumption == UnwindPage \in Nat \ {0}

VARIABLES
  mlink,       \* the link being run
  mphase,
  graph,       \* what the traversal has found: see NewGraph
  deltas       \* section -> what was deleted from it, [at, n]

LOCAL Thread(F(_, _), base, seq) ==
  LET f[n \in 0..Len(seq)] ==
        IF n = 0 THEN base ELSE CHOOSE r \in {F(c, seq[n]) : c \in {f[n - 1]}} : TRUE
  IN f[Len(seq)]

\* The elements of a set in the order lt.
SortedBy(S, lt(_, _)) ==
  [n \in 1..Cardinality(S) |-> CHOOSE x \in S : Cardinality({y \in S : lt(y, x)}) = n - 1]
Ascending(S) == SortedBy(S, LAMBDA x, y : x < y)

Obj(l, f) == l.objs[f]
Sec(l, k) == l.objs[k[1]].secs[k[2]]
NSym(l, id) == l.objs[id[1]].syms[id[2]]
ObjIds(l) == 1..Len(l.objs)
SecIds(l) == UNION {{<<f, s>> : s \in 1..Len(Obj(l, f).secs)} : f \in ObjIds(l)}
NSymIds(l) == UNION {{<<f, i>> : i \in 1..Len(Obj(l, f).syms)} : f \in ObjIds(l)}
Before(a, b) == a[1] < b[1] \/ (a[1] = b[1] /\ a[2] < b[2])
First(ids) == CHOOSE a \in ids : \A b \in ids : a = b \/ Before(a, b)
Least(S) == CHOOSE x \in S : \A y \in S : x <= y
Greatest(S) == CHOOSE x \in S : \A y \in S : x >= y

\* SymbolDb::definition (SymbolResolution): the first definition of a name, or its
\* first mention when no object defines it.
MachDefinition(l, id) ==
  IF NSym(l, id).local THEN id
  ELSE LET same == {j \in NSymIds(l) : ~NSym(l, j).local /\ NSym(l, j).name = NSym(l, id).name}
           defs == {j \in same : NSym(l, j).sec # 0}
       IN First(IF defs = {} THEN same ELSE defs)

Undefined(l, id) == NSym(l, MachDefinition(l, id)).sec = 0

\* The number of a section by name, 0 when the object has none.
SecNamed(l, f, name) ==
  LET found == {s \in 1..Len(Obj(l, f).secs) : Obj(l, f).secs[s].name = name}
  IN IF found = {} THEN 0 ELSE Least(found)

UnwindAtomGc(l, f) == l.strip /\ Obj(l, f).subs

SubsectionGc(l, k) ==
  UnwindAtomGc(l, k[1]) /\ ~Sec(l, k).retain /\ Sec(l, k).name \in {"text", "except", "const"}

\* Subsections start at the symbols that are not alternative entries, and at 0.
Boundaries(l, k) ==
  {0} \cup {NSym(l, id).off : id \in {i \in NSymIds(l) : /\ i[1] = k[1] /\ NSym(l, i).sec = k[2]
                                                       /\ ~NSym(l, i).alt /\ NSym(l, i).off < Sec(l, k).size}}
StartOf(l, k, off) == Greatest({b \in Boundaries(l, k) : b <= off})
EndOf(l, k, start) == Least({b \in Boundaries(l, k) : b > start} \cup {Sec(l, k).size})

\* CompactUnwindLookup: the entries of a symbol.  One whose function is given by a
\* section and an offset belongs to every symbol of that subsection.
CompactEntries(l, id) ==
  LET f == id[1]
      s == SecNamed(l, f, "compact")
      names(rel) ==
        IF rel.ext THEN rel.sym = id[2]
        ELSE /\ NSym(l, id).sec = rel.sym
             /\ StartOf(l, <<f, rel.sym>>, rel.add) = StartOf(l, <<f, rel.sym>>, NSym(l, id).off)
  IN IF s = 0 THEN {}
     ELSE {rel.off \div 4 : rel \in {Obj(l, f).secs[s].rels[n] : n \in
              {m \in 1..Len(Obj(l, f).secs[s].rels) :
                 /\ Obj(l, f).secs[s].rels[m].off % 4 = 0
                 /\ names(Obj(l, f).secs[s].rels[m])}}}

Within(rel, from, to) == from <= rel.off /\ rel.off < to

\* The relocations of a range of a section, in order.
RelsIn(l, k, from, to) == SelectSeq(Sec(l, k).rels, LAMBDA rel : Within(rel, from, to))

\* The frame entry that starts at an offset; its CIE.
FrameAt(l, f, start) == CHOOSE e \in {Obj(l, f).frames[n] : n \in 1..Len(Obj(l, f).frames)} : e.start = start
CieOf(e) == e.start - e.ptr
Fdes(l, f) == {e \in {Obj(l, f).frames[n] : n \in 1..Len(Obj(l, f).frames)} : e.ptr # 0}

\* EhFrameLookup: the FDEs whose function is relocated against a symbol.
FdesOf(l, id) ==
  LET s == SecNamed(l, id[1], "eh")
  IN IF s = 0 THEN {}
     ELSE {e \in Fdes(l, id[1]) :
             \E n \in 1..Len(Obj(l, id[1]).secs[s].rels) :
                LET rel == Obj(l, id[1]).secs[s].rels[n]
                IN rel.off = e.start + 1 /\ rel.ext /\ rel.sym = id[2]}

-----------------------------------------------------------------------------
(* The traversal *)

\* pend: requests; secs: loaded sections; live: subsections; cu: compact unwind
\* entries; fdes and cies: frames; res, got, plt: symbols with these flags.
NewGraph == [pend |-> {}, secs |-> {}, live |-> {}, cu |-> {}, fdes |-> {}, cies |-> {},
             res |-> {}, got |-> {}, plt |-> {}]

\* A request for a section that is loaded already does nothing.
SendSection(g, k) == IF k \in g.secs THEN g ELSE [g EXCEPT !.pend = @ \cup {<<"section", k>>}]

\* resolution_flags, should_relax_got_load_to_direct and what undefined symbols need.
NeedsGot(l, id, type, extra) ==
  \/ extra
  \/ type = "pointer_to_got"
  \/ type = "got_load" /\ (Undefined(l, id) \/ ~l.exec)
  \/ type \in {"branch", "tlv"} /\ Undefined(l, id)
NeedsStub(l, id, type) == type = "branch" /\ Undefined(l, id)

RECURSIVE LoadSubsectionSymbol(_, _, _)

\* A symbol of the same object takes its subsection or section along at once; its definition is
\* asked for, with a GOT entry or a stub if the relocation goes through one.
Nearby(l, g, id) ==
  LET sym == NSym(l, id)
      own == sym.local \/ sym.hidden
  IN CASE sym.sec = 0 -> g
       [] (own \/ MachDefinition(l, id) = id) /\ SubsectionGc(l, <<id[1], sym.sec>>) -> LoadSubsectionSymbol(l, g, id)
       [] own /\ ~SubsectionGc(l, <<id[1], sym.sec>>) -> SendSection(g, <<id[1], sym.sec>>)
       [] OTHER -> g
Asked(g, def) ==
  IF def \in g.res THEN g ELSE [g EXCEPT !.res = @ \cup {def}, !.pend = @ \cup {<<"symbol", def>>}]
Indirect(l, g, id, def, type, extra) ==
  [g EXCEPT !.got = IF NeedsGot(l, id, type, extra) THEN @ \cup {def} ELSE @,
            !.plt = IF NeedsStub(l, id, type) THEN @ \cup {def} ELSE @]

\* process_relocation: what a relocation makes live.
ProcessRelocation(l, g, f, rel, extra) ==
  LET id == <<f, rel.sym>>
      sym == NSym(l, id)
      def == MachDefinition(l, id)
  IN CASE rel.type = "addend" -> g
       [] ~rel.ext -> SendSection(g, <<f, rel.sym>>)
       [] rel.type = "subtractor" -> IF sym.sec = 0 THEN g ELSE SendSection(g, <<f, sym.sec>>)
       [] OTHER -> Indirect(l, Asked(Nearby(l, g, id), def), id, def, rel.type, extra)

ProcessAll(l, g, f, rels) == Thread(LAMBDA c, rel : ProcessRelocation(l, c, f, rel, FALSE), g, rels)

\* A personality is reached through the GOT.
ProcessCompact(l, g, f, rels) ==
  Thread(LAMBDA c, rel : ProcessRelocation(l, c, f, rel, rel.ext /\ rel.off % 4 = 2), g, rels)

LoadCompactUnwind(l, g, id) ==
  LET k == <<id[1], SecNamed(l, id[1], "compact")>>
  IN Thread(LAMBDA c, e :
        IF <<id[1], e>> \in c.cu THEN c
        ELSE ProcessCompact(l, [c EXCEPT !.cu = @ \cup {<<id[1], e>>}], id[1], RelsIn(l, k, 4 * e, 4 * e + 4)),
      g, Ascending(CompactEntries(l, id)))

LoadEhFrame(l, g, id) ==
  LET f == id[1]
      k == <<f, SecNamed(l, f, "eh")>>
      of(start) == RelsIn(l, k, start, start + FrameAt(l, f, start).size)
  IN Thread(LAMBDA c, start :
        LET cie == CieOf(FrameAt(l, f, start))
        IN ProcessAll(l, [c EXCEPT !.fdes = @ \cup {<<f, start>>}, !.cies = @ \cup {<<f, cie>>}], f,
                      (IF <<f, start>> \in c.fdes THEN << >> ELSE of(start))
                      \o (IF <<f, cie>> \in c.cies THEN << >> ELSE of(cie))),
      g, Ascending({e.start : e \in FdesOf(l, id)}))

\* load_macho_subsection_symbol and mark_macho_subsection_live: the subsection of a
\* symbol becomes live with what its relocations need, once; the unwind
\* information belongs to the symbol.
LoadSubsectionSymbol(l, g, id) ==
  LET k == <<id[1], NSym(l, id).sec>>
      start == StartOf(l, k, NSym(l, id).off)
      end == EndOf(l, k, start)
      here == <<id[1], k[2], start>>
      sent == SendSection([g EXCEPT !.live = @ \cup {here}], k)
      reached == IF here \in g.live THEN sent ELSE ProcessAll(l, sent, id[1], RelsIn(l, k, start, end))
  IN IF end <= start THEN g
     ELSE IF Sec(l, k).name # "text" \/ ~UnwindAtomGc(l, id[1]) THEN reached
     ELSE LoadEhFrame(l, LoadCompactUnwind(l, reached, id), id)

\* ObjectLayoutState::load_symbol with load_object_symbol.
LoadSymbol(l, g, id) ==
  LET k == <<id[1], NSym(l, id).sec>>
  IN CASE k[2] = 0 -> g
       [] SubsectionGc(l, k) -> LoadSubsectionSymbol(l, g, id)
       [] OTHER -> SendSection(g, k)

\* Symbols of a section that may not be stripped.
NoDeadStrip(l, k) ==
  {i \in 1..Len(Obj(l, k[1]).syms) :
     Obj(l, k[1]).syms[i].sec = k[2] /\ Obj(l, k[1]).syms[i].nds /\ ~Obj(l, k[1]).syms[i].alt}

\* load_section with load_object_section_relocations.
LoadSection(l, g, k) ==
  LET loaded == [g EXCEPT !.secs = @ \cup {k}]
  IN CASE k \in g.secs -> g
       [] SubsectionGc(l, k) -> Thread(LAMBDA c, i : LoadSubsectionSymbol(l, c, <<k[1], i>>), loaded,
                                       Ascending(NoDeadStrip(l, k)))
       [] Sec(l, k).name = "eh" /\ UnwindAtomGc(l, k[1]) -> loaded
       [] OTHER -> ProcessAll(l, loaded, k[1], Sec(l, k).rels)

\* load_exception_frame_data, when an object is activated: without dead stripping
\* every compact unwind entry is live.
LoadExceptionFrames(l, g, f) ==
  LET s == SecNamed(l, f, "compact")
  IN IF s = 0 \/ UnwindAtomGc(l, f) THEN g ELSE ProcessCompact(l, g, f, Obj(l, f).secs[s].rels)

\* default_layout_rules: sections that are loaded whatever refers to them.
MustLoad(l, k) ==
  \/ Sec(l, k).retain
  \/ Sec(l, k).name \in {"eh", "tvars", "tdata"}
  \/ ~l.strip /\ Sec(l, k).name # "compact"

\* ObjectLayoutState::activate: the sections that must be loaded, the frames.
ActivateObject(l, g, f) ==
  LoadExceptionFrames(l, [g EXCEPT !.pend = @ \cup {<<"section", k>> : k \in {x \in SecIds(l) : x[1] = f /\ MustLoad(l, x)}}], f)

\* do_work.
DoWork(l, g, q) ==
  CASE q[1] = "activate" -> ActivateObject(l, g, q[2][1])
    [] q[1] = "section" -> LoadSection(l, g, q[2])
    [] q[1] = "symbol" -> LoadSymbol(l, g, q[2])

\* A group handles what it asks of itself before it takes requests of others.
RECURSIVE HandleLocal(_, _, _, _)
HandleLocal(l, g, f, others) ==
  LET mine == {q \in g.pend \ others : q[2][1] = f}
      q == CHOOSE x \in mine : TRUE
  IN IF mine = {} THEN g
     ELSE CHOOSE r \in {HandleLocal(l, DoWork(l, h, q), f, others) : h \in {[g EXCEPT !.pend = @ \ {q}]}} : TRUE

\* One request of another group, or an activation; every object is a group.
HandleRequest ==
  /\ mphase = "traverse"
  /\ \E q \in graph.pend :
       LET rest == graph.pend \ {q}
       IN graph' = HandleLocal(mlink, DoWork(mlink, [graph EXCEPT !.pend = rest], q), q[2][1], rest)
  /\ UNCHANGED <<mlink, mphase, deltas>>

StartTraversal(l) ==
  [NewGraph EXCEPT !.res = l.roots,
     !.pend = {<<"activate", <<f, 0>>>> : f \in ObjIds(l)} \cup {<<"symbol", id>> : id \in l.roots}]

-----------------------------------------------------------------------------
(* Deleting what is dead *)

\* The largest power of two that divides an offset; offset 0 asks for nothing.
AlignmentOf(off) == IF off = 0 THEN 1 ELSE Greatest({a \in {1, 2, 4, 8, 16} : off % a = 0})

\* The atoms of a section as offset -> whether it is kept.
Atoms(l, g, k) ==
  LET ids == {i \in NSymIds(l) : i[1] = k[1] /\ NSym(l, i).sec = k[2] /\ ~NSym(l, i).alt}
      keep(i) == <<k[1], k[2], NSym(l, i).off>> \in g.live \/ i \in g.res \/ NSym(l, i).nds
  IN IF ids = {} THEN << >>
     ELSE [off \in {0} \cup {NSym(l, i).off : i \in ids} |-> \E i \in ids : NSym(l, i).off = off /\ keep(i)]

\* __const keeps the alignment of the atoms that follow a run of dead ones.
ConstDeltas(l, k, atoms) ==
  LET size == Sec(l, k).size
      runs == {o \in DOMAIN atoms : /\ ~atoms[o]
                                    /\ \A p \in DOMAIN atoms : p < o /\ ~atoms[p] => \E q \in DOMAIN atoms : p < q /\ q < o /\ atoms[q]}
      end(o) == Least({p \in DOMAIN atoms : p > o /\ atoms[p]} \cup {size})
      align(o) == Greatest({1} \cup {AlignmentOf(p) : p \in {x \in DOMAIN atoms : x >= end(o) /\ atoms[x]}})
      whole(o) == align(o) * ((end(o) - o) \div align(o))
  IN {[at |-> o, n |-> whole(o)] : o \in {r \in runs : end(r) > r /\ whole(r) > 0}}

OtherDeltas(l, k, atoms) ==
  LET next(o) == Least({p \in DOMAIN atoms : p > o} \cup {Sec(l, k).size})
  IN {[at |-> o, n |-> next(o) - o] : o \in {p \in DOMAIN atoms : ~atoms[p] /\ next(p) > p}}

\* compact_dead_macho_subsections.
SubsectionDeltas(l, g, k) ==
  LET atoms == Atoms(l, g, k)
  IN IF k \notin g.secs \/ ~SubsectionGc(l, k) \/ DOMAIN atoms = {} THEN {}
     ELSE IF Sec(l, k).name = "const" THEN ConstDeltas(l, k, atoms) ELSE OtherDeltas(l, k, atoms)

\* macho_live_eh_frame_cies: the CIEs of live FDEs.
LiveCies(l, g, f) == {CieOf(FrameAt(l, f, p[2])) : p \in {q \in g.fdes : q[1] = f}}

KeptFrame(l, g, f, e) ==
  \/ ~UnwindAtomGc(l, f)
  \/ IF e.ptr = 0 THEN e.start \in LiveCies(l, g, f) ELSE <<f, e.start>> \in g.fdes

\* compact_macho_eh_frame: dead entries, and the terminator of an input.
FrameDeltas(l, g, k) ==
  LET frames == {Obj(l, k[1]).frames[n] : n \in 1..Len(Obj(l, k[1]).frames)}
      end == Greatest({0} \cup {e.start + e.size : e \in frames})
  IN IF k \notin g.secs \/ Sec(l, k).name # "eh" THEN {}
     ELSE {[at |-> e.start, n |-> e.size] : e \in {x \in frames : ~KeptFrame(l, g, k[1], x)}}
          \cup (IF Sec(l, k).size > end THEN {[at |-> end, n |-> Sec(l, k).size - end]} ELSE {})

Compact ==
  /\ mphase = "traverse" /\ graph.pend = {}
  /\ deltas' = [k \in SecIds(mlink) |-> SubsectionDeltas(mlink, graph, k) \cup FrameDeltas(mlink, graph, k)]
  /\ mphase' = "layout"
  /\ UNCHANGED <<mlink, graph>>
=============================================================================
