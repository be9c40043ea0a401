----------------------------- MODULE MachOImage -----------------------------
(***************************************************************************)
(* The Mach-O output (libsld/src/macho_writer.rs): chained fixups, the     *)
(* GOT, stubs, section contents after dead stripping and __unwind_info,    *)
(* read the way dyld and an unwinder read them.  Objects are written in    *)
(* any order.                                                              *)
(***************************************************************************)
EXTENDS DeadStrip

CONSTANT MachPage   \* pointers per page of chained fixups (2,048 in the code)

ASSUME MachPageAssumption == MachPage \in Nat \ {0}

VARIABLES
  place,       \* addresses: see Layout
  fix,         \* the ChainedRebases
  mtodo,       \* files still to be written
  image,       \* address -> [src, val]: where the contents come from, what they are
  table        \* the chained fixup table and __unwind_info

machVars == <<mlink, mphase, graph, deltas, place, fix, mtodo, image, table>>

LOCAL Thread(F(_, _), base, seq) ==
  LET f[n \in 0..Len(seq)] ==
        IF n = 0 THEN base ELSE CHOOSE r \in {F(c, seq[n]) : c \in {f[n - 1]}} : TRUE
  IN f[Len(seq)]

\* The sum of what a set of deltas deletes.
TotalDeleted(d) == Thread(LAMBDA c, x : c + x.n, 0, SortedBy(d, LAMBDA x, y : x.at < y.at))

MachStart == 10 * MachPage

\* SectionRelaxDeltas.
DeletesOffset(d, off) == \E x \in d : x.at <= off /\ off < x.at + x.n
InputToOutput(d, off) == off - TotalDeleted({x \in d : x.at < off})

-----------------------------------------------------------------------------
(* Layout *)

TextOrder == <<"text", "except", "eh">>
DataOrder == <<"const", "got", "data", "tvars", "tdata">>

KeptSize(k) == Sec(mlink, k).size - TotalDeleted(deltas[k])

\* Sections in the order of their files.
InOrder(S) == SortedBy(S, Before)

\* One output section after the other; GOT entries in the order of symbols.
PlaceNamed(p, name) ==
  IF name = "got"
  THEN LET ids == InOrder(graph.got)
       IN [p EXCEPT !.at = @ + Len(ids),
                    !.got = [id \in graph.got |-> p.at + (CHOOSE i \in 1..Len(ids) : ids[i] = id) - 1]]
  ELSE LET put(c, k) == [c EXCEPT !.secs = @ @@ (k :> c.at), !.at = @ + KeptSize(k)]
           all == Thread(put, p, InOrder({k \in graph.secs : Sec(mlink, k).name = name}))
       IN [all EXCEPT !.range = @ @@ (name :> <<p.at, all.at>>)]

RoundUp(a) == ((a + MachPage - 1) \div MachPage) * MachPage

\* macho_unwind_info_allocation_size, in words of four bytes.
UnwindSize(n) ==
  LET pages == (n + UnwindPage - 1) \div UnwindPage
  IN IF n = 0 THEN 0 ELSE 7 + 3 + 3 + (pages + 1) * 3 + n * 2 + pages * 2 + n * 2

\* What compact unwind entries and frame descriptions allocate, twice their number
\* for the gaps between them.
UnwindAllocation ==
  Thread(LAMBDA c, f : c + UnwindSize(2 * Len(Obj(mlink, f).compact))
    + (IF <<f, SecNamed(mlink, f, "eh")>> \in graph.secs THEN UnwindSize(2 * Cardinality(Fdes(mlink, f))) ELSE 0),
    0, [f \in ObjIds(mlink) |-> f])

Layout ==
  /\ mphase = "layout"
  /\ LET stubs == InOrder(graph.plt)
         empty == [at |-> MachStart + Len(stubs), secs |-> << >>, got |-> << >>, range |-> << >>]
         text == Thread(PlaceNamed, empty, TextOrder)
         data == Thread(PlaceNamed, [text EXCEPT !.at = RoundUp(@)], DataOrder)
     IN place' = [secs |-> data.secs, got |-> data.got, range |-> data.range,
                  stub |-> [id \in graph.plt |-> MachStart + (CHOOSE i \in 1..Len(stubs) : stubs[i] = id) - 1],
                  data |-> <<RoundUp(text.at), data.at>>, unwind |-> UnwindAllocation]
  /\ mphase' = "collect"
  /\ UNCHANGED <<mlink, graph, deltas, fix, mtodo, image, table>>

-----------------------------------------------------------------------------
(* Resolutions *)

None == -1
NoSub == [type |-> "none"]

\* The address of a symbol of a loaded section, after deletions.
SectionValue(id) ==
  LET k == <<id[1], NSym(mlink, id).sec>>
  IN IF k[2] = 0 \/ k \notin DOMAIN place.secs THEN None
     ELSE place.secs[k] + InputToOutput(deltas[k], NSym(mlink, id).off)

MergedValue(id) ==
  LET def == MachDefinition(mlink, id)
  IN CASE def \notin graph.res -> None
       [] NSym(mlink, def).sec = 0 -> 0
       [] OTHER -> SectionValue(def)

\* get_resolution: through the symbol, or through this object's own section.
GetResolution(f, rel) ==
  LET id == <<f, rel.sym>>
      sym == NSym(mlink, id)
      merged == MergedValue(id)
      own == SectionValue(id)
  IN CASE ~rel.ext -> IF <<f, rel.sym>> \in DOMAIN place.secs THEN place.secs[<<f, rel.sym>>] ELSE None
       [] ~sym.local /\ sym.hidden -> IF merged >= MachStart \/ own = None THEN merged ELSE own
       [] OTHER -> IF merged = None THEN own ELSE merged

GotOf(f, rel) ==
  LET def == MachDefinition(mlink, <<f, rel.sym>>)
  IN IF rel.ext /\ def \in graph.got THEN place.got[def] ELSE None

IsImport(f, rel) == rel.ext /\ Undefined(mlink, <<f, rel.sym>>) /\ GetResolution(f, rel) < MachStart

-----------------------------------------------------------------------------
(* Chained fixups *)

\* import_symbol_name: the selector stubs of objc_msgSend share one import.
ImportName(name) == IF name \in DOMAIN mlink.stems THEN mlink.stems[name] ELSE name

\* import_library_name guesses the library of a name from its prefix; a link gives
\* the guess for each of its names, "none" when no prefix fits.
KnownLibrary(name) == mlink.family[name]

\* import_library_ordinal: a name that belongs to a well known library binds to the
\* first one loaded under that name, others to the library whose symbols were read.
ImportOrdinal(name) ==
  LET known == KnownLibrary(name)
      loaded == {i \in 1..Len(mlink.dylibs) : mlink.dylibs[i] = known}
  IN IF known = "none" THEN IF name \in DOMAIN mlink.ordinals THEN mlink.ordinals[name] ELSE 1
     ELSE IF loaded = {} THEN 1 ELSE Least(loaded)

\* push_import: reuses an import of the name unless it has another GOT entry.
PushImport(c, id, got, stub) ==
  LET name == ImportName(NSym(mlink, id).name)
      ordinal == ImportOrdinal(name)
      same == {i \in 1..Len(c.imports) : c.imports[i].name = name /\ c.imports[i].ordinal = ordinal}
      i == Least(same)
  IN IF same # {} /\ got = None THEN [c EXCEPT !.last = i]
     ELSE IF same # {} /\ c.imports[i].got \in {None, got}
     THEN [c EXCEPT !.last = i, !.imports[i].got = got, !.imports[i].stub = stub]
     ELSE [c EXCEPT !.last = Len(c.imports) + 1,
                    !.imports = Append(@, [name |-> name, ordinal |-> ordinal, got |-> got, stub |-> stub])]

InLiveFrame(k, off) ==
  \E e \in {Obj(mlink, k[1]).frames[n] : n \in 1..Len(Obj(mlink, k[1]).frames)} :
     e.start <= off /\ off < e.start + e.size /\ KeptFrame(mlink, graph, k[1], e)

InLiveSubsection(k, off) == <<k[1], k[2], StartOf(mlink, k, off)>> \in graph.live

\* Relocations of contents that are deleted, or that are left of dead atoms.
SkipsRelocation(k, off) ==
  \/ DeletesOffset(deltas[k], off)
  \/ UnwindAtomGc(mlink, k[1]) /\ Sec(mlink, k).name = "eh" /\ ~InLiveFrame(k, off)
  \/ SubsectionGc(mlink, k) /\ Sec(mlink, k).name = "const" /\ ~InLiveSubsection(k, off)

\* The third pointer of a thread-local descriptor is an offset, not an address.
TlvInit(k, off) == Sec(mlink, k).name = "tvars" /\ off % 3 = 2

InData(a) == place.data[1] <= a /\ a + 1 <= place.data[2]

\* One relocation in ChainedRebases::collect.
CollectRelocation(c, k, rel) ==
  LET a == place.secs[k] + InputToOutput(deltas[k], rel.off)
      slot(d) == [d EXCEPT !.slots = @ \cup {a}]
      bound == PushImport(c, <<k[1], rel.sym>>, None, None)
  IN CASE SkipsRelocation(k, rel.off) -> [c EXCEPT !.skip = FALSE]
       [] rel.type = "addend" -> c
       [] rel.type = "subtractor" -> [c EXCEPT !.skip = TRUE]
       [] c.skip -> [c EXCEPT !.skip = FALSE]
       [] TlvInit(k, rel.off) -> c
       [] rel.type # "unsigned" \/ ~InData(a) -> c
       [] IsImport(k[1], rel) -> slot([bound EXCEPT !.binds = @ @@ (a :> bound.last)])
       [] GetResolution(k[1], rel) >= MachStart -> slot(c)
       [] OTHER -> c

CollectGot(c, id) ==
  LET a == place.got[id]
      bound == PushImport(c, id, a, IF id \in graph.plt THEN place.stub[id] ELSE None)
      entry(i, target) == [import |-> i, target |-> target]
      d == IF Undefined(mlink, id)
           THEN [bound EXCEPT !.got = @ @@ (a :> entry(bound.last, None))]
           ELSE [c EXCEPT !.got = @ @@ (a :> entry(0, MergedValue(id)))]
  IN [d EXCEPT !.slots = @ \cup {a}]

Collect ==
  /\ mphase = "collect"
  /\ LET start == [slots |-> {}, binds |-> << >>, got |-> << >>, imports |-> << >>, last |-> 0, skip |-> FALSE]
         section(c, k) == Thread(LAMBDA d, rel : CollectRelocation(d, k, rel), c, Sec(mlink, k).rels)
     IN fix' = Thread(CollectGot, Thread(section, start, InOrder(graph.secs)), InOrder(graph.got))
  /\ mphase' = "synthetic"
  /\ UNCHANGED <<mlink, graph, deltas, place, mtodo, image, table>>

\* Mutant: a chain that runs on into the next page.
NextStrideAcrossPages(a) ==
  LET later == {s \in fix.slots : s > a} IN IF later = {} THEN 0 ELSE Least(later) - a

\* The distance to the next slot of the same page, 0 at the end of a chain.
NextStride(a) ==
  LET later == {s \in fix.slots : s > a}
      next == Least(later)
  IN IF later = {} THEN 0 ELSE IF next \div MachPage # a \div MachPage THEN 0 ELSE next - a

EncodeRebase(v, a) == [k |-> "rebase", v |-> v - MachStart, next |-> NextStride(a)]
EncodeBind(i, a) == [k |-> "bind", v |-> i, next |-> NextStride(a)]

Fixed(a, v) ==
  CASE a \in DOMAIN fix.binds -> EncodeBind(fix.binds[a], a)
    [] a \in fix.slots -> EncodeRebase(v, a)
    [] OTHER -> [k |-> "plain", v |-> v, next |-> 0]

\* write_got and write_stubs.
GotEntries ==
  [a \in DOMAIN fix.got |->
     [src |-> <<"got">>, val |-> IF fix.got[a].import # 0 THEN EncodeBind(fix.got[a].import, a)
                                 ELSE EncodeRebase(fix.got[a].target, a)]]
Stubs ==
  LET with == {i \in 1..Len(fix.imports) : fix.imports[i].stub # None /\ fix.imports[i].got # None}
  IN [a \in {fix.imports[i].stub : i \in with} |->
        [src |-> <<"stub">>,
         val |-> [k |-> "jump", v |-> fix.imports[CHOOSE i \in with : fix.imports[i].stub = a].got, next |-> 0]]]

\* write_chained_fixup_table: the first slot of every page.
PageStart(n) ==
  LET in == {s \in fix.slots : (s - place.data[1]) \div MachPage = n}
  IN IF in = {} THEN None ELSE Least({(s - place.data[1]) % MachPage : s \in in})
FixupTable ==
  [starts |-> [n \in 0..(place.data[2] - place.data[1] + MachPage - 1) \div MachPage - 1 |-> PageStart(n)],
   base |-> place.data[1], imports |-> [i \in 1..Len(fix.imports) |-> <<fix.imports[i].name, fix.imports[i].ordinal>>]]

-----------------------------------------------------------------------------
(* Section contents *)

\* write_section_raw copies what is not deleted, one range after the other.
Copied(k) == SelectSeq([i \in 1..Sec(mlink, k).size |-> i - 1], LAMBDA off : ~DeletesOffset(deltas[k], off))

\* rewrite_compacted_macho_eh_frame_cie_pointers, when something was deleted.
CiePointer(k, e) ==
  IF deltas[k] = {} THEN e.ptr
  ELSE InputToOutput(deltas[k], e.start) - InputToOutput(deltas[k], CieOf(e))

RawValue(k, off) ==
  IF Sec(mlink, k).name = "eh" /\ \E e \in Fdes(mlink, k[1]) : e.start = off
  THEN [k |-> "cie", v |-> CiePointer(k, FrameAt(mlink, k[1], off)), next |-> 0]
  ELSE [k |-> "raw", v |-> 0, next |-> 0]

RawSection(k) ==
  LET c == Copied(k)
  IN [a \in {place.secs[k] + i - 1 : i \in 1..Len(c)} |->
        [src |-> <<k[1], k[2], c[a - place.secs[k] + 1]>>, val |-> RawValue(k, c[a - place.secs[k] + 1])]]

\* macho_eh_frame_subtractor_addend_adjustment: how much further the field moved than
\* the subtracted symbol.
SubtractorAdjustment(k, sub, off) ==
  LET moved(x) == x - InputToOutput(deltas[k], x)
      base == CASE sub.ext /\ NSym(mlink, <<k[1], sub.sym>>).sec = k[2] -> moved(NSym(mlink, <<k[1], sub.sym>>).off)
                [] OTHER -> 0
  IN IF Sec(mlink, k).name = "eh" THEN moved(off) - base ELSE 0

\* apply_relocation.
ApplyRelocation(k, rel, a) ==
  LET v == GetResolution(k[1], rel)
      got == GotOf(k[1], rel)
      def == MachDefinition(mlink, <<k[1], rel.sym>>)
  IN CASE rel.type = "unsigned" -> Fixed(a, v + rel.add)
       [] rel.type = "branch" ->
            [k |-> "relative", v |-> (IF rel.ext /\ def \in graph.plt THEN place.stub[def] ELSE v) - a, next |-> 0]
       [] rel.type = "got_load" -> IF got = None THEN [k |-> "address", v |-> v, next |-> 0]
                                   ELSE [k |-> "load", v |-> got, next |-> 0]
       [] rel.type = "tlv" -> IF got = None THEN [k |-> "address", v |-> v, next |-> 0]
                              ELSE [k |-> "load", v |-> got, next |-> 0]
       [] OTHER -> [k |-> "relative", v |-> (IF got = None THEN v ELSE got) - a, next |-> 0]

\* One relocation in write_object_section.
WriteRelocation(c, k, rel) ==
  LET a == place.secs[k] + InputToOutput(deltas[k], rel.off)
      v == GetResolution(k[1], rel)
      write(d, val) == [d EXCEPT !.image[a].val = val]
      diff == v + rel.add + SubtractorAdjustment(k, c.sub, rel.off) - GetResolution(k[1], c.sub)
  IN CASE DeletesOffset(deltas[k], rel.off) -> c
       [] SkipsRelocation(k, rel.off) -> [c EXCEPT !.sub = NoSub]
       [] rel.type = "addend" -> c
       [] rel.type = "subtractor" -> [c EXCEPT !.sub = rel]
       [] v = None -> [c EXCEPT !.ok = FALSE]
       [] TlvInit(k, rel.off) -> write(c, [k |-> "plain", v |-> v - place.range["tdata"][1], next |-> 0])
       [] c.sub # NoSub -> [write(c, [k |-> "plain", v |-> diff, next |-> 0]) EXCEPT !.sub = NoSub]
       [] OTHER -> write(c, ApplyRelocation(k, rel, a))

WriteSection(c, k) ==
  Thread(LAMBDA d, rel : WriteRelocation(d, k, rel), [c EXCEPT !.image = RawSection(k) @@ @], Sec(mlink, k).rels)

\* write_object: the loaded sections of an object in order.
WriteObject(f) ==
  LET done == Thread(WriteSection, [image |-> image, sub |-> NoSub, ok |-> TRUE],
                     InOrder({k \in graph.secs : k[1] = f}))
  IN /\ mphase = "write" /\ f \in mtodo
     /\ mtodo' = mtodo \ {f}
     /\ image' = done.image
     /\ mphase' = IF ~done.ok THEN "failed" ELSE IF mtodo' = {} THEN "done" ELSE "write"
     /\ UNCHANGED <<mlink, graph, deltas, place, fix, table>>

\* The fixup table is written with the prelude.
WriteMachPrelude ==
  /\ mphase = "write" /\ 0 \in mtodo
  /\ mtodo' = mtodo \ {0}
  /\ table' = [table EXCEPT !.fixups = FixupTable]
  /\ mphase' = IF mtodo' = {} THEN "done" ELSE "write"
  /\ UNCHANGED <<mlink, graph, deltas, place, fix, image>>
=============================================================================
