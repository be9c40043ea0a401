----------------------------- MODULE UnwindInfo -----------------------------
(***************************************************************************)
(* __unwind_info of a Mach-O output (libsld/src/macho_writer.rs): compact  *)
(* unwind entries and frame descriptions become one sorted table of two    *)
(* levels; then the whole link, and what dyld and an unwinder must find.   *)
(***************************************************************************)
EXTENDS MachOImage

LOCAL Thread(F(_, _), base, seq) ==
  LET f[n \in 0..Len(seq)] ==
        IF n = 0 THEN base ELSE CHOOSE r \in {F(c, seq[n]) : c \in {f[n - 1]}} : TRUE
  IN f[Len(seq)]

\* The value a relocation gives a field of __compact_unwind or __eh_frame; an
\* offset into a section follows what was deleted from it.
FieldAddress(f, rel) ==
  IF rel.ext THEN GetResolution(f, rel) + rel.add
  ELSE GetResolution(f, rel) + InputToOutput(deltas[<<f, rel.sym>>], rel.add)

FieldRels(f, name, off) ==
  LET s == SecNamed(mlink, f, name)
  IN {rel \in {Obj(mlink, f).secs[s].rels[n] : n \in 1..Len(Obj(mlink, f).secs[s].rels)} :
        rel.off = off /\ rel.type \notin {"subtractor", "addend"}}

\* The one relocation of a field, if it has one.
Field(f, name, off, value(_)) ==
  LET rels == FieldRels(f, name, off) IN IF rels = {} THEN None ELSE value(CHOOSE r \in rels : TRUE)

\* A personality is named by its GOT entry when it has one.
PersonalityAddress(f, rel) == IF GotOf(f, rel) = None THEN FieldAddress(f, rel) ELSE GotOf(f, rel)

\* read_compact_unwind_entries, without the entries of stripped functions.
CompactUnwind(f) ==
  LET here == Obj(mlink, f).compact
      live == {n \in 1..Len(here) : ~UnwindAtomGc(mlink, f) \/ <<f, n - 1>> \in graph.cu}
  IN [n \in live |-> [fn |-> Field(f, "compact", 4 * n - 4, LAMBDA r : FieldAddress(f, r)),
                      len |-> here[n].len, enc |-> here[n].enc,
                      pers |-> Field(f, "compact", 4 * n - 2, LAMBDA r : PersonalityAddress(f, r)),
                      lsda |-> Field(f, "compact", 4 * n - 1, LAMBDA r : FieldAddress(f, r))]]

InExceptTable(a) == place.range["except"][1] <= a /\ a < place.range["except"][2]

\* eh_frame_fde_infos: what the frame descriptions of an object say of a function.
FdeInfos(f) ==
  LET k == <<f, SecNamed(mlink, f, "eh")>>
      info(e) ==
        LET lsda == Field(f, "eh", e.start + 2, LAMBDA r : GetResolution(f, r))
        IN [fn |-> Field(f, "eh", e.start + 1, LAMBDA r : GetResolution(f, r)),
            len |-> e.len, at |-> place.secs[k] - place.range["eh"][1] + InputToOutput(deltas[k], e.start),
            pers |-> Field(f, "eh", CieOf(e) + 1, LAMBDA r : GotOf(f, r)),
            lsda |-> IF lsda # None /\ InExceptTable(lsda) THEN lsda ELSE None]
  IN IF k \notin graph.secs THEN {}
     ELSE {info(e) : e \in {x \in Fdes(mlink, f) : KeptFrame(mlink, graph, f, x)}}

Or(a, b) == IF a = None THEN b ELSE a

\* An entry that defers to DWARF gets the place of its frame, and what it lacks.
ResolveDwarf(e, fdes) ==
  IF e.enc # "dwarf" THEN [e EXCEPT !.enc = <<e.enc>>]
  ELSE LET d == CHOOSE x \in fdes : x.fn = e.fn
       IN [e EXCEPT !.enc = <<"dwarf", d.at>>, !.pers = Or(e.pers, d.pers), !.lsda = Or(e.lsda, d.lsda)]

FrameEntries(fdes) ==
  SortedBy({[fn |-> d.fn, len |-> d.len, enc |-> <<"dwarf", d.at>>, pers |-> d.pers, lsda |-> d.lsda] : d \in fdes},
           LAMBDA x, y : x.enc[2] < y.enc[2])

EntriesOf(cu, fdes) ==
  LET kept == Ascending({n \in DOMAIN cu : cu[n].enc = "dwarf" => \E d \in fdes : d.fn = cu[n].fn})
  IN [i \in DOMAIN kept |-> ResolveDwarf(cu[kept[i]], fdes)] \o FrameEntries(fdes)

\* collect_unwind_info_entries: the compact entries of an object, those that defer to
\* DWARF with the place of their frame; then the frames themselves.
ObjectEntries(f) == EntriesOf(CompactUnwind(f), FdeInfos(f))

FirstOfFunctions(all) == {all[n] : n \in {k \in 1..Len(all) : \A m \in 1..k - 1 : all[m].fn # all[k].fn}}

\* Sorted by function; of two entries of a function the first one stays.
SortedEntries ==
  SortedBy(FirstOfFunctions(Thread(LAMBDA c, f : c \o ObjectEntries(f), << >>, [f \in ObjIds(mlink) |-> f])),
           LAMBDA x, y : x.fn < y.fn)

NoUnwind == <<"none">>

\* Mutant: no entry after the last function.
WithInnerGaps(entries, end) ==
  Thread(LAMBDA c, n :
    LET e == entries[n]
        next == IF n = Len(entries) THEN e.fn + e.len ELSE entries[n + 1].fn
    IN IF e.enc = NoUnwind \/ e.len = 0 \/ e.fn + e.len >= next THEN Append(c, e)
       ELSE c \o <<e, [fn |-> e.fn + e.len, len |-> next - (e.fn + e.len), enc |-> NoUnwind, pers |-> None, lsda |-> None]>>,
    << >>, [i \in 1..Len(entries) |-> i])

\* add_unwind_info_gap_entries: an entry without unwind information after every
\* function that ends before the next one, or before the end of the text.
WithGaps(entries, end) ==
  Thread(LAMBDA c, n :
    LET e == entries[n]
        next == IF n = Len(entries) THEN end ELSE entries[n + 1].fn
    IN IF e.enc = NoUnwind \/ e.len = 0 \/ e.fn + e.len >= next THEN Append(c, e)
       ELSE c \o <<e, [fn |-> e.fn + e.len, len |-> next - (e.fn + e.len), enc |-> NoUnwind, pers |-> None, lsda |-> None]>>,
    << >>, [i \in 1..Len(entries) |-> i])

MaxPersonalities == 3

Personalities(entries) ==
  Thread(LAMBDA c, e : IF e.pers = None \/ \E i \in 1..Len(c) : c[i] = e.pers THEN c ELSE Append(c, e.pers),
         << >>, entries)

\* The second-level page of an entry; the LSDAs of a page follow those of the pages
\* before it.
Pages(n) == (n + UnwindPage - 1) \div UnwindPage
PageOf(n) == (n - 1) \div UnwindPage + 1
Lsdas(entries) == SelectSeq(entries, LAMBDA e : e.lsda # None)
LsdaStart(entries, page) ==
  Cardinality({n \in 1..Len(entries) : entries[n].lsda # None /\ PageOf(n) < page})

TextEnd == place.range["text"][2]

UnwindTable(entries) ==
  LET pers == Personalities(entries)
      encoded(e) == [fn |-> e.fn, enc |-> e.enc, lsda |-> e.lsda # None,
                     pers |-> IF e.pers = None THEN 0 ELSE CHOOSE i \in 1..Len(pers) : pers[i] = e.pers]
      last == entries[Len(entries)]
      ends == {TextEnd, last.fn + (IF last.len = 0 THEN 1 ELSE last.len)}
      pages == Pages(Len(entries))
  IN [pers |-> pers,
      lsdas |-> [i \in 1..Len(Lsdas(entries)) |-> <<Lsdas(entries)[i].fn, Lsdas(entries)[i].lsda>>],
      index |-> [p \in 1..pages + 1 |->
                   IF p > pages THEN [fn |-> Greatest(ends), lsda |-> Len(Lsdas(entries))]
                   ELSE [fn |-> entries[(p - 1) * UnwindPage + 1].fn, lsda |-> LsdaStart(entries, p)]],
      pages |-> [p \in 1..pages |->
                   [i \in 1..Least({UnwindPage, Len(entries) - (p - 1) * UnwindPage}) |->
                      encoded(entries[(p - 1) * UnwindPage + i])]]]

NoTable == [pers |-> << >>, lsdas |-> << >>, index |-> << >>, pages |-> << >>]

\* The words that the table takes.
TableSize(t) ==
  7 + 3 + Len(t.pers) + 3 * Len(t.index) + 2 * Len(t.lsdas)
  + 2 * Len(t.pages) + 2 * (IF t.pages = << >> THEN 0
                            ELSE (Len(t.pages) - 1) * UnwindPage + Len(t.pages[Len(t.pages)]))

\* write_stubs, write_got and write_unwind_info, before the objects are written.
WriteSynthetic ==
  /\ mphase = "synthetic"
  /\ image' = Stubs @@ GotEntries
  /\ \E entries \in {IF place.unwind = 0 THEN << >> ELSE SortedEntries} :
     \E t \in {IF entries = << >> THEN NoTable ELSE UnwindTable(WithGaps(entries, TextEnd))} :
        /\ table' = [table EXCEPT !.unwind = t]
        /\ mphase' = IF Len(t.pers) > MaxPersonalities \/ (entries # << >> /\ TableSize(t) > place.unwind)
                     THEN "failed" ELSE "write"
  /\ mtodo' = {0} \cup ObjIds(mlink)
  /\ UNCHANGED <<mlink, graph, deltas, place, fix>>

MachInit ==
  /\ mlink \in MachLinks
  /\ mphase = "traverse"
  /\ graph = StartTraversal(mlink)
  /\ deltas = << >> /\ place = << >> /\ fix = << >> /\ mtodo = {} /\ image = << >>
  /\ table = [fixups |-> << >>, unwind |-> NoTable]

Traverse == (HandleRequest \/ Compact) /\ UNCHANGED <<place, fix, mtodo, image, table>>

MachNext ==
  \/ Traverse
  \/ Layout
  \/ Collect
  \/ WriteSynthetic
  \/ WriteMachPrelude
  \/ \E f \in ObjIds(mlink) : WriteObject(f)

-----------------------------------------------------------------------------
(* What the program needs *)

\* References of an input that are pointers, and the symbols they name.
RefsFrom(k, from, to) ==
  {<<k[1], rel.sym>> : rel \in {r \in {Sec(mlink, k).rels[n] : n \in 1..Len(Sec(mlink, k).rels)} :
                                  Within(r, from, to) /\ r.type \notin {"addend", "subtractor"} /\ r.ext}}

\* The atom of a symbol: its subsection when the section is stripped by atoms, else
\* the whole section.
AtomOf(id) ==
  LET def == MachDefinition(mlink, id)
      at == IF NSym(mlink, id).local \/ NSym(mlink, id).hidden THEN id ELSE def
      k == <<at[1], NSym(mlink, at).sec>>
  IN IF k[2] = 0 THEN <<0, 0, 0>>
     ELSE <<k[1], k[2], IF SubsectionGc(mlink, k) THEN StartOf(mlink, k, NSym(mlink, at).off) ELSE 0>>

AtomEnd(a) == IF SubsectionGc(mlink, <<a[1], a[2]>>) THEN EndOf(mlink, <<a[1], a[2]>>, a[3]) ELSE Sec(mlink, <<a[1], a[2]>>).size

\* Atoms that the entry points reach, with the data that must stay.
RECURSIVE Reach(_)
Reach(atoms) ==
  LET more == UNION {{AtomOf(id) : id \in RefsFrom(<<a[1], a[2]>>, a[3], AtomEnd(a))} : a \in atoms}
      next == atoms \cup {a \in more : a[1] # 0}
  IN IF next = atoms THEN atoms ELSE Reach(next)

NeededAtoms ==
  Reach({AtomOf(id) : id \in mlink.roots} \cup
        {<<k[1], k[2], 0>> : k \in {x \in SecIds(mlink) : Sec(mlink, x).name \in {"tvars", "tdata"}}})

Offsets(a) == a[3]..AtomEnd(a) - 1

\* Where the contents of an input place are in the output.
Homes(f, s, off) == {x \in DOMAIN image : image[x].src = <<f, s, off>>}
Home(f, s, off) == CHOOSE x \in Homes(f, s, off) : TRUE

\* Where a symbol is in the output: its own copy for one that other files cannot see.
HomeOf(id) ==
  LET def == MachDefinition(mlink, id)
      at == IF NSym(mlink, id).local THEN id ELSE def
  IN Home(at[1], NSym(mlink, at).sec, NSym(mlink, at).off)

\* What a slot must hold once dyld is done: an address, or a name of a library.
Wanted(id, add) ==
  IF Undefined(mlink, id) THEN <<ImportName(NSym(mlink, id).name), mlink.from[ImportName(NSym(mlink, id).name)]>>
  ELSE <<"address", HomeOf(id) + add>>

\* The chain of a page, as dyld walks it.
RECURSIVE Chain(_)
Chain(a) == IF image[a].val.next = 0 THEN <<a>> ELSE <<a>> \o Chain(a + image[a].val.next)

Chains ==
  LET t == table.fixups
      pages == SelectSeq([i \in 1..Cardinality(DOMAIN t.starts) |-> i - 1], LAMBDA n : t.starts[n] # None)
  IN Thread(LAMBDA c, n : c \o Chain(t.base + n * MachPage + t.starts[n]), << >>, pages)

\* What dyld stores there.
Loaded(a) ==
  LET v == image[a].val
  IN IF v.k = "bind" THEN <<table.fixups.imports[v.v][1], mlink.dylibs[table.fixups.imports[v.v][2]]>>
     ELSE <<"address", MachStart + v.v>>

\* The pointers of needed data that name a symbol: all but the offsets of
\* thread-local descriptors and the differences.
Pointers ==
  {<<k, n>> \in UNION {{<<k, n>> : n \in 1..Len(Sec(mlink, k).rels)} : k \in SecIds(mlink)} :
     LET rel == Sec(mlink, k).rels[n]
     IN /\ rel.type = "unsigned" /\ Sec(mlink, k).name \in {"data", "const", "tvars"}
        /\ ~TlvInit(k, rel.off)
        /\ n = 1 \/ Sec(mlink, k).rels[n - 1].type # "subtractor"
        /\ \E a \in NeededAtoms : a[1] = k[1] /\ a[2] = k[2] /\ rel.off \in Offsets(a)}

\* Dead stripping keeps everything that the entry points reach, once, and dyld,
\* walking the chain of every page, meets every slot at most once, all pointers of
\* the data that is needed and all GOT entries among them, and stores in each the
\* address of its symbol or binds it to its name in the library that has it.
DyldFixesPointers ==
  mphase = "done" =>
    /\ \A a \in NeededAtoms : \A off \in Offsets(a) : Cardinality(Homes(a[1], a[2], off)) = 1
    /\ \A a \in NeededAtoms : Sec(mlink, <<a[1], a[2]>>).name = "const" =>
         (Home(a[1], a[2], a[3]) - place.secs[<<a[1], a[2]>>]) % AlignmentOf(a[3]) = 0
    /\ LET walk == Chains
           visited == {walk[i] : i \in 1..Len(walk)}
       IN /\ Cardinality(visited) = Len(walk)
          /\ \A p \in Pointers :
               LET rel == Sec(mlink, p[1]).rels[p[2]]
                   a == Home(p[1][1], p[1][2], rel.off)
               IN a \in visited /\ Loaded(a) = Wanted(<<p[1][1], rel.sym>>, rel.add)
          /\ \A id \in graph.got : place.got[id] \in visited /\ Loaded(place.got[id]) = Wanted(id, 0)
          /\ \A id \in graph.plt : image[place.stub[id]].val.v = place.got[id]

-----------------------------------------------------------------------------
(* The unwinder *)

\* The entry for an address, found through the first level and then its page.
UnwindLookup(a) ==
  LET t == table.unwind
      n == Len(t.index)
      below == {p \in 1..n - 1 : t.index[p].fn <= a}
      p == Greatest(below)
      i == Greatest({j \in 1..Len(t.pages[p]) : t.pages[p][j].fn <= a})
      e == t.pages[p][i]
      lsda == {t.lsdas[j] : j \in {x \in t.index[p].lsda + 1..t.index[p + 1].lsda : t.lsdas[x][1] = e.fn}}
  IN IF n = 0 THEN [enc |-> NoUnwind, pers |-> None, lsda |-> {}]
     ELSE IF below = {} \/ a >= t.index[n].fn THEN [enc |-> NoUnwind, pers |-> None, lsda |-> {}]
     ELSE [enc |-> e.enc, pers |-> IF e.pers = 0 THEN None ELSE t.pers[e.pers],
           lsda |-> IF e.lsda THEN {l[2] : l \in lsda} ELSE {}]

\* The input place that a relocation names.
InputPlace(f, rel) ==
  IF ~rel.ext THEN <<f, rel.sym, rel.add>> ELSE <<f, NSym(mlink, <<f, rel.sym>>).sec, NSym(mlink, <<f, rel.sym>>).off>>

\* The compact entries and frames of the inputs that cover a place of the text.
Covers(fn, len, src) == fn[1] = src[1] /\ fn[2] = src[2] /\ fn[3] <= src[3] /\ src[3] < fn[3] + len
CompactFor(src) ==
  LET f == src[1]
  IN {n \in 1..Len(Obj(mlink, f).compact) :
        \E r \in FieldRels(f, "compact", 4 * n - 4) : Covers(InputPlace(f, r), Obj(mlink, f).compact[n].len, src)}
FramesFor(src) ==
  {e \in Fdes(mlink, src[1]) : \E r \in FieldRels(src[1], "eh", e.start + 1) : Covers(InputPlace(src[1], r), e.len, src)}

\* The text of a function whose name is defined by an earlier object.
Superseded(src) ==
  \E id \in NSymIds(mlink) :
     /\ id[1] = src[1] /\ NSym(mlink, id).sec = src[2] /\ MachDefinition(mlink, id) # id
     /\ StartOf(mlink, <<src[1], src[2]>>, src[3]) = StartOf(mlink, <<src[1], src[2]>>, NSym(mlink, id).off)

\* A frame of the output: its function, and through its CIE its personality.
FrameIsRight(at, e, f) ==
  LET a == place.range["eh"][1] + at
      s == SecNamed(mlink, f, "eh")
      fn == InputPlace(f, CHOOSE r \in FieldRels(f, "eh", e.start + 1) : TRUE)
  IN /\ image[a].src = <<f, s, e.start>>
     /\ a + 1 + image[a + 1].val.v = Home(fn[1], fn[2], fn[3])
     /\ image[a - image[a].val.v].src = <<f, s, CieOf(e)>>

\* The places that fields of inputs name, as the unwinder should find them.
PersonalitySlot(f, name, off) ==
  IF FieldRels(f, name, off) = {} THEN None
  ELSE LET r == CHOOSE x \in FieldRels(f, name, off) : TRUE
       IN IF r.ext THEN place.got[MachDefinition(mlink, <<f, r.sym>>)] ELSE Home(f, r.sym, r.add)
LsdaHome(f, name, off) ==
  {Home(InputPlace(f, r)[1], InputPlace(f, r)[2], InputPlace(f, r)[3]) : r \in FieldRels(f, name, off)}

\* An unwinder that looks up an address of a function in __unwind_info finds the
\* encoding, personality and LSDA that its object gave it, or the frame description
\* of that function when it has no compact encoding; between functions it finds
\* nothing.  The link fails only for a fourth personality.
UnwinderFindsFunctions ==
  /\ mphase = "done" =>
       \A a \in {x \in DOMAIN image : place.range["text"][1] <= x /\ x < TextEnd} :
         ~Superseded(image[a].src) =>
         LET src == image[a].src
             f == src[1]
             found == UnwindLookup(a)
             cu == CompactFor(src)
             n == CHOOSE x \in cu : TRUE
             e == CHOOSE x \in FramesFor(src) : TRUE
         IN CASE cu # {} /\ (Obj(mlink, f).compact[n].enc # "dwarf") ->
                   /\ found.enc = <<Obj(mlink, f).compact[n].enc>>
                   /\ found.pers = PersonalitySlot(f, "compact", 4 * n - 2)
                   /\ found.lsda = LsdaHome(f, "compact", 4 * n - 1)
              [] (cu = {} \/ Obj(mlink, f).compact[n].enc = "dwarf") /\ FramesFor(src) # {} ->
                   /\ found.enc[1] = "dwarf" /\ FrameIsRight(found.enc[2], e, f)
                   /\ found.pers = PersonalitySlot(f, "eh", CieOf(e) + 1)
                   /\ found.lsda = LsdaHome(f, "eh", e.start + 2)
              [] OTHER -> found.enc = NoUnwind
  /\ mphase = "failed" =>
       Cardinality({rel.sym : rel \in UNION {{r \in {Sec(mlink, k).rels[n] : n \in 1..Len(Sec(mlink, k).rels)} :
                      Sec(mlink, k).name = "compact" /\ r.off % 4 = 2} : k \in SecIds(mlink)}}) > MaxPersonalities
=============================================================================
