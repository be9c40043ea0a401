----------------------------- MODULE OutputLayout -----------------------------
(***************************************************************************)
(* Where output sections go (libsld/src/output_section_id.rs, layout.rs,   *)
(* alignment.rs, elf.rs): the order of sections and segments, the          *)
(* placement of every part of a section in the file and in memory, and the *)
(* extent of sections and segments.  Everything here is a function of the  *)
(* sections' attributes and of the sizes of their parts; LayoutPhases says *)
(* when each is computed.                                                  *)
(*                                                                         *)
(* A regular section has one part per alignment, largest first; a single-  *)
(* part section has one.  Only four alignments and representatives of the  *)
(* built-in sections are kept: one per combination of flags, segment and   *)
(* position that the code tells apart.                                     *)
(***************************************************************************)
EXTENDS Integers, Sequences, FiniteSets, SequencesExt

CONSTANT Page      \* loadable_segment_alignment

ASSUME PageAssumption == Page \in {8, 16, 32}

AlignUp(a, v) == ((v + a - 1) \div a) * a
AlignDown(a, v) == (v \div a) * a
AlignModulo(a, ref, v) == AlignUp(a, v) + (ref % a)

MaxOf(a, b) == IF a > b THEN a ELSE b
MinOf(a, b) == IF a < b THEN a ELSE b

\* F over the elements of seq from the left, one state after the other.
Through(F(_, _), base, seq) ==
  LET f[n \in 0..Len(seq)] ==
        IF n = 0 THEN base ELSE CHOOSE r \in {F(c, seq[n]) : c \in {f[n - 1]}} : TRUE
  IN f[Len(seq)]

Alignments == <<8, 4, 2, 1>>

\* Flags: A alloc, W writable, X executable, T TLS.  Types in the order in
\* which SectionAttributes::merge compares them.
TypeRank(t) == CASE t = "NULL" -> 0 [] t = "PROGBITS" -> 1 [] t = "SYMTAB" -> 2
                 [] t = "STRTAB" -> 3 [] t = "HASH" -> 5 [] t = "NOBITS" -> 8
                 [] t = "INIT_ARRAY" -> 14

Info(flags, type, min) ==
  [flags |-> flags, type |-> type, min |-> min, primary |-> "none", prio |-> "none", loc |-> -1]

Single(info) == info @@ [single |-> TRUE, relro |-> FALSE, seg |-> "none"]
Regular(info) == info @@ [single |-> FALSE, relro |-> FALSE, seg |-> "none"]

BuiltIn ==
  [header         |-> Single(Info({"A"}, "NULL", 8)),
   phdrs          |-> [Single(Info({"A"}, "NULL", 1)) EXCEPT !.seg = "PHDR"],
   shdrs          |-> Single(Info({"A"}, "NULL", 1)),
   hash           |-> Single(Info({"A"}, "HASH", 1)),
   rodata         |-> Regular(Info({"A"}, "PROGBITS", 1)),
   init           |-> Regular(Info({"A", "X"}, "PROGBITS", 1)),
   text           |-> Regular(Info({"A", "X"}, "PROGBITS", 1)),
   tdata          |-> Regular(Info({"A", "W", "T"}, "PROGBITS", 1)),
   tbss           |-> Regular(Info({"A", "W", "T"}, "NOBITS", 1)),
   init_array     |-> [Regular(Info({"A", "W"}, "INIT_ARRAY", 2)) EXCEPT !.relro = TRUE],
   relro_padding  |-> [Single(Info({"A", "W"}, "NOBITS", 1)) EXCEPT !.relro = TRUE],
   data           |-> Regular(Info({"A", "W"}, "PROGBITS", 1)),
   bss            |-> Regular(Info({"A", "W"}, "NOBITS", 1)),
   shstrtab       |-> Single(Info({}, "STRTAB", 1)),
   symtab         |-> Single(Info({}, "SYMTAB", 2)),
   symtab_global  |-> [Single(Info({}, "SYMTAB", 2)) EXCEPT !.primary = "symtab"],
   strtab         |-> Single(Info({}, "STRTAB", 1))]

IsSingle(s) == s \in DOMAIN BuiltIn /\ BuiltIn[s].single
IsRelro(s) == s \in DOMAIN BuiltIn /\ BuiltIn[s].relro
TargetSegment(s) == IF s \in DOMAIN BuiltIn THEN BuiltIn[s].seg ELSE "none"
ShouldPack(s) == s = "init"

PartsOf(s) == IF IsSingle(s) THEN <<<<s, 0>>>> ELSE [n \in DOMAIN Alignments |-> <<s, Alignments[n]>>]

PartIds(info) == UNION {Range(PartsOf(s)) : s \in DOMAIN info}

PartAlignment(info, p) == IF IsSingle(p[1]) THEN info[p[1]].min ELSE p[2]

Target(info, s) == IF info[s].primary = "none" THEN s ELSE info[s].primary
IsAlloc(info, s) == "A" \in info[Target(info, s)].flags
NoBits(i) == i.type = "NOBITS"
HasDataInFile(info, s) == ~NoBits(info[s]) \/ "T" \in info[s].flags

\* The alignment of the first part that is not empty, at least the section's.
MaxAlignment(info, sizes, s) ==
  LET ps == PartsOf(s)
      used == {n \in DOMAIN ps : sizes[ps[n]] # 0}
      first == CHOOSE n \in used : \A m \in used : n <= m
  IN MaxOf(info[s].min, IF used = {} THEN 1 ELSE PartAlignment(info, ps[first]))

-----------------------------------------------------------------------------
(***************************************************************************)
(* The order of sections, with the starts and ends of segments.            *)
(***************************************************************************)
SegmentDefs ==
  <<[t |-> "PHDR", w |-> FALSE, x |-> FALSE], [t |-> "LOAD", w |-> FALSE, x |-> FALSE],
    [t |-> "LOAD", w |-> FALSE, x |-> TRUE],  [t |-> "LOAD", w |-> TRUE, x |-> FALSE],
    [t |-> "TLS", w |-> FALSE, x |-> FALSE],  [t |-> "RELRO", w |-> FALSE, x |-> FALSE]>>

StackDef == [t |-> "STACK", w |-> TRUE, x |-> FALSE]

ShouldInclude(info, s, def) ==
  CASE def.t = "TLS" -> "T" \in info[s].flags
    [] def.t = "LOAD" -> /\ "A" \in info[s].flags
                         /\ ("W" \in info[s].flags) = def.w
                         /\ ("X" \in info[s].flags) = def.x
    [] def.t = "RELRO" -> "T" \in info[s].flags \/ IsRelro(s)
    [] OTHER -> TargetSegment(s) = def.t

Ev(k, v) == [k |-> k, v |-> v]
Ends(ids) == [n \in DOMAIN ids |-> Ev("end", ids[n])]

\* The secondaries of s by priority; those without one go last.
Secondaries(info, custom, s) ==
  LET mine == SelectSeq(custom, LAMBDA c : info[c].primary = s)
      Key(c) == IF info[c].prio = "none" THEN 100 ELSE info[c].prio
  IN SortSeq(mine, LAMBDA a, b : Key(a) < Key(b))

BuiltInSecondaries(s) == IF s = "symtab" THEN <<"symtab_global">> ELSE <<>>

ActiveIds(act) == SelectSeq([n \in DOMAIN act |-> act[n]], LAMBDA id : id # 0)

\* Leaving RELRO also ends the writable LOAD segment.
EndRwSegment(b, info, s) ==
  LET cut == \E n \in DOMAIN SegmentDefs : /\ b.act[n] # 0 /\ SegmentDefs[n].t = "RELRO"
                                           /\ ~ShouldInclude(info, s, SegmentDefs[n])
      rw == CHOOSE n \in DOMAIN SegmentDefs : SegmentDefs[n].t = "LOAD" /\ SegmentDefs[n].w
  IN IF cut /\ b.act[rw] # 0
       THEN [b EXCEPT !.ev = Append(@, Ev("end", b.act[rw])), !.act[rw] = 0]
       ELSE b

\* A section at a fixed address first ends everything.
StopAll(b, info, s) ==
  IF info[s].loc = -1 THEN b
  ELSE [b EXCEPT !.ev = @ \o Ends(ActiveIds(b.act)), !.act = [n \in DOMAIN @ |-> 0]]

StopOthers(b, info, s) ==
  LET stays(n) == b.act[n] # 0 /\ ShouldInclude(info, s, SegmentDefs[n])
  IN [b EXCEPT !.ev = @ \o Ends(ActiveIds([n \in DOMAIN b.act |-> IF stays(n) THEN 0 ELSE b.act[n]])),
               !.act = [n \in DOMAIN @ |-> IF stays(n) THEN @[n] ELSE 0]]

StartSegments(b, info, s) ==
  Through(LAMBDA c, n :
             IF c.act[n] = 0 /\ ShouldInclude(info, s, SegmentDefs[n])
               THEN LET id == Len(c.segs) + 1
                    IN [c EXCEPT !.segs = Append(@, SegmentDefs[n]), !.act[n] = id,
                                 !.ev = Append(@, Ev("start", id))]
               ELSE c,
           b, [n \in DOMAIN SegmentDefs |-> n])

SetLocation(b, info, s) ==
  IF info[s].loc # -1 /\ "A" \in info[s].flags
    THEN [b EXCEPT !.ev = Append(@, Ev("location", info[s].loc))] ELSE b

AddSection(b, info, custom, partial, s) ==
  LET c == EndRwSegment(b, info, s)
      moved == IF partial THEN SetLocation(c, info, s)
               ELSE StartSegments(SetLocation(StopOthers(StopAll(c, info, s), info, s), info, s), info, s)
      all == <<s>> \o BuiltInSecondaries(s) \o Secondaries(info, custom, s)
  IN [moved EXCEPT !.ev = @ \o [n \in DOMAIN all |-> Ev("section", all[n])]]

\* Custom sections by what they hold.
CustomKind(i) ==
  CASE "X" \in i.flags -> "exec"
    [] "X" \notin i.flags /\ "T" \in i.flags -> IF NoBits(i) THEN "tbss" ELSE "tdata"
    [] i.flags \cap {"X", "T"} = {} /\ "W" \notin i.flags -> IF "A" \in i.flags THEN "ro" ELSE "nonalloc"
    [] OTHER -> IF NoBits(i) THEN "bss" ELSE "data"

CustomOf(info, custom, kind) ==
  SelectSeq(custom, LAMBDA c : info[c].primary = "none" /\ CustomKind(info[c]) = kind)

SectionOrder(info, custom) ==
  <<"header", "phdrs", "shdrs", "hash", "rodata">> \o CustomOf(info, custom, "ro")
  \o <<"init", "text">> \o CustomOf(info, custom, "exec")
  \o <<"tdata">> \o CustomOf(info, custom, "tdata") \o <<"tbss">> \o CustomOf(info, custom, "tbss")
  \o <<"init_array", "relro_padding", "data">> \o CustomOf(info, custom, "data")
  \o <<"bss">> \o CustomOf(info, custom, "bss")
  \o CustomOf(info, custom, "nonalloc") \o <<"shstrtab", "symtab", "strtab">>

\* What is open ends, and a stack segment is added, unless the output is relocatable.
Closed(b, partial) ==
  IF partial THEN [ev |-> b.ev, segs |-> b.segs] ELSE
  [ev |-> b.ev \o Ends(ActiveIds(b.act)) \o <<Ev("start", Len(b.segs) + 1), Ev("end", Len(b.segs) + 1)>>,
   segs |-> Append(b.segs, StackDef)]

Built(info, custom, partial) ==
  Through(LAMBDA c, s : AddSection(c, info, custom, partial, s),
          [ev |-> <<>>, segs |-> <<>>, act |-> [n \in DOMAIN SegmentDefs |-> 0]],
          SectionOrder(info, custom))

OutputOrder(info, custom, partial) ==
  Closed(Built(info, custom, partial), partial)

-----------------------------------------------------------------------------
(***************************************************************************)
(* layout_section_parts: one pass over the order with a file offset and an *)
(* address.                                                                *)
(***************************************************************************)
NoRecord == [file |-> 0, fsize |-> 0, mem |-> 0, msize |-> 0, align |-> 1]

\* The alignment of a LOAD segment: its largest section's, at least a page.
SegmentAlignment(info, sizes, order, id) ==
  LET at(k) == CHOOSE n \in DOMAIN order.ev : order.ev[n] = Ev(k, id)
      inside == {n \in at("start")..at("end") : order.ev[n].k = "section"}
  IN Through(LAMBDA a, n : IF n \in inside THEN MaxOf(a, MaxAlignment(info, sizes, order.ev[n].v)) ELSE a,
              Page, [n \in DOMAIN order.ev |-> n])

\* Mutant: the address is aligned, whatever the offset in the file.
StartLoadSegmentAligned(c, align) ==
  IF c.pend # -1
    THEN [c EXCEPT !.mem = c.pend, !.file = AlignModulo(align, c.pend, @), !.pend = -1]
    ELSE [c EXCEPT !.mem = AlignUp(align, @)]

StartLoadSegment(c, align) ==
  IF c.pend # -1
    THEN [c EXCEPT !.mem = c.pend, !.file = AlignModulo(align, c.pend, @), !.pend = -1]
    ELSE [c EXCEPT !.mem = AlignModulo(align, c.file, @)]

PlacePart(c, info, sizes, partial, max, p) ==
  LET s == p[1]
      align == MinOf(PartAlignment(info, p), max)
      file == AlignUp(align, c.file)
      mem == AlignUp(align, c.mem)
      own == AlignUp(align, c.own[s])
      size == IF s = "relro_padding" THEN AlignUp(Page, c.mem) - c.mem ELSE sizes[p]
      inFile == ~IsAlloc(info, s) \/ HasDataInFile(info, Target(info, s))
      fsize == IF inFile THEN size ELSE 0
      addr == IF IsAlloc(info, s) /\ ~partial THEN mem ELSE own
  IN [c EXCEPT !.out[p] = [file |-> file, fsize |-> fsize, mem |-> addr, msize |-> size, align |-> align],
               !.file = file + fsize,
               !.mem = IF IsAlloc(info, s) /\ ~partial THEN mem + size ELSE @,
               !.own[s] = CASE ~IsAlloc(info, s) -> @ + size
                            [] IsAlloc(info, s) /\ partial -> own + size
                            [] OTHER -> @]

PlaceSection(c, info, sizes, partial, s) ==
  LET d == IF info[s].loc # -1 THEN [c EXCEPT !.mem = info[s].loc] ELSE c
      max == MaxAlignment(info, sizes, s)
  IN Through(LAMBDA e, p : PlacePart(e, info, sizes, partial, max, p), d, PartsOf(s))

LayoutEvent(c, info, sizes, order, partial, e) ==
  CASE e.k = "location" -> [c EXCEPT !.pend = e.v]
    [] e.k = "start" /\ order.segs[e.v].t = "LOAD" ->
         StartLoadSegment(c, SegmentAlignment(info, sizes, order, e.v))
    [] e.k = "section" -> PlaceSection(c, info, sizes, partial, e.v)
    [] OTHER -> c

LayoutSectionParts(info, sizes, order, partial, base) ==
  LET start == [file |-> 0, mem |-> base, pend |-> -1, own |-> [s \in DOMAIN info |-> 0],
                out |-> [p \in PartIds(info) |-> NoRecord]]
  IN Through(LAMBDA c, e : LayoutEvent(c, info, sizes, order, partial, e), start, order.ev).out

-----------------------------------------------------------------------------
(***************************************************************************)
(* Sections and segments from their parts.                                 *)
(***************************************************************************)
MinIn(S) == CHOOSE m \in S : \A n \in S : m <= n
MaxIn(S) == CHOOSE m \in S : \A n \in S : m >= n

Hull(recs) ==
  LET f == MinIn({r.file : r \in recs})
      m == MinIn({r.mem : r \in recs})
  IN [file |-> f, fsize |-> MaxIn({r.file + r.fsize : r \in recs}) - f,
      mem |-> m, msize |-> MaxIn({r.mem + r.msize : r \in recs}) - m]

LayoutSections(info, parts) ==
  [s \in DOMAIN info |->
     LET recs == {parts[PartsOf(s)[n]] : n \in DOMAIN PartsOf(s)}
     IN Hull(recs) @@ [align |-> MaxIn({info[s].min} \cup {r.align : r \in {q \in recs : q.msize > 0}})]]

\* OutputRecordLayout::merge adds the sizes of the secondaries to the primary's,
\* in the order of their ids.
MergeSecondaryParts(info, sections) ==
  LET Sum(f, S) == FoldSet(LAMBDA s, n : sections[s][f] + n, 0, S)
  IN [s \in DOMAIN info |->
        LET others == {t \in DOMAIN info : info[t].primary = s}
            aligns == {sections[t].align : t \in {u \in others : sections[u].msize > 0}}
        IN IF info[s].primary # "none" THEN NoRecord
           ELSE [sections[s] EXCEPT !.fsize = @ + Sum("fsize", others), !.msize = @ + Sum("msize", others),
                                    !.align = MaxIn({@} \cup aligns)]]

\* Sections that reach the file or have a header.
Emitted(info, sections, index, s) ==
  sections[s].fsize # 0 \/ sections[s].msize # 0 \/ index[Target(info, s)] # -1

SegmentSections(info, order, sections, index, id) ==
  LET at(k) == CHOOSE n \in DOMAIN order.ev : order.ev[n] = Ev(k, id)
  IN {s \in DOMAIN info : /\ \E n \in at("start")..at("end") : order.ev[n] = Ev("section", s)
                          /\ Emitted(info, sections, index, s)}

NoExtent == [file |-> 0, fsize |-> 0, mem |-> 0, msize |-> 0]

SegmentExtent(info, order, sections, index, id) ==
  LET inside == SegmentSections(info, order, sections, index, id)
  IN IF order.segs[id].t = "STACK" \/ inside = {} THEN NoExtent ELSE Hull({sections[s] : s \in inside})

\* compute_segment_layout fails on these.
SegmentErrors(info, order, sections, index) ==
  {s \in DOMAIN info :
     /\ \E n \in DOMAIN order.ev : order.ev[n] = Ev("section", s)
     /\ Emitted(info, sections, index, s)
     /\ LET inside == \E id \in DOMAIN order.segs :
                         s \in SegmentSections(info, order, sections, index, id)
        IN IF inside
             THEN \/ sections[s].mem = 0 /\ Target(info, s) # "header"
                  \/ ~IsAlloc(info, s)
             ELSE sections[s].mem # 0 \/ IsAlloc(info, s)}
=============================================================================
