----------------------------- MODULE TableWriter -----------------------------
(***************************************************************************)
(* Writing the tables that DynamicTables has sized (libsld/src/            *)
(* elf_writer.rs: TableWriter and the writers it holds), and reading them  *)
(* the way a dynamic loader does.  Every group has slices of its own; the  *)
(* groups write in any order.                                              *)
(***************************************************************************)
EXTENDS DynamicTables

\* A TableWriter: the next slot and the end of every slice of a group.
NewWriter(g) ==
  [at |-> lay.starts[g], end |-> [p \in Parts |-> lay.starts[g][p] + sizes[g][p]],
   versym |-> sizes[g]["versym"] > 0, out |-> out, ok |-> TRUE]

\* Takes n slots and writes v at the first; fails when they were not allocated.
Take(w, part, n, v) ==
  IF w.at[part] + n <= w.end[part]
  THEN [w EXCEPT !.out[part] = @ @@ (w.at[part] :> v), !.at[part] = @ + n]
  ELSE [w EXCEPT !.ok = FALSE]

Put(w, part, v) == Take(w, part, 1, v)

\* SymbolTableWriter::define_symbol for .dynsym: names without versions.
DefineDynamic(w, name, entry) ==
  Put(Put(w, "dynstr", name), "dynsym", [entry EXCEPT !.name = w.at["dynstr"]])

\* The same for .symtab, whose names keep their versions.
DefineDebug(w, part, sym, entry) ==
  Put(Put(w, "strtab", [n |-> sym.name, v |-> sym.ver]), part, [entry EXCEPT !.name = w.at["strtab"]])

Entry(shndx, value, bind, type) ==
  [name |-> 0, shndx |-> shndx, value |-> value, bind |-> bind, type |-> type]

NullEntry == Entry("undef", <<"zero">>, "local", "none")
NullSym == [name |-> "", ver |-> "none"]

\* Nothing when versioning is off for the output.
WriteVersion(w, v) == IF w.versym THEN Put(w, "versym", v) ELSE w

Global == [ix |-> 1, hidden |-> FALSE]

\* get_symbol_attributes: section and type of the symbol a --defsym names.
TargetAttributes(l, name) ==
  LET found == {id \in SymIds(l) : SymAt(l, id).canon /\ SymAt(l, id).name = name}
      id == CHOOSE x \in found : TRUE
      sym == SymAt(l, id)
  IN IF found = {} THEN <<"missing", "none">>
     ELSE CASE FileOf(l, id).kind = "object" ->
                 <<IF sym.place = "section" THEN sym.sec ELSE "abs", sym.type>>
            [] FileOf(l, id).kind = "script" -> <<IF sym.place = "section" THEN sym.sec ELSE "abs", "none">>
            [] FileOf(l, id).kind = "prelude" -> <<IF sym.place = "section" THEN sym.sec ELSE "abs", sym.type>>
            [] OTHER -> <<"abs", "none">>

TlsValue(sym, value) == IF sym.type = "tls" THEN <<"tls", value[2]>> ELSE value

Address(id) == <<"at", id>>

-----------------------------------------------------------------------------
(* .symtab *)

InternalSection(l, sym) ==
  IF sym.place = "redirect" THEN TargetAttributes(l, sym.target)
  ELSE <<IF sym.place = "section" THEN sym.sec ELSE "abs", sym.type>>

WriteInternalSymbols(l, w, k) ==
  Thread(LAMBDA c, n :
    LET id == <<k[1], k[2], n>>
        sym == SymAt(l, id)
        at == InternalSection(l, sym)
    IN IF ~sym.canon \/ ~HasResolution(id) THEN c
       ELSE IF at[1] = "missing" THEN [c EXCEPT !.ok = FALSE]
       ELSE DefineDebug(c, IF sym.hidden THEN "local" ELSE "global", sym,
              Entry(at[1], TlsValue(sym, Address(id)), IF sym.hidden THEN "local" ELSE "global", at[2])),
    w, UpTo(Len(FileOf(l, k).syms)))

WriteSectionSymbols(l, w) ==
  Thread(LAMBDA c, s : DefineDebug(c, "local", [name |-> s, ver |-> "none"],
                                   Entry(s, <<"zero">>, "local", "section")),
         w, IF l.partial THEN l.sections ELSE <<>>)

\* write_symbols: the copied symbols of an object, then the undefined ones of a
\* partial link.
WriteSymbols(l, w, k) ==
  LET copy(c, n) ==
        LET id == <<k[1], k[2], n>>
            sym == SymAt(l, id)
        IN IF ~CopiedToSymtab(l, sym) THEN c
           ELSE DefineDebug(c, SymtabPart(sym), sym,
                  Entry(CASE sym.place = "section" -> sym.sec
                          [] sym.place = "common" -> IF sym.type = "tls" THEN "tbss" ELSE "bss"
                          [] OTHER -> "abs",
                        IF sym.place = "absolute" THEN <<"raw", id>> ELSE TlsValue(sym, Address(id)),
                        IF SymtabLocal(sym) THEN "local" ELSE sym.bind, sym.type))
      undef(c, n) ==
        LET sym == FileOf(l, k).syms[n]
        IN IF PartialUndefined(l, sym)
           THEN DefineDebug(c, "global", [sym EXCEPT !.ver = "none"], Entry("undef", <<"zero">>, sym.bind, sym.type))
           ELSE c
      all == UpTo(Len(FileOf(l, k).syms))
  IN IF l.stripAll THEN w ELSE Thread(undef, Thread(copy, w, all), all)

-----------------------------------------------------------------------------
(* The prelude and shared objects *)

VersioningEnabled == Total(sizes, "versym") > 0

\* compute_info_values and write_section_headers: what the headers of the
\* tables say of them.
InfoValues ==
  [symtab |-> Total(sizes, "local"), dynsym |-> 1, verdef |-> lay.versions.def, verneed |-> lay.versions.need]

WritePrelude(l, w, k) ==
  LET headers == [w EXCEPT !.out.info = InfoValues]
      debug == IF l.stripAll THEN headers
               ELSE WriteInternalSymbols(l, WriteSectionSymbols(l, DefineDebug(headers, "local", NullSym, NullEntry)), k)
      version == IF VersioningEnabled THEN WriteVersion(debug, Global) ELSE debug
  IN IF needs_dynsym(l) THEN DefineDynamic(version, "", NullEntry) ELSE version

WriteEntry(w, tag, value) == Put(w, "dynamic", [tag |-> tag, value |-> value])

WriteSoName(w, lib) == WriteEntry(Put(w, "dynstr", lib), "NEEDED", w.at["dynstr"])

WriteCopyRelocations(l, w, k) ==
  Thread(LAMBDA c, n :
    LET id == <<k[1], k[2], n>>
    IN IF id \in CopySymbols(k) THEN Put(c, "rela", [at |-> lay.addr[id], sym |-> lay.index[id]]) ELSE c,
    w, UpTo(Len(FileOf(l, k).syms)))

\* copy_symbol_version: a version of the input in the numbering of the output.
CopyVersion(l, w, id) ==
  LET k == <<id[1], id[2]>>
      v == SymAt(l, id).v
  IN WriteVersion(w, [ix |-> IF v <= 1 THEN v ELSE lay.mapping[k][v], hidden |-> FALSE])

WriteDynamicSymbol(l, w, id) ==
  LET sym == SymAt(l, id)
  IN IF ~HasResolution(id) THEN w
     ELSE IF id \in copied
     THEN DefineDebug(w, "global", sym, Entry("bss", lay.addr[id], sym.bind, sym.type))
     ELSE CopyVersion(l, DefineDynamic(w, sym.name, Entry("undef", <<"zero">>, sym.bind, sym.type)), id)

\* The Verneed of a shared object and its Vernaux records, in the order of the
\* version definitions of the input.
WriteVerneed(l, w, k) ==
  LET n == Cardinality(NeededVersions(l, k))
      defs == FileOf(l, k).verdefs
      first == w.at["verneed"]
      head == Put(w, "verneed", [file |-> 0, count |-> n, next |-> IF k \in lay.last THEN 0 ELSE 1 + n])
      step(c, v) ==
        IF defs[v].base
        THEN [Put(c, "dynstr", FileOf(l, k).lib) EXCEPT !.out["verneed"][first].file = c.at["dynstr"]]
        ELSE IF lay.mapping[k][v] # 1
        THEN Put(Put(c, "dynstr", defs[v].name), "verneed",
                 [other |-> lay.mapping[k][v], name |-> c.at["dynstr"],
                  next |-> IF c.at["verneed"] - first = n THEN 0 ELSE 1])
        ELSE c
  IN IF n = 0 THEN w ELSE IF ~head.ok THEN head ELSE Thread(step, head, UpTo(Len(defs)))

WriteDynamicFile(l, w, k) ==
  LET copies == WriteCopyRelocations(l, WriteSoName(w, FileOf(l, k).lib), k)
      symbols == Thread(LAMBDA c, n : WriteDynamicSymbol(l, c, <<k[1], k[2], n>>), copies,
                        UpTo(Len(FileOf(l, k).syms)))
  IN WriteVerneed(l, symbols, k)

-----------------------------------------------------------------------------
(* The epilogue *)

HasData(l, s) == s \in DOMAIN l.data /\ l.data[s] > 0
SizeOf(l, s) == IF s \in DOMAIN l.data THEN l.data[s] ELSE 0

GeneralRela(l) == SizeOf(l, "general") + Total(sizes, "rela")
HasRelaDyn(l) == SizeOf(l, "relative") > 0 \/ GeneralRela(l) > 0

DtFlags(l) == {"BIND_NOW"} \cup (IF ~Executable(l) /\ l.staticTls THEN {"STATIC_TLS"} ELSE {})
                           \cup (IF l.origin THEN {"ORIGIN"} ELSE {})

DtFlags1(l) == {"NOW"} \cup (IF l.kind = "pie" THEN {"PIE"} ELSE {})
                       \cup (IF l.origin THEN {"ORIGIN"} ELSE {})
                       \cup (IF SharedOutput(l) /\ l.nodelete THEN {"NODELETE"} ELSE {})

\* Which of the epilogue's entries are written, by their conditions.
EntryPresent(l, tag) ==
  CASE tag = "INIT" -> HasData(l, "init")
    [] tag = "FINI" -> HasData(l, "fini")
    [] tag \in {"INIT_ARRAY", "INIT_ARRAYSZ"} -> HasData(l, "init_array")
    [] tag \in {"FINI_ARRAY", "FINI_ARRAYSZ"} -> HasData(l, "fini_array")
    [] tag \in {"PREINIT_ARRAY", "PREINIT_ARRAYSZ"} -> HasData(l, "preinit_array")
    [] tag \in {"VERDEF", "VERDEFNUM"} -> Total(sizes, "verdef") > 0
    [] tag \in {"VERNEED", "VERNEEDNUM"} -> Total(sizes, "verneed") > 0
    [] tag = "VERSYM" -> Total(sizes, "versym") > 0
    [] tag = "DEBUG" -> Executable(l)
    [] tag = "PLTGOT" -> needs_dynamic(l)
    [] tag \in {"JMPREL", "PLTREL", "PLTRELSZ"} -> HasData(l, "rela_plt")
    [] tag \in {"RELA", "RELASZ", "RELAENT"} -> HasRelaDyn(l)
    [] tag \in {"RELR", "RELRSZ", "RELRENT"} -> HasData(l, "relr") /\ ~l.android
    [] tag \in {"ANDROID_RELR", "ANDROID_RELRSZ", "ANDROID_RELRENT"} -> HasData(l, "relr") /\ l.android
    [] tag = "HASH" -> Total(sizes, "hash") > 0
    [] tag = "GNU_HASH" -> Total(sizes, "gnuhash") > 0
    [] tag = "FLAGS" -> l.newDtags /\ DtFlags(l) # {}
    [] tag = "FLAGS_1" -> DtFlags1(l) # {}
    [] tag = "BIND_NOW" -> ~l.newDtags /\ "BIND_NOW" \in DtFlags(l)
    [] tag = "SYMBOLIC" -> ~l.newDtags /\ "SYMBOLIC" \in DtFlags(l)
    [] tag = "TEXTREL" -> ~l.newDtags /\ "TEXTREL" \in DtFlags(l)
    [] tag \in {"AARCH64_VARIANT_PCS", "RISCV_VARIANT_CC"} -> FALSE
    [] OTHER -> TRUE

\* The values that count something; the others are addresses or flags.
EntryValue(l, tag) ==
  CASE tag = "INIT_ARRAYSZ" -> SizeOf(l, "init_array")
    [] tag = "FINI_ARRAYSZ" -> SizeOf(l, "fini_array")
    [] tag = "PREINIT_ARRAYSZ" -> SizeOf(l, "preinit_array")
    [] tag = "STRSZ" -> Total(sizes, "dynstr")
    [] tag = "VERDEFNUM" -> lay.versions.def
    [] tag = "VERNEEDNUM" -> lay.versions.need
    [] tag = "PLTRELSZ" -> SizeOf(l, "rela_plt")
    [] tag = "RELASZ" -> SizeOf(l, "relative") + GeneralRela(l)
    [] tag = "RELACOUNT" -> SizeOf(l, "relative")
    [] tag \in {"RELRSZ", "ANDROID_RELRSZ"} -> SizeOf(l, "relr")
    [] OTHER -> 0

\* Entries that were allocated and not needed are zeroed.
WriteUnused(w) ==
  Thread(LAMBDA c, n : WriteEntry(c, "NULL", 0), w, UpTo(w.end["dynamic"] - w.at["dynamic"]))

WriteNamed(w, tag) == WriteEntry(Put(w, "dynstr", tag), tag, w.at["dynstr"])

RpathTags(l) == IF l.rpath THEN <<IF l.newDtags THEN "RUNPATH" ELSE "RPATH">> ELSE <<>>
SonameTags(l) == IF l.soname THEN <<"SONAME">> ELSE <<>>

WriteEpilogueEntries(l, w) ==
  LET named == Thread(LAMBDA c, tag : WriteNamed(c, tag), w, RpathTags(l) \o SonameTags(l) \o l.auxiliary)
      all == Thread(LAMBDA c, tag : IF EntryPresent(l, tag) THEN WriteEntry(c, tag, EntryValue(l, tag)) ELSE c,
                    named, EpilogueTags)
  IN WriteUnused(all)

\* Definition n goes to slot base + n - 1 of .dynsym; the first of a bucket's
\* chain is in the bucket, the others are linked from one to the next.
SysvHashTable ==
  LET at(n) == lay.base + n - 1
      bucket(n) == Names[order[n].name].elf % lay.sysv.buckets
      in(b) == {n \in 1..Len(order) : bucket(n) = b}
      later(n) == {m \in in(bucket(n)) : m > n}
      least(s) == CHOOSE m \in s : \A x \in s : m <= x
  IN [buckets |-> [b \in 0..lay.sysv.buckets - 1 |-> IF in(b) = {} THEN 0 ELSE at(least(in(b)))],
      chains |-> [i \in 0..lay.sysv.chains - 1 |->
                    LET n == i - lay.base + 1
                    IN IF n \notin 1..Len(order) \/ later(n) = {} THEN 0 ELSE at(least(later(n)))]]

\* The last definition of a run of one bucket ends its chain.
LastInChain(n) ==
  \/ n = Len(order)
  \/ BucketForHash(Len(order), order[n + 1].name) # BucketForHash(Len(order), order[n].name)

BloomBits(hash) == {hash % 64, (hash \div 64) % 64}

GnuHashTable ==
  LET count == Len(order)
      starts(b) == {n \in 1..count : /\ BucketForHash(count, order[n].name) = b
                                     /\ n = 1 \/ LastInChain(n - 1)}
  IN [base |-> lay.base,
      bloom |-> UNION {BloomBits(Names[order[n].name].gnu) : n \in 1..count},
      buckets |-> [b \in 0..GnuBucketCount(count) - 1 |->
                     IF starts(b) = {} THEN 0 ELSE lay.base + (CHOOSE n \in starts(b) : \A m \in starts(b) : m <= n) - 1],
      chains |-> [n \in 1..count |-> [hash |-> Names[order[n].name].gnu \div 2, end |-> LastInChain(n)]]]

WriteHashTables(l, w) ==
  LET sysv == IF lay.sysv.buckets = 0 THEN w ELSE [w EXCEPT !.out["hash"] = SysvHashTable, !.at["hash"] = w.end["hash"]]
  IN IF ~GnuStyle(l) THEN sysv
     ELSE [sysv EXCEPT !.out["gnuhash"] = GnuHashTable, !.at["gnuhash"] = w.end["gnuhash"]]

\* write_regular_object_dynamic_symbol_definition.
ObjectDefinition(l, id) ==
  LET sym == SymAt(l, id)
  IN CASE sym.place = "section" /\ sym.type = "ifunc" /\ l.kind = "exec" -> Entry("plt", <<"plt", id>>, sym.bind, "func")
       [] sym.place = "section" -> Entry(sym.sec, TlsValue(sym, Address(id)), sym.bind, sym.type)
       [] sym.place = "common" -> Entry(IF sym.type = "tls" THEN "tbss" ELSE "bss", TlsValue(sym, Address(id)), sym.bind, sym.type)
       [] sym.place = "absolute" -> Entry("abs", <<"raw", id>>, sym.bind, sym.type)
       [] OTHER -> Entry("undef", <<"zero">>, sym.bind, sym.type)

\* write_internal_dynsym and write_defsym_dynsym.
InternalDefinition(l, id) ==
  LET sym == SymAt(l, id)
      at == TargetAttributes(l, sym.target)
  IN CASE sym.place = "redirect" -> Entry(at[1], Address(id), "global", at[2])
       [] sym.place = "section" -> Entry(sym.sec, Address(id), "global", "none")
       [] OTHER -> Entry("abs", Address(id), "global", "none")

CopyDefinition(l, id) == Entry("bss", lay.addr[id], SymAt(l, id).bind, SymAt(l, id).type)

\* One definition of a chunk.  Symbols of linker scripts get no version.
WriteDefinition(l, w, def) ==
  LET kind == FileOf(l, def.id).kind
  IN CASE kind = "object" -> WriteVersion(DefineDynamic(w, def.name, ObjectDefinition(l, def.id)), def.version)
       [] kind = "dynamic" -> CopyVersion(l, DefineDynamic(w, def.name, CopyDefinition(l, def.id)), def.id)
       [] kind = "script" -> DefineDynamic(w, def.name, InternalDefinition(l, def.id))
       [] kind = "prelude" ->
            IF InternalDefinition(l, def.id).shndx = "missing" THEN [w EXCEPT !.ok = FALSE]
            ELSE WriteVersion(DefineDynamic(w, def.name, InternalDefinition(l, def.id)), def.version)

\* take_dynsym_prefix: a chunk has its own slices, and whether it filled them is
\* not checked.
WriteChunk(l, w, defs) ==
  LET n == Len(defs)
      taken == {"dynsym", "dynstr"} \cup (IF w.versym THEN {"versym"} ELSE {})
      after == [p \in Parts |-> IF p \in taken THEN w.at[p] + n ELSE w.at[p]]
      done == Thread(LAMBDA c, def : WriteDefinition(l, c, def), [w EXCEPT !.end = after], defs)
  IN IF \E p \in taken : after[p] > w.end[p] THEN [w EXCEPT !.ok = FALSE]
     ELSE [w EXCEPT !.out = done.out, !.ok = @ /\ done.ok, !.at = after]

WriteDefinitions(l, w) ==
  LET chunks == (Len(order) + ChunkSize - 1) \div ChunkSize
      upto(n) == IF n < Len(order) THEN n ELSE Len(order)
  IN Thread(LAMBDA c, n : WriteChunk(l, c, SubSeq(order, (n - 1) * ChunkSize + 1, upto(n * ChunkSize))),
            w, UpTo(chunks))

\* The version definitions; the base one uses the soname when there is one.
WriteVerdefs(l, w, soname) ==
  LET n == VersionCount(l)
      aux(c, name, next) == Take(c, "verdef", VerdauxUnits, [name |-> name, next |-> next])
      step(c, i) ==
        LET own == i = 1 /\ l.soname
            name == IF own THEN soname ELSE c.w.at["dynstr"]
            named == IF own THEN c.w ELSE Put(c.w, "dynstr", IF i = 1 THEN l.output ELSE l.versions[i].name)
            parent == l.versions[i].parent
            count == IF parent # 0 THEN 2 ELSE 1
            def == Take(named, "verdef", VerdefUnits,
                        [base |-> i = 1, ix |-> i, count |-> count,
                         next |-> IF i < n THEN VerdefUnits + VerdauxUnits * count ELSE 0])
            first == aux(def, name, IF parent # 0 THEN VerdauxUnits ELSE 0)
        IN [w |-> IF parent # 0 THEN aux(first, c.names[parent], 0) ELSE first, names |-> Append(c.names, name)]
  IN IF n = 0 THEN w ELSE Thread(step, [w |-> w, names |-> <<>>], UpTo(n)).w

WriteEpilogue(l, w) ==
  LET entries == IF needs_dynamic(l) THEN WriteEpilogueEntries(l, w) ELSE w
      soname == w.at["dynstr"] + Len(RpathTags(l))
  IN WriteVerdefs(l, WriteDefinitions(l, WriteHashTables(l, entries)), soname)

WriteFile(l, w, k) ==
  LET kind == FileOf(l, k).kind
  IN CASE kind = "prelude" -> WritePrelude(l, w, k)
       [] kind = "object" -> WriteSymbols(l, w, k)
       [] kind = "script" -> WriteInternalSymbols(l, w, k)
       [] kind = "dynamic" -> WriteDynamicFile(l, w, k)
       [] kind = "epilogue" -> WriteEpilogue(l, w)

\* validate_empty: everything that was allocated to the group was taken.
Exhausted(w) == \A p \in Parts \ {"bss"} : w.at[p] = w.end[p]

WriteGroup(g) ==
  /\ phase = "write" /\ g \in todo
  /\ LET w == Thread(LAMBDA c, f : WriteFile(link, c, <<g, f>>), NewWriter(g), UpTo(Len(link.groups[g])))
     IN /\ out' = w.out
        /\ phase' = IF ~w.ok \/ ~Exhausted(w) THEN "failed" ELSE IF todo = {g} THEN "done" ELSE "write"
  /\ todo' = todo \ {g}
  /\ UNCHANGED <<link, pending, exports, shared, copied, order, sizes, lay>>

-----------------------------------------------------------------------------

\* What the traversal asks for: definitions to export, symbols of shared objects.
Requests(l) == {id \in SymIds(l) : SymAt(l, id).want # "no" /\ FileOf(l, id).kind # "prelude"}

ElfInit ==
  /\ link \in Links
  /\ phase = "load"
  /\ pending = Requests(link)
  /\ exports = [g \in 1..Len(link.groups) |-> <<>>]
  /\ shared = [k \in SharedFiles(link) |-> [needed |-> {}, copies |-> <<>>]]
  /\ copied = {} /\ order = <<>> /\ sizes = <<>> /\ lay = NoLayout /\ todo = {}
  /\ out = [p \in Parts \cup {"info"} |-> <<>>]

ElfNext ==
  \/ \E id \in pending : ExportDynamic(id) \/ UseDynamicSymbol(id)
  \/ MergeExports
  \/ FinaliseAllSizes
  \/ ApplyIndexes
  \/ FinaliseLayout
  \/ \E g \in todo : WriteGroup(g)

-----------------------------------------------------------------------------
(* A dynamic loader: how it finds a definition and what it makes of a       *)
(* reference.  The rules for versions are those of glibc.                   *)

Read(part, i, default) == IF i \in DOMAIN out[part] THEN out[part][i] ELSE default

\* The entries of .dynamic up to the first null one.
Tags ==
  LET size == Total(sizes, "dynamic")
      at(i) == Read("dynamic", i, [tag |-> "NULL", value |-> 0])
      end == CHOOSE n \in 0..size : /\ n = size \/ at(n).tag = "NULL"
                                    /\ \A m \in 0..n - 1 : at(m).tag # "NULL"
  IN {at(i) : i \in 0..end - 1}

HasTag(tag) == \E t \in Tags : t.tag = tag
TagValue(tag) == (CHOOSE t \in Tags : t.tag = tag).value
Needed == {Read("dynstr", t.value, "?") : t \in {u \in Tags : u.tag = "NEEDED"}}

\* Follows next from record to record.
RECURSIVE Follow(_, _)
Follow(part, at) ==
  LET rec == Read(part, at, [next |-> 0])
  IN {at} \cup (IF rec.next = 0 THEN {} ELSE Follow(part, at + rec.next))

VersionDefs == IF HasTag("VERDEF") THEN Follow("verdef", 0) ELSE {}
VersionNeeds == IF HasTag("VERNEED") THEN Follow("verneed", 0) ELSE {}

\* The versions the loader knows by index: of this file, or of one it needs.
KnownVersions ==
  {[ix |-> out["verdef"][d].ix, file |-> "own",
    name |-> IF out["verdef"][d].base THEN "base"
             ELSE Read("dynstr", Read("verdef", d + VerdefUnits, [name |-> 0]).name, "?")] : d \in VersionDefs}
  \cup UNION {{[ix |-> Read("verneed", a, [other |-> 0]).other, file |-> Read("dynstr", out["verneed"][n].file, "?"),
                name |-> Read("dynstr", Read("verneed", a, [name |-> 0]).name, "?")] :
                 a \in Follow("verneed", n + 1)} : n \in VersionNeeds}

VersionOf(i) == IF HasTag("VERSYM") THEN Read("versym", i, [ix |-> 0, hidden |-> FALSE]) ELSE Global
VersionNames(i) == {v.name : v \in {k \in KnownVersions : k.ix = VersionOf(i).ix /\ k.name # "base"}}

\* A definition without a version answers every request that is not hidden.
Answers(i, version) ==
  \/ version \in VersionNames(i)
  \/ VersionNames(i) = {} /\ ~VersionOf(i).hidden

Defines(i, name) ==
  LET e == Read("dynsym", i, NullEntry) IN e.shndx # "undef" /\ Read("dynstr", e.name, "?") = name

RECURSIVE GnuChain(_, _)
GnuChain(h, i) ==
  {i} \cup (IF i - h.base + 1 \notin DOMAIN h.chains \/ h.chains[i - h.base + 1].end THEN {} ELSE GnuChain(h, i + 1))

GnuCandidates(name) ==
  LET h == out["gnuhash"]
      hash == Names[name].gnu
      first == h.buckets[hash % Cardinality(DOMAIN h.buckets)]
  IN IF ~(BloomBits(hash) \subseteq h.bloom) \/ first = 0 THEN {}
     ELSE {i \in GnuChain(h, first) : i - h.base + 1 \in DOMAIN h.chains /\ h.chains[i - h.base + 1].hash = hash \div 2}

RECURSIVE SysvChain(_, _)
SysvChain(h, i) == IF i = 0 \/ i \notin DOMAIN h.chains THEN {} ELSE {i} \cup SysvChain(h, h.chains[i])

SysvCandidates(name) ==
  LET h == out["hash"] IN SysvChain(h, h.buckets[Names[name].elf % Cardinality(DOMAIN h.buckets)])

\* What a lookup may find: of a version, or the default one when none is given.
Lookup(candidates, name, version) ==
  {Read("dynsym", i, NullEntry) : i \in {j \in candidates : /\ Defines(j, name)
     /\ IF version = "any" THEN VersionOf(j).ix <= 1 \/ ~VersionOf(j).hidden ELSE Answers(j, version)}}

\* What the output should export: visible definitions that were asked for, and
\* every name of data that is copied from a shared object.
CopiedData(k) == {SymAt(link, id).addr : id \in {i \in SymIds(link) : InFile(k, i) /\ SymAt(link, i).want = "copy"}}

Exported ==
  {id \in SymIds(link) :
     CASE FileOf(link, id).kind \in {"object", "script"} -> SymAt(link, id).want # "no" /\ CanExport(SymAt(link, id))
       [] FileOf(link, id).kind = "prelude" -> SymAt(link, id).place = "redirect" /\ SymAt(link, id).canon
       [] FileOf(link, id).kind = "dynamic" ->
            SymAt(link, id).canon /\ SymAt(link, id).addr \in CopiedData(<<id[1], id[2]>>)
       [] OTHER -> FALSE}

\* The version a definition is exported with, by name.
ExportVersion(id) ==
  LET sym == SymAt(link, id)
      own == FileOf(link, id).kind # "dynamic"
  IN CASE own /\ VersionCount(link) > 0 /\ sym.ver \notin {"none", ""} -> sym.ver
       [] own /\ VersionCount(link) > 0 /\ sym.ver = "none" /\ sym.matched > 1 -> link.versions[sym.matched].name
       [] OTHER -> "none"

\* Where the program has the symbol.
Meaning(id) ==
  LET sym == SymAt(link, id)
  IN CASE FileOf(link, id).kind = "dynamic" ->
            <<"bss", <<lay.addr[CHOOSE i \in CopySymbols(<<id[1], id[2]>>) : SymAt(link, i).addr = sym.addr][2][1]>>>>
       [] sym.type = "tls" -> <<"tls", id>>
       [] sym.place = "absolute" /\ FileOf(link, id).kind = "object" -> <<"raw", id>>
       [] sym.type = "ifunc" /\ link.kind = "exec" -> <<"plt", id>>
       [] OTHER -> <<"at", id>>

\* Definitions that a request may be answered with.  One with an empty version
\* is hidden but answers requests without a version.
Suitable(id, name, version) ==
  /\ SymAt(link, id).name = name
  /\ CASE version = "any" -> SymAt(link, id).dflt \/ ExportVersion(id) = "none"
       [] FileOf(link, id).kind = "dynamic" -> TRUE
       [] OTHER -> \/ ExportVersion(id) = version
                   \/ ExportVersion(id) = "none" /\ (SymAt(link, id).dflt \/ VersionCount(link) = 0)

Requestable == {"any"} \cup {link.versions[i].name : i \in 2..Len(link.versions)}

\* A loader that follows .dynamic to the hash tables of the output finds, for
\* every name and version, exactly the definitions that the link exports under
\* them, at their addresses; for names that are not exported it finds nothing.
LookupsFindDefinitions ==
  phase = "done" /\ needs_dynsym(link) =>
    \A name \in DOMAIN Names, version \in Requestable :
      LET right == {Meaning(id) : id \in {i \in Exported : Suitable(i, name, version)}}
          finds(c) == {e.value : e \in Lookup(c, name, version)} = right
      IN /\ HasTag("GNU_HASH") => finds(GnuCandidates(name))
         /\ HasTag("HASH") => finds(SysvCandidates(name))
         /\ right # {} => HasTag("GNU_HASH") \/ HasTag("HASH")

\* Every symbol that the output takes from a shared object is an undefined
\* dynamic symbol of that name whose version, read through .gnu.version_r, is the
\* one of the shared object's definition, of a file the output needs; a copied
\* one is relocated by the entry of its own name.
ReferencesNameTheirVersion ==
  phase = "done" =>
    /\ \A k \in SharedFiles(link) : FileOf(link, k).lib \in Needed
    /\ \A id \in SymIds(link) :
         FileOf(link, id).kind = "dynamic" /\ SymAt(link, id).want # "no" =>
           LET sym == SymAt(link, id)
               file == FileOf(link, id)
               i == lay.index[id]
               e == Read("dynsym", i, NullEntry)
               version == IF sym.v > 1 THEN {[ix |-> VersionOf(i).ix, file |-> file.lib, name |-> file.verdefs[sym.v].name]}
                          ELSE {}
           IN /\ Read("dynstr", e.name, "?") = sym.name
              /\ sym.want = "yes" /\ id \notin copied => e.shndx = "undef"
              /\ {v \in KnownVersions : v.ix = VersionOf(i).ix /\ v.name # "base"} = version
              /\ id \in copied =>
                   \E r \in {out["rela"][x] : x \in DOMAIN out["rela"]} :
                      r.at = Meaning(id) /\ Read("dynsym", r.sym, NullEntry).value = Meaning(id)
    /\ link.relr => \A k \in SharedFiles(link) : \A v \in 1..Len(FileOf(link, k).verdefs) :
         FileOf(link, k).verdefs[v].name = "GLIBC_ABI_DT_RELR" =>
           \E known \in KnownVersions : known.file = FileOf(link, k).lib /\ known.name = "GLIBC_ABI_DT_RELR"
    /\ HasTag("VERNEED") => TagValue("VERNEEDNUM") = Cardinality(VersionNeeds)
    /\ HasTag("VERDEF") => TagValue("VERDEFNUM") = Cardinality(VersionDefs)

\* The whole .symtab: local symbols, then the others.
Symtab(i) ==
  IF i < Total(sizes, "local") THEN Read("local", i, NullEntry)
  ELSE Read("global", i - Total(sizes, "local"), NullEntry)

\* The link fails only for a version that its script does not define or a --defsym
\* target that is missing.  When it does not fail, every slot that was allocated was
\* written, .symtab starts with the null symbol and has its local symbols
\* before the index in its header, and the index that the relocations of a partial
\* link use for a symbol is that symbol's.
TablesWrittenInFull ==
  /\ phase = "failed" =>
       \E id \in SymIds(link) : \/ VersionForSymbol(link, SymAt(link, id)) = -1
                                \/ /\ SymAt(link, id).place = "redirect"
                                   /\ TargetAttributes(link, SymAt(link, id).target)[1] = "missing"
  /\ phase = "done" =>
       /\ \A p \in {"dynsym", "dynstr", "versym", "dynamic", "local", "global", "strtab", "rela"} :
            DOMAIN out[p] = 0..Total(sizes, p) - 1
       /\ out["info"].symtab > 0 => Symtab(0) = NullEntry
       /\ \A i \in 0..Total(sizes, "local") + Total(sizes, "global") - 1 :
            (Symtab(i).bind = "local") <=> i < out["info"].symtab
       /\ link.partial => \A id \in DOMAIN lay.symtab :
            IF SymAt(link, id).type = "section" THEN Symtab(lay.symtab[id]).shndx = SymAt(link, id).sec
            ELSE Read("strtab", Symtab(lay.symtab[id]).name, [n |-> "?"]).n = SymAt(link, id).name
       /\ HasTag("HASH") => Total(sizes, "hash") =
            2 + Cardinality(DOMAIN out["hash"].buckets) + Cardinality(DOMAIN out["hash"].chains)
       /\ needs_dynamic(link) => TagValue("STRSZ") = Cardinality(DOMAIN out["dynstr"])
=============================================================================
