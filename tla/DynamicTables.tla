--------------------------- MODULE DynamicTables ---------------------------
(***************************************************************************)
(* The tables through which a dynamic loader and a debugger see an ELF     *)
(* output (libsld/src/elf.rs, layout.rs, elf_writer.rs): .dynsym, .dynstr, *)
(* .gnu.version*, .hash, .gnu.hash, .dynamic, copy relocations and         *)
(* .symtab.  Groups of files ask for exports and for symbols of shared     *)
(* objects in any order; sizes are then counted, indexes and offsets given *)
(* out, and every group writes its own slices of the tables.               *)
(*                                                                         *)
(* A string of a string table is one slot, .gnu.version_r has slots of 16  *)
(* bytes (Verneed and Vernaux are that long), .gnu.version_d slots of 4.   *)
(* An address is a tuple that says what is there.                          *)
(***************************************************************************)
EXTENDS Integers, Sequences, FiniteSets, TLC

CONSTANTS
  Links,       \* the links to check: see MCOutputTables for the fields
  Names,       \* name -> [gnu, elf, rank]: its two hashes and its place in the order of names
  ChunkSize    \* definitions written per task (10 or more in the code)

ASSUME ChunkAssumption == ChunkSize \in Nat \ {0}

VARIABLES
  link,        \* the link being run
  phase,
  pending,     \* requests that the traversal has not handled yet
  exports,     \* group -> its CommonGroupState::dynamic_symbol_definitions
  shared,      \* shared object -> [needed, copies]: its DynamicLayoutStateExt
  copied,      \* symbols with the COPY_RELOCATION flag
  order,       \* the merged and sorted dynamic symbol definitions
  sizes,       \* group -> part -> number of slots allocated
  lay,         \* indexes and offsets: see FinaliseLayout
  todo,        \* groups still to be written
  out          \* part -> slot -> what was written there

elfVars == <<link, phase, pending, exports, shared, copied, order, sizes, lay, todo, out>>

Parts == {"dynsym", "dynstr", "versym", "verneed", "verdef", "dynamic", "local", "global", "strtab",
          "rela", "bss", "gnuhash", "hash"}

\* F over the elements of seq from the left, one state after the other.
Thread(F(_, _), base, seq) ==
  LET f[n \in 0..Len(seq)] ==
        IF n = 0 THEN base ELSE CHOOSE r \in {F(c, seq[n]) : c \in {f[n - 1]}} : TRUE
  IN f[Len(seq)]

UpTo(n) == [i \in 1..n |-> i]

SymAt(l, id) == l.groups[id[1]][id[2]].syms[id[3]]
FileOf(l, id) == l.groups[id[1]][id[2]]
FileIds(l) == UNION {{<<g, f>> : f \in 1..Len(l.groups[g])} : g \in 1..Len(l.groups)}
SymIds(l) == UNION {{<<k[1], k[2], s>> : s \in 1..Len(FileOf(l, k).syms)} : k \in FileIds(l)}
SharedFiles(l) == {k \in FileIds(l) : FileOf(l, k).kind = "dynamic"}
InFile(k, id) == id[1] = k[1] /\ id[2] = k[2]

SharedOutput(l) == l.kind = "shared"
Executable(l) == l.kind \in {"pie", "exec", "static"}
needs_dynsym(l) == l.kind \in {"shared", "pie", "exec"}
needs_dynamic(l) == l.kind \in {"shared", "pie", "exec"}
should_output_symbol_versions(l) == l.kind \in {"shared", "pie", "exec"}

-----------------------------------------------------------------------------
(* Definitions *)

VersionCount(l) == IF Len(l.versions) = 1 THEN 0 ELSE Len(l.versions)
ParentCount(l) == Cardinality({i \in 1..Len(l.versions) : l.versions[i].parent # 0})

\* The version of a symbol: the one in its name, or the one its version script
\* gives it; 0 when there is none, -1 when the script does not define it.
VersionForSymbol(l, sym) ==
  IF sym.ver # "none"
  THEN IF sym.ver = "" THEN 1
       ELSE LET named == {i \in 1..Len(l.versions) : l.versions[i].name = sym.ver}
            IN IF named = {} THEN -1 ELSE CHOOSE i \in named : TRUE
  ELSE IF sym.matched = 1 THEN 0 ELSE sym.matched

CreateDefinition(l, id) ==
  LET sym == SymAt(l, id)
      v == IF VersionCount(l) > 0 THEN VersionForSymbol(l, sym) ELSE 0
  IN [id |-> id, name |-> sym.name,
      version |-> IF v = 0 THEN [ix |-> 1, hidden |-> FALSE] ELSE [ix |-> v, hidden |-> ~sym.dflt]]

CanExport(sym) ==
  /\ sym.place # "undefined"
  /\ sym.bind # "local"
  /\ ~sym.hidden
  /\ sym.canon
  /\ ~sym.down

-----------------------------------------------------------------------------
(* The traversal *)

\* ObjectLayoutState::export_dynamic and load_non_hidden_symbols; the symbols of
\* a linker script are exported when it is activated.
ExportDynamic(id) ==
  /\ phase = "load" /\ id \in pending
  /\ FileOf(link, id).kind \in {"object", "script"}
  /\ pending' = pending \ {id}
  /\ LET def == CreateDefinition(link, id)
         wanted == CanExport(SymAt(link, id)) /\ needs_dynsym(link)
     IN /\ exports' = IF wanted /\ def.version.ix # -1
                      THEN [exports EXCEPT ![id[1]] = Append(@, def)] ELSE exports
        /\ phase' = IF wanted /\ def.version.ix = -1 THEN "failed" ELSE phase
  /\ UNCHANGED <<link, shared, copied, order, sizes, lay, todo, out>>

\* Versions 0 and 1 are local and global.
MarkVersionAsNeeded(needed, v) == IF v > 1 THEN needed \cup {v} ELSE needed

AddSymbol(info, id, weak) ==
  IF info.id = id \/ weak THEN info ELSE [id |-> id, weak |-> FALSE]

\* copy_relocate_symbol: one copy per address, for the first symbol asked for or
\* for one that is not weak.
CopyRelocate(copies, id, sym) ==
  LET first == IF sym.addr \in DOMAIN copies THEN copies[sym.addr] ELSE [id |-> id, weak |-> sym.weak]
  IN [a \in DOMAIN copies \cup {sym.addr} |->
        IF a = sym.addr THEN AddSymbol(first, id, sym.weak) ELSE copies[a]]

\* A symbol of a shared object is used, directly or through a copy.
UseDynamicSymbol(id) ==
  /\ phase = "load" /\ id \in pending
  /\ FileOf(link, id).kind = "dynamic"
  /\ pending' = pending \ {id}
  /\ LET k == <<id[1], id[2]>>
         sym == SymAt(link, id)
     IN /\ shared' = [shared EXCEPT
              ![k].needed = MarkVersionAsNeeded(@, sym.v),
              ![k].copies = IF sym.want = "copy" THEN CopyRelocate(@, id, sym) ELSE @]
        /\ copied' = IF sym.want = "copy" THEN copied \cup {id} ELSE copied
  /\ UNCHANGED <<link, phase, exports, order, sizes, lay, todo, out>>

\* load_glibc_abi_dt_relr_version.
GlibcAbiVersions(l, sh) ==
  [k \in DOMAIN sh |->
     LET marks == {id \in SymIds(l) : l.relr /\ InFile(k, id) /\ SymAt(l, id).name = "GLIBC_ABI_DT_RELR"}
     IN [sh[k] EXCEPT !.needed = @ \cup UNION {MarkVersionAsNeeded({}, SymAt(l, id).v) : id \in marks}]]

\* select_copy_relocation_alternatives over the symbols of one shared object:
\* every symbol at a copied address is exported, and a weak choice replaced.
SelectAlternatives(l, st, k) ==
  Thread(LAMBDA c, n :
    LET id == <<k[1], k[2], n>>
        sym == SymAt(l, id)
        copies == c.shared[k].copies
    IN IF sym.addr \notin DOMAIN copies \/ ~sym.canon THEN c
       ELSE [c EXCEPT
              !.exports[k[1]] = Append(@, CreateDefinition(l, id)),
              !.copied = @ \cup {id},
              !.shared[k].copies[sym.addr] =
                IF sym.weak \/ ~@.weak \/ @.id = id THEN @ ELSE [id |-> id, weak |-> FALSE]],
    st, UpTo(Len(FileOf(l, k).syms)))

FinaliseCopyRelocations(l, st) ==
  Thread(LAMBDA c, g : Thread(LAMBDA d, f :
           IF <<g, f>> \in SharedFiles(l) /\ d.shared[<<g, f>>].copies # <<>>
           THEN SelectAlternatives(l, d, <<g, f>>) ELSE d,
         c, UpTo(Len(l.groups[g]))),
    st, UpTo(Len(l.groups)))

\* append_prelude_defsym_dynamic_symbols: the --defsym symbols that name another.
PreludeDefsyms(l, defs) ==
  Thread(LAMBDA c, n :
    LET id == <<1, 1, n>>
        sym == SymAt(l, id)
    IN IF sym.place = "redirect" /\ sym.canon /\ ~\E i \in 1..Len(c) : c[i].id = id
       THEN Append(c, CreateDefinition(l, id)) ELSE c,
    defs, IF needs_dynsym(l) THEN UpTo(Len(l.groups[1][1].syms)) ELSE <<>>)

MergeDefinitions(l, ex) ==
  PreludeDefsyms(l, Thread(LAMBDA c, g : c \o ex[g], <<>>, UpTo(Len(l.groups))))

RECURSIVE NextPowerOfTwo(_)
NextPowerOfTwo(n) == IF n <= 1 THEN 1 ELSE 2 * NextPowerOfTwo((n + 1) \div 2)

GnuStyle(l) == l.hash \in {"gnu", "both"} /\ needs_dynamic(l)
SysvStyle(l) == l.hash \in {"sysv", "both"}
GnuBucketCount(n) == NextPowerOfTwo(n \div 2)
BucketForHash(n, name) == Names[name].gnu % GnuBucketCount(n)

\* Mutant: in the order of names alone.
SortKeyByName(n, def) == <<0, Names[def.name].rank>>

SortKey(n, def) == <<BucketForHash(n, def.name), Names[def.name].rank>>

KeyLeq(a, b) == a[1] < b[1] \/ (a[1] = b[1] /\ a[2] <= b[2])

\* The orders par_sort_unstable_by_key may leave the definitions in.
Sorted(l, defs) ==
  LET n == Len(defs)
      perms == {p \in [1..n -> 1..n] : \A i, j \in 1..n : i < j => p[i] # p[j]}
  IN IF ~GnuStyle(l) THEN {defs}
     ELSE {[i \in 1..n |-> defs[p[i]]] :
             p \in {q \in perms : \A i \in 1..n - 1 : KeyLeq(SortKey(n, defs[q[i]]), SortKey(n, defs[q[i + 1]]))}}

\* The end of the traversal and what follows it before sizes are counted: the
\* version RELR asks for, copy relocations, and the merged definitions.
MergeExports ==
  /\ phase = "load" /\ pending = {}
  /\ LET relr == GlibcAbiVersions(link, shared)
         st == FinaliseCopyRelocations(link, [exports |-> exports, shared |-> relr, copied |-> copied])
         defs == MergeDefinitions(link, st.exports)
     IN /\ exports' = st.exports /\ shared' = st.shared /\ copied' = st.copied
        /\ order' \in Sorted(link, defs)
        /\ phase' = IF \E i \in 1..Len(defs) : defs[i].version.ix = -1 THEN "failed" ELSE "size"
  /\ UNCHANGED <<link, pending, sizes, lay, todo, out>>

-----------------------------------------------------------------------------
(* Sizes *)

Inc(c, part, n) == [c EXCEPT ![part] = @ + n]

\* SymbolCopyInfo::new: the symbols of an object that .symtab gets.
CopiedToSymtab(l, sym) ==
  /\ sym.canon /\ sym.place \notin {"undefined", "discarded"}
  /\ sym.name # "" /\ ~sym.strip

PartialUndefined(l, sym) ==
  l.partial /\ sym.place = "undefined" /\ sym.canon /\ sym.name # ""

SymtabLocal(sym) == sym.bind = "local" \/ sym.down

\* Mutant: symbols that were made local count as global.
SymtabPartByBinding(sym) == IF sym.bind = "local" THEN "local" ELSE "global"

SymtabPart(sym) == IF SymtabLocal(sym) THEN "local" ELSE "global"

AllocateObjectSymtab(l, c, k) ==
  IF l.stripAll THEN c
  ELSE Thread(LAMBDA d, n :
         LET sym == FileOf(l, k).syms[n]
         IN CASE CopiedToSymtab(l, sym) -> Inc(Inc(d, SymtabPart(sym), 1), "strtab", 1)
              [] PartialUndefined(l, sym) -> Inc(Inc(d, "global", 1), "strtab", 1)
              [] OTHER -> d,
         c, UpTo(Len(FileOf(l, k).syms)))

HasResolution(id) == SymAt(link, id).want # "no" \/ id \in copied

AllocateInternalSymbols(l, c, k) ==
  Thread(LAMBDA d, n :
    LET sym == FileOf(l, k).syms[n]
    IN IF sym.canon /\ HasResolution(<<k[1], k[2], n>>)
       THEN Inc(Inc(d, IF sym.hidden THEN "local" ELSE "global", 1), "strtab", 1) ELSE d,
    c, UpTo(Len(FileOf(l, k).syms)))

SectionSymbols(l) == IF l.partial THEN Len(l.sections) ELSE 0

\* The null symbols, symbols for sections and the prelude's own symbols.
AllocatePrelude(l, c, k) ==
  LET null == IF l.stripAll THEN c ELSE Inc(Inc(c, "local", 1 + SectionSymbols(l)), "strtab", 1 + SectionSymbols(l))
      dyn == IF needs_dynsym(l) THEN Inc(Inc(null, "dynstr", 1), "dynsym", 1) ELSE null
  IN IF l.stripAll THEN dyn ELSE AllocateInternalSymbols(l, dyn, k)

AllocateCopies(c, k) ==
  LET n == Cardinality(DOMAIN shared[k].copies) IN Inc(Inc(c, "bss", n), "rela", n)

\* Versions of a shared object that the output refers to, in the order of its
\* definitions; the base version is the record itself.
NeededVersions(l, k) == {v \in shared[k].needed : ~FileOf(l, k).verdefs[v].base}
HasBase(l, k) == \E v \in 1..Len(FileOf(l, k).verdefs) : FileOf(l, k).verdefs[v].base

AllocateVerneed(l, c, k) ==
  LET n == Cardinality(NeededVersions(l, k))
  IN IF n = 0 THEN c ELSE Inc(Inc(c, "dynstr", n + (IF HasBase(l, k) THEN 1 ELSE 0)), "verneed", 1 + n)

AllocateSymbol(c, id) ==
  IF ~SymAt(link, id).canon \/ ~HasResolution(id) THEN c
  ELSE IF id \in copied THEN Inc(Inc(c, "global", 1), "strtab", 1)
  ELSE Inc(Inc(c, "dynstr", 1), "dynsym", 1)

AllocateDynamic(l, c, k) ==
  LET named == Inc(Inc(c, "dynamic", 1), "dynstr", 1)
      sized == AllocateVerneed(l, AllocateCopies(named, k), k)
  IN Thread(LAMBDA d, n : AllocateSymbol(d, <<k[1], k[2], n>>), sized, UpTo(Len(FileOf(l, k).syms)))

VerdefUnits == 5
VerdauxUnits == 2

\* The entries of EPILOGUE_DYNAMIC_ENTRY_WRITERS, in their order.
EpilogueTags ==
  <<"INIT", "FINI", "INIT_ARRAY", "INIT_ARRAYSZ", "FINI_ARRAY", "FINI_ARRAYSZ", "PREINIT_ARRAY",
    "PREINIT_ARRAYSZ", "STRTAB", "STRSZ", "SYMTAB", "SYMENT", "VERDEF", "VERDEFNUM", "VERNEED",
    "VERNEEDNUM", "VERSYM", "DEBUG", "JMPREL", "PLTGOT", "PLTREL", "PLTRELSZ", "RELA", "RELASZ",
    "RELAENT", "RELACOUNT", "RELR", "RELRSZ", "RELRENT", "ANDROID_RELR", "ANDROID_RELRSZ",
    "ANDROID_RELRENT", "HASH", "GNU_HASH", "FLAGS", "FLAGS_1", "BIND_NOW", "SYMBOLIC", "TEXTREL",
    "AARCH64_VARIANT_PCS", "RISCV_VARIANT_CC", "NULL">>

NumEpilogueEntries == Len(EpilogueTags)

AllocateGnuHash(l, c) ==
  IF GnuStyle(l) THEN Inc(c, "gnuhash", 4 + 2 + GnuBucketCount(Len(order)) + Len(order)) ELSE c

AllocateVerdefs(l, c) ==
  IF VersionCount(l) = 0 THEN c
  ELSE Inc(Inc(c, "dynstr", VersionCount(l) - (IF l.soname THEN 1 ELSE 0)),
           "verdef", VerdefUnits * VersionCount(l) + VerdauxUnits * (VersionCount(l) + ParentCount(l)))

AllocateEpilogue(l, c) ==
  LET named == (IF l.rpath THEN 1 ELSE 0) + (IF l.soname THEN 1 ELSE 0) + Len(l.auxiliary)
      dyn == IF needs_dynamic(l)
             THEN Inc(Inc(Inc(c, "dynamic", NumEpilogueEntries + named),
                          "dynstr", named + Len(order)), "dynsym", Len(order))
             ELSE c
  IN AllocateVerdefs(l, AllocateGnuHash(l, dyn))

\* Sets the size of .gnu.version from that of .dynsym, after every file.
FinaliseGnuVersion(l, c) == IF should_output_symbol_versions(l) THEN [c EXCEPT !["versym"] = c["dynsym"]] ELSE c

AllocateFile(l, c, k) ==
  LET kind == FileOf(l, k).kind
  IN FinaliseGnuVersion(l,
       CASE kind = "prelude" -> AllocatePrelude(l, c, k)
         [] kind = "object" -> AllocateObjectSymtab(l, c, k)
         [] kind = "script" -> AllocateInternalSymbols(l, c, k)
         [] kind = "dynamic" -> AllocateDynamic(l, c, k)
         [] kind = "epilogue" -> AllocateEpilogue(l, c))

GroupSizes(l, g) ==
  Thread(LAMBDA c, f : AllocateFile(l, c, <<g, f>>), [p \in Parts |-> 0], UpTo(Len(l.groups[g])))

ValidSizes(c) == c["versym"] > 0 => c["versym"] = c["dynsym"]

FinaliseAllSizes ==
  /\ phase = "size"
  /\ LET s == [g \in 1..Len(link.groups) |-> GroupSizes(link, g)]
     IN /\ sizes' = s
        /\ phase' = IF \A g \in DOMAIN s : ValidSizes(s[g]) THEN "index" ELSE "failed"
  /\ UNCHANGED <<link, pending, exports, shared, copied, order, lay, todo, out>>

-----------------------------------------------------------------------------
(* Indexes and offsets *)

AllFiles(l) == Thread(LAMBDA c, g : c \o [f \in 1..Len(l.groups[g]) |-> <<g, f>>], <<>>, UpTo(Len(l.groups)))

FirstVersionR(l) == 1 + (IF VersionCount(l) > 1 THEN VersionCount(l) ELSE 1)

\* apply_non_addressable_indexes: the first version index of every shared
\* object, and how many version records there are.
VersionIndexes(l) ==
  Thread(LAMBDA c, k :
    CASE FileOf(l, k).kind = "dynamic" ->
           LET n == Cardinality(NeededVersions(l, k))
           IN [first |-> [x \in DOMAIN c.first \cup {k} |-> IF x = k THEN c.next ELSE c.first[x]],
               next |-> c.next + n, need |-> c.need + (IF n > 0 THEN 1 ELSE 0), def |-> c.def]
      [] FileOf(l, k).kind = "epilogue" -> [c EXCEPT !.def = @ + VersionCount(l)]
      [] OTHER -> c,
    [first |-> <<>>, next |-> FirstVersionR(l), need |-> 0, def |-> 0], AllFiles(l))

\* No version is used: .gnu.version is dropped.
DropVersym(l, v, s) ==
  IF v.need = 0 /\ v.def = 0 /\ should_output_symbol_versions(l)
  THEN [g \in DOMAIN s |-> [s[g] EXCEPT !["versym"] = 0]] ELSE s

SysvBucketCount(n) == NextPowerOfTwo(IF n \div 2 > 1 THEN n \div 2 ELSE 1)

RECURSIVE SumOver(_, _, _)
SumOver(s, part, g) == IF g = 0 THEN 0 ELSE s[g][part] + SumOver(s, part, g - 1)

Total(s, part) == SumOver(s, part, Len(s))

\* allocate_sysv_hash, once the number of dynamic symbols is known.
SysvLayout(l, s) ==
  IF SysvStyle(l) /\ Len(order) > 0
  THEN [buckets |-> SysvBucketCount(Len(order)), chains |-> Total(s, "dynsym")]
  ELSE [buckets |-> 0, chains |-> 0]

WithSysv(l, s) ==
  LET h == SysvLayout(l, s)
  IN IF h.buckets = 0 THEN s
     ELSE [s EXCEPT ![Len(s)] = Inc(@, "hash", 2 + h.buckets + h.chains)]

ApplyIndexes ==
  /\ phase = "index"
  /\ LET v == VersionIndexes(link)
         s == WithSysv(link, DropVersym(link, v, sizes))
     IN /\ sizes' = s
        /\ lay' = [lay EXCEPT !.versions = v, !.sysv = SysvLayout(link, s)]
  /\ phase' = "offset"
  /\ UNCHANGED <<link, pending, exports, shared, copied, order, todo, out>>

Starts(s) == [g \in 1..Len(s) |-> [p \in Parts |-> SumOver(s, p, g - 1)]]

\* Mutant: numbers every version of the input, needed or not.
VersionMappingSparse(l, k, first) ==
  [v \in 1..Len(FileOf(l, k).verdefs) |-> IF v \in shared[k].needed THEN first + v - 2 ELSE 1]

\* compute_version_mapping: versions of the input to versions of the output.
VersionMapping(l, k, first) ==
  [v \in 1..Len(FileOf(l, k).verdefs) |->
     IF v \in shared[k].needed THEN first + Cardinality({w \in shared[k].needed : w < v}) ELSE 1]

CopySymbols(k) == {shared[k].copies[a].id : a \in DOMAIN shared[k].copies}

\* assign_copy_relocation_addresses: in the order of symbol ids.
CopyAddress(k, addr, start) ==
  LET mine == shared[k].copies[addr].id
  IN start + Cardinality({id \in CopySymbols(k) : id[3] < mine[3]})

\* One shared object: indexes for the symbols it leaves undefined, addresses for
\* the ones copied, and whether its Verneed is the section's last.
LayoutDynamic(l, c, k) ==
  LET n == Cardinality(NeededVersions(l, k))
      need == c.at["verneed"] + (IF n > 0 THEN 1 + n ELSE 0)
      step(d, s) ==
        LET id == <<k[1], k[2], s>>
        IN IF ~HasResolution(id) THEN d
           ELSE IF id \in copied
           THEN [d EXCEPT !.addr = @ @@ (id :> <<"bss", <<CopyAddress(k, SymAt(l, id).addr, c.at["bss"])>>>>)]
           ELSE [d EXCEPT !.index = @ @@ (id :> d.at["dynsym"]), !.at["dynsym"] = @ + 1]
      all == Thread(step, c, UpTo(Len(FileOf(l, k).syms)))
  IN [all EXCEPT !.at["verneed"] = need,
                 !.at["bss"] = @ + Cardinality(CopySymbols(k)),
                 !.last = IF n > 0 /\ need = Total(sizes, "verneed") THEN @ \cup {k} ELSE @,
                 !.mapping = @ @@ (k :> VersionMapping(l, k, lay.versions.first[k]))]

\* The epilogue's definitions follow everything else in .dynsym.
LayoutEpilogue(l, c) ==
  [c EXCEPT !.base = c.at["dynsym"], !.at["dynsym"] = @ + Len(order)]

LayoutFile(l, c, k) ==
  CASE FileOf(l, k).kind = "prelude" -> IF needs_dynsym(l) THEN [c EXCEPT !.at["dynsym"] = @ + 1] ELSE c
    [] FileOf(l, k).kind = "dynamic" -> LayoutDynamic(l, c, k)
    [] FileOf(l, k).kind = "epilogue" -> LayoutEpilogue(l, c)
    [] OTHER -> c

NoLayout == [versions |-> <<>>, sysv |-> [buckets |-> 0, chains |-> 0], index |-> <<>>, addr |-> <<>>,
             mapping |-> <<>>, last |-> {}, base |-> 0, starts |-> <<>>, symtab |-> <<>>]

\* update_dynamic_symbol_resolutions.
DefinitionIndexes(base) == [i \in {order[n].id : n \in 1..Len(order)} |->
  base + (CHOOSE n \in 1..Len(order) : order[n].id = i) - 1]

\* build_sym_index_map: where the symbols of a partial link will be in .symtab;
\* the undefined ones of an object follow its definitions.
SymIndexMap(l, starts) ==
  LET step(c, id) ==
        LET sym == SymAt(l, id)
        IN CASE sym.type = "section" ->
                  [c EXCEPT !.map = @ @@ (id :> CHOOSE n \in 1..Len(l.sections) : l.sections[n] = sym.sec)]
             [] CopiedToSymtab(l, sym) /\ SymtabLocal(sym) ->
                  [c EXCEPT !.map = @ @@ (id :> c.local), !.local = @ + 1]
             [] CopiedToSymtab(l, sym) /\ ~SymtabLocal(sym) ->
                  [c EXCEPT !.map = @ @@ (id :> c.global), !.global = @ + 1]
             [] OTHER -> c
      undef(c, id) ==
        IF PartialUndefined(l, SymAt(l, id))
        THEN [c EXCEPT !.map = @ @@ (id :> c.global), !.global = @ + 1] ELSE c
      file(c, k) ==
        LET ids == [n \in 1..Len(FileOf(l, k).syms) |-> <<k[1], k[2], n>>]
        IN IF FileOf(l, k).kind # "object" THEN c ELSE Thread(undef, Thread(step, c, ids), ids)
      group(c, g) ==
        Thread(file, [map |-> c.map, local |-> starts[g]["local"],
                      global |-> Total(sizes, "local") + starts[g]["global"]],
               [f \in 1..Len(l.groups[g]) |-> <<g, f>>])
  IN IF l.partial THEN Thread(group, [map |-> <<>>, local |-> 0, global |-> 0], UpTo(Len(l.groups))).map
     ELSE <<>>

FinaliseLayout ==
  /\ phase = "offset"
  /\ LET starts == Starts(sizes)
         run == Thread(LAMBDA c, k : LayoutFile(link, [c EXCEPT !.at = IF k[2] = 1 THEN starts[k[1]] ELSE @], k),
                       [lay EXCEPT !.starts = starts] @@ [at |-> starts[1]], AllFiles(link))
     IN lay' = [f \in DOMAIN lay |->
                  CASE f = "index" -> run.index @@ DefinitionIndexes(run.base)
                    [] f = "symtab" -> SymIndexMap(link, starts)
                    [] OTHER -> run[f]]
  /\ phase' = "write" /\ todo' = 1..Len(link.groups)
  /\ UNCHANGED <<link, pending, exports, shared, copied, order, sizes, out>>
=============================================================================
