----------------------------- MODULE Allocation -----------------------------
(***************************************************************************)
(* Entries of the GOT, the PLT and the dynamic relocation tables of an ELF *)
(* output, which are decided on three times (libsld/src/elf.rs, layout.rs, *)
(* elf_writer.rs, elf_x86_64.rs):                                          *)
(*                                                                         *)
(*   1. while references are scanned in parallel, each adds what it needs  *)
(*      to the flags of its symbol, and space for its own relocation to    *)
(*      the sizes of its group (process_relocation); the flags then say    *)
(*      how much space the symbol gets (allocate_resolution);              *)
(*   2. addresses are given out from the flags (create_resolution);        *)
(*   3. the writer takes entries from the front of what its group was      *)
(*      given, as the flags tell it once more (process_resolution,         *)
(*      write_absolute_relocation), and checks that nothing is left        *)
(*      (validate_empty).                                                  *)
(*                                                                         *)
(* What is abstracted: a table is a number of entries; an entry is the     *)
(* link-time value in it and the dynamic relocation for it.  Relocations   *)
(* are those of x86-64, instructions are of the forms that can be relaxed  *)
(* (or, for GOTPCREL, not), a section is text, read-only or writable data, *)
(* or writable data without alignment that comes to lie at an odd address. *)
(* A reference has the visibility of the definition, and no two symbols of *)
(* a shared object have the same address.  Partial links (-r), relocations *)
(* in sections that are not loaded and the padding that incremental links  *)
(* keep in .rela.dyn are left out.                                         *)
(***************************************************************************)
EXTENDS Naturals, Sequences, FiniteSets

CONSTANTS
    NumSymbols,
    Home,       \* [Symbol -> Group]: the group with the file of the definition
    Link,       \* the links considered, see LinkInput
    MaxRefs     \* bound: relocations in a link

\* Symbols in the order of their ids; the prelude is the first group, the references are in
\* an object of the last one.
Symbol == 1 .. NumSymbols
Group == 0 .. 2
Prelude == 0
Referrer == 2

\* OutputKind without partial objects; a relocation model is part of the name.
Kind == {"StaticExe", "StaticPie", "DynamicExe", "DynamicPie", "SharedObject"}
IsExecutable(k) == k # "SharedObject"
IsStatic(k) == k \in {"StaticExe", "StaticPie"}
IsRelocatable(k) == k \in {"StaticPie", "DynamicPie", "SharedObject"}
NeedsDynsym(k) == k # "StaticExe"

\* What the input says of a symbol: the file that defines it is an object or a shared object,
\* or none does and the references to it are weak.
Nature == [from : {"object", "shared", "undefined"},
           type : {"data", "func", "ifunc", "tls", "absolute"},
           vis : {"default", "protected", "hidden"}]

\* A link: output kind, -z pack-relative-relocs, --relax, the symbols, which of them are the
\* entry point or the target of a --defsym, and which are exported although the output is an
\* executable (--export-dynamic, or a shared object refers to them).
LinkInput == [kind : Kind, relr : BOOLEAN, relax : BOOLEAN, sym : [Symbol -> Nature],
              marked : SUBSET Symbol, exported : SUBSET Symbol]

\* A relocation: its type, its symbol, the section it is in and whether its offset in that
\* section is even.  "packed" is a writable section of alignment 1 that layout puts at an odd
\* address, the other sections are at even ones.
RelType == {"64", "PC32", "PLT32", "GOTPCREL", "REX_GOTPCRELX",
            "TLSGD", "TLSLD", "GOTTPOFF", "TLSDESC"}
Reference == [type : RelType, sym : Symbol, sec : {"text", "rodata", "data", "packed"},
              even : BOOLEAN]

Part == {"GOT", "PLT_GOT", "RELA_PLT", "RELA_DYN_GENERAL", "RELA_DYN_RELATIVE", "RELR_DYN"}

ASSUME SymbolsAssumption ==
    /\ NumSymbols \in Nat \ {0} /\ MaxRefs \in Nat
    /\ Home \in [Symbol -> Group \ {Prelude}]
    /\ \A s, t \in Symbol : s < t => Home[s] <= Home[t]

ASSUME LinkAssumption ==
    \A l \in Link :
        /\ l \in LinkInput
        /\ \A s \in Symbol :
             /\ l.sym[s].from = "shared" =>
                    ~IsStatic(l.kind) /\ l.sym[s].vis = "default" /\ l.sym[s].type # "ifunc"
             /\ l.sym[s].from = "undefined" => l.sym[s].type \in {"func", "tls"}
        /\ l.exported # {} => NeedsDynsym(l.kind)

VARIABLES
    link,      \* what is linked
    flags,     \* per_symbol_flags of the definitions
    defs,      \* symbols in dynamic_symbol_definitions
    refs,      \* relocations that were scanned
    usesTlsld, \* uses_tlsld
    sizes,     \* mem_sizes of each group, in entries
    got,       \* got_address of each resolution, as the number of an entry; 0 for None
    plt,       \* whether a resolution has a plt_address
    entry,     \* the GOT entries that were written
    left,      \* what a group's writer has left of each table
    todo,      \* relocations still to be applied
    word,      \* what the places of absolute relocations hold
    next,      \* the symbol whose resolution is to be written next
    phase

vars == <<link, flags, defs, refs, usesTlsld, sizes, got, plt, entry, left, todo, word, next,
          phase>>

kind == link.kind
Sym == link.sym

-----------------------------------------------------------------------------
(* ValueFlags *)

StaticFlag == {"ABSOLUTE", "DYNAMIC", "IFUNC", "NON_INTERPOSABLE", "FUNCTION"}
ResolutionFlag == {"DIRECT", "GOT", "PLT", "GOT_TLS_MODULE", "GOT_TLS_OFFSET",
                   "GOT_TLS_DESCRIPTOR", "EXPORT_DYNAMIC", "COPY_RELOCATION",
                   "IFUNC_GOT_FOR_ADDRESS"}
TlsFlag == {"GOT_TLS_MODULE", "GOT_TLS_OFFSET", "GOT_TLS_DESCRIPTOR"}

IsDynamic(f) == "DYNAMIC" \in f
IsIfunc(f) == "IFUNC" \in f
IsAbsolute(f) == "ABSOLUTE" \in f
IsInterposable(f) == "NON_INTERPOSABLE" \notin f
IsAddress(f) == f \cap {"IFUNC", "DYNAMIC", "ABSOLUTE"} = {}
IsTls(f) == f \cap TlsFlag # {}
HasResolution(f) == f \cap ResolutionFlag # {}
HasDynamicSymbol(f) == IsDynamic(f) \/ ("EXPORT_DYNAMIC" \in f /\ IsInterposable(f))

\* compute_value_flags of an object and is_symbol_non_interposable, without -Bsymbolic and
\* export lists.
ObjectFlags(k, n) ==
    (CASE n.type = "absolute" \/ n.from = "undefined" -> {"ABSOLUTE"}
       [] n.type = "ifunc" -> {"IFUNC"}
       [] OTHER -> {})
    \cup (IF n.vis # "default" \/ IsStatic(k) \/ (n.from = "object" /\ IsExecutable(k))
          THEN {"NON_INTERPOSABLE"} ELSE {})

\* canonicalise_undefined_symbols, for a weak reference.
UndefinedFlags(k, n) ==
    IF n.vis = "default" /\ ~IsStatic(k) THEN {"DYNAMIC"} ELSE {"NON_INTERPOSABLE"}

\* compute_value_flags of a shared object.
SharedFlags(n) == {"DYNAMIC"} \cup (IF n.type = "func" THEN {"FUNCTION"} ELSE {})

InitialFlags(k, n) ==
    CASE n.from = "object" -> ObjectFlags(k, n)
      [] n.from = "undefined" -> ObjectFlags(k, n) \cup UndefinedFlags(k, n)
      [] n.from = "shared" -> SharedFlags(n)

-----------------------------------------------------------------------------
(* Relocations *)

\* relocation_from_raw: the RelocationKind of each type.
RawKind(type) ==
    CASE type = "64" -> "Absolute"
      [] type = "PC32" -> "Relative"
      [] type = "PLT32" -> "PltRelative"
      [] type \in {"GOTPCREL", "REX_GOTPCRELX"} -> "GotRelative"
      [] type = "TLSGD" -> "TlsGd"
      [] type = "TLSLD" -> "TlsLd"
      [] type = "GOTTPOFF" -> "GotTpOff"
      [] type = "TLSDESC" -> "TlsDesc"

\* new_relaxation: the kind a relocation in text can be changed to, and whether that is done
\* without --relax; None if there is no such relaxation.
Relaxation(k, f, type) ==
    LET to(kd, mandatory) == {[kind |-> kd, mandatory |-> mandatory]}
        fixed == (IsAbsolute(f) /\ ~IsDynamic(f)) \/ (IsAddress(f) /\ ~IsRelocatable(k))
    IN  CASE type = "REX_GOTPCRELX" /\ fixed -> to("Absolute", IsStatic(k))
          [] type = "REX_GOTPCRELX" /\ ~fixed /\ ~IsInterposable(f) -> to("Relative", IsStatic(k))
          [] type = "PLT32" /\ ~IsInterposable(f) -> to("Relative", IsStatic(k))
          [] type = "GOTTPOFF" /\ IsExecutable(k) /\ ~IsInterposable(f) -> to("TpOff", FALSE)
          [] type = "TLSGD" /\ IsExecutable(k) ->
               IF IsInterposable(f) THEN to("GotTpOff", FALSE) ELSE to("TpOff", IsStatic(k))
          [] type = "TLSLD" /\ IsExecutable(k) -> to("None", IsStatic(k))
          [] type = "TLSDESC" /\ IsExecutable(k) ->
               to(IF IsInterposable(f) THEN "GotTpOff" ELSE "TpOff", IsStatic(k))
          [] OTHER -> {}

\* The kind a relocation is processed as, in the scan and in the writer.
RelKind(r, f) ==
    IF IsIfunc(f) THEN IF r.type = "PC32" THEN "PltRelative" ELSE RawKind(r.type)
    ELSE LET relaxed == {x \in Relaxation(kind, f, r.type) :
                            r.sec = "text" /\ (link.relax \/ x.mandatory)}
         IN  IF relaxed = {} THEN RawKind(r.type) ELSE (CHOOSE x \in relaxed : TRUE).kind

\* resolution_flags
NeededFlags(kd) ==
    CASE kd = "PltRelative" -> {"PLT", "GOT"}
      [] kd = "GotRelative" -> {"GOT"}
      [] kd = "GotTpOff" -> {"GOT_TLS_OFFSET"}
      [] kd = "TlsGd" -> {"GOT_TLS_MODULE"}
      [] kd = "TlsDesc" -> {"GOT_TLS_DESCRIPTOR"}
      [] kd \in {"Absolute", "Relative", "TpOff"} -> {"DIRECT"}
      [] kd \in {"TlsLd", "None"} -> {}

IsTlsKind(kd) == kd \in {"TlsGd", "TlsLd", "GotTpOff", "TlsDesc", "TpOff"}

-----------------------------------------------------------------------------
(* Scanning *)

Nothing == [p \in Part |-> 0]
One(p) == [Nothing EXCEPT ![p] = 1]
Plus(a, b) == [p \in Part |-> a[p] + b[p]]
RelativePart(even) == IF link.relr /\ even THEN "RELR_DYN" ELSE "RELA_DYN_RELATIVE"

Writable(r) == r.sec \in {"data", "packed"}

\* Copy relocations are disallowed for shared objects.
CopyAllowed == IsExecutable(kind)

DirectInterposable(r, f, kd) == "DIRECT" \in NeededFlags(kd) /\ IsInterposable(f)

\* The conditions under which process_relocation gives up: a direct reference that needs a copy
\* relocation, or a relative relocation in a read-only section.
Bails(r, f, kd) ==
    /\ ~IsTlsKind(kd) /\ ~Writable(r)
    /\ IF DirectInterposable(r, f, kd)
       THEN "FUNCTION" \notin f /\ ~IsAbsolute(f) /\ ~CopyAllowed
       ELSE IsRelocatable(kind) /\ kd = "Absolute" /\ IsAddress(f)

\* Mutant: the parity of the offset is ignored.
AllocatedForAnyOffset(r, f, kd) ==
    IF IsTlsKind(kd) \/ ~Writable(r) THEN Nothing
    ELSE IF DirectInterposable(r, f, kd) THEN One("RELA_DYN_GENERAL")
    ELSE IF kd # "Absolute" \/ ~IsRelocatable(kind) THEN Nothing
    ELSE IF IsIfunc(f) THEN One("RELA_DYN_GENERAL")
    ELSE IF IsAddress(f) THEN One(RelativePart(TRUE))
    ELSE Nothing

\* What process_relocation allocates for the relocation itself.
AllocatedForRelocation(r, f, kd) ==
    IF IsTlsKind(kd) \/ ~Writable(r) THEN Nothing
    ELSE IF DirectInterposable(r, f, kd) THEN One("RELA_DYN_GENERAL")
    ELSE IF kd # "Absolute" \/ ~IsRelocatable(kind) THEN Nothing
    ELSE IF IsIfunc(f) THEN One("RELA_DYN_GENERAL")
    ELSE IF IsAddress(f) THEN One(RelativePart(r.even))
    ELSE Nothing

\* Mutant: the GOT entry of an ifunc is not duplicated for references that take its address.
FlagsWithoutIfuncGot(r, f, kd) ==
    LET needed == NeededFlags(kd)
        viaPlt == ~IsTlsKind(kd) /\ DirectInterposable(r, f, kd) /\ ~Writable(r)
    IN  (IF viaPlt /\ "FUNCTION" \in f THEN (needed \ {"DIRECT"}) \cup {"PLT", "GOT"}
         ELSE IF viaPlt /\ ~IsAbsolute(f) THEN needed \cup {"COPY_RELOCATION"}
         ELSE needed)
        \cup (IF IsIfunc(f) /\ ~IsStatic(kind) THEN {"GOT", "PLT"} ELSE {})

\* flags_to_add: a direct reference to a symbol of a shared object from a read-only section
\* goes through the PLT or to a copy, and an ifunc is always reached through the PLT.
FlagsToAdd(r, f, kd) ==
    LET needed == NeededFlags(kd)
        viaPlt == ~IsTlsKind(kd) /\ DirectInterposable(r, f, kd) /\ ~Writable(r)
        direct == IF viaPlt /\ "FUNCTION" \in f THEN (needed \ {"DIRECT"}) \cup {"PLT", "GOT"}
                  ELSE IF viaPlt /\ ~IsAbsolute(f) THEN needed \cup {"COPY_RELOCATION"}
                  ELSE needed
    IN  direct
        \cup (IF IsIfunc(f) /\ ~IsStatic(kind) THEN {"GOT", "PLT"} ELSE {})
        \cup (IF IsIfunc(f) /\ "GOT" \in direct /\ ~IsRelocatable(kind)
              THEN {"IFUNC_GOT_FOR_ADDRESS"} ELSE {})

\* The first request of an ifunc of a static executable adds the PLT entry.
FirstRequestFlags(f) ==
    IF ~HasResolution(f) /\ IsIfunc(f) /\ IsStatic(kind) THEN {"GOT", "PLT"} ELSE {}

\* Relocations an assembler makes against a symbol of that type.
Sensible(r) ==
    IF Sym[r.sym].type = "tls"
    THEN r.type \in {"TLSGD", "TLSLD", "GOTTPOFF", "TLSDESC"} /\ r.sec = "text" /\ r.even
    ELSE \/ r.type = "64" /\ r.sec # "text" /\ (r.sec = "rodata" => r.even)
         \/ r.type \in {"GOTPCREL", "REX_GOTPCRELX"} /\ r.sec = "text" /\ r.even
         \/ r.type = "PC32" /\ Sym[r.sym].type # "absolute" /\ r.sec = "text" /\ r.even
         \/ r.type = "PLT32" /\ Sym[r.sym].type \in {"func", "ifunc"} /\ r.sec = "text" /\ r.even
         \/ r.type = "PC32" /\ r.sec = "data" /\ r.even

\* process_relocation
ProcessRelocation(r) ==
    LET f == flags[r.sym]
        kd == RelKind(r, f)
    IN  /\ phase = "scan" /\ Sensible(r) /\ r \notin refs /\ Cardinality(refs) < MaxRefs
        /\ refs' = refs \cup {r}
        /\ IF Bails(r, f, kd)
           THEN phase' = "bailed" /\ UNCHANGED <<flags, usesTlsld, sizes>>
           ELSE /\ flags' = [flags EXCEPT ![r.sym] =
                                @ \cup FlagsToAdd(r, f, kd) \cup FirstRequestFlags(f)]
                /\ usesTlsld' = (usesTlsld \/ kd = "TlsLd")
                /\ sizes' = [sizes EXCEPT ![Referrer] =
                                Plus(@, AllocatedForRelocation(r, f, kd))]
                /\ UNCHANGED phase
        /\ UNCHANGED <<link, defs, got, plt, entry, left, todo, word, next>>

\* load_entry_point, mark_defsyms_as_used: the prelude marks a symbol, before or after others
\* request it.
MarkUsed(s) ==
    /\ phase = "scan" /\ s \in link.marked /\ "DIRECT" \notin flags[s]
    /\ flags' = [flags EXCEPT ![s] = @ \cup {"DIRECT"}]
    /\ UNCHANGED <<link, defs, refs, usesTlsld, sizes, got, plt, entry, left, todo, word, next,
                   phase>>

\* can_export_symbol, and who asks for it: the object itself in a shared object.
MustExport(s) ==
    /\ Sym[s].from = "object" /\ Sym[s].vis # "hidden"
    /\ kind = "SharedObject" \/ s \in link.exported

\* load_non_hidden_symbols, ObjectLayoutState::export_dynamic
ExportDynamic(s) ==
    /\ phase = "scan" /\ MustExport(s) /\ s \notin defs
    /\ flags' = [flags EXCEPT ![s] = @ \cup {"EXPORT_DYNAMIC"}]
    /\ defs' = defs \cup {s}
    /\ UNCHANGED <<link, refs, usesTlsld, sizes, got, plt, entry, left, todo, word, next, phase>>

-----------------------------------------------------------------------------
(* Sizes and addresses *)

Count(b) == IF b THEN 1 ELSE 0

\* size[1] + ... + size[n].
Total(n, size) ==
    LET total[k \in 0 .. n] == IF k = 0 THEN 0 ELSE total[k - 1] + size[k]
    IN  total[n]

\* Mutant: every GOT entry comes with a PLT entry.
AllocateResolutionWithPlt(f) ==
    LET plain == "GOT" \in f /\ ~IsTls(f)
        ifuncGot == "IFUNC_GOT_FOR_ADDRESS" \in f
        offset == "GOT_TLS_OFFSET" \in f
        module == "GOT_TLS_MODULE" \in f
        descriptor == "GOT_TLS_DESCRIPTOR" \in f
        relative == plain /\ ~IsIfunc(f) /\ ~HasDynamicSymbol(f) /\ IsAddress(f)
    IN  [Nothing EXCEPT
            !["GOT"] = Count(plain) + Count(ifuncGot) + Count(offset) + 2 * Count(module)
                       + 2 * Count(descriptor),
            !["PLT_GOT"] = Count(plain),
            !["RELA_PLT"] = Count(plain /\ IsIfunc(f)),
            ![RelativePart(TRUE)] =
                IF IsRelocatable(kind) THEN Count(relative) + Count(ifuncGot) ELSE 0,
            !["RELA_DYN_GENERAL"] =
                Count(plain /\ ~IsIfunc(f) /\ HasDynamicSymbol(f))
                + Count(offset /\ (IsInterposable(f) \/ kind = "SharedObject"))
                + Count(module /\ (~IsExecutable(kind) \/ IsDynamic(f)))
                + Count(module /\ HasDynamicSymbol(f))
                + Count(descriptor)]

\* allocate_resolution: the entries a symbol with these flags gets.
AllocateResolution(f) ==
    LET plain == "GOT" \in f /\ ~IsTls(f)
        ifuncGot == "IFUNC_GOT_FOR_ADDRESS" \in f
        offset == "GOT_TLS_OFFSET" \in f
        module == "GOT_TLS_MODULE" \in f
        descriptor == "GOT_TLS_DESCRIPTOR" \in f
        relative == plain /\ ~IsIfunc(f) /\ ~HasDynamicSymbol(f) /\ IsAddress(f)
    IN  [Nothing EXCEPT
            !["GOT"] = Count(plain) + Count(ifuncGot) + Count(offset) + 2 * Count(module)
                       + 2 * Count(descriptor),
            !["PLT_GOT"] = Count(plain /\ "PLT" \in f),
            !["RELA_PLT"] = Count(plain /\ IsIfunc(f)),
            ![RelativePart(TRUE)] =
                IF IsRelocatable(kind) THEN Count(relative) + Count(ifuncGot) ELSE 0,
            !["RELA_DYN_GENERAL"] =
                Count(plain /\ ~IsIfunc(f) /\ HasDynamicSymbol(f))
                + Count(offset /\ (IsInterposable(f) \/ kind = "SharedObject"))
                + Count(module /\ (~IsExecutable(kind) \/ IsDynamic(f)))
                + Count(module /\ HasDynamicSymbol(f))
                + Count(descriptor)]

\* pre_finalise_sizes_prelude: the pair of entries all TLSLD relocations share.
AllocatePrelude ==
    [Nothing EXCEPT !["GOT"] = 2 * Count(usesTlsld),
                    !["RELA_DYN_GENERAL"] = Count(usesTlsld /\ ~IsExecutable(kind))]

\* allocate_for_copy_relocations
AllocateCopy(f) ==
    IF "COPY_RELOCATION" \in f THEN One("RELA_DYN_GENERAL") ELSE Nothing

AllocateSymbol(f) == Plus(AllocateResolution(f), AllocateCopy(f))

\* finalise_copy_relocations, which exports the symbols that are copied, and finalise_all_sizes,
\* for the groups in parallel, once all are activated and scanned.
FinaliseSizes ==
    /\ phase = "scan"
    /\ \A s \in Symbol : /\ MustExport(s) => s \in defs
                         /\ s \in link.marked => "DIRECT" \in flags[s]
    /\ sizes' = [g \in Group |->
         [p \in Part |->
            sizes[g][p]
            + (IF g = Prelude THEN AllocatePrelude[p] ELSE 0)
            + Total(NumSymbols,
                    [s \in Symbol |-> IF Home[s] = g THEN AllocateSymbol(flags[s])[p] ELSE 0])]]
    /\ defs' = defs \cup {s \in Symbol : "COPY_RELOCATION" \in flags[s]}
    /\ phase' = "layout"
    /\ UNCHANGED <<link, flags, refs, usesTlsld, got, plt, entry, left, todo, word, next>>

\* Mutant: the second GOT entry of an ifunc is not counted.
GotCountOfPlt(f) ==
    IF "PLT" \in f THEN 1
    ELSE IF IsTls(f)
    THEN Count("GOT_TLS_OFFSET" \in f) + 2 * Count("GOT_TLS_MODULE" \in f)
         + 2 * Count("GOT_TLS_DESCRIPTOR" \in f)
    ELSE Count("GOT" \in f)

\* The GOT entries create_resolution counts for a resolution.
GotCount(f) ==
    IF "PLT" \in f THEN 1 + Count("IFUNC_GOT_FOR_ADDRESS" \in f)
    ELSE IF IsTls(f)
    THEN Count("GOT_TLS_OFFSET" \in f) + 2 * Count("GOT_TLS_MODULE" \in f)
         + 2 * Count("GOT_TLS_DESCRIPTOR" \in f)
    ELSE Count("GOT" \in f)

\* The first GOT entry of a group; entries are numbered from 1.
GotStart(g) == 1 + Total(g, [h \in 1 .. g |-> sizes[h - 1]["GOT"]])

\* A word of the output: the symbol it is for, what the linker stores in it, and the dynamic
\* relocation for its place.
Stored == {"unwritten", "zero", "number", "address", "copy", "stub", "tpoff", "module", "dtpoff",
           "entry"}
Relocated == {"none", "relative", "lookup", "irelative", "tpoff lookup", "tpoff own",
              "dtpmod", "dtpoff lookup", "tlsdesc"}
Unwritten == [of |-> 0, word |-> "unwritten", rel |-> "none"]

\* finalise_layout of the groups: the symbols of a group take addresses in their order.
CreateResolutions ==
    /\ phase = "layout"
    /\ got' = [s \in Symbol |->
         IF GotCount(flags[s]) = 0 THEN 0
         ELSE GotStart(Home[s])
              + Total(s - 1, [t \in Symbol |-> IF Home[t] = Home[s] THEN GotCount(flags[t]) ELSE 0])]
    /\ plt' = [s \in Symbol |-> "PLT" \in flags[s]]
    /\ left' = sizes
    /\ todo' = refs
    /\ entry' = [i \in 1 .. GotStart(Referrer) + sizes[Referrer]["GOT"] - 1 |-> Unwritten]
    /\ word' = [r \in refs |-> Unwritten]
    /\ phase' = "prelude"
    /\ UNCHANGED <<link, flags, defs, refs, usesTlsld, sizes, next>>

-----------------------------------------------------------------------------
(* Writing.  The buffers of the groups are disjoint, so one order of the groups stands for all. *)

\* What a call writes: the words it takes from the front of the GOT, the dynamic relocations
\* (the place, counted from the GOT address of the symbol; the table; the type) and an error
\* it stops with.
Output(words, rels, error) == [words |-> words, rels |-> rels, error |-> error]
General(at, rel) == {[at |-> at, part |-> "RELA_DYN_GENERAL", rel |-> rel]}
Relative(at) == {[at |-> at, part |-> RelativePart(TRUE), rel |-> "relative"]}
Unless(b, error) == IF b THEN "ok" ELSE error
Then(a, b) == Output(a.words \o b.words, a.rels \cup b.rels,
                     IF a.error # "ok" THEN a.error ELSE b.error)

\* dynamic_symbol_index is Some: an import with a resolution, or a definition that is exported
\* (update_dynamic_symbol_resolutions).
HasIndex(s) == s \in defs \/ (IsDynamic(flags[s]) /\ HasResolution(flags[s]))

\* raw_value of a resolution, as create_resolution leaves it.
RawValue(s) ==
    IF IsDynamic(flags[s]) /\ plt[s] THEN "stub"
    ELSE IF "COPY_RELOCATION" \in flags[s] /\ ~plt[s] THEN "copy"
    ELSE IF Sym[s].from = "object" THEN IF IsAbsolute(flags[s]) THEN "number" ELSE "address"
    ELSE "zero"

\* process_got_tls_offset
TlsOffset(s, at) ==
    LET f == flags[s]
    IN  CASE HasDynamicSymbol(f) ->
               Output(<<"zero">>, General(at, "tpoff lookup"), Unless(HasIndex(s), "missing"))
          [] ~HasDynamicSymbol(f) /\ RawValue(s) = "zero" -> Output(<<"zero">>, {}, "ok")
          [] ~HasDynamicSymbol(f) /\ RawValue(s) # "zero" ->
               IF IsExecutable(kind) THEN Output(<<"tpoff">>, {}, "ok")
               ELSE Output(<<"zero">>, General(at, "tpoff own"), "ok")

\* process_got_tls_mod_and_offset
TlsModAndOffset(s, at) ==
    LET f == flags[s]
        module == IF IsExecutable(kind) /\ ~IsDynamic(f) THEN Output(<<"module">>, {}, "ok")
                  ELSE Output(<<"zero">>, General(at, "dtpmod"), "ok")
        offset == IF HasIndex(s)
                  THEN Output(<<"zero">>,
                              IF IsInterposable(f) THEN General(at + 1, "dtpoff lookup") ELSE {}, "ok")
                  ELSE Output(<<"dtpoff">>, {}, Unless(IsAddress(f), "missing"))
    IN  Then(module, offset)

\* process_got_tls_descriptor
TlsDescriptor(s, at) ==
    Output(<<"zero", "zero">>, General(at, "tlsdesc"), Unless(~IsStatic(kind), "static_tlsdesc"))

\* process_resolution for a symbol that is not a TLS variable: the entry of its address, and for
\* an ifunc another one with the address of its PLT entry.
PlainEntries(s) ==
    LET f == flags[s]
        first == CASE HasDynamicSymbol(f) /\ ~IsIfunc(f) ->
                        Output(<<"zero">>, General(0, "lookup"), Unless(HasIndex(s), "missing"))
                   [] IsIfunc(f) ->
                        Output(<<"zero">>,
                               {[at |-> 0, part |-> "RELA_PLT", rel |-> "irelative"]}, "ok")
                   [] OTHER ->
                        Output(<<RawValue(s)>>,
                               IF IsAddress(f) /\ IsRelocatable(kind) THEN Relative(0) ELSE {}, "ok")
        second == Output(<<"stub">>, IF IsRelocatable(kind) THEN Relative(1) ELSE {},
                         Unless(plt[s], "missing"))
    IN  IF "IFUNC_GOT_FOR_ADDRESS" \in f THEN Then(first, second) ELSE first

\* process_resolution
ProcessResolution(s) ==
    LET f == flags[s]
        none == Output(<<>>, {}, "ok")
        after == Count("GOT_TLS_OFFSET" \in f)
    IN  CASE got[s] = 0 -> none
          [] got[s] # 0 /\ ~IsTls(f) -> PlainEntries(s)
          [] got[s] # 0 /\ IsTls(f) ->
               Then(IF "GOT_TLS_OFFSET" \in f THEN TlsOffset(s, 0) ELSE none,
                    Then(IF "GOT_TLS_MODULE" \in f THEN TlsModAndOffset(s, after) ELSE none,
                         IF "GOT_TLS_DESCRIPTOR" \in f
                         THEN TlsDescriptor(s, after + 2 * Count("GOT_TLS_MODULE" \in f))
                         ELSE none))

\* Every table a writer takes an entry of has one left.
Fits(g, demand) == \A p \in Part : demand[p] <= left[g][p]

\* Takes the demanded entries, or stops the link.
Take(g, demand, error, then) ==
    /\ phase' = CASE error # "ok" -> error
                  [] error = "ok" /\ ~Fits(g, demand) -> "short"
                  [] OTHER -> then
    /\ left' = IF error = "ok" /\ Fits(g, demand)
               THEN [left EXCEPT ![g] = [p \in Part |-> @[p] - demand[p]]] ELSE left

\* The GOT after an output of symbol s (0 for the prelude), whose address is got address at.
EntriesWith(g, s, at, out) ==
    LET first == GotStart(g) + sizes[g]["GOT"] - left[g]["GOT"]
    IN  [i \in DOMAIN entry |->
           LET rels == {x \in out.rels : at + x.at = i}
               mine == i \in first .. first + Len(out.words) - 1
           IN  [of |-> IF mine THEN s ELSE entry[i].of,
                word |-> IF mine THEN out.words[i - first + 1] ELSE entry[i].word,
                rel |-> IF rels # {} THEN (CHOOSE x \in rels : TRUE).rel ELSE entry[i].rel]]

\* write_plt_got_entries: the pair of the TLSLD relocations.
WritePrelude ==
    LET out == IF IsExecutable(kind) THEN Output(<<"module", "dtpoff">>, {}, "ok")
               ELSE Output(<<"zero", "zero">>, General(0, "dtpmod"), "ok")
        demand == [Nothing EXCEPT !["GOT"] = 2,
                                  !["RELA_DYN_GENERAL"] = Cardinality(out.rels)]
    IN  /\ phase = "prelude"
        /\ IF usesTlsld
           THEN Take(Prelude, demand, "ok", "write") /\ entry' = EntriesWith(Prelude, 0, 1, out)
           ELSE phase' = "write" /\ UNCHANGED <<left, entry>>
        /\ UNCHANGED <<link, flags, defs, refs, usesTlsld, sizes, got, plt, todo, word, next>>

\* place.is_multiple_of(2): the writer asks for the parity of the address, where the scan
\* asked for that of the offset.
PlaceEven(r) == r.even <=> r.sec # "packed"

\* write_absolute_relocation: the word, the table of its relocation and the error.
WriteAbsolute(r) ==
    LET f == flags[r.sym]
        value == IF IsIfunc(f) THEN "stub" ELSE RawValue(r.sym)
        error == Unless(IsIfunc(f) => plt[r.sym], "missing")
        result(w, rel, part, err) == [word |-> w, rel |-> rel, part |-> part, error |-> err]
    IN  CASE IsDynamic(f) /\ IsAbsolute(f) /\ ~Writable(r) -> result("zero", "none", "none", "ok")
          [] IsInterposable(f) /\ Writable(r) ->
               result("zero", "lookup", "RELA_DYN_GENERAL", Unless(HasIndex(r.sym), "missing"))
          [] ~IsInterposable(f) /\ IsIfunc(f) /\ Writable(r) /\ IsRelocatable(kind) ->
               result("zero", "irelative", "RELA_DYN_GENERAL", "ok")
          [] OTHER -> IF IsRelocatable(kind) /\ ~IsAbsolute(f)
                      THEN result(value, "relative", RelativePart(PlaceEven(r)), error)
                      ELSE result(value, "none", "none", error)

\* Mutant: the module entry is looked for where the offset entry is.
EntryOfKindNoOffset(s, kd) ==
    CASE kd = "GotRelative" -> got[s] + Count("IFUNC_GOT_FOR_ADDRESS" \in flags[s])
      [] kd \in {"GotTpOff", "TlsGd"} -> got[s]
      [] kd = "TlsDesc" -> got[s] + Count("GOT_TLS_OFFSET" \in flags[s])
                           + 2 * Count("GOT_TLS_MODULE" \in flags[s])
      [] kd = "TlsLd" -> 1

\* got_address_for_relocation, got_address, tlsgd_got_address, tls_descriptor_got_address and
\* tlsld_got_entry: the GOT entry a relocation of that kind uses.
EntryOfKind(s, kd) ==
    CASE kd = "GotRelative" -> got[s] + Count("IFUNC_GOT_FOR_ADDRESS" \in flags[s])
      [] kd = "GotTpOff" -> got[s]
      [] kd = "TlsGd" -> got[s] + Count("GOT_TLS_OFFSET" \in flags[s])
      [] kd = "TlsDesc" -> got[s] + Count("GOT_TLS_OFFSET" \in flags[s])
                           + 2 * Count("GOT_TLS_MODULE" \in flags[s])
      [] kd = "TlsLd" -> 1

\* apply_relocation
ApplyRelocation(r) ==
    LET s == r.sym
        kd == RelKind(r, flags[s])
        abs == WriteAbsolute(r)
        result == CASE kd = "Absolute" -> abs
                    [] kd \in {"Relative", "PltRelative"} ->
                         LET viaPlt == kd = "PltRelative" \/ IsIfunc(flags[s])
                         IN  [word |-> IF viaPlt THEN "stub" ELSE RawValue(s), rel |-> "none",
                              part |-> "none", error |-> Unless(viaPlt => plt[s], "missing")]
                    [] kd = "TpOff" -> [word |-> "tpoff", rel |-> "none", part |-> "none", error |-> "ok"]
                    [] kd = "None" -> [word |-> "zero", rel |-> "none", part |-> "none", error |-> "ok"]
                    [] OTHER -> [word |-> "entry", rel |-> "none", part |-> "none",
                                 error |-> Unless(kd = "TlsLd" \/ got[s] # 0, "missing")]
        demand == [p \in Part |-> Count(p = result.part)]
    IN  /\ phase = "write" /\ r \in todo
        /\ Take(Referrer, demand, result.error, "write")
        /\ word' = [word EXCEPT ![r] = [of |-> s, word |-> result.word, rel |-> result.rel]]
        /\ todo' = todo \ {r}
        /\ UNCHANGED <<link, flags, defs, refs, usesTlsld, sizes, got, plt, entry, next>>

\* write_plt_got_entries of the file that defines the symbol, and write_copy_relocations.
WriteResolution ==
    LET s == next
        g == Home[s]
        out == ProcessResolution(s)
        demand == [p \in Part |->
                     CASE p = "GOT" -> Len(out.words)
                       [] p = "PLT_GOT" -> Count(got[s] # 0 /\ ~IsTls(flags[s]) /\ plt[s])
                       [] OTHER -> Cardinality({x \in out.rels : x.part = p}) + AllocateCopy(flags[s])[p]]
    IN  /\ phase = "write" /\ todo = {} /\ next \in Symbol
        /\ Take(g, demand, out.error, "write")
        /\ entry' = EntriesWith(g, s, got[s], out)
        /\ next' = next + 1
        /\ UNCHANGED <<link, flags, defs, refs, usesTlsld, sizes, got, plt, todo, word>>

\* validate_empty, which does not look at .rela.plt and .plt.got
ValidateEmpty ==
    /\ phase = "write" /\ todo = {} /\ next = NumSymbols + 1
    /\ phase' = IF \E g \in Group, p \in Part \ {"RELA_PLT", "PLT_GOT"} : left[g][p] > 0
                THEN "excess" ELSE "done"
    /\ UNCHANGED <<link, flags, defs, refs, usesTlsld, sizes, got, plt, entry, left, todo, word,
                   next>>

-----------------------------------------------------------------------------
Init ==
    /\ link \in Link
    /\ flags = [s \in Symbol |-> InitialFlags(link.kind, link.sym[s])]
    /\ defs = {} /\ refs = {} /\ usesTlsld = FALSE
    /\ sizes = [g \in Group |-> Nothing]
    /\ got = [s \in Symbol |-> 0] /\ plt = [s \in Symbol |-> FALSE]
    /\ entry = <<>>
    /\ left = [g \in Group |-> Nothing]
    /\ todo = {}
    /\ word = <<>>
    /\ next = 1
    /\ phase = "scan"

Next ==
    \/ \E r \in Reference : ProcessRelocation(r)
    \/ \E r \in todo : ApplyRelocation(r)
    \/ \E s \in Symbol : MarkUsed(s) \/ ExportDynamic(s)
    \/ FinaliseSizes \/ CreateResolutions \/ WritePrelude \/ WriteResolution \/ ValidateEmpty

Spec == Init /\ [][Next]_vars

-----------------------------------------------------------------------------
(* Properties *)

Failure == {"short", "excess", "missing", "static_tlsdesc"}
Words == [of : Symbol \cup {0}, word : Stored, rel : Relocated]

\* Type invariant; no writer takes more of a table than its group was given.
TypeOK ==
    /\ link \in Link
    /\ flags \in [Symbol -> SUBSET (StaticFlag \cup ResolutionFlag)]
    /\ defs \subseteq Symbol /\ refs \subseteq Reference /\ todo \subseteq refs
    /\ usesTlsld \in BOOLEAN
    /\ sizes \in [Group -> [Part -> Nat]] /\ left \in [Group -> [Part -> Nat]]
    /\ got \in [Symbol -> Nat] /\ plt \in [Symbol -> BOOLEAN]
    /\ \A i \in DOMAIN entry : entry[i] \in Words
    /\ \A r \in DOMAIN word : word[r] \in Words
    /\ next \in 1 .. NumSymbols + 1
    /\ phase \in {"scan", "bailed", "layout", "prelude", "write", "done"} \cup Failure

\* The loader picks the definition: the linker may not assume its own.
Preemptible(s) ==
    /\ ~IsStatic(kind) /\ Sym[s].vis = "default"
    /\ Sym[s].from # "object" \/ kind = "SharedObject"

\* A word for a relative relocation whose offset and address differ in parity: under RELR the
\* scan gives it an entry of one table and the writer takes one of the other.
ParityDiffers(r) ==
    LET n == Sym[r.sym]
    IN  /\ link.relr /\ IsRelocatable(kind) /\ r.type = "64" /\ r.sec = "packed"
        /\ n.from = "object" /\ n.type \in {"data", "func"} /\ ~Preemptible(r.sym)

\* References that the linker lets through the scan but cannot write: a text relocation
\* against an import or an ifunc, a PC-relative word of data for a symbol of another module, a
\* hidden TLS variable that nothing defines, an ifunc of a static executable that the command
\* line names (it is marked before a reference asks for its PLT entry), and a word at an address
\* whose parity is not that of its offset.
Unsupported(r) ==
    LET n == Sym[r.sym]
    IN  \/ /\ r.type = "64" /\ r.sec = "rodata" /\ IsRelocatable(kind)
           /\ n.from = "shared" \/ n.type = "ifunc"
        \/ r.type = "PC32" /\ r.sec = "data" /\ Preemptible(r.sym) /\ n.type # "ifunc"
        \/ /\ n.type = "tls" /\ n.from = "undefined" /\ ~Preemptible(r.sym)
           /\ kind = "SharedObject" \/ r.type \in {"TLSGD", "TLSDESC"}
        \/ /\ n.type = "ifunc" /\ kind = "StaticExe" /\ r.sym \in link.marked
           /\ r.type \in {"64", "GOTPCREL", "REX_GOTPCRELX"}
        \/ ParityDiffers(r)

\* The three decisions agree: whatever the references and the order they are scanned in, the
\* writer finds the entries it wants in every group, uses all of them, and needs no address that
\* was not given out (insufficient_allocation, excessive_allocation, "Missing ... address") -
\* unless a reference is of a kind the linker does not support.
OnlyUnsupportedFails == phase \in Failure => \E r \in refs : Unsupported(r)

\* The two tables that validate_empty does not look at are used up as well, so .plt.got has no
\* empty stub and .rela.plt no empty relocation.
PltTablesExact ==
    phase = "done" => \A g \in Group : left[g]["PLT_GOT"] = 0 /\ left[g]["RELA_PLT"] = 0

\* What a word leads to once the output is loaded; "unrelocated" is an address of the link in an
\* output that is loaded elsewhere.
RunTime(w) ==
    CASE w.rel = "lookup" -> "definition"
      [] w.rel = "irelative" -> "implementation"
      [] w.rel = "relative" -> w.word
      [] w.rel = "none" /\ w.word \in {"address", "stub", "copy"} /\ IsRelocatable(kind) ->
           "unrelocated"
      [] OTHER -> w.word

\* What a reference leads to: its own word, or the GOT entry it uses.
LeadsTo(r) ==
    LET kd == RelKind(r, flags[r.sym])
        e == entry[EntryOfKind(r.sym, kd)]
    IN  CASE kd = "GotRelative" -> IF e.of = r.sym THEN RunTime(e) ELSE "another"
          [] kd = "Absolute" -> RunTime(word[r])
          [] kd \in {"Relative", "PltRelative"} -> word[r].word

\* What a symbol may be, for the words that refer to it.
Meaning(s) ==
    LET n == Sym[s]
    IN  CASE n.from = "undefined" -> IF Preemptible(s) THEN {"definition", "zero", "stub"} ELSE {"zero", "stub"}
          [] n.from = "shared" -> {"definition", IF n.type = "func" THEN "stub" ELSE "copy"}
          [] n.from = "object" /\ n.type = "absolute" -> {"number", "definition"}
          [] n.from = "object" /\ n.type = "ifunc" ->
               {"stub", "implementation"} \cup (IF Preemptible(s) THEN {"definition"} ELSE {})
          [] OTHER -> IF Preemptible(s) THEN {"definition", "stub"} ELSE {"address", "stub"}

\* Once the output is written, every reference leads to its own symbol: the GOT entry it uses is
\* the one that was filled in for its symbol, an address in an output that may be loaded anywhere
\* is relocated, a symbol that can be preempted is looked up, a PLT entry jumps to what its GOT
\* entry names, and a copied variable is exported so that everyone uses the copy
\* (process_resolution, write_absolute_relocation, create_resolution).
OrdinaryReferencesDenote ==
    phase = "done" =>
        \A r \in refs : Sym[r.sym].type # "tls" =>
            /\ LeadsTo(r) \in Meaning(r.sym)
            /\ LeadsTo(r) = "stub" =>
                 /\ entry[got[r.sym]].of = r.sym
                 /\ RunTime(entry[got[r.sym]]) \in Meaning(r.sym) \ {"stub"}
            /\ LeadsTo(r) = "copy" => r.sym \in defs

\* All references that take the address of an ifunc of an executable at a fixed address get the
\* same address, that of its PLT entry (IFUNC_GOT_FOR_ADDRESS).
IfuncAddressesEqual ==
    phase = "done" /\ ~IsRelocatable(kind) =>
        \A r \in refs : Sym[r.sym].type = "ifunc" => LeadsTo(r) = "stub"

\* Whether the entries from position i on name the TLS variable s for an access of that kind.
NamesTls(s, kd, i) ==
    LET own == ~Preemptible(s)
        e == entry[i]
    IN  /\ e.of = s
        /\ CASE kd = "GotTpOff" ->
                  IF own THEN \/ e.rel = "tpoff own"
                              \/ e.rel = "none" /\ IsExecutable(kind)
                                 /\ e.word = (IF Sym[s].from = "undefined" THEN "zero" ELSE "tpoff")
                  ELSE e.rel = "tpoff lookup"
             [] kd = "TlsGd" ->
                  /\ entry[i + 1].of = s
                  /\ IF own THEN /\ e.rel = "dtpmod" \/ (e.word = "module" /\ IsExecutable(kind))
                                 /\ entry[i + 1].word = "dtpoff" /\ entry[i + 1].rel = "none"
                     ELSE e.rel = "dtpmod" /\ entry[i + 1].rel = "dtpoff lookup"
             [] kd = "TlsDesc" -> e.rel = "tlsdesc" /\ entry[i + 1].of = s

TlsAccess(r) ==
    LET kd == RelKind(r, flags[r.sym])
    IN  CASE kd \in {"GotTpOff", "TlsGd", "TlsDesc"} -> NamesTls(r.sym, kd, EntryOfKind(r.sym, kd))
          [] kd = "TlsLd" -> /\ entry[1].of = 0 /\ entry[2].of = 0
                             /\ entry[1].rel = "dtpmod" \/ (entry[1].word = "module" /\ IsExecutable(kind))
          [] kd = "TpOff" -> IsExecutable(kind) /\ ~Preemptible(r.sym)
          [] kd = "None" -> IsExecutable(kind)

\* A TLS variable that the output exports but that cannot be preempted, accessed through its
\* module and offset.
ExportedModuleAccess(r) ==
    /\ RelKind(r, flags[r.sym]) = "TlsGd"
    /\ r.sym \in defs /\ ~Preemptible(r.sym)

\* Accesses to TLS variables, up to three kinds for the same variable, use entries of that
\* variable of the right kind, and these name the variable (process_got_tls_offset,
\* process_got_tls_mod_and_offset, process_got_tls_descriptor).  Left out: ExportedModuleAccess,
\* for which the writer stores the offset 0.
TlsReferencesDenote ==
    phase = "done" =>
        \A r \in refs : Sym[r.sym].type = "tls" /\ ~ExportedModuleAccess(r) => TlsAccess(r)

\* Once the output is written every reference leads to its symbol, through the entries that were
\* allocated for it: code and data, the address of an ifunc, TLS variables.
ReferencesDenote == OrdinaryReferencesDenote /\ IfuncAddressesEqual /\ TlsReferencesDenote

=============================================================================
