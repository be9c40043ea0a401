----------------------------- MODULE PatchInputs -----------------------------
(***************************************************************************)
(* Patching the output for changed inputs: patch_changed_inputs of         *)
(* libsld/src/incremental.rs.  IncrementalLink treats a patch as a step    *)
(* that succeeds or gives up; this module is what happens inside it: how a *)
(* changed object file is compared with its snapshot, which differences    *)
(* are turned into patches of the output, which make the linker relink,    *)
(* how the patches are applied, and what the state says afterwards.        *)
(*                                                                         *)
(* What is abstracted: a file is read into its sections, relocations,      *)
(* symbols, frame entries and the rest; bytes are cells, one per word, and *)
(* the output is a sequence of them in which an address is a position; one *)
(* changed file is patched at a time.  Every version of a file a behaviour *)
(* edits comes from one family.  A hash is what it hashes.                 *)
(***************************************************************************)
EXTENDS BuildIdTree, SequencesExt

CONSTANTS
    Setting,      \* a family of versions of a file, how often it is edited, how it is linked
    None,
    Pad,          \* cells of incremental padding after a section
    FreeSlots     \* unused entries of the generated sections

\* An object file: sections, RELA entries (kind abs or pc, against a symbol), symbols, frame
\* entries in order (the first input offset holds the CIE), and all other bytes.
\*   [secs : Seq([name, stable, direct, data]), relas : set of [sec, off, kind, sym, add],
\*    syms : [name -> [sec, off]], fdes : Seq([sec, add, body]), rest]
\* A file is [archive, members : Seq([id, o])]; an object on its own is its only member.

ASSUME ConstantsAssumption ==
    /\ Pad \in Nat /\ FreeSlots \in Nat
    /\ \A s \in Setting : s.dynamic \in {"no", "symbolic", "relative"} /\ s.indexed \in BOOLEAN

VARIABLES
    setting,   \* the setting of this behaviour
    file,      \* the input on disk
    snap,      \* its snapshot in the state directory
    out,       \* the output: cells, and the build id in its note
    lay,       \* where the output's generated sections are (its section headers)
    st,        \* the records and the patch metadata of the persisted state
    tree,      \* BUILD_ID_HASH_FILE
    marker,    \* the update marker
    pc,        \* what the linker does
    level,     \* which records the attempt has read: metadata, filtered, full
    work,      \* patches to apply and the state to write after them
    edits

patchVars == <<setting, file, snap, out, lay, st, tree, marker, pc, level, work, edits>>

-----------------------------------------------------------------------------
(* Files and their parts *)

\* patch_input_bytes_with_lookup, parse_patch_input_ref, patch_archive_member_bytes: the member
\* a reference [id, pos] is to; 0 when there is none.
Find(f, ref, lookup) ==
    LET named == {p \in DOMAIN f.members : f.members[p].id = ref.id}
        at == IF ref.pos \in DOMAIN f.members THEN ref.pos ELSE 0
    IN  IF ~f.archive THEN 1
        ELSE IF lookup = "current" THEN at
        ELSE IF Cardinality(named) > 1 THEN 0
        ELSE IF named = {} THEN at ELSE CHOOSE p \in named : TRUE

Object(f, p) == f.members[p].o

\* archive_member_identifiers.
MemberIds(f) == IF f.archive THEN [p \in DOMAIN f.members |-> f.members[p].id] ELSE None

\* patch_section_name_for_matching.
MatchingName(sec) == IF sec.stable THEN sec.name ELSE None

\* patch_section_index: by its name when that identifies it, else by its index; 0 for none.
PatchSectionIndex(o, ps) ==
    LET named == {i \in DOMAIN o.secs : o.secs[i].name = ps.name}
    IN  IF ps.name = None THEN IF ps.idx \in DOMAIN o.secs THEN ps.idx ELSE 0
        ELSE IF Cardinality(named) = 1 THEN CHOOSE i \in named : TRUE ELSE 0

\* rela_entries_for_section.
RelasOf(o, i) == {r \in o.relas : r.sec = i}

\* section_direct_patch_preserve_ranges: the words of a section the linker wrote, or None when
\* the section cannot be copied over the output.
PreserveRanges(o, i, dynOffs) ==
    IF \/ ~o.secs[i].direct
       \/ \E r \in RelasOf(o, i) : \/ r.kind # "abs" /\ r.off \notin dynOffs
                                   \/ r.off > Len(o.secs[i].data)
    THEN None ELSE {r.off : r \in RelasOf(o, i)}

\* dynamic_relocation_offsets_by_input_section.
DynOffsets(dyns, ref, i) == {d.off : d \in {e \in dyns : e.ref = ref /\ e.sec = i}}

-----------------------------------------------------------------------------
(* A full link *)

Keys(f) == UNION {{<<p, i>> : i \in DOMAIN Object(f, p).secs} : p \in DOMAIN f.members}
Before(j, k) == j[1] < k[1] \/ (j[1] = k[1] /\ j[2] < k[2])
Sec(f, k) == Object(f, k[1]).secs[k[2]]
Ref(f, p) == [id |-> f.members[p].id, pos |-> p]

\* section_name_allows_incremental_padding.
SizeOf(f, k) == Len(Sec(f, k).data) + IF Sec(f, k).direct THEN Pad ELSE 0
PlaceOf(f, k) == 1 + MapThenSumSet(LAMBDA j : SizeOf(f, j), {j \in Keys(f) : Before(j, k)})

\* The member that defines a symbol, and the symbol's address.
DefinedIn(f, sym) == {p \in DOMAIN f.members : sym \in DOMAIN Object(f, p).syms}
AddressOf(f, sym) ==
    LET p == CHOOSE p \in DefinedIn(f, sym) : TRUE
        s == Object(f, p).syms[sym]
    IN  PlaceOf(f, <<p, s.sec>>) + s.off
AllSyms(f) == UNION {DOMAIN Object(f, p).syms : p \in DOMAIN f.members}

\* All relocations and frame entries of a file with the member they are in, in order.
AllRelas(f) == UNION {{[p |-> p, r |-> r] : r \in Object(f, p).relas} : p \in DOMAIN f.members}
DynRelas(f) ==
    SetToSortSeq(IF setting.dynamic = "no" THEN {} ELSE {x \in AllRelas(f) : x.r.kind = "abs"},
                 LAMBDA x, y : \/ Before(<<x.p, x.r.sec>>, <<y.p, y.r.sec>>)
                               \/ x.p = y.p /\ x.r.sec = y.r.sec /\ x.r.off < y.r.off)
AllFdes(f) == FlattenSeq([p \in DOMAIN f.members |->
                 [k \in DOMAIN Object(f, p).fdes |-> [p |-> p, k |-> k, e |-> Object(f, p).fdes[k]]]])

\* The address of a word a relocation applies to.
WordAt(f, x) == PlaceOf(f, <<x.p, x.r.sec>>) + x.r.off - 1

\* write_absolute_relocation: symbolic relocations keep the addend, relative ones hold the
\* address, and both leave the word itself zero.
RelativeInfo == 99
DynEntry(f, x) ==
    IF setting.dynamic = "symbolic" THEN <<WordAt(f, x), x.r.sym, x.r.add>>
    ELSE <<WordAt(f, x), RelativeInfo, AddressOf(f, x.r.sym) + x.r.add>>
WrittenValue(f, x) ==
    IF x.r.kind = "abs" /\ setting.dynamic # "no" THEN 0 ELSE AddressOf(f, x.r.sym) + x.r.add

SectionCells(f, k) ==
    [c \in 1 .. SizeOf(f, k) |->
        LET hit == {x \in AllRelas(f) : <<x.p, x.r.sec>> = k /\ x.r.off = c}
        IN  IF hit # {} THEN WrittenValue(f, CHOOSE x \in hit : TRUE)
            ELSE IF c <= Len(Sec(f, k).data) THEN Sec(f, k).data[c] ELSE 0]

\* Where the generated sections start: .rela.dyn (3 cells an entry), .eh_frame (3 cells, the
\* CIE first), .eh_frame_hdr (a count, 2 cells an entry), the symbol table, the build id.
LayoutOf(f) ==
    LET rela == 1 + MapThenSumSet(LAMBDA j : SizeOf(f, j), Keys(f))
        relaN == Len(DynRelas(f)) + IF setting.dynamic = "symbolic" THEN FreeSlots ELSE 0
        eh == rela + 3 * relaN
        ehN == IF AllFdes(f) = <<>> THEN 0 ELSE Len(AllFdes(f)) + 2 + FreeSlots
        hdr == eh + 3 * ehN
        hdrN == IF ehN = 0 THEN 0 ELSE Len(AllFdes(f)) + FreeSlots
        sym == hdr + IF ehN = 0 THEN 0 ELSE 1 + 2 * hdrN
        names == SetToSortSeq(AllSyms(f), <)
    IN  [rela |-> rela, relaN |-> relaN, eh |-> eh, ehN |-> ehN, hdr |-> hdr, hdrN |-> hdrN,
         sym |-> [s \in AllSyms(f) |-> sym + (CHOOSE i \in DOMAIN names : names[i] = s) - 1],
         note |-> sym + Len(names)]

Zeros(n) == [i \in 1 .. n |-> 0]
Cie == 77
FdeAt(l, k) == l.eh + 3 * k     \* k-th frame entry, after the CIE

\* write_eh_frame_data: length and instructions, CIE pointer, relative pc-begin.
FdeCells(at, cie, body, target) == <<body, at + 1 - cie, target - (at + 2)>>

\* The output of a full link and the records of it.
LinkedCells(f) ==
    LET l == LayoutOf(f)
        keys == SetToSortSeq(Keys(f), Before)
        dyn == DynRelas(f)
        fdes == AllFdes(f)
        target(x) == PlaceOf(f, <<x.p, x.e.sec>>) + x.e.add
        hdr == SetToSortSeq({<<target(fdes[k]), FdeAt(l, k)>> : k \in DOMAIN fdes},
                            LAMBDA a, b : a[1] < b[1])
    IN  FlattenSeq([n \in DOMAIN keys |-> SectionCells(f, keys[n])])
        \o FlattenSeq([n \in DOMAIN dyn |-> DynEntry(f, dyn[n])]) \o Zeros(3 * (l.relaN - Len(dyn)))
        \o (IF fdes = <<>> THEN <<>>
            ELSE <<Cie, 0, 0>>
                 \o FlattenSeq([k \in DOMAIN fdes |->
                        FdeCells(FdeAt(l, k), l.eh, fdes[k].e.body, target(fdes[k]))])
                 \o Zeros(3 * (l.ehN - 1 - Len(fdes)))
                 \o <<Len(fdes)>> \o FlattenSeq(hdr) \o Zeros(2 * (l.hdrN - Len(fdes))))
        \o [i \in 1 .. Cardinality(AllSyms(f)) |-> AddressOf(f, SetToSortSeq(AllSyms(f), <)[i])]
        \o <<0>>

\* SectionRecord, RelocationRecord, DynamicRelocationRecord and FdeRecord.
LinkedRecords(f) ==
    LET l == LayoutOf(f)
        dyn == DynRelas(f)
        fdes == AllFdes(f)
    IN  [secs |-> {[ref |-> Ref(f, k[1]), idx |-> k[2], at |-> PlaceOf(f, k), size |-> SizeOf(f, k)]
                     : k \in Keys(f)},
         relocs |-> {LET p == CHOOSE p \in DefinedIn(f, x.r.sym) : TRUE
                         s == Object(f, p).syms[x.r.sym]
                     IN  [ref |-> Ref(f, x.p), sec |-> x.r.sec, off |-> x.r.off, at |-> WordAt(f, x),
                          size |-> IF x.r.kind = "abs" THEN 8 ELSE 4, add |-> x.r.add,
                          sym |-> x.r.sym, tref |-> Ref(f, p), tsec |-> s.sec, toff |-> s.off,
                          written |-> WrittenValue(f, x), value |-> AddressOf(f, x.r.sym)]
                       : x \in AllRelas(f)},
         dyns |-> {[ref |-> Ref(f, dyn[n].p), sec |-> dyn[n].r.sec, off |-> dyn[n].r.off,
                    at |-> l.rela + 3 * (n - 1), roff |-> DynEntry(f, dyn[n])[1],
                    rinfo |-> DynEntry(f, dyn[n])[2]] : n \in DOMAIN dyn},
         fdes |-> {[ref |-> Ref(f, fdes[k].p), sec |-> fdes[k].e.sec, inoff |-> fdes[k].k,
                    at |-> FdeAt(l, k)] : k \in DOMAIN fdes},
         patch |-> None]

NoteCells(l) == {l.note}
TreeOver(f, cells) == TreeOf(cells, NoteCells(LayoutOf(f)))
Linked(f, cells) == [cells |-> cells, id |-> RootHash(TreeOver(f, cells), Len(cells))]

-----------------------------------------------------------------------------
(* Patches of the output: SectionPatch *)

Patch(at, size, data, keep, adjust) ==
    [at |-> at, size |-> size, data |-> data, keep |-> keep, adjust |-> adjust]
NoAdjust == [c \in {} |-> 0]
PlainPatch(at, data) == Patch(at, Len(data), data, {}, NoAdjust)

\* patch_output_range_rejection_reason: two patches of one cell.
Overlapping(patches) ==
    \E a, b \in patches : /\ a # b /\ a.size > 0 /\ b.size > 0
                          /\ a.at < b.at + b.size /\ b.at < a.at + a.size

\* Mutant: the cells after the new data keep what they held.
PatchedUnpadded(cells, patch) ==
    [c \in DOMAIN cells |->
        LET i == c - patch.at + 1
        IN  IF i \notin 1 .. Len(patch.data) THEN cells[c]
            ELSE (IF i \in patch.keep THEN cells[c] ELSE patch.data[i])
                 + (IF i \in DOMAIN patch.adjust THEN patch.adjust[i] ELSE 0)]

\* The loop of patch_changed_inputs over its patches: preserved ranges are read from the
\* output, adjustments added, and what is left of the range zeroed.
Patched(cells, patch) ==
    [c \in DOMAIN cells |->
        LET i == c - patch.at + 1
        IN  IF i \notin 1 .. patch.size THEN cells[c]
            ELSE IF i > Len(patch.data) THEN 0
            ELSE (IF i \in patch.keep THEN cells[c] ELSE patch.data[i])
                 + (IF i \in DOMAIN patch.adjust THEN patch.adjust[i] ELSE 0)]

-----------------------------------------------------------------------------
(* Fingerprints: the file with everything a patch can carry over read as zero *)

\* How many cells a section takes in its file, padding up to its neighbour included.
Aligned(n) == 2 * ((n + 1) \div 2)

\* patch_ranges_with_lookup: an object with the data and the size of the zeroed sections, and the
\* addends, symbol values and frame entries of masks, read as zero.
Masked(o, p, zeroed, masks) ==
    [secs |-> [i \in DOMAIN o.secs |->
                 IF i \in zeroed THEN [o.secs[i] EXCEPT !.data = Aligned(Len(@))] ELSE o.secs[i]],
     relas |-> {IF <<p, "add", r.sec, r.off>> \in masks THEN [r EXCEPT !.add = 0] ELSE r : r \in o.relas},
     syms |-> [s \in DOMAIN o.syms |->
                 IF <<p, "sym", s>> \in masks THEN [o.syms[s] EXCEPT !.off = 0] ELSE o.syms[s]],
     fdes |-> [k \in DOMAIN o.fdes |->
                 IF <<p, "fde", k>> \in masks THEN [sec |-> o.fdes[k].sec, add |-> 0, body |-> 0]
                                              ELSE o.fdes[k]],
     rest |-> o.rest]

\* patch_fingerprint_with_lookup: the file with its patch sections and masks zeroed; None when a
\* section is missing or has outgrown its place in the output.
Fingerprint(f, psecs, masks, lookup) ==
    LET pos(ps) == Find(f, ps.ref, lookup)
        idx(ps) == PatchSectionIndex(Object(f, pos(ps)), ps)
        zeroed(p) == {idx(ps) : ps \in {q \in psecs : pos(q) = p}}
    IN  IF \/ psecs = {}
           \/ \E ps \in psecs : pos(ps) = 0
           \/ \E ps \in psecs : idx(ps) = 0
           \/ \E ps \in psecs : Len(Object(f, pos(ps)).secs[idx(ps)].data) > ps.size
        THEN None
        ELSE [p \in DOMAIN f.members |->
                <<f.members[p].id, Masked(Object(f, p), p, zeroed(p), masks)>>]

\* relocation_addend_ranges, relocation_target_ranges, dynamic_relocation_patches and
\* fde_patch_input_ranges, for current records: what the records allow to be masked.
RecordedMasks(f, recs) ==
    LET at(ref) == Find(f, ref, "current")
        has(ref) == at(ref) # 0
    IN  {<<at(r.ref), "add", r.sec, r.off>>
           : r \in {q \in recs.relocs : has(q.ref) /\ \E e \in Object(f, at(q.ref)).relas :
                                                        e.sec = q.sec /\ e.off = q.off}}
        \cup {<<at(d.ref), "add", d.sec, d.off>>
           : d \in {q \in recs.dyns : has(q.ref) /\ \E e \in Object(f, at(q.ref)).relas :
                                                      e.sec = q.sec /\ e.off = q.off}}
        \cup {<<at(r.tref), "sym", r.sym>>
           : r \in {q \in recs.relocs : has(q.tref) /\ q.sym \in DOMAIN Object(f, at(q.tref)).syms}}
        \cup {<<at(d.ref), "fde", d.inoff>>
           : d \in {q \in recs.fdes : has(q.ref) /\ q.inoff \in DOMAIN Object(f, at(q.ref)).fdes}}

PatchSection(ref, i, sec, at, size) ==
    [ref |-> ref, idx |-> i, name |-> MatchingName(sec), at |-> at, size |-> size, data |-> sec.data]

\* direct_copy_patch_sections: the recorded sections whose bytes the output holds as they are,
\* but for the words the linker wrote.
DirectCopySections(f, cells, recs) ==
    {PatchSection(r.ref, r.idx, Object(f, Find(f, r.ref, "current")).secs[r.idx], r.at, r.size)
       : r \in {q \in recs.secs :
                  LET o == Object(f, Find(f, q.ref, "current"))
                      keep == PreserveRanges(o, q.idx, DynOffsets(recs.dyns, q.ref, q.idx))
                  IN  /\ Find(f, q.ref, "current") # 0 /\ q.idx \in DOMAIN o.secs
                      /\ keep # None /\ Len(o.secs[q.idx].data) <= q.size
                      /\ \A c \in 1 .. q.size :
                            IF c > Len(o.secs[q.idx].data) THEN cells[q.at + c - 1] = 0
                            ELSE c \in keep \/ cells[q.at + c - 1] = o.secs[q.idx].data[c]}}

\* current_patch_state, of the snapshot: FilePatchState, or None.
CurrentPatchState(f, cells, recs) ==
    LET psecs == DirectCopySections(f, cells, recs)
        fp == Fingerprint(f, psecs, RecordedMasks(f, recs), "current")
    IN  IF fp = None THEN None ELSE [fp |-> fp, secs |-> psecs]

-----------------------------------------------------------------------------
(* Sections of the changed file *)

\* resolved_patch_sections_for_input_with_dynamic_relocations, of one section: the section as
\* it is now and its patch; None when it cannot be copied or does not fit.
Resolve(f, ps, dyns) ==
    LET p == Find(f, ps.ref, "match")
        i == IF p = 0 THEN 0 ELSE PatchSectionIndex(Object(f, p), ps)
        sec == Object(f, p).secs[i]
        keep == PreserveRanges(Object(f, p), i, DynOffsets(dyns, ps.ref, ps.idx))
    IN  IF i = 0 THEN None
        ELSE IF keep = None \/ Len(sec.data) > ps.size THEN None
        ELSE [sec |-> [ps EXCEPT !.idx = i, !.data = sec.data],
              patch |-> Patch(ps.at, ps.size, sec.data, keep, NoAdjust)]

\* match_patch_sections_from_current_hashes: every section at its name or index; one that has
\* no name to go by must not have changed.
MatchByHashes(f, psecs) ==
    IF \E ps \in psecs : Resolve(f, ps, {}) = None THEN None
    ELSE LET now(ps) == Resolve(f, ps, {}).sec
         IN  IF \E ps \in psecs : ps.name = None /\ now(ps).data # ps.data THEN None
             ELSE [pairs |-> {[prev |-> ps, cur |-> now(ps)] : ps \in psecs},
                   changed |-> {now(ps) : ps \in {q \in psecs : now(q).data # q.data}}]

\* section_reference_map: who refers to a section, from sections with names to go by.
SectionReferences(o, i) ==
    {[from |-> o.secs[r.sec].name, off |-> r.off, kind |-> r.kind, add |-> r.add]
       : r \in {q \in o.relas : /\ o.secs[q.sec].stable
                                /\ q.sym \in DOMAIN o.syms /\ o.syms[q.sym].sec = i}}

\* match_current_patch_section_index: by name, else the only section referred to as before.
MatchedIndex(prev, cur, ps) ==
    LET before == SectionReferences(prev, PatchSectionIndex(prev, ps))
        alike == {i \in DOMAIN cur.secs : SectionReferences(cur, i) = before}
    IN  IF ps.name # None THEN PatchSectionIndex(cur, ps)
        ELSE IF before # {} /\ Cardinality(alike) = 1 THEN CHOOSE i \in alike : TRUE ELSE 0

\* match_patch_sections: against the snapshot.
MatchBySnapshot(f, old, psecs) ==
    LET prev(ps) == Object(old, Find(old, ps.ref, "match"))
        cur(ps) == Object(f, Find(f, ps.ref, "match"))
        was(ps) == PatchSectionIndex(prev(ps), ps)
        is(ps) == MatchedIndex(prev(ps), cur(ps), ps)
        pair(ps) == [prev |-> [ps EXCEPT !.idx = was(ps)],
                     cur |-> [ps EXCEPT !.idx = is(ps), !.data = cur(ps).secs[is(ps)].data]]
    IN  IF \/ \E ps \in psecs : Find(old, ps.ref, "match") = 0 \/ Find(f, ps.ref, "match") = 0
           \/ \E ps \in psecs : was(ps) = 0
           \/ \E ps \in psecs : is(ps) = 0
        THEN None
        ELSE [pairs |-> {pair(ps) : ps \in psecs},
              changed |-> {pair(ps).cur : ps \in {q \in psecs :
                              prev(q).secs[was(q)].data # cur(q).secs[is(q)].data}}]

OrElse(first, second) == IF first # None THEN first ELSE second
Unmoved(psecs) ==
    IF \E ps \in psecs : ps.name = None THEN None
    ELSE [pairs |-> {[prev |-> ps, cur |-> ps] : ps \in psecs}, changed |-> psecs]

\* The sections of patch_changed_inputs: matched by hash, else by the snapshot, else taken to
\* be where they were, which anonymous sections are not; all of them are then patched.
MatchSections(f, old, psecs) ==
    OrElse(MatchByHashes(f, psecs), OrElse(MatchBySnapshot(f, old, psecs), Unmoved(psecs)))

-----------------------------------------------------------------------------
(* Relocations of the changed file *)

\* relocation_target_patches_for_input, of one record: a symbol of the file that moved within
\* its section moves what was written by as much.
TargetPatch(f, r) ==
    LET p == Find(f, r.tref, "match")
        s == Object(f, p).syms[r.sym]
        delta == s.off - r.toff
    IN  IF p = 0 THEN [do |-> "skip"]
        ELSE IF r.sym \notin DOMAIN Object(f, p).syms THEN [do |-> "skip"]
        ELSE IF s.sec = r.tsec /\ delta = 0 THEN [do |-> "mask", mask |-> <<p, "sym", r.sym>>]
        ELSE IF s.sec # r.tsec \/ r.written + delta < 0 THEN [do |-> "fail"]
        ELSE [do |-> "patch", mask |-> <<p, "sym", r.sym>>,
              patch |-> PlainPatch(r.at, <<r.written + delta>>),
              was |-> r.value, now |-> r.value + delta, sym |-> r.sym,
              rec |-> [r EXCEPT !.written = @ + delta, !.value = @ + delta, !.toff = s.off]]

\* relocation_addend_patches_for_input, of one record (as left by TargetPatch).
AddendPatch(f, old, dyns, r) ==
    LET p == Find(f, r.ref, "match")
        hits == {e \in RelasOf(Object(f, p), r.sec) : e.off = r.off}
        e == CHOOSE e \in hits : TRUE
        q == Find(old, r.ref, "match")
        raw == q # 0 /\ \E o \in RelasOf(Object(old, q), r.sec) : o.off = r.off /\ o.add = e.add
        mask == <<p, "add", r.sec, r.off>>
    IN  IF p = 0 THEN [do |-> "skip"]
        ELSE IF hits = {} THEN [do |-> "skip"]
        ELSE IF e.add = r.add \/ raw THEN [do |-> "mask", mask |-> mask]
        ELSE IF r.off \in DynOffsets(dyns, r.ref, r.sec)
          THEN [do |-> "record", mask |-> mask, rec |-> [r EXCEPT !.add = e.add]]
        ELSE IF r.size # 8 \/ r.written + e.add - r.add < 0 THEN [do |-> "fail"]
        ELSE [do |-> "patch", mask |-> mask,
              patch |-> PlainPatch(r.at, <<r.written + e.add - r.add>>),
              rec |-> [r EXCEPT !.written = @ + e.add - r.add, !.add = e.add]]

Masks(results) == {x.mask : x \in {y \in results : y.do \notin {"skip", "gone", "fail"}}}
Patches(results) == {x.patch : x \in {y \in results : y.do = "patch"}}

\* output_symbol_value_patches: the symbol of the output that has the old value.
OutputSymbolPatches(cells, l, moved) ==
    {PlainPatch(l.sym[x.sym], <<x.now>>) : x \in moved}
OutputSymbolsFound(cells, l, moved) ==
    \A x \in moved : x.sym \in DOMAIN l.sym /\ cells[l.sym[x.sym]] = x.was

\* Mutant: a relocation that is gone keeps its entry.
DynamicPatchKept(f, d) ==
    LET p == Find(f, d.ref, "match")
        hits == {e \in RelasOf(Object(f, p), d.sec) : e.off = d.off}
        e == CHOOSE e \in hits : TRUE
    IN  IF p = 0 THEN [do |-> "skip"]
        ELSE IF hits = {} THEN [do |-> "gone", rec |-> d, patch |-> Patch(d.at, 0, <<>>, {}, NoAdjust)]
        ELSE [do |-> "kept", rec |-> d, mask |-> <<p, "add", d.sec, d.off>>,
              patch |-> PlainPatch(d.at, <<d.roff, d.rinfo, e.add>>)]

\* dynamic_relocation_patches_for_input_bytes, of one record: its entry takes the file's
\* addend, or is zeroed when the file no longer has the relocation.
DynamicPatch(f, d) ==
    LET p == Find(f, d.ref, "match")
        hits == {e \in RelasOf(Object(f, p), d.sec) : e.off = d.off}
        e == CHOOSE e \in hits : TRUE
    IN  IF p = 0 THEN [do |-> "skip"]
        ELSE IF hits = {} THEN [do |-> "gone", rec |-> d, patch |-> PlainPatch(d.at, <<0, 0, 0>>)]
        ELSE [do |-> "kept", rec |-> d, mask |-> <<p, "add", d.sec, d.off>>,
              patch |-> PlainPatch(d.at, <<d.roff, d.rinfo, e.add>>)]

\* free_dynamic_relocation_output_slots: the entries of .rela.dyn no record has.
FreeDynamicSlots(l, dyns) ==
    SetToSortSeq({l.rela + 3 * n : n \in 0 .. l.relaN - 1} \ {d.at : d \in dyns}, <)

\* added_dynamic_relocation_patches_for_input: a new relocation of a recorded section goes to a
\* free entry, on the model of an old one of that section against the same symbol.
AddedDynamicPatches(f, old, pairs, dyns, slots) ==
    LET o == Object(f, 1)
        model(m, e) == {d \in dyns : /\ d.sec = m.prev.idx
                                     /\ \E r \in RelasOf(Object(old, 1), m.prev.idx) :
                                           r.off = d.off /\ r.kind = e.kind /\ r.sym = e.sym}
        new == UNION {{[m |-> m, e |-> e] :
                         e \in {r \in RelasOf(o, m.cur.idx) :
                                  /\ \A x \in RelasOf(Object(old, 1), m.prev.idx) : x.off # r.off
                                  /\ model(m, r) # {}}} : m \in pairs}
        order == SetToSortSeq(new, LAMBDA a, b : \/ a.m.cur.idx < b.m.cur.idx
                                                 \/ a.m.cur.idx = b.m.cur.idx /\ a.e.off < b.e.off)
        Added(n) ==
            LET m == order[n].m
                e == order[n].e
                d == CHOOSE d \in model(m, e) : TRUE
                roff == d.roff + e.off - d.off
            IN  [do |-> "added", mask |-> <<1, "add", e.sec, e.off>>,
                 rec |-> [ref |-> m.cur.ref, sec |-> m.cur.idx, off |-> e.off, at |-> slots[n],
                          roff |-> roff, rinfo |-> d.rinfo],
                 patch |-> PlainPatch(slots[n], <<roff, d.rinfo, e.add>>)]
    IN  IF f.archive \/ old.archive THEN {}
        ELSE {Added(n) : n \in {k \in DOMAIN order : k <= Len(slots)}}

-----------------------------------------------------------------------------
(* Frame entries of the changed file *)

\* current_fde_record_for_previous_record: where the section a record's entry was for is now.
FdeTarget(o, old, r) ==
    LET named == {i \in DOMAIN o.secs : o.secs[i].name = old.secs[r.sec].name}
    IN  IF o.fdes = <<>> \/ named = {} THEN 0 ELSE Min(named)

\* fde_input_range_for_target_section_at_offset, else the first entry for that section, else
\* whatever is at the offset.
FdeIndex(o, old, r) ==
    LET sec == FdeTarget(o, old, r)
        to == {k \in DOMAIN o.fdes : o.fdes[k].sec = sec}
    IN  IF sec = 0 THEN 0
        ELSE IF r.inoff \in to THEN r.inoff
        ELSE IF to # {} THEN Min(to)
        ELSE IF r.inoff \in DOMAIN o.fdes THEN r.inoff ELSE 0

\* fde_relocation_patches_for_input_bytes, of one record: the entry is copied over the output's,
\* CIE pointer and pc-begin kept, pc-begin moved by as much as its addend.
FdePatch(o, old, p, r) ==
    LET k == FdeIndex(o, old, r)
        e == o.fdes[k]
        was == old.fdes[r.inoff]
        delta == e.add - was.add
    IN  IF k = 0 THEN [do |-> "gone", rec |-> r]
        ELSE IF (k # r.inoff /\ e.body # was.body) \/ e.sec # was.sec THEN [do |-> "skip"]
        ELSE [do |-> IF k # r.inoff \/ e.body # was.body \/ delta # 0 THEN "patch" ELSE "mask",
              mask |-> <<p, "fde", k>>, delta |-> delta, was |-> r,
              rec |-> [r EXCEPT !.sec = FdeTarget(o, old, r), !.inoff = k],
              patch |-> Patch(r.at, 3, <<e.body, 0, 0>>, {2, 3}, [c \in {3} |-> delta])]

\* added_fde_candidates_for_input_bytes: entries no record is for, of sections that are patched,
\* when an entry of the output says where their CIE is.
AddedFdes(o, old, ref, p, pairs, recs) ==
    LET found == {r \in recs : r.ref = ref /\ FdeIndex(o, old, r) # 0}
        matched == {<<FdeTarget(o, old, r), FdeIndex(o, old, r)>> : r \in found}
        in(k) == {m \in pairs : m.cur.ref = ref /\ m.cur.idx = o.fdes[k].sec}
        new == {k \in DOMAIN o.fdes : <<o.fdes[k].sec, k>> \notin matched /\ in(k) # {}}
        order == SetToSortSeq(new, <)
        Added(k) == [ref |-> ref, k |-> k, e |-> o.fdes[k], mask |-> <<p, "fde", k>>,
                     target |-> (CHOOSE m \in in(k) : TRUE).cur.at + o.fdes[k].add,
                     near |-> (CHOOSE r \in found : \A q \in found : r.at <= q.at).at]
    IN  IF found = {} THEN <<>> ELSE [n \in DOMAIN order |-> Added(order[n])]

\* output_cie_offset_for_fde.
CieOf(cells, fde) == fde + 1 - cells[fde + 1]

\* fde_add_patches_for_output: after the last entry, if the entries and a terminator fit in
\* what is still empty; None if not.
FdeAdditions(cells, l, adds) ==
    LET used == {n \in 0 .. l.ehN - 1 : \A m \in 0 .. n : cells[l.eh + 3 * m] # 0}
        start == l.eh + 3 * Cardinality(used)
        end == start + 3 * Len(adds)
        at(n) == start + 3 * (n - 1)
        data == FlattenSeq([n \in DOMAIN adds |->
                    FdeCells(at(n), CieOf(cells, adds[n].near), adds[n].e.body, adds[n].target)])
    IN  IF adds = <<>> THEN [patches |-> {}, recs |-> {}, hdr |-> <<>>]
        ELSE IF end >= l.eh + 3 * l.ehN THEN None
        ELSE IF \E c \in start .. end : cells[c] # 0 THEN None
        ELSE [patches |-> {PlainPatch(start, data \o <<0>>)},
              recs |-> {[ref |-> adds[n].ref, sec |-> adds[n].e.sec, inoff |-> adds[n].k, at |-> at(n)]
                          : n \in DOMAIN adds},
              hdr |-> [n \in DOMAIN adds |-> <<adds[n].target, at(n)>>]]

SortedEntries(entries) == \A i \in 1 .. Len(entries) - 1 : entries[i][1] <= entries[i + 1][1]

\* Mutant: an added entry stays at the end of the table.
HdrTableUnsorted(entries, removed, added) ==
    SelectSeq(entries, LAMBDA e : e[2] \notin removed) \o added

\* The entries once those of removed frame entries are gone and the added ones sorted in.
HdrTable(entries, removed, added) ==
    LET left == SelectSeq(entries, LAMBDA e : e[2] \notin removed) \o added
    IN  IF added = <<>> THEN left ELSE SortSeq(left, LAMBDA a, b : a[1] < b[1])

\* eh_frame_hdr_index_for_fde: there must be exactly one.
HdrIndices(entries, fde) == {i \in DOMAIN entries : entries[i][2] = fde}

\* eh_frame_hdr_patches_for_fde_changes: frame entries that moved or are gone are looked up by
\* their address; None when one is not found or the table would not be sorted or not fit.
HdrPatches(cells, l, moved, removed, added) ==
    LET count == cells[l.hdr]
        entry(i) == l.hdr + 1 + 2 * (i - 1)
        old == [i \in 1 .. count |-> <<cells[entry(i)], cells[entry(i) + 1]>>]
        at(fde) == HdrIndices(old, fde)
        changed == {i \in 1 .. count : \E m \in moved : m.at = old[i][2]}
        adjusted == [i \in 1 .. count |->
                        IF i \in changed
                        THEN <<old[i][1] + (CHOOSE m \in moved : m.at = old[i][2]).delta, old[i][2]>>
                        ELSE old[i]]
        table == HdrTable(adjusted, removed, added)
        first == Min(UNION {at(fde) : fde \in removed})
        Rows(rows, n) == LET flat == FlattenSeq(rows) IN flat \o Zeros(2 * n - Len(flat))
        Frame(i) == PlainPatch(entry(i), <<adjusted[i][1]>>)
    IN  IF moved = {} /\ removed = {} /\ added = <<>> THEN {}
        ELSE IF \E fde \in removed \cup {m.at : m \in moved} : Cardinality(at(fde)) # 1 THEN None
        ELSE IF ~SortedEntries(adjusted) THEN None
        ELSE IF added # <<>>
          THEN IF Len(table) > l.hdrN THEN None
               ELSE {PlainPatch(l.hdr, <<Len(table)>>), PlainPatch(l.hdr + 1, Rows(table, l.hdrN))}
        ELSE IF removed = {} THEN {Frame(i) : i \in changed}
        ELSE {Frame(i) : i \in {c \in changed : c < first}}
             \cup {PlainPatch(l.hdr, <<Len(table)>>),
                   PlainPatch(entry(first), Rows(SubSeq(table, first, Len(table)), count - first + 1))}

-----------------------------------------------------------------------------
(* What may differ outside the patched bytes *)

\* The sections that are not patched, by name, in order.
Others(o, patched) ==
    LET left == DOMAIN o.secs \ patched
        named(n) == SetToSortSeq({i \in left : o.secs[i].name = n}, <)
    IN  [n \in {o.secs[i].name : i \in left} |->
            [j \in DOMAIN named(n) |-> o.secs[named(n)[j]].data]]

Frames(o) == [k \in DOMAIN o.fdes |-> o.fdes[k].body]

\* The comparison the four exceptions below share: symbols and relocations are not looked at.
SameOtherSections(o, old, pairs, dropped) ==
    /\ Others(old, {m.prev.idx : m \in pairs} \cup dropped) = Others(o, {m.cur.idx : m \in pairs})
    /\ o.rest = old.rest

Offsets(o, i) == {r.off : r \in RelasOf(o, i)}

\* object_diff_allows_dynamic_relocation_removal.
AllowsDynamicRemoval(o, old, pairs, dyn) ==
    /\ \E d \in dyn : d.do = "gone"
    /\ \A m \in pairs : m.prev.idx = m.cur.idx
    /\ \A i \in {d.rec.sec : d \in dyn} :
          Offsets(o, i) \subseteq {d.rec.off : d \in {e \in dyn : e.do # "gone" /\ e.rec.sec = i}}
    /\ SameOtherSections(o, old, pairs, {}) /\ Frames(o) = Frames(old)

\* object_diff_allows_dynamic_relocation_addition.
AllowsDynamicAddition(o, old, pairs, dyn) ==
    LET added(i) == {d.rec.off : d \in {e \in dyn : e.rec.sec = i}} \ Offsets(old, i)
        secs == {d.rec.sec : d \in dyn}
    IN  /\ \A d \in dyn : d.do # "gone"
        /\ \A i \in secs : /\ Offsets(old, i) \subseteq Offsets(o, i)
                           /\ Offsets(o, i) \ Offsets(old, i) \subseteq added(i)
        /\ \E i \in secs : added(i) # {}
        /\ SameOtherSections(o, old, pairs, {}) /\ Frames(o) = Frames(old)

\* object_diff_allows_fde_removal and object_diff_allows_fde_addition.
AllowsFdeRemoval(o, old, pairs, fdes) ==
    LET gone == {x.rec : x \in {y \in fdes : y.do = "gone"}}
    IN  gone # {} /\ SameOtherSections(o, old, pairs, {r.sec : r \in gone})
AllowsFdeAddition(o, old, pairs, adds) == adds # <<>> /\ SameOtherSections(o, old, pairs, {})

-----------------------------------------------------------------------------
(* patch_changed_inputs, up to the update marker *)

NoRecords == [secs |-> {}, relocs |-> {}, dyns |-> {}, fdes |-> {}]

\* The records an attempt has read: none, those of the changed file, or all of them, the
\* generated sections' included.
RecordsRead == IF level = "metadata" THEN NoRecords
               ELSE [secs |-> st.secs, relocs |-> st.relocs, dyns |-> st.dyns, fdes |-> st.fdes]
RecordsComplete == level = "full"

\* current_patch_state_from_snapshot when the state has no patch metadata, and
\* patch_sections_from_previous_state.
PreviousPatch(recs) ==
    IF st.patch # None THEN st.patch
    ELSE IF recs.secs = {} THEN None ELSE CurrentPatchState(snap, out.cells, recs)

\* relocation_target_patches_for_input and relocation_addend_patches_for_input change the
\* records as they go.
AfterTarget(r) == LET x == TargetPatch(file, r) IN IF x.do = "patch" THEN x.rec ELSE r
AfterAddend(dyns, r) ==
    LET x == AddendPatch(file, snap, dyns, AfterTarget(r))
    IN  IF x.do \in {"patch", "record"} THEN x.rec ELSE AfterTarget(r)

\* update_section_records_for_matched_patches and update_fde_records.
UpdatedSection(pairs, s) ==
    LET m == {x \in pairs : /\ x.prev.ref = s.ref /\ x.prev.idx = s.idx
                            /\ x.prev.at = s.at /\ x.prev.size = s.size}
    IN  IF m = {} THEN s ELSE [s EXCEPT !.idx = (CHOOSE x \in m : TRUE).cur.idx]
UpdatedFdes(recs, fdes) ==
    {IF \E x \in fdes : x.do \in {"mask", "patch"} /\ x.was = r
     THEN (CHOOSE x \in fdes : x.do \in {"mask", "patch"} /\ x.was = r).rec ELSE r
       : r \in recs.fdes \ {x.rec : x \in {y \in fdes : y.do = "gone"}}}

FdeResults(recs) ==
    {FdePatch(Object(file, Find(file, r.ref, "match")), Object(snap, Find(snap, r.ref, "match")),
              Find(file, r.ref, "match"), r)
       : r \in {q \in recs.fdes : Find(file, q.ref, "match") # 0 /\ Find(snap, q.ref, "match") # 0}}
FdeCandidates(recs, pairs) ==
    FlattenSeq([p \in DOMAIN file.members |->
        IF Find(snap, Ref(file, p), "match") # p THEN <<>>
        ELSE AddedFdes(Object(file, p), Object(snap, p), Ref(file, p), p, pairs, recs.fdes)])

\* What has changed in the file, record by record.
Changes(recs, pairs) ==
    LET slots == IF RecordsComplete THEN FreeDynamicSlots(lay, recs.dyns) ELSE <<>>
    IN  [targets |-> {TargetPatch(file, r) : r \in recs.relocs},
         addends |-> {AddendPatch(file, snap, recs.dyns, AfterTarget(r)) : r \in recs.relocs},
         dyn |-> {x \in {DynamicPatch(file, d) : d \in recs.dyns} : x.do # "skip"}
                 \cup AddedDynamicPatches(file, snap, pairs, recs.dyns, slots),
         fdes |-> FdeResults(recs),
         adds |-> FdeCandidates(recs, pairs)]

AllMasks(ch) ==
    Masks(ch.targets) \cup Masks(ch.addends) \cup Masks(ch.dyn) \cup Masks(ch.fdes)
    \cup {ch.adds[n].mask : n \in DOMAIN ch.adds}

\* The rest of the file is as before, or differs in a way one of the exceptions allows.
RestAllows(recs, before, pairs, ch, fp) ==
    LET o == Object(file, 1)
        old == Object(snap, 1)
    IN  \/ fp = before.fp
        \/ recs = NoRecords /\ fp = Fingerprint(snap, {m.prev : m \in pairs}, {}, "match")
        \/ /\ ~file.archive
           /\ \/ AllowsDynamicRemoval(o, old, pairs, ch.dyn)
              \/ AllowsDynamicAddition(o, old, pairs, ch.dyn)
              \/ AllowsFdeRemoval(o, old, pairs, ch.fdes)
              \/ AllowsFdeAddition(o, old, pairs, ch.adds)

\* The patches that follow from the file alone.
InputPatches(ch, resolved) ==
    {x.patch : x \in resolved} \cup {d.patch : d \in ch.dyn}
    \cup Patches(ch.addends) \cup Patches(ch.targets) \cup Patches(ch.fdes)

\* The table of frame entries after those that moved, are gone or are new.
HeaderPatches(ch, additions) ==
    HdrPatches(out.cells, lay,
               {[at |-> x.was.at, delta |-> x.delta]
                  : x \in {y \in ch.fdes : y.do = "patch" /\ y.delta # 0}},
               {x.rec.at : x \in {y \in ch.fdes : y.do = "gone"}}, additions.hdr)

\* The records after the patch.  Dynamic relocations that are gone keep theirs, to be put back.
NewRecords(recs, pairs, ch, additions) ==
    [secs |-> {UpdatedSection(pairs, s) : s \in recs.secs},
     relocs |-> {AfterAddend(recs.dyns, r) : r \in recs.relocs},
     dyns |-> recs.dyns \cup {d.rec : d \in {e \in ch.dyn : e.do = "added"}},
     fdes |-> UpdatedFdes(recs, ch.fdes) \cup additions.recs]
RecordsChange(recs, new, ch) ==
    \/ new.secs # recs.secs \/ new.dyns # recs.dyns \/ new.fdes # recs.fdes
    \/ \E d \in ch.dyn : d.do = "gone"

\* What is written, and the state after it, when the new records and all patches are known.
Committed(recs, new, ch, all, patch) ==
    IF Overlapping(all) \/ (RecordsChange(recs, new, ch) /\ ~RecordsComplete) THEN None
    ELSE [patches |-> SetToSeq(all), ranges |-> {<<x.at, x.at + x.size - 1>> : x \in all},
          tree |-> None,
          st |-> IF RecordsChange(recs, new, ch)
                 THEN [secs |-> new.secs, relocs |-> new.relocs, dyns |-> new.dyns,
                       fdes |-> new.fdes, patch |-> patch]
                 ELSE [st EXCEPT !.patch = patch]]

\* The patches that follow from the changes of the relocations and frame entries.
PlanChanges(recs, before, matched, ch) ==
    LET pairs == matched.pairs
        fp == Fingerprint(file, {m.cur : m \in pairs}, AllMasks(ch), "match")
        resolved == {Resolve(file, ps, {d.rec : d \in ch.dyn}) : ps \in matched.changed}
        symbols == {x \in ch.targets : x.do = "patch"}
        additions == FdeAdditions(out.cells, lay, ch.adds)
        header == HeaderPatches(ch, additions)
        patch == [fp |-> fp,
                  secs |-> {m.cur : m \in {x \in pairs : x.cur \notin matched.changed}}
                           \cup {x.sec : x \in resolved}]
    IN  IF fp = None THEN None
        ELSE IF ~RestAllows(recs, before, pairs, ch, fp) \/ None \in resolved THEN None
        ELSE IF \/ Overlapping(InputPatches(ch, resolved))
                \/ ~OutputSymbolsFound(out.cells, lay, symbols)
               THEN None
        ELSE IF additions = None THEN None
        ELSE IF header = None THEN None
        ELSE Committed(recs, NewRecords(recs, pairs, ch, additions), ch,
                       InputPatches(ch, resolved) \cup OutputSymbolPatches(out.cells, lay, symbols)
                         \cup additions.patches \cup header,
                       patch)

PlanMatched(recs, before, matched) ==
    IF \E r \in recs.relocs : \/ TargetPatch(file, r).do = "fail"
                              \/ AddendPatch(file, snap, recs.dyns, AfterTarget(r)).do = "fail"
      THEN None
    ELSE IF matched = None THEN None
    ELSE PlanChanges(recs, before, matched, Changes(recs, matched.pairs))

PlanFrom(recs, before) ==
    IF before = None \/ MemberIds(file) # MemberIds(snap) THEN None
    ELSE PlanMatched(recs, before, MatchSections(file, snap, before.secs))

\* The patches of the output and the state after them, or None when the difference between the
\* file and its snapshot cannot be patched with the records that were read.  A change of what
\* relocations write is only kept in the records when something else makes them be written.
Plan == PlanFrom(RecordsRead, PreviousPatch(RecordsRead))

-----------------------------------------------------------------------------
(* The links *)

NoteOf == NoteCells(lay)

PatchInit ==
    /\ setting \in Setting
    /\ file \in setting.versions
    /\ snap = file
    /\ lay = LayoutOf(file) /\ st = LinkedRecords(file)
    /\ \E cells \in {LinkedCells(file)} : out = Linked(file, cells) /\ tree = TreeOver(file, cells)
    /\ marker = FALSE /\ pc = "idle" /\ level = "full" /\ work = None /\ edits = 0

\* The user changes the file between links.
Edit ==
    /\ pc = "idle" /\ edits < setting.edits
    /\ file' \in setting.versions \ {file}
    /\ edits' = edits + 1
    /\ UNCHANGED <<setting, snap, out, lay, st, tree, marker, pc, level, work>>

\* maybe_reuse_output_before_loading: an unfinished update makes the link a full one, a file
\* that is not its snapshot is patched, from the patch metadata alone when records are indexed.
StartLink ==
    /\ pc = "idle" /\ (marker \/ file # snap)
    /\ pc' = IF marker THEN "relink" ELSE "patch"
    /\ level' = IF setting.indexed THEN "metadata" ELSE "full"
    /\ UNCHANGED <<setting, file, snap, out, lay, st, tree, marker, work, edits>>

\* An attempt that finds nothing it may do is retried with more records, then given up.
Retry ==
    /\ pc = "patch" /\ Plan = None
    /\ IF level = "full" THEN pc' = "relink" /\ UNCHANGED level
       ELSE level' = (IF level = "metadata" THEN "filtered" ELSE "full") /\ UNCHANGED pc
    /\ UNCHANGED <<setting, file, snap, out, lay, st, tree, marker, work, edits>>

\* mark_incremental_update_started.
StartPatch ==
    /\ pc = "patch"
    /\ \E plan \in {Plan} : plan # None /\ work' = plan
    /\ marker' = TRUE /\ pc' = "apply"
    /\ UNCHANGED <<setting, file, snap, out, lay, st, tree, level, edits>>

ApplyPatch ==
    /\ pc = "apply" /\ work.patches # <<>>
    /\ out' = [out EXCEPT !.cells = Patched(@, Head(work.patches))]
    /\ work' = [work EXCEPT !.patches = Tail(@)]
    /\ UNCHANGED <<setting, file, snap, lay, st, tree, marker, pc, level, edits>>

\* write_fast_build_id_from_state and write_build_id_hash_tree.
UpdateBuildId ==
    /\ pc = "apply" /\ work.patches = <<>>
    /\ LET updated == UpdateTree(tree, out.cells, NoteOf, TouchedGroups(work.ranges))
       IN  /\ out' = [out EXCEPT !.id = RootHash(updated, Len(out.cells))]
           /\ work' = [work EXCEPT !.tree = updated]
    /\ pc' = "save_tree"
    /\ UNCHANGED <<setting, file, snap, lay, st, tree, marker, level, edits>>

SaveTree ==
    /\ pc = "save_tree"
    /\ tree' = work.tree /\ pc' = "snapshot"
    /\ UNCHANGED <<setting, file, snap, out, lay, st, marker, level, work, edits>>

\* snapshot_input_paths.
Snapshot ==
    /\ pc = "snapshot"
    /\ snap' = file /\ pc' = "save_state"
    /\ UNCHANGED <<setting, file, out, lay, st, tree, marker, level, work, edits>>

\* write_metadata_update_for_inputs: without a change of the records only the patch metadata
\* of the changed files is written.
SaveState ==
    /\ pc = "save_state"
    /\ st' = work.st /\ pc' = "clear"
    /\ UNCHANGED <<setting, file, snap, out, lay, tree, marker, level, work, edits>>

\* clear_incremental_update_marker.
FinishPatch ==
    /\ pc = "clear"
    /\ marker' = FALSE /\ pc' = "idle" /\ work' = None
    /\ UNCHANGED <<setting, file, snap, out, lay, st, tree, level, edits>>

\* A full link and the state it persists (in steps: IncrementalLink).
Relink ==
    /\ pc = "relink"
    /\ lay' = LayoutOf(file) /\ st' = LinkedRecords(file)
    /\ \E cells \in {LinkedCells(file)} : out' = Linked(file, cells) /\ tree' = TreeOver(file, cells)
    /\ snap' = file /\ marker' = FALSE /\ pc' = "idle"
    /\ UNCHANGED <<setting, file, level, work, edits>>

\* The linker is killed in the middle of a patch.
Crash ==
    /\ pc \in {"apply", "save_tree", "snapshot", "save_state", "clear"}
    /\ pc' = "idle" /\ work' = None
    /\ UNCHANGED <<setting, file, snap, out, lay, st, tree, marker, level, edits>>

PatchNext ==
    \/ Edit \/ StartLink \/ Retry \/ StartPatch \/ ApplyPatch \/ UpdateBuildId \/ SaveTree
    \/ Snapshot \/ SaveState \/ FinishPatch \/ Relink \/ Crash

PatchSpec == PatchInit /\ [][PatchNext]_patchVars

-----------------------------------------------------------------------------
(* Properties *)

\* No link is in progress and the last one took the file as it is.
Settled == pc = "idle" /\ ~marker /\ snap = file

\* Where the state says a section of the file is in the output.
PlaceNow(k) ==
    LET in(recs) == {r.at : r \in {q \in recs : q.ref = Ref(file, k[1]) /\ q.idx = k[2]}}
    IN  IF st.patch # None /\ in(st.patch.secs) # {} THEN CHOOSE a \in in(st.patch.secs) : TRUE
        ELSE CHOOSE a \in in(st.secs) : TRUE
AddressNow(sym) ==
    LET p == CHOOSE p \in DefinedIn(file, sym) : TRUE
    IN  PlaceNow(<<p, Object(file, p).syms[sym].sec>>) + Object(file, p).syms[sym].off
ValueNow(x) == IF x.r.kind = "abs" /\ setting.dynamic # "no" THEN 0
               ELSE AddressNow(x.r.sym) + x.r.add

\* After a link, patched or full, every section in the output has the file's bytes, every word
\* the linker computes has the value a full link at these addresses would give it, every symbol
\* its address (patch_changed_inputs).
SectionBytesFresh ==
    Settled =>
    /\ \A k \in Keys(file) : \A c \in DOMAIN Sec(file, k).data :
          LET hit == {x \in AllRelas(file) : <<x.p, x.r.sec>> = k /\ x.r.off = c}
          IN  out.cells[PlaceNow(k) + c - 1] =
                 IF hit = {} THEN Sec(file, k).data[c] ELSE ValueNow(CHOOSE x \in hit : TRUE)
    /\ st.patch # None => \A ps \in st.patch.secs :
          \A c \in Len(ps.data) + 1 .. ps.size : out.cells[ps.at + c - 1] = 0
    /\ \A sym \in AllSyms(file) \cap DOMAIN lay.sym : out.cells[lay.sym[sym]] = AddressNow(sym)

\* After a link the dynamic loader is asked for exactly the relocations the file has: none is
\* left of what an edit removed and none that an edit added is missing.
DynamicRelocationsFresh ==
    Settled =>
    LET entries == {SubSeq(out.cells, lay.rela + 3 * n, lay.rela + 3 * n + 2) : n \in 0 .. lay.relaN - 1}
        dynamic == {x \in AllRelas(file) : x.r.kind = "abs" /\ setting.dynamic # "no"}
        place(x) == PlaceNow(<<x.p, x.r.sec>>) + x.r.off - 1
    IN  entries \ {<<0, 0, 0>>} =
          {IF setting.dynamic = "symbolic" THEN <<place(x), x.r.sym, x.r.add>>
           ELSE <<place(x), RelativeInfo, AddressNow(x.r.sym) + x.r.add>> : x \in dynamic}

\* After a link, patched or full, the loaded program sees what a full link at these addresses
\* would have written: sections, symbols and what the dynamic loader adds to them.
OutputFresh == SectionBytesFresh /\ DynamicRelocationsFresh

\* After a link the binary search of .eh_frame_hdr finds a frame entry for exactly the
\* functions the file has, each with its own start, its own instructions and a CIE.
UnwindTableFresh ==
    Settled /\ lay.ehN > 0 =>
    LET table == [i \in 1 .. out.cells[lay.hdr] |->
                    <<out.cells[lay.hdr + 2 * i - 1], out.cells[lay.hdr + 2 * i]>>]
        fdes == AllFdes(file)
        target(x) == PlaceNow(<<x.p, x.e.sec>>) + x.e.add
        Describes(row, x) ==
            /\ row[1] = target(x)
            /\ SubSeq(out.cells, row[2], row[2] + 2) = FdeCells(row[2], lay.eh, x.e.body, target(x))
    IN  /\ SortedEntries(table)
        /\ \A k \in DOMAIN fdes : \E i \in DOMAIN table : Describes(table[i], fdes[k])
        /\ \A i \in DOMAIN table : \E k \in DOMAIN fdes : Describes(table[i], fdes[k])

\* After a link the build id is the hash of the whole output, though only what the patches
\* touched was hashed, and the saved tree will say so of the next patch.
BuildIdFresh ==
    pc = "idle" /\ ~marker => /\ tree = TreeOf(out.cells, NoteOf)
                              /\ out.id = RootHash(tree, Len(out.cells))
=============================================================================
