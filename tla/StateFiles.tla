----------------------------- MODULE StateFiles -----------------------------
(***************************************************************************)
(* What libsld/src/incremental.rs keeps in the state directory and how it  *)
(* is read back: the records of sections, relocations, FDEs and dynamic    *)
(* relocations in a sidecar of one block per input file, the index with    *)
(* the table that says where each file's blocks are, the metadata update   *)
(* that replaces some lines of the index, and the snapshots of the inputs. *)
(* Two kinds of operation change them, a full link (Save) and a patch of   *)
(* changed inputs, one file at a time, and the process may die in between. *)
(*                                                                         *)
(* A hash, and a file name made from one, is the content it hashes.  Of a  *)
(* record the input it belongs to and the input it refers to are kept, the *)
(* numbers in it are one number.  The decisions that lead to a save or a   *)
(* patch are in IncrementalLink, the contents of the patch in PatchInputs. *)
(***************************************************************************)
EXTENDS Integers, Sequences, FiniteSets, SequencesExt

CONSTANTS
    File,        \* input files
    Content,     \* what a file can contain
    FirstContent,
    RecordSets,  \* the sets of records links may come to
    Legacy,      \* the layouts of an index that an older version left behind
    EditSets,    \* the sets of inputs that are edited in a behaviour
    RustInputs,  \* is_atomic_replacement_rust_input
    ReadOnly,    \* inputs that are not writable, so not snapshotted
    Absent, Error,
    MaxSaves, MaxEdits, MaxTears   \* bounds

\* A record: "section", "reloc", "fde" or "dynrel", what distinguishes it within its input, the
\* input (a file and a member of it) and for a relocation the input it refers to.
IsRecord(r) ==
    /\ r = [kind |-> r.kind, n |-> r.n, input |-> r.input, target |-> r.target]
    /\ r.kind \in {"section", "reloc", "fde", "dynrel"} /\ r.n \in Nat
    /\ r.input[1] \in File
    /\ r.target = Absent \/ (r.kind = "reloc" /\ r.target[1] \in File)

ASSUME StateConstantsAssumption ==
    /\ \A R \in RecordSets : IsFiniteSet(R) /\ \A r \in R : IsRecord(r)
    /\ FirstContent \in Content
    /\ EditSets \subseteq SUBSET File /\ RustInputs \subseteq File /\ ReadOnly \subseteq File
    /\ Legacy \subseteq {"sections", "separate", "unlocated"}
    /\ Absent \notin Content /\ Error # Absent
    /\ MaxSaves \in Nat /\ MaxEdits \in Nat /\ MaxTears \in Nat

VARIABLES
    edited,      \* the inputs that are edited in this behaviour
    source,      \* the inputs on disk: content and inode
    plain,       \* snapshots by file: content and inode, or Absent
    compressed,  \* compressed snapshots by file: content, or Absent
    sidecar,     \* sections files by name
    index,       \* INDEX_FILE
    update,      \* METADATA_UPDATE_FILE
    marked,      \* the update marker exists
    saver,       \* what the running link does next; "idle" when none runs
    saving,      \* the PersistedState it is writing
    loaded,      \* the contents it has loaded
    todo,        \* inputs it has still to snapshot
    last,        \* ghost: what the last completed save or patch stored
    raced,       \* ghost: inputs that changed under their snapshot or while a link ran
    used         \* saves, edits and tears so far

stateVars == <<edited, source, plain, compressed, sidecar, index, update, marked, saver, saving,
               loaded, todo, last, raced, used>>

snapshots == <<plain, compressed>>
disk == <<sidecar, index, update>>

-----------------------------------------------------------------------------
(* Records: write_rendered_records and the parsers *)

\* The inputs a record names.
Named(r) == IF r.target = Absent THEN {r.input} ELSE {r.input, r.target}

\* The "section-input" lines: every input once.  (In the order of first use, which no reader
\* relies on; nor on the order of the records, by kind and sorted within a kind.)
SectionInputs(R) == SetToSeq(UNION {Named(r) : r \in R})

\* A line refers to an input by its number.
SectionInputId(inputs, i) == CHOOSE k \in DOMAIN inputs : inputs[k] = i

Line(r, inputs) ==
    [kind |-> r.kind, n |-> r.n, input |-> SectionInputId(inputs, r.input),
     target |-> IF r.target = Absent THEN Absent ELSE SectionInputId(inputs, r.target)]

WriteRenderedRecords(R) ==
    LET inputs == SectionInputs(R) IN
    [inputs |-> inputs, lines |-> {Line(r, inputs) : r \in R}]

\* parse_compact_section_line, parse_compact_fde_line, parse_compact_dynamic_relocation_line.
ParseOwnLine(l, inputs) ==
    [kind |-> l.kind, n |-> l.n, input |-> inputs[l.input], target |-> Absent]

ParseRelocationLine(l, inputs) ==
    [ParseOwnLine(l, inputs) EXCEPT !.target =
        IF l.target = Absent THEN Absent ELSE inputs[l.target]]

ParseLine(l, inputs) ==
    IF l.kind = "reloc" THEN ParseRelocationLine(l, inputs) ELSE ParseOwnLine(l, inputs)

ParseCompactRecordsBlock(b) == {ParseLine(l, b.inputs) : l \in b.lines}

\* compact_record_matches_input and compact_relocation_record_matches_input.
LineMatches(l, matched) ==
    \/ l.input \in matched
    \/ l.kind = "reloc" /\ l.target # Absent /\ l.target \in matched

\* parse_compact_records_block_for_input_files: lines are selected before they are parsed.
ParseBlockForFiles(b, F) ==
    LET matched == {i \in DOMAIN b.inputs : b.inputs[i][1] \in F} IN
    {ParseLine(l, b.inputs) : l \in {k \in b.lines : LineMatches(k, matched)}}

\* The records that matter when the files F changed: their own, and relocations into them.
Concerns(r, F) == r.input[1] \in F \/ (r.kind = "reloc" /\ r.target # Absent /\ r.target[1] \in F)

-----------------------------------------------------------------------------
(* The indexed sidecar: write_indexed_records_streaming *)

Owners(R) == {r.input[1] : r \in R}
OwnerSeq(R) == SetToSeq(Owners(R))     \* sorted by path in the code
OwnedBy(R, f) == {r \in R : r.input[1] = f}

Blocks(R) == [i \in 1..Cardinality(Owners(R)) |-> WriteRenderedRecords(OwnedBy(R, OwnerSeq(R)[i]))]

\* PatchRecordLocation.  A block's place in the file stands for its offset and length.
Location(f, at, blocks) == [file |-> f, at |-> at, hash |-> blocks[at]]

\* Mutant: the table says of every file only where its own records are.
OwnLocations(R) == {Location(OwnerSeq(R)[i], i, Blocks(R)) : i \in DOMAIN Blocks(R)}

\* A file is also listed at the blocks of files with relocations that refer to it.
Locations(R) ==
    LET blocks == Blocks(R) IN
    {Location(OwnerSeq(R)[i], i, blocks) : i \in DOMAIN blocks}
    \cup UNION {{Location(r.target[1], i, blocks)
                   : r \in {x \in OwnedBy(R, OwnerSeq(R)[i])
                              : x.target # Absent /\ x.target[1] # x.input[1]}}
                  : i \in DOMAIN blocks}

\* All records in one block, as older versions wrote them.
Whole(R) == <<WriteRenderedRecords(R)>>

\* The sidecar's name: a prefix that tells its format, and the hash of its contents.
SidecarName(prefix, contents) == [prefix |-> prefix, hash |-> contents]

\* A file gets its name when it is complete, and replaces one that has it.
WithFile(files, name, contents) ==
    [n \in {name} \cup DOMAIN files |-> IF n = name THEN contents ELSE files[n]]

\* PatchSectionReadMode::PreserveRaw of an "input" line: the patch metadata is kept as text.
ParseInputRaw(line) ==
    [content |-> line.content,
     patch |-> IF line.patch = Absent THEN Absent ELSE [sections |-> {}, raw |-> line.patch]]

\* An "input" line.
InputLine == [content : Content, patch : {Absent} \cup SUBSET Content]

\* render_input_line_rest and render_patch_sections.
RenderInput(input) ==
    [content |-> input.content,
     patch |-> CASE input.patch = Absent -> Absent
                 [] input.patch # Absent /\ input.patch.sections = {} /\ input.patch.raw # Absent
                      -> input.patch.raw
                 [] OTHER -> input.patch.sections]

RenderInputs(state) == [f \in File |-> RenderInput(state.inputs[f])]

\* render_patch_record_location_table: a table that was not parsed is written as it was read.
RenderTable(state) == IF state.raw # Absent THEN state.raw ELSE state.locations

RenderIndex(state) ==
    [sections |-> state.sections, patchRecords |-> state.patchRecords,
     table |-> RenderTable(state), inputs |-> RenderInputs(state)]

\* render_metadata_update for the inputs F.
RenderMetadataUpdate(state, F) == [inputs |-> [f \in F |-> RenderInput(state.inputs[f])]]

-----------------------------------------------------------------------------
(* Reading *)

\* apply_metadata_update and read_impl without the sections: locations stay as text.
ReadMetadata ==
    IF index = Absent THEN Absent
    ELSE [sections |-> index.sections, patchRecords |-> index.patchRecords,
          locations |-> {}, raw |-> index.table,
          inputs |-> [f \in File |->
              ParseInputRaw(IF update # Absent /\ f \in DOMAIN update.inputs
                              THEN update.inputs[f] ELSE index.inputs[f])]]

\* read_patch_metadata_for_input_indices: the update's line if it has one, else the index's.
PatchMetadataFor(f) ==
    IF update # Absent /\ f \in DOMAIN update.inputs
      THEN ParseInputRaw(update.inputs[f]).patch ELSE ParseInputRaw(index.inputs[f]).patch

\* read_sections_sidecar: the whole file, which must hash to its name.
ReadSidecar(name) ==
    IF name \notin DOMAIN sidecar \/ sidecar[name] # name.hash THEN Error ELSE sidecar[name][1]

\* read_indexed_records_at_locations.
ReadAt(name, L) ==
    IF \/ name \notin DOMAIN sidecar
       \/ \E l \in L : l.at > Len(sidecar[name]) \/ sidecar[name][l.at] # l.hash
      THEN Error
      ELSE UNION {ParseCompactRecordsBlock(sidecar[name][l.at]) : l \in L}

\* read_indexed_patch_records; Absent when the table does not know one of the files.
ReadIndexed(state, F) ==
    LET table == state.raw    \* materialize_patch_record_locations
        canonical == state.sections = state.patchRecords
        L == {l \in table : l.file \in F}
        records == ReadAt(state.patchRecords, L)
    IN CASE table = {} -> IF canonical THEN {} ELSE Absent
         [] table # {} /\ ~canonical /\ \E f \in F : \A l \in L : l.file # f -> Absent
         [] OTHER -> IF records = Error THEN Error ELSE {r \in records : Concerns(r, F)}

\* The part of read_records_for_input_files after the index: the whole sections file.
ReadFiltered(name, F) ==
    LET b == ReadSidecar(name) IN IF b = Error THEN Error ELSE ParseBlockForFiles(b, F)

\* read_records_for_input_files.
ReadRecordsFor(F) ==
    LET state == ReadMetadata
        canonical == state.sections = state.patchRecords
        indexed == ReadIndexed(state, F)
        unlocated == ReadFiltered(state.patchRecords, F)
    IN IF state.patchRecords = Absent THEN ReadFiltered(state.sections, F)
       ELSE IF indexed # Absent THEN indexed
       ELSE IF canonical THEN {}
       ELSE IF state.raw = {} /\ unlocated = Error THEN Error
       ELSE IF state.raw = {} /\ \A f \in F : \E r \in unlocated :
                                    r.kind = "section" /\ r.input[1] = f
         THEN unlocated
       ELSE ReadFiltered(state.sections, F)

\* PersistedState::read, for the records.
ReadAllRecords ==
    IF index.sections = index.patchRecords THEN ReadAt(index.patchRecords, index.table)
    ELSE LET b == ReadSidecar(index.sections) IN
         IF b = Error THEN Error ELSE ParseCompactRecordsBlock(b)

-----------------------------------------------------------------------------
(* Snapshots *)

\* The bytes read: the plain snapshot, or if there is none the compressed one.
SnapshotBytes(f) == IF plain[f] # Absent THEN plain[f].content ELSE compressed[f]

\* read_verified_input_snapshot against the content the state records.
ReadVerifiedSnapshot(f) ==
    IF SnapshotBytes(f) = ReadMetadata.inputs[f].content THEN SnapshotBytes(f) ELSE Absent

-----------------------------------------------------------------------------
(* Initial states: no state, or one that an older version wrote *)

NoPatch(c) == [f \in File |-> [content |-> c[f], patch |-> Absent]]

\* An index that names one sidecar with every record, and perhaps a second file with the records
\* of some inputs, in blocks or as one block.  (Blocks come with a table; one without a table is
\* read as one block.)
LegacyState(layout, R, some) ==
    LET all == Whole(R)
        part == {r \in R : Concerns(r, some)}
        blocks == IF layout = "separate" THEN Blocks(R) ELSE Whole(part)
        name == SidecarName("sections", all)
        patch == SidecarName("patch", blocks)
    IN [sidecar |-> IF layout = "sections" THEN WithFile(<<>>, name, all)
                   ELSE WithFile(WithFile(<<>>, name, all), patch, blocks),
        index |-> [sections |-> name,
                   patchRecords |-> IF layout = "sections" THEN Absent ELSE patch,
                   table |-> IF layout = "separate" THEN {l \in Locations(R) : l.file \in some}
                             ELSE {},
                   inputs |-> NoPatch([f \in File |-> FirstContent])]]

\* An index tells None from what stands in its place, and an error from records.
ASSUME MissingAssumption ==
    /\ Absent \notin Nat /\ Absent \notin [content : Content, ino : Nat]
    /\ Absent \notin [sections : SUBSET Content, raw : {Absent} \cup SUBSET Content]
    /\ \A F \in SUBSET File : Absent \notin [inputs : [F -> InputLine]]
    /\ \A R \in RecordSets :
          /\ \A S \in SUBSET R : S # Absent /\ S # Error /\ WriteRenderedRecords(S) # Error
          /\ \A T \in SUBSET Locations(R) : T # Absent
          /\ \A i \in {<<"indexed", Blocks(R)>>, <<"patch", Blocks(R)>>, <<"sections", Whole(R)>>} :
                SidecarName(i[1], i[2]) # Absent
          /\ \A S \in SUBSET R : SidecarName("patch", Whole(S)) # Absent

NothingSaved == [records |-> {}, inputs |-> NoPatch([f \in File |-> FirstContent])]

StateInit ==
    /\ edited \in EditSets
    /\ source = [f \in File |-> [content |-> FirstContent, ino |-> 0]]
    /\ plain = [f \in File |-> Absent] /\ compressed = [f \in File |-> Absent]
    /\ \/ /\ sidecar = <<>> /\ index = Absent /\ last = NothingSaved
          /\ raced = {} /\ used = [saves |-> 0, edits |-> 0, tears |-> 0]
       \/ \E layout \in Legacy, R \in RecordSets, some \in (SUBSET File) \ {{}} :
            /\ layout = "separate" => \E l \in Locations(R) : l.file \in some
            /\ sidecar = LegacyState(layout, R, some).sidecar
            /\ index = LegacyState(layout, R, some).index
            /\ last = [NothingSaved EXCEPT !.records = R]
            /\ raced = File /\ used = [saves |-> 1, edits |-> 0, tears |-> 0]
    /\ update = Absent /\ marked = FALSE /\ saver = "idle" /\ saving = Absent
    /\ loaded = [f \in File |-> Absent] /\ todo = {}

-----------------------------------------------------------------------------
(* The environment *)

\* An input is replaced (a new inode) or overwritten, which also changes a hardlink to it.
EditInput(f, c, inPlace) ==
    /\ used.edits < MaxEdits /\ f \in edited /\ source[f].content # c
    /\ used' = [used EXCEPT !.edits = @ + 1]
    /\ source' = [source EXCEPT ![f] = [content |-> c,
                                    ino |-> IF inPlace THEN @.ino ELSE used.edits + 1]]
    /\ plain' = IF inPlace /\ plain[f] # Absent /\ plain[f].ino = source[f].ino
                  THEN [plain EXCEPT ![f].content = c] ELSE plain
    /\ raced' = IF saver # "idle" \/ plain' # plain THEN raced \cup {f} ELSE raced
    /\ UNCHANGED <<edited, compressed, disk, marked, saver, saving, loaded, todo, last>>

\* The machine stops: nothing is synced, so the end of a sidecar may never reach the disk.
Tear ==
    /\ used.tears < MaxTears /\ saver = "idle"
    /\ \E name \in DOMAIN sidecar : \E k \in 0..(Len(sidecar[name]) - 1) :
         sidecar' = [sidecar EXCEPT ![name] = SubSeq(@, 1, k)]
    /\ used' = [used EXCEPT !.tears = @ + 1]
    /\ UNCHANGED <<edited, source, snapshots, index, update, marked, saver, saving, loaded, todo,
                   last, raced>>

\* The linker process dies; what it has written stays, the marker with it.
CrashSaving ==
    /\ saver # "idle"
    /\ saver' = "idle" /\ saving' = Absent /\ todo' = {} /\ loaded' = [f \in File |-> Absent]
    /\ UNCHANGED <<edited, source, snapshots, disk, marked, last, raced, used>>

-----------------------------------------------------------------------------
(* A full link *)

\* begin: the update is marked; an interrupted state is removed (remove_incremental_index).
\* The inputs are loaded, and every one with a section record is to be snapshotted.
BeginSave(R) ==
    /\ saver = "idle" /\ used.saves < MaxSaves
    /\ used' = [used EXCEPT !.saves = @ + 1]
    /\ marked' = TRUE
    /\ index' = IF marked THEN Absent ELSE index
    /\ loaded' = [f \in File |-> source[f].content]
    /\ saving' = [records |-> R, sections |-> Absent, patchRecords |-> Absent,
                  locations |-> {}, raw |-> Absent, inputs |-> NoPatch(loaded')]
    /\ todo' = {r.input[1] : r \in {x \in R : x.kind = "section"}} \ ReadOnly
    /\ raced' = {}
    /\ saver' = "snapshot"
    /\ UNCHANGED <<edited, source, snapshots, sidecar, update, last>>

\* Mutant: the compressed snapshot does not replace the plain one.
InstallCompressedBeside(f) ==
    /\ compressed' = [compressed EXCEPT ![f] = loaded[f]]
    /\ UNCHANGED plain

\* write_compressed_loaded_snapshot, and the plain snapshot removed.
InstallCompressed(f) ==
    /\ compressed' = [compressed EXCEPT ![f] = loaded[f]]
    /\ plain' = [plain EXCEPT ![f] = Absent]

\* hardlink_rust_snapshot_bytes or clone_snapshot_bytes of the file as it is on disk now, and
\* the compressed snapshot removed.
InstallPlain(f, ino) ==
    /\ plain' = [plain EXCEPT ![f] = [content |-> source[f].content, ino |-> ino]]
    /\ compressed' = [compressed EXCEPT ![f] = Absent]

\* An inode of its own, as a copy or a clone has.
OwnInode == 1000

\* snapshot_loaded_input_file; hardlink and clone may fail, depending on the file system.
SnapshotLoadedInputFile(f) ==
    /\ saver = "snapshot" /\ f \in todo
    /\ \/ f \in RustInputs /\ InstallPlain(f, source[f].ino)
       \/ InstallPlain(f, OwnInode)
       \/ InstallCompressed(f)
    /\ todo' = todo \ {f}
    /\ UNCHANGED <<edited, source, disk, marked, saver, saving, loaded, last, raced, used>>

\* write_indexed_records_streaming: the sidecar is complete before it gets its name.
WriteSidecar ==
    /\ saver = "snapshot" /\ todo = {}
    /\ LET blocks == Blocks(saving.records)
           name == SidecarName("indexed", blocks)
       IN /\ sidecar' = WithFile(sidecar, name, blocks)
          /\ saving' = [saving EXCEPT !.sections = name, !.patchRecords = name,
                                      !.locations = Locations(saving.records)]
    /\ saver' = "remove"
    /\ UNCHANGED <<edited, source, snapshots, index, update, marked, loaded, todo, last, raced,
                   used>>

-----------------------------------------------------------------------------
(* A rewritten input: the index is written again *)

\* write_metadata_update of a state whose inputs were only rewritten (run_fast_path): what the
\* index and the update say becomes one index.  There is no marker.
BeginRewrite ==
    /\ saver = "idle" /\ ~marked /\ index # Absent /\ update # Absent
    /\ saving' = ReadMetadata
    /\ saver' = "remove"
    /\ UNCHANGED <<edited, source, snapshots, disk, marked, loaded, todo, last, raced, used>>

-----------------------------------------------------------------------------
(* write_index_with_sections_files *)

RemoveIndex ==
    /\ saver = "remove"
    /\ index' = Absent
    /\ saver' = "rename"
    /\ UNCHANGED <<edited, source, snapshots, sidecar, update, marked, saving, loaded, todo, last,
                   raced, used>>

RenameIndex ==
    /\ saver = "rename"
    /\ index' = RenderIndex(saving)
    /\ saver' = "update"
    /\ UNCHANGED <<edited, source, snapshots, sidecar, update, marked, saving, loaded, todo, last,
                   raced, used>>

\* Mutant: the update is left for the next one to replace.
UpdateKept == update

\* metadata_update_path is removed.
UpdateAfterIndex == Absent

RemoveUpdate ==
    /\ saver = "update"
    /\ update' = UpdateAfterIndex
    /\ saver' = "clear"
    /\ UNCHANGED <<edited, source, snapshots, sidecar, index, marked, saving, loaded, todo, last,
                   raced, used>>

-----------------------------------------------------------------------------
(* A patch of the changed inputs *)

ChangedFiles == {f \in File : source[f].content # ReadMetadata.inputs[f].content}

\* patch_changed_inputs marks the update when every changed input can be patched: its previous
\* content is in a snapshot, and its records can be read.
BeginPatch ==
    /\ saver = "idle" /\ ~marked /\ index # Absent
    /\ LET F == ChangedFiles IN
         /\ F # {} /\ F \cap ReadOnly = {}
         /\ \A f \in F : ReadVerifiedSnapshot(f) # Absent
         /\ ReadRecordsFor(F) # Error
         /\ saving' = [ReadMetadata EXCEPT !.inputs = [f \in File |->
                         IF f \in F
                           THEN [content |-> source[f].content,
                                 patch |-> [sections |-> {source[f].content}, raw |-> Absent]]
                           ELSE @[f]]]
         /\ todo' = F
    /\ marked' = TRUE
    /\ raced' = raced \ todo'
    /\ saver' = "patch"
    /\ UNCHANGED <<edited, source, snapshots, disk, loaded, last, used>>

\* snapshot_input_path: copy_snapshot_bytes of the file on disk.
SnapshotInputPaths ==
    /\ saver = "patch"
    /\ \E links \in SUBSET (todo \cap RustInputs) :
         plain' = [f \in File |->
             IF f \notin todo THEN plain[f]
             ELSE [content |-> source[f].content,
                   ino |-> IF f \in links THEN source[f].ino ELSE OwnInode]]
    /\ compressed' = [f \in File |-> IF f \in todo THEN Absent ELSE compressed[f]]
    /\ saver' = "recheck"
    /\ UNCHANGED <<edited, source, disk, marked, saving, loaded, todo, last, raced, used>>

\* input_content_mismatch_reason: an input changed meanwhile, and the link starts over with the
\* marker left behind.
PatchOvertaken ==
    /\ saver = "recheck" /\ \E f \in todo : source[f].content # saving.inputs[f].content
    /\ saver' = "idle" /\ saving' = Absent /\ todo' = {}
    /\ UNCHANGED <<edited, source, snapshots, disk, marked, loaded, last, raced, used>>

\* write_metadata_update_for_inputs, in two steps: the old update is removed first.
RemoveOldUpdate ==
    /\ saver = "recheck" /\ \A f \in todo : source[f].content = saving.inputs[f].content
    /\ update' = Absent
    /\ saver' = "install"
    /\ UNCHANGED <<edited, source, snapshots, sidecar, index, marked, saving, loaded, todo, last,
                   raced, used>>

InstallUpdate ==
    /\ saver = "install"
    /\ update' = RenderMetadataUpdate(saving, todo)
    /\ saver' = "clear"
    /\ UNCHANGED <<edited, source, snapshots, sidecar, index, marked, saving, loaded, todo, last,
                   raced, used>>

-----------------------------------------------------------------------------

\* clear_incremental_update_marker.  (After BeginRewrite there is none to clear.)
ClearMarker ==
    /\ saver = "clear"
    /\ marked' = FALSE
    /\ last' = [records |-> IF "records" \in DOMAIN saving THEN saving.records ELSE last.records,
                inputs |-> RenderInputs(saving)]
    /\ saver' = "idle" /\ saving' = Absent /\ todo' = {}
    /\ UNCHANGED <<edited, source, snapshots, disk, loaded, raced, used>>

LinkStep ==
    \/ \E R \in RecordSets : BeginSave(R)
    \/ \E f \in File : SnapshotLoadedInputFile(f)
    \/ WriteSidecar \/ BeginRewrite \/ RemoveIndex \/ RenameIndex \/ RemoveUpdate
    \/ BeginPatch \/ SnapshotInputPaths \/ PatchOvertaken \/ RemoveOldUpdate \/ InstallUpdate
    \/ ClearMarker

Environment ==
    \/ \E f \in File, c \in Content, inPlace \in BOOLEAN : EditInput(f, c, inPlace)
    \/ Tear
    \/ CrashSaving

StateNext == LinkStep \/ Environment

StateSpec == StateInit /\ [][StateNext]_stateVars

-----------------------------------------------------------------------------
(* Properties *)

\* A state a link may use: no update is marked as under way.
Usable == ~marked /\ index # Absent

\* read_records_for_input_files and read (incremental.rs:3090, 3215) answer from a table of
\* blocks, an unindexed sidecar or a second file.  For any set of changed inputs they fail or
\* return exactly the records of those inputs and the relocations of others into them, whatever
\* crashed before; and they fail only if a sidecar was torn.
RecordsReadBack ==
    Usable =>
        /\ \A F \in (SUBSET File) \ {{}} :
             LET got == ReadRecordsFor(F) IN
             \/ got = Error /\ used.tears > 0
             \/ got # Error /\ got = {r \in last.records : Concerns(r, F)}
        /\ LET got == ReadAllRecords IN
             \/ got = Error /\ used.tears > 0
             \/ got # Error /\ got = last.records

\* An index, an update over it and an index made of both describe the inputs as the last link
\* that completed left them, patch metadata included, however a later link died
\* (incremental.rs:3733, 3919): an update is never applied to an index that is newer.
InputsReadBack ==
    Usable => \A f \in File :
        /\ ReadMetadata.inputs[f].content = last.inputs[f].content
        /\ RenderInput(ReadMetadata.inputs[f]) = last.inputs[f]
        /\ PatchMetadataFor(f) = ReadMetadata.inputs[f].patch

\* A patch needs the previous bytes of the changed input.  Of every input that can be patched,
\* the snapshot read first (incremental.rs:10489) is the recorded content, although it may be
\* plain or compressed and either may be left from an earlier link, unless the input changed in
\* place or while a link ran.
SnapshotsServe ==
    Usable => \A f \in {r.input[1] : r \in {x \in last.records : x.kind = "section"}} :
        f \in ReadOnly \cup raced \/ ReadVerifiedSnapshot(f) = last.inputs[f].content

=============================================================================
