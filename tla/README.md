# A verification project for the sld linker

sld is a fast, parallel, incremental linker for ELF (with Mach-O and Wasm back ends under
construction). The code is Rust; almost all of it is the library `libsld`. This project models
in TLA+ the parts of it whose correctness depends on the order in which things happen (tasks
that race over shared tables, work that moves between threads, state that is read in one link
and used in the next, processes that die between two writes) and the parts where one function
relies on what another, several phases earlier, has decided: sizes, indexes, addresses, tables.

Each module here is translated from the source; `PROJECT.json` gives, for every definition, the
lines it stands for. TLC checks the modules on small instances, and TLAPS proves some of the
properties for every instance.

## 1. The system

A link runs through the phases of `libsld/src/lib.rs` (`load_inputs_and_link`):

    arguments -> reuse before loading -> load inputs -> symbol database -> resolution
       -> archive selection -> alternatives -> undefined symbols -> string merging
       -> traversal (GC) -> layout -> write output -> verify inputs -> publish state

The process forks at the start (`subprocess.rs`). The child links; it tells the parent when the
output is complete, the parent exits, and the child goes on to write the state that the next,
incremental, link uses. All parallelism inside a process is rayon: scoped tasks, no threads with
a life of their own.

### Inventory

| Component | State it keeps | Operations | Hard because | What makes it correct |
|---|---|---|---|---|
| Arguments (`args.rs`, `args/elf.rs`) | options, the modifiers in force, a stack of them | parse an option, expand a response file | modifiers apply to the inputs after them; options have five spellings | an input has the modifiers of its place on the command line |
| Linker scripts, version scripts, export lists (`linker_script.rs`, `version_script.rs`, `layout_rules.rs`, `expression_eval.rs`) | commands, rules in a table and a list, versions | parse, build rules, look up a section or a symbol, evaluate | rules are found by the first bytes of a name, the first in the script must win | a section or symbol goes where the script says |
| Input loading (`input_data.rs`, `archive.rs`, `file_kind.rs`, `grouping.rs`) | mapped files, requests, numbers of files, groups | find, open, read a script, split an archive, order, group, verify unchanged | threads open files that name more files | what is loaded does not depend on the threads; a changed input is an error |
| Linker plugins (`linker_plugins.rs`) | a loaded plugin, its files | claim, offer, add LTO output | callbacks, a second batch | offered in the order of the command line |
| Symbol resolution and archive selection (`resolution.rs`, `grouping.rs`) | a take-once cell per file, work items, errors, undefined symbols | resolve a symbol, request a file, handle an error | which files are loaded depends on what loaded files refer to; tasks race for the same file | a file is loaded once and if and only if it is needed |
| Symbol database (`symbol_db.rs`) | names, definitions and alternatives, flags | look up, select among definitions, merge visibilities | a look-up precedes the knowledge of what is loaded | every reference ends at the definition the rules name; duplicates are reported |
| String merging (`string_merging.rs`) | groups of input, buckets, slots, a pool of vectors, a sharded offset map | split a group, hand over strings, carry a bucket on, reserve and return vectors | a lock-free reservation with losers that give up; buckets wait in slots; groups cut strings | the result does not depend on the schedule; references find their bytes; the pool is whole again |
| Garbage-collecting traversal (`layout.rs`, `elf.rs`, `value_flags.rs`) | a group of files per task, a mutex-protected slot with its queue, atomic flags per symbol, a queue of sections bounded by `__start_` symbols, a count of activations | activate a group, load a symbol, a section, a copy relocation, an export; park a group, wake it up | a group is parked while work is being sent to it; many tasks request one symbol; the synthetic symbols must come last; a task may fail | exactly what is reachable is loaded, once; nothing is lost; it ends |
| Allocation of GOT, PLT and dynamic relocations (`elf.rs`, `elf_writer.rs`, `elf_x86_64.rs`) | flags of symbols, sizes of tables, addresses | scan a relocation, allocate, give out addresses, write, validate | three places decide the same thing from flags that references add in any order | tables are filled exactly; a reference leads to its symbol |
| Layout (`layout.rs`, `output_section_*.rs`, `part_id.rs`, `program_segments.rs`, `alignment.rs`) | sizes and offsets of parts, sections, segments | count, order, place, relax, give every group its offsets | sizes are used before later phases change them | nothing overlaps; segments map the file; headers are complete |
| Relaxation and range-extension thunks (`elf_riscv64.rs`, `thunks.rs`) | deleted bytes, blocks of thunks | scan, shrink, place, retarget | addresses move while it is decided what to move | every branch reaches; offsets translate |
| Symbol, hash and version tables (`elf.rs`, `elf_writer.rs`) | requests, sizes, indexes, slices of tables | export, import, copy, sort, size, write | counted by groups in any order, written by other code | a loader finds what was exported, with its version |
| ELF writer (`elf_writer.rs`, `elf_*.rs`) | the output buffer split into disjoint parts | write each group | relies on the allocation of layout | tables are filled exactly |
| Mach-O (`macho.rs`, `macho_writer.rs`) | live atoms, deleted ranges, chained fixups, unwind table | mark, delete, place, chain, write | offsets move after dead stripping; chains stop at pages | dyld and the unwinder find every pointer and function |
| Incremental link protocol (`incremental.rs`, `lib.rs`) | state directory: index, metadata update, update marker, link-start marker, lock; snapshots of inputs | reuse, patch, prepare, begin and finish an update, publish | crashes between any two steps; timestamps that do not change; a publisher that runs beside the next link | a link reports success only if the output is current |
| State files (`incremental.rs`) | records in a sidecar, table of blocks, index, update, snapshots | save, rewrite, read some or all, snapshot | layouts of several versions; torn files; two files that together are one state | what is read is what was stored |
| Patching (`incremental.rs`) | patches, records, hash tree | compare with the snapshot, plan, apply, renew the build id | what an edit removes must be removed too | the output is what a full link would make |
| Background publication and process split (`subprocess.rs`) | pipe to the parent | inform the parent, go on | the build tool continues while the child still reads the inputs | as above, and every started link reports |
| Output file (`file_writer.rs`) | the output, an old output moved aside | create, size, map, flush | updated in place or replaced | covered by the protocol above |
| Wasm, jobserver, diagnostics, save-dir, diff and benchmark tools | | | | |

How the components interact: resolution fills `definition` and flags in the symbol database,
which alternatives then correct; the traversal reads the definitions, adds resolution flags and
decides what is loaded; layout sizes what was loaded; the writer fills what was sized and tells
the incremental state where every section went; the incremental protocol decides, before any of
this happens, whether it has to.

## 2. Modules

| Module | Models | Checked by |
|---|---|---|
| `Reachability` | abstract: what a garbage collection promises | as a property of `FindRequiredSections` |
| `FindRequiredSections` | the traversal | `MCFindRequiredSections`, `FindRequiredSections_proof`, `CollectsGarbage_proof` |
| `SymbolResolution` | resolution, archive selection, alternatives, undefined symbols | `MCSymbolResolution`, `SymbolResolution_proof` |
| `StringMerging` | string merging of one output section, look-up, patch records | `MCStringMerging`, `StringMerging_proof` |
| `IncrementalLink` | the incremental protocol over several links of one output | `MCIncrementalLink`, `IncrementalLink_proof`, `SerialLinks_proof` |
| `PatchInputs`, `BuildIdTree` | patching changed inputs into the output; the hash tree of the build id | `MCPatching` |
| `StateFiles` | the contents of the state directory, and reading them back | `MCPatching`, `StateFiles_proof` |
| `Allocation` | GOT, PLT and dynamic relocation entries: scan, allocation, addresses, writing (x86-64) | `MCAllocation`, `Allocation_proof` |
| `OutputLayout`, `Relaxation`, `Thunks` | what each phase of layout computes | through `LayoutPhases` |
| `LayoutPhases` | the phases of layout | `MCLayout` |
| `Arguments`, `Scripts` | parsing of command lines and scripts, section rules, versions | through `InputLoading` |
| `InputLoading` | from a command line to the inputs of a link | `MCFrontEnd` |
| `DynamicTables`, `TableWriter` | sizing and writing of the ELF symbol, hash and version tables | `MCOutputTables` |
| `DeadStrip`, `MachOImage`, `UnwindInfo` | a Mach-O link after resolution | `MCOutputTables` |

`MCPatching` and `MCOutputTables` each instantiate two machines that do not share state; a
behaviour runs one of them while the other is off.

An operator whose comment starts with "Mutant:" is a version of the definition after it with a
plausible bug; `PROJECT.json` pairs them, and each property is violated when the mutant takes
the definition's place.

### FindRequiredSections

State: the task of each group (`act`, `worker`, `localWork` and what a task has in hand: `reg`,
`todo`, `outbox`, `loading`, `draining`), the slots (`slotWork`, a parked worker), the shared
graph (`flags`, `slot` of each section, `startStop`, `remaining`), and counters of what was done
(`symLoads`, `exports`, `copied`). One action is one critical section or one atomic operation:
`ProcessReference` is one relocation with its `fetch_or`; the request it decides on is sent by
`SendWork`, so other tasks can come between. `SendToSlot` and `Park`/`TakeSlotWork` are the two
sides of the slot's mutex. A section is what its relocations refer to. A queue is a set from
which any item is taken.

`Reachability` is the promise: what is kept grows one node at a time along the references from
the roots, the traversal returns when nothing more is needed and fails only if something needed
is an error (`CollectsGarbage`); and it ends (`TraversalEnds`). The refinement mapping takes the
nodes from the loaded sections, the symbols with resolution flags and the recorded copies; a group
that is missing from its slot when the traversal returns is a phase the abstract specification does
not have.

### SymbolResolution

State: `taken` (the `AtomicTake` cells), the names each work item has
still to resolve (`todo`), the file a task has decided to request (`asking`), definitions, flags,
records of undefined references, errors; `phase` follows the calls of `lib.rs`. `ResolveSymbol`
reads `is_taken` without exclusion; `TakeFile` and `LoseRace` are the two outcomes of the take
that follows. Alternatives and undefined symbols are processed name by name: names are
independent in both. The bucket of a name is the set of the files that define it; that it is
filled in the order of the files is in `First` and `Selector`. Options that allow duplicate definitions are off.

### StringMerging

State: the sections, groups, and for each group how far its task is; for each bucket and the main
thread where in `work_with_bucket` or `try_spawn_input_processing` it is; the slots; the pool's
`available` with the value each thread last read (`read`), because load and `compare_exchange`
are two steps. Bytes are small integers, 0 is the terminator, the hash is a constant operator,
and a string is a place in its section, as the code's slices are (`owns_string_at` compares
pointers). The offset map is modelled from its use: a block of it holds a limited number of
offsets, the rest spills.

### IncrementalLink

State: the clock, the input files and the output with the fields of `FileIdentity` that tell
versions apart, the files of the state directory, the lock, and for every link where it is and
what it holds. Each action is one step that other processes can see. An output is what it was
made from (arguments and input contents), a hash is the content. Whether a changed input can be
patched is a nondeterministic choice (`StartPatch`, `PatchUnsupported`), whose inside is
`PatchInputs`; what the files of the state directory hold is in `StateFiles`. `args_hash`, the linker
version and the other things that must be equal are one value, `Args`. All edits keep the length
of a file, which is the hard case. Failing to write the state in the background has the effect of
a crash there.

What happens around the links is a `setting`: which links are made, which inputs are edited, and
which behaviours the environment shows (edits during a link, edits in place, a clock of whole
seconds, patches that are not supported, an output changed by another program, crashes, links at
the same time). Every behaviour has one setting, chosen in `Init`.

### Allocation

The same question is answered three times: `process_relocation` and `allocate_resolution` say how
many entries a symbol needs, `create_resolution` where they are, and the writer
(`process_resolution`, `apply_relocation`) takes them from the front of its group's buffers. State:
the flags of each symbol, the sizes of each group, then the addresses, what is left of each table,
the GOT entries and the words of the references. A GOT entry is kept as two things that the code
writes independently: the word, which goes where the writer has got to, and the dynamic
relocation, which names the address that was given out. Scanning is nondeterministic (any
references in any order, the prelude and exports between them), writing is in a fixed order
because the groups' buffers are disjoint.

An input (`LinkInput`) is the output kind, three options and the nature of each symbol; the
flags a symbol starts with are computed from it as `symbol_db.rs` and `resolution.rs` do. The scan
asks whether the offset of a word is even (`even`), the writer whether its address is (`PlaceEven`);
the two are the same but in a `packed` section, one of alignment 1 that lies at an odd address.

### PatchInputs and BuildIdTree

State: the input on disk and its snapshot, the output as a sequence of cells, where its generated
sections are, the persisted records, the hash tree, the marker, and the attempt under way: which
records it has read (`level`: patch metadata only, the records of the changed file, all of them)
and what it has still to write. `Plan` is the whole decision of `patch_changed_inputs`: sections
are matched by name or, if names repeat, by contents and order; relocations that moved, appeared or
went; dynamic relocation slots; frame entries and the search table over them; members of archives;
and every reason to give up. A patch is applied cell range by cell range and may be cut off between
any two. A cell is a word; a file is its sections, relocations, symbols, frame entries and the rest;
one file is edited at a time. `BuildIdTree` is BLAKE3's tree over groups of the output with the two
levels the code keeps; a hash is what it hashes.

Known gaps: a relocation through the GOT or PLT is not among the kinds; `.rela` and `.symtab`
changes of sections an exception applies to are not compared by the code either.

### StateFiles

State: the inputs (content and inode), their plain and compressed snapshots, the sidecars by name,
the index, the metadata update, the marker, and the link that is writing. `ReadRecordsFor` is the
whole decision of `read_records_for_input_files`: a table of blocks in the canonical sidecar or in a
second file, an unlocated second file, or all sections filtered. `Init` includes directories that
older versions left (`Legacy`). A torn sidecar is a prefix of its blocks; nothing is synced, so that
can happen at any time. The lines of a block and its list of inputs have no order, on which
no reader relies. Not modelled here: the layouts V1 to V4 with everything inline, whose
`reloc` lines are found by substring; the publishing index, which is `IncrementalLink`'s. The order
of the blocks is abstract (`SetToSeq`).

### LayoutPhases, OutputLayout, Relaxation, Thunks

One action per phase of `compute`: sizes per group, attributes, order, totals, thunks, placement,
relaxation passes, segments, and then each group hands out its addresses from a copy of the offsets,
in any order. The operators of the other three modules say what a phase computes. The unit is two
bytes. A program (`prog`) is chosen in `Init`: its sections with flags, alignment and fixed address,
symbols, branches, alignment directives, symbols that scripts or the linker define. Built-in
sections are one representative for each combination of attributes the code tells apart. A section
has a size, which the decision about thunks adds up, and a capacity (`Capacity`: rounded up, with the
padding of an incremental link), by which it is placed.

### Arguments, Scripts, InputLoading

`Arguments` is the parser with its table of options, one row per option with its effects; how a
string splits into dashes, name and value is a constant table (`Lexeme`). `Scripts` parses sequences
of tokens (blanks, comments and token splitting are left out); names that patterns match are
sequences of characters, in which the first unit stands for the first four bytes by which rules are
hashed. `InputLoading` opens every file in a task of its own; a script asks for its inputs one by
one. It goes on through archives, plugins, groups and file identifiers, and, with a second link in
the same directory, through the decision to keep an output before or after loading. A changed input
on the fast path belongs to `IncrementalLink` and `PatchInputs`; `save_dir` is not modelled. The
properties are stated from a meaning that the setting gives independently of the parsers: `words`
(the arguments in a response file), `wants` (what a script asks for), `matchers` (what a script puts
where).

### DynamicTables and TableWriter

Groups ask for exports, imports and copies in any order (the traversal); sizes, indexes and offsets
are then single steps, because the groups' states are disjoint and a barrier follows; then groups
and chunks of definitions write their slices in any order. The properties read the tables as glibc
does: through `.dynamic`, Bloom filter, buckets and chains, `.gnu.version` and its definitions and
needs. Which symbols are exported (export lists, visibility) is an input of the link.

### DeadStrip, MachOImage, UnwindInfo

Offsets are in pointers of eight bytes. Requests are processed in any order, but a group finishes
its own before it looks at others', and each group is one object. Dead atoms, unwind entries and
frame descriptions are deleted, addresses given out, the chains of fixups and the unwind table
written, and the properties read them as dyld and the unwinder do. The library an import is bound to
is a table by name (`KnownLibrary`). Not modelled: load commands, the symbol table, the code
signature, thunks.

## 3. Runs

Each run takes at most two minutes. `CHECK_DEADLOCK FALSE` is set where a link simply ends; that it
does not end too early is, for the concurrent parts, what `TraversalEnds`, `Resolves`,
`StartedLinksReport` and `NothingLeftBehind` are for.

| Run | Distinct states | Question |
|---|---|---|
| `traversal` | 191 000 | Four groups whose references cross, a section bounded by `__start_foo`, exports asked for by a shared object and by the defining object, a copy relocation beside a direct reference: in every interleaving, is this the collection that `Reachability` describes, and is each export recorded once? |
| `traversal_errors` | 24 000 | Tasks that fail: does the traversal end, and does it report the failure and nothing else? |
| `resolution` | 135 000 | Archive members that need each other, requested by several tasks; symbols that cannot be read; and all 10 976 ways in which three files can define a name or refer to it after a strong, hidden, weak or protected weak reference: is each needed file loaded once, is an error reported, does the reference end at the right definition? |
| `string_merging` | 164 000 | Every schedule for an input with more groups than may be split at once; every section of up to six bytes: is everything merged, in one order, and found again? |
| `allocation` | 1 240 000 | For five output kinds, with and without `--relax` and RELR, a symbol of each of 22 natures beside a second one, any two references, from aligned and packed sections, in either order: does the writer find and use exactly what was allocated, and does every reference lead to its symbol at run time? |
| `links_in_turn` | 2 750 000 | Links one after the other, in three settings: crashes and replaced inputs; edits during links; in-place edits with a coarse clock. Is a reported output always current? |
| `concurrent_links` | 31 000 | Two links at once, either may die: does each report? |
| `patching` | 470 000 | Seven families of edits of a file, each version patched over any other, killed anywhere: is the output what a full link would make? And a state directory with crashes at every step: does it read back? |
| `layout` | 18 700 | Programs with every attribute, fixed addresses, thunks over padded and unpadded code, and relaxation: do sections, segments, headers and branches hold together? |
| `front_end` | 6 100 | Twenty command lines with their files, read by any number of threads; two incremental links in turn: are the inputs those of a reader from left to right? |
| `modifier_change` | (violation) | see Findings |
| `output_tables` | 14 000 | Small ELF and Mach-O links with every kind of symbol: does the loader find what was linked? |

### Bounds

- Traversal: four groups are the prelude, an object, a shared object (in the error run a second
  object) and the synthetic one; each race in the code is between two or three tasks and the synthetic group.
  The reference graphs have a cycle between groups, a section nothing refers to, a symbol
  requested by two groups.
- Resolution: three files that may define a name because the rules compare a first definition with
  at most two others (first strong, largest common, first weak); eight files for archive selection,
  with a symbol table in two chunks.
- String merging: two buckets (each is independent of the others but for the pool), blocks of
  two bytes that hold one offset, `MaxOffset` 8 so that a bucket can outgrow its number.
- Incremental: three links are the one that leaves a state, the one that is disturbed and the one
  that would be deceived. `MaxEdits` is 2, `seconds` at most 3; `TicksPerSecond` is larger than
  the number of timestamps a second can see, so that a second never overflows.
- Allocation: two references because what is decided for a symbol depends on the set of its flags,
  and each flag is added by one reference; two symbols, in a group that is not the references', so
  that an entry too many or too few shifts the second symbol's and cannot be made up for by the
  references' own. `MaxRefs` is 2.
- Patching: two edits of a file, so that what a first patch leaves behind is there for a second;
  `Pad` 1, `FreeSlots` 1 so that room runs out; `GroupLen` 3 so that a patch touches some groups of
  the tree and not others. A family has up to six versions and edits go between any two of them.
- State files: two files, one an archive with two members, two saves, two edits, one torn file:
  a link, the one that is disturbed, and what the next one reads. Edits of a behaviour are all of
  one file (see the finding on the metadata update).
- Layout: pages of a few units, a branch range of a few sections, at most five passes, so that
  limits are met in the middle of small programs. `BranchRange` is 72 units, `MaxThunkBytes` 28, and
  a thunk takes 6 (12 bytes). `Thunked` has code in seven sections of sizes 4, 17 and 18 with
  alignment 2 (4 outside of `.text`), so that sizes are and are not multiples of the alignment; `Padded` adds padding of 1%, 25%
  and 100% to code whose sizes add up to around the branch range; `Far` has code at a fixed address in
  and out of reach. Among them are links whose padding takes exactly the slack and links in which
  it takes more.
- Front end: `FileIndexBits` 1, two files per group: identifiers overflow with three files.
- Output tables: `ChunkSize` 2, pages of four pointers, two entries per unwind page.

### Fairness

- `FindRequiredSections` and `SymbolResolution` assume `WF_vars(Next)`: rayon runs every task
  that was spawned and the scope waits for all of them. Every task's steps make progress, so it
  is enough that something goes on.
- `IncrementalLink` assumes weak fairness of the steps of each link: a process that can go on
  does. Waiting for the lock is a step that is enabled when the lock is free; crashes, edits and
  ticks are not fair. With two links the lock cannot be taken from a waiting link for ever.
- `StringMerging` is checked for safety only. When no group is left, the loop of
  `try_spawn_input_processing` spawns tasks that give their reservation back, and may reserve
  again what they gave back; that it ends is a matter of speed, and no fairness of the scheduler
  implies it.


## 4. Properties

`TypeOK` of `FindRequiredSections` is proved (`TypeCorrect`); in the other modules it documents the
state, and the proofs have what they need of it in their invariants.

Traversal: `NoLostWork` (a parked group has no work in its slot), `CollectsGarbage` (every step of
the specification is a step of `Reachability` or none: the loaded sections are the least set closed
under the references, and it fails only for a reason), `TraversalEnds` (the liveness of
`Reachability`), `SyntheticAfterActivation`, `ServedOnce` (`SymbolsLoadedOnce` and `ExportedOnce`:
what several tasks want at once is done once).

Resolution: `LoadedOnce`, `ExactlyNeededLoaded` (when resolution succeeds, the loaded files are the
least set that is closed under strong references, whatever the order of the tasks, and a loaded file
with a symbol that could not be read is never linked as if it had been),
`DefinitionsSelected` (four parts: a strong reference ends at the definition a direct statement of
the selection rule names, or at the one symbol that stands for the undefined name; so does a weak
one, apart from the finding below; a hidden reference takes the definition out of the dynamic
symbols; duplicates are reported), `Resolves`.

String merging: `NothingLeftBehind` (when the scope ends every group is merged and the pool is whole
again), `MergingIsDeterministic` (buckets hold the first occurrences in the order of the input), `ReferencesFindTheirStrings` (every byte of
every section), `PatchRangesHoldTheirSection`.

Allocation: `OnlyUnsupportedFails` (no table is short or left over and no address is missing
unless a reference is of a kind the linker does not support; `Unsupported` lists these),
`PltTablesExact` (also for the two tables `validate_empty` does not look at), `ReferencesDenote`
(following a reference at run time, through its GOT or PLT entry and dynamic relocation, ends at its
symbol; the address of an ifunc is one address; a TLS reference reaches its variable).

Incremental: `SuccessMeansCurrentOutput` (an action property: the step that reports success does
so with an output made from this link's arguments and from contents the inputs had since it
started), `UnmarkedStateDescribesOutput`, `PublishingIsMarked`, `StartedLinksReport`.

Patching: `OutputFresh` (`SectionBytesFresh` and `DynamicRelocationsFresh`) and `UnwindTableFresh`
(after a patch that was accepted, the bytes, the dynamic relocations and the frame search table are
those a full link of the new input gives) and `BuildIdFresh` (the build id is the hash of the output as it now is, whichever
groups of it were hashed again).

State files: `RecordsReadBack` (records read for some inputs are those of the last save, or the
reader says it cannot), `InputsReadBack`, `SnapshotsServe` (a snapshot that is used has the content
the state was made from).

Layout: `InputsPlaced` (every input section lies in its output section, aligned, apart from all
others, in memory and in the file), `SegmentsMapTheFile` (a loadable segment maps exactly its
sections, with their protection, and page offsets agree), `HeadersComplete` (as many headers as were
given room), `BranchesReach` (every branch of an aarch64 output reaches its target, or a thunk for it
in the block of its part that does, if the slack of the thunk decision covers what rounding and
padding add to the code: `SlackCoversUnseen`. What lies outside of that is a finding).

Front end: `LoadedInCommandLineOrder` (inputs and their modifiers are those of a reader from left to
right, and a file identifier leads back to its file), `ScriptsMeanWhatTheySay` (a section and a
symbol go where the script puts them), `ReuseMeansSameLink` (an output that is kept was made by the
same arguments from the same inputs, apart from the finding below).

Output tables: `LookupsFindDefinitions` (the loader's hash look-up finds exactly the exported
definitions), `ReferencesNameTheirVersion`, `TablesWrittenInFull` (no slice is left or exceeded, no
index is used twice), `DyldFixesPointers` (walking the chains as dyld does fixes every pointer, and
no other word), `UnwinderFindsFunctions` (a binary search in the compact unwind table finds each
live function's entry).

## 5. Proofs

TLAPS proves the following for every value of the constants that satisfies the named ASSUMEs of the
modules (TLC evaluates these on every run).

**The traversal** (`FindRequiredSections_proof`), for any groups, sections, symbols and references:

- `TypeCorrect`: `TypeOK`. That `activations_remaining` does not pass zero is not a matter of
  types: it needs `CountOK`, that the counter is the number of groups whose activation is not
  done, and the cardinality lemmas.
- `NothingLost`: `NoLostWork`. It is inductive given the types: a group is parked only with an
  empty slot, and sending to a parked group takes it out.
- `SyntheticLast`: `SyntheticAfterActivation`, from `DelayInv` (sections are offered only during
  activation; the synthetic group is worked on, parked or dropped only when all activations are
  done) and `CountOK`, which turns "the count is zero" into "all are done".
- `OneExport` and `OneRequest`, together `OneService`: `ServedOnce`. `ExportInv`: a symbol that was
  exported has its flag, and flags grow. `OnceInv`: a request for a symbol is in at most one place
  (a task's hands, an outbox, a queue, a slot), and while it is there the symbol is not loaded; the
  `fetch_or` that finds no flags makes the only one.

**The refinement** (`CollectsGarbage_proof`): `TraversalCollects`, that the traversal implements
`Reachability` but for its fairness. The initial states map to its initial state, and each of the
steps of a task is one of its steps (a node is kept, the groups are returned, a failure) or a
stutter. The invariant says why: whatever a task has in hand or a queue holds is justified by a
root or by something kept (`JustInv`); what is kept has had its references followed, or the request
is somewhere its owner will find it (`Located` in `DoneInv`, with `TaskInv` and `NoLostWork`); and
sections without an output section are never loaded (`SlotInv`). It assumes that only symbols of objects are exported (`layout.rs:2579`).

**Resolution** (`SymbolResolution_proof`), for any files, names, references and splits into items:

- `LoadOnce`: `LoadedOnce`, from `TakenInv` (a file's loads are counted by its take).
- `ExactlyNeeded`: `ExactlyNeededLoaded`. That what is loaded is closed follows from `PendingInv`
  (what a taken file wants is still to be resolved, being asked for, or taken) and `PhaseInv` (no
  task is left after the scope). That it is the least closed set needs no induction over data:
  `NeededInv` carries `ReachedInv(S)` for every closed set S, and a step that takes a file stays in
  each of them.
- `DefinitionsAreSelected`: `DefinitionsSelected`. References are looked up while files are still
  being loaded, so the invariant (`SelectionInv`) says what a lookup leaves behind whatever is
  loaded later: a hidden reference has downgraded what it found; the reference either has what it
  found, with a record if that may turn out not to be loaded, or (`LookedUp`) its record was replaced
  by the symbol for undefined references, which stands for itself and is never overwritten
  (`CanonicalInv`). Definitions stand for themselves until their alternatives are resolved, and for
  the selected one from then on (`DefinitionInv`); flags only grow and `DYNAMIC` is never added
  (`FlagsGrow`), so that the selection, which reads the flags that other names' steps write, does not
  depend on their order. `ExactlyNeeded` then says that what a strong reference found is loaded, and
  `SelectorChooses`, an induction over the files, that the selector's one pass finds what the
  direct statement of the rule (`Winner`) names.

**String merging** (`StringMerging_proof`), for any sections, group size, buckets and pool:

- `AllMerged`: `NothingLeftBehind`. `PoolOK` is the accounting: the vectors that are available,
  reserved by a task that has no group yet, or in hand (`Accounted`) are the pool's capacity unless
  there was an error. `SomebodyTries` is the heart of the lock-free reservation: as long as vectors
  and groups are left, some thread is about to read the counter or has read its present value, so
  the thread that gives up after a lost `compare_exchange` can be spared. When the scope ends
  nobody is left to try, so no group is.
- `MergedInOrder`: `MergingIsDeterministic`. The first layer is about the data: groups follow each
  other from the first byte of the input to the last and a cut is never in the padding of a section
  (`GroupsFollow`; here the size of a group must be whole blocks), what `process_input_section`
  takes from a section are the strings that start in the range of the group, also when the cut is
  inside a string (`SectionInOrder`), and so for a group (`PiecesInOrder`). `AddedInOrder` then says that
  adding the strings of a group to the first occurrences of all groups before gives those up to the
  end of the group. The second layer is about the schedule: `BucketInOrder` says that a bucket holds
  the first occurrences before the border of the last group it took, which the slots make the one
  before its next (`MergeInv`). The recursions of the code are recursive functions;
  `RecursionSolved` shows that such a definition has a solution and `MeasureInduction` what it computes.

**Allocation** (`Allocation_proof`), for any symbols, groups, links and relocations:

- `TypeCorrect`, `AllocationsAgree` and `PltTablesUsedUp`: `TypeOK`, `OnlyUnsupportedFails` and
  `PltTablesExact`. `SymbolOK` is what the scan can make of a symbol's flags, whatever refers to it,
  in whatever order, `--defsym` and exports included: for example a PLT entry comes with a GOT
  entry, a TLS flag with a relocation that asked for it, and the second GOT entry of an ifunc with a
  PLT entry unless the symbol was marked first. The relaxations that the scan and the writer choose
  agree because they read only the flags that the scan never changes (`ScanStatic`); the tables of a
  relative word agree if the parity of its offset is that of its address, and where they need not
  (`ParityDiffers`: under RELR, in a packed section) the word is one of the unsupported. From these
  `SymbolSupported` and `RelocationWritten` show that `process_resolution` and
  `write_absolute_relocation` take, table by table, what `allocate_resolution` and
  `process_relocation` counted. `SizesOK` and `LeftOK` add this up: the sizes of a group are a sum
  over its symbols and the number of relocations of each table, and what its writer has left is what
  is still to be written, so that it never runs short and nothing is left in the end. For the PLT
  tables and the GOT this holds without the hypothesis that all relocations are supported.
- `ReferencesLead`: `ReferencesDenote`, for supported and unsupported relocations alike. A second
  layer, `WrittenInv`, says what was written: the entries of a symbol start where its address says
  although one was counted from the flags and the other taken from the front of what is left
  (`WriterFirst`, `PlacesFollow`), each holds what `process_resolution` put out for it and everything
  behind them is untouched (`EntriesOK`), and the place of an applied relocation holds its result
  (`WordsOK`). That does not settle two accesses the scan allows and the writer has no relocation
  for: a PC-relative word of data for a symbol of another module, and a TLS offset of a variable that
  nothing defines. They leave an entry of `.rela.dyn` over, so `UnusedLeft` carries a strict
  inequality to `validate_empty`, which stops the link. `Finished` collects what holds in the end;
  from it `FirstLeads`, `SecondLeads`, `AbsoluteLeads`, `RelativeLeads` and `GotLeads` follow a
  reference, and `OffsetNames`, `ModuleNames` and `DescriptorNames` the accesses to TLS variables.

**The incremental protocol** (`IncrementalLink_proof`), for any links, also at the same time:

- `LockExcludes`, `LockGuards` (an action property: what the lock guards is changed by its holder
  only) and `PublishingMarked`, from `LinkInv`: which phases hold the lock, which mode a link is in
  and where it may have come from, and whose marker is set.

**Links in turn** (`SerialLinks_proof`), for any number of links, inputs and contents:

- `UnmarkedDescribes` and `SuccessIsCurrent`: `UnmarkedStateDescribesOutput` and the action property
  `SuccessMeansCurrentOutput`. They have a hypothesis, `Quiet`: links do not overlap but for the
  background publication, inputs are replaced between links and not in place, the clock tells
  moments apart, and one input is edited. Each part excludes something in which the code goes wrong
  or that the model checks on its own (findings below; `links_in_turn` has edits during links and
  in-place edits). Crashes anywhere, patches, unsupported patches, changed arguments and an output
  that others change are in. The invariant has three layers: every identity on disk or in a
  process belongs to the content that is recorded with it, or to a file that has changed since
  (`RecordsInv`); the state that may be relied upon, unmarked or publishing, describes the output
  (`TrustInv`); and each link in each phase knows which of its previous state, its pending state and
  the output agree (`SerialLinkInv`).

**State files** (`StateFiles_proof`), for any files, contents, sets of records, saves, edits, torn
files and crashes:

- `StoredRecords`: `RecordsReadBack`. The lemmas are about data: what `WriteRenderedRecords` renders
  is parsed to the same records (`RoundTrip`), selecting lines before parsing selects the records
  that concern the files (`FilteredTrip`), and the table leads from a file to every record that
  concerns it (`LocationsSuffice`). `StoredAs` lists the four layouts an index may have, `StoredReads`
  reads each of them, and `RecordsInv` says that an unmarked index, and what a link is about to make
  the index, is in one of them.
- `StoredInputs` and `SnapshotsHold`: `InputsReadBack` and `SnapshotsServe`, if one input is edited
  (`OneEdited`; see the finding on the metadata update). `DescribedOK` says for every step between
  the removal of the index and of the marker what index and update together mean; `SnapshotsInv`
  which snapshots are valid while a link replaces them. The proof showed that the order of the two
  files does not matter to a full link, which is marked throughout, but to a rewrite, which is not:
  there the old update may stay beside the new index only because it says the same.

Only model-checked:

- Liveness (`TraversalEnds`, `Resolves`, `StartedLinksReport`): the prover has neither ENABLED nor
  fairness.
- Modules with RECURSIVE operators (`Arguments`, `Scripts`, `InputLoading`, `DynamicTables`,
  `TableWriter`, `DeadStrip`, `UnwindInfo`): parsers and tables are recursive computations over data,
  which are out of the prover's reach.
- `ReferencesFindTheirStrings`, `PatchRangesHoldTheirSection`, `OutputFresh` and the other properties
  of patching and layout: their reference definitions are folds and sums over the data of
  a whole link, whose lemmas would be inductions over sequences. Where the data are sets, as in
  resolution and the state files, an invariant over all closed sets, or lemmas about finite sets, take
  the place of induction; `StringMerging_proof` shows what it costs where they are sequences.

## 6. Findings

With a run:

- `modifier_change`: `classify_incremental_mode` (`incremental.rs:2893`) compares a hash of the
  options, which leaves out the inputs, and a hash of the paths of the inputs, which leaves out
  their modifiers. A link that differs from the last in `--whole-archive`, `--as-needed` or
  `-Bstatic` around an input keeps the old output. `context/incremental-linking.md:53` says: "Link
  options or input ordering changed | Full relink".

Without a run; the properties are restricted to leave these out, each with a comment:

- Under RELR the scan takes the table of a relative word by the parity of its offset in the section
  (`elf.rs:5049`), the writer by that of its address (`elf_writer.rs:1155`). In a writable section of
  alignment 1 that lies at an odd address they differ, and the link fails with an insufficient
  allocation. Both places say "Odd offsets mean bitmaps in RELR, so we need to fall back to RELA for
  them.", and `pack-relative-relocs.c:58` expects "Unaligned pointer with odd address; will result in
  RELA for .data." TLC shows it in `allocation` when `ParityDiffers` is taken out of `Unsupported`;
  one reference from a `packed` section is enough.
- The decision that a link needs no thunks adds up the sizes of the executable input sections
  (`thunks.rs:140`): "Total text size is small enough and no executable output section has an explicit
  address that could introduce a large gap, so we know we won't need any thunks." Sections are placed
  by capacity (`layout.rs:2835`), and with rounding and incremental padding a branch can be out of
  range; the writer then fails the link (`elf_writer.rs:3767`). When blocks are placed (`layout.rs:4043`,
  `thunks.rs:443`) the same difference is missing, and the slack for the thunks themselves covers it up
  to `MAXIMUM_THUNK_BYTES_PER_BLOCK`. TLC shows both in `layout` when `BranchesReach` is stated
  without `SlackCoversUnseen`. PLT stubs (`.plt.got`) are in neither sum; layout does not model them.
- An input overwritten in place within the second of the last link keeps its identity
  (`incremental.rs:4700`). The fast path reads its content and notices; if it cannot patch the
  change it falls back to `maybe_prepare`, where `FileContentState::from_input_file` trusts the
  identity, and the stale output is reused. TLC shows it with the setting `SameSecondEdit` of
  `MCIncrementalLink`.
- The child hashes mapped inputs after it has reported (`incremental.rs:2843`). An input overwritten
  in place at that moment is recorded with a hash the output was not made from, and the next link
  reuses the stale output (`EditWhilePublishing` of the same module).
- A weak reference whose first definition is in an archive member that is not loaded is made
  undefined although a loaded object defines the name (`resolution.rs:951`, before
  `symbol_db.rs:1130` selects).
- A merged section keeps its patch range although another section's equal string was merged into
  it (`string_merging.rs:588`); patching it changes both.
- The GOT entries of a TLS variable that is exported but cannot be preempted (a protected variable
  of a shared object) hold its module and the offset 0, without a relocation (`elf_writer.rs:916`);
  general-dynamic accesses reach the start of the TLS block instead of the variable.
- The metadata update holds the records of the last patch only (`incremental.rs:3687`): after a
  patch of one file and then of another, the line of the first in the index is that of the full link
  again. The unmarked state then says of the first file what the output no longer holds, and an edit
  that brings this file back to its old content is taken for no change at all. `InputsReadBack` and
  `UnmarkedStateDescribesOutput` fail in this case; their runs and theorems have one edited input.
- A foreground link that fails because an input was edited under it leaves an unmarked state that
  has the new identity of the file beside the old hash. If the next link can neither patch the
  change nor keep the output (other arguments), `from_input_file` (`incremental.rs:4695`) trusts the
  identity and records the old hash for the new content; the link after that may reuse an output
  that is not current. Hence the setting with edits during links has no unsupported patches and one
  command line, and the theorems have no edits during links.
- Patching, with families of edits that `MCPatching` leaves out: a symbol that moves a second time
  is moved from where the full link had it (`incremental.rs:1123`); relative dynamic relocations
  keep the addend of before (`elf_writer.rs:3988`), and a relocation that names another symbol keeps
  its slot (`incremental.rs:6584`); two functions removed one after the other leave the search table
  with an entry too many.

Met while modelling, and not covered by a property:

- Allocation. The PLT entry of an ifunc in a static executable is added with the first request of
  the symbol (`elf.rs:5081`), but the prelude's requests (entry point, `--defsym`) do not add it; when
  they come first, a reference that takes the ifunc's address fails with a missing PLT address. A
  hidden TLS variable that nothing defines, accessed by its TLS offset in a shared object, is given
  a relocation that the writer does not write (`elf_writer.rs:864`). A 64-bit reference in read-only
  data to a symbol of a shared object or an ifunc, in an output that can be loaded anywhere, and a
  PC-relative word of data for a symbol that can be preempted, pass the scan and fail in the writer
  with a message about allocations. `Unsupported` lists all of these. `ValueFlags::DYNAMIC` says
  that direct references from a read-only section to an undefined weak symbol are filled in as zero;
  a PC-relative one gets the address of the PLT entry if the symbol has one; `ReferencesDenote`
  allows both.
- Traversal. `process_relocation` (`elf.rs:5077`) requests a symbol also when the relocation's kind
  adds no resolution flag, so that the next reference requests it again; `WorkItem::LoadGlobalSymbol`
  is documented as sent when "the symbol's resolution flags have been made non-empty"
  (`layout.rs:1342`). `SymbolsLoadedOnce`, a part of `ServedOnce`, excepts such symbols.
- Resolution. A hidden reference downgrades the first definition of its name (`resolution.rs:1444`);
  when another one is selected later the flags stay with the first.
- String merging. `find_string` (`string_merging.rs:1186`) adds an offset inside a string to a
  `BucketOffset` whose size was checked for the start of the string only.
- Incremental. An edit under a link can leave, beside the error the link reports, an unmarked state
  whose identities are those of newer files; the next link sees a content that does not match only
  if the state has hashes. The contents of version scripts, export lists and members of thin
  archives are not tracked; a library that appears earlier in the search path is not seen on the fast
  path. A moved symbol that is exported leaves `.dynsym` as it was.
- Layout. A relaxed `JAL` near the limit is decided from unrelaxed offsets. The gap before a
  secondary section is not counted (`layout.rs:5571`). An alignment directive is relaxed to the
  alignment it asks for, not to that of its section (`elf_riscv64.rs:426`). An empty section keeps its
  RELRO segment; a TLS section at a fixed address splits it. An output section that mixes NOBITS and
  PROGBITS inputs can become NOBITS (`elf.rs:3808`).
- Symbol tables. Symbols a linker script defines get a dynamic symbol and no version
  (`elf_writer.rs:4829`). With `--strip-all` and copy relocations or script symbols, `.symtab` is
  written without its null symbol. `versym[0]` is global where the comment says local
  (`elf_writer.rs:4083`). With the SysV hash table alone the order of `.dynsym` depends on the
  traversal. Two versions of a name tie in an unstable sort (`elf.rs:4104`).
- Front end. More than 256 linker scripts overflow a file identifier. In `ASSERT` a symbol counts as
  1 (`expression_eval.rs`). Section patterns of less than four bytes before the wildcard
  (`layout_rules.rs:395`), comparison operators that bind looser than bitwise ones, `PROVIDE` in a
  section's body without its value, and `x=5;` as one token differ from GNU ld.
- Mach-O. When the first symbol of a text section is an alternative entry and
  an ordinary one follows, `mark_macho_subsection_live` (`macho.rs:3011`) marks the subsection at 0 live for it, but
  `compact_dead_macho_subsections` (`macho.rs:3085`) adds an atom at 0 without asking whether that is
  live, and deletes it. `Atoms` does the same; no link of `output_tables` begins a section so (its
  alternative entry follows another symbol, as in the test `dead-strip-alt-entry`), so
  `DyldFixesPointers` says nothing about it. A chained bind has no addend (`macho_writer.rs:1827`). The symbol of a `SUBTRACTOR` inside
  a stripped section requests the section, not the atom (`macho.rs:3706`). Unwind entries are found by
  the relocation's symbol (`macho.rs:2571`), so that a function reached by an alias can lose its
  entry. GOT entries of the prelude's symbols have no slot.

## 7. Not modelled

- Weak memory: atomics are sequentially consistent. In particular the order that the relaxed
  `fetch_sub` on the count of activations does not promise (`layout.rs:2126`) is there in the model;
  the hazard that names it has a note.
- Two links of one output at once, as far as currency is concerned: `maybe_prepare` reads the
  state without the lock, and build tools do not start such links.
- Symbol versions in resolution, `--wrap`, the second batch of resolution that follows LTO.
- The old output moved aside and deleted in the background, and the sized output made by one task
  while others wait (`file_writer.rs`).
- Of layout: `.symtab_shndx`, common symbols, the rewriting of `lui` and `lo12` pairs.
- Of Mach-O: load commands, symbol table, code signature, thunks; Wasm altogether.
- The encoding of instructions and headers in any format, diagnostics, and the diff, save-dir and
  benchmark tools. These are data handling without a protocol.

## 8. Plan

What is left, in this order:

1. An abstract specification of an incremental linker (each link reports an error or an output made
   from current inputs) with `IncrementalLink` as its refinement, and `PatchInputs` as the refinement
   of its `StartPatch` and `PatchUnsupported`.
2. Proofs: the conflict-free look-up of merged strings; `BuildIdFresh` as a property of the tree.
3. Symbol versions in resolution and the second batch after plugins (`resolution.rs:1382`).
4. `OutputFile`: the old output aside, the sized output awaited.
5. Mach-O load commands and thunks.
