------------------------ MODULE FindRequiredSections ------------------------
(***************************************************************************)
(* The garbage-collecting graph traversal of libsld/src/layout.rs          *)
(* (find_required_sections): every group of input files is a node that at  *)
(* most one rayon task owns at a time.  Tasks activate the groups, then    *)
(* walk from the roots to everything that must be in the output, sending   *)
(* each other work through the mutex-protected slots of                    *)
(* GraphResources::worker_slots.                                           *)
(*                                                                         *)
(* What is abstracted: a section is what its relocations refer to, a       *)
(* symbol is where it is defined; sizes, alignments and attributes are     *)
(* left out.  A work queue (a Vec popped from its end) is a set from which *)
(* any item may be taken, so every order is explored; repeated equal items *)
(* collapse, and the code ignores the second of two equal requests.        *)
(* Atomic operations are sequentially consistent.                          *)
(***************************************************************************)
EXTENDS Naturals, FiniteSets

CONSTANTS
    Group,        \* the groups of input files (worker_slots has one per group)
    Section,      \* the input sections of all objects
    Symbol,       \* canonical symbol definitions
    Output,       \* output sections that can have __start_ / __stop_ symbols
    None,         \* no section / no output section
    Synthetic,    \* the group that holds the SyntheticSymbols file
    GroupOfSec,   \* [Section -> Group]
    GroupOfSym,   \* [Symbol -> Group]
    SectionOf,    \* [Symbol -> Section \cup {None}]: the section of a definition
    BoundOf,      \* [Symbol -> Output \cup {None}]: what a __start_/__stop_ symbol bounds
    OutputOf,     \* [Section -> Output \cup {None}]
    MustLoad,     \* sections loaded unconditionally (SectionSlot::MustLoad, or no GC)
    Discard,      \* sections no output section was found for (SectionSlot::Discard)
    Exportable,   \* definitions in objects for which can_export_symbol holds
    Eligible,     \* unloaded sections that are start_stop_eligible
    Relocs,       \* [Section -> SUBSET Ref]: its relocations and those of its FDEs
    Roots         \* [Group -> SUBSET Ref]: what activating the group's files refers to

\* What one reference does to the symbol it names.
\*   Direct  a relocation whose kind needs a resolution (layout::resolution_flags)
\*   NoFlags a relocation whose kind needs none (TlsLd, None, AbsoluteLowPart, Alignment)
\*   Copy    a direct relocation to interposable data in a read-only section
\*   Undef   a direct relocation to an undefined symbol (reported, traversal continues)
\*   Bail    a relocation that cannot be applied (the handler returns an error)
\*   Mark    a symbol flagged as used without a request (defsym, linker script)
\*   Export  a shared object's reference: WorkItem::ExportDynamic to the definition
\*   Own     an export by the object that defines the symbol (load_non_hidden_symbols)
Kind == {"Direct", "NoFlags", "Copy", "Undef", "Bail", "Mark", "Export", "Own"}

Ref == [kind : Kind, sym : Symbol]

\* WorkItem: LoadGlobalSymbol, LoadSection, CopyRelocateSymbol and ExportDynamic.
Item == [op : {"sym", "copy", "export"}, sym : Symbol]
            \cup [op : {"sec"}, sec : Section]

LoadSym(s) == [op |-> "sym", sym |-> s]
LoadSec(x) == [op |-> "sec", sec |-> x]
CopySym(s) == [op |-> "copy", sym |-> s]
ExportSym(s) == [op |-> "export", sym |-> s]

Flag == {"DIRECT", "EXPORT_DYNAMIC", "COPY_RELOCATION"}

\* SymbolDb::file_id_for_symbol, SectionLoadRequest::file_id: the group an item goes to.
GroupOf(item) ==
    IF item.op = "sec" THEN GroupOfSec[item.sec] ELSE GroupOfSym[item.sym]

ASSUME GroupsAssumption ==
    /\ IsFiniteSet(Group)
    /\ Synthetic \in Group
    /\ GroupOfSec \in [Section -> Group \ {Synthetic}]
    /\ GroupOfSym \in [Symbol -> Group]

ASSUME GraphAssumption ==
    /\ None \notin Section \cup Output
    /\ SectionOf \in [Symbol -> Section \cup {None}]
    /\ BoundOf \in [Symbol -> Output \cup {None}]
    /\ OutputOf \in [Section -> Output \cup {None}]
    /\ MustLoad \subseteq Section
    /\ Exportable \subseteq Symbol
    /\ Discard \subseteq Section \ MustLoad
    /\ Eligible \subseteq Section \ (MustLoad \cup Discard)
    /\ \A x \in Eligible : OutputOf[x] # None
    /\ Relocs \in [Section -> SUBSET [kind : Kind \ {"Mark", "Export", "Own"}, sym : Symbol]]
    /\ Roots \in [Group -> SUBSET Ref]

\* A definition lies in a section of its own group, only the synthetic group defines
\* __start_/__stop_ symbols, which its file does not export (FileLayoutState::do_work), and it
\* has no sections of its own to activate.
ASSUME PlacementAssumption ==
    /\ \A s \in Symbol : SectionOf[s] # None => GroupOfSec[SectionOf[s]] = GroupOfSym[s]
    /\ \A s \in Symbol : BoundOf[s] # None <=> GroupOfSym[s] = Synthetic
    /\ \A s \in Exportable : BoundOf[s] = None
    /\ \A g \in Group, r \in Ref :
          r \in Roots[g] => /\ g # Synthetic
                            /\ r.kind = "Own" => GroupOfSym[r.sym] = g
                            /\ r.kind = "Mark" => SectionOf[r.sym] = None /\ BoundOf[r.sym] = None

VARIABLES
    act,        \* the activation task of each group
    worker,     \* who has the GroupState: none yet, a task, the slot, the delay queue, nobody
    localWork,  \* LocalWorkQueue::local_work
    slotWork,   \* WorkerSlot::work
    reg,        \* eligible sections the activation has still to put in start_stop_sections
    todo,       \* references the task has still to process
    outbox,     \* requests the task decided to send and has not sent yet
    loading,    \* the section being loaded (load_section)
    draining,   \* the output section whose start_stop_sections queue is being emptied
    flags,      \* per_symbol_flags (the resolution flags)
    slot,       \* SectionSlot of each section
    startStop,  \* start_stop_sections, all queues together
    remaining,  \* activations_remaining
    errors,     \* GraphResources::errors: the groups whose tasks reported one
    symLoads,   \* how often load_symbol ran for each symbol
    exports,    \* how often each symbol was put in dynamic_symbol_definitions
    copied,     \* symbols given a copy relocation
    result      \* what find_required_sections returned

vars == <<act, worker, localWork, slotWork, reg, todo, outbox, loading, draining, flags,
          slot, startStop, remaining, errors, symLoads, exports, copied, result>>

taskVars == <<reg, todo, outbox, loading, draining>>
graphVars == <<flags, slot, startStop, errors, symLoads, exports, copied>>

TypeOK ==
    /\ act \in [Group -> {"queued", "running", "decrement", "done"}]
    /\ worker \in [Group -> {"none", "activating", "working", "parked", "delayed", "dropped"}]
    /\ localWork \in [Group -> SUBSET Item]
    /\ slotWork \in [Group -> SUBSET Item]
    /\ reg \in [Group -> SUBSET Section]
    /\ todo \in [Group -> SUBSET Ref]
    /\ outbox \in [Group -> SUBSET Item]
    /\ loading \in [Group -> Section \cup {None}]
    /\ draining \in [Group -> Output \cup {None}]
    /\ flags \in [Symbol -> SUBSET Flag]
    /\ slot \in [Section -> {"Unloaded", "Discard", "Loaded"}]
    /\ startStop \in SUBSET Section
    /\ remaining \in Nat
    /\ errors \in SUBSET Group
    /\ symLoads \in [Symbol -> Nat]
    /\ exports \in [Symbol -> Nat]
    /\ copied \in SUBSET Symbol
    /\ result \in {"running", "error", "groups"}

\* Mutant: the counter starts one short.
InitialCountOneShort == Cardinality(Group) - 1

\* activations_remaining: AtomicUsize::new(num_groups).
InitialCount == Cardinality(Group)

Init ==
    /\ act = [g \in Group |-> "queued"]
    /\ worker = [g \in Group |-> "none"]
    /\ localWork = [g \in Group |-> {}]
    /\ slotWork = [g \in Group |-> {}]
    /\ reg = [g \in Group |-> {}]
    /\ todo = [g \in Group |-> {}]
    /\ outbox = [g \in Group |-> {}]
    /\ loading = [g \in Group |-> None]
    /\ draining = [g \in Group |-> None]
    /\ flags = [s \in Symbol |-> {}]
    /\ slot = [x \in Section |-> IF x \in Discard THEN "Discard" ELSE "Unloaded"]
    /\ startStop = {}
    /\ remaining = InitialCount
    /\ errors = {}
    /\ symLoads = [s \in Symbol |-> 0]
    /\ exports = [s \in Symbol |-> 0]
    /\ copied = {}
    /\ result = "running"

-----------------------------------------------------------------------------
(* Activation *)

\* Mutant: every section is queued, as if nothing were collected.
ActivationLoadsAll(g) == {LoadSec(x) : x \in {y \in Section : GroupOfSec[y] = g}}

\* ObjectLayoutState::activate: the sections it queues for loading.
ActivationLoads(g) == {LoadSec(x) : x \in {y \in MustLoad : GroupOfSec[y] = g}}

\* GroupActivationInputs::activate_group starts: the group's must-load sections are pushed
\* on its own queue, its eligible sections and its references are still to be dealt with.
ActivateGroup(g) ==
    /\ act[g] = "queued"
    /\ act' = [act EXCEPT ![g] = "running"]
    /\ worker' = [worker EXCEPT ![g] = "activating"]
    /\ localWork' = [localWork EXCEPT ![g] = ActivationLoads(g)]
    /\ reg' = [reg EXCEPT ![g] = {x \in Eligible : GroupOfSec[x] = g}]
    /\ todo' = [todo EXCEPT ![g] = Roots[g]]
    /\ UNCHANGED <<slotWork, outbox, loading, draining, remaining, result>>
    /\ UNCHANGED graphVars

\* ObjectLayoutState::activate offers an eligible section to start_stop_sections.
OfferStartStopSection(g) ==
    \E x \in reg[g] :
        /\ reg' = [reg EXCEPT ![g] = @ \ {x}]
        /\ startStop' = startStop \cup {x}
        /\ UNCHANGED <<act, worker, localWork, slotWork, todo, outbox, loading, draining,
                       flags, slot, remaining, errors, symLoads, exports, copied, result>>

\* should_delay_processing.
ShouldDelayProcessing(g) == g = Synthetic

\* The files of the group are activated: the group is worked on, or put aside in
\* delay_processing when it holds the synthetic symbols.
FinishActivation(g) ==
    /\ act[g] = "running" /\ worker[g] = "activating"
    /\ reg[g] = {} /\ todo[g] = {} /\ outbox[g] = {}
    /\ IF ShouldDelayProcessing(g)
         THEN /\ worker' = [worker EXCEPT ![g] = "delayed"]
              /\ act' = [act EXCEPT ![g] = "decrement"]
         ELSE /\ worker' = [worker EXCEPT ![g] = "working"]
              /\ UNCHANGED act
    /\ UNCHANGED <<localWork, slotWork, remaining, result>>
    /\ UNCHANGED taskVars
    /\ UNCHANGED graphVars

\* Mutant: the delayed group is taken one activation early.
LastActivationEarly(left) == left <= 1

\* The activation that finds none remaining takes the delayed group.
LastActivation(left) == left = 0

\* The end of activate_group: one activation less; the last one takes the delayed group.
CompleteActivation(g) ==
    /\ act[g] = "decrement"
    /\ act' = [act EXCEPT ![g] = "done"]
    /\ remaining' = remaining - 1
    /\ worker' = IF LastActivation(remaining') /\ worker[Synthetic] = "delayed"
                   THEN [worker EXCEPT ![Synthetic] = "working"]
                   ELSE worker
    /\ UNCHANGED <<localWork, slotWork, result>>
    /\ UNCHANGED taskVars
    /\ UNCHANGED graphVars

\* Mutant: the activation task returns without counting itself down.
AfterPendingWorkReturn(g) == act

\* do_pending_work returned: a task that was still activating the group goes on to the end
\* of activate_group, any other task just ends.
AfterPendingWork(g) ==
    [act EXCEPT ![g] = IF @ = "running" THEN "decrement" ELSE @]

-----------------------------------------------------------------------------
(* Sending work *)

\* LocalWorkQueue::send_work: an item for the sender's own group goes on its local queue.
SendLocally(g, item) ==
    /\ GroupOf(item) = g
    /\ localWork' = [localWork EXCEPT ![g] = @ \cup {item}]
    /\ UNCHANGED <<worker, slotWork>>

\* Mutant: a parked worker is left in its slot.
SendToSlotWithoutWaking(to, item) ==
    /\ slotWork' = [slotWork EXCEPT ![to] = @ \cup {item}]
    /\ UNCHANGED <<worker, localWork>>

\* GraphResources::send_work: under the lock of the target's slot the item is queued and the
\* worker, if it is parked there, is taken out; the sender then spawns a task for it.
SendToSlot(to, item) ==
    /\ slotWork' = [slotWork EXCEPT ![to] = @ \cup {item}]
    /\ worker' = [worker EXCEPT ![to] = IF @ = "parked" THEN "working" ELSE @]
    /\ UNCHANGED localWork

\* A request decided on earlier is delivered.
SendWork(g) ==
    \E item \in outbox[g] :
        /\ outbox' = [outbox EXCEPT ![g] = @ \ {item}]
        /\ \/ SendLocally(g, item)
           \/ GroupOf(item) # g /\ SendToSlot(GroupOf(item), item)
        /\ UNCHANGED <<act, reg, todo, loading, draining, remaining, result>>
        /\ UNCHANGED graphVars

-----------------------------------------------------------------------------
(* References *)

\* A task has the group's state and may go on with its references.
CanProcess(g) == worker[g] \in {"activating", "working"} /\ reg[g] = {} /\ outbox[g] = {}

\* layout::resolution_flags, with the copy relocation process_relocation adds.
FlagsToAdd(kind) ==
    CASE kind = "NoFlags" -> {}
      [] kind = "Copy" -> {"DIRECT", "COPY_RELOCATION"}
      [] OTHER -> {"DIRECT"}

\* Mutant: the previous flags are not looked at.
AlwaysRequest(s) == TRUE

\* !previous_flags.has_resolution(), of the value fetch_or returns.
NeedsRequest(s) == flags[s] = {}

\* Mutant: a copy relocation is requested only together with the symbol.
NeedsCopyAtFirst(r) == r.kind = "Copy" /\ flags[r.sym] = {}

\* flags_to_add.needs_copy_relocation() && !previous_flags.needs_copy_relocation().
NeedsCopy(r) == r.kind = "Copy" /\ "COPY_RELOCATION" \notin flags[r.sym]

\* process_relocation: one atomic fetch_or; whoever finds the symbol without a resolution
\* requests it, whoever adds the copy relocation requests that.
ProcessRelocation(g, r) ==
    /\ r.kind \in {"Direct", "NoFlags", "Copy", "Undef"}
    /\ flags' = [flags EXCEPT ![r.sym] = @ \cup FlagsToAdd(r.kind)]
    /\ outbox' = [outbox EXCEPT ![g] =
          (IF NeedsRequest(r.sym) THEN {LoadSym(r.sym)} ELSE {})
             \cup (IF NeedsCopy(r) THEN {CopySym(r.sym)} ELSE {})]
    /\ errors' = IF r.kind = "Undef" THEN errors \cup {g} ELSE errors
    /\ UNCHANGED <<act, worker, localWork, symLoads, exports>>

\* mark_defsyms_as_used, InternalSymbols::activate_symbols: flagged, nobody is asked.
MarkSymbol(g, r) ==
    /\ r.kind = "Mark"
    /\ flags' = [flags EXCEPT ![r.sym] = @ \cup {"DIRECT"}]
    /\ UNCHANGED <<act, worker, localWork, outbox, errors, symLoads, exports>>

\* DynamicLayoutState::request_all_undefined_symbols: the definition is to be exported.
RequestExport(g, r) ==
    /\ r.kind = "Export"
    /\ outbox' = [outbox EXCEPT ![g] = {ExportSym(r.sym)}]
    /\ UNCHANGED <<act, worker, localWork, flags, errors, symLoads, exports>>

\* ObjectLayoutState::load_symbol, run by the symbol's own group: what load_symbol queues.
LoadSymbolWork(s) == IF SectionOf[s] = None THEN {} ELSE {LoadSec(SectionOf[s])}

\* Mutant: each request for an export adds a definition.
AlwaysExport(s) == TRUE

\* !old_flags.needs_export_dynamic().
NeedsExport(s) == "EXPORT_DYNAMIC" \notin flags[s]

\* ObjectLayoutState::export_dynamic and the body of load_non_hidden_symbols; queue is the
\* group's local queue without the request being served.
ExportDynamic(g, s, queue) ==
    IF s \in Exportable
      THEN /\ flags' = [flags EXCEPT ![s] = @ \cup {"EXPORT_DYNAMIC"}]
           /\ symLoads' = [symLoads EXCEPT ![s] = IF NeedsRequest(s) THEN @ + 1 ELSE @]
           /\ exports' = [exports EXCEPT ![s] = IF NeedsExport(s) THEN @ + 1 ELSE @]
           /\ localWork' = [localWork EXCEPT ![g] =
                               queue \cup (IF NeedsRequest(s) THEN LoadSymbolWork(s) ELSE {})]
      ELSE /\ localWork' = [localWork EXCEPT ![g] = queue]
           /\ UNCHANGED <<flags, symLoads, exports>>

\* load_non_hidden_symbols, at activation.
ExportOwn(g, r) ==
    /\ r.kind = "Own"
    /\ ExportDynamic(g, r.sym, localWork[g])
    /\ UNCHANGED <<act, worker, outbox, errors>>

\* One reference of a section, of an FDE or of an activation.
ProcessReference(g) ==
    /\ CanProcess(g)
    /\ \E r \in todo[g] :
        /\ todo' = [todo EXCEPT ![g] = @ \ {r}]
        /\ \/ ProcessRelocation(g, r)
           \/ MarkSymbol(g, r)
           \/ RequestExport(g, r)
           \/ ExportOwn(g, r)
        /\ UNCHANGED <<slotWork, reg, loading, draining, slot, startStop, remaining,
                       copied, result>>

\* An activation whose file fails records the error and goes on with the next file.
FailActivation(g) ==
    /\ CanProcess(g) /\ worker[g] = "activating"
    /\ \E r \in todo[g], rest \in SUBSET todo[g] :
        /\ r.kind = "Bail" /\ r \notin rest
        /\ todo' = [todo EXCEPT ![g] = rest]
    /\ errors' = errors \cup {g}
    /\ UNCHANGED <<act, worker, localWork, slotWork, reg, outbox, loading, draining, flags,
                   slot, startStop, remaining, symLoads, exports, copied, result>>

\* Mutant: the group is dropped and the error forgotten.
DropWorkerSilently(g) ==
    /\ worker' = [worker EXCEPT ![g] = "dropped"]
    /\ act' = AfterPendingWork(g)
    /\ UNCHANGED errors

\* do_pending_work on an error: report_error, and the group's state is dropped, not parked.
DropWorker(g) ==
    /\ errors' = errors \cup {g}
    /\ worker' = [worker EXCEPT ![g] = "dropped"]
    /\ act' = AfterPendingWork(g)

\* A relocation that cannot be applied ends the group's work.
FailSection(g) ==
    /\ CanProcess(g) /\ worker[g] = "working"
    /\ \E r \in todo[g] : r.kind = "Bail"
    /\ DropWorker(g)
    /\ todo' = [todo EXCEPT ![g] = {}]
    /\ loading' = [loading EXCEPT ![g] = None]
    /\ UNCHANGED <<localWork, slotWork, reg, outbox, draining, flags, slot, startStop,
                   remaining, symLoads, exports, copied, result>>

-----------------------------------------------------------------------------
(* Work items *)

\* The task is between two work items of do_pending_work.
Idle(g) ==
    /\ worker[g] = "working"
    /\ todo[g] = {} /\ outbox[g] = {} /\ loading[g] = None /\ draining[g] = None

\* LoadGlobalSymbol: an object queues the symbol's section, the synthetic symbols start to
\* empty the queue of the output section the symbol bounds.
HandleSymbolRequest(g, item) ==
    /\ item.op = "sym"
    /\ symLoads' = [symLoads EXCEPT ![item.sym] = @ + 1]
    /\ localWork' = [localWork EXCEPT ![g] = (@ \ {item}) \cup LoadSymbolWork(item.sym)]
    /\ draining' = [draining EXCEPT ![g] = BoundOf[item.sym]]
    /\ UNCHANGED <<act, worker, todo, loading, flags, errors, exports, copied>>

\* CopyRelocateSymbol: the shared object records the copy relocation.
HandleCopyRequest(g, item) ==
    /\ item.op = "copy"
    /\ copied' = copied \cup {item.sym}
    /\ localWork' = [localWork EXCEPT ![g] = @ \ {item}]
    /\ UNCHANGED <<act, worker, todo, loading, draining, flags, errors, symLoads, exports>>

\* WorkItem::ExportDynamic.
HandleExportRequest(g, item) ==
    /\ item.op = "export"
    /\ ExportDynamic(g, item.sym, localWork[g] \ {item})
    /\ UNCHANGED <<act, worker, todo, loading, draining, errors, copied>>

\* LoadSection of a section not loaded yet: load_section starts on its relocations.  A
\* section already loaded is left alone, a discarded one ends the group's work.
HandleSectionRequest(g, item) ==
    /\ item.op = "sec"
    /\ localWork' = [localWork EXCEPT ![g] = @ \ {item}]
    /\ CASE slot[item.sec] = "Unloaded" ->
              /\ loading' = [loading EXCEPT ![g] = item.sec]
              /\ todo' = [todo EXCEPT ![g] = Relocs[item.sec]]
              /\ UNCHANGED <<act, worker, errors>>
         [] slot[item.sec] = "Loaded" -> UNCHANGED <<loading, todo, act, worker, errors>>
         [] slot[item.sec] = "Discard" -> DropWorker(g) /\ UNCHANGED <<loading, todo>>
    /\ UNCHANGED <<draining, flags, symLoads, exports, copied>>

\* FileLayoutState::do_work on an item popped from the local queue.
DoWork(g) ==
    /\ Idle(g)
    /\ \E item \in localWork[g] :
        \/ HandleSymbolRequest(g, item)
        \/ HandleCopyRequest(g, item)
        \/ HandleExportRequest(g, item)
        \/ HandleSectionRequest(g, item)
    /\ UNCHANGED <<slotWork, reg, outbox, slot, startStop, remaining, result>>

\* The end of load_section: all relocations are processed, the slot becomes Loaded.
FinishSection(g) ==
    /\ worker[g] = "working" /\ loading[g] # None
    /\ todo[g] = {} /\ outbox[g] = {}
    /\ slot' = [slot EXCEPT ![loading[g]] = "Loaded"]
    /\ loading' = [loading EXCEPT ![g] = None]
    /\ UNCHANGED <<act, worker, localWork, slotWork, reg, todo, outbox, draining, flags,
                   startStop, remaining, errors, symLoads, exports, copied, result>>

\* SyntheticSymbolsLayoutState::load_symbol pops a section and sends it to its group.
PopStartStopSection(g) ==
    /\ worker[g] = "working" /\ outbox[g] = {}
    /\ \E x \in startStop :
        /\ OutputOf[x] = draining[g]
        /\ startStop' = startStop \ {x}
        /\ outbox' = [outbox EXCEPT ![g] = {LoadSec(x)}]
    /\ UNCHANGED <<act, worker, localWork, slotWork, reg, todo, loading, draining, flags,
                   slot, remaining, errors, symLoads, exports, copied, result>>

\* The queue of the output section is empty: load_symbol returns.
FinishStartStop(g) ==
    /\ worker[g] = "working" /\ outbox[g] = {} /\ draining[g] # None
    /\ \A x \in startStop : OutputOf[x] # draining[g]
    /\ draining' = [draining EXCEPT ![g] = None]
    /\ UNCHANGED <<act, worker, localWork, slotWork, reg, todo, outbox, loading, flags, slot,
                   startStop, remaining, errors, symLoads, exports, copied, result>>

-----------------------------------------------------------------------------
(* The end of a batch and of the traversal *)

\* slot.work.is_empty(), under the slot's lock.
SlotIsEmpty(g) == slotWork[g] = {}

\* do_pending_work with an empty local queue and, under the slot's lock, an empty slot:
\* the worker goes back into its slot.
Park(g) ==
    /\ Idle(g) /\ localWork[g] = {} /\ SlotIsEmpty(g)
    /\ worker' = [worker EXCEPT ![g] = "parked"]
    /\ act' = AfterPendingWork(g)
    /\ UNCHANGED <<localWork, slotWork, remaining, result>>
    /\ UNCHANGED taskVars
    /\ UNCHANGED graphVars

\* ... and a slot that is not empty: its work becomes the local queue.
TakeSlotWork(g) ==
    /\ Idle(g) /\ localWork[g] = {} /\ ~SlotIsEmpty(g)
    /\ localWork' = [localWork EXCEPT ![g] = slotWork[g]]
    /\ slotWork' = [slotWork EXCEPT ![g] = {}]
    /\ UNCHANGED <<act, worker, remaining, result>>
    /\ UNCHANGED taskVars
    /\ UNCHANGED graphVars

\* No task is left: rayon's scope ends.
Quiescent ==
    \A g \in Group : act[g] = "done" /\ worker[g] \notin {"activating", "working"}

\* find_required_sections returns the first error, or the groups found in their slots.
FinishTraversal ==
    /\ Quiescent /\ result = "running"
    /\ result' = IF errors = {} THEN "groups" ELSE "error"
    /\ UNCHANGED <<act, worker, localWork, slotWork, remaining>>
    /\ UNCHANGED taskVars
    /\ UNCHANGED graphVars

Next ==
    \/ \E g \in Group :
        \/ ActivateGroup(g) \/ OfferStartStopSection(g) \/ FinishActivation(g)
        \/ CompleteActivation(g) \/ SendWork(g) \/ ProcessReference(g)
        \/ FailActivation(g) \/ FailSection(g) \/ DoWork(g) \/ FinishSection(g)
        \/ PopStartStopSection(g) \/ FinishStartStop(g) \/ Park(g) \/ TakeSlotWork(g)
    \/ FinishTraversal

Spec == Init /\ [][Next]_vars

\* rayon runs every spawned task, and the scope waits for all of them.
FairSpec == Spec /\ WF_vars(Next)

-----------------------------------------------------------------------------
(* Properties *)

Loaded == {x \in Section : slot[x] = "Loaded"}

\* The symbols load_symbol ran for or that were flagged without a request.
Used == {s \in Symbol : flags[s] # {} \/ symLoads[s] > 0}

\* A slot never holds both parked worker and work: otherwise the work would stay there when
\* every task has ended (layout.rs, GraphResources::send_work and do_pending_work).
NoLostWork == \A g \in Group : worker[g] = "parked" => slotWork[g] = {}

\* The synthetic symbols are processed only when every eligible section has been offered,
\* as activate_group's comment says.
SyntheticAfterActivation ==
    worker[Synthetic] = "working" => \A g \in Group : act[g] = "done" /\ reg[g] = {}

\* A symbol is put in dynamic_symbol_definitions at most once, whoever asks for the export.
ExportedOnce == \A s \in Symbol : exports[s] <= 1

\* Storage of a common symbol is allocated by load_symbol, so it must run once: of any
\* number of groups that refer to a symbol, one requests it.  (A symbol with a reference that
\* adds no resolution flag is excepted: process_relocation requests it, and leaves its flags
\* empty, so that the next reference requests it again.)
SymbolsLoadedOnce ==
    \A s \in Symbol :
        \/ symLoads[s] <= 1
        \/ \E x \in Section : [kind |-> "NoFlags", sym |-> s] \in Relocs[x]
        \/ \E g \in Group : [kind |-> "NoFlags", sym |-> s] \in Roots[g]

\* What several tasks want at once is done once: a symbol is requested, and defined in the
\* dynamic symbol table, by one of them.
ServedOnce == SymbolsLoadedOnce /\ ExportedOnce

-----------------------------------------------------------------------------
(* The traversal implements Reachability *)

SecNode(x) == <<"section", x>>
SymNode(s) == <<"symbol", s>>
CopyNode(s) == <<"copy", s>>

Nodes == {SecNode(x) : x \in Section} \cup {SymNode(s) : s \in Symbol} \cup {CopyNode(s) : s \in Symbol}

\* An export of a symbol that cannot be exported is no reference, nor is one that fails.
Counts(r) == r.kind # "Bail" /\ (r.kind \in {"Export", "Own"} => r.sym \in Exportable)
NodesOf(refs) ==
    {SymNode(r.sym) : r \in {q \in refs : Counts(q)}}
        \cup {CopyNode(r.sym) : r \in {q \in refs : q.kind = "Copy"}}
RootNodes ==
    (UNION {NodesOf(Roots[g]) : g \in Group}) \cup {SecNode(x) : x \in MustLoad}

\* A used symbol needs its section and, when it bounds an output section, every eligible
\* section of that.
SymbolNeeds(s) ==
    {SecNode(x) : x \in {y \in Section : y = SectionOf[s] \/ (y \in Eligible /\ OutputOf[y] = BoundOf[s])}}
NodeSuccessors ==
    [n \in Nodes |-> CASE n[1] = "section" -> NodesOf(Relocs[n[2]])
                       [] n[1] = "symbol" -> SymbolNeeds(n[2])
                       [] OTHER -> {}]

IsError(r) == r.kind \in {"Undef", "Bail"}
FaultyNodes == {SecNode(x) : x \in Discard \cup {y \in Section : \E r \in Relocs[y] : IsError(r)}}

\* What the traversal has decided to keep.  After an error it does not matter.
KeptNodes ==
    IF errors # {} THEN {}
    ELSE {SecNode(x) : x \in Loaded \cup ({loading[g] : g \in Group} \ {None})}
           \cup {SymNode(s) : s \in Used} \cup {CopyNode(s) : s \in copied}

\* When groups are returned, unwrap_worker_states must find every one in its slot:
\* group_states[0] is taken for the prelude's.
GroupsInSlots == \A g \in Group : worker[g] = "parked" /\ localWork[g] = {}

Phase ==
    CASE result = "running" -> IF errors = {} THEN "running" ELSE "failing"
      [] result = "error" -> "failed"
      [] OTHER -> IF GroupsInSlots THEN "returned" ELSE "groups lost"

Required == INSTANCE Reachability WITH
    Node <- Nodes, Root <- RootNodes, Successors <- NodeSuccessors,
    Faulty <- FaultyNodes, FaultyRoot <- \E g \in Group : \E r \in Roots[g] : IsError(r),
    kept <- KeptNodes, phase <- Phase

\* find_required_sections is a garbage collector: whatever the tasks do, in whatever order,
\* it keeps only what the roots need, returns when it has all of it, the sections bounded
\* by used __start_/__stop_ symbols and the copy relocations included, with every group in
\* its slot, and reports an error only if something needed is one.
CollectsGarbage == Required!Spec

\* It ends, with groups or an error, although groups are put aside for the last activation,
\* parked when they have nothing to do and dropped when they fail.
TraversalEnds == Required!Ends

=============================================================================
