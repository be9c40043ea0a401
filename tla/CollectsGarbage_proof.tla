------------------------ MODULE CollectsGarbage_proof ------------------------
(***************************************************************************)
(* The traversal of FindRequiredSections implements Reachability, for      *)
(* every set of groups, sections and symbols and every reference graph:    *)
(* it keeps one node after another, each because of a root or of a node    *)
(* kept before, returns groups only when everything needed is kept and     *)
(* every group is in its slot, and fails only on a needed node that cannot *)
(* be kept.                                                                *)
(***************************************************************************)
EXTENDS FindRequiredSections_proof

-----------------------------------------------------------------------------
(* Tasks: when a group's state holds what *)

\* Why: only the task that has a group's state fills its buffers, and it parks the state only
\* when they are empty; what is put aside is taken by the last activation; nothing moves after
\* the end.
TaskInv ==
    /\ \A g \in Group : outbox[g] # {} => worker[g] \in {"activating", "working"}
    /\ \A g \in Group : worker[g] = "none" <=> act[g] = "queued"
    /\ \A g \in Group : worker[g] \in {"none", "parked"} =>
          /\ localWork[g] = {} /\ todo[g] = {} /\ loading[g] = None /\ draining[g] = None
    /\ \A g \in Group : worker[g] = "dropped" => errors # {}
    /\ \A g \in Group : worker[g] = "delayed" =>
          g = Synthetic /\ \E h \in Group : act[h] # "done"
    /\ result # "running" => Quiescent

\* When no task is left, none comes back.
LEMMA QuiescentStops ==
    ASSUME TypeOK, DelayInv, TaskInv, Quiescent, [Next]_vars
    PROVE  UNCHANGED vars \/ FinishTraversal
<1>1. \A g \in Group : /\ act[g] = "done" /\ worker[g] \notin {"activating", "working"}
                       /\ outbox[g] = {} /\ reg[g] = {}
  BY DEF Quiescent, TaskInv, DelayInv
<1>2. ASSUME NEW g \in Group,
             \/ ActivateGroup(g) \/ OfferStartStopSection(g) \/ FinishActivation(g)
             \/ CompleteActivation(g) \/ SendWork(g)
      PROVE  FALSE
  BY <1>1, <1>2 DEF ActivateGroup, OfferStartStopSection, FinishActivation,
     CompleteActivation, SendWork
<1>3. ASSUME NEW g \in Group,
             \/ ProcessReference(g) \/ FailActivation(g) \/ FailSection(g)
             \/ FinishSection(g) \/ PopStartStopSection(g) \/ FinishStartStop(g)
      PROVE  FALSE
  BY <1>1, <1>3 DEF ProcessReference, FailActivation, FailSection, FinishSection,
     PopStartStopSection, FinishStartStop, CanProcess
<1>4. ASSUME NEW g \in Group, DoWork(g) \/ Park(g) \/ TakeSlotWork(g) PROVE FALSE
  BY <1>1, <1>4 DEF DoWork, Park, TakeSlotWork, Idle
<1> QED
  BY <1>2, <1>3, <1>4 DEF Next

LEMMA ErrorsStay ==
    ASSUME TypeOK, [Next]_vars
    PROVE  errors \subseteq errors'
<1>1. CASE UNCHANGED vars \/ FinishTraversal
  BY <1>1 DEF vars, FinishTraversal, graphVars
<1>2. ASSUME NEW g \in Group,
             \/ ActivateGroup(g) \/ OfferStartStopSection(g) \/ FinishActivation(g)
             \/ CompleteActivation(g) \/ SendWork(g) \/ FinishSection(g)
             \/ PopStartStopSection(g) \/ FinishStartStop(g) \/ Park(g) \/ TakeSlotWork(g)
      PROVE  errors \subseteq errors'
  BY <1>2 DEF ActivateGroup, OfferStartStopSection, FinishActivation, CompleteActivation,
     SendWork, FinishSection, PopStartStopSection, FinishStartStop, Park, TakeSlotWork, graphVars
<1>3. ASSUME NEW g \in Group, FailActivation(g) \/ FailSection(g)
      PROVE  errors \subseteq errors'
  BY <1>3 DEF FailActivation, FailSection, DropWorker
<1>4. ASSUME NEW g \in Group, NEW r, Processes(g, r) PROVE errors \subseteq errors'
  BY <1>4 DEF Processes, ProcessRelocation, MarkSymbol, RequestExport, ExportOwn
<1>5. ASSUME NEW g \in Group, NEW item, Handles(g, item) PROVE errors \subseteq errors'
  <2>1. CASE HandleSectionRequest(g, item)
    BY <1>5, <2>1, SectionRequestCases DEF Handles, DropWorker
  <2> QED
    BY <1>5, <2>1 DEF Handles, HandleSymbolRequest, HandleCopyRequest, HandleExportRequest
<1> QED
  BY <1>1, <1>2, <1>3, <1>4, <1>5, ProcessesOne, HandlesOne DEF Next

LEMMA TaskDropped ==
    ASSUME TypeOK, NEW g \in Group, worker[g] = "working", act[g] # "queued", DropWorker(g)
    PROVE  /\ worker'[g] = "dropped" /\ act'[g] # "queued" /\ g \in errors'
           /\ \A h \in Group : h # g => worker'[h] = worker[h] /\ act'[h] = act[h]
           /\ (\E h \in Group : act[h] # "done") => \E h \in Group : act'[h] # "done"
BY DEF DropWorker, AfterPendingWork, TypeOK

LEMMA ResultSteps ==
    ASSUME [Next]_vars
    PROVE  result' = result \/ FinishTraversal
<1>1. ASSUME NEW g \in Group,
             \/ ActivateGroup(g) \/ OfferStartStopSection(g) \/ FinishActivation(g)
             \/ CompleteActivation(g) \/ SendWork(g) \/ ProcessReference(g)
             \/ FailActivation(g) \/ FailSection(g)
      PROVE  result' = result
  BY <1>1 DEF ActivateGroup, OfferStartStopSection, FinishActivation, CompleteActivation,
     SendWork, ProcessReference, FailActivation, FailSection
<1>2. ASSUME NEW g \in Group,
             \/ DoWork(g) \/ FinishSection(g) \/ PopStartStopSection(g)
             \/ FinishStartStop(g) \/ Park(g) \/ TakeSlotWork(g)
      PROVE  result' = result
  BY <1>2 DEF DoWork, FinishSection, PopStartStopSection, FinishStartStop, Park, TakeSlotWork
<1> QED
  BY <1>1, <1>2 DEF Next, vars

\* The end of a batch leaves nothing behind, an activation that ends is not the last as long
\* as the synthetic symbols wait.
LEMMA TaskInductive ==
    ASSUME TypeOK, CountOK, DelayInv, TaskInv, [Next]_vars
    PROVE  TaskInv'
<1>1. CASE result # "running"
  <2>1. UNCHANGED vars \/ FinishTraversal
    BY <1>1, QuiescentStops DEF TaskInv
  <2>2. UNCHANGED vars
    BY <1>1, <2>1 DEF FinishTraversal
  <2> QED
    BY <2>2 DEF vars, TaskInv, Quiescent
<1>2. CASE FinishTraversal
  BY <1>2 DEF FinishTraversal, taskVars, graphVars, TaskInv, Quiescent
<1>3. SUFFICES ASSUME result = "running", result' = "running",
                      errors \subseteq errors',
                      \A g \in Group : /\ worker[g] = "none" <=> act[g] = "queued"
                                       /\ worker[g] = "delayed" =>
                                             g = Synthetic /\ \E h \in Group : act[h] # "done"
               PROVE  TaskInv'
  <2>3. result' = result \/ FinishTraversal
    BY ResultSteps
  <2>4. ASSUME NEW g \in Group
        PROVE  /\ worker[g] = "none" <=> act[g] = "queued"
               /\ worker[g] = "delayed" => g = Synthetic /\ \E h \in Group : act[h] # "done"
    BY DEF TaskInv
  <2>5. CASE result = "running" /\ result' = "running"
    BY <1>3, <2>4, <2>5, ErrorsStay
  <2> QED
    BY <1>1, <1>2, <2>3, <2>5
<1> USE DEF TaskInv
<1>4. CASE UNCHANGED vars
  BY <1>3, <1>4 DEF vars
<1>5. ASSUME NEW g \in Group, ActivateGroup(g) PROVE TaskInv'
  BY <1>3, <1>5 DEF ActivateGroup, graphVars, TypeOK
<1>6. ASSUME NEW g \in Group, OfferStartStopSection(g) PROVE TaskInv'
  BY <1>3, <1>6 DEF OfferStartStopSection
<1>7. ASSUME NEW g \in Group, FinishActivation(g) PROVE TaskInv'
  BY <1>3, <1>7 DEF FinishActivation, ShouldDelayProcessing, taskVars, graphVars, TypeOK
<1>8. ASSUME NEW g \in Group, CompleteActivation(g) PROVE TaskInv'
  <2>1. /\ act' = [act EXCEPT ![g] = "done"] /\ act[g] = "decrement"
        /\ UNCHANGED <<localWork, slotWork, result>> /\ UNCHANGED taskVars /\ UNCHANGED graphVars
    BY <1>8 DEF CompleteActivation
  <2>2. CASE worker[Synthetic] = "delayed" /\ LastActivation(remaining')
    <3>1. worker' = [worker EXCEPT ![Synthetic] = "working"]
      BY <1>8, <2>2 DEF CompleteActivation
    <3> QED
      BY <1>3, <2>1, <2>2, <3>1, GroupsAssumption DEF taskVars, graphVars, TypeOK
  <2>3. CASE ~(worker[Synthetic] = "delayed" /\ LastActivation(remaining'))
    <3>1. worker' = worker
      BY <1>8, <2>3 DEF CompleteActivation
    <3>2. ASSUME worker[Synthetic] = "delayed" PROVE \E h \in Group : act'[h] # "done"
      <4>1. Cardinality(Unfinished)' # 0
        BY <1>8, <2>3, <3>2, CompleteCounts DEF CountOK, LastActivation
      <4>2. Unfinished' # {}
        BY <4>1, FS_EmptySet
      <4> QED
        BY <4>2 DEF Unfinished
    <3> QED
      BY <1>3, <2>1, <3>1, <3>2 DEF taskVars, graphVars, TypeOK
  <2> QED
    BY <2>2, <2>3
<1>9. ASSUME NEW g \in Group, SendWork(g) PROVE TaskInv'
  BY <1>3, <1>9 DEF SendWork, SendLocally, SendToSlot, graphVars, TypeOK
<1>10. ASSUME NEW g \in Group, NEW r, Processes(g, r) PROVE TaskInv'
  <2>1. /\ act' = act /\ worker' = worker /\ UNCHANGED <<loading, draining>>
        /\ worker[g] \in {"activating", "working"}
        /\ todo' = [todo EXCEPT ![g] = @ \ {r}]
    BY <1>10 DEF Processes, CanProcess, ProcessRelocation, MarkSymbol, RequestExport, ExportOwn
  <2>2. \A h \in Group : h # g => outbox'[h] = outbox[h] /\ localWork'[h] = localWork[h]
    BY <1>10 DEF Processes, ProcessRelocation, MarkSymbol, RequestExport, ExportOwn,
       ExportDynamic, TypeOK
  <2>3. \A h \in Group : h # g => todo'[h] = todo[h]
    BY <2>1 DEF TypeOK
  <2> QED
    BY <1>3, <2>1, <2>2, <2>3
<1>11. ASSUME NEW g \in Group, FailActivation(g) \/ FailSection(g) PROVE TaskInv'
  <2>1. CASE FailActivation(g)
    <3>1. /\ UNCHANGED <<act, worker, localWork, outbox, loading, draining>>
          /\ worker[g] = "activating"
          /\ \A h \in Group : h # g => todo'[h] = todo[h]
      BY <2>1 DEF FailActivation, TypeOK
    <3> QED
      BY <1>3, <3>1
  <2>2. CASE FailSection(g)
    BY <1>3, <2>2, TaskDropped DEF FailSection, CanProcess, TypeOK
  <2> QED
    BY <1>11, <2>1, <2>2
<1>12. ASSUME NEW g \in Group, NEW item, Handles(g, item) PROVE TaskInv'
  <2>1. /\ worker[g] = "working" /\ outbox[g] = {} /\ outbox' = outbox /\ item \in localWork[g]
    BY <1>12 DEF Handles, Idle
  <2>2. \A h \in Group : h # g => /\ localWork'[h] = localWork[h] /\ todo'[h] = todo[h]
                                  /\ loading'[h] = loading[h] /\ draining'[h] = draining[h]
    <3>1. CASE HandleSectionRequest(g, item)
      <4>1. localWork' = [localWork EXCEPT ![g] = @ \ {item}] /\ draining' = draining
        BY <3>1 DEF HandleSectionRequest
      <4>2. \/ loading' = [loading EXCEPT ![g] = item.sec] /\ todo' = [todo EXCEPT ![g] = Relocs[item.sec]]
            \/ UNCHANGED <<loading, todo>>
        BY <2>1, <3>1, SectionRequestCases
      <4> QED
        BY <4>1, <4>2 DEF TypeOK
    <3> QED
      BY <1>12, <3>1 DEF Handles, HandleSymbolRequest, HandleCopyRequest, HandleExportRequest,
         ExportDynamic, TypeOK
  <2>3. (act' = act /\ worker' = worker) \/ DropWorker(g)
    <3>1. CASE HandleSectionRequest(g, item)
      BY <2>1, <3>1, SectionRequestCases
    <3> QED
      BY <1>12, <3>1 DEF Handles, HandleSymbolRequest, HandleCopyRequest, HandleExportRequest
  <2>4. CASE act' = act /\ worker' = worker
    BY <1>3, <2>1, <2>2, <2>4
  <2>5. CASE DropWorker(g)
    BY <1>3, <2>1, <2>2, <2>5, TaskDropped
  <2> QED
    BY <2>3, <2>4, <2>5
<1>13. ASSUME NEW g \in Group,
              FinishSection(g) \/ PopStartStopSection(g) \/ FinishStartStop(g)
       PROVE  TaskInv'
  BY <1>3, <1>13 DEF FinishSection, PopStartStopSection, FinishStartStop, TypeOK
<1>14. ASSUME NEW g \in Group, Park(g) \/ TakeSlotWork(g) PROVE TaskInv'
  BY <1>3, <1>14 DEF Park, TakeSlotWork, Idle, AfterPendingWork, taskVars, graphVars, TypeOK
<1> QED
  BY <1>2, <1>4, <1>5, <1>6, <1>7, <1>8, <1>9, <1>10, <1>11, <1>12, <1>13, <1>14,
     ProcessesOne, HandlesOne DEF Next

-----------------------------------------------------------------------------
(* What is kept, and what is asked for *)

\* An item is in some queue or buffer.
HasItem(item) ==
    \E g \in Group : item \in localWork[g] \/ item \in slotWork[g] \/ item \in outbox[g]

SecKept(x) == slot[x] = "Loaded" \/ \E g \in Group : loading[g] = x
SymKept(s) == flags[s] # {} \/ symLoads[s] > 0

\* A step adds these items and no others, and takes out at most those that are done.
Moves(new, done) ==
    /\ \A i \in Item : HasItem(i)' => HasItem(i) \/ i \in new
    /\ \A i \in Item : HasItem(i) => HasItem(i)' \/ i \in done
    /\ \A i \in new : HasItem(i)'

\* A step keeps these sections, symbols and copy relocations besides those kept before.
Keeps(secs, syms, copies) ==
    /\ \A x \in Section : SecKept(x)' <=> SecKept(x) \/ x \in secs
    /\ \A s \in Symbol : SymKept(s)' <=> SymKept(s) \/ s \in syms
    /\ copied' = copied \cup copies

KeepsNothing == Keeps({}, {}, {})

\* The items a relocation and an export add.
Requests(r) ==
    (IF NeedsRequest(r.sym) THEN {LoadSym(r.sym)} ELSE {})
        \cup (IF NeedsCopy(r) THEN {CopySym(r.sym)} ELSE {})
ExportWork(s) == IF s \in Exportable /\ NeedsRequest(s) THEN LoadSymbolWork(s) ELSE {}

LEMMA SameKept ==
    ASSUME UNCHANGED <<flags, symLoads, copied, slot, loading>>
    PROVE  KeepsNothing
BY DEF KeepsNothing, Keeps, SecKept, SymKept

LEMMA SameItems ==
    ASSUME UNCHANGED <<localWork, slotWork, outbox>>
    PROVE  Moves({}, {})
BY DEF Moves, HasItem

\* Steps that keep and ask for nothing new.
LEMMA QuietEffect ==
    ASSUME TypeOK, NEW g \in Group,
           \/ OfferStartStopSection(g) \/ FinishActivation(g) \/ CompleteActivation(g)
           \/ Park(g) \/ FinishStartStop(g)
    PROVE  Moves({}, {}) /\ KeepsNothing
<1>1. UNCHANGED <<localWork, slotWork, outbox, flags, symLoads, copied, slot, loading>>
  BY DEF OfferStartStopSection, FinishActivation, CompleteActivation, Park, FinishStartStop,
     taskVars, graphVars
<1> QED
  BY <1>1, SameItems, SameKept

LEMMA FinishSectionEffect ==
    ASSUME TypeOK, NEW g \in Group, FinishSection(g)
    PROVE  Moves({}, {}) /\ KeepsNothing
<1>1. Moves({}, {})
  BY SameItems DEF FinishSection
<1>2. ASSUME NEW x \in Section PROVE SecKept(x)' <=> SecKept(x)
  BY GraphAssumption DEF FinishSection, SecKept, TypeOK
<1> QED
  BY <1>1, <1>2 DEF FinishSection, KeepsNothing, Keeps, SymKept

LEMMA SendEffect ==
    ASSUME TypeOK, NEW g \in Group, SendWork(g)
    PROVE  Moves({}, {}) /\ KeepsNothing
<1>1. PICK item \in outbox[g] :
          /\ outbox' = [outbox EXCEPT ![g] = @ \ {item}]
          /\ SendLocally(g, item) \/ SendToSlot(GroupOf(item), item)
  BY DEF SendWork
<1>2. item \in Item /\ GroupOf(item) \in Group
  BY ItemType DEF TypeOK
<1>3. KeepsNothing
  BY SameKept DEF SendWork, graphVars
<1>4. CASE SendLocally(g, item)
  <2>1. /\ slotWork' = slotWork
        /\ localWork' = [localWork EXCEPT ![g] = @ \cup {item}]
    BY <1>4 DEF SendLocally
  <2>2. ASSUME NEW i \in Item PROVE HasItem(i)' <=> HasItem(i)
    BY <1>1, <2>1 DEF HasItem, TypeOK
  <2> QED
    BY <1>3, <2>2 DEF Moves
<1>5. CASE SendToSlot(GroupOf(item), item)
  <2>1. /\ localWork' = localWork
        /\ slotWork' = [slotWork EXCEPT ![GroupOf(item)] = @ \cup {item}]
    BY <1>5 DEF SendToSlot
  <2>2. ASSUME NEW i \in Item PROVE HasItem(i)' <=> HasItem(i)
    BY <1>1, <1>2, <2>1 DEF HasItem, TypeOK
  <2> QED
    BY <1>3, <2>2 DEF Moves
<1> QED
  BY <1>1, <1>4, <1>5

LEMMA TakeSlotEffect ==
    ASSUME TypeOK, NEW g \in Group, TakeSlotWork(g)
    PROVE  Moves({}, {}) /\ KeepsNothing
<1>1. /\ localWork[g] = {} /\ outbox' = outbox
      /\ localWork' = [localWork EXCEPT ![g] = slotWork[g]]
      /\ slotWork' = [slotWork EXCEPT ![g] = {}]
  BY DEF TakeSlotWork, taskVars
<1>2. ASSUME NEW i \in Item PROVE HasItem(i)' <=> HasItem(i)
  BY <1>1 DEF HasItem, TypeOK
<1>3. KeepsNothing
  BY SameKept DEF TakeSlotWork, taskVars, graphVars
<1> QED
  BY <1>2, <1>3 DEF Moves

LEMMA ActivateEffect ==
    ASSUME TypeOK, TaskInv, NEW g \in Group, ActivateGroup(g)
    PROVE  Moves(ActivationLoads(g), {}) /\ KeepsNothing
<1>1. /\ localWork[g] = {} /\ UNCHANGED <<slotWork, outbox>>
      /\ localWork' = [localWork EXCEPT ![g] = ActivationLoads(g)]
  BY DEF ActivateGroup, TaskInv
<1>2. Moves(ActivationLoads(g), {})
  BY <1>1 DEF Moves, HasItem, TypeOK
<1>3. KeepsNothing
  BY SameKept DEF ActivateGroup, graphVars
<1> QED
  BY <1>2, <1>3

LEMMA PopEffect ==
    ASSUME TypeOK, NEW g \in Group, NEW x, outbox[g] = {},
           outbox' = [outbox EXCEPT ![g] = {LoadSec(x)}], PopStartStopSection(g)
    PROVE  Moves({LoadSec(x)}, {}) /\ KeepsNothing
<1>1. Moves({LoadSec(x)}, {})
  BY DEF PopStartStopSection, Moves, HasItem, TypeOK
<1> QED
  BY <1>1, SameKept DEF PopStartStopSection

\* What one reference, r of group g, asks for and keeps.
RefEffect(r) ==
    \/ /\ r.kind \in {"Direct", "NoFlags", "Copy", "Undef"}
       /\ Moves(Requests(r), {})
       /\ Keeps({}, IF r.kind = "NoFlags" THEN {} ELSE {r.sym}, {})
       /\ flags' = [flags EXCEPT ![r.sym] = @ \cup FlagsToAdd(r.kind)]
    \/ /\ r.kind = "Mark" /\ Moves({}, {}) /\ Keeps({}, {r.sym}, {})
       /\ flags' = [flags EXCEPT ![r.sym] = @ \cup {"DIRECT"}]
    \/ r.kind = "Export" /\ Moves({ExportSym(r.sym)}, {}) /\ KeepsNothing /\ flags' = flags
    \/ /\ r.kind = "Own" /\ Moves(ExportWork(r.sym), {})
       /\ Keeps({}, {r.sym} \cap Exportable, {})
       /\ \A s \in Symbol : flags'[s] \subseteq flags[s] \cup {"EXPORT_DYNAMIC"}

LEMMA ExportKeeps ==
    ASSUME TypeOK, NEW g \in Group, NEW s \in Symbol, NEW queue, ExportDynamic(g, s, queue),
           UNCHANGED <<copied, slot>>, \A x \in Section : SecKept(x)' <=> SecKept(x)
    PROVE  /\ Keeps({}, {s} \cap Exportable, {})
           /\ localWork' = [localWork EXCEPT ![g] = queue \cup ExportWork(s)]
           /\ \A t \in Symbol : flags'[t] \subseteq flags[t] \cup {"EXPORT_DYNAMIC"}
<1>1. CASE s \notin Exportable
  BY <1>1 DEF ExportDynamic, ExportWork, Keeps, SymKept
<1>2. CASE s \in Exportable
  <2>1. /\ flags' = [flags EXCEPT ![s] = @ \cup {"EXPORT_DYNAMIC"}]
        /\ symLoads' = [symLoads EXCEPT ![s] = IF NeedsRequest(s) THEN @ + 1 ELSE @]
    BY <1>2 DEF ExportDynamic
  <2>2. ASSUME NEW t \in Symbol PROVE SymKept(t)' <=> SymKept(t) \/ t = s
    <3>1. CASE t = s
      BY <2>1, <3>1 DEF SymKept, TypeOK
    <3>2. CASE t # s
      BY <2>1, <3>2 DEF SymKept, TypeOK
    <3> QED
      BY <3>1, <3>2
  <2>3. \A t \in Symbol : flags'[t] \subseteq flags[t] \cup {"EXPORT_DYNAMIC"}
    BY <2>1 DEF TypeOK
  <2>4. localWork' = [localWork EXCEPT ![g] = queue \cup ExportWork(s)]
    BY <1>2 DEF ExportDynamic, ExportWork
  <2>5. Keeps({}, {s} \cap Exportable, {})
    BY <1>2, <2>2 DEF Keeps
  <2> QED
    BY <2>3, <2>4, <2>5
<1> QED
  BY <1>1, <1>2

LEMMA ProcessEffect ==
    ASSUME TypeOK, NEW g \in Group, NEW r, Processes(g, r)
    PROVE  RefEffect(r)
<1>1. /\ outbox[g] = {} /\ r \in Ref /\ r.sym \in Symbol
      /\ UNCHANGED <<slotWork, loading, slot, copied>>
  BY RefType DEF Processes, CanProcess, TypeOK
<1>2. \A x \in Section : SecKept(x)' <=> SecKept(x)
  BY <1>1 DEF SecKept
<1>3. CASE ProcessRelocation(g, r)
  <2>1. /\ flags' = [flags EXCEPT ![r.sym] = @ \cup FlagsToAdd(r.kind)]
        /\ outbox' = [outbox EXCEPT ![g] = Requests(r)]
        /\ localWork' = localWork /\ symLoads' = symLoads
        /\ r.kind \in {"Direct", "NoFlags", "Copy", "Undef"}
    BY <1>3 DEF ProcessRelocation, Requests
  <2>2. Moves(Requests(r), {})
    BY <1>1, <2>1 DEF Moves, HasItem, TypeOK
  <2>3. FlagsToAdd(r.kind) = {} <=> r.kind = "NoFlags"
    BY <2>1 DEF FlagsToAdd
  <2>4. ASSUME NEW s \in Symbol
        PROVE  SymKept(s)' <=> SymKept(s) \/ (s = r.sym /\ r.kind # "NoFlags")
    BY <1>1, <2>1, <2>3 DEF SymKept, TypeOK
  <2>5. Keeps({}, IF r.kind = "NoFlags" THEN {} ELSE {r.sym}, {})
    BY <1>1, <1>2, <2>4 DEF Keeps
  <2> QED
    BY <2>1, <2>2, <2>5 DEF RefEffect
<1>4. CASE MarkSymbol(g, r)
  <2>1. /\ flags' = [flags EXCEPT ![r.sym] = @ \cup {"DIRECT"}]
        /\ UNCHANGED <<localWork, outbox, symLoads>> /\ r.kind = "Mark"
    BY <1>4 DEF MarkSymbol
  <2>2. Moves({}, {})
    BY <1>1, <2>1, SameItems
  <2>3. ASSUME NEW s \in Symbol PROVE SymKept(s)' <=> SymKept(s) \/ s = r.sym
    BY <1>1, <2>1 DEF SymKept, TypeOK
  <2>4. Keeps({}, {r.sym}, {})
    BY <1>1, <1>2, <2>3 DEF Keeps
  <2> QED
    BY <2>1, <2>2, <2>4 DEF RefEffect
<1>5. CASE RequestExport(g, r)
  <2>1. /\ outbox' = [outbox EXCEPT ![g] = {ExportSym(r.sym)}]
        /\ UNCHANGED <<localWork, flags, symLoads>> /\ r.kind = "Export"
    BY <1>5 DEF RequestExport
  <2>2. Moves({ExportSym(r.sym)}, {})
    BY <1>1, <2>1 DEF Moves, HasItem, TypeOK
  <2>3. KeepsNothing
    BY <1>1, <2>1, SameKept
  <2> QED
    BY <2>1, <2>2, <2>3 DEF RefEffect
<1>6. CASE ExportOwn(g, r)
  <2>1. r.kind = "Own" /\ ExportDynamic(g, r.sym, localWork[g]) /\ outbox' = outbox
    BY <1>6 DEF ExportOwn
  <2>2. /\ Keeps({}, {r.sym} \cap Exportable, {})
        /\ localWork' = [localWork EXCEPT ![g] = @ \cup ExportWork(r.sym)]
        /\ \A s \in Symbol : flags'[s] \subseteq flags[s] \cup {"EXPORT_DYNAMIC"}
    BY <1>1, <1>2, <2>1, ExportKeeps
  <2>3. Moves(ExportWork(r.sym), {})
    BY <1>1, <2>1, <2>2 DEF Moves, HasItem, TypeOK
  <2> QED
    BY <2>1, <2>2, <2>3 DEF RefEffect
<1> QED
  BY <1>3, <1>4, <1>5, <1>6 DEF Processes

\* What handling one item asks for and keeps, if it reports no error.
ItemEffect(g, item) ==
    \/ /\ item.op = "sym" /\ Moves(LoadSymbolWork(item.sym), {item})
       /\ Keeps({}, {item.sym}, {})
       /\ draining' = [draining EXCEPT ![g] = BoundOf[item.sym]]
       /\ UNCHANGED <<todo, loading, flags>>
    \/ /\ item.op = "copy" /\ Moves({}, {item}) /\ Keeps({}, {}, {item.sym})
       /\ UNCHANGED <<todo, loading, flags, draining>>
    \/ /\ item.op = "export" /\ Moves(ExportWork(item.sym), {item})
       /\ Keeps({}, {item.sym} \cap Exportable, {})
       /\ \A s \in Symbol : flags'[s] \subseteq flags[s] \cup {"EXPORT_DYNAMIC"}
       /\ UNCHANGED <<todo, loading, draining>>
    \/ /\ item.op = "sec" /\ slot[item.sec] = "Unloaded"
       /\ Moves({}, {item}) /\ Keeps({item.sec}, {}, {})
       /\ loading' = [loading EXCEPT ![g] = item.sec]
       /\ todo' = [todo EXCEPT ![g] = Relocs[item.sec]]
       /\ UNCHANGED <<flags, draining>>
    \/ /\ item.op = "sec" /\ slot[item.sec] = "Loaded"
       /\ Moves({}, {item}) /\ KeepsNothing
       /\ UNCHANGED <<todo, loading, flags, draining>>

\* Items come out of the local queue; what is added goes there.
LEMMA LocalMoves ==
    ASSUME TypeOK, NEW g \in Group, NEW item, NEW new, UNCHANGED <<slotWork, outbox>>,
           localWork' = [localWork EXCEPT ![g] = (@ \ {item}) \cup new]
    PROVE  Moves(new, {item})
BY DEF Moves, HasItem, TypeOK

LEMMA HandleEffect ==
    ASSUME TypeOK, TaskInv, NEW g \in Group, NEW item, Handles(g, item), errors' = {}
    PROVE  ItemEffect(g, item)
<1>1. /\ item \in Item /\ item \in localWork[g] /\ loading[g] = None
      /\ UNCHANGED <<slotWork, outbox, slot>>
      /\ item.op = "sec" => item.sec \in Section
      /\ item.op # "sec" => item.sym \in Symbol
  BY ItemType DEF Handles, Idle, TypeOK
<1>2. CASE HandleSymbolRequest(g, item)
  <2>1. Moves(LoadSymbolWork(item.sym), {item})
    BY <1>1, <1>2, LocalMoves DEF HandleSymbolRequest
  <2>2. ASSUME NEW s \in Symbol PROVE SymKept(s)' <=> SymKept(s) \/ s = item.sym
    BY <1>1, <1>2 DEF HandleSymbolRequest, SymKept, TypeOK
  <2>3. \A x \in Section : SecKept(x)' <=> SecKept(x)
    BY <1>1, <1>2 DEF HandleSymbolRequest, SecKept
  <2> QED
    BY <1>2, <2>1, <2>2, <2>3 DEF HandleSymbolRequest, Keeps, ItemEffect
<1>3. CASE HandleCopyRequest(g, item)
  <2>1. localWork' = [localWork EXCEPT ![g] = (@ \ {item}) \cup {}]
    BY <1>3 DEF HandleCopyRequest
  <2>2. Moves({}, {item})
    BY <1>1, <1>3, <2>1, LocalMoves
  <2>3. Keeps({}, {}, {item.sym})
    BY <1>1, <1>3 DEF HandleCopyRequest, Keeps, SecKept, SymKept
  <2> QED
    BY <1>3, <2>2, <2>3 DEF HandleCopyRequest, ItemEffect
<1>4. CASE HandleExportRequest(g, item)
  <2>1. /\ item.op = "export" /\ ExportDynamic(g, item.sym, localWork[g] \ {item})
        /\ UNCHANGED <<todo, loading, draining, copied>>
    BY <1>4 DEF HandleExportRequest
  <2>2. \A x \in Section : SecKept(x)' <=> SecKept(x)
    BY <1>1, <2>1 DEF SecKept
  <2>3. /\ Keeps({}, {item.sym} \cap Exportable, {})
        /\ localWork' = [localWork EXCEPT ![g] = (@ \ {item}) \cup ExportWork(item.sym)]
        /\ \A t \in Symbol : flags'[t] \subseteq flags[t] \cup {"EXPORT_DYNAMIC"}
    BY <1>1, <2>1, <2>2, ExportKeeps
  <2>4. Moves(ExportWork(item.sym), {item})
    BY <1>1, <2>3, LocalMoves
  <2> QED
    BY <2>1, <2>3, <2>4 DEF ItemEffect
<1>5. CASE HandleSectionRequest(g, item)
  <2>1. localWork' = [localWork EXCEPT ![g] = (@ \ {item}) \cup {}]
    BY <1>5 DEF HandleSectionRequest
  <2>2. Moves({}, {item})
    BY <1>1, <2>1, LocalMoves
  <2>3. item.op = "sec" /\ UNCHANGED <<draining, flags, symLoads, exports, copied>>
    BY <1>5 DEF HandleSectionRequest
  <2>4. ~DropWorker(g)
    BY DEF DropWorker
  <2>5. CASE /\ slot[item.sec] = "Unloaded"
             /\ loading' = [loading EXCEPT ![g] = item.sec]
             /\ todo' = [todo EXCEPT ![g] = Relocs[item.sec]]
    <3>1. ASSUME NEW x \in Section PROVE SecKept(x)' <=> SecKept(x) \/ x = item.sec
      BY <1>1, <2>5, GraphAssumption DEF SecKept, TypeOK
    <3>2. Keeps({item.sec}, {}, {})
      BY <2>3, <3>1 DEF Keeps, SymKept
    <3> QED
      BY <2>2, <2>3, <2>5, <3>2 DEF ItemEffect
  <2>6. CASE slot[item.sec] = "Loaded" /\ UNCHANGED <<loading, todo>>
    BY <1>1, <2>2, <2>3, <2>6, SameKept DEF ItemEffect
  <2> QED
    BY <1>1, <1>5, <2>4, <2>5, <2>6, SectionRequestCases
<1> QED
  BY <1>2, <1>3, <1>4, <1>5 DEF Handles

\* A step after which there is no error.
LEMMA StepCases ==
    ASSUME TypeOK, [Next]_vars, errors' = {}
    PROVE  \/ UNCHANGED vars \/ FinishTraversal
           \/ \E g \in Group :
                 \/ ActivateGroup(g) \/ OfferStartStopSection(g) \/ FinishActivation(g)
                 \/ CompleteActivation(g) \/ SendWork(g) \/ FinishSection(g)
                 \/ PopStartStopSection(g) \/ FinishStartStop(g) \/ Park(g) \/ TakeSlotWork(g)
                 \/ \E r \in todo[g] : Processes(g, r) /\ ~IsError(r)
                 \/ \E item \in localWork[g] : Handles(g, item)
<1>1. ASSUME NEW g \in Group, FailActivation(g) \/ FailSection(g) PROVE FALSE
  BY <1>1 DEF FailActivation, FailSection, DropWorker
<1>2. ASSUME NEW g \in Group, NEW r, Processes(g, r) PROVE ~IsError(r)
  BY <1>2 DEF Processes, ProcessRelocation, MarkSymbol, RequestExport, ExportOwn, IsError
<1> QED
  BY <1>1, <1>2, ProcessesOne, HandlesOne DEF Next

-----------------------------------------------------------------------------
(* Nothing is asked for without a reason *)

\* A reference of a root or of a kept section.
Live(r) ==
    \/ \E g \in Group : r \in Roots[g]
    \/ \E x \in Section : SecKept(x) /\ r \in Relocs[x]

Bounds(s, x) == x \in Eligible /\ OutputOf[x] = BoundOf[s]

SecWanted(x) ==
    \/ x \in MustLoad
    \/ \E s \in Symbol : SymKept(s) /\ (x = SectionOf[s] \/ Bounds(s, x))
SymWanted(s) == \E r \in Ref : Live(r) /\ Counts(r) /\ r.sym = s
CopyWanted(s) == \E r \in Ref : Live(r) /\ r.kind = "Copy" /\ r.sym = s

ItemWanted(i) ==
    /\ i.op = "sec" => SecWanted(i.sec)
    /\ i.op = "sym" \/ (i.op = "export" /\ i.sym \in Exportable) => SymWanted(i.sym)
    /\ i.op = "copy" => CopyWanted(i.sym)

ItemsJust == \A i \in Item : HasItem(i) => ItemWanted(i)
TodoJust ==
    \A g \in Group : \A r \in todo[g] :
        \/ worker[g] = "activating" /\ r \in Roots[g]
        \/ worker[g] = "working" /\ loading[g] # None /\ r \in Relocs[loading[g]]
DrainJust ==
    \A g \in Group : draining[g] # None => \E s \in Symbol : SymKept(s) /\ BoundOf[s] = draining[g]
OfferJust == startStop \subseteq Eligible /\ \A g \in Group : reg[g] \subseteq Eligible

\* As long as there is no error, every item, reference and section on offer is there because
\* of a root or of something kept.
JustInv == errors = {} => ItemsJust /\ TodoJust /\ DrainJust /\ OfferJust

\* What is wanted stays wanted.
LEMMA WantedGrows ==
    ASSUME NEW X, NEW S, NEW C, Keeps(X, S, C)
    PROVE  /\ \A r : Live(r) => Live(r)'
           /\ \A x : SecWanted(x) => SecWanted(x)'
           /\ \A s : SymWanted(s) => SymWanted(s)'
           /\ \A i : ItemWanted(i) => ItemWanted(i)'
<1>1. \A r : Live(r) => Live(r)'
  BY DEF Keeps, Live
<1>2. \A x : SecWanted(x) => SecWanted(x)'
  BY DEF Keeps, SecWanted
<1>3. \A s : (SymWanted(s) => SymWanted(s)') /\ (CopyWanted(s) => CopyWanted(s)')
  BY <1>1 DEF SymWanted, CopyWanted
<1> QED
  BY <1>1, <1>2, <1>3 DEF ItemWanted

LEMMA ItemsStayJust ==
    ASSUME ItemsJust, NEW X, NEW S, NEW C, Keeps(X, S, C), NEW new, NEW done, Moves(new, done),
           \A i \in new : ItemWanted(i)'
    PROVE  ItemsJust'
BY WantedGrows DEF ItemsJust, Moves

\* A reference a task is about to process is live.
LEMMA TodoLive ==
    ASSUME TypeOK, TodoJust, NEW g \in Group, NEW r \in todo[g]
    PROVE  r \in Ref /\ Live(r)
<1>1. r \in Ref
  BY DEF TypeOK
<1>2. CASE r \in Roots[g]
  BY <1>1, <1>2 DEF Live
<1>3. CASE loading[g] # None /\ r \in Relocs[loading[g]]
  BY <1>1, <1>3 DEF Live, SecKept, TypeOK
<1> QED
  BY <1>2, <1>3 DEF TodoJust

\* What it keeps and asks for is wanted.
LEMMA RefWanted ==
    ASSUME TypeOK, NEW r \in Ref, Live(r), RefEffect(r)
    PROVE  /\ \E X, S, C, new : /\ Keeps(X, S, C) /\ Moves(new, {})
                                /\ \A i \in new : ItemWanted(i)'
           /\ Counts(r) => SymWanted(r.sym)
<1>1. /\ Counts(r) => SymWanted(r.sym)
      /\ r.kind = "Copy" => CopyWanted(r.sym)
  BY DEF SymWanted, CopyWanted
<1>2. CASE /\ r.kind \in {"Direct", "NoFlags", "Copy", "Undef"}
           /\ Moves(Requests(r), {})
           /\ Keeps({}, IF r.kind = "NoFlags" THEN {} ELSE {r.sym}, {})
  <2>1. ASSUME NEW i \in Requests(r) PROVE ItemWanted(i)
    <3>1. \/ i = LoadSym(r.sym)
          \/ i = CopySym(r.sym) /\ r.kind = "Copy"
      BY DEF Requests, NeedsCopy
    <3> QED
      BY <1>1, <1>2, <3>1, ItemFields DEF ItemWanted, Counts
  <2> QED
    BY <1>1, <1>2, <2>1, WantedGrows
<1>3. CASE r.kind = "Mark" /\ Moves({}, {}) /\ Keeps({}, {r.sym}, {})
  BY <1>1, <1>3
<1>4. CASE r.kind = "Export" /\ Moves({ExportSym(r.sym)}, {}) /\ KeepsNothing
  <2>1. ItemWanted(ExportSym(r.sym))
    BY <1>1, <1>4, ItemFields DEF ItemWanted, Counts
  <2> QED
    BY <1>1, <1>4, <2>1, WantedGrows DEF KeepsNothing
<1>5. CASE /\ r.kind = "Own" /\ Moves(ExportWork(r.sym), {})
           /\ Keeps({}, {r.sym} \cap Exportable, {})
  <2>1. ASSUME NEW i \in ExportWork(r.sym) PROVE ItemWanted(i)'
    <3>1. r.sym \in Exportable /\ i = LoadSec(SectionOf[r.sym]) /\ r.sym \in Symbol
      BY <2>1, RefType DEF ExportWork, LoadSymbolWork
    <3>2. SymKept(r.sym)'
      BY <1>5, <3>1 DEF Keeps
    <3> QED
      BY <3>1, <3>2, ItemFields DEF ItemWanted, SecWanted
  <2> QED
    BY <1>1, <1>5, <2>1
<1> QED
  BY <1>2, <1>3, <1>4, <1>5 DEF RefEffect

LEMMA ItemHandled ==
    ASSUME TypeOK, NEW g \in Group, NEW item \in Item, ItemEffect(g, item)
    PROVE  /\ \E X, S, C, new : /\ Keeps(X, S, C) /\ Moves(new, {item})
                                /\ \A i \in new : ItemWanted(i)'
           /\ item.op = "sym" => SymKept(item.sym)'
<1> DEFINE Result == \E X, S, C, new : /\ Keeps(X, S, C) /\ Moves(new, {item})
                                       /\ \A i \in new : ItemWanted(i)'
<1>1. ASSUME NEW s \in Symbol, SymKept(s)', NEW i \in LoadSymbolWork(s) PROVE ItemWanted(i)'
  <2>1. i = LoadSec(SectionOf[s])
    BY DEF LoadSymbolWork
  <2> QED
    BY <1>1, <2>1, ItemFields DEF ItemWanted, SecWanted
<1>2. CASE /\ item.op = "sym" /\ Moves(LoadSymbolWork(item.sym), {item})
           /\ Keeps({}, {item.sym}, {})
  <2>1. item.sym \in Symbol /\ SymKept(item.sym)'
    BY <1>2, ItemType DEF Keeps
  <2>2. Result
    BY <1>1, <1>2, <2>1
  <2> QED
    BY <2>1, <2>2
<1>3. CASE item.op = "copy" /\ Moves({}, {item}) /\ Keeps({}, {}, {item.sym})
  <2>1. Result
    BY <1>3
  <2> QED
    BY <1>3, <2>1
<1>4. CASE /\ item.op = "export" /\ Moves(ExportWork(item.sym), {item})
           /\ Keeps({}, {item.sym} \cap Exportable, {})
  <2>1. ASSUME NEW i \in ExportWork(item.sym) PROVE ItemWanted(i)'
    <3>1. item.sym \in Exportable /\ i \in LoadSymbolWork(item.sym) /\ item.sym \in Symbol
      BY <1>4, ItemType DEF ExportWork
    <3>2. SymKept(item.sym)'
      BY <1>4, <3>1 DEF Keeps
    <3> QED
      BY <1>1, <3>1, <3>2
  <2>2. Result
    BY <1>4, <2>1
  <2> QED
    BY <1>4, <2>2
<1>5. CASE item.op = "sec" /\ Moves({}, {item}) /\ (KeepsNothing \/ Keeps({item.sec}, {}, {}))
  <2>1. Result
    BY <1>5 DEF KeepsNothing
  <2> QED
    BY <1>5, <2>1
<1> QED
  BY <1>2, <1>3, <1>4, <1>5 DEF ItemEffect

LEMMA JustInductive ==
    ASSUME TypeOK, DelayInv, TaskInv, JustInv, [Next]_vars
    PROVE  JustInv'
<1>1. SUFFICES ASSUME errors' = {}
               PROVE  (ItemsJust /\ TodoJust /\ DrainJust /\ OfferJust)'
  BY DEF JustInv
<1>2. ItemsJust /\ TodoJust /\ DrainJust /\ OfferJust
  BY <1>1, ErrorsStay DEF JustInv
<1> DEFINE Goal == (ItemsJust /\ TodoJust /\ DrainJust /\ OfferJust)'
\* Steps that keep and ask for nothing new.
<1>3. ASSUME Moves({}, {}), KeepsNothing PROVE ItemsJust'
  BY <1>2, <1>3, ItemsStayJust DEF KeepsNothing
<1>4. ASSUME draining' = draining, NEW X, NEW S, NEW C, Keeps(X, S, C) PROVE DrainJust'
  BY <1>2, <1>4 DEF DrainJust, Keeps
<1>5. CASE UNCHANGED vars \/ FinishTraversal
  <2>1. Moves({}, {}) /\ KeepsNothing /\ UNCHANGED <<todo, worker, loading, draining, startStop, reg>>
    BY <1>5, SameItems, SameKept DEF vars, FinishTraversal, taskVars, graphVars
  <2> QED
    BY <1>2, <1>3, <1>4, <2>1 DEF TodoJust, OfferJust, KeepsNothing
<1>6. ASSUME NEW g \in Group, ActivateGroup(g) PROVE Goal
  <2>1. ItemsJust'
    <3>1. ASSUME NEW i \in ActivationLoads(g) PROVE ItemWanted(i)'
      BY ItemFields DEF ActivationLoads, ItemWanted, SecWanted
    <3> QED
      BY <1>2, <1>6, <3>1, ActivateEffect, ItemsStayJust DEF KeepsNothing
  <2>2. TodoJust'
    BY <1>2, <1>6 DEF ActivateGroup, TodoJust, TypeOK
  <2>3. DrainJust'
    BY <1>4, <1>6, ActivateEffect DEF ActivateGroup, KeepsNothing
  <2>4. OfferJust'
    BY <1>2, <1>6 DEF ActivateGroup, graphVars, OfferJust, TypeOK
  <2> QED
    BY <2>1, <2>2, <2>3, <2>4
<1>7. ASSUME NEW g \in Group,
             \/ OfferStartStopSection(g) \/ FinishActivation(g) \/ CompleteActivation(g)
             \/ Park(g) \/ FinishStartStop(g)
      PROVE  Goal
  <2>1. Moves({}, {}) /\ KeepsNothing
    BY <1>7, QuietEffect
  <2>2. TodoJust'
    <3>1. todo' = todo /\ loading' = loading
      BY <1>7 DEF OfferStartStopSection, FinishActivation, CompleteActivation, Park,
         FinishStartStop, taskVars
    <3>2. ASSUME NEW h \in Group, todo[h] # {} PROVE worker'[h] = worker[h]
      <4>1. worker[h] # "delayed"
        BY <1>2, <3>2 DEF TodoJust
      <4> QED
        BY <1>7, <3>2, <4>1, GroupsAssumption DEF OfferStartStopSection, FinishActivation,
           CompleteActivation, Park, FinishStartStop, Idle, TypeOK
    <3> QED
      BY <1>2, <3>1, <3>2 DEF TodoJust
  <2>3. DrainJust'
    <3>1. draining' = draining \/ draining' = [draining EXCEPT ![g] = None]
      BY <1>7 DEF OfferStartStopSection, FinishActivation, CompleteActivation, Park,
         FinishStartStop, taskVars
    <3> QED
      BY <1>2, <2>1, <3>1 DEF DrainJust, KeepsNothing, Keeps, TypeOK
  <2>4. OfferJust'
    <3>1. \/ UNCHANGED <<startStop, reg>>
          \/ \E x \in reg[g] : /\ reg' = [reg EXCEPT ![g] = @ \ {x}]
                               /\ startStop' = startStop \cup {x}
      BY <1>7 DEF OfferStartStopSection, FinishActivation, CompleteActivation, Park,
         FinishStartStop, taskVars, graphVars
    <3> QED
      BY <1>2, <3>1 DEF OfferJust, TypeOK
  <2> QED
    BY <1>3, <2>1, <2>2, <2>3, <2>4
<1>8. ASSUME NEW g \in Group, SendWork(g) \/ TakeSlotWork(g) PROVE Goal
  <2>1. Moves({}, {}) /\ KeepsNothing
    BY <1>8, SendEffect, TakeSlotEffect
  <2>2. UNCHANGED <<todo, loading, draining, startStop, reg>>
    BY <1>8 DEF SendWork, TakeSlotWork, taskVars, graphVars
  <2>3. ASSUME NEW h \in Group, todo[h] # {} PROVE worker'[h] = worker[h]
    <3>1. worker[h] # "parked"
      BY <2>3 DEF TaskInv
    <3> QED
      BY <1>8, <3>1 DEF SendWork, SendLocally, SendToSlot, TakeSlotWork, TypeOK
  <2> QED
    BY <1>2, <1>3, <1>4, <2>1, <2>2, <2>3 DEF TodoJust, OfferJust, KeepsNothing
<1>9. ASSUME NEW g \in Group, FinishSection(g) PROVE Goal
  <2>1. /\ Moves({}, {}) /\ KeepsNothing
        /\ UNCHANGED <<todo, worker, draining, startStop, reg>> /\ todo[g] = {}
        /\ loading' = [loading EXCEPT ![g] = None]
    BY <1>9, FinishSectionEffect DEF FinishSection
  <2>2. TodoJust'
    BY <1>2, <2>1 DEF TodoJust, TypeOK
  <2> QED
    BY <1>2, <1>3, <1>4, <2>1, <2>2 DEF OfferJust, KeepsNothing
<1>10. ASSUME NEW g \in Group, PopStartStopSection(g) PROVE Goal
  <2>1. PICK x \in startStop :
            /\ OutputOf[x] = draining[g]
            /\ startStop' = startStop \ {x}
            /\ outbox' = [outbox EXCEPT ![g] = {LoadSec(x)}]
    BY <1>10 DEF PopStartStopSection
  <2>2. Moves({LoadSec(x)}, {}) /\ KeepsNothing
    BY <1>10, <2>1, PopEffect DEF PopStartStopSection
  <2>3. UNCHANGED <<todo, worker, loading, draining, reg>>
    BY <1>10 DEF PopStartStopSection
  <2>4. ItemWanted(LoadSec(x))
    <3>1. x \in Eligible /\ draining[g] # None
      BY <1>2, <2>1, GraphAssumption DEF OfferJust
    <3>2. PICK s \in Symbol : SymKept(s) /\ BoundOf[s] = draining[g]
      BY <1>2, <3>1 DEF DrainJust
    <3> QED
      BY <2>1, <3>1, <3>2, ItemFields DEF ItemWanted, SecWanted, Bounds
  <2>5. ItemsJust'
    BY <1>2, <2>2, <2>4, WantedGrows, ItemsStayJust DEF KeepsNothing
  <2> QED
    BY <1>2, <1>4, <2>1, <2>2, <2>3, <2>5 DEF TodoJust, OfferJust, KeepsNothing
<1>11. ASSUME NEW g \in Group, NEW r \in todo[g], Processes(g, r) PROVE Goal
  <2>1. r \in Ref /\ Live(r)
    BY <1>2, TodoLive
  <2>2. RefEffect(r)
    BY <1>11, ProcessEffect
  <2>3. PICK X, S, C, new : /\ Keeps(X, S, C) /\ Moves(new, {})
                            /\ \A i \in new : ItemWanted(i)'
    BY <2>1, <2>2, RefWanted
  <2>4. ItemsJust'
    BY <1>2, <2>3, ItemsStayJust
  <2>5. /\ worker' = worker /\ UNCHANGED <<loading, draining, reg, startStop>>
        /\ todo' = [todo EXCEPT ![g] = @ \ {r}]
    BY <1>11 DEF Processes, ProcessRelocation, MarkSymbol, RequestExport, ExportOwn
  <2>6. TodoJust' /\ OfferJust'
    BY <1>2, <2>5 DEF TodoJust, OfferJust, TypeOK
  <2>7. DrainJust'
    BY <1>4, <2>3, <2>5
  <2> QED
    BY <2>4, <2>6, <2>7
<1>12. ASSUME NEW g \in Group, NEW item \in localWork[g], Handles(g, item) PROVE Goal
  <2>1. item \in Item
    BY DEF TypeOK
  <2>2. ItemEffect(g, item)
    BY <1>1, <1>12, HandleEffect
  <2>3. PICK X, S, C, new : /\ Keeps(X, S, C) /\ Moves(new, {item})
                            /\ \A i \in new : ItemWanted(i)'
    BY <2>1, <2>2, ItemHandled
  <2>4. ItemsJust'
    BY <1>2, <2>3, ItemsStayJust
  <2>5. worker' = worker /\ UNCHANGED <<reg, startStop>> /\ todo[g] = {} /\ worker[g] = "working"
    <3>1. CASE HandleSectionRequest(g, item)
      <4>1. ~DropWorker(g)
        BY <1>1 DEF DropWorker
      <4> QED
        BY <1>12, <3>1, <4>1, SectionRequestCases DEF Handles, Idle
    <3> QED
      BY <1>12, <3>1 DEF Handles, Idle, HandleSymbolRequest, HandleCopyRequest,
         HandleExportRequest
  <2>6. OfferJust'
    BY <1>2, <2>5 DEF OfferJust
  <2>7. TodoJust'
    <3>1. CASE todo' = todo /\ loading' = loading
      BY <1>2, <2>5, <3>1 DEF TodoJust
    <3>2. CASE /\ item.op = "sec"
               /\ loading' = [loading EXCEPT ![g] = item.sec]
               /\ todo' = [todo EXCEPT ![g] = Relocs[item.sec]]
      <4>1. item.sec # None
        BY <2>1, <3>2, ItemType, GraphAssumption
      <4> QED
        BY <1>2, <2>5, <3>2, <4>1 DEF TodoJust, TypeOK
    <3> QED
      BY <2>2, <3>1, <3>2 DEF ItemEffect
  <2>8. DrainJust'
    <3>1. CASE draining' = draining
      BY <1>4, <2>3, <3>1
    <3>2. CASE item.op = "sym" /\ draining' = [draining EXCEPT ![g] = BoundOf[item.sym]]
      <4>1. SymKept(item.sym)' /\ item.sym \in Symbol
        BY <2>1, <2>2, <3>2, ItemHandled, ItemType
      <4> QED
        BY <1>2, <2>3, <3>2, <4>1 DEF DrainJust, Keeps, TypeOK
    <3> QED
      BY <2>2, <3>1, <3>2 DEF ItemEffect
  <2> QED
    BY <2>4, <2>6, <2>7, <2>8
<1> QED
  BY <1>1, <1>5, <1>6, <1>7, <1>8, <1>9, <1>10, <1>11, <1>12, StepCases

-----------------------------------------------------------------------------
(* Nothing that is needed is forgotten *)

\* Kept, or an item that will keep it is on its way.
SecAsked(x) == SecKept(x) \/ HasItem(LoadSec(x))
SymAsked(s) ==
    SymKept(s) \/ HasItem(LoadSym(s)) \/ (s \in Exportable /\ HasItem(ExportSym(s)))
CopyAsked(s) == s \in copied \/ HasItem(CopySym(s))

RefDone(r) ==
    /\ ~IsError(r)
    /\ Counts(r) => SymAsked(r.sym)
    /\ r.kind = "Copy" => CopyAsked(r.sym)

\* What an item is there for.
ItemKept(i) ==
    /\ i.op = "sec" => SecKept(i.sec)
    /\ i.op = "sym" \/ (i.op = "export" /\ i.sym \in Exportable) => SymKept(i.sym)
    /\ i.op = "copy" => i.sym \in copied

\* What is asked for stays so: an item that is taken out was served.
AskedStays ==
    /\ \A x \in Section : SecAsked(x) => SecAsked(x)'
    /\ \A s \in Symbol : SymAsked(s) => SymAsked(s)'
    /\ \A s \in Symbol : CopyAsked(s) => CopyAsked(s)'
    /\ \A r \in Ref : RefDone(r) => RefDone(r)'

LEMMA AskedGrows ==
    ASSUME NEW X, NEW S, NEW C, Keeps(X, S, C), NEW new, NEW done, Moves(new, done),
           \A i \in done : ItemKept(i)'
    PROVE  AskedStays
<1>1. ASSUME NEW i \in Item, HasItem(i) PROVE HasItem(i)' \/ ItemKept(i)'
  BY <1>1 DEF Moves
<1>2. ASSUME NEW x \in Section, SecAsked(x) PROVE SecAsked(x)'
  BY <1>1, <1>2, ItemType, ItemFields DEF SecAsked, ItemKept, Keeps
<1>3. ASSUME NEW s \in Symbol, SymAsked(s) PROVE SymAsked(s)'
  BY <1>1, <1>3, ItemType, ItemFields DEF SymAsked, ItemKept, Keeps
<1>4. ASSUME NEW s \in Symbol, CopyAsked(s) PROVE CopyAsked(s)'
  BY <1>1, <1>4, ItemType, ItemFields DEF CopyAsked, ItemKept, Keeps
<1>5. ASSUME NEW r \in Ref, RefDone(r) PROVE RefDone(r)'
  BY <1>3, <1>4, <1>5, RefType DEF RefDone
<1> QED
  BY <1>2, <1>3, <1>4, <1>5 DEF AskedStays

LEMMA ItemServed ==
    ASSUME TypeOK, NEW g \in Group, NEW item \in Item, ItemEffect(g, item)
    PROVE  AskedStays
<1>1. item.op = "sec" => item.sec \in Section
  BY ItemType
<1>2. item.op # "sec" => item.sym \in Symbol
  BY ItemType
<1>3. CASE /\ item.op = "sym" /\ Moves(LoadSymbolWork(item.sym), {item})
           /\ Keeps({}, {item.sym}, {})
  <2>1. ItemKept(item)'
    BY <1>2, <1>3 DEF ItemKept, Keeps
  <2> QED
    BY <1>3, <2>1, AskedGrows
<1>4. CASE item.op = "copy" /\ Moves({}, {item}) /\ Keeps({}, {}, {item.sym})
  <2>1. ItemKept(item)'
    BY <1>2, <1>4 DEF ItemKept, Keeps
  <2> QED
    BY <1>4, <2>1, AskedGrows
<1>5. CASE /\ item.op = "export" /\ Moves(ExportWork(item.sym), {item})
           /\ Keeps({}, {item.sym} \cap Exportable, {})
  <2>1. ItemKept(item)'
    BY <1>2, <1>5 DEF ItemKept, Keeps
  <2> QED
    BY <1>5, <2>1, AskedGrows
<1>6. CASE item.op = "sec" /\ Moves({}, {item}) /\ Keeps({item.sec}, {}, {})
  <2>1. ItemKept(item)'
    BY <1>1, <1>6 DEF ItemKept, Keeps
  <2> QED
    BY <1>6, <2>1, AskedGrows
<1>7. CASE item.op = "sec" /\ slot[item.sec] = "Loaded" /\ Moves({}, {item}) /\ KeepsNothing
  <2>1. ItemKept(item)'
    BY <1>1, <1>7 DEF ItemKept, KeepsNothing, Keeps, SecKept
  <2> QED
    BY <1>7, <2>1, AskedGrows DEF KeepsNothing
<1> QED
  BY <1>3, <1>4, <1>5, <1>6, <1>7 DEF ItemEffect

LEMMA RefServed ==
    ASSUME TypeOK, NEW r \in Ref, RefEffect(r)
    PROVE  AskedStays
<1>1. ASSUME NEW X, NEW S, NEW C, Keeps(X, S, C), NEW new, Moves(new, {}) PROVE AskedStays
  BY <1>1, AskedGrows
<1> QED
  BY <1>1 DEF RefEffect, KeepsNothing

LEMMA StepAsked ==
    ASSUME TypeOK, TaskInv, [Next]_vars, errors' = {}
    PROVE  AskedStays
<1>1. ASSUME NEW new, Moves(new, {}), KeepsNothing PROVE AskedStays
  BY <1>1, AskedGrows DEF KeepsNothing
<1>2. CASE UNCHANGED vars \/ FinishTraversal
  BY <1>1, <1>2, SameItems, SameKept DEF vars, FinishTraversal, taskVars, graphVars
<1>3. ASSUME NEW g \in Group,
             \/ ActivateGroup(g) \/ OfferStartStopSection(g) \/ FinishActivation(g)
             \/ CompleteActivation(g) \/ SendWork(g) \/ FinishSection(g)
             \/ FinishStartStop(g) \/ Park(g) \/ TakeSlotWork(g)
      PROVE  AskedStays
  BY <1>1, <1>3, ActivateEffect, QuietEffect, SendEffect, FinishSectionEffect, TakeSlotEffect
<1>4. ASSUME NEW g \in Group, PopStartStopSection(g) PROVE AskedStays
  BY <1>1, <1>4, PopEffect DEF PopStartStopSection
<1>5. ASSUME NEW g \in Group, NEW r \in todo[g], Processes(g, r) PROVE AskedStays
  BY <1>5, ProcessEffect, RefServed DEF TypeOK
<1>6. ASSUME NEW g \in Group, NEW item \in localWork[g], Handles(g, item) PROVE AskedStays
  BY <1>6, HandleEffect, ItemServed DEF TypeOK
<1> QED
  BY <1>2, <1>3, <1>4, <1>5, <1>6, StepCases

\* A group that is activated has asked for its sections, has offered or still holds those that
\* a __start_/__stop_ symbol may need, and has dealt with its references or still holds them.
RootsDone ==
    \A g \in Group : act[g] # "queued" =>
        /\ \A x \in MustLoad : GroupOfSec[x] = g => SecAsked(x)
        /\ \A x \in Eligible : GroupOfSec[x] = g =>
              x \in reg[g] \/ x \in startStop \/ SecAsked(x)
        /\ \A r \in Roots[g] : RefDone(r) \/ (worker[g] = "activating" /\ r \in todo[g])

\* So has a section that is loaded, or being loaded.
LoadedDone ==
    /\ \A x \in Section : slot[x] = "Loaded" => \A r \in Relocs[x] : RefDone(r)
    /\ \A g \in Group : loading[g] # None =>
          \A r \in Relocs[loading[g]] : r \in todo[g] \/ RefDone(r)

\* A kept symbol has asked for its section and, unless that is going on, for the sections it
\* bounds; or the request for it has yet to be served.
BoundAsked(s) ==
    \/ draining[Synthetic] = BoundOf[s]
    \/ \A x \in Section : Bounds(s, x) => SecAsked(x)
SymbolDone(s) ==
    \/ HasItem(LoadSym(s))
    \/ /\ SectionOf[s] # None => SecAsked(SectionOf[s])
       /\ BoundOf[s] # None => BoundAsked(s)
SymbolsDone == \A s \in Symbol : SymKept(s) => SymbolDone(s)

CopiesDone == \A s \in Symbol : "COPY_RELOCATION" \in flags[s] => CopyAsked(s)

\* Items are where they are served.
Located == \A g \in Group : \A item \in localWork[g] \cup slotWork[g] : GroupOf(item) = g

DoneInv ==
    errors = {} => RootsDone /\ LoadedDone /\ SymbolsDone /\ CopiesDone /\ Located

\* A reference that was processed has asked for what it needs.
LEMMA RefProcessed ==
    ASSUME TypeOK, CopiesDone, AskedStays, NEW r \in Ref, RefEffect(r), ~IsError(r)
    PROVE  RefDone(r)'
<1>1. r.sym \in Symbol
  BY RefType
<1>2. CASE /\ r.kind \in {"Direct", "NoFlags", "Copy", "Undef"}
           /\ Moves(Requests(r), {})
           /\ Keeps({}, IF r.kind = "NoFlags" THEN {} ELSE {r.sym}, {})
  <2>1. SymAsked(r.sym)'
    <3>1. CASE r.kind # "NoFlags"
      BY <1>1, <1>2, <3>1 DEF Keeps, SymAsked
    <3>2. CASE NeedsRequest(r.sym)
      BY <1>2, <3>2 DEF Moves, Requests, SymAsked
    <3>3. CASE ~NeedsRequest(r.sym)
      BY <1>1, <1>2, <3>3 DEF NeedsRequest, SymKept, Keeps, SymAsked
    <3> QED
      BY <3>1, <3>2, <3>3
  <2>2. ASSUME r.kind = "Copy" PROVE CopyAsked(r.sym)'
    <3>1. CASE NeedsCopy(r)
      BY <1>2, <3>1 DEF Moves, Requests, CopyAsked
    <3>2. CASE ~NeedsCopy(r)
      BY <1>1, <2>2, <3>2 DEF NeedsCopy, CopiesDone, AskedStays
    <3> QED
      BY <3>1, <3>2
  <2> QED
    BY <2>1, <2>2 DEF RefDone
<1>3. CASE r.kind = "Mark" /\ Keeps({}, {r.sym}, {})
  BY <1>1, <1>3 DEF Keeps, RefDone, SymAsked, IsError
<1>4. CASE r.kind = "Export" /\ Moves({ExportSym(r.sym)}, {})
  BY <1>1, <1>4 DEF Moves, RefDone, SymAsked, Counts, IsError
<1>5. CASE r.kind = "Own" /\ Keeps({}, {r.sym} \cap Exportable, {})
  BY <1>1, <1>5 DEF Keeps, RefDone, SymAsked, Counts, IsError
<1> QED
  BY <1>2, <1>3, <1>4, <1>5 DEF RefEffect

LEMMA CopiesInductive ==
    ASSUME TypeOK, TaskInv, CopiesDone, AskedStays, [Next]_vars, errors' = {}
    PROVE  CopiesDone'
<1>1. CASE flags' = flags
  BY <1>1 DEF CopiesDone, AskedStays
<1>2. ASSUME \A s \in Symbol : flags'[s] \subseteq flags[s] \cup {"EXPORT_DYNAMIC"}
      PROVE  CopiesDone'
  BY <1>2 DEF CopiesDone, AskedStays
<1>3. CASE UNCHANGED vars \/ FinishTraversal
  BY <1>1, <1>3 DEF vars, FinishTraversal, graphVars
<1>4. ASSUME NEW g \in Group,
             \/ ActivateGroup(g) \/ OfferStartStopSection(g) \/ FinishActivation(g)
             \/ CompleteActivation(g) \/ SendWork(g) \/ FinishSection(g)
             \/ PopStartStopSection(g) \/ FinishStartStop(g) \/ Park(g) \/ TakeSlotWork(g)
      PROVE  flags' = flags
  BY <1>4 DEF ActivateGroup, OfferStartStopSection, FinishActivation, CompleteActivation,
     SendWork, FinishSection, PopStartStopSection, FinishStartStop, Park, TakeSlotWork, graphVars
<1>5. ASSUME NEW g \in Group, NEW r \in todo[g], Processes(g, r) PROVE CopiesDone'
  <2>1. RefEffect(r) /\ r.sym \in Symbol
    BY <1>5, ProcessEffect, RefType DEF TypeOK
  <2>2. CASE /\ r.kind \in {"Direct", "NoFlags", "Copy", "Undef"}
             /\ Moves(Requests(r), {})
             /\ flags' = [flags EXCEPT ![r.sym] = @ \cup FlagsToAdd(r.kind)]
    <3>1. ASSUME NEW s \in Symbol, "COPY_RELOCATION" \in flags'[s] PROVE CopyAsked(s)'
      <4>1. CASE "COPY_RELOCATION" \in flags[s]
        BY <4>1 DEF CopiesDone, AskedStays
      <4>2. CASE "COPY_RELOCATION" \notin flags[s]
        <5>1. s = r.sym /\ NeedsCopy(r)
          BY <2>1, <2>2, <3>1, <4>2 DEF FlagsToAdd, NeedsCopy, TypeOK
        <5> QED
          BY <2>2, <5>1 DEF Requests, Moves, CopyAsked
      <4> QED
        BY <4>1, <4>2
    <3> QED
      BY <3>1 DEF CopiesDone
  <2>3. CASE flags' = [flags EXCEPT ![r.sym] = @ \cup {"DIRECT"}]
    BY <2>1, <2>3 DEF CopiesDone, AskedStays, TypeOK
  <2> QED
    BY <1>1, <1>2, <2>1, <2>2, <2>3 DEF RefEffect
<1>6. ASSUME NEW g \in Group, NEW item \in localWork[g], Handles(g, item) PROVE CopiesDone'
  BY <1>1, <1>2, <1>6, HandleEffect DEF ItemEffect
<1> QED
  BY <1>1, <1>3, <1>4, <1>5, <1>6, StepCases

LEMMA LoadedInductive ==
    ASSUME TypeOK, TaskInv, LoadedDone, CopiesDone, AskedStays, [Next]_vars, errors' = {}
    PROVE  LoadedDone'
<1>1. \A x \in Section : \A r \in Relocs[x] : RefDone(r) => RefDone(r)'
  BY RefType DEF AskedStays
<1>2. CASE UNCHANGED <<slot, loading, todo>>
  BY <1>1, <1>2 DEF LoadedDone, TypeOK
<1>3. CASE UNCHANGED vars \/ FinishTraversal
  BY <1>2, <1>3 DEF vars, FinishTraversal, taskVars, graphVars
<1>4. ASSUME NEW g \in Group,
             \/ OfferStartStopSection(g) \/ FinishActivation(g) \/ CompleteActivation(g)
             \/ SendWork(g) \/ PopStartStopSection(g) \/ FinishStartStop(g) \/ Park(g)
             \/ TakeSlotWork(g)
      PROVE  LoadedDone'
  BY <1>2, <1>4 DEF OfferStartStopSection, FinishActivation, CompleteActivation, SendWork,
     PopStartStopSection, FinishStartStop, Park, TakeSlotWork, taskVars, graphVars
<1>5. ASSUME NEW g \in Group, ActivateGroup(g) PROVE LoadedDone'
  <2>1. /\ loading[g] = None /\ UNCHANGED <<slot, loading>>
        /\ todo' = [todo EXCEPT ![g] = Roots[g]]
    BY <1>5 DEF ActivateGroup, graphVars, TaskInv
  <2> QED
    BY <1>1, <2>1 DEF LoadedDone, TypeOK
<1>6. ASSUME NEW g \in Group, FinishSection(g) PROVE LoadedDone'
  <2>1. /\ loading[g] \in Section /\ loading[g] # None /\ todo[g] = {}
        /\ slot' = [slot EXCEPT ![loading[g]] = "Loaded"]
        /\ loading' = [loading EXCEPT ![g] = None] /\ todo' = todo
    BY <1>6 DEF FinishSection, TypeOK
  <2>2. \A r \in Relocs[loading[g]] : RefDone(r)'
    BY <1>1, <2>1 DEF LoadedDone
  <2>3. \A x \in Section : slot'[x] = "Loaded" => slot[x] = "Loaded" \/ x = loading[g]
    BY <2>1 DEF TypeOK
  <2>4. \A h \in Group : loading'[h] # None => loading'[h] = loading[h] /\ h # g
    BY <2>1 DEF TypeOK
  <2> QED
    BY <1>1, <2>1, <2>2, <2>3, <2>4 DEF LoadedDone, TypeOK
<1>7. ASSUME NEW g \in Group, NEW r \in todo[g], Processes(g, r), ~IsError(r) PROVE LoadedDone'
  <2>1. RefDone(r)'
    BY <1>7, ProcessEffect, RefProcessed DEF TypeOK
  <2>2. UNCHANGED <<slot, loading>> /\ todo' = [todo EXCEPT ![g] = @ \ {r}]
    BY <1>7 DEF Processes
  <2>3. \A h \in Group : \A q \in todo[h] : q \in todo'[h] \/ q = r
    BY <2>2 DEF TypeOK
  <2> QED
    BY <1>1, <2>1, <2>2, <2>3 DEF LoadedDone, TypeOK
<1>8. ASSUME NEW g \in Group, NEW item \in localWork[g], Handles(g, item) PROVE LoadedDone'
  <2>1. slot' = slot /\ todo[g] = {}
    BY <1>8 DEF Handles, Idle
  <2>2. CASE UNCHANGED <<todo, loading>>
    BY <1>2, <2>1, <2>2
  <2>3. CASE /\ loading' = [loading EXCEPT ![g] = item.sec]
             /\ todo' = [todo EXCEPT ![g] = Relocs[item.sec]]
    <3>1. \A h \in Group : h # g => loading'[h] = loading[h] /\ todo'[h] = todo[h]
      BY <2>3 DEF TypeOK
    <3>2. loading'[g] = item.sec /\ todo'[g] = Relocs[item.sec]
      BY <2>3 DEF TypeOK
    <3> QED
      BY <1>1, <2>1, <3>1, <3>2 DEF LoadedDone, TypeOK
  <2> QED
    BY <1>8, <2>2, <2>3, HandleEffect DEF ItemEffect
<1> QED
  BY <1>3, <1>4, <1>5, <1>6, <1>7, <1>8, StepCases

LEMMA RootsInductive ==
    ASSUME TypeOK, TaskInv, JustInv, RootsDone, CopiesDone, AskedStays, [Next]_vars, errors' = {}
    PROVE  RootsDone'
<1> DEFINE Old(g) == act[g] # "queued"
<1>1. /\ \A x \in MustLoad \cup Eligible : SecAsked(x) => SecAsked(x)'
      /\ \A g \in Group : \A r \in Roots[g] : RefDone(r) => RefDone(r)'
  BY RefType, GraphAssumption DEF AskedStays
<1>2. ASSUME NEW g \in Group, act[g] # "queued" \/ act'[g] = "queued",
             reg[g] \subseteq reg'[g], startStop \subseteq startStop',
             worker[g] = "activating" => worker'[g] = "activating",
             todo[g] \subseteq todo'[g]
      PROVE  act'[g] # "queued" =>
                /\ \A x \in MustLoad : GroupOfSec[x] = g => SecAsked(x)'
                /\ \A x \in Eligible : GroupOfSec[x] = g =>
                      x \in reg'[g] \/ x \in startStop' \/ SecAsked(x)'
                /\ \A r \in Roots[g] : RefDone(r)' \/ (worker'[g] = "activating" /\ r \in todo'[g])
  BY <1>1, <1>2 DEF RootsDone
<1>3. CASE UNCHANGED <<act, reg, startStop, worker, todo>>
  BY <1>2, <1>3 DEF RootsDone
<1>4. CASE UNCHANGED vars \/ FinishTraversal
  BY <1>3, <1>4 DEF vars, FinishTraversal, taskVars, graphVars
<1>5. ASSUME NEW g \in Group, ActivateGroup(g) PROVE RootsDone'
  <2>1. /\ \A h \in Group : h # g => /\ act'[h] = act[h] /\ reg'[h] = reg[h]
                                     /\ worker'[h] = worker[h] /\ todo'[h] = todo[h]
        /\ startStop' = startStop
    BY <1>5 DEF ActivateGroup, graphVars, TypeOK
  <2>2. /\ reg'[g] = {x \in Eligible : GroupOfSec[x] = g}
        /\ worker'[g] = "activating" /\ todo'[g] = Roots[g]
    BY <1>5 DEF ActivateGroup, TypeOK
  <2>3. \A x \in MustLoad : GroupOfSec[x] = g => SecAsked(x)'
    BY <1>5, ActivateEffect DEF Moves, ActivationLoads, SecAsked
  <2>4. \A h \in Group : h # g => (act[h] # "queued" \/ act'[h] = "queued")
    BY <2>1
  <2> QED
    BY <1>2, <2>1, <2>2, <2>3, <2>4 DEF RootsDone
<1>6. ASSUME NEW g \in Group, OfferStartStopSection(g) PROVE RootsDone'
  <2>1. PICK x \in reg[g] : /\ reg' = [reg EXCEPT ![g] = @ \ {x}]
                            /\ startStop' = startStop \cup {x}
    BY <1>6 DEF OfferStartStopSection
  <2>2. UNCHANGED <<act, worker, todo>>
    BY <1>6 DEF OfferStartStopSection
  <2>3. \A h \in Group : \A y \in reg[h] : y \in reg'[h] \/ y \in startStop'
    BY <2>1 DEF TypeOK
  <2>4. startStop \subseteq startStop'
    BY <2>1
  <2> QED
    BY <1>1, <2>2, <2>3, <2>4 DEF RootsDone
<1>7. ASSUME NEW g \in Group, FinishActivation(g) PROVE RootsDone'
  <2>1. /\ todo' = todo /\ reg' = reg /\ startStop' = startStop /\ todo[g] = {}
        /\ act[g] # "queued"
        /\ \A h \in Group : h # g => worker'[h] = worker[h] /\ act'[h] = act[h]
    BY <1>7 DEF FinishActivation, taskVars, graphVars, TypeOK
  <2> QED
    BY <1>1, <2>1 DEF RootsDone
<1>8. ASSUME NEW g \in Group, CompleteActivation(g) \/ SendWork(g) \/ Park(g) \/ TakeSlotWork(g)
      PROVE  RootsDone'
  <2>1. UNCHANGED <<reg, startStop, todo>>
    BY <1>8 DEF CompleteActivation, SendWork, Park, TakeSlotWork, taskVars, graphVars
  <2>2. \A h \in Group : worker[h] = "activating" => worker'[h] = "activating"
    BY <1>8, GroupsAssumption DEF CompleteActivation, SendWork, SendLocally, SendToSlot, Park,
       Idle, TakeSlotWork, TypeOK
  <2>3. \A h \in Group : act[h] # "queued" \/ act'[h] = "queued"
    BY <1>8 DEF CompleteActivation, SendWork, Park, TakeSlotWork, AfterPendingWork, TypeOK
  <2> QED
    BY <1>2, <2>1, <2>2, <2>3 DEF RootsDone
<1>9. ASSUME NEW g \in Group, FinishSection(g) \/ FinishStartStop(g) PROVE RootsDone'
  BY <1>3, <1>9 DEF FinishSection, FinishStartStop
<1>10. ASSUME NEW g \in Group, PopStartStopSection(g) PROVE RootsDone'
  <2>1. PICK x \in startStop : /\ startStop' = startStop \ {x}
                               /\ outbox' = [outbox EXCEPT ![g] = {LoadSec(x)}]
    BY <1>10 DEF PopStartStopSection
  <2>2. SecAsked(x)'
    BY <1>10, <2>1, PopEffect DEF PopStartStopSection, Moves, SecAsked
  <2>3. UNCHANGED <<act, worker, todo, reg>>
    BY <1>10 DEF PopStartStopSection
  <2> QED
    BY <1>1, <2>1, <2>2, <2>3 DEF RootsDone
<1>11. ASSUME NEW g \in Group, NEW r \in todo[g], Processes(g, r), ~IsError(r) PROVE RootsDone'
  <2>1. RefDone(r)'
    BY <1>11, ProcessEffect, RefProcessed DEF TypeOK
  <2>2. /\ UNCHANGED <<act, worker, reg, startStop>>
        /\ todo' = [todo EXCEPT ![g] = @ \ {r}]
    BY <1>11 DEF Processes, ProcessRelocation, MarkSymbol, RequestExport, ExportOwn
  <2>3. \A h \in Group : \A q \in todo[h] : q \in todo'[h] \/ q = r
    BY <2>2 DEF TypeOK
  <2> QED
    BY <1>1, <2>1, <2>2, <2>3 DEF RootsDone
<1>12. ASSUME NEW g \in Group, NEW item \in localWork[g], Handles(g, item) PROVE RootsDone'
  <2>1. UNCHANGED <<act, worker, reg, startStop>> /\ worker[g] = "working"
    <3>1. CASE HandleSectionRequest(g, item)
      <4>1. ~DropWorker(g)
        BY DEF DropWorker
      <4> QED
        BY <1>12, <3>1, <4>1, SectionRequestCases DEF Handles, Idle
    <3> QED
      BY <1>12, <3>1 DEF Handles, Idle, HandleSymbolRequest, HandleCopyRequest,
         HandleExportRequest
  <2>2. \A h \in Group : h # g => todo'[h] = todo[h]
    BY <1>12, HandleEffect DEF ItemEffect, TypeOK
  <2> QED
    BY <1>1, <2>1, <2>2 DEF RootsDone
<1> QED
  BY <1>4, <1>5, <1>6, <1>7, <1>8, <1>9, <1>10, <1>11, <1>12, StepCases

\* What is added to a local queue belongs there.
LEMMA LocatedInductive ==
    ASSUME TypeOK, JustInv, errors = {}, Located, [Next]_vars, errors' = {}
    PROVE  Located'
<1>1. CASE UNCHANGED <<localWork, slotWork>>
  BY <1>1 DEF Located
<1>2. ASSUME NEW s \in Symbol, NEW i \in LoadSymbolWork(s) PROVE GroupOf(i) = GroupOfSym[s]
  BY <1>2, PlacementAssumption, ItemFields DEF LoadSymbolWork, GroupOf
<1>3. ASSUME NEW g \in Group, slotWork' = slotWork,
             \A h \in Group : h # g => localWork'[h] = localWork[h],
             \A i \in localWork'[g] : i \in localWork[g] \/ GroupOf(i) = g
      PROVE  Located'
  BY <1>3 DEF Located
<1>4. CASE UNCHANGED vars \/ FinishTraversal
  BY <1>1, <1>4 DEF vars, FinishTraversal
<1>5. ASSUME NEW g \in Group, ActivateGroup(g) PROVE Located'
  <2>1. \A i \in ActivationLoads(g) : GroupOf(i) = g
    BY ItemFields DEF ActivationLoads, GroupOf
  <2> QED
    BY <1>3, <1>5, <2>1 DEF ActivateGroup, TypeOK
<1>6. ASSUME NEW g \in Group,
             \/ OfferStartStopSection(g) \/ FinishActivation(g) \/ CompleteActivation(g)
             \/ FinishSection(g) \/ PopStartStopSection(g) \/ FinishStartStop(g) \/ Park(g)
      PROVE  Located'
  BY <1>1, <1>6 DEF OfferStartStopSection, FinishActivation, CompleteActivation, FinishSection,
     PopStartStopSection, FinishStartStop, Park
<1>7. ASSUME NEW g \in Group, SendWork(g) PROVE Located'
  <2>1. PICK item \in outbox[g] :
            \/ SendLocally(g, item)
            \/ GroupOf(item) # g /\ SendToSlot(GroupOf(item), item)
    BY <1>7 DEF SendWork
  <2>2. CASE SendLocally(g, item)
    BY <1>3, <2>2 DEF SendLocally, TypeOK
  <2>3. CASE SendToSlot(GroupOf(item), item)
    <3>1. \A h \in Group : \A i \in slotWork'[h] : i \in slotWork[h] \/ GroupOf(i) = h
      BY <2>3 DEF SendToSlot, TypeOK
    <3> QED
      BY <2>3, <3>1 DEF SendToSlot, Located
  <2> QED
    BY <2>1, <2>2, <2>3
<1>8. ASSUME NEW g \in Group, TakeSlotWork(g) PROVE Located'
  <2>1. \A h \in Group : \A i \in localWork'[h] \cup slotWork'[h] :
            i \in localWork[h] \cup slotWork[h]
    BY <1>8 DEF TakeSlotWork, TypeOK
  <2> QED
    BY <2>1 DEF Located
<1>9. ASSUME NEW g \in Group, NEW r \in todo[g], Processes(g, r) PROVE Located'
  <2>1. CASE ExportOwn(g, r)
    <3>1. r \in Ref /\ r.sym \in Symbol
      BY RefType DEF TypeOK
    <3>2. r \in Roots[g]
      <4>1. \A x \in Section : r \notin Relocs[x]
        BY <2>1, GraphAssumption DEF ExportOwn
      <4> QED
        BY <4>1 DEF JustInv, TodoJust, TypeOK
    <3>3. GroupOfSym[r.sym] = g
      BY <2>1, <3>1, <3>2, PlacementAssumption DEF ExportOwn
    <3>4. \A i \in localWork'[g] : i \in localWork[g] \/ i \in LoadSymbolWork(r.sym)
      BY <2>1 DEF ExportOwn, ExportDynamic, TypeOK
    <3>5. \A h \in Group : h # g => localWork'[h] = localWork[h]
      BY <2>1 DEF ExportOwn, ExportDynamic, TypeOK
    <3> QED
      BY <1>2, <1>3, <1>9, <3>1, <3>3, <3>4, <3>5 DEF Processes
  <2> QED
    BY <1>1, <1>9, <2>1 DEF Processes, ProcessRelocation, MarkSymbol, RequestExport
<1>10. ASSUME NEW g \in Group, NEW item \in localWork[g], Handles(g, item) PROVE Located'
  <2>1. /\ item \in Item /\ GroupOf(item) = g /\ slotWork' = slotWork
        /\ item.op # "sec" => item.sym \in Symbol /\ GroupOfSym[item.sym] = g
    BY <1>10, ItemType DEF Handles, Located, GroupOf, TypeOK
  <2>2. \A h \in Group : h # g => localWork'[h] = localWork[h]
    BY <1>10 DEF Handles, HandleSymbolRequest, HandleCopyRequest, HandleExportRequest,
       HandleSectionRequest, ExportDynamic, TypeOK
  <2>3. \A i \in localWork'[g] :
            i \in localWork[g] \/ (item.op # "sec" /\ i \in LoadSymbolWork(item.sym))
    <3>1. CASE HandleSymbolRequest(g, item)
      BY <3>1 DEF HandleSymbolRequest, TypeOK
    <3>2. CASE HandleExportRequest(g, item)
      <4>1. item.op # "sec" /\ ExportDynamic(g, item.sym, localWork[g] \ {item})
        BY <3>2 DEF HandleExportRequest
      <4>2. \/ localWork' = [localWork EXCEPT ![g] = localWork[g] \ {item}]
            \/ \E new \in SUBSET LoadSymbolWork(item.sym) :
                  localWork' = [localWork EXCEPT ![g] = (localWork[g] \ {item}) \cup new]
        BY <4>1 DEF ExportDynamic
      <4> QED
        BY <4>1, <4>2 DEF TypeOK
    <3>3. CASE HandleCopyRequest(g, item) \/ HandleSectionRequest(g, item)
      BY <3>3 DEF HandleCopyRequest, HandleSectionRequest, TypeOK
    <3> QED
      BY <1>10, <3>1, <3>2, <3>3 DEF Handles
  <2> QED
    BY <1>2, <1>3, <2>1, <2>2, <2>3
<1> QED
  BY <1>4, <1>5, <1>6, <1>7, <1>8, <1>9, <1>10, StepCases

\* A symbol that is kept from now on asks for what it needs.
LEMMA RefAsksSymbol ==
    ASSUME TypeOK, NEW r \in Ref, RefEffect(r), NEW s \in Symbol, SymKept(s)', ~SymKept(s),
           r.kind = "Mark" => \E g \in Group : r \in Roots[g]
    PROVE  SymbolDone(s)'
<1>1. CASE /\ r.kind \in {"Direct", "NoFlags", "Copy", "Undef"}
           /\ Moves(Requests(r), {})
           /\ Keeps({}, IF r.kind = "NoFlags" THEN {} ELSE {r.sym}, {})
  <2>1. s = r.sym
    BY <1>1 DEF Keeps
  <2>2. NeedsRequest(s)
    BY DEF NeedsRequest, SymKept
  <2> QED
    BY <1>1, <2>1, <2>2 DEF Requests, Moves, SymbolDone
<1>2. CASE r.kind = "Mark" /\ Keeps({}, {r.sym}, {})
  <2>1. s = r.sym
    BY <1>2 DEF Keeps
  <2> QED
    BY <1>2, <2>1, PlacementAssumption DEF SymbolDone
<1>3. CASE r.kind = "Export" /\ KeepsNothing
  BY <1>3 DEF KeepsNothing, Keeps
<1>4. CASE /\ r.kind = "Own" /\ Moves(ExportWork(r.sym), {})
           /\ Keeps({}, {r.sym} \cap Exportable, {})
  <2>1. s = r.sym /\ s \in Exportable /\ NeedsRequest(s)
    BY <1>4 DEF Keeps, NeedsRequest, SymKept
  <2>2. SectionOf[s] # None => HasItem(LoadSec(SectionOf[s]))'
    BY <1>4, <2>1 DEF ExportWork, LoadSymbolWork, Moves
  <2> QED
    BY <2>1, <2>2, PlacementAssumption DEF SymbolDone, SecAsked
<1> QED
  BY <1>1, <1>2, <1>3, <1>4 DEF RefEffect

\* A request for a symbol is served by asking for what the symbol needs.
LEMMA ItemAsksSymbol ==
    ASSUME TypeOK, NEW g \in Group, NEW item \in Item, GroupOf(item) = g, ItemEffect(g, item),
           NEW s \in Symbol,
           \/ SymKept(s)' /\ ~SymKept(s)
           \/ item = LoadSym(s)
    PROVE  SymbolDone(s)'
<1>1. CASE /\ item.op = "sym" /\ Moves(LoadSymbolWork(item.sym), {item})
           /\ Keeps({}, {item.sym}, {})
           /\ draining' = [draining EXCEPT ![g] = BoundOf[item.sym]]
  <2>1. s = item.sym
    BY <1>1, ItemFields DEF Keeps
  <2>2. SectionOf[s] # None => HasItem(LoadSec(SectionOf[s]))'
    BY <1>1, <2>1 DEF LoadSymbolWork, Moves
  <2>3. BoundOf[s] # None => g = Synthetic
    BY <1>1, <2>1, PlacementAssumption DEF GroupOf
  <2>4. BoundOf[s] # None => draining'[Synthetic] = BoundOf[s]
    BY <1>1, <2>1, <2>3 DEF TypeOK
  <2> QED
    BY <2>2, <2>4 DEF SymbolDone, SecAsked, BoundAsked
<1>2. CASE /\ item.op = "export" /\ Moves(ExportWork(item.sym), {item})
           /\ Keeps({}, {item.sym} \cap Exportable, {})
  <2>1. s = item.sym /\ s \in Exportable /\ NeedsRequest(s)
    BY <1>2, ItemFields DEF Keeps, NeedsRequest, SymKept
  <2>2. SectionOf[s] # None => HasItem(LoadSec(SectionOf[s]))'
    BY <1>2, <2>1 DEF ExportWork, LoadSymbolWork, Moves
  <2> QED
    BY <2>1, <2>2, PlacementAssumption DEF SymbolDone, SecAsked
<1>3. CASE item.op = "copy" /\ Keeps({}, {}, {item.sym})
  BY <1>3, ItemFields DEF Keeps
<1>4. CASE item.op = "sec" /\ (KeepsNothing \/ Keeps({item.sec}, {}, {}))
  BY <1>4, ItemFields DEF KeepsNothing, Keeps
<1> QED
  BY <1>1, <1>2, <1>3, <1>4 DEF ItemEffect

\* When the queue of an output section is empty, all its eligible sections were asked for:
\* every group has offered its own before the synthetic symbols were worked on.
LEMMA DrainedAsked ==
    ASSUME TypeOK, DelayInv, RootsDone, AskedStays, FinishStartStop(Synthetic),
           NEW s \in Symbol, BoundOf[s] = draining[Synthetic], NEW x \in Section, Bounds(s, x)
    PROVE  SecAsked(x)'
<1>1. /\ x \in Eligible /\ x \notin startStop /\ worker[Synthetic] = "working"
  BY DEF FinishStartStop, Bounds
<1>2. PICK g \in Group : g = GroupOfSec[x]
  BY GroupsAssumption
<1>3. act[g] = "done" /\ reg[g] = {}
  <2>1. worker[g] # "activating" /\ act[g] = "done"
    BY <1>1 DEF DelayInv
  <2> QED
    BY <2>1 DEF DelayInv
<1>4. SecAsked(x)
  BY <1>1, <1>2, <1>3 DEF RootsDone
<1> QED
  BY <1>4 DEF AskedStays

LEMMA SymbolsInductive ==
    ASSUME TypeOK, DelayInv, TaskInv, JustInv, errors = {}, RootsDone, SymbolsDone, Located,
           AskedStays, [Next]_vars, errors' = {}
    PROVE  SymbolsDone'
<1>1. ASSUME NEW s \in Symbol, SymKept(s), draining' = draining,
             HasItem(LoadSym(s)) => HasItem(LoadSym(s))'
      PROVE  SymbolDone(s)'
  <2>1. SectionOf[s] # None => SectionOf[s] \in Section
    BY GraphAssumption
  <2>2. BoundAsked(s) => BoundAsked(s)'
    BY <1>1 DEF BoundAsked, AskedStays
  <2> QED
    BY <1>1, <2>1, <2>2 DEF SymbolsDone, SymbolDone, AskedStays
<1>2. \A s \in Symbol : LoadSym(s) \in Item
  BY ItemType
<1>3. ASSUME draining' = draining, NEW new, Moves(new, {}), KeepsNothing PROVE SymbolsDone'
  BY <1>1, <1>2, <1>3 DEF SymbolsDone, Moves, KeepsNothing, Keeps
<1>4. CASE UNCHANGED vars \/ FinishTraversal
  BY <1>3, <1>4, SameItems, SameKept DEF vars, FinishTraversal, taskVars, graphVars
<1>5. ASSUME NEW g \in Group,
             \/ ActivateGroup(g) \/ OfferStartStopSection(g) \/ FinishActivation(g)
             \/ CompleteActivation(g) \/ SendWork(g) \/ FinishSection(g) \/ Park(g)
             \/ TakeSlotWork(g)
      PROVE  SymbolsDone'
  <2>1. draining' = draining
    BY <1>5 DEF ActivateGroup, OfferStartStopSection, FinishActivation, CompleteActivation,
       SendWork, FinishSection, Park, TakeSlotWork, taskVars
  <2> QED
    BY <1>3, <1>5, <2>1, ActivateEffect, QuietEffect, SendEffect, FinishSectionEffect,
       TakeSlotEffect
<1>6. ASSUME NEW g \in Group, PopStartStopSection(g) PROVE SymbolsDone'
  BY <1>3, <1>6, PopEffect DEF PopStartStopSection
<1>7. ASSUME NEW g \in Group, FinishStartStop(g) PROVE SymbolsDone'
  <2>1. Moves({}, {}) /\ KeepsNothing
    BY <1>7, QuietEffect
  <2>2. /\ draining' = [draining EXCEPT ![g] = None] /\ draining[g] # None
    BY <1>7 DEF FinishStartStop
  <2>3. CASE g # Synthetic
    <3>1. draining'[Synthetic] = draining[Synthetic]
      BY <2>2, <2>3, GroupsAssumption DEF TypeOK
    <3>2. ASSUME NEW s \in Symbol PROVE BoundAsked(s) => BoundAsked(s)'
      BY <3>1 DEF BoundAsked, AskedStays
    <3>3. \A s \in Symbol : SectionOf[s] # None => SectionOf[s] \in Section
      BY GraphAssumption
    <3> QED
      BY <1>2, <2>1, <3>2, <3>3 DEF SymbolsDone, SymbolDone, AskedStays, Moves, KeepsNothing, Keeps
  <2>4. CASE g = Synthetic
    <3>1. ASSUME NEW s \in Symbol, BoundAsked(s) PROVE BoundAsked(s)'
      <4>1. CASE draining[Synthetic] = BoundOf[s]
        BY <1>7, <2>4, <4>1, DrainedAsked DEF BoundAsked
      <4>2. CASE \A x \in Section : Bounds(s, x) => SecAsked(x)
        BY <4>2 DEF BoundAsked, AskedStays
      <4> QED
        BY <3>1, <4>1, <4>2 DEF BoundAsked
    <3>2. \A s \in Symbol : SectionOf[s] # None => SectionOf[s] \in Section
      BY GraphAssumption
    <3> QED
      BY <1>2, <2>1, <3>1, <3>2 DEF SymbolsDone, SymbolDone, AskedStays, Moves, KeepsNothing, Keeps
  <2> QED
    BY <2>3, <2>4
<1>8. ASSUME NEW g \in Group, NEW r \in todo[g], Processes(g, r) PROVE SymbolsDone'
  <2>1. r \in Ref /\ RefEffect(r) /\ draining' = draining
    BY <1>8, ProcessEffect DEF TypeOK, Processes
  <2>2. ASSUME r.kind = "Mark" PROVE \E h \in Group : r \in Roots[h]
    <3>1. \A x \in Section : r \notin Relocs[x]
      BY <2>2, GraphAssumption
    <3> QED
      BY <3>1 DEF JustInv, TodoJust, TypeOK
  <2>3. \E new : Moves(new, {})
    BY <2>1 DEF RefEffect
  <2>4. \A s \in Symbol : HasItem(LoadSym(s)) => HasItem(LoadSym(s))'
    BY <1>2, <2>3 DEF Moves
  <2> QED
    BY <1>1, <2>1, <2>2, <2>4, RefAsksSymbol DEF SymbolsDone
<1>9. ASSUME NEW g \in Group, NEW item \in localWork[g], Handles(g, item) PROVE SymbolsDone'
  <2>1. item \in Item /\ GroupOf(item) = g /\ ItemEffect(g, item) /\ draining[g] = None
    BY <1>9, HandleEffect DEF Located, Handles, Idle, TypeOK
  <2>2. SUFFICES ASSUME NEW s \in Symbol, SymKept(s)' PROVE SymbolDone(s)'
    BY DEF SymbolsDone
  <2>3. CASE ~SymKept(s) \/ item = LoadSym(s)
    BY <2>1, <2>2, <2>3, ItemAsksSymbol
  <2>4. CASE SymKept(s) /\ item # LoadSym(s)
    <3>1. HasItem(LoadSym(s)) => HasItem(LoadSym(s))'
      BY <1>2, <2>1, <2>4 DEF ItemEffect, Moves
    <3>2. CASE draining' = draining
      BY <1>1, <2>4, <3>1, <3>2
    <3>3. CASE draining' = [draining EXCEPT ![g] = BoundOf[item.sym]]
      <4>1. draining[Synthetic] = None \/ draining'[Synthetic] = draining[Synthetic]
        BY <2>1, <3>3, GroupsAssumption DEF TypeOK
      <4>2. BoundOf[s] # None /\ BoundAsked(s) => BoundAsked(s)'
        BY <4>1 DEF BoundAsked, AskedStays
      <4>3. SectionOf[s] # None => SectionOf[s] \in Section
        BY GraphAssumption
      <4> QED
        BY <2>4, <3>1, <4>2, <4>3 DEF SymbolsDone, SymbolDone, AskedStays
    <3> QED
      BY <2>1, <3>2, <3>3 DEF ItemEffect
  <2> QED
    BY <2>3, <2>4
<1> QED
  BY <1>4, <1>5, <1>6, <1>7, <1>8, <1>9, StepCases

LEMMA DoneInductive ==
    ASSUME TypeOK, DelayInv, TaskInv, JustInv, DoneInv, [Next]_vars
    PROVE  DoneInv'
<1>1. SUFFICES ASSUME errors' = {}
               PROVE  (RootsDone /\ LoadedDone /\ SymbolsDone /\ CopiesDone /\ Located)'
  BY DEF DoneInv
<1>2. errors = {} /\ RootsDone /\ LoadedDone /\ SymbolsDone /\ CopiesDone /\ Located
  BY <1>1, ErrorsStay DEF DoneInv
<1>3. AskedStays
  BY <1>1, StepAsked
<1> QED
  BY <1>1, <1>2, <1>3, RootsInductive, LoadedInductive, SymbolsInductive, CopiesInductive,
     LocatedInductive

-----------------------------------------------------------------------------
(* The refinement *)

\* Sections no output section was found for are never loaded.
SlotInv ==
    /\ \A x \in Section : slot[x] = "Discard" <=> x \in Discard
    /\ \A g \in Group : loading[g] # None => slot[loading[g]] # "Discard"

LEMMA SlotInductive ==
    ASSUME TypeOK, SlotInv, [Next]_vars
    PROVE  SlotInv'
<1>1. CASE UNCHANGED <<slot, loading>>
  BY <1>1 DEF SlotInv
<1>2. CASE slot' = slot /\ \E g \in Group : loading' = [loading EXCEPT ![g] = None]
  BY <1>2 DEF SlotInv, TypeOK
<1>3. CASE UNCHANGED vars \/ FinishTraversal
  BY <1>1, <1>3 DEF vars, FinishTraversal, taskVars, graphVars
<1>4. ASSUME NEW g \in Group,
             \/ ActivateGroup(g) \/ OfferStartStopSection(g) \/ FinishActivation(g)
             \/ CompleteActivation(g) \/ SendWork(g) \/ PopStartStopSection(g)
             \/ FinishStartStop(g) \/ Park(g) \/ TakeSlotWork(g)
      PROVE  UNCHANGED <<slot, loading>>
  BY <1>4 DEF ActivateGroup, OfferStartStopSection, FinishActivation, CompleteActivation,
     SendWork, PopStartStopSection, FinishStartStop, Park, TakeSlotWork, taskVars, graphVars
<1>5. ASSUME NEW g \in Group, ProcessReference(g) \/ FailActivation(g) \/ FailSection(g)
      PROVE  SlotInv'
  BY <1>1, <1>2, <1>5 DEF ProcessReference, FailActivation, FailSection
<1>6. ASSUME NEW g \in Group, FinishSection(g) PROVE SlotInv'
  <2>1. /\ loading[g] \in Section /\ loading[g] # None
        /\ slot' = [slot EXCEPT ![loading[g]] = "Loaded"]
        /\ loading' = [loading EXCEPT ![g] = None]
    BY <1>6 DEF FinishSection, TypeOK
  <2>2. loading[g] \notin Discard
    BY <2>1 DEF SlotInv
  <2> QED
    BY <2>1, <2>2, GraphAssumption DEF SlotInv, TypeOK
<1>7. ASSUME NEW g \in Group, NEW item \in localWork[g], Handles(g, item) PROVE SlotInv'
  <2>1. slot' = slot
    BY <1>7 DEF Handles
  <2>2. CASE HandleSectionRequest(g, item)
    BY <1>1, <2>1, <2>2, SectionRequestCases DEF SlotInv, TypeOK
  <2> QED
    BY <1>1, <1>7, <2>1, <2>2 DEF Handles, HandleSymbolRequest, HandleCopyRequest,
       HandleExportRequest
<1> QED
  BY <1>1, <1>3, <1>4, <1>5, <1>6, <1>7, HandlesOne DEF Next

\* The kept nodes, one kind at a time.
KeptAre ==
    TypeOK /\ errors = {} =>
        /\ \A x \in Section : SecNode(x) \in KeptNodes <=> SecKept(x)
        /\ \A s \in Symbol : SymNode(s) \in KeptNodes <=> SymKept(s)
        /\ \A s \in Symbol : CopyNode(s) \in KeptNodes <=> s \in copied
        /\ KeptNodes \subseteq Nodes

LEMMA KeptByKind == KeptAre
<1> SUFFICES ASSUME TypeOK, errors = {}
             PROVE  /\ \A x \in Section : SecNode(x) \in KeptNodes <=> SecKept(x)
                    /\ \A s \in Symbol : SymNode(s) \in KeptNodes <=> SymKept(s)
                    /\ \A s \in Symbol : CopyNode(s) \in KeptNodes <=> s \in copied
                    /\ KeptNodes \subseteq Nodes
  BY DEF KeptAre
<1>1. KeptNodes = {SecNode(x) : x \in Loaded \cup ({loading[g] : g \in Group} \ {None})}
                    \cup {SymNode(s) : s \in Used} \cup {CopyNode(s) : s \in copied}
  BY DEF KeptNodes
<1>2. \A x \in Section : SecNode(x) \in KeptNodes <=> SecKept(x)
  BY <1>1, GraphAssumption DEF SecNode, SymNode, CopyNode, SecKept, Loaded
<1>3. \A s \in Symbol : SymNode(s) \in KeptNodes <=> SymKept(s)
  BY <1>1 DEF SecNode, SymNode, CopyNode, SymKept, Used
<1>4. \A s \in Symbol : CopyNode(s) \in KeptNodes <=> s \in copied
  BY <1>1 DEF SecNode, SymNode, CopyNode
<1>5. KeptNodes \subseteq Nodes
  BY <1>1 DEF Nodes, Loaded, Used, TypeOK
<1> QED
  BY <1>2, <1>3, <1>4, <1>5

LEMMA KeptByKindNext == KeptAre'
BY KeptByKind, PTL

\* What the references of kept nodes and of roots lead to.
Front == RootNodes \cup UNION {NodeSuccessors[n] : n \in KeptNodes}

LEMMA FrontIsFrontier == Required!Frontier = Front
BY DEF Required!Frontier, Front

LEMMA SuccessorsByKind ==
    /\ \A x \in Section : NodeSuccessors[SecNode(x)] = NodesOf(Relocs[x])
    /\ \A s \in Symbol : NodeSuccessors[SymNode(s)] = SymbolNeeds(s)
    /\ \A s \in Symbol : NodeSuccessors[CopyNode(s)] = {}
<1>1. ASSUME NEW x \in Section PROVE NodeSuccessors[SecNode(x)] = NodesOf(Relocs[x])
  <2>1. SecNode(x) \in Nodes /\ SecNode(x)[1] = "section" /\ SecNode(x)[2] = x
    BY DEF Nodes, SecNode
  <2> QED
    BY <2>1 DEF NodeSuccessors
<1>2. ASSUME NEW s \in Symbol
      PROVE  NodeSuccessors[SymNode(s)] = SymbolNeeds(s) /\ NodeSuccessors[CopyNode(s)] = {}
  <2>1. /\ SymNode(s) \in Nodes /\ SymNode(s)[1] = "symbol" /\ SymNode(s)[2] = s
        /\ CopyNode(s) \in Nodes /\ CopyNode(s)[1] = "copy"
    BY DEF Nodes, SymNode, CopyNode
  <2> QED
    BY <2>1 DEF NodeSuccessors
<1> QED
  BY <1>1, <1>2

\* What is wanted is what may be kept next.
LEMMA WantedInFront ==
    ASSUME TypeOK, errors = {}
    PROVE  /\ \A x \in Section : SecWanted(x) => SecNode(x) \in Front
           /\ \A s \in Symbol : SymWanted(s) => SymNode(s) \in Front
           /\ \A s \in Symbol : CopyWanted(s) => CopyNode(s) \in Front
<1>1. KeptAre
  BY KeptByKind
<1>2. ASSUME NEW x \in Section, SecWanted(x) PROVE SecNode(x) \in Front
  <2>1. CASE x \in MustLoad
    <3>1. SecNode(x) \in RootNodes
      BY <2>1, Zenon DEF RootNodes
    <3> QED
      BY <3>1, Zenon DEF Front
  <2>2. ASSUME NEW s \in Symbol, SymKept(s), x = SectionOf[s] \/ Bounds(s, x)
        PROVE  SecNode(x) \in Front
    <3>1. SymNode(s) \in KeptNodes
      BY <1>1, <2>2 DEF KeptAre
    <3>2. SecNode(x) \in NodeSuccessors[SymNode(s)]
      BY <2>2, SuccessorsByKind DEF SymbolNeeds, Bounds
    <3> QED
      BY <3>1, <3>2 DEF Front
  <2> QED
    BY <1>2, <2>1, <2>2 DEF SecWanted
<1>3. ASSUME NEW r \in Ref, Live(r), NEW n \in NodesOf({r}) PROVE n \in Front
  <2>1. CASE \E g \in Group : r \in Roots[g]
    <3>1. PICK g \in Group : r \in Roots[g]
      BY <2>1
    <3>2. n \in NodesOf(Roots[g])
      BY <1>3, <3>1 DEF NodesOf
    <3> QED
      BY <3>2 DEF Front, RootNodes
  <2>2. ASSUME NEW x \in Section, SecKept(x), r \in Relocs[x] PROVE n \in Front
    <3>1. SecNode(x) \in KeptNodes
      BY <1>1, <2>2 DEF KeptAre
    <3>2. n \in NodeSuccessors[SecNode(x)]
      BY <1>3, <2>2, SuccessorsByKind DEF NodesOf
    <3> QED
      BY <3>1, <3>2 DEF Front
  <2> QED
    BY <1>3, <2>1, <2>2 DEF Live
<1>4. ASSUME NEW s \in Symbol, SymWanted(s) PROVE SymNode(s) \in Front
  <2>1. PICK r \in Ref : Live(r) /\ Counts(r) /\ r.sym = s
    BY <1>4 DEF SymWanted
  <2>2. SymNode(s) \in NodesOf({r})
    BY <2>1 DEF NodesOf
  <2> QED
    BY <1>3, <2>1, <2>2
<1>5. ASSUME NEW s \in Symbol, CopyWanted(s) PROVE CopyNode(s) \in Front
  <2>1. PICK r \in Ref : Live(r) /\ r.kind = "Copy" /\ r.sym = s
    BY <1>5 DEF CopyWanted
  <2>2. CopyNode(s) \in NodesOf({r})
    BY <2>1 DEF NodesOf
  <2> QED
    BY <1>3, <2>1, <2>2
<1> QED
  BY <1>2, <1>4, <1>5

\* A step that reports no error keeps nothing, or one thing that is wanted.
KeepsOneWanted ==
    \/ KeepsNothing
    \/ \E x \in Section : SecWanted(x) /\ Keeps({x}, {}, {})
    \/ \E s \in Symbol : SymWanted(s) /\ Keeps({}, {s}, {})
    \/ \E s \in Symbol : CopyWanted(s) /\ Keeps({}, {}, {s})

LEMMA StepKeeps ==
    ASSUME TypeOK, TaskInv, JustInv, errors = {}, [Next]_vars, errors' = {}
    PROVE  KeepsOneWanted
<1>1. ItemsJust /\ TodoJust
  BY DEF JustInv
<1>2. CASE UNCHANGED vars \/ FinishTraversal
  BY <1>2, SameKept DEF vars, FinishTraversal, taskVars, graphVars, KeepsOneWanted
<1>3. ASSUME NEW g \in Group,
             \/ ActivateGroup(g) \/ OfferStartStopSection(g) \/ FinishActivation(g)
             \/ CompleteActivation(g) \/ SendWork(g) \/ FinishSection(g)
             \/ FinishStartStop(g) \/ Park(g) \/ TakeSlotWork(g)
      PROVE  KeepsNothing
  BY <1>3, ActivateEffect, QuietEffect, SendEffect, FinishSectionEffect, TakeSlotEffect
<1>4. ASSUME NEW g \in Group, PopStartStopSection(g) PROVE KeepsNothing
  BY <1>4, PopEffect DEF PopStartStopSection
<1>5. ASSUME NEW g \in Group, NEW r \in todo[g], Processes(g, r) PROVE KeepsOneWanted
  <2>1. r \in Ref /\ r.sym \in Symbol /\ Live(r) /\ RefEffect(r)
    BY <1>1, <1>5, TodoLive, ProcessEffect, RefType
  <2>2. Counts(r) => SymWanted(r.sym)
    BY <2>1, RefWanted
  <2>3. CASE /\ r.kind \in {"Direct", "NoFlags", "Copy", "Undef"}
             /\ Keeps({}, IF r.kind = "NoFlags" THEN {} ELSE {r.sym}, {})
    BY <2>1, <2>2, <2>3 DEF Counts, KeepsOneWanted, KeepsNothing
  <2>4. CASE r.kind = "Mark" /\ Keeps({}, {r.sym}, {})
    BY <2>1, <2>2, <2>4 DEF Counts, KeepsOneWanted
  <2>5. CASE r.kind = "Own" /\ Keeps({}, {r.sym} \cap Exportable, {})
    <3>1. CASE r.sym \in Exportable
      <4>1. {r.sym} \cap Exportable = {r.sym}
        BY <3>1
      <4> QED
        BY <2>1, <2>2, <2>5, <3>1, <4>1 DEF Counts, KeepsOneWanted
    <3>2. CASE r.sym \notin Exportable
      <4>1. {r.sym} \cap Exportable = {}
        BY <3>2
      <4> QED
        BY <2>5, <4>1 DEF KeepsOneWanted, KeepsNothing
    <3> QED
      BY <3>1, <3>2
  <2> QED
    BY <2>1, <2>3, <2>4, <2>5 DEF RefEffect, KeepsOneWanted
<1>6. ASSUME NEW g \in Group, NEW item \in localWork[g], Handles(g, item) PROVE KeepsOneWanted
  <2>1. /\ item \in Item /\ HasItem(item) /\ ItemEffect(g, item)
        /\ item.op = "sec" => item.sec \in Section
        /\ item.op # "sec" => item.sym \in Symbol
    BY <1>6, HandleEffect, ItemType DEF HasItem, TypeOK
  <2>2. ItemWanted(item)
    BY <1>1, <2>1 DEF ItemsJust
  <2>3. CASE item.op = "export" /\ Keeps({}, {item.sym} \cap Exportable, {})
    <3>1. CASE item.sym \in Exportable
      <4>1. {item.sym} \cap Exportable = {item.sym}
        BY <3>1
      <4> QED
        BY <2>1, <2>2, <2>3, <3>1, <4>1 DEF ItemWanted, KeepsOneWanted
    <3>2. CASE item.sym \notin Exportable
      <4>1. {item.sym} \cap Exportable = {}
        BY <3>2
      <4> QED
        BY <2>3, <4>1 DEF KeepsOneWanted, KeepsNothing
    <3> QED
      BY <3>1, <3>2
  <2> QED
    BY <2>1, <2>2, <2>3 DEF ItemEffect, ItemWanted, KeepsOneWanted
<1> QED
  BY <1>2, <1>3, <1>4, <1>5, <1>6, StepCases DEF KeepsOneWanted

LEMMA KeptNothing ==
    ASSUME TypeOK, TypeOK', errors = {}, errors' = {}, KeepsNothing
    PROVE  KeptNodes' = KeptNodes
<1>1. KeptAre /\ KeptAre'
  BY KeptByKind, KeptByKindNext
<1>2. ASSUME NEW n \in Nodes PROVE n \in KeptNodes' <=> n \in KeptNodes
  BY <1>1 DEF KeptAre, Nodes, KeepsNothing, Keeps
<1>3. KeptNodes \subseteq Nodes /\ KeptNodes' \subseteq Nodes
  BY <1>1 DEF KeptAre, Nodes
<1> QED
  BY <1>2, <1>3

LEMMA KeptOne ==
    ASSUME TypeOK, TypeOK', JustInv, errors = {}, errors' = {}, KeepsOneWanted
    PROVE  KeptNodes' = KeptNodes \/ \E n \in Front : KeptNodes' = KeptNodes \cup {n}
<1>1. KeptAre /\ KeptAre'
  BY KeptByKind, KeptByKindNext
<1>2. KeptNodes \subseteq Nodes /\ KeptNodes' \subseteq Nodes
  BY <1>1 DEF KeptAre, Nodes
<1>3. ASSUME NEW x \in Section, SecWanted(x), Keeps({x}, {}, {})
      PROVE  SecNode(x) \in Front /\ KeptNodes' = KeptNodes \cup {SecNode(x)}
  <2>1. ASSUME NEW n \in Nodes PROVE n \in KeptNodes' <=> n \in KeptNodes \/ n = SecNode(x)
    <3>1. CASE \E y \in Section : n = SecNode(y)
      BY <1>1, <1>3, <3>1 DEF KeptAre, Keeps, SecNode
    <3>2. CASE \E s \in Symbol : n = SymNode(s) \/ n = CopyNode(s)
      BY <1>1, <1>3, <3>2 DEF KeptAre, Keeps, SecNode, SymNode, CopyNode
    <3> QED
      BY <3>1, <3>2 DEF Nodes
  <2>2. SecNode(x) \in Nodes
    BY DEF Nodes
  <2> QED
    BY <1>2, <1>3, <2>1, <2>2, WantedInFront
<1>4. ASSUME NEW s \in Symbol, SymWanted(s), Keeps({}, {s}, {})
      PROVE  SymNode(s) \in Front /\ KeptNodes' = KeptNodes \cup {SymNode(s)}
  <2>1. ASSUME NEW n \in Nodes PROVE n \in KeptNodes' <=> n \in KeptNodes \/ n = SymNode(s)
    <3>1. CASE \E y \in Section : n = SecNode(y)
      BY <1>1, <1>4, <3>1 DEF KeptAre, Keeps, SecNode, SymNode
    <3>2. CASE \E t \in Symbol : n = SymNode(t) \/ n = CopyNode(t)
      BY <1>1, <1>4, <3>2 DEF KeptAre, Keeps, SymNode, CopyNode
    <3> QED
      BY <3>1, <3>2 DEF Nodes
  <2>2. SymNode(s) \in Nodes
    BY DEF Nodes
  <2> QED
    BY <1>2, <1>4, <2>1, <2>2, WantedInFront
<1>5. ASSUME NEW s \in Symbol, CopyWanted(s), Keeps({}, {}, {s})
      PROVE  CopyNode(s) \in Front /\ KeptNodes' = KeptNodes \cup {CopyNode(s)}
  <2>1. ASSUME NEW n \in Nodes PROVE n \in KeptNodes' <=> n \in KeptNodes \/ n = CopyNode(s)
    <3>1. CASE \E y \in Section : n = SecNode(y)
      BY <1>1, <1>5, <3>1 DEF KeptAre, Keeps, SecNode, CopyNode
    <3>2. CASE \E t \in Symbol : n = SymNode(t) \/ n = CopyNode(t)
      BY <1>1, <1>5, <3>2 DEF KeptAre, Keeps, SymNode, CopyNode
    <3> QED
      BY <3>1, <3>2 DEF Nodes
  <2>2. CopyNode(s) \in Nodes
    BY DEF Nodes
  <2> QED
    BY <1>2, <1>5, <2>1, <2>2, WantedInFront
<1> QED
  BY <1>3, <1>4, <1>5, KeptNothing DEF KeepsOneWanted

\* An error is reported only for a reference or a section that something needs.
NeedsFaulty ==
    \/ \E g \in Group : \E r \in Roots[g] : IsError(r)
    \/ (Front \cup KeptNodes) \cap FaultyNodes # {}

LEMMA FaultyReference ==
    ASSUME TypeOK, TodoJust, errors = {}, NEW g \in Group, NEW r \in todo[g], IsError(r)
    PROVE  NeedsFaulty
<1>1. CASE r \in Roots[g]
  BY <1>1 DEF NeedsFaulty
<1>2. CASE loading[g] # None /\ r \in Relocs[loading[g]]
  <2>1. loading[g] \in Section /\ SecKept(loading[g])
    BY <1>2 DEF TypeOK, SecKept
  <2>2. SecNode(loading[g]) \in KeptNodes
    BY <2>1, KeptByKind DEF KeptAre
  <2>3. SecNode(loading[g]) \in FaultyNodes
    BY <1>2, <2>1 DEF FaultyNodes
  <2> QED
    BY <2>2, <2>3 DEF NeedsFaulty
<1> QED
  BY <1>1, <1>2 DEF TodoJust

LEMMA StepFails ==
    ASSUME TypeOK, TaskInv, JustInv, SlotInv, errors = {}, [Next]_vars, errors' # {}
    PROVE  NeedsFaulty
<1>1. ItemsJust /\ TodoJust
  BY DEF JustInv
<1>2. ASSUME UNCHANGED errors PROVE FALSE
  BY <1>2
<1>3. CASE UNCHANGED vars \/ FinishTraversal
  BY <1>2, <1>3 DEF vars, FinishTraversal, graphVars
<1>4. ASSUME NEW g \in Group,
             \/ ActivateGroup(g) \/ OfferStartStopSection(g) \/ FinishActivation(g)
             \/ CompleteActivation(g) \/ SendWork(g) \/ FinishSection(g)
             \/ PopStartStopSection(g) \/ FinishStartStop(g) \/ Park(g) \/ TakeSlotWork(g)
      PROVE  FALSE
  BY <1>2, <1>4 DEF ActivateGroup, OfferStartStopSection, FinishActivation, CompleteActivation,
     SendWork, FinishSection, PopStartStopSection, FinishStartStop, Park, TakeSlotWork, graphVars
<1>5. ASSUME NEW g \in Group, FailActivation(g) \/ FailSection(g) PROVE NeedsFaulty
  <2>1. PICK r \in todo[g] : IsError(r)
    BY <1>5 DEF FailActivation, FailSection, IsError
  <2> QED
    BY <1>1, <2>1, FaultyReference
<1>6. ASSUME NEW g \in Group, NEW r \in todo[g], Processes(g, r) PROVE NeedsFaulty
  <2>1. IsError(r)
    BY <1>2, <1>6 DEF Processes, ProcessRelocation, MarkSymbol, RequestExport, ExportOwn, IsError
  <2> QED
    BY <1>1, <2>1, FaultyReference
<1>7. ASSUME NEW g \in Group, NEW item \in localWork[g], Handles(g, item) PROVE NeedsFaulty
  <2>1. HandleSectionRequest(g, item)
    BY <1>2, <1>7 DEF Handles, HandleSymbolRequest, HandleCopyRequest, HandleExportRequest
  <2>2. item \in Item /\ HasItem(item) /\ item.op = "sec" /\ item.sec \in Section
    BY <2>1, ItemType DEF HandleSectionRequest, HasItem, TypeOK
  <2>3. SecNode(item.sec) \in Front
    BY <1>1, <2>2, WantedInFront DEF ItemsJust, ItemWanted
  <2>4. slot[item.sec] = "Discard"
    BY <1>2, <2>1, SectionRequestCases
  <2>5. item.sec \in Discard
    BY <2>2, <2>4 DEF SlotInv
  <2>6. SecNode(item.sec) \in FaultyNodes
    BY <2>5, GraphAssumption DEF FaultyNodes
  <2> QED
    BY <2>3, <2>6 DEF NeedsFaulty
<1> QED
  BY <1>3, <1>4, <1>5, <1>6, <1>7, ProcessesOne, HandlesOne DEF Next

\* When no task is left and there was no error, nothing is on its way.
LEMMA QuietAtEnd ==
    ASSUME TypeOK, TaskInv, DelayInv, NoLostWork, Quiescent, errors = {}
    PROVE  /\ GroupsInSlots
           /\ \A g \in Group : act[g] = "done" /\ reg[g] = {} /\ loading[g] = None
                               /\ draining[g] = None /\ todo[g] = {}
           /\ \A i : ~HasItem(i)
<1>1. ASSUME NEW g \in Group PROVE worker[g] = "parked" /\ act[g] = "done"
  <2>1. act[g] = "done" /\ worker[g] \notin {"activating", "working"}
    BY DEF Quiescent
  <2>2. worker[g] # "none" /\ worker[g] # "dropped"
    BY <2>1 DEF TaskInv
  <2>3. worker[g] # "delayed"
    BY DEF TaskInv, Quiescent
  <2> QED
    BY <2>1, <2>2, <2>3 DEF TypeOK
<1>2. ASSUME NEW g \in Group
      PROVE  /\ localWork[g] = {} /\ todo[g] = {} /\ loading[g] = None /\ draining[g] = None
             /\ outbox[g] = {}
  BY <1>1 DEF TaskInv
<1>3. \A g \in Group : slotWork[g] = {}
  BY <1>1 DEF NoLostWork
<1>4. \A g \in Group : reg[g] = {}
  BY <1>1 DEF DelayInv
<1> QED
  BY <1>1, <1>2, <1>3, <1>4 DEF GroupsInSlots, HasItem

\* ... and everything that is needed is kept.
LEMMA AllKept ==
    ASSUME TypeOK, TaskInv, DelayInv, NoLostWork, DoneInv, SlotInv, Quiescent, errors = {}
    PROVE  Front \subseteq KeptNodes /\ ~NeedsFaulty
<1>1. /\ \A g \in Group : act[g] = "done" /\ reg[g] = {} /\ loading[g] = None
                          /\ draining[g] = None /\ todo[g] = {}
      /\ \A i : ~HasItem(i)
  BY QuietAtEnd
<1>2. RootsDone /\ LoadedDone /\ SymbolsDone /\ CopiesDone
  BY DEF DoneInv
<1>3. KeptAre
  BY KeptByKind
<1>4. /\ \A x \in Section : SecAsked(x) => SecNode(x) \in KeptNodes
      /\ \A s \in Symbol : SymAsked(s) => SymNode(s) \in KeptNodes
      /\ \A s \in Symbol : CopyAsked(s) => CopyNode(s) \in KeptNodes
  BY <1>1, <1>3 DEF KeptAre, SecAsked, SymAsked, CopyAsked
<1>5. ASSUME NEW refs \in SUBSET Ref, \A r \in refs : RefDone(r)
      PROVE  NodesOf(refs) \subseteq KeptNodes
  <2>1. ASSUME NEW r \in refs
        PROVE  /\ Counts(r) => SymNode(r.sym) \in KeptNodes
               /\ r.kind = "Copy" => CopyNode(r.sym) \in KeptNodes
    BY <1>4, <1>5, RefType DEF RefDone
  <2> QED
    BY <2>1 DEF NodesOf
<1>6. ASSUME NEW g \in Group PROVE \A r \in Roots[g] : RefDone(r)
  BY <1>1, <1>2 DEF RootsDone
<1>7. ASSUME NEW x \in Section, SecNode(x) \in KeptNodes
      PROVE  slot[x] = "Loaded" /\ \A r \in Relocs[x] : RefDone(r)
  <2>1. slot[x] = "Loaded"
    BY <1>1, <1>3, <1>7, GraphAssumption DEF KeptAre, SecKept
  <2> QED
    BY <1>2, <2>1 DEF LoadedDone
<1>8. RootNodes \subseteq KeptNodes
  <2>1. ASSUME NEW g \in Group PROVE NodesOf(Roots[g]) \subseteq KeptNodes
    BY <1>5, <1>6, RefType
  <2>2. ASSUME NEW x \in MustLoad PROVE SecNode(x) \in KeptNodes
    <3>1. x \in Section /\ GroupOfSec[x] \in Group
      BY GraphAssumption, GroupsAssumption
    <3>2. SecAsked(x)
      BY <1>1, <1>2, <3>1 DEF RootsDone
    <3> QED
      BY <1>4, <3>1, <3>2
  <2> QED
    BY <2>1, <2>2 DEF RootNodes
<1>9. ASSUME NEW x \in Section, SecNode(x) \in KeptNodes
      PROVE  NodeSuccessors[SecNode(x)] \subseteq KeptNodes
  BY <1>5, <1>7, <1>9, SuccessorsByKind, RefType
<1>10. ASSUME NEW s \in Symbol, SymNode(s) \in KeptNodes
       PROVE  NodeSuccessors[SymNode(s)] \subseteq KeptNodes
  <2>1. SymKept(s)
    BY <1>3, <1>10 DEF KeptAre
  <2>2. /\ SectionOf[s] # None => SecAsked(SectionOf[s])
        /\ BoundOf[s] # None => BoundAsked(s)
    BY <1>1, <1>2, <2>1 DEF SymbolsDone, SymbolDone
  <2>3. ASSUME NEW x \in Section, x = SectionOf[s] \/ Bounds(s, x) PROVE SecAsked(x)
    <3>1. CASE x = SectionOf[s]
      BY <2>2, <3>1, GraphAssumption
    <3>2. CASE Bounds(s, x)
      <4>1. BoundOf[s] # None
        BY <3>2, GraphAssumption DEF Bounds
      <4>2. BoundAsked(s) /\ draining[Synthetic] = None
        BY <1>1, <2>2, <4>1, GroupsAssumption
      <4> QED
        BY <3>2, <4>1, <4>2 DEF BoundAsked
    <3> QED
      BY <2>3, <3>1, <3>2
  <2>4. SymbolNeeds(s) \subseteq KeptNodes
    BY <1>4, <2>3 DEF SymbolNeeds, Bounds
  <2> QED
    BY <2>4, SuccessorsByKind
<1>11. \A s \in Symbol : NodeSuccessors[CopyNode(s)] \subseteq KeptNodes
  BY SuccessorsByKind
<1>12. Front \subseteq KeptNodes
  <2>1. ASSUME NEW n \in KeptNodes PROVE NodeSuccessors[n] \subseteq KeptNodes
    <3>1. n \in Nodes
      BY <1>3 DEF KeptAre
    <3> QED
      BY <1>9, <1>10, <1>11, <3>1 DEF Nodes
  <2> QED
    BY <1>8, <2>1 DEF Front
<1>13. ASSUME NEW n \in KeptNodes PROVE n \notin FaultyNodes
  <2>1. ASSUME NEW x \in Section, n = SecNode(x)
        PROVE  x \notin Discard /\ \A r \in Relocs[x] : ~IsError(r)
    BY <1>7, <2>1 DEF SlotInv, RefDone
  <2>2. ASSUME NEW x \in Section, NEW y \in Section, SecNode(x) = SecNode(y) PROVE x = y
    BY <2>2 DEF SecNode
  <2> QED
    BY <2>1, <2>2, GraphAssumption DEF FaultyNodes
<1> QED
  BY <1>6, <1>12, <1>13 DEF NeedsFaulty, RefDone

-----------------------------------------------------------------------------
(* Every step is a step of Reachability, or none *)

IInv ==
    /\ TypeOK /\ CountOK /\ DelayInv /\ NoLostWork
    /\ TaskInv /\ JustInv /\ DoneInv /\ SlotInv

LEMMA StepSimulates ==
    ASSUME IInv, TypeOK', [Next]_vars
    PROVE  Required!Next \/ UNCHANGED <<KeptNodes, Phase>>
<1> USE DEF IInv
<1>1. errors \subseteq errors'
  BY ErrorsStay
<1>2. result' = result \/ (FinishTraversal /\ result = "running")
  BY ResultSteps DEF FinishTraversal
<1>3. CASE result # "running"
  <2>1. UNCHANGED vars
    BY <1>2, <1>3, QuiescentStops DEF TaskInv, FinishTraversal
  <2> QED
    BY <2>1 DEF vars, KeptNodes, Loaded, Used, Phase, GroupsInSlots
<1>4. CASE result = "running" /\ errors # {}
  <2>1. KeptNodes = {} /\ KeptNodes' = {} /\ Phase = "failing"
    BY <1>1, <1>4 DEF KeptNodes, Phase
  <2>2. CASE result' = result
    BY <1>1, <1>4, <2>1, <2>2 DEF Phase
  <2>3. CASE FinishTraversal
    <3>1. Phase' = "failed"
      BY <1>4, <2>3 DEF FinishTraversal, Phase
    <3> QED
      BY <2>1, <3>1 DEF Required!Next, Required!Report
  <2> QED
    BY <1>2, <2>2, <2>3
<1>5. CASE result = "running" /\ errors = {} /\ errors' # {}
  <2>1. result' = result
    BY <1>2, <1>5 DEF FinishTraversal, graphVars
  <2>2. Phase = "running" /\ Phase' = "failing" /\ KeptNodes' = {}
    BY <1>5, <2>1 DEF Phase, KeptNodes
  <2>3. NeedsFaulty
    BY <1>5, StepFails
  <2> QED
    BY <2>2, <2>3, FrontIsFrontier DEF Required!Next, Required!Fail, NeedsFaulty
<1>6. CASE result = "running" /\ errors = {} /\ errors' = {} /\ result' = result
  <2>1. Phase = "running" /\ Phase' = "running"
    BY <1>6 DEF Phase
  <2>2. KeptNodes' = KeptNodes \/ \E n \in Front : KeptNodes' = KeptNodes \cup {n}
    BY <1>6, StepKeeps, KeptOne
  <2> QED
    BY <2>1, <2>2, FrontIsFrontier DEF Required!Next, Required!Keep
<1>7. CASE result = "running" /\ errors = {} /\ FinishTraversal
  <2>1. Quiescent /\ result' = "groups" /\ errors' = {}
    BY <1>7 DEF FinishTraversal, graphVars
  <2>2. GroupsInSlots /\ Front \subseteq KeptNodes /\ ~NeedsFaulty
    BY <1>7, <2>1, QuietAtEnd, AllKept
  <2>3. KeptNodes' = KeptNodes
    BY <1>7 DEF FinishTraversal, taskVars, graphVars, KeptNodes, Loaded, Used
  <2>4. GroupsInSlots'
    BY <1>7, <2>2 DEF FinishTraversal, GroupsInSlots
  <2>5. Phase = "running" /\ Phase' = "returned"
    BY <1>7, <2>1, <2>4 DEF Phase
  <2> QED
    BY <2>2, <2>3, <2>5, FrontIsFrontier DEF Required!Next, Required!Return, NeedsFaulty
<1> QED
  BY <1>2, <1>3, <1>4, <1>5, <1>6, <1>7

LEMMA InitSimulates ==
    ASSUME Init
    PROVE  Required!Init
<1>1. /\ errors = {} /\ result = "running" /\ copied = {} /\ Loaded = {} /\ Used = {}
      /\ \A g \in Group : loading[g] = None
  BY DEF Init, Loaded, Used
<1>2. KeptNodes = {} /\ Phase = "running"
  BY <1>1 DEF KeptNodes, Phase
<1> QED
  BY <1>2 DEF Required!Init

LEMMA InitIInv ==
    ASSUME Init, TypeOK, CountOK
    PROVE  IInv
<1>1. DelayInv /\ NoLostWork
  BY GroupsAssumption DEF Init, DelayInv, NoLostWork
<1>2. TaskInv
  BY DEF Init, TaskInv, Quiescent
<1>3. \A i : ~HasItem(i)
  BY DEF Init, HasItem
<1>4. /\ \A s \in Symbol : ~SymKept(s)
      /\ \A g \in Group : loading[g] = None /\ todo[g] = {} /\ draining[g] = None /\ reg[g] = {}
      /\ \A g \in Group : localWork[g] = {} /\ slotWork[g] = {} /\ act[g] = "queued"
      /\ \A x \in Section : slot[x] # "Loaded"
      /\ \A s \in Symbol : flags[s] = {}
      /\ startStop = {}
  BY DEF Init, SymKept
<1>5. JustInv
  BY <1>3, <1>4 DEF JustInv, ItemsJust, TodoJust, DrainJust, OfferJust
<1>6. DoneInv
  BY <1>3, <1>4 DEF DoneInv, RootsDone, LoadedDone, SymbolsDone, CopiesDone, Located
<1>7. SlotInv
  BY <1>4, GraphAssumption DEF Init, SlotInv
<1> QED
  BY <1>1, <1>2, <1>5, <1>6, <1>7 DEF IInv

LEMMA IInvInductive ==
    ASSUME IInv, TypeOK', CountOK', NoLostWork', [Next]_vars
    PROVE  IInv'
BY DelayInductive, TaskInductive, JustInductive, DoneInductive, SlotInductive DEF IInv

\* The traversal is a garbage collector (find_required_sections): whatever the tasks do, in
\* whatever order, what they keep grows one needed section, symbol or copy relocation at a
\* time; groups are returned only when all that is needed is kept and every group is in its
\* slot; and only a needed thing that cannot be kept makes it fail.
THEOREM TraversalCollects == Spec => CollectsGarbage
<1>1. Init /\ TypeOK /\ CountOK => IInv
  BY InitIInv
<1>2. /\ IInv /\ TypeOK' /\ CountOK' /\ NoLostWork' /\ [Next]_vars => IInv'
  BY IInvInductive
<1>3. Init => Required!Init
  BY InitSimulates
<1>4. IInv /\ TypeOK' /\ [Next]_vars => [Required!Next]_<<KeptNodes, Phase>>
  BY StepSimulates
<1>5. Spec => [](TypeOK /\ CountOK) /\ []NoLostWork
  BY TypeCorrect, NothingLost
<1> QED
  BY <1>1, <1>2, <1>3, <1>4, <1>5, PTL DEF Spec, CollectsGarbage, Required!Spec

=============================================================================
