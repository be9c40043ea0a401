--------------------- MODULE FindRequiredSections_proof ---------------------
(***************************************************************************)
(* Proofs about FindRequiredSections, for every set of groups, sections    *)
(* and symbols and every reference graph.                                  *)
(***************************************************************************)
EXTENDS FindRequiredSections, FiniteSetTheorems, TLAPS

-----------------------------------------------------------------------------
(* Facts about the definitions the actions are built from. *)

LEMMA ItemType ==
    /\ \A s \in Symbol : /\ LoadSym(s) \in Item
                         /\ CopySym(s) \in Item
                         /\ ExportSym(s) \in Item
    /\ \A x \in Section : LoadSec(x) \in Item
    /\ \A s \in Symbol : LoadSymbolWork(s) \in SUBSET Item
    /\ \A item \in Item : /\ GroupOf(item) \in Group
                          /\ item.op = "sec" => item.sec \in Section
                          /\ item.op # "sec" => item.sym \in Symbol
BY GroupsAssumption, GraphAssumption
   DEF Item, LoadSym, LoadSec, CopySym, ExportSym, LoadSymbolWork, GroupOf

LEMMA ItemFields ==
    /\ \A s : LoadSym(s).op = "sym" /\ LoadSym(s).sym = s
    /\ \A s : CopySym(s).op = "copy" /\ CopySym(s).sym = s
    /\ \A s : ExportSym(s).op = "export" /\ ExportSym(s).sym = s
    /\ \A x : LoadSec(x).op = "sec" /\ LoadSec(x).sec = x
BY DEF LoadSym, CopySym, ExportSym, LoadSec

LEMMA RefType ==
    /\ \A x \in Section : Relocs[x] \in SUBSET Ref
    /\ \A g \in Group : Roots[g] \in SUBSET Ref
    /\ \A r \in Ref : r.sym \in Symbol /\ FlagsToAdd(r.kind) \in SUBSET Flag
BY GraphAssumption DEF Ref, Kind, FlagsToAdd, Flag

LEMMA ExportDynamicType ==
    ASSUME TypeOK, NEW g \in Group, NEW s \in Symbol, NEW queue \in SUBSET Item,
           ExportDynamic(g, s, queue)
    PROVE  /\ flags' \in [Symbol -> SUBSET Flag]
           /\ symLoads' \in [Symbol -> Nat]
           /\ exports' \in [Symbol -> Nat]
           /\ localWork' \in [Group -> SUBSET Item]
<1>1. LoadSymbolWork(s) \in SUBSET Item
  BY ItemType
<1>2. CASE s \in Exportable
  <2>1. flags' \in [Symbol -> SUBSET Flag]
    BY <1>2 DEF ExportDynamic, TypeOK, Flag
  <2>2. symLoads' \in [Symbol -> Nat] /\ exports' \in [Symbol -> Nat]
    BY <1>2 DEF ExportDynamic, TypeOK
  <2>3. localWork' \in [Group -> SUBSET Item]
    BY <1>1, <1>2 DEF ExportDynamic, TypeOK
  <2> QED
    BY <2>1, <2>2, <2>3
<1>3. CASE s \notin Exportable
  BY <1>3 DEF ExportDynamic, TypeOK
<1> QED
  BY <1>2, <1>3

\* A section request does one of three things.
LEMMA SectionRequestCases ==
    ASSUME TypeOK, NEW g \in Group, NEW item \in localWork[g], HandleSectionRequest(g, item)
    PROVE  /\ item = LoadSec(item.sec) /\ item.sec \in Section
           /\ \/ /\ slot[item.sec] = "Unloaded"
                 /\ loading' = [loading EXCEPT ![g] = item.sec]
                 /\ todo' = [todo EXCEPT ![g] = Relocs[item.sec]]
                 /\ UNCHANGED <<act, worker, errors>>
              \/ slot[item.sec] = "Loaded" /\ UNCHANGED <<loading, todo, act, worker, errors>>
              \/ slot[item.sec] = "Discard" /\ DropWorker(g) /\ UNCHANGED <<loading, todo>>
<1>1. item \in Item /\ item.op = "sec"
  BY DEF TypeOK, HandleSectionRequest
<1>2. item = LoadSec(item.sec) /\ item.sec \in Section
  BY <1>1 DEF Item, LoadSec
<1>3. slot[item.sec] \in {"Unloaded", "Discard", "Loaded"}
  BY <1>2 DEF TypeOK
<1> QED
  BY <1>2, <1>3 DEF HandleSectionRequest

\* One reference is processed, one item is handled.
Processes(g, r) ==
    /\ r \in todo[g] /\ CanProcess(g)
    /\ todo' = [todo EXCEPT ![g] = @ \ {r}]
    /\ \/ ProcessRelocation(g, r)
       \/ MarkSymbol(g, r)
       \/ RequestExport(g, r)
       \/ ExportOwn(g, r)
    /\ UNCHANGED <<slotWork, reg, loading, draining, slot, startStop, remaining, copied, result>>

Handles(g, item) ==
    /\ item \in localWork[g] /\ Idle(g)
    /\ \/ HandleSymbolRequest(g, item)
       \/ HandleCopyRequest(g, item)
       \/ HandleExportRequest(g, item)
       \/ HandleSectionRequest(g, item)
    /\ UNCHANGED <<slotWork, reg, outbox, slot, startStop, remaining, result>>

LEMMA ProcessesOne ==
    ASSUME NEW g \in Group, ProcessReference(g)
    PROVE  \E r \in todo[g] : Processes(g, r)
BY Zenon DEF ProcessReference, Processes

LEMMA HandlesOne ==
    ASSUME NEW g \in Group, DoWork(g)
    PROVE  \E item \in localWork[g] : Handles(g, item)
BY Zenon DEF DoWork, Handles

\* Only a failing work item changes the state of the activation task.
LEMMA DoWorkActs ==
    ASSUME TypeOK, NEW g \in Group, DoWork(g)
    PROVE  act' = act \/ act' = AfterPendingWork(g)
<1>1. PICK item \in localWork[g] :
            \/ HandleSymbolRequest(g, item)
            \/ HandleCopyRequest(g, item)
            \/ HandleExportRequest(g, item)
            \/ HandleSectionRequest(g, item)
  BY Zenon DEF DoWork
<1>2. CASE HandleSectionRequest(g, item)
  BY <1>2, SectionRequestCases DEF DropWorker
<1> QED
  BY <1>1, <1>2 DEF HandleSymbolRequest, HandleCopyRequest, HandleExportRequest

-----------------------------------------------------------------------------
(* The type invariant *)

\* The activations activate_group has not counted down yet.
Unfinished == {g \in Group : act[g] # "done"}

\* activations_remaining counts them.
CountOK == remaining = Cardinality(Unfinished)

LEMMA UnfinishedFinite == IsFiniteSet(Unfinished) /\ Cardinality(Unfinished) \in Nat
BY GroupsAssumption, FS_Subset, FS_CardinalityType DEF Unfinished

LEMMA CompleteCounts ==
    ASSUME TypeOK, CountOK, NEW g \in Group, CompleteActivation(g)
    PROVE  remaining' \in Nat /\ CountOK'
<1>1. Unfinished' = Unfinished \ {g} /\ g \in Unfinished
  BY DEF CompleteActivation, Unfinished, TypeOK
<1>2. Cardinality(Unfinished') = Cardinality(Unfinished) - 1
  BY <1>1, UnfinishedFinite, FS_RemoveElement
<1>3. Cardinality(Unfinished) # 0
  BY <1>1, UnfinishedFinite, FS_EmptySet
<1> QED
  BY <1>2, <1>3, UnfinishedFinite DEF CompleteActivation, CountOK

\* Every variable keeps its type (TypeOK of FindRequiredSections), for every link; that the
\* counter of activations does not pass zero needs CountOK.
THEOREM TypeCorrect == Spec => [](TypeOK /\ CountOK)
<1>1. Init => TypeOK
  <2>1. Cardinality(Group) \in Nat
    BY GroupsAssumption, FS_CardinalityType
  <2> QED
    BY <2>1, GroupsAssumption, GraphAssumption DEF Init, InitialCount, TypeOK
<1>2. Init => CountOK
  <2> SUFFICES ASSUME Init PROVE CountOK
    OBVIOUS
  <2>1. Unfinished = Group
    BY DEF Init, Unfinished
  <2> QED
    BY <2>1 DEF Init, InitialCount, CountOK
<1>3. TypeOK /\ CountOK /\ [Next]_vars => TypeOK'
  <2> SUFFICES ASSUME TypeOK, CountOK, [Next]_vars PROVE TypeOK'
    OBVIOUS
  <2> USE DEF TypeOK
  <2>1. CASE UNCHANGED vars
    BY <2>1 DEF vars
  <2>2. ASSUME NEW g \in Group, ActivateGroup(g) PROVE TypeOK'
    BY <2>2, ItemType, RefType, GraphAssumption DEF ActivateGroup, ActivationLoads, graphVars
  <2>3. ASSUME NEW g \in Group, OfferStartStopSection(g) PROVE TypeOK'
    BY <2>3 DEF OfferStartStopSection
  <2>4. ASSUME NEW g \in Group, FinishActivation(g) PROVE TypeOK'
    BY <2>4 DEF FinishActivation, graphVars, taskVars
  <2>5. ASSUME NEW g \in Group, CompleteActivation(g) PROVE TypeOK'
    <3>1. remaining' \in Nat
      BY <2>5, CompleteCounts
    <3> QED
      BY <2>5, <3>1, GroupsAssumption DEF CompleteActivation, graphVars, taskVars
  <2>6. ASSUME NEW g \in Group, SendWork(g) PROVE TypeOK'
    <3>1. PICK item \in outbox[g] :
            /\ outbox' = [outbox EXCEPT ![g] = @ \ {item}]
            /\ SendLocally(g, item) \/ SendToSlot(GroupOf(item), item)
      BY <2>6 DEF SendWork
    <3>2. UNCHANGED <<act, reg, todo, loading, draining, remaining, result>> /\ UNCHANGED graphVars
      BY <2>6 DEF SendWork
    <3>3. item \in Item /\ GroupOf(item) \in Group
      BY <3>1, ItemType
    <3>4. /\ localWork' \in [Group -> SUBSET Item]
          /\ slotWork' \in [Group -> SUBSET Item]
          /\ worker' \in [Group -> {"none", "activating", "working", "parked", "delayed", "dropped"}]
      BY <3>1, <3>3 DEF SendLocally, SendToSlot
    <3> QED
      BY <3>1, <3>2, <3>3, <3>4 DEF graphVars
  <2>7. ASSUME NEW g \in Group, ProcessReference(g) PROVE TypeOK'
    <3>1. PICK r \in todo[g] :
            /\ todo' = [todo EXCEPT ![g] = @ \ {r}]
            /\ \/ ProcessRelocation(g, r)
               \/ MarkSymbol(g, r)
               \/ RequestExport(g, r)
               \/ ExportOwn(g, r)
            /\ UNCHANGED <<slotWork, reg, loading, draining, slot, startStop, remaining,
                           copied, result>>
      BY <2>7, Zenon DEF ProcessReference
    <3>2. r \in Ref /\ todo' \in [Group -> SUBSET Ref]
      BY <3>1
    <3>3. CASE ProcessRelocation(g, r)
      <4>1. flags' \in [Symbol -> SUBSET Flag]
        BY <3>2, <3>3, RefType DEF ProcessRelocation
      <4>2. outbox' \in [Group -> SUBSET Item]
        <5>1. LoadSym(r.sym) \in Item /\ CopySym(r.sym) \in Item
          BY <3>2, RefType, ItemType
        <5> QED
          BY <3>3, <5>1 DEF ProcessRelocation
      <4>3. errors' \in SUBSET Group
        BY <3>3 DEF ProcessRelocation
      <4> QED
        BY <3>1, <3>2, <3>3, <4>1, <4>2, <4>3 DEF ProcessRelocation
    <3>4. CASE MarkSymbol(g, r)
      BY <3>1, <3>2, <3>4, RefType DEF MarkSymbol, Flag
    <3>5. CASE RequestExport(g, r)
      <4>1. ExportSym(r.sym) \in Item
        BY <3>2, RefType, ItemType
      <4> QED
        BY <3>1, <3>2, <3>5, <4>1 DEF RequestExport
    <3>6. CASE ExportOwn(g, r)
      <4>1. /\ flags' \in [Symbol -> SUBSET Flag]
            /\ symLoads' \in [Symbol -> Nat]
            /\ exports' \in [Symbol -> Nat]
            /\ localWork' \in [Group -> SUBSET Item]
        BY <3>2, <3>6, RefType, ExportDynamicType DEF ExportOwn
      <4> QED
        BY <3>1, <3>2, <3>6, <4>1 DEF ExportOwn
    <3> QED
      BY <3>1, <3>3, <3>4, <3>5, <3>6
  <2>8. ASSUME NEW g \in Group, FailActivation(g) PROVE TypeOK'
    BY <2>8 DEF FailActivation
  <2>9. ASSUME NEW g \in Group, FailSection(g) PROVE TypeOK'
    BY <2>9 DEF FailSection, DropWorker, AfterPendingWork
  <2>10. ASSUME NEW g \in Group, DoWork(g) PROVE TypeOK'
    <3>1. PICK item \in localWork[g] :
            \/ HandleSymbolRequest(g, item)
            \/ HandleCopyRequest(g, item)
            \/ HandleExportRequest(g, item)
            \/ HandleSectionRequest(g, item)
      BY <2>10, Zenon DEF DoWork
    <3>2. item \in Item /\ localWork[g] \ {item} \in SUBSET Item
      BY <3>1
    <3>3. UNCHANGED <<slotWork, reg, outbox, slot, startStop, remaining, result>>
      BY <2>10 DEF DoWork
    <3>4. CASE HandleSymbolRequest(g, item)
      <4>1. /\ item.sym \in Symbol
            /\ LoadSymbolWork(item.sym) \in SUBSET Item
            /\ BoundOf[item.sym] \in Output \cup {None}
        BY <3>2, <3>4, ItemType, GraphAssumption DEF HandleSymbolRequest
      <4> QED
        BY <3>2, <3>3, <3>4, <4>1 DEF HandleSymbolRequest
    <3>5. CASE HandleCopyRequest(g, item)
      BY <3>2, <3>3, <3>5, ItemType DEF HandleCopyRequest
    <3>6. CASE HandleExportRequest(g, item)
      <4>1. /\ flags' \in [Symbol -> SUBSET Flag]
            /\ symLoads' \in [Symbol -> Nat]
            /\ exports' \in [Symbol -> Nat]
            /\ localWork' \in [Group -> SUBSET Item]
        BY <3>2, <3>6, ItemType, ExportDynamicType DEF HandleExportRequest
      <4> QED
        BY <3>3, <3>6, <4>1 DEF HandleExportRequest
    <3>7. CASE HandleSectionRequest(g, item)
      <4>1. /\ localWork' \in [Group -> SUBSET Item]
            /\ item.sec \in Section
        BY <3>2, <3>7, ItemType DEF HandleSectionRequest
      <4>2. CASE slot[item.sec] = "Unloaded"
        BY <3>3, <3>7, <4>1, <4>2, RefType DEF HandleSectionRequest
      <4>3. CASE slot[item.sec] = "Loaded"
        BY <3>3, <3>7, <4>1, <4>3 DEF HandleSectionRequest
      <4>4. CASE slot[item.sec] = "Discard"
        BY <3>3, <3>7, <4>1, <4>4 DEF HandleSectionRequest, DropWorker, AfterPendingWork
      <4> QED
        BY <4>1, <4>2, <4>3, <4>4
    <3> QED
      BY <3>1, <3>4, <3>5, <3>6, <3>7
  <2>11. ASSUME NEW g \in Group, FinishSection(g) PROVE TypeOK'
    BY <2>11 DEF FinishSection
  <2>12. ASSUME NEW g \in Group, PopStartStopSection(g) PROVE TypeOK'
    BY <2>12, ItemType DEF PopStartStopSection
  <2>13. ASSUME NEW g \in Group, FinishStartStop(g) PROVE TypeOK'
    BY <2>13 DEF FinishStartStop
  <2>14. ASSUME NEW g \in Group, Park(g) PROVE TypeOK'
    BY <2>14 DEF Park, AfterPendingWork, graphVars, taskVars
  <2>15. ASSUME NEW g \in Group, TakeSlotWork(g) PROVE TypeOK'
    BY <2>15 DEF TakeSlotWork, graphVars, taskVars
  <2>16. CASE FinishTraversal
    BY <2>16 DEF FinishTraversal, graphVars, taskVars
  <2> QED
    BY <2>1, <2>2, <2>3, <2>4, <2>5, <2>6, <2>7, <2>8, <2>9, <2>10, <2>11, <2>12, <2>13,
       <2>14, <2>15, <2>16 DEF Next
<1>4. TypeOK /\ CountOK /\ [Next]_vars => CountOK'
  <2> SUFFICES ASSUME TypeOK, CountOK, [Next]_vars PROVE CountOK'
    OBVIOUS
  <2>1. ASSUME NEW g \in Group, CompleteActivation(g) PROVE CountOK'
    BY <2>1, CompleteCounts
  <2>2. ASSUME remaining' = remaining, Unfinished' = Unfinished PROVE CountOK'
    BY <2>2 DEF CountOK
  <2>3. CASE UNCHANGED vars
    BY <2>2, <2>3 DEF vars, Unfinished
  <2>4. ASSUME NEW g \in Group, ActivateGroup(g) PROVE CountOK'
    BY <2>2, <2>4 DEF ActivateGroup, Unfinished, TypeOK
  <2>5. ASSUME NEW g \in Group,
               OfferStartStopSection(g) \/ SendWork(g) \/ FailActivation(g)
                 \/ FinishSection(g) \/ PopStartStopSection(g) \/ FinishStartStop(g)
                 \/ TakeSlotWork(g)
        PROVE  CountOK'
    BY <2>2, <2>5 DEF OfferStartStopSection, SendWork, FailActivation, FinishSection,
       PopStartStopSection, FinishStartStop, TakeSlotWork, Unfinished
  <2>6. ASSUME NEW g \in Group, ProcessReference(g) PROVE CountOK'
    BY <2>2, <2>6 DEF ProcessReference, ProcessRelocation, MarkSymbol, RequestExport,
       ExportOwn, Unfinished
  <2>7. ASSUME NEW g \in Group, FinishActivation(g) PROVE CountOK'
    BY <2>2, <2>7 DEF FinishActivation, Unfinished, TypeOK
  <2>8. ASSUME NEW g \in Group, FailSection(g) \/ Park(g) PROVE CountOK'
    BY <2>2, <2>8 DEF FailSection, Park, DropWorker, AfterPendingWork, Unfinished, TypeOK
  <2>9. ASSUME NEW g \in Group, DoWork(g) PROVE CountOK'
    <3>1. act' = act \/ act' = AfterPendingWork(g)
      BY <2>9, DoWorkActs
    <3> QED
      BY <2>2, <2>9, <3>1 DEF DoWork, AfterPendingWork, Unfinished, TypeOK
  <2>10. CASE FinishTraversal
    BY <2>2, <2>10 DEF FinishTraversal, Unfinished
  <2> QED
    BY <2>1, <2>3, <2>4, <2>5, <2>6, <2>7, <2>8, <2>9, <2>10 DEF Next
<1> QED
  BY <1>1, <1>2, <1>3, <1>4, PTL DEF Spec

-----------------------------------------------------------------------------
(* What a step does to the tasks and their slots *)

\* The task of a group ends: its state is parked in an empty slot, or dropped.
TaskEnds(g) ==
    /\ worker[g] = "working"
    /\ \/ worker' = [worker EXCEPT ![g] = "parked"] /\ slotWork[g] = {}
       \/ worker' = [worker EXCEPT ![g] = "dropped"]
    /\ act' = AfterPendingWork(g)
    /\ reg' = reg /\ slotWork' = slotWork

\* A group is sent work.
TaskWoken(g) ==
    /\ \E item \in Item : SendToSlot(g, item)
    /\ act' = act /\ reg' = reg

\* A task goes on.
TaskContinues ==
    /\ act' = act /\ worker' = worker
    /\ \A g \in Group : /\ reg'[g] \subseteq reg[g]
                        /\ slotWork'[g] = slotWork[g] \/ slotWork'[g] = {}

LEMMA DoWorkTasks ==
    ASSUME TypeOK, NEW g \in Group, DoWork(g)
    PROVE  TaskEnds(g) \/ TaskContinues
<1>1. PICK item \in localWork[g] :
            \/ HandleSymbolRequest(g, item)
            \/ HandleCopyRequest(g, item)
            \/ HandleExportRequest(g, item)
            \/ HandleSectionRequest(g, item)
  BY Zenon DEF DoWork
<1>2. worker[g] = "working" /\ UNCHANGED <<slotWork, reg>>
  BY DEF DoWork, Idle
<1>3. CASE HandleSectionRequest(g, item)
  BY <1>2, <1>3, SectionRequestCases DEF DropWorker, TaskEnds, TaskContinues
<1> QED
  BY <1>1, <1>2, <1>3 DEF HandleSymbolRequest, HandleCopyRequest, HandleExportRequest,
     TaskContinues

LEMMA SendWorkTasks ==
    ASSUME TypeOK, NEW g \in Group, SendWork(g)
    PROVE  TaskContinues \/ \E h \in Group : TaskWoken(h)
<1>1. PICK item \in outbox[g] :
            \/ SendLocally(g, item)
            \/ GroupOf(item) # g /\ SendToSlot(GroupOf(item), item)
  BY DEF SendWork
<1>2. act' = act /\ reg' = reg
  BY DEF SendWork
<1>3. item \in Item /\ GroupOf(item) \in Group
  BY ItemType DEF TypeOK
<1> QED
  BY <1>1, <1>2, <1>3 DEF SendLocally, TaskContinues, TaskWoken

LEMMA TaskSteps ==
    ASSUME TypeOK, [Next]_vars
    PROVE  \/ TaskContinues
           \/ \E g \in Group : \/ ActivateGroup(g) \/ FinishActivation(g)
                               \/ CompleteActivation(g) \/ TaskEnds(g) \/ TaskWoken(g)
<1>1. CASE UNCHANGED vars
  BY <1>1 DEF vars, TaskContinues
<1>2. CASE FinishTraversal
  BY <1>2 DEF FinishTraversal, taskVars, TaskContinues
<1>3. ASSUME NEW g \in Group, OfferStartStopSection(g) PROVE TaskContinues
  BY <1>3 DEF OfferStartStopSection, TaskContinues, TypeOK
<1>4. ASSUME NEW g \in Group, ProcessReference(g) PROVE TaskContinues
  BY <1>4 DEF ProcessReference, ProcessRelocation, MarkSymbol, RequestExport, ExportOwn,
     TaskContinues
<1>5. ASSUME NEW g \in Group,
             FailActivation(g) \/ FinishSection(g) \/ PopStartStopSection(g) \/ FinishStartStop(g)
      PROVE  TaskContinues
  BY <1>5 DEF FailActivation, FinishSection, PopStartStopSection, FinishStartStop, TaskContinues
<1>6. ASSUME NEW g \in Group, TakeSlotWork(g) PROVE TaskContinues
  BY <1>6 DEF TakeSlotWork, taskVars, TaskContinues, TypeOK
<1>7. ASSUME NEW g \in Group, FailSection(g) PROVE TaskEnds(g)
  BY <1>7 DEF FailSection, DropWorker, TaskEnds
<1>8. ASSUME NEW g \in Group, Park(g) PROVE TaskEnds(g)
  BY <1>8 DEF Park, Idle, SlotIsEmpty, taskVars, TaskEnds
<1> QED
  BY <1>1, <1>2, <1>3, <1>4, <1>5, <1>6, <1>7, <1>8, DoWorkTasks, SendWorkTasks DEF Next

-----------------------------------------------------------------------------
(* No work is lost *)

\* A worker parked in its slot leaves no work there, however sends and the end of a batch
\* interleave (NoLostWork: GraphResources::send_work and do_pending_work take the slot's
\* lock); it is inductive.
THEOREM NothingLost == Spec => []NoLostWork
<1>1. Init => NoLostWork
  BY DEF Init, NoLostWork
<1>2. TypeOK /\ NoLostWork /\ [Next]_vars => NoLostWork'
  <2> SUFFICES ASSUME TypeOK, NoLostWork, [Next]_vars PROVE NoLostWork'
    OBVIOUS
  <2> USE DEF NoLostWork
  <2>1. CASE TaskContinues
    BY <2>1 DEF TaskContinues
  <2>2. ASSUME NEW g \in Group, ActivateGroup(g) \/ FinishActivation(g) \/ CompleteActivation(g)
        PROVE  NoLostWork'
    BY <2>2, GroupsAssumption DEF ActivateGroup, FinishActivation, CompleteActivation, TypeOK
  <2>3. ASSUME NEW g \in Group, TaskEnds(g) PROVE NoLostWork'
    BY <2>3 DEF TaskEnds, TypeOK
  <2>4. ASSUME NEW g \in Group, TaskWoken(g) PROVE NoLostWork'
    BY <2>4 DEF TaskWoken, SendToSlot, TypeOK
  <2> QED
    BY <2>1, <2>2, <2>3, <2>4, TaskSteps
<1> QED
  BY <1>1, <1>2, TypeCorrect, PTL DEF Spec

-----------------------------------------------------------------------------
(* The synthetic symbols come last *)

\* Why: sections are offered only while a group is being activated, and the group of the
\* synthetic symbols is put aside until the count of activations has reached zero.
DelayInv ==
    /\ \A g \in Group : reg[g] # {} => worker[g] = "activating"
    /\ \A g \in Group : worker[g] = "activating" => act[g] = "running"
    /\ worker[Synthetic] \in {"working", "parked", "dropped"} => \A g \in Group : act[g] = "done"

LEMMA CompleteDelay ==
    ASSUME TypeOK, CountOK, DelayInv, NEW g \in Group, CompleteActivation(g)
    PROVE  DelayInv'
<1>1. CountOK' /\ act' = [act EXCEPT ![g] = "done"] /\ reg' = reg
  BY CompleteCounts DEF CompleteActivation, taskVars
<1>2. \A h \in Group : worker'[h] = worker[h] \/ (h = Synthetic /\ worker'[h] = "working")
  BY GroupsAssumption DEF CompleteActivation, TypeOK
<1>3. worker[g] # "activating" /\ act[g] = "decrement"
  BY DEF DelayInv, CompleteActivation
<1>4. (\A h \in Group : reg'[h] # {} => worker'[h] = "activating")
  <2>1. worker[Synthetic] = "delayed" => reg[Synthetic] = {}
    BY GroupsAssumption DEF DelayInv
  <2>2. worker' = worker \/ worker[Synthetic] = "delayed"
    BY DEF CompleteActivation
  <2> QED
    BY <1>1, <1>2, <2>1, <2>2 DEF DelayInv
<1>5. \A h \in Group : worker'[h] = "activating" => act'[h] = "running"
  BY <1>1, <1>2, <1>3 DEF DelayInv, TypeOK
<1>6. CASE LastActivation(remaining')
  <2>1. Cardinality(Unfinished') = 0
    BY <1>1, <1>6 DEF CountOK, LastActivation
  <2>2. IsFiniteSet(Unfinished')
    BY GroupsAssumption, FS_Subset DEF Unfinished
  <2>3. Unfinished' = {}
    BY <2>1, <2>2, FS_EmptySet
  <2> QED
    BY <1>4, <1>5, <2>3 DEF DelayInv, Unfinished
<1>7. CASE ~LastActivation(remaining')
  <2>1. worker' = worker
    BY <1>7 DEF CompleteActivation
  <2> QED
    BY <1>1, <1>4, <1>5, <2>1 DEF DelayInv, TypeOK
<1> QED
  BY <1>6, <1>7

LEMMA DelayInductive ==
    ASSUME TypeOK, CountOK, DelayInv, [Next]_vars
    PROVE  DelayInv'
<1>1. CASE TaskContinues
  BY <1>1 DEF TaskContinues, DelayInv
<1>2. ASSUME NEW g \in Group, ActivateGroup(g) PROVE DelayInv'
  BY <1>2, GroupsAssumption DEF ActivateGroup, DelayInv, TypeOK
<1>3. ASSUME NEW g \in Group, FinishActivation(g) PROVE DelayInv'
  <2>1. /\ reg' = reg /\ reg[g] = {}
        /\ act[g] = "running" /\ worker[g] = "activating"
    BY <1>3 DEF FinishActivation, taskVars
  <2>2. worker[Synthetic] \notin {"working", "parked", "dropped"}
    BY <2>1 DEF DelayInv
  <2>3. CASE g = Synthetic
    BY <1>3, <2>1, <2>3 DEF FinishActivation, ShouldDelayProcessing, DelayInv, TypeOK
  <2>4. CASE g # Synthetic
    <3>1. act' = act /\ worker' = [worker EXCEPT ![g] = "working"]
      BY <1>3, <2>4 DEF FinishActivation, ShouldDelayProcessing
    <3>2. worker'[Synthetic] = worker[Synthetic]
      BY <2>4, <3>1, GroupsAssumption DEF TypeOK
    <3>3. \A h \in Group : h # g => worker'[h] = worker[h]
      BY <3>1 DEF TypeOK
    <3>4. worker'[g] = "working"
      BY <3>1 DEF TypeOK
    <3> QED
      BY <2>1, <2>2, <3>1, <3>2, <3>3, <3>4 DEF DelayInv
  <2> QED
    BY <2>3, <2>4
<1>4. ASSUME NEW g \in Group, CompleteActivation(g) PROVE DelayInv'
  BY <1>4, CompleteDelay
<1>5. ASSUME NEW g \in Group, TaskEnds(g) PROVE DelayInv'
  <2>1. \A h \in Group : act[h] = "done" => act'[h] = "done"
    BY <1>5 DEF TaskEnds, AfterPendingWork, TypeOK
  <2>2. \A h \in Group : h # g => act'[h] = act[h] /\ worker'[h] = worker[h]
    BY <1>5 DEF TaskEnds, AfterPendingWork, TypeOK
  <2>3. worker[g] = "working" /\ worker'[g] \in {"parked", "dropped"} /\ reg' = reg
    BY <1>5 DEF TaskEnds, TypeOK
  <2> QED
    BY <2>1, <2>2, <2>3, GroupsAssumption DEF DelayInv
<1>6. ASSUME NEW g \in Group, TaskWoken(g) PROVE DelayInv'
  BY <1>6, GroupsAssumption DEF TaskWoken, SendToSlot, DelayInv, TypeOK
<1> QED
  BY <1>1, <1>2, <1>3, <1>4, <1>5, <1>6, TaskSteps

\* The synthetic symbols' group is worked on only after every group is activated and has
\* offered its eligible sections (SyntheticAfterActivation: activate_group).
THEOREM SyntheticLast == Spec => []SyntheticAfterActivation
<1>1. Init => DelayInv
  BY GroupsAssumption DEF Init, DelayInv
<1>2. TypeOK /\ CountOK /\ DelayInv /\ [Next]_vars => DelayInv'
  BY DelayInductive
<1>3. DelayInv => SyntheticAfterActivation
  BY DEF DelayInv, SyntheticAfterActivation
<1> QED
  BY <1>1, <1>2, <1>3, TypeCorrect, PTL DEF Spec

-----------------------------------------------------------------------------
(* A symbol is exported once *)

\* Flags are only added.
FlagsGrow == \A s \in Symbol : flags[s] \subseteq flags'[s]

\* Some task runs export_dynamic for a symbol.
SomeExport ==
    \E g \in Group, s \in Symbol, queue \in SUBSET Item : ExportDynamic(g, s, queue)

LEMMA ReferenceExports ==
    ASSUME TypeOK, NEW g \in Group, ProcessReference(g)
    PROVE  (exports' = exports /\ FlagsGrow) \/ SomeExport
<1>1. PICK r \in todo[g] :
            ProcessRelocation(g, r) \/ MarkSymbol(g, r) \/ RequestExport(g, r) \/ ExportOwn(g, r)
  BY DEF ProcessReference
<1>2. r \in Ref /\ r.sym \in Symbol /\ FlagsToAdd(r.kind) \in SUBSET Flag
  BY RefType DEF TypeOK
<1>3. CASE ProcessRelocation(g, r)
  BY <1>2, <1>3 DEF ProcessRelocation, FlagsGrow, TypeOK
<1>4. CASE MarkSymbol(g, r) \/ RequestExport(g, r)
  BY <1>2, <1>4 DEF MarkSymbol, RequestExport, FlagsGrow, TypeOK
<1>5. CASE ExportOwn(g, r)
  BY <1>2, <1>5 DEF ExportOwn, SomeExport, TypeOK
<1> QED
  BY <1>1, <1>3, <1>4, <1>5

LEMMA DoWorkExports ==
    ASSUME TypeOK, NEW g \in Group, DoWork(g)
    PROVE  (exports' = exports /\ FlagsGrow) \/ SomeExport
<1>1. PICK item \in localWork[g] :
            \/ HandleSymbolRequest(g, item)
            \/ HandleCopyRequest(g, item)
            \/ HandleExportRequest(g, item)
            \/ HandleSectionRequest(g, item)
  BY Zenon DEF DoWork
<1>2. CASE HandleExportRequest(g, item)
  <2>1. item \in Item /\ item.sym \in Symbol /\ localWork[g] \ {item} \in SUBSET Item
    BY <1>2, ItemType DEF TypeOK, HandleExportRequest
  <2> QED
    BY <1>2, <2>1 DEF HandleExportRequest, SomeExport
<1>3. CASE ~HandleExportRequest(g, item)
  <2>1. exports' = exports /\ flags' = flags
    BY <1>1, <1>3 DEF HandleSymbolRequest, HandleCopyRequest, HandleSectionRequest
  <2> QED
    BY <2>1 DEF FlagsGrow
<1> QED
  BY <1>2, <1>3

LEMMA ExportSteps ==
    ASSUME TypeOK, [Next]_vars
    PROVE  (exports' = exports /\ FlagsGrow) \/ SomeExport
<1>1. CASE UNCHANGED <<flags, exports>>
  BY <1>1 DEF FlagsGrow
<1>2. CASE FinishTraversal \/ UNCHANGED vars
  BY <1>1, <1>2 DEF FinishTraversal, vars, graphVars
<1>3. ASSUME NEW g \in Group,
             \/ ActivateGroup(g) \/ FinishActivation(g) \/ CompleteActivation(g)
             \/ SendWork(g) \/ Park(g) \/ TakeSlotWork(g)
      PROVE  UNCHANGED <<flags, exports>>
  BY <1>3 DEF ActivateGroup, FinishActivation, CompleteActivation, SendWork, Park,
     TakeSlotWork, graphVars
<1>4. ASSUME NEW g \in Group,
             \/ OfferStartStopSection(g) \/ FailActivation(g) \/ FailSection(g)
             \/ FinishSection(g) \/ PopStartStopSection(g) \/ FinishStartStop(g)
      PROVE  UNCHANGED <<flags, exports>>
  BY <1>4 DEF OfferStartStopSection, FailActivation, FailSection, FinishSection,
     PopStartStopSection, FinishStartStop
<1> QED
  BY <1>1, <1>2, <1>3, <1>4, ReferenceExports, DoWorkExports DEF Next

\* Why: the flag that says a symbol was exported is set with the first export and stays.
ExportInv ==
    \A s \in Symbol : exports[s] = 0 \/ (exports[s] = 1 /\ "EXPORT_DYNAMIC" \in flags[s])

\* However many shared objects ask for a symbol, and whether or not its own object exports it
\* at activation, it has one dynamic symbol (ExportedOnce: export_dynamic).
THEOREM OneExport == Spec => []ExportedOnce
<1>1. Init => ExportInv
  BY DEF Init, ExportInv
<1>2. TypeOK /\ ExportInv /\ [Next]_vars => ExportInv'
  <2> SUFFICES ASSUME TypeOK, ExportInv, [Next]_vars PROVE ExportInv'
    OBVIOUS
  <2>1. CASE exports' = exports /\ FlagsGrow
    BY <2>1 DEF FlagsGrow, ExportInv
  <2>2. ASSUME NEW g \in Group, NEW s \in Symbol, NEW queue \in SUBSET Item,
               ExportDynamic(g, s, queue)
        PROVE  ExportInv'
    <3>1. CASE s \notin Exportable
      BY <2>2, <3>1 DEF ExportDynamic, ExportInv
    <3>2. CASE s \in Exportable
      <4>1. /\ flags' = [flags EXCEPT ![s] = @ \cup {"EXPORT_DYNAMIC"}]
            /\ exports' = [exports EXCEPT ![s] =
                              IF "EXPORT_DYNAMIC" \notin flags[s] THEN @ + 1 ELSE @]
        BY <2>2, <3>2 DEF ExportDynamic, NeedsExport
      <4>2. \A t \in Symbol : t # s => flags'[t] = flags[t] /\ exports'[t] = exports[t]
        BY <4>1 DEF TypeOK
      <4>3. "EXPORT_DYNAMIC" \in flags'[s]
        BY <4>1 DEF TypeOK
      <4>4. exports'[s] \in {0, 1}
        BY <4>1 DEF TypeOK, ExportInv
      <4> QED
        BY <4>2, <4>3, <4>4 DEF ExportInv
    <3> QED
      BY <3>1, <3>2
  <2> QED
    BY <2>1, <2>2, ExportSteps DEF SomeExport
<1>3. TypeOK /\ ExportInv => ExportedOnce
  BY DEF ExportInv, ExportedOnce
<1> QED
  BY <1>1, <1>2, <1>3, TypeCorrect, PTL DEF Spec

-----------------------------------------------------------------------------
(* One request for a symbol *)

\* Where items wait: what a task has still to send, a local queue, a slot.
Place == {"outbox", "local", "slot"} \X Group
Queue(p) ==
    CASE p[1] = "outbox" -> outbox[p[2]]
      [] p[1] = "local"  -> localWork[p[2]]
      [] OTHER           -> slotWork[p[2]]
RequestAt(s, p) == LoadSym(s) \in Queue(p)

\* No reference to the symbol leaves its flags empty.
EveryReferenceFlags(s) ==
    /\ \A x \in Section : [kind |-> "NoFlags", sym |-> s] \notin Relocs[x]
    /\ \A g \in Group : [kind |-> "NoFlags", sym |-> s] \notin Roots[g]

TodoGiven ==
    \A g \in Group : \A r \in todo[g] :
        (\E h \in Group : r \in Roots[h]) \/ \E x \in Section : r \in Relocs[x]

\* Why: whoever sets the first flag makes the request, so that a symbol without flags has no
\* request, and one with a request on its way was not loaded; there is one request, in one
\* place.
RequestedOnce(s) ==
    /\ flags[s] = {} => symLoads[s] = 0 /\ \A p \in Place : ~RequestAt(s, p)
    /\ symLoads[s] <= 1
    /\ \A p \in Place : RequestAt(s, p) => symLoads[s] = 0
    /\ \A p, q \in Place : RequestAt(s, p) /\ RequestAt(s, q) => p = q

OnceInv ==
    /\ TodoGiven
    /\ \A s \in Symbol : EveryReferenceFlags(s) => RequestedOnce(s)

\* What a step may do to one symbol.
RequestsStay(s) ==
    /\ symLoads'[s] = symLoads[s] /\ flags[s] \subseteq flags'[s]
    /\ \A p \in Place : RequestAt(s, p)' => RequestAt(s, p)
RequestIsMade(s) ==
    /\ flags[s] = {} /\ flags'[s] # {} /\ symLoads'[s] = symLoads[s]
    /\ \E q \in Place : \A p \in Place : RequestAt(s, p)' => RequestAt(s, p) \/ p = q
RequestIsSent(s) ==
    /\ symLoads'[s] = symLoads[s] /\ flags'[s] = flags[s]
    /\ \E from, to \in Place :
          /\ RequestAt(s, from)
          /\ \A p \in Place : RequestAt(s, p)' => p = to \/ (RequestAt(s, p) /\ p # from)
RequestIsServed(s) ==
    /\ symLoads'[s] = symLoads[s] + 1 /\ flags'[s] = flags[s]
    /\ \E from \in Place :
          /\ RequestAt(s, from)
          /\ \A p \in Place : RequestAt(s, p)' => RequestAt(s, p) /\ p # from
SymbolIsExported(s) ==
    /\ flags[s] = {} /\ flags'[s] # {} /\ symLoads'[s] = symLoads[s] + 1
    /\ \A p \in Place : RequestAt(s, p)' => RequestAt(s, p)

RequestStep(s) ==
    \/ RequestsStay(s) \/ RequestIsMade(s) \/ RequestIsSent(s)
    \/ RequestIsServed(s) \/ SymbolIsExported(s)

LEMMA RequestStepSafe ==
    ASSUME TypeOK, NEW s \in Symbol, RequestedOnce(s), RequestStep(s)
    PROVE  RequestedOnce(s)'
<1>1. symLoads[s] \in Nat
  BY DEF TypeOK
<1>2. CASE RequestsStay(s)
  BY <1>1, <1>2 DEF RequestsStay, RequestedOnce
<1>3. CASE RequestIsMade(s)
  BY <1>1, <1>3 DEF RequestIsMade, RequestedOnce
<1>4. CASE RequestIsSent(s)
  BY <1>1, <1>4 DEF RequestIsSent, RequestedOnce
<1>5. CASE RequestIsServed(s)
  BY <1>1, <1>5 DEF RequestIsServed, RequestedOnce
<1>6. CASE SymbolIsExported(s)
  BY <1>1, <1>6 DEF SymbolIsExported, RequestedOnce
<1> QED
  BY <1>2, <1>3, <1>4, <1>5, <1>6 DEF RequestStep

LEMMA QueueAt ==
    /\ \A g \in Group : /\ <<"outbox", g>> \in Place /\ Queue(<<"outbox", g>>) = outbox[g]
                        /\ <<"local", g>> \in Place /\ Queue(<<"local", g>>) = localWork[g]
                        /\ <<"slot", g>> \in Place /\ Queue(<<"slot", g>>) = slotWork[g]
    /\ \A p \in Place : \E g \in Group :
          \/ p = <<"outbox", g>> \/ p = <<"local", g>> \/ p = <<"slot", g>>
BY DEF Place, Queue

\* The queues hold no new request for s, except at the places excepted.
NewOnlyAt(s, places) ==
    \A g \in Group :
        /\ LoadSym(s) \in outbox'[g] => LoadSym(s) \in outbox[g] \/ <<"outbox", g>> \in places
        /\ LoadSym(s) \in localWork'[g] => LoadSym(s) \in localWork[g] \/ <<"local", g>> \in places
        /\ LoadSym(s) \in slotWork'[g] => LoadSym(s) \in slotWork[g] \/ <<"slot", g>> \in places

LEMMA NewRequestAt ==
    ASSUME NEW s, NEW places, NewOnlyAt(s, places)
    PROVE  \A p \in Place : RequestAt(s, p)' => RequestAt(s, p) \/ p \in places
<1> SUFFICES ASSUME NEW p \in Place, LoadSym(s) \in Queue(p)'
             PROVE  LoadSym(s) \in Queue(p) \/ p \in places
  BY DEF RequestAt
<1>1. PICK g \in Group : p = <<"outbox", g>> \/ p = <<"local", g>> \/ p = <<"slot", g>>
  BY QueueAt
<1>2. /\ Queue(<<"outbox", g>>) = outbox[g] /\ Queue(<<"outbox", g>>)' = outbox'[g]
      /\ Queue(<<"local", g>>) = localWork[g] /\ Queue(<<"local", g>>)' = localWork'[g]
      /\ Queue(<<"slot", g>>) = slotWork[g] /\ Queue(<<"slot", g>>)' = slotWork'[g]
  BY DEF Queue
<1> QED
  BY <1>1, <1>2 DEF NewOnlyAt

LEMMA NothingNew ==
    ASSUME NEW s, symLoads'[s] = symLoads[s], flags[s] \subseteq flags'[s], NewOnlyAt(s, {})
    PROVE  RequestStep(s)
BY NewRequestAt DEF RequestStep, RequestsStay

LEMMA OtherItems ==
    ASSUME NEW s
    PROVE  /\ \A t : CopySym(t) # LoadSym(s) /\ ExportSym(t) # LoadSym(s)
           /\ \A x : LoadSec(x) # LoadSym(s)
           /\ \A t : LoadSym(s) \notin LoadSymbolWork(t)
           /\ \A g : LoadSym(s) \notin ActivationLoads(g)
<1>1. /\ \A t : CopySym(t) # LoadSym(s) /\ ExportSym(t) # LoadSym(s)
      /\ \A x : LoadSec(x) # LoadSym(s)
  BY ItemFields
<1> QED
  BY <1>1 DEF LoadSymbolWork, ActivationLoads

LEMMA ExportRequests ==
    ASSUME TypeOK, NEW g \in Group, NEW t \in Symbol, NEW queue \in SUBSET localWork[g],
           ExportDynamic(g, t, queue), UNCHANGED <<slotWork, outbox>>, NEW s \in Symbol
    PROVE  RequestStep(s)
<1>1. CASE t \notin Exportable
  <2>1. NewOnlyAt(s, {}) /\ UNCHANGED <<flags, symLoads>>
    BY <1>1 DEF ExportDynamic, NewOnlyAt, TypeOK
  <2> QED
    BY <2>1, NothingNew
<1>2. CASE t \in Exportable
  <2>1. NewOnlyAt(s, {})
    BY <1>2, OtherItems DEF ExportDynamic, NewOnlyAt, TypeOK
  <2>2. CASE s = t /\ NeedsRequest(t)
    <3>1. /\ flags' = [flags EXCEPT ![s] = @ \cup {"EXPORT_DYNAMIC"}]
          /\ symLoads' = [symLoads EXCEPT ![s] = @ + 1]
      BY <1>2, <2>2 DEF ExportDynamic
    <3>2. flags[s] = {} /\ flags'[s] # {} /\ symLoads'[s] = symLoads[s] + 1
      BY <2>2, <3>1 DEF NeedsRequest, TypeOK
    <3> QED
      BY <2>1, <3>2, NewRequestAt DEF RequestStep, SymbolIsExported
  <2>3. CASE s # t \/ ~NeedsRequest(t)
    <3>1. symLoads'[s] = symLoads[s] /\ flags[s] \subseteq flags'[s]
      BY <1>2, <2>3 DEF ExportDynamic, TypeOK
    <3> QED
      BY <2>1, <3>1, NothingNew
  <2> QED
    BY <2>2, <2>3
<1> QED
  BY <1>1, <1>2

LEMMA ReferenceRequests ==
    ASSUME TypeOK, TodoGiven, NEW g \in Group, NEW r \in todo[g], Processes(g, r),
           NEW s \in Symbol, EveryReferenceFlags(s)
    PROVE  RequestStep(s)
<1>1. r \in Ref /\ r.sym \in Symbol /\ outbox[g] = {} /\ slotWork' = slotWork
  BY RefType DEF Processes, CanProcess, TypeOK
<1>2. r.kind = "NoFlags" => r.sym # s
  <2>1. r.kind = "NoFlags" /\ r.sym = s => r = [kind |-> "NoFlags", sym |-> s]
    BY <1>1 DEF Ref
  <2> QED
    BY <2>1 DEF TodoGiven, EveryReferenceFlags
<1>3. CASE ProcessRelocation(g, r)
  <2>1. /\ flags' = [flags EXCEPT ![r.sym] = @ \cup FlagsToAdd(r.kind)]
        /\ outbox' = [outbox EXCEPT ![g] = (IF NeedsRequest(r.sym) THEN {LoadSym(r.sym)} ELSE {})
                                   \cup (IF NeedsCopy(r) THEN {CopySym(r.sym)} ELSE {})]
        /\ UNCHANGED <<localWork, symLoads>>
    BY <1>3 DEF ProcessRelocation
  <2>2. CASE s = r.sym /\ NeedsRequest(s)
    <3>1. flags[s] = {} /\ flags'[s] # {}
      <4>1. FlagsToAdd(r.kind) # {}
        BY <1>2, <1>3, <2>2 DEF ProcessRelocation, FlagsToAdd
      <4>2. flags'[s] = flags[s] \cup FlagsToAdd(r.kind)
        BY <2>1, <2>2 DEF TypeOK
      <4> QED
        BY <2>2, <4>1, <4>2 DEF NeedsRequest
    <3>2. NewOnlyAt(s, {<<"outbox", g>>})
      BY <1>1, <2>1 DEF NewOnlyAt, TypeOK
    <3>3. <<"outbox", g>> \in Place
      BY QueueAt
    <3> QED
      BY <2>1, <3>1, <3>2, <3>3, NewRequestAt DEF RequestStep, RequestIsMade
  <2>3. CASE s # r.sym \/ ~NeedsRequest(s)
    <3>1. flags[s] \subseteq flags'[s]
      BY <1>1, <2>1 DEF TypeOK
    <3>2. LoadSym(s) # LoadSym(r.sym) \/ ~NeedsRequest(r.sym)
      BY <2>3, ItemFields
    <3>3. NewOnlyAt(s, {})
      BY <1>1, <2>1, <3>2, OtherItems DEF NewOnlyAt, TypeOK
    <3> QED
      BY <2>1, <3>1, <3>3, NothingNew
  <2> QED
    BY <2>2, <2>3
<1>4. CASE MarkSymbol(g, r)
  <2>1. flags[s] \subseteq flags'[s] /\ symLoads' = symLoads /\ NewOnlyAt(s, {})
    BY <1>1, <1>4 DEF MarkSymbol, NewOnlyAt, TypeOK
  <2> QED
    BY <2>1, NothingNew
<1>5. CASE RequestExport(g, r)
  <2>1. flags[s] \subseteq flags'[s] /\ symLoads' = symLoads /\ NewOnlyAt(s, {})
    BY <1>1, <1>5, OtherItems DEF RequestExport, NewOnlyAt, TypeOK
  <2> QED
    BY <2>1, NothingNew
<1>6. CASE ExportOwn(g, r)
  BY <1>1, <1>6, ExportRequests DEF ExportOwn, TypeOK
<1> QED
  BY <1>3, <1>4, <1>5, <1>6 DEF Processes

LEMMA ItemRequests ==
    ASSUME TypeOK, NEW g \in Group, NEW item \in localWork[g], Handles(g, item),
           NEW s \in Symbol
    PROVE  RequestStep(s)
<1>1. /\ item \in Item /\ UNCHANGED <<slotWork, outbox>>
      /\ item.op # "sec" => item.sym \in Symbol
  BY ItemType DEF Handles, TypeOK
<1>2. CASE HandleSymbolRequest(g, item)
  <2>1. /\ item.op = "sym" /\ item.sym \in Symbol /\ flags' = flags
        /\ symLoads' = [symLoads EXCEPT ![item.sym] = @ + 1]
        /\ localWork' = [localWork EXCEPT ![g] = (@ \ {item}) \cup LoadSymbolWork(item.sym)]
    BY <1>1, <1>2 DEF HandleSymbolRequest
  <2>2. item = LoadSym(item.sym)
    BY <1>1, <2>1 DEF Item, LoadSym
  <2>3. NewOnlyAt(s, {})
    BY <1>1, <2>1, OtherItems DEF NewOnlyAt, TypeOK
  <2>4. CASE item.sym = s
    <3>1. RequestAt(s, <<"local", g>>) /\ <<"local", g>> \in Place
      BY <2>2, <2>4, QueueAt DEF RequestAt
    <3>2. ~RequestAt(s, <<"local", g>>)'
      <4>1. LoadSym(s) \notin localWork'[g]
        BY <2>1, <2>2, <2>4, OtherItems DEF TypeOK
      <4> QED
        BY <4>1 DEF RequestAt, Queue
    <3>3. symLoads'[s] = symLoads[s] + 1
      BY <2>1, <2>4 DEF TypeOK
    <3> QED
      BY <2>1, <2>3, <3>1, <3>2, <3>3, NewRequestAt DEF RequestStep, RequestIsServed
  <2>5. CASE item.sym # s
    <3>1. symLoads'[s] = symLoads[s]
      BY <2>1, <2>5 DEF TypeOK
    <3> QED
      BY <2>1, <2>3, <3>1, NothingNew
  <2> QED
    BY <2>4, <2>5
<1>3. CASE HandleExportRequest(g, item)
  <2>1. ExportDynamic(g, item.sym, localWork[g] \ {item}) /\ item.op = "export"
    BY <1>3 DEF HandleExportRequest
  <2> QED
    BY <1>1, <2>1, ExportRequests
<1>4. CASE HandleCopyRequest(g, item) \/ HandleSectionRequest(g, item)
  <2>1. UNCHANGED <<flags, symLoads>> /\ localWork' = [localWork EXCEPT ![g] = @ \ {item}]
    BY <1>4 DEF HandleCopyRequest, HandleSectionRequest
  <2>2. NewOnlyAt(s, {})
    BY <1>1, <2>1 DEF NewOnlyAt, TypeOK
  <2> QED
    BY <2>1, <2>2, NothingNew
<1> QED
  BY <1>2, <1>3, <1>4 DEF Handles

LEMMA SendRequests ==
    ASSUME TypeOK, NEW g \in Group, SendWork(g), NEW s \in Symbol
    PROVE  RequestStep(s)
<1>1. PICK item \in outbox[g] :
          /\ outbox' = [outbox EXCEPT ![g] = @ \ {item}]
          /\ SendLocally(g, item) \/ SendToSlot(GroupOf(item), item)
  BY DEF SendWork
<1>2. UNCHANGED <<flags, symLoads>> /\ item \in Item /\ GroupOf(item) \in Group
  BY ItemType DEF SendWork, graphVars, TypeOK
<1>3. CASE item # LoadSym(s)
  <2>1. NewOnlyAt(s, {})
    BY <1>1, <1>2, <1>3 DEF SendLocally, SendToSlot, NewOnlyAt, TypeOK
  <2> QED
    BY <1>2, <2>1, NothingNew
<1>4. CASE item = LoadSym(s)
  <2>1. \E to \in Place : NewOnlyAt(s, {to}) /\ to # <<"outbox", g>>
    <3>1. CASE SendLocally(g, item)
      <4>1. NewOnlyAt(s, {<<"local", g>>})
        BY <1>1, <3>1 DEF SendLocally, NewOnlyAt, TypeOK
      <4> QED
        BY <4>1, QueueAt
    <3>2. CASE SendToSlot(GroupOf(item), item)
      <4>1. NewOnlyAt(s, {<<"slot", GroupOf(item)>>})
        BY <1>1, <1>2, <3>2 DEF SendToSlot, NewOnlyAt, TypeOK
      <4> QED
        BY <1>2, <4>1, QueueAt
    <3> QED
      BY <1>1, <3>1, <3>2
  <2>2. RequestAt(s, <<"outbox", g>>) /\ <<"outbox", g>> \in Place
    BY <1>4, QueueAt DEF RequestAt
  <2>3. ~RequestAt(s, <<"outbox", g>>)'
    <3>1. LoadSym(s) \notin outbox'[g]
      BY <1>1, <1>4 DEF TypeOK
    <3> QED
      BY <3>1 DEF RequestAt, Queue
  <2> QED
    BY <1>2, <2>1, <2>2, <2>3, NewRequestAt DEF RequestStep, RequestIsSent
<1> QED
  BY <1>3, <1>4

LEMMA TakeRequests ==
    ASSUME TypeOK, NEW g \in Group, TakeSlotWork(g), NEW s \in Symbol
    PROVE  RequestStep(s)
<1>1. /\ localWork' = [localWork EXCEPT ![g] = slotWork[g]]
      /\ slotWork' = [slotWork EXCEPT ![g] = {}]
      /\ UNCHANGED <<outbox, flags, symLoads>>
  BY DEF TakeSlotWork, taskVars, graphVars
<1>2. CASE LoadSym(s) \notin slotWork[g]
  <2>1. NewOnlyAt(s, {})
    BY <1>1, <1>2 DEF NewOnlyAt, TypeOK
  <2> QED
    BY <1>1, <2>1, NothingNew
<1>3. CASE LoadSym(s) \in slotWork[g]
  <2>1. NewOnlyAt(s, {<<"local", g>>})
    BY <1>1 DEF NewOnlyAt, TypeOK
  <2>2. RequestAt(s, <<"slot", g>>) /\ <<"slot", g>> \in Place /\ <<"local", g>> \in Place
    BY <1>3, QueueAt DEF RequestAt
  <2>3. ~RequestAt(s, <<"slot", g>>)'
    <3>1. LoadSym(s) \notin slotWork'[g]
      BY <1>1 DEF TypeOK
    <3> QED
      BY <3>1 DEF RequestAt, Queue
  <2> QED
    BY <1>1, <2>1, <2>2, <2>3, NewRequestAt DEF RequestStep, RequestIsSent
<1> QED
  BY <1>2, <1>3

LEMMA StepRequests ==
    ASSUME TypeOK, TodoGiven, [Next]_vars, NEW s \in Symbol, EveryReferenceFlags(s)
    PROVE  RequestStep(s)
<1>1. ASSUME UNCHANGED <<flags, symLoads>>, NewOnlyAt(s, {}) PROVE RequestStep(s)
  BY <1>1, NothingNew
<1>2. CASE UNCHANGED vars \/ FinishTraversal
  BY <1>1, <1>2 DEF vars, FinishTraversal, taskVars, graphVars, NewOnlyAt
<1>3. ASSUME NEW g \in Group,
             \/ OfferStartStopSection(g) \/ FinishActivation(g) \/ CompleteActivation(g)
             \/ FailActivation(g) \/ FailSection(g) \/ FinishSection(g)
             \/ FinishStartStop(g) \/ Park(g)
      PROVE  RequestStep(s)
  BY <1>1, <1>3 DEF OfferStartStopSection, FinishActivation, CompleteActivation, FailActivation,
     FailSection, FinishSection, FinishStartStop, Park, taskVars, graphVars, NewOnlyAt
<1>4. ASSUME NEW g \in Group, ActivateGroup(g) PROVE RequestStep(s)
  <2>1. NewOnlyAt(s, {}) /\ UNCHANGED <<flags, symLoads>>
    BY <1>4, OtherItems DEF ActivateGroup, graphVars, NewOnlyAt, TypeOK
  <2> QED
    BY <1>1, <2>1
<1>5. ASSUME NEW g \in Group, PopStartStopSection(g) PROVE RequestStep(s)
  <2>1. NewOnlyAt(s, {}) /\ UNCHANGED <<flags, symLoads>>
    BY <1>5, OtherItems DEF PopStartStopSection, NewOnlyAt, TypeOK
  <2> QED
    BY <1>1, <2>1
<1> QED
  BY <1>2, <1>3, <1>4, <1>5, ProcessesOne, HandlesOne, ReferenceRequests, ItemRequests,
     SendRequests, TakeRequests DEF Next

LEMMA TodoGivenInductive ==
    ASSUME TypeOK, TodoGiven, [Next]_vars
    PROVE  TodoGiven'
<1>1. ASSUME \A g \in Group : todo'[g] \subseteq todo[g] PROVE TodoGiven'
  BY <1>1 DEF TodoGiven
<1>2. CASE UNCHANGED vars \/ FinishTraversal
  BY <1>1, <1>2 DEF vars, FinishTraversal, taskVars
<1>3. ASSUME NEW g \in Group,
             \/ OfferStartStopSection(g) \/ FinishActivation(g) \/ CompleteActivation(g)
             \/ FinishSection(g) \/ SendWork(g) \/ PopStartStopSection(g)
             \/ FinishStartStop(g) \/ Park(g) \/ TakeSlotWork(g)
      PROVE  TodoGiven'
  BY <1>1, <1>3 DEF OfferStartStopSection, FinishActivation, CompleteActivation, FinishSection,
     SendWork, PopStartStopSection, FinishStartStop, Park, TakeSlotWork, taskVars
<1>4. ASSUME NEW g \in Group, ActivateGroup(g) PROVE TodoGiven'
  BY <1>4 DEF ActivateGroup, TodoGiven, TypeOK
<1>5. ASSUME NEW g \in Group, ProcessReference(g) \/ FailActivation(g) \/ FailSection(g)
      PROVE  TodoGiven'
  BY <1>1, <1>5 DEF ProcessReference, FailActivation, FailSection, TypeOK
<1>6. ASSUME NEW g \in Group, NEW item \in localWork[g], Handles(g, item) PROVE TodoGiven'
  <2>1. CASE HandleSectionRequest(g, item)
    BY <1>1, <2>1, SectionRequestCases DEF TodoGiven, TypeOK
  <2> QED
    BY <1>1, <1>6, <2>1 DEF Handles, HandleSymbolRequest, HandleCopyRequest, HandleExportRequest
<1> QED
  BY <1>2, <1>3, <1>4, <1>5, <1>6, HandlesOne DEF Next

\* Of all the tasks that refer to a symbol at once, one requests it, and so load_symbol runs
\* once and allocates once (SymbolsLoadedOnce: process_relocation's fetch_or).
THEOREM OneRequest == Spec => []SymbolsLoadedOnce
<1>1. Init => OnceInv
  <2> SUFFICES ASSUME Init PROVE OnceInv
    OBVIOUS
  <2>1. ASSUME NEW p \in Place, NEW s PROVE ~RequestAt(s, p)
    BY QueueAt DEF Init, RequestAt
  <2> QED
    BY <2>1 DEF Init, OnceInv, TodoGiven, RequestedOnce
<1>2. TypeOK /\ OnceInv /\ [Next]_vars => OnceInv'
  <2> SUFFICES ASSUME TypeOK, OnceInv, [Next]_vars PROVE OnceInv'
    OBVIOUS
  <2>1. TodoGiven'
    BY TodoGivenInductive DEF OnceInv
  <2>2. ASSUME NEW s \in Symbol, EveryReferenceFlags(s) PROVE RequestedOnce(s)'
    BY <2>2, StepRequests, RequestStepSafe DEF OnceInv
  <2> QED
    BY <2>1, <2>2 DEF OnceInv, EveryReferenceFlags
<1>3. TypeOK /\ OnceInv => SymbolsLoadedOnce
  BY DEF OnceInv, EveryReferenceFlags, RequestedOnce, SymbolsLoadedOnce
<1> QED
  BY <1>1, <1>2, <1>3, TypeCorrect, PTL DEF Spec

\* Both, as one promise: whatever several tasks want of a symbol at once is done once.
THEOREM OneService == Spec => []ServedOnce
<1>1. SymbolsLoadedOnce /\ ExportedOnce => ServedOnce
  BY DEF ServedOnce
<1> QED
  BY <1>1, OneRequest, OneExport, PTL

=============================================================================
