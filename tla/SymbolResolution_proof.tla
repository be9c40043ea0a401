----------------------- MODULE SymbolResolution_proof -----------------------
(***************************************************************************)
(* Proofs about SymbolResolution, for any files, definitions,              *)
(* names and references and any number of tasks.                           *)
(***************************************************************************)
EXTENDS SymbolResolution, WellFoundedInduction, TLAPS

-----------------------------------------------------------------------------
(* The input of the link does not change, nor what references find in it. *)

LEMMA InputFixed ==
    ASSUME [Next]_vars
    PROVE  input' = input
<1>1. CASE UNCHANGED vars
  BY <1>1 DEF vars
<1>2. ASSUME NEW item \in WorkItem,
             \/ \E n \in Name : ResolveSymbol(item, n)
             \/ TakeFile(item) \/ LoseRace(item) \/ FailItem(item)
      PROVE  input' = input
  BY <1>2 DEF ResolveSymbol, TakeFile, LoseRace, FailItem
<1>3. CASE FinishResolution \/ FinishAlternatives \/ FinishCanonicalisation
  BY <1>3 DEF FinishResolution, FinishAlternatives, FinishCanonicalisation
<1>4. ASSUME NEW n \in Name, ProcessAlternatives(n) PROVE input' = input
  BY <1>4 DEF ProcessAlternatives
<1>5. ASSUME NEW u \in undefined, CanonicaliseUndefined(u)
      PROVE  input' = input
  BY <1>5 DEF CanonicaliseUndefined
<1> QED
  BY <1>1, <1>2, <1>3, <1>4, <1>5 DEF Next

\* Reference n of file f makes file g be loaded.
Wants(f, n, g) == Refers(f, n) /\ Target(f, n) = g /\ Activates(f, n, g)

LEMMA WantsFixed ==
    ASSUME input' = input
    PROVE  /\ \A f, n, g : Wants(f, n, g)' <=> Wants(f, n, g)
           /\ \A item : ItemNames(item)' = ItemNames(item)
           /\ \A f, n : /\ Refers(f, n)' <=> Refers(f, n)
                        /\ Defines(f, n)' <=> Defines(f, n)
                        /\ Target(f, n)' = Target(f, n)
           /\ \A n : Bucket(n)' = Bucket(n) /\ First(n)' = First(n)
<1>1. Sym' = Sym /\ Dynamic' = Dynamic
  BY DEF Sym, Dynamic
<1>2. \A f, n : Refers(f, n)' <=> Refers(f, n)
  BY <1>1 DEF Refers
<1>3. \A f, n : Defines(f, n)' <=> Defines(f, n)
  BY <1>1 DEF Defines
<1>4. \A n : Bucket(n)' = Bucket(n) /\ First(n)' = First(n)
  BY <1>3 DEF Bucket, First
<1>5. \A f, n : Target(f, n)' = Target(f, n)
  BY <1>1, <1>4 DEF Target, Get, GetNonDynamic
<1>6. \A f, n, g : Activates(f, n, g)' <=> Activates(f, n, g)
  BY <1>1 DEF Activates
<1> QED
  BY <1>2, <1>3, <1>4, <1>5, <1>6 DEF Wants, ItemNames

-----------------------------------------------------------------------------
(* Files are loaded once *)

\* The variables of the first step are functions of their domains.
LoadTypeOK ==
    /\ loads \in [File -> Nat]
    /\ todo \in [WorkItem -> SUBSET Name]
    /\ asking = [item \in WorkItem |-> asking[item]]

\* The files taken are those loaded.
TakenInv == \A f \in File : loads[f] = IF f \in taken THEN 1 ELSE 0

LEMMA ItemNamesType == \A item \in WorkItem : ItemNames(item) \in SUBSET Name
BY DEF ItemNames

\* The steps after the first leave its variables alone.
LEMMA LaterSteps ==
    ASSUME \/ FinishAlternatives \/ FinishCanonicalisation
           \/ \E n \in Name : ProcessAlternatives(n)
           \/ \E u \in undefined : CanonicaliseUndefined(u)
    PROVE  /\ phase # "resolve" /\ phase # "failed"
           /\ phase' # "resolve"
           /\ UNCHANGED <<taken, loads, todo, asking, errors>>
<1>1. CASE FinishAlternatives \/ FinishCanonicalisation
  BY <1>1 DEF FinishAlternatives, FinishCanonicalisation
<1>2. ASSUME NEW n \in Name, ProcessAlternatives(n)
      PROVE  /\ phase # "resolve" /\ phase # "failed"
             /\ phase' # "resolve"
             /\ UNCHANGED <<taken, loads, todo, asking, errors>>
  BY <1>2 DEF ProcessAlternatives
<1>3. ASSUME NEW u \in undefined, CanonicaliseUndefined(u)
      PROVE  /\ phase # "resolve" /\ phase # "failed"
             /\ phase' # "resolve"
             /\ UNCHANGED <<taken, loads, todo, asking, errors>>
  BY <1>3 DEF CanonicaliseUndefined
<1> QED
  BY <1>1, <1>2, <1>3

LEMMA ResolveSymbolEffect ==
    ASSUME LoadTypeOK, NEW item \in WorkItem, NEW n \in Name, ResolveSymbol(item, n)
    PROVE  /\ todo' = [todo EXCEPT ![item] = @ \ {n}]
           /\ asking' = [asking EXCEPT ![item] =
                 IF /\ Target(item[1], n) # None
                    /\ Activates(item[1], n, Target(item[1], n))
                    /\ Target(item[1], n) \notin taken
                   THEN Target(item[1], n) ELSE None]
           /\ asking[item] = None
           /\ UNCHANGED <<taken, loads, errors, phase>>
<1>1. asking[item] = None /\ [asking EXCEPT ![item] = None] = asking
  BY DEF ResolveSymbol, LoadTypeOK
<1>2. CASE Target(item[1], n) = None
  BY <1>1, <1>2 DEF ResolveSymbol
<1>3. CASE Target(item[1], n) # None
  BY <1>1, <1>3 DEF ResolveSymbol
<1> QED
  BY <1>2, <1>3

\* Both facts are kept by every step.
LEMMA LoadInductive ==
    ASSUME LoadTypeOK, TakenInv, [Next]_vars
    PROVE  LoadTypeOK' /\ TakenInv'
<1>1. CASE UNCHANGED <<taken, loads, todo, asking>>
  BY <1>1 DEF LoadTypeOK, TakenInv
<1>2. CASE UNCHANGED vars \/ FinishResolution
  BY <1>1, <1>2 DEF vars, FinishResolution
<1>3. ASSUME NEW item \in WorkItem, NEW n \in Name, ResolveSymbol(item, n)
      PROVE  LoadTypeOK' /\ TakenInv'
  BY <1>3, ResolveSymbolEffect DEF LoadTypeOK, TakenInv
<1>4. ASSUME NEW item \in WorkItem, TakeFile(item) PROVE LoadTypeOK' /\ TakenInv'
  <2>1. /\ asking' = [asking EXCEPT ![item] = None]
        /\ asking[item] \notin taken
        /\ taken' = taken \cup {asking[item]}
        /\ loads' = [loads EXCEPT ![asking[item]] = @ + 1]
    BY <1>4 DEF TakeFile, Takes
  <2>2. todo' \in [WorkItem -> SUBSET Name]
    BY <1>4, ItemNamesType DEF TakeFile, LoadTypeOK
  <2>3. LoadTypeOK'
    <3>1. loads' \in [File -> Nat]
      <4>1. CASE asking[item] \in File
        BY <2>1, <4>1 DEF LoadTypeOK
      <4>2. CASE asking[item] \notin File
        BY <2>1, <4>2 DEF LoadTypeOK
      <4> QED
        BY <4>1, <4>2
    <3>2. asking' = [i \in WorkItem |-> asking'[i]]
      BY <2>1 DEF LoadTypeOK
    <3> QED
      BY <2>2, <3>1, <3>2 DEF LoadTypeOK
  <2>4. ASSUME NEW f \in File PROVE loads'[f] = IF f \in taken' THEN 1 ELSE 0
    <3>1. loads[f] = IF f \in taken THEN 1 ELSE 0
      BY DEF TakenInv
    <3>2. CASE f = asking[item]
      BY <2>1, <3>1, <3>2 DEF LoadTypeOK
    <3>3. CASE f # asking[item]
      BY <2>1, <3>1, <3>3 DEF LoadTypeOK
    <3> QED
      BY <3>2, <3>3
  <2> QED
    BY <2>3, <2>4 DEF TakenInv
<1>5. ASSUME NEW item \in WorkItem, LoseRace(item) \/ FailItem(item)
      PROVE  LoadTypeOK' /\ TakenInv'
  BY <1>5 DEF LoseRace, FailItem, LoadTypeOK, TakenInv
<1> QED
  BY <1>1, <1>2, <1>3, <1>4, <1>5, LaterSteps DEF Next

\* Of any number of tasks that race for a file one loads it (LoadedOnce), so outputs.loaded
\* has room for all.
THEOREM LoadOnce == Spec => []LoadedOnce
<1>1. Init => LoadTypeOK /\ TakenInv
  BY ItemNamesType DEF Init, LoadTypeOK, TakenInv
<1>2. LoadTypeOK /\ TakenInv /\ [Next]_vars => LoadTypeOK' /\ TakenInv'
  BY LoadInductive
<1>3. TakenInv => LoadedOnce
  BY DEF TakenInv, LoadedOnce
<1> QED
  BY <1>1, <1>2, <1>3, PTL DEF Spec

-----------------------------------------------------------------------------
(* Nothing needed is forgotten *)

\* What a file that was taken wants is taken, or a task is on its way to it, unless there was
\* an error.
PendingInv ==
    errors = {} =>
        \A item \in WorkItem : \A n \in ItemNames(item), g \in File :
            item[1] \in taken /\ Wants(item[1], n, g) =>
                n \in todo[item] \/ asking[item] = g \/ g \in taken

\* Once resolution is over no task is left, and an error makes the link fail.
PhaseInv ==
    /\ phase # "resolve" =>
          \A item \in WorkItem : todo[item] = {} /\ asking[item] = None
    /\ phase \notin {"resolve", "failed"} => errors = {}

LEMMA PendingInductive ==
    ASSUME LoadTypeOK, PendingInv, [Next]_vars
    PROVE  PendingInv'
<1>1. /\ \A f, n, g : Wants(f, n, g)' <=> Wants(f, n, g)
      /\ \A item : ItemNames(item)' = ItemNames(item)
  BY InputFixed, WantsFixed
<1>2. SUFFICES ASSUME errors' = {}, NEW i \in WorkItem, NEW m \in ItemNames(i), NEW g \in File,
                      i[1] \in taken', Wants(i[1], m, g)
               PROVE  m \in todo'[i] \/ asking'[i] = g \/ g \in taken'
  BY <1>1 DEF PendingInv
<1>3. ASSUME errors = {}, i[1] \in taken PROVE m \in todo[i] \/ asking[i] = g \/ g \in taken
  BY <1>2, <1>3 DEF PendingInv
<1>4. CASE UNCHANGED <<taken, todo, asking, errors>>
  BY <1>2, <1>3, <1>4
<1>5. CASE UNCHANGED vars \/ FinishResolution
  BY <1>4, <1>5 DEF vars, FinishResolution
<1>6. ASSUME NEW item \in WorkItem, NEW n \in Name, ResolveSymbol(item, n)
      PROVE  m \in todo'[i] \/ asking'[i] = g \/ g \in taken'
  <2>1. /\ todo' = [todo EXCEPT ![item] = @ \ {n}]
        /\ asking' = [asking EXCEPT ![item] =
              IF /\ Target(item[1], n) # None
                 /\ Activates(item[1], n, Target(item[1], n))
                 /\ Target(item[1], n) \notin taken
                THEN Target(item[1], n) ELSE None]
        /\ asking[item] = None
        /\ UNCHANGED <<taken, errors>>
    BY <1>6, ResolveSymbolEffect
  <2>2. m \in todo[i] \/ asking[i] = g \/ g \in taken
    BY <1>2, <1>3, <2>1
  <2>3. CASE i # item
    BY <2>1, <2>2, <2>3 DEF LoadTypeOK
  <2>4. CASE i = item /\ m # n
    <3>1. asking[i] # g
      BY <2>1, <2>4, FilesAssumption
    <3> QED
      BY <2>1, <2>2, <2>4, <3>1 DEF LoadTypeOK
  <2>5. CASE i = item /\ m = n
    <3>1. Target(item[1], n) = g /\ Activates(item[1], n, g) /\ g # None
      BY <1>2, <2>5, FilesAssumption DEF Wants
    <3>2. asking'[i] = IF g \notin taken THEN g ELSE None
      BY <2>1, <2>5, <3>1 DEF LoadTypeOK
    <3> QED
      BY <2>1, <3>2
  <2> QED
    BY <2>3, <2>4, <2>5
<1>7. ASSUME NEW item \in WorkItem, TakeFile(item)
      PROVE  m \in todo'[i] \/ asking'[i] = g \/ g \in taken'
  <2>1. /\ asking' = [asking EXCEPT ![item] = None]
        /\ taken' = taken \cup {asking[item]}
        /\ todo'[i] = IF i[1] = asking[item] THEN ItemNames(i) ELSE todo[i]
        /\ errors' = errors
    BY <1>7 DEF TakeFile
  <2>2. CASE i[1] = asking[item]
    BY <1>2, <2>1, <2>2
  <2>3. CASE i[1] # asking[item]
    <3>1. m \in todo[i] \/ asking[i] = g \/ g \in taken
      BY <1>2, <1>3, <2>1, <2>3
    <3> QED
      BY <2>1, <2>3, <3>1 DEF LoadTypeOK
  <2> QED
    BY <2>2, <2>3
<1>8. ASSUME NEW item \in WorkItem, LoseRace(item)
      PROVE  m \in todo'[i] \/ asking'[i] = g \/ g \in taken'
  BY <1>2, <1>3, <1>8 DEF LoseRace, Takes, LoadTypeOK
<1>9. ASSUME NEW item \in WorkItem, FailItem(item) PROVE FALSE
  BY <1>2, <1>9 DEF FailItem, HandleResult
<1> QED
  BY <1>4, <1>5, <1>6, <1>7, <1>8, <1>9, LaterSteps DEF Next

LEMMA PhaseInductive ==
    ASSUME LoadTypeOK, PhaseInv, [Next]_vars
    PROVE  PhaseInv'
<1>1. CASE UNCHANGED vars
  BY <1>1 DEF vars, PhaseInv
<1>2. CASE FinishResolution
  BY <1>2 DEF FinishResolution, PhaseInv
<1>3. ASSUME NEW item \in WorkItem,
             \/ \E n \in Name : ResolveSymbol(item, n)
             \/ TakeFile(item) \/ LoseRace(item) \/ FailItem(item)
      PROVE  phase = "resolve" /\ phase' = "resolve"
  <2>1. todo[item] # {} \/ asking[item] # None
    BY <1>3 DEF ResolveSymbol, TakeFile, LoseRace, FailItem
  <2>2. phase' = phase
    BY <1>3 DEF ResolveSymbol, TakeFile, LoseRace, FailItem
  <2> QED
    BY <2>1, <2>2 DEF PhaseInv
<1>4. CASE phase' = "resolve"
  BY <1>4 DEF PhaseInv
<1> QED
  BY <1>1, <1>2, <1>3, <1>4, LaterSteps DEF Next, PhaseInv

-----------------------------------------------------------------------------
(* Nothing else is loaded, and nothing that could not be read *)

LEMMA ClosedFixed ==
    ASSUME input' = input, NEW S \in SUBSET File
    PROVE  Closed(S)' <=> Closed(S)
<1>1. \A f, n, g : Wants(f, n, g)' <=> Wants(f, n, g)
  BY WantsFixed
<1>2. \A f : Needs(f)' = Needs(f)
  BY <1>1 DEF Needs, Wants
<1>3. Optional' = Optional
  BY DEF Optional
<1> QED
  BY <1>2, <1>3 DEF Closed

\* A file that is loaded, or about to be, is in every closed set; the names a work item still
\* has to resolve are its own, and its file is loaded.
ReachedInv(S) ==
    /\ taken \cap File \subseteq S
    /\ \A item \in WorkItem : /\ todo[item] \subseteq ItemNames(item)
                              /\ todo[item] # {} => item[1] \in taken
                              /\ asking[item] \in File => asking[item] \in S

LEMMA ReachedInductive ==
    ASSUME LoadTypeOK, NEW S \in SUBSET File, Closed(S), ReachedInv(S), [Next]_vars
    PROVE  ReachedInv(S)'
<1>1. \A item : ItemNames(item)' = ItemNames(item)
  BY InputFixed, WantsFixed
<1>2. CASE UNCHANGED <<taken, todo, asking>>
  BY <1>1, <1>2 DEF ReachedInv
<1>3. CASE UNCHANGED vars \/ FinishResolution
  BY <1>2, <1>3 DEF vars, FinishResolution
<1>4. ASSUME NEW item \in WorkItem, NEW n \in Name, ResolveSymbol(item, n) PROVE ReachedInv(S)'
  <2>1. /\ todo' = [todo EXCEPT ![item] = @ \ {n}]
        /\ asking' = [asking EXCEPT ![item] =
              IF /\ Target(item[1], n) # None
                 /\ Activates(item[1], n, Target(item[1], n))
                 /\ Target(item[1], n) \notin taken
                THEN Target(item[1], n) ELSE None]
        /\ taken' = taken
    BY <1>4, ResolveSymbolEffect
  <2>2. n \in todo[item] /\ todo[item] \subseteq ItemNames(item) /\ item[1] \in taken
    BY <1>4 DEF ResolveSymbol, ReachedInv
  <2>3. Refers(item[1], n) /\ item[1] \in S
    BY <2>2 DEF ItemNames, ReachedInv, WorkItem
  <2>4. asking'[item] \in File => asking'[item] \in S
    <3>1. ASSUME asking'[item] \in File PROVE asking'[item] \in Needs(item[1])
      <4>1. /\ asking'[item] = Target(item[1], n)
            /\ Activates(item[1], n, Target(item[1], n))
        BY <2>1, <3>1, FilesAssumption DEF LoadTypeOK
      <4> QED
        BY <2>3, <3>1, <4>1 DEF Needs
    <3>2. Needs(item[1]) \subseteq S
      BY <2>3 DEF Closed
    <3> QED
      BY <3>1, <3>2
  <2> QED
    BY <1>1, <2>1, <2>2, <2>4 DEF ReachedInv, LoadTypeOK
<1>5. ASSUME NEW item \in WorkItem, TakeFile(item) PROVE ReachedInv(S)'
  <2>1. /\ asking' = [asking EXCEPT ![item] = None]
        /\ taken' = taken \cup {asking[item]}
        /\ \A i \in WorkItem :
              todo'[i] = IF i[1] = asking[item] THEN ItemNames(i) ELSE todo[i]
    BY <1>5 DEF TakeFile
  <2>2. taken' \cap File \subseteq S
    BY <2>1 DEF ReachedInv
  <2>3. ASSUME NEW i \in WorkItem
        PROVE  /\ todo'[i] \subseteq ItemNames(i)
               /\ todo'[i] # {} => i[1] \in taken'
               /\ asking'[i] \in File => asking'[i] \in S
    <3>1. todo'[i] \subseteq ItemNames(i) /\ (todo'[i] # {} => i[1] \in taken')
      BY <2>1 DEF ReachedInv
    <3>2. asking'[i] = asking[i] \/ asking'[i] = None
      BY <2>1 DEF LoadTypeOK
    <3>3. asking'[i] \in File => asking'[i] \in S
      BY <3>2, FilesAssumption DEF ReachedInv
    <3> QED
      BY <3>1, <3>3
  <2> QED
    BY <1>1, <2>2, <2>3 DEF ReachedInv
<1>6. ASSUME NEW item \in WorkItem, LoseRace(item) \/ FailItem(item) PROVE ReachedInv(S)'
  <2>1. /\ taken' = taken
        /\ asking' = asking \/ asking' = [asking EXCEPT ![item] = None]
        /\ todo' = todo \/ todo' = [todo EXCEPT ![item] = {}]
    BY <1>6 DEF LoseRace, FailItem
  <2>2. ASSUME NEW i \in WorkItem
        PROVE  /\ todo'[i] = todo[i] \/ todo'[i] = {}
               /\ asking'[i] = asking[i] \/ asking'[i] = None
    BY <2>1 DEF LoadTypeOK
  <2> QED
    BY <1>1, <2>1, <2>2, FilesAssumption DEF ReachedInv
<1> QED
  BY <1>2, <1>3, <1>4, <1>5, <1>6, LaterSteps DEF Next

\* As long as nothing failed, a reference of a loaded file that cannot be resolved is still to
\* be resolved: no step but FailItem takes it from its work item.
UnreadableInv ==
    errors = {} =>
        \A item \in WorkItem : \A n \in ItemNames(item) :
            item[1] \in taken /\ <<item[1], n>> \in Unreadable => n \in todo[item]

LEMMA UnreadableInductive ==
    ASSUME LoadTypeOK, UnreadableInv, [Next]_vars
    PROVE  UnreadableInv'
<1>1. /\ \A item : ItemNames(item)' = ItemNames(item)
      /\ Unreadable' = Unreadable
  BY InputFixed, WantsFixed DEF Unreadable
<1>2. SUFFICES ASSUME errors' = {}, NEW i \in WorkItem, NEW m \in ItemNames(i),
                      i[1] \in taken', <<i[1], m>> \in Unreadable
               PROVE  m \in todo'[i]
  BY <1>1 DEF UnreadableInv
<1>3. ASSUME errors = {}, i[1] \in taken PROVE m \in todo[i]
  BY <1>2, <1>3 DEF UnreadableInv
<1>4. CASE UNCHANGED <<taken, todo, errors>>
  BY <1>2, <1>3, <1>4
<1>5. CASE UNCHANGED vars \/ FinishResolution
  BY <1>4, <1>5 DEF vars, FinishResolution
<1>6. ASSUME NEW item \in WorkItem, NEW n \in Name, ResolveSymbol(item, n) PROVE m \in todo'[i]
  <2>1. todo' = [todo EXCEPT ![item] = @ \ {n}] /\ UNCHANGED <<taken, errors>>
    BY <1>6, ResolveSymbolEffect
  <2>2. ~(i = item /\ m = n)
    BY <1>2, <1>6 DEF ResolveSymbol
  <2> QED
    BY <1>2, <1>3, <2>1, <2>2 DEF LoadTypeOK
<1>7. ASSUME NEW item \in WorkItem, TakeFile(item) PROVE m \in todo'[i]
  BY <1>2, <1>3, <1>7 DEF TakeFile
<1>8. ASSUME NEW item \in WorkItem, LoseRace(item) PROVE m \in todo'[i]
  BY <1>2, <1>3, <1>8 DEF LoseRace
<1>9. ASSUME NEW item \in WorkItem, FailItem(item) PROVE FALSE
  BY <1>2, <1>9 DEF FailItem, HandleResult
<1> QED
  BY <1>4, <1>5, <1>6, <1>7, <1>8, <1>9, LaterSteps DEF Next

\* The invariant of ExactlyNeededLoaded.
NeededInv ==
    /\ LoadTypeOK /\ TakenInv /\ PendingInv /\ PhaseInv /\ UnreadableInv
    /\ input \in LinkInput /\ File \ Optional \subseteq taken
    /\ \A S \in SUBSET File : Closed(S) => ReachedInv(S)

\* The work item a reference is in.
LEMMA ItemOf ==
    ASSUME NEW f \in File, NEW n \in Name, Refers(f, n)
    PROVE  \E item \in WorkItem : item[1] = f /\ n \in ItemNames(item)
<1>1. PICK c \in Chunk : c = IF f = Prelude THEN 1 ELSE ChunkOf[n]
  BY FilesAssumption DEF Chunk
<1>2. <<f, c>> \in WorkItem /\ n \in ItemNames(<<f, c>>)
  BY <1>1 DEF WorkItem, ItemNames
<1> QED
  BY <1>2

LEMMA NeededInit == Init => NeededInv
<1> SUFFICES ASSUME Init PROVE NeededInv
  OBVIOUS
<1>1. LoadTypeOK /\ TakenInv /\ PhaseInv
  BY ItemNamesType DEF Init, LoadTypeOK, TakenInv, PhaseInv
<1>2. PendingInv /\ UnreadableInv
  BY DEF Init, PendingInv, UnreadableInv, WorkItem
<1>3. input \in LinkInput /\ File \ Optional \subseteq taken
  BY LinkAssumption DEF Init
<1>4. ASSUME NEW S \in SUBSET File, Closed(S) PROVE ReachedInv(S)
  BY <1>4, FilesAssumption DEF Init, ReachedInv, Closed, WorkItem
<1> QED
  BY <1>1, <1>2, <1>3, <1>4 DEF NeededInv

LEMMA NeededStep == NeededInv /\ [Next]_vars => NeededInv'
<1> SUFFICES ASSUME NeededInv, [Next]_vars PROVE NeededInv'
  OBVIOUS
<1>1. input' = input
  BY InputFixed
<1>2. (LoadTypeOK /\ TakenInv /\ PendingInv /\ PhaseInv /\ UnreadableInv)'
  BY LoadInductive, PendingInductive, PhaseInductive, UnreadableInductive DEF NeededInv
<1>3. (File \ Optional \subseteq taken)'
  <2>1. taken \subseteq taken'
    <3>1. CASE UNCHANGED vars \/ FinishResolution
      BY <3>1 DEF vars, FinishResolution
    <3>2. ASSUME NEW item \in WorkItem,
                 \/ \E n \in Name : ResolveSymbol(item, n)
                 \/ TakeFile(item) \/ LoseRace(item) \/ FailItem(item)
          PROVE  taken \subseteq taken'
      BY <3>2 DEF ResolveSymbol, TakeFile, LoseRace, FailItem
    <3> QED
      BY <3>1, <3>2, LaterSteps DEF Next
  <2> QED
    BY <1>1, <2>1 DEF NeededInv, Optional
<1>4. ASSUME NEW S \in SUBSET File, Closed(S)' PROVE ReachedInv(S)'
  <2>1. Closed(S)
    BY <1>1, <1>4, ClosedFixed
  <2> QED
    BY <2>1, ReachedInductive DEF NeededInv
<1> QED
  BY <1>1, <1>2, <1>3, <1>4 DEF NeededInv

LEMMA NeededImplies == NeededInv => ExactlyNeededLoaded
<1> SUFFICES ASSUME NeededInv PROVE ExactlyNeededLoaded
  OBVIOUS
<1>1. Loaded = taken \cap File
  BY DEF NeededInv, Loaded, TakenInv
<1>2. ASSUME phase \notin {"resolve", "failed"} PROVE Closed(Loaded)
  <2>1. File \ Optional \subseteq Loaded
    BY <1>1 DEF NeededInv
  <2>2. ASSUME NEW f \in Loaded, NEW g \in Needs(f) PROVE g \in Loaded
    <3>1. f \in File /\ f \in taken /\ g \in File
      BY <1>1, <2>2 DEF Needs
    <3>2. PICK n \in Name : Wants(f, n, g)
      BY <2>2 DEF Needs, Wants
    <3>3. PICK item \in WorkItem : item[1] = f /\ n \in ItemNames(item)
      BY <3>1, <3>2, ItemOf DEF Wants
    <3>4. todo[item] = {} /\ asking[item] # g /\ errors = {}
      BY <1>2, <3>1, FilesAssumption DEF NeededInv, PhaseInv
    <3> QED
      BY <1>1, <3>1, <3>2, <3>3, <3>4 DEF NeededInv, PendingInv
  <2> QED
    BY <2>1, <2>2 DEF Closed
<1>3. ASSUME NEW extra \in (SUBSET (Loaded \cap Optional)) \ {{}}, Closed(Loaded \ extra)
      PROVE  FALSE
  <2>1. Loaded \ extra \in SUBSET File
    BY DEF Loaded
  <2>2. ReachedInv(Loaded \ extra)
    BY <1>3, <2>1 DEF NeededInv
  <2>3. Loaded \subseteq Loaded \ extra
    BY <1>1, <2>2 DEF ReachedInv
  <2> QED
    BY <1>3, <2>3
<1>4. ASSUME phase = "done", NEW s \in Unreadable, s[1] \in Loaded PROVE ~Refers(s[1], s[2])
  <2>1. SUFFICES ASSUME Refers(s[1], s[2]) PROVE FALSE
    OBVIOUS
  <2>2. s \in File \X Name
    BY DEF NeededInv, LinkInput, Unreadable
  <2>3. PICK item \in WorkItem : item[1] = s[1] /\ s[2] \in ItemNames(item)
    BY <2>1, <2>2, ItemOf
  <2>4. errors = {} /\ todo[item] = {}
    BY <1>4 DEF NeededInv, PhaseInv
  <2> QED
    BY <1>1, <1>4, <2>2, <2>3, <2>4 DEF NeededInv, UnreadableInv
<1> QED
  BY <1>2, <1>3, <1>4 DEF ExactlyNeededLoaded

\* However the tasks race for files and whatever they fail on, exactly the archive members and
\* shared objects that chains of strong references lead to are loaded, and no link succeeds
\* that met a symbol it could not read (try_request_file_id, resolve_symbols, handle_result).
THEOREM ExactlyNeeded == Spec => []ExactlyNeededLoaded
<1>1. NeededInv => ExactlyNeededLoaded
  BY NeededImplies
<1> QED
  BY <1>1, NeededInit, NeededStep, PTL DEF Spec

-----------------------------------------------------------------------------
(* Which definition the selector chooses *)

LEMMA Induction ==
    ASSUME NEW S, 0 \in S, \A k \in Nat : k \in S => k + 1 \in S
    PROVE  Nat \subseteq S
<1> DEFINE T == Nat \ S
           R == OpToRel(<, Nat)
<1> SUFFICES ASSUME T # {} PROVE FALSE
  OBVIOUS
<1>1. IsWellFoundedOn(R, Nat)
  BY NatLessThanWellFounded
<1>2. T \subseteq Nat
  OBVIOUS
<1>3. R = {p \in Nat \X Nat : p[1] < p[2]}
  BY DEF OpToRel
<1> HIDE DEF T, R
<1>4. PICK k \in T : \A j \in T : <<j, k>> \notin R
  BY <1>1, <1>2, WFMin
<1>5. k \in Nat /\ k \notin S /\ k # 0
  BY DEF T
<1>6. k - 1 \in S
  <2>1. k - 1 \in Nat /\ k - 1 < k
    BY <1>5
  <2>2. <<k - 1, k>> \in R
    BY <1>3, <1>5, <2>1
  <2> QED
    BY <1>4, <2>1, <2>2 DEF T
<1> QED
  BY <1>5, <1>6

LEMMA MinProperties ==
    ASSUME NEW S \in SUBSET Nat, S # {}
    PROVE  Min(S) \in S /\ \A k \in S : Min(S) <= k
<1> DEFINE R == OpToRel(<, Nat)
<1>1. R = {p \in Nat \X Nat : p[1] < p[2]}
  BY DEF OpToRel
<1>2. IsWellFoundedOn(R, Nat)
  BY NatLessThanWellFounded
<1> HIDE DEF R
<1>3. PICK m \in S : \A k \in S : <<k, m>> \notin R
  BY <1>2, WFMin
<1>4. ASSUME NEW k \in S PROVE m <= k
  <2>1. k \in Nat /\ m \in Nat /\ (k < m => <<k, m>> \in R)
    BY <1>1
  <2> QED
    BY <1>3, <2>1
<1> QED
  BY <1>3, <1>4 DEF Min

LEMMA FilesAreNumbers ==
    /\ NumFiles \in Nat \ {0} /\ File \subseteq Nat /\ None \notin File
    /\ Synthetic \notin File /\ Prelude \in File
BY FilesAssumption DEF File, Synthetic, Prelude

\* The first file of a set, or None.
IsFirstOf(f, S) == IF S = {} THEN f = None ELSE f \in S /\ \A g \in S : f <= g

LEMMA FirstIsMin ==
    ASSUME NEW S \in SUBSET File, NEW f
    PROVE  IsFirstOf(f, S) <=> f = IF S = {} THEN None ELSE Min(S)
<1>1. S \subseteq Nat
  BY FilesAreNumbers
<1>2. CASE S = {}
  BY <1>2 DEF IsFirstOf
<1>3. CASE S # {}
  <2>1. Min(S) \in S /\ \A k \in S : Min(S) <= k
    BY <1>1, <1>3, MinProperties
  <2>2. ASSUME f \in S, \A g \in S : f <= g PROVE f = Min(S)
    <3>1. f <= Min(S) /\ Min(S) <= f /\ f \in Nat /\ Min(S) \in Nat
      BY <1>1, <2>1, <2>2
    <3> QED
      BY <3>1
  <2> QED
    BY <1>3, <2>1, <2>2 DEF IsFirstOf
<1> QED
  BY <1>2, <1>3

\* The definitions of name n in the files of S of one of the kinds.
OfKind(n, S, kinds) == {f \in S : Sym[f][n].kind \in kinds}

\* What the selector holds after it has considered the files of S.
Chosen(n, S, r) ==
    /\ r = [strong |-> r.strong, common |-> r.common, weak |-> r.weak]
    /\ IsFirstOf(r.strong, OfKind(n, S, {"Strong", "Comdat"}))
    /\ IsFirstOf(r.common, Largest(n, OfKind(n, S, {"Common"})))
    /\ IsFirstOf(r.weak, OfKind(n, S, {"Weak", "GnuUnique"}))
    /\ Largest(n, OfKind(n, S, {"Common"})) = {} => OfKind(n, S, {"Common"}) = {}

\* One file more, after the others.
LEMMA FirstOfMore ==
    ASSUME NEW S \in SUBSET File, NEW f \in File, \A g \in S : g < f, NEW best, IsFirstOf(best, S)
    PROVE  IsFirstOf(IF best = None THEN f ELSE best, S \cup {f})
<1>1. S \subseteq Nat /\ f \in Nat /\ None \notin S
  BY FilesAreNumbers
<1>2. CASE S = {}
  BY <1>1, <1>2 DEF IsFirstOf
<1>3. CASE S # {}
  <2>1. best \in S /\ best # None /\ \A g \in S : best <= g
    BY <1>1, <1>3 DEF IsFirstOf
  <2>2. best \in Nat /\ best < f
    BY <1>1, <2>1
  <2>3. \A g \in S \cup {f} : best <= g
    BY <1>1, <2>1, <2>2
  <2> QED
    BY <2>1, <2>3 DEF IsFirstOf
<1> QED
  BY <1>2, <1>3

LEMMA LargestOfMore ==
    ASSUME NEW n, NEW S \in SUBSET File, NEW f \in File, \A g \in S : g < f, NEW best,
           \A g \in S \cup {f} : Sym[g][n].size \in Nat,
           IsFirstOf(best, Largest(n, S)), Largest(n, S) = {} => S = {}
    PROVE  /\ IsFirstOf(IF best = None \/ (best # None /\ Sym[f][n].size > Sym[best][n].size)
                          THEN f ELSE best, Largest(n, S \cup {f}))
           /\ Largest(n, S \cup {f}) # {}
<1>1. S \subseteq Nat /\ f \in Nat /\ None \notin S
  BY FilesAreNumbers
<1>2. CASE S = {}
  <2>1. Largest(n, S) = {} /\ Largest(n, S \cup {f}) = {f}
    BY <1>2 DEF Largest
  <2> QED
    BY <1>1, <2>1 DEF IsFirstOf
<1>3. CASE S # {}
  <2>1. /\ best \in S /\ best # None
        /\ \A g \in S : Sym[g][n].size <= Sym[best][n].size
        /\ \A g \in Largest(n, S) : best <= g
    BY <1>1, <1>3 DEF IsFirstOf, Largest
  <2>2. CASE Sym[f][n].size > Sym[best][n].size
    <3>1. ASSUME NEW g \in S PROVE Sym[g][n].size < Sym[f][n].size
      <4>1. /\ Sym[g][n].size \in Nat /\ Sym[best][n].size \in Nat /\ Sym[f][n].size \in Nat
            /\ Sym[g][n].size <= Sym[best][n].size
        BY <2>1
      <4> QED
        BY <2>2, <4>1
    <3>2. f \in Largest(n, S \cup {f})
      <4>1. Sym[f][n].size \in Nat
        OBVIOUS
      <4>2. ASSUME NEW g \in S \cup {f} PROVE Sym[g][n].size <= Sym[f][n].size
        <5>1. Sym[g][n].size \in Nat
          OBVIOUS
        <5> QED
          BY <3>1, <4>1, <5>1
      <4> QED
        BY <4>2 DEF Largest
    <3>3. ASSUME NEW g \in Largest(n, S \cup {f}) PROVE g = f
      <4>1. g \in S \cup {f} /\ Sym[f][n].size <= Sym[g][n].size
        BY <3>3 DEF Largest
      <4>2. Sym[g][n].size \in Nat /\ Sym[f][n].size \in Nat
        BY <4>1
      <4> QED
        BY <3>1, <4>1, <4>2
    <3>4. Largest(n, S \cup {f}) = {f}
      BY <3>2, <3>3
    <3> QED
      BY <1>1, <2>1, <2>2, <3>4 DEF IsFirstOf
  <2>3. CASE ~(Sym[f][n].size > Sym[best][n].size)
    <3>1. best \in Largest(n, S \cup {f})
      BY <1>1, <2>1, <2>3 DEF Largest
    <3>2. ASSUME NEW g \in Largest(n, S \cup {f}) PROVE best <= g
      <4>1. g = f \/ g \in Largest(n, S)
        BY <3>2 DEF Largest
      <4> QED
        BY <1>1, <2>1, <4>1
    <3> QED
      BY <2>1, <2>3, <3>1, <3>2 DEF IsFirstOf
  <2> QED
    BY <2>2, <2>3
<1> QED
  BY <1>2, <1>3

LEMMA ConsiderChooses ==
    ASSUME NEW n, NEW S \in SUBSET File, NEW f \in File, \A g \in S : g < f,
           \A g \in S \cup {f} : Sym[g][n].size \in Nat, Defines(f, n),
           NEW r, Chosen(n, S, r)
    PROVE  Chosen(n, S \cup {f}, Consider(Sym, n, r, f))
<1> DEFINE strong == OfKind(n, S, {"Strong", "Comdat"})
           common == OfKind(n, S, {"Common"})
           weak == OfKind(n, S, {"Weak", "GnuUnique"})
           kind == Sym[f][n].kind
           next == Consider(Sym, n, r, f)
<1>1. /\ strong \in SUBSET File /\ common \in SUBSET File /\ weak \in SUBSET File
      /\ \A g \in strong \cup common \cup weak : g < f
      /\ \A g \in common \cup {f} : Sym[g][n].size \in Nat
  BY DEF OfKind
<1>2. /\ OfKind(n, S \cup {f}, {"Strong", "Comdat"})
            = IF kind \in {"Strong", "Comdat"} THEN strong \cup {f} ELSE strong
      /\ OfKind(n, S \cup {f}, {"Common"}) = IF kind = "Common" THEN common \cup {f} ELSE common
      /\ OfKind(n, S \cup {f}, {"Weak", "GnuUnique"})
            = IF kind \in {"Weak", "GnuUnique"} THEN weak \cup {f} ELSE weak
  BY DEF OfKind
<1>3. /\ r = [strong |-> r.strong, common |-> r.common, weak |-> r.weak]
      /\ IsFirstOf(r.strong, strong) /\ IsFirstOf(r.common, Largest(n, common))
      /\ IsFirstOf(r.weak, weak) /\ (Largest(n, common) = {} => common = {})
  BY DEF Chosen
<1>4. kind \in {"Weak", "GnuUnique", "Common", "Strong", "Comdat"}
  BY DEF Defines, Defining
<1> HIDE DEF strong, common, weak
<1>5. CASE kind \in {"Strong", "Comdat"}
  <2>1. next = [strong |-> IF r.strong = None THEN f ELSE r.strong,
                common |-> r.common, weak |-> r.weak]
    BY <1>3, <1>5 DEF Consider
  <2>2. IsFirstOf(IF r.strong = None THEN f ELSE r.strong, strong \cup {f})
    BY <1>1, <1>3, FirstOfMore
  <2> HIDE DEF next
  <2>3. Chosen(n, S \cup {f}, next)
    <3>1. /\ next = [strong |-> next.strong, common |-> next.common, weak |-> next.weak]
          /\ next.strong = IF r.strong = None THEN f ELSE r.strong
          /\ next.common = r.common /\ next.weak = r.weak
      BY <2>1
    <3> HIDE DEF next
    <3> QED
      BY <1>2, <1>3, <1>5, <2>2, <3>1 DEF Chosen
  <2> QED
    BY <2>3 DEF next
<1>6. CASE kind \in {"Weak", "GnuUnique"}
  <2>1. next = [strong |-> r.strong, common |-> r.common,
                weak |-> IF r.weak = None THEN f ELSE r.weak]
    BY <1>3, <1>6 DEF Consider
  <2>2. IsFirstOf(IF r.weak = None THEN f ELSE r.weak, weak \cup {f})
    BY <1>1, <1>3, FirstOfMore
  <2> HIDE DEF next
  <2>3. Chosen(n, S \cup {f}, next)
    <3>1. /\ next = [strong |-> next.strong, common |-> next.common, weak |-> next.weak]
          /\ next.weak = IF r.weak = None THEN f ELSE r.weak
          /\ next.common = r.common /\ next.strong = r.strong
      BY <2>1
    <3> HIDE DEF next
    <3> QED
      BY <1>2, <1>3, <1>6, <2>2, <3>1 DEF Chosen
  <2> QED
    BY <2>3 DEF next
<1>7. CASE kind = "Common"
  <2> DEFINE new == IF r.common = None \/ (r.common # None
                            /\ Sym[f][n].size > Sym[r.common][n].size) THEN f ELSE r.common
  <2>1. next = [strong |-> r.strong, common |-> new, weak |-> r.weak]
    BY <1>3, <1>7 DEF Consider
  <2>2. IsFirstOf(new, Largest(n, common \cup {f})) /\ Largest(n, common \cup {f}) # {}
    BY <1>1, <1>3, LargestOfMore
  <2> HIDE DEF next, new
  <2>3. Chosen(n, S \cup {f}, next)
    <3>1. /\ next = [strong |-> next.strong, common |-> next.common, weak |-> next.weak]
          /\ next.common = new
          /\ next.strong = r.strong /\ next.weak = r.weak
      BY <2>1
    <3> HIDE DEF next
    <3> QED
      BY <1>2, <1>3, <1>7, <2>2, <3>1 DEF Chosen
  <2> QED
    BY <2>3 DEF next
<1> QED
  BY <1>4, <1>5, <1>6, <1>7

LEMMA SelectorChooses ==
    ASSUME NEW n, NEW S \in SUBSET Bucket(n), \A g \in S : Sym[g][n].size \in Nat
    PROVE  Chosen(n, S, Selector(Sym, n, S))
<1> DEFINE I == 0 .. NumFiles
           start == [strong |-> None, common |-> None, weak |-> None]
           Next1(f, k) == IF k - 1 \in S THEN Consider(Sym, n, f[k - 1], k - 1) ELSE f[k - 1]
           Rec(f) == [k \in I |-> IF k = 0 THEN start ELSE Next1(f, k)]
           Good(f, k) == \A i \in I : i <= k => f[i] = IF i = 0 THEN start ELSE Next1(f, i)
           Solved == {k \in Nat : \E f : Good(f, k)}
           after == CHOOSE f : f = Rec(f)
           Before(k) == {f \in S : f < k}
<1>1. /\ NumFiles \in Nat /\ File = 0 .. (NumFiles - 1) /\ S \subseteq File
      /\ \A f \in S : f \in Nat /\ 0 <= f /\ f < NumFiles
  <2>1. NumFiles \in Nat /\ File = 0 .. (NumFiles - 1) /\ S \subseteq File
    BY FilesAreNumbers DEF File, Bucket
  <2>2. ASSUME NEW f \in S PROVE f \in Nat /\ 0 <= f /\ f < NumFiles
    <3>1. f \in 0 .. (NumFiles - 1)
      BY <2>1
    <3> QED
      BY <2>1, <3>1
  <2> QED
    BY <2>1, <2>2
<1>2. Nat \subseteq Solved
  <2>1. 0 \in Solved
    <3>1. Good([i \in I |-> start], 0)
      BY <1>1
    <3> QED
      BY <3>1
  <2>2. ASSUME NEW k \in Nat, k \in Solved PROVE k + 1 \in Solved
    <3>1. PICK f : Good(f, k)
      BY <2>2
    <3> DEFINE g == Rec(f)
    <3>2. \A i \in I : i # 0 => i - 1 \in I
      BY <1>1
    <3>3. \A i \in I : i <= k => g[i] = f[i]
      BY <3>1
    <3>4. \A i \in I : i <= k + 1 => g[i] = IF i = 0 THEN start ELSE Next1(f, i)
      OBVIOUS
    <3>5. \A i \in I : i <= k + 1 /\ i # 0 => g[i - 1] = f[i - 1]
      <4> HIDE DEF g, Good
      <4> QED
        BY <1>1, <3>2, <3>3
    <3> HIDE DEF g
    <3>6. Good(g, k + 1)
      BY <3>4, <3>5
    <3> HIDE DEF Good
    <3> QED
      BY <3>6
  <2> HIDE DEF Solved
  <2> QED
    BY <2>1, <2>2, Induction
<1>3. PICK f : Good(f, NumFiles)
  BY <1>1, <1>2
<1>4. Rec(f) = Rec(Rec(f))
  <2> DEFINE g == Rec(f)
  <2>1. \A i \in I : g[i] = f[i]
    BY <1>1, <1>3
  <2>2. \A i \in I : i # 0 => i - 1 \in I
    BY <1>1
  <2>3. \A i \in I : i # 0 => g[i - 1] = f[i - 1]
    <3> HIDE DEF g
    <3> QED
      BY <2>1, <2>2
  <2> HIDE DEF g
  <2>4. Rec(g) = Rec(f)
    BY <2>3
  <2> QED
    BY <2>4 DEF g
<1>5. after = Rec(after)
  <2> DEFINE g == Rec(f)
  <2>1. g = Rec(g)
    BY <1>4
  <2> HIDE DEF g
  <2> QED
    BY <2>1
<1>6. Selector(Sym, n, S) = after[NumFiles]
  BY DEF Selector
<1> HIDE DEF after
<1>7. /\ after[0] = start
      /\ \A k \in I : k # 0 => after[k] = Next1(after, k)
  BY <1>1, <1>5
<1> DEFINE N == {k \in Nat : k <= NumFiles => Chosen(n, Before(k), after[k])}
<1>8. 0 \in N
  <2>1. Before(0) = {}
    <3>1. \A g \in S : ~(g < 0)
      BY <1>1
    <3> QED
      BY <3>1
  <2>2. Chosen(n, {}, start)
    BY DEF Chosen, OfKind, Largest, IsFirstOf
  <2> QED
    BY <1>7, <2>1, <2>2
<1>9. ASSUME NEW k \in Nat, k \in N PROVE k + 1 \in N
  <2>1. SUFFICES ASSUME k + 1 <= NumFiles PROVE Chosen(n, Before(k + 1), after[k + 1])
    OBVIOUS
  <2>2. Chosen(n, Before(k), after[k]) /\ k + 1 \in I /\ k \in File /\ (k + 1) - 1 = k
    BY <1>1, <1>9, <2>1
  <2>3. after[k + 1] = IF k \in S THEN Consider(Sym, n, after[k], k) ELSE after[k]
    BY <1>7, <2>2
  <2>4. Before(k + 1) = IF k \in S THEN Before(k) \cup {k} ELSE Before(k)
    <3>1. \A g \in S : g < k + 1 <=> g < k \/ g = k
      BY <1>1, <1>9
    <3> QED
      BY <1>9, <3>1
  <2>5. CASE k \in S
    <3>1. /\ Before(k) \in SUBSET File /\ \A g \in Before(k) : g < k
          /\ \A g \in Before(k) \cup {k} : Sym[g][n].size \in Nat
          /\ Defines(k, n)
      BY <1>1, <2>5 DEF Bucket
    <3> HIDE DEF Before
    <3>2. Chosen(n, Before(k) \cup {k}, Consider(Sym, n, after[k], k))
      BY <2>2, <3>1, ConsiderChooses
    <3> QED
      BY <2>3, <2>4, <2>5, <3>2
  <2>6. CASE k \notin S
    BY <2>2, <2>3, <2>4, <2>6
  <2> QED
    BY <2>5, <2>6
<1>10. NumFiles \in N
  <2> HIDE DEF N
  <2> QED
    BY <1>1, <1>8, <1>9, Induction
<1>11. Before(NumFiles) = S
  BY <1>1
<1>12. Chosen(n, Before(NumFiles), after[NumFiles])
  <2>1. NumFiles <= NumFiles
    BY <1>1
  <2> QED
    BY <1>10, <2>1
<1> HIDE DEF Before
<1> QED
  BY <1>6, <1>11, <1>12

-----------------------------------------------------------------------------
(* What names mean in the end *)

\* The definitions among which one is selected, and the one that is: with the flags as they are
\* these are Ranked and SelectSymbol.
Available(n) == (Bucket(n) \cap Loaded) \ Dynamic

Selected(n) ==
    LET best == Best(Selector(Sym, n, Available(n)))
        rest == Bucket(n) \cap Loaded
    IN  IF best # None THEN best ELSE IF rest # {} THEN Min(rest) ELSE First(n)

SymbolsOK ==
    /\ definition = [s \in SymbolId |-> definition[s]]
    /\ flags = [s \in SymbolId |-> flags[s]]
    /\ nameToId = [n \in Name |-> nameToId[n]]

\* Of the definitions those of shared objects, and no others, are dynamic.
FlagsInv ==
    \A f \in File, n \in Name :
        Defines(f, n) => ("DYNAMIC" \in flags[<<f, n>>] <=> f \in Dynamic)

\* Definitions stand for themselves until the alternatives of their name are resolved, then for
\* the one that was selected.
DefinitionInv ==
    phase # "failed" =>
        \A f \in File, n \in Name :
            Defines(f, n) /\ n \notin duplicates =>
                definition[<<f, n>>] =
                    IF phase = "resolve" \/ n \in altTodo THEN <<f, n>> ELSE <<Selected(n), n>>

\* Two strong definitions of the name are loaded, not both in section groups.
Ambiguous(n) ==
    \E f, g \in Loaders(n, {"Strong", "Comdat"}) :
        f # g /\ "Strong" \in {Sym[f][n].kind, Sym[g][n].kind}

DuplicateInv ==
    /\ phase = "resolve" => altTodo = {} /\ duplicates = {}
    /\ phase = "alternatives" =>
          \A n \in Name : /\ Ambiguous(n) => n \in altTodo \cup duplicates
                          /\ n \in altTodo => Bucket(n) # {}
    /\ phase \in {"canonicalise", "done"} =>
          altTodo = {} /\ duplicates = {} /\ \A n \in Name : ~Ambiguous(n)

\* A reference nothing was found for is still undefined when the files are loaded.
UnfoundInv ==
    phase = "resolve" =>
        \A f \in File, n \in Name :
            Refers(f, n) /\ Target(f, n) = None => definition[<<f, n>>] = None

\* A reference was looked up before it was known what is loaded; if it may be undefined there is
\* a record of it until it was replaced by the symbol for undefined references to its name.
LookedUp(f, n) ==
    LET target == Target(f, n)
    IN  /\ target # None /\ Sym[f][n].vis = "Hidden" =>
              "DOWNGRADE_TO_LOCAL" \in flags[<<target, n>>]
        /\ \/ /\ UndefinedRecord(f, n) \subseteq undefined
              /\ definition[<<f, n>>] = IF target = None THEN None ELSE <<target, n>>
           \/ /\ phase \in {"canonicalise", "done"}
              /\ UndefinedRecord(f, n) # {} /\ UndefinedRecord(f, n) \cap undefined = {}
              /\ IF target # None /\ target \in Loaded
                   THEN definition[<<f, n>>] = <<target, n>>
                   ELSE nameToId[n] # None /\ definition[<<f, n>>] = nameToId[n]

LookupInv ==
    phase # "failed" /\ errors = {} =>
        \A item \in WorkItem : \A n \in ItemNames(item) :
            item[1] \in taken => n \in todo[item] \/ LookedUp(item[1], n)

\* The records are those of references of loaded files.
RecordInv ==
    /\ \A u \in undefined :
          \E f \in File, n \in Name : Refers(f, n) /\ f \in taken /\ u \in UndefinedRecord(f, n)
    /\ phase = "done" => undefined = {}

\* The symbol that stands for the undefined references to a name stands for itself.
CanonicalInv ==
    /\ phase \in {"resolve", "alternatives"} => \A n \in Name : nameToId[n] = None
    /\ \A n \in Name : nameToId[n] # None =>
          /\ definition[nameToId[n]] = nameToId[n]
          /\ \/ nameToId[n] = <<Synthetic, n>>
             \/ \E f \in File : /\ nameToId[n] = <<f, n>> /\ Refers(f, n) /\ f \in taken
                                /\ UndefinedRecord(f, n) \cap undefined = {}

\* The invariant of DefinitionsSelected.
SelectionInv ==
    /\ NeededInv /\ SymbolsOK
    /\ FlagsInv /\ DefinitionInv /\ DuplicateInv
    /\ UnfoundInv /\ LookupInv /\ RecordInv /\ CanonicalInv

-----------------------------------------------------------------------------
(* Facts about symbols, lookups and records *)

LEMMA EntryFacts ==
    ASSUME input \in LinkInput, NEW f \in File, NEW n \in Name
    PROVE  Sym[f][n].size \in Nat /\ Sym[f][n].vis \in Visibility
BY DEF LinkInput, Entry, Sym

LEMMA ReferencesDefineNothing ==
    ASSUME NEW f, NEW n, Refers(f, n)
    PROVE  ~Defines(f, n)
BY DEF Refers, Defines, Defining

LEMMA SymbolsApart ==
    /\ None \notin SymbolId
    /\ \A f \in File, n \in Name : <<f, n>> \in SymbolId
    /\ \A n \in Name : <<Synthetic, n>> \in SymbolId
BY FilesAssumption DEF SymbolId

\* What the selector calls best.
LEMMA BestChosen ==
    ASSUME input \in LinkInput, NEW n \in Name, NEW S \in SUBSET Bucket(n)
    PROVE  LET best == Best(Selector(Sym, n, S))
               strong == OfKind(n, S, {"Strong", "Comdat"})
               common == OfKind(n, S, {"Common"})
               weak == OfKind(n, S, {"Weak", "GnuUnique"})
           IN  /\ strong # {} => best = Min(strong)
               /\ strong = {} /\ common # {} => best = Min(Largest(n, common))
               /\ strong = {} /\ common = {} /\ weak # {} => best = Min(weak)
               /\ best = None <=> S = {}
               /\ best # None => best \in S
<1> DEFINE r == Selector(Sym, n, S)
           strong == OfKind(n, S, {"Strong", "Comdat"})
           common == OfKind(n, S, {"Common"})
           weak == OfKind(n, S, {"Weak", "GnuUnique"})
<1>1. S \subseteq File /\ \A g \in S : g \in Nat /\ Sym[g][n].size \in Nat /\ Defines(g, n)
  BY EntryFacts, FilesAreNumbers DEF Bucket
<1>2. Chosen(n, S, r)
  BY <1>1, SelectorChooses
<1>3. /\ IsFirstOf(r.strong, strong) /\ IsFirstOf(r.weak, weak)
      /\ IsFirstOf(r.common, Largest(n, common)) /\ (Largest(n, common) = {} => common = {})
  <2> HIDE DEF r
  <2> QED
    BY <1>2 DEF Chosen
<1>4. /\ strong \in SUBSET File /\ weak \in SUBSET File /\ Largest(n, common) \in SUBSET File
      /\ strong \subseteq S /\ weak \subseteq S /\ common \subseteq S
      /\ Largest(n, common) \subseteq common
  BY <1>1 DEF OfKind, Largest
<1>5. S = {} <=> strong = {} /\ common = {} /\ weak = {}
  BY <1>1 DEF OfKind, Defines, Defining
<1> HIDE DEF r, strong, common, weak
<1>6. /\ r.strong = IF strong = {} THEN None ELSE Min(strong)
      /\ r.weak = IF weak = {} THEN None ELSE Min(weak)
      /\ r.common = IF Largest(n, common) = {} THEN None ELSE Min(Largest(n, common))
  BY <1>3, <1>4, FirstIsMin
<1>7. None \notin S
  BY <1>1, FilesAreNumbers
<1>8. /\ strong = {} => r.strong = None
      /\ strong # {} => r.strong \in strong /\ r.strong # None
      /\ weak = {} => r.weak = None
      /\ weak # {} => r.weak \in weak /\ r.weak # None
      /\ common = {} => r.common = None
      /\ common # {} => r.common \in common /\ r.common # None
  BY <1>3, <1>4, <1>7 DEF IsFirstOf
<1>9. Best(r) = IF strong # {} THEN r.strong ELSE IF common # {} THEN r.common ELSE r.weak
  BY <1>8 DEF Best
<1>10. /\ strong # {} => Best(r) = Min(strong)
       /\ strong = {} /\ common # {} => Best(r) = Min(Largest(n, common))
       /\ strong = {} /\ common = {} /\ weak # {} => Best(r) = Min(weak)
  BY <1>3, <1>6, <1>9
<1>11. (Best(r) = None <=> S = {}) /\ (Best(r) # None => Best(r) \in S)
  BY <1>4, <1>5, <1>8, <1>9
<1> QED
  BY <1>10, <1>11 DEF r, strong, common, weak

LEMMA FirstDefines ==
    ASSUME NEW n, Bucket(n) # {}
    PROVE  First(n) \in Bucket(n)
<1>1. Bucket(n) \in SUBSET Nat
  BY FilesAreNumbers DEF Bucket
<1> QED
  BY <1>1, MinProperties DEF First

\* What a lookup finds, and what it means that it finds nothing.
LEMMA TargetDefines ==
    ASSUME input \in LinkInput, NEW f \in File, NEW n \in Name
    PROVE  /\ Target(f, n) # None => Target(f, n) \in Bucket(n)
           /\ Target(f, n) # None /\ Sym[f][n].vis # "Default" => Target(f, n) \notin Dynamic
           /\ Target(f, n) = None =>
                 \/ Bucket(n) = {}
                 \/ Sym[f][n].vis # "Default" /\ Bucket(n) \ Dynamic = {}
<1>1. CASE Bucket(n) = {}
  BY <1>1 DEF Target, Get
<1>2. CASE Bucket(n) # {} /\ (Sym[f][n].vis = "Default" \/ First(n) \notin Dynamic)
  <2>1. Target(f, n) = First(n)
    BY <1>2 DEF Target, Get
  <2>2. First(n) \in Bucket(n) /\ First(n) # None
    BY <1>2, FirstDefines, FilesAreNumbers DEF Bucket
  <2> QED
    BY <1>2, <2>1, <2>2
<1>3. CASE Bucket(n) # {} /\ Sym[f][n].vis # "Default" /\ First(n) \in Dynamic
  <2>1. Target(f, n) = Best(Selector(Sym, n, Bucket(n) \ Dynamic))
    BY <1>3 DEF Target, Get, GetNonDynamic
  <2>2. /\ Target(f, n) = None <=> Bucket(n) \ Dynamic = {}
        /\ Target(f, n) # None => Target(f, n) \in Bucket(n) \ Dynamic
    BY <2>1, BestChosen
  <2> QED
    BY <1>3, <2>2
<1> QED
  BY <1>1, <1>2, <1>3

LEMMA SelectedDefines ==
    ASSUME input \in LinkInput, NEW n \in Name, Bucket(n) # {}
    PROVE  Selected(n) \in Bucket(n)
<1>1. Available(n) \in SUBSET Bucket(n)
  BY DEF Available
<1> DEFINE best == Best(Selector(Sym, n, Available(n)))
           rest == Bucket(n) \cap Loaded
<1>2. best # None => best \in Bucket(n)
  BY <1>1, BestChosen
<1>3. rest # {} => Min(rest) \in Bucket(n)
  <2>1. rest \in SUBSET Nat
    BY FilesAreNumbers DEF Bucket
  <2> QED
    BY <2>1, MinProperties
<1> QED
  BY <1>2, <1>3, FirstDefines DEF Selected

LEMMA SelectedFixed ==
    ASSUME input' = input, Loaded' = Loaded, NEW n
    PROVE  Selected(n)' = Selected(n) /\ Available(n)' = Available(n)
<1>1. /\ Bucket(n)' = Bucket(n) /\ First(n)' = First(n) /\ Sym' = Sym
      /\ Dynamic' = Dynamic
  BY WantsFixed DEF Sym, Dynamic
<1>2. Available(n)' = Available(n)
  BY <1>1 DEF Available
<1> QED
  BY <1>1, <1>2 DEF Selected

LEMMA SelectSymbolSelects ==
    ASSUME FlagsInv, NEW n \in Name
    PROVE  Ranked(n) = Available(n) /\ SelectSymbol(n) = Selected(n)
<1>1. Ranked(n) = Available(n)
  BY DEF FlagsInv, Ranked, Available, Bucket
<1> QED
  BY <1>1 DEF SelectSymbol, Selected

LEMMA AmbiguousFixed ==
    ASSUME input' = input, Loaded' = Loaded, NEW n
    PROVE  Ambiguous(n)' <=> Ambiguous(n)
BY DEF Ambiguous, Loaders, Sym, Dynamic

LEMMA RecordShape ==
    ASSUME NEW f, NEW n, NEW u \in UndefinedRecord(f, n)
    PROVE  /\ u = [sym |-> <<f, n>>, ignore |-> Target(f, n)] /\ UndefinedRecord(f, n) = {u}
           /\ u.sym = <<f, n>> /\ u.ignore = Target(f, n) /\ f # Prelude
BY DEF UndefinedRecord

LEMMA RecordFixed ==
    ASSUME input' = input, NEW f, NEW n
    PROVE  UndefinedRecord(f, n)' = UndefinedRecord(f, n)
<1>1. Target(f, n)' = Target(f, n) /\ Sym' = Sym
  BY WantsFixed DEF Sym
<1> QED
  BY <1>1 DEF UndefinedRecord

LEMMA RecordsApart ==
    ASSUME NEW f, NEW n, NEW g, NEW m, <<f, n>> # <<g, m>>
    PROVE  UndefinedRecord(f, n) \cap UndefinedRecord(g, m) = {}
<1> SUFFICES ASSUME NEW u \in UndefinedRecord(f, n), u \in UndefinedRecord(g, m) PROVE FALSE
  OBVIOUS
<1> QED
  BY RecordShape

LEMMA FlagsAdded ==
    ASSUME NEW vis \in Visibility, NEW old
    PROVE  /\ "DYNAMIC" \notin VisibilityFlags(vis, old)
           /\ vis = "Hidden" => "DOWNGRADE_TO_LOCAL" \in VisibilityFlags(vis, old)
BY DEF VisibilityFlags, Visibility

LEMMA MergedIsVisibility ==
    ASSUME input \in LinkInput, NEW n \in Name, Bucket(n) # {}
    PROVE  MergedVisibility(n) \in Visibility
<1> DEFINE Merged(v) == /\ \E f \in Bucket(n) : Sym[f][n].vis = v
                        /\ \A f \in Bucket(n) : Strictness(Sym[f][n].vis) <= Strictness(v)
<1>1. \A f \in Bucket(n) : Sym[f][n].vis \in {"Default", "Protected", "Hidden"}
  BY EntryFacts DEF Bucket, Visibility
<1>2. /\ Strictness("Default") = 0 /\ Strictness("Protected") = 1 /\ Strictness("Hidden") = 2
  BY DEF Strictness
<1>3. \E v \in Visibility : Merged(v)
  <2>1. CASE \E f \in Bucket(n) : Sym[f][n].vis = "Hidden"
    <3>1. Merged("Hidden")
      BY <1>1, <1>2, <2>1
    <3> HIDE DEF Merged
    <3> QED
      BY <3>1 DEF Visibility
  <2>2. CASE /\ ~\E f \in Bucket(n) : Sym[f][n].vis = "Hidden"
             /\ \E f \in Bucket(n) : Sym[f][n].vis = "Protected"
    <3>1. Merged("Protected")
      BY <1>1, <1>2, <2>2
    <3> HIDE DEF Merged
    <3> QED
      BY <3>1 DEF Visibility
  <2>3. CASE \A f \in Bucket(n) : Sym[f][n].vis = "Default"
    <3>1. Merged("Default")
      BY <1>1, <1>2, <2>3
    <3> HIDE DEF Merged
    <3> QED
      BY <3>1 DEF Visibility
  <2> QED
    BY <1>1, <2>1, <2>2, <2>3
<1> QED
  BY <1>3 DEF MergedVisibility

-----------------------------------------------------------------------------
(* What the steps do to definitions, flags and records *)

\* The steps that leave these alone.
Quiet ==
    \/ UNCHANGED vars
    \/ \E item \in WorkItem : TakeFile(item) \/ LoseRace(item) \/ FailItem(item)
    \/ FinishResolution \/ FinishAlternatives \/ FinishCanonicalisation

LEMMA QuietSteps ==
    ASSUME Quiet
    PROVE  UNCHANGED <<definition, flags, undefined, nameToId, duplicates>>
BY DEF Quiet, vars, TakeFile, LoseRace, FailItem, FinishResolution, FinishAlternatives,
       FinishCanonicalisation

LEMMA EveryStep ==
    ASSUME [Next]_vars
    PROVE  \/ Quiet
           \/ \E item \in WorkItem, n \in Name : ResolveSymbol(item, n)
           \/ \E n \in Name : ProcessAlternatives(n)
           \/ \E u \in undefined : CanonicaliseUndefined(u)
BY DEF Next, Quiet

\* What is loaded is fixed once the first step is over, and files stay taken.
LEMMA LoadedFixed ==
    ASSUME NeededInv, [Next]_vars
    PROVE  /\ input' = input /\ taken \subseteq taken'
           /\ phase # "resolve" => /\ Loaded' = Loaded /\ UNCHANGED <<taken, todo, asking, errors>>
                                   /\ phase' # "resolve"
           /\ Loaded = taken \cap File
<1>1. input' = input
  BY InputFixed
<1>2. Loaded = taken \cap File
  BY DEF NeededInv, Loaded, TakenInv
<1>3. CASE UNCHANGED vars \/ FinishResolution
  BY <1>1, <1>2, <1>3 DEF vars, FinishResolution, Loaded
<1>4. ASSUME NEW item \in WorkItem,
             \/ \E n \in Name : ResolveSymbol(item, n)
             \/ TakeFile(item) \/ LoseRace(item) \/ FailItem(item)
      PROVE  phase = "resolve" /\ taken \subseteq taken'
  <2>1. todo[item] # {} \/ asking[item] # None
    BY <1>4 DEF ResolveSymbol, TakeFile, LoseRace, FailItem
  <2>2. taken \subseteq taken'
    BY <1>4 DEF ResolveSymbol, TakeFile, LoseRace, FailItem
  <2> QED
    BY <2>1, <2>2 DEF NeededInv, PhaseInv
<1>5. CASE \/ FinishAlternatives \/ FinishCanonicalisation
           \/ \E n \in Name : ProcessAlternatives(n)
           \/ \E u \in undefined : CanonicaliseUndefined(u)
  BY <1>1, <1>2, <1>5, LaterSteps DEF Loaded
<1> QED
  BY <1>1, <1>2, <1>3, <1>4, <1>5 DEF Next

\* A step keeps the functions on symbols functions on symbols.
LEMMA SymbolsStep ==
    ASSUME SymbolsOK, [Next]_vars
    PROVE  SymbolsOK'
<1>1. CASE Quiet
  BY <1>1, QuietSteps DEF SymbolsOK
<1>2. ASSUME NEW item \in WorkItem, NEW n \in Name, ResolveSymbol(item, n) PROVE SymbolsOK'
  BY <1>2 DEF ResolveSymbol, AddFlags, SymbolsOK
<1>3. ASSUME NEW n \in Name, ProcessAlternatives(n) PROVE SymbolsOK'
  BY <1>3 DEF ProcessAlternatives, SymbolsOK
<1>4. ASSUME NEW u \in undefined, CanonicaliseUndefined(u) PROVE SymbolsOK'
  BY <1>4 DEF CanonicaliseUndefined, HideDefinition, SymbolsOK
<1> QED
  BY <1>1, <1>2, <1>3, <1>4, EveryStep

LEMMA ResolveEffect ==
    ASSUME SelectionInv, NEW item \in WorkItem, NEW n \in Name, ResolveSymbol(item, n)
    PROVE  /\ item[1] \in File /\ Refers(item[1], n) /\ item[1] \in taken
           /\ phase = "resolve" /\ phase' = phase
           /\ undefined' = undefined \cup UndefinedRecord(item[1], n)
           /\ definition' = [definition EXCEPT ![<<item[1], n>>] =
                 IF Target(item[1], n) = None THEN None ELSE <<Target(item[1], n), n>>]
           /\ UNCHANGED <<altTodo, duplicates, nameToId, errors, taken, loads, input>>
<1> DEFINE f == item[1]
<1>1. n \in todo[item] /\ f \in File
  BY DEF ResolveSymbol, WorkItem
<1>2. Refers(f, n) /\ f \in taken
  <2>1. ReachedInv(File)
    <3>1. Closed(File)
      BY DEF Closed, Needs
    <3> QED
      BY <3>1 DEF SelectionInv, NeededInv
  <2> QED
    BY <1>1, <2>1 DEF ReachedInv, ItemNames
<1>3. phase = "resolve" /\ phase' = phase
  BY <1>1 DEF SelectionInv, NeededInv, PhaseInv, ResolveSymbol
<1>4. definition' = [definition EXCEPT ![<<f, n>>] =
          IF Target(f, n) = None THEN None ELSE <<Target(f, n), n>>]
  <2>1. CASE Target(f, n) = None
    <3>1. definition[<<f, n>>] = None /\ <<f, n>> \in SymbolId
      BY <1>1, <1>2, <1>3, <2>1, SymbolsApart DEF SelectionInv, UnfoundInv
    <3>2. definition = [s \in SymbolId |-> definition[s]]
      BY DEF SelectionInv, SymbolsOK
    <3>3. definition' = definition
      BY <2>1 DEF ResolveSymbol
    <3> QED
      BY <2>1, <3>1, <3>2, <3>3
  <2>2. CASE Target(f, n) # None
    BY <2>2 DEF ResolveSymbol
  <2> QED
    BY <2>1, <2>2
<1> QED
  BY <1>1, <1>2, <1>3, <1>4 DEF ResolveSymbol

\* Definitions in objects and shared objects only gain flags, and DYNAMIC is none of them.
LEMMA FlagsGrow ==
    ASSUME SelectionInv, [Next]_vars, NEW f \in File, NEW n \in Name, Defines(f, n)
    PROVE  /\ flags[<<f, n>>] \subseteq flags'[<<f, n>>]
           /\ "DYNAMIC" \in flags'[<<f, n>>] => "DYNAMIC" \in flags[<<f, n>>]
<1> DEFINE s == <<f, n>>
           Grows == flags[s] \subseteq flags'[s] /\ ("DYNAMIC" \in flags'[s] => "DYNAMIC" \in flags[s])
<1>1. input \in LinkInput /\ flags = [t \in SymbolId |-> flags[t]] /\ s \in SymbolId
  BY SymbolsApart DEF SelectionInv, NeededInv, SymbolsOK
<1>2. CASE Quiet
  BY <1>2, QuietSteps
<1>3. ASSUME NEW item \in WorkItem, NEW m \in Name, ResolveSymbol(item, m) PROVE Grows
  <2>1. item[1] \in File
    BY DEF WorkItem
  <2>2. Sym[item[1]][m].vis \in Visibility
    BY <1>1, <2>1, EntryFacts
  <2>3. CASE Target(item[1], m) = None
    BY <1>3, <2>3 DEF ResolveSymbol
  <2>4. CASE Target(item[1], m) # None
    <3> DEFINE t == <<Target(item[1], m), m>>
               new == VisibilityFlags(Sym[item[1]][m].vis, flags[t])
    <3>1. flags' = [flags EXCEPT ![t] = @ \cup new]
      BY <1>3, <2>4 DEF ResolveSymbol, AddFlags
    <3>2. "DYNAMIC" \notin new
      BY <2>2, FlagsAdded
    <3> HIDE DEF new, t
    <3> QED
      BY <1>1, <3>1, <3>2
  <2> QED
    BY <2>3, <2>4
<1>4. ASSUME NEW m \in Name, ProcessAlternatives(m) PROVE Grows
  <2>1. CASE flags' = flags
    BY <2>1
  <2>2. CASE flags' # flags
    <3> DEFINE new == VisibilityFlags(MergedVisibility(m), {})
    <3>1. flags'[s] = IF s[2] = m /\ s[1] \in Bucket(m) /\ "DYNAMIC" \notin flags[s]
                        THEN flags[s] \cup new ELSE flags[s]
      BY <1>1, <1>4, <2>2 DEF ProcessAlternatives
    <3>2. Bucket(m) # {} => "DYNAMIC" \notin new
      BY <1>1, MergedIsVisibility, FlagsAdded
    <3> HIDE DEF new
    <3> QED
      BY <3>1, <3>2
  <2> QED
    BY <2>1, <2>2
<1>5. ASSUME NEW u \in undefined, CanonicaliseUndefined(u) PROVE Grows
  <2>1. PICK g \in File, m \in Name : Refers(g, m) /\ u \in UndefinedRecord(g, m)
    BY DEF SelectionInv, RecordInv
  <2>2. u.sym = <<g, m>> /\ s # <<g, m>>
    BY <2>1, RecordShape, ReferencesDefineNothing
  <2>3. Sym[g][m].vis \in Visibility
    BY <1>1, EntryFacts
  <2>4. ASSUME NEW old, old[s] = flags[s], flags' = HideDefinition(m, Sym[g][m].vis, old),
               old = [t \in SymbolId |-> old[t]]
        PROVE  Grows
    <3>1. \/ flags' = old
          \/ flags' = [old EXCEPT ![Definition(GetUnversioned(m))] =
                          @ \cup VisibilityFlags(Sym[g][m].vis, @)]
      BY <2>4 DEF HideDefinition
    <3>2. \A d : "DYNAMIC" \notin VisibilityFlags(Sym[g][m].vis, d)
      BY <2>3, FlagsAdded
    <3> QED
      BY <1>1, <2>4, <3>1, <3>2
  <2>5. CASE flags' = flags
    BY <2>5
  <2>6. CASE flags' = HideDefinition(m, Sym[g][m].vis, flags)
    BY <1>1, <2>4, <2>6
  <2>7. CASE flags' = [flags EXCEPT ![<<Synthetic, m>>] = {"NON_INTERPOSABLE"}]
    BY <1>1, <2>7, FilesAreNumbers
  <2>8. CASE flags' = HideDefinition(m, Sym[g][m].vis,
                          [flags EXCEPT ![<<g, m>>] = @ \cup {UndefinedFlag(<<g, m>>)}])
    <3> DEFINE old == [flags EXCEPT ![<<g, m>>] = @ \cup {UndefinedFlag(<<g, m>>)}]
    <3>1. old[s] = flags[s] /\ old = [t \in SymbolId |-> old[t]]
      BY <1>1, <2>2
    <3>2. flags' = HideDefinition(m, Sym[g][m].vis, old)
      BY <2>8
    <3> HIDE DEF old
    <3> QED
      BY <2>4, <3>1, <3>2
  <2>9. u.sym[1] = g /\ u.sym[2] = m
    BY <2>2
  <2> QED
    BY <1>5, <2>2, <2>5, <2>6, <2>7, <2>8, <2>9 DEF CanonicaliseUndefined
<1> QED
  BY <1>2, <1>3, <1>4, <1>5, EveryStep

\* What canonicalise_undefined_symbols does for the record of one reference.
LEMMA CanonicaliseEffect ==
    ASSUME SelectionInv, NEW u \in undefined, CanonicaliseUndefined(u),
           NEW f \in File, NEW n \in Name, u \in UndefinedRecord(f, n)
    PROVE  /\ phase = "canonicalise" /\ phase' = phase
           /\ undefined' = undefined \ {u}
           /\ \A s \in SymbolId :
                 s # <<f, n>> /\ (s = <<Synthetic, n>> => nameToId[n] # None) =>
                    definition'[s] = definition[s]
           /\ \A m \in Name : m # n \/ nameToId[m] # None => nameToId'[m] = nameToId[m]
           /\ nameToId[n] = None => nameToId'[n] \in {None, <<f, n>>, <<Synthetic, n>>}
           /\ nameToId[n] = None /\ nameToId'[n] # None =>
                 definition'[nameToId'[n]] = nameToId'[n]
           /\ IF Target(f, n) # None /\ Target(f, n) \in Loaded
                THEN UNCHANGED <<definition, nameToId>>
                ELSE nameToId'[n] # None /\ definition'[<<f, n>>] = nameToId'[n]
           /\ UNCHANGED <<altTodo, duplicates>>
<1> DEFINE s == <<f, n>>
           syn == <<Synthetic, n>>
<1>1. u.sym = s /\ u.ignore = Target(f, n) /\ u.sym[1] = f /\ u.sym[2] = n
  BY RecordShape
<1>2. /\ phase = "canonicalise" /\ phase' = phase /\ undefined' = undefined \ {u}
      /\ UNCHANGED <<altTodo, duplicates>>
  BY DEF CanonicaliseUndefined
<1>3. IsDefined(u) <=> Target(f, n) # None /\ Target(f, n) \in Loaded
  BY <1>1 DEF IsDefined
<1>4. /\ definition = [t \in SymbolId |-> definition[t]]
      /\ nameToId = [m \in Name |-> nameToId[m]]
      /\ s \in SymbolId /\ syn \in SymbolId /\ s # syn /\ s # None /\ syn # None
  BY SymbolsApart, FilesAreNumbers DEF SelectionInv, SymbolsOK
<1>5. CASE IsDefined(u) /\ UNCHANGED <<definition, flags, nameToId>>
  BY <1>2, <1>3, <1>5
<1>6. CASE /\ ~IsDefined(u) /\ nameToId[n] # None
           /\ definition' = [definition EXCEPT ![s] = Definition(nameToId[n])]
           /\ UNCHANGED nameToId
  <2>1. definition[nameToId[n]] = nameToId[n]
    BY <1>6 DEF SelectionInv, CanonicalInv
  <2>2. Definition(nameToId[n]) = nameToId[n]
    BY <1>6, <2>1 DEF Definition
  <2> QED
    BY <1>2, <1>3, <1>4, <1>6, <2>2
<1>7. CASE /\ ~IsDefined(u) /\ nameToId[n] = None
           /\ definition' = [definition EXCEPT ![s] = syn, ![syn] = syn]
           /\ nameToId' = [nameToId EXCEPT ![n] = syn]
  BY <1>2, <1>3, <1>4, <1>7
<1>8. CASE /\ ~IsDefined(u) /\ nameToId[n] = None
           /\ definition' = [definition EXCEPT ![s] = s]
           /\ nameToId' = [nameToId EXCEPT ![n] = s]
  BY <1>2, <1>3, <1>4, <1>8
<1> QED
  BY <1>1, <1>5, <1>6, <1>7, <1>8 DEF CanonicaliseUndefined

-----------------------------------------------------------------------------
(* The invariant is kept *)

LEMMA FlagsStep ==
    ASSUME SelectionInv, [Next]_vars
    PROVE  FlagsInv'
<1>1. Dynamic' = Dynamic /\ \A f, n : Defines(f, n)' <=> Defines(f, n)
  BY InputFixed, WantsFixed DEF Dynamic
<1>2. SUFFICES ASSUME NEW f \in File, NEW n \in Name, Defines(f, n)
               PROVE  "DYNAMIC" \in flags'[<<f, n>>] <=> f \in Dynamic
  BY <1>1 DEF FlagsInv
<1>3. "DYNAMIC" \in flags[<<f, n>>] <=> f \in Dynamic
  BY <1>2 DEF SelectionInv, FlagsInv
<1> QED
  BY <1>2, <1>3, FlagsGrow

\* While nothing is settled every definition stands for itself.
LEMMA DefinitionStep ==
    ASSUME SelectionInv, [Next]_vars
    PROVE  DefinitionInv'
<1>1. /\ input' = input /\ input \in LinkInput
      /\ phase # "resolve" => Loaded' = Loaded
      /\ \A f, n : Defines(f, n)' <=> Defines(f, n)
      /\ \A n : Bucket(n)' = Bucket(n) /\ First(n)' = First(n)
  BY LoadedFixed, WantsFixed DEF SelectionInv, NeededInv
<1>2. SUFFICES ASSUME phase' # "failed", NEW f \in File, NEW n \in Name, Defines(f, n),
                      n \notin duplicates'
               PROVE  definition'[<<f, n>>] =
                         IF phase' = "resolve" \/ n \in altTodo' THEN <<f, n>>
                         ELSE <<Selected(n)', n>>
  BY <1>1 DEF DefinitionInv
<1> DEFINE s == <<f, n>>
           Old == definition[s] = IF phase = "resolve" \/ n \in altTodo THEN s
                                  ELSE <<Selected(n), n>>
           Goal == definition'[s] = IF phase' = "resolve" \/ n \in altTodo' THEN s
                                    ELSE <<Selected(n)', n>>
<1>3. phase # "failed" /\ n \notin duplicates => Old
  BY <1>2 DEF SelectionInv, DefinitionInv
<1>4. phase # "resolve" => Selected(n)' = Selected(n)
  BY <1>1, SelectedFixed
<1>5. f \in Bucket(n)
  BY <1>2 DEF Bucket
<1> HIDE DEF Old
<1>6. CASE FinishResolution
  <2>1. /\ phase = "resolve" /\ phase' = "alternatives"
        /\ altTodo' = {m \in Name : Bucket(m) # {} /\ Bucket(m) # {First(m)}}
        /\ UNCHANGED <<definition, duplicates>>
    BY <1>2, <1>6 DEF FinishResolution
  <2>2. definition'[s] = s
    BY <1>2, <1>3, <2>1 DEF Old
  <2>3. CASE n \in altTodo'
    BY <2>1, <2>2, <2>3
  <2>4. CASE n \notin altTodo'
    <3>1. Bucket(n) = {First(n)}
      BY <1>5, <2>1, <2>4
    <3>2. input' \in LinkInput /\ Bucket(n)' # {}
      BY <1>1, <1>5
    <3>3. Selected(n)' \in Bucket(n)'
      <4>1. (input \in LinkInput /\ Bucket(n) # {} => Selected(n) \in Bucket(n))'
        BY SelectedDefines, PTL
      <4> QED
        BY <3>2, <4>1
    <3>4. Selected(n)' = f
      BY <1>1, <1>5, <3>1, <3>3
    <3> QED
      BY <2>1, <2>2, <2>4, <3>4
  <2> QED
    BY <2>3, <2>4
<1>7. CASE Quiet /\ ~FinishResolution
  <2>1. definition' = definition /\ duplicates' = duplicates
    BY <1>7, QuietSteps
  <2>2. \/ phase' = phase /\ altTodo' = altTodo
        \/ FinishAlternatives \/ FinishCanonicalisation
    BY <1>7 DEF Quiet, vars, TakeFile, LoseRace, FailItem
  <2>3. CASE phase' = phase /\ altTodo' = altTodo
    BY <1>2, <1>3, <1>4, <2>1, <2>3 DEF Old
  <2>4. CASE FinishAlternatives \/ FinishCanonicalisation
    <3>1. phase # "resolve" /\ phase # "failed" /\ phase' # "resolve" /\ altTodo' = altTodo
      BY <2>4 DEF FinishAlternatives, FinishCanonicalisation
    <3> QED
      BY <1>2, <1>3, <1>4, <2>1, <3>1 DEF Old
  <2> QED
    BY <2>2, <2>3, <2>4
<1>8. ASSUME NEW item \in WorkItem, NEW m \in Name, ResolveSymbol(item, m) PROVE Goal
  <2>1. /\ Refers(item[1], m) /\ phase = "resolve" /\ phase' = phase
        /\ definition' = [definition EXCEPT ![<<item[1], m>>] =
                 IF Target(item[1], m) = None THEN None ELSE <<Target(item[1], m), m>>]
        /\ duplicates' = duplicates
    BY <1>8, ResolveEffect
  <2>2. <<item[1], m>> # s
    BY <1>2, <2>1, ReferencesDefineNothing
  <2>3. definition'[s] = definition[s]
    BY <2>1, <2>2, SymbolsApart DEF SelectionInv, SymbolsOK
  <2> QED
    BY <1>2, <1>3, <2>1, <2>3 DEF Old
<1>9. ASSUME NEW m \in Name, ProcessAlternatives(m) PROVE Goal
  <2>1. /\ phase = "alternatives" /\ phase' = phase /\ m \in altTodo
        /\ altTodo' = altTodo \ {m}
    BY <1>9 DEF ProcessAlternatives
  <2>2. CASE IsDuplicate(m)
    <3>1. duplicates' = duplicates \cup {m} /\ definition' = definition
      BY <1>9, <2>2 DEF ProcessAlternatives
    <3> QED
      BY <1>2, <1>3, <1>4, <2>1, <3>1 DEF Old
  <2>3. CASE ~IsDuplicate(m)
    <3>1. /\ duplicates' = duplicates
          /\ definition' = [t \in SymbolId |->
                IF t \in Redirected(m) THEN <<SelectSymbol(m), m>> ELSE definition[t]]
      BY <1>9, <2>3 DEF ProcessAlternatives
    <3>2. s \in SymbolId /\ (s \in Redirected(m) <=> n = m)
      BY <1>5, SymbolsApart DEF Redirected
    <3>3. SelectSymbol(m) = Selected(m)
      BY SelectSymbolSelects DEF SelectionInv
    <3>4. CASE n = m
      BY <1>4, <2>1, <3>1, <3>2, <3>3, <3>4
    <3>5. CASE n # m
      BY <1>2, <1>3, <1>4, <2>1, <3>1, <3>2, <3>5 DEF Old
    <3> QED
      BY <3>4, <3>5
  <2> QED
    BY <2>2, <2>3
<1>10. ASSUME NEW u \in undefined, CanonicaliseUndefined(u) PROVE Goal
  <2>1. PICK g \in File, m \in Name : Refers(g, m) /\ u \in UndefinedRecord(g, m)
    BY DEF SelectionInv, RecordInv
  <2>2. /\ phase = "canonicalise" /\ phase' = phase
        /\ \A t \in SymbolId :
              t # <<g, m>> /\ (t = <<Synthetic, m>> => nameToId[m] # None) =>
                 definition'[t] = definition[t]
        /\ UNCHANGED <<altTodo, duplicates>>
    BY <1>10, <2>1, CanonicaliseEffect
  <2>3. s \in SymbolId /\ s # <<g, m>> /\ s # <<Synthetic, m>>
    BY <1>2, <2>1, ReferencesDefineNothing, SymbolsApart, FilesAreNumbers
  <2>4. definition'[s] = definition[s]
    BY <2>2, <2>3
  <2> QED
    BY <1>2, <1>3, <1>4, <2>2, <2>4 DEF Old
<1> QED
  BY <1>6, <1>7, <1>8, <1>9, <1>10, EveryStep

LEMMA DuplicateStep ==
    ASSUME SelectionInv, [Next]_vars
    PROVE  DuplicateInv'
<1>1. /\ input' = input /\ (phase # "resolve" => Loaded' = Loaded)
      /\ \A n : Bucket(n)' = Bucket(n) /\ First(n)' = First(n)
      /\ Sym' = Sym
  BY LoadedFixed, WantsFixed DEF SelectionInv, Sym
<1>2. phase # "resolve" => \A n \in Name : Ambiguous(n)' <=> Ambiguous(n)
  BY <1>1, AmbiguousFixed
<1>3. DuplicateInv
  BY DEF SelectionInv
<1>4. CASE UNCHANGED <<phase, altTodo, duplicates>>
  BY <1>1, <1>2, <1>3, <1>4 DEF DuplicateInv
<1>5. CASE FinishResolution
  <2>1. /\ phase' \in {"alternatives", "failed"}
        /\ altTodo' = {m \in Name : Bucket(m) # {} /\ Bucket(m) # {First(m)}}
    BY <1>5 DEF FinishResolution
  <2>2. ASSUME NEW n \in Name, Ambiguous(n)' PROVE n \in altTodo'
    <3>1. PICK f \in File, g \in File :
              f # g /\ Sym[f][n].kind \in {"Strong", "Comdat"} /\ Sym[g][n].kind \in {"Strong", "Comdat"}
      BY <1>1, <2>2 DEF Ambiguous, Loaders, Loaded
    <3>2. f \in Bucket(n) /\ g \in Bucket(n)
      BY <3>1 DEF Bucket, Defines, Defining
    <3> QED
      BY <2>1, <3>1, <3>2
  <2> QED
    BY <1>1, <2>1, <2>2 DEF DuplicateInv
<1>6. CASE FinishAlternatives
  <2>1. /\ phase = "alternatives" /\ altTodo = {} /\ altTodo' = altTodo
        /\ duplicates' = duplicates
        /\ phase' = IF duplicates = {} THEN "canonicalise" ELSE "failed"
    BY <1>6 DEF FinishAlternatives
  <2> QED
    BY <1>2, <1>3, <2>1 DEF DuplicateInv
<1>7. CASE FinishCanonicalisation
  <2>1. /\ phase = "canonicalise" /\ phase' = "done" /\ UNCHANGED <<altTodo, duplicates>>
    BY <1>7 DEF FinishCanonicalisation
  <2> QED
    BY <1>2, <1>3, <2>1 DEF DuplicateInv
<1>8. ASSUME NEW m \in Name, ProcessAlternatives(m) PROVE DuplicateInv'
  <2>1. /\ phase = "alternatives" /\ phase' = phase /\ altTodo' = altTodo \ {m}
        /\ IF IsDuplicate(m) THEN duplicates' = duplicates \cup {m} ELSE duplicates' = duplicates
    BY <1>8 DEF ProcessAlternatives
  <2>2. Ambiguous(m) => IsDuplicate(m)
    <3> SUFFICES ASSUME Ambiguous(m) PROVE IsDuplicate(m)
      OBVIOUS
    <3> DEFINE strong == StrongIn(m, Ranked(m))
    <3>1. strong = Loaders(m, {"Strong", "Comdat"})
      <4>1. Ranked(m) = Available(m)
        BY SelectSymbolSelects DEF SelectionInv
      <4> QED
        BY <4>1 DEF Available, StrongIn, Loaders, Bucket, Defines, Defining, Loaded
    <3>2. PICK f \in strong, g \in strong : f # g /\ "Strong" \in {Sym[f][m].kind, Sym[g][m].kind}
      BY <3>1 DEF Ambiguous
    <3> HIDE DEF strong
    <3>3. CASE Sym[Min(strong)][m].kind = "Strong"
      BY <3>2, <3>3 DEF IsDuplicate, strong
    <3>4. CASE Sym[Min(strong)][m].kind # "Strong"
      <4>1. PICK h \in strong : Sym[h][m].kind = "Strong"
        BY <3>2
      <4>2. h # Min(strong)
        BY <3>4, <4>1
      <4> QED
        BY <4>1, <4>2 DEF IsDuplicate, strong
    <3> QED
      BY <3>3, <3>4
  <2>3. ASSUME NEW n \in Name
        PROVE  /\ Ambiguous(n)' => n \in altTodo' \cup duplicates'
               /\ n \in altTodo' => Bucket(n)' # {}
    BY <1>1, <1>2, <1>3, <2>1, <2>2 DEF DuplicateInv
  <2> QED
    BY <2>1, <2>3 DEF DuplicateInv
<1>9. UNCHANGED <<phase, altTodo, duplicates>> \/ Quiet \/ \E n \in Name : ProcessAlternatives(n)
  BY EveryStep DEF ResolveSymbol, CanonicaliseUndefined
<1>10. CASE Quiet
  BY <1>4, <1>5, <1>6, <1>7, <1>10 DEF Quiet, vars, TakeFile, LoseRace, FailItem
<1> QED
  BY <1>4, <1>8, <1>9, <1>10

LEMMA UnfoundStep ==
    ASSUME SelectionInv, [Next]_vars
    PROVE  UnfoundInv'
<1>1. \A f, n : (Refers(f, n)' <=> Refers(f, n)) /\ Target(f, n)' = Target(f, n)
  BY InputFixed, WantsFixed
<1>2. SUFFICES ASSUME phase' = "resolve", NEW f \in File, NEW n \in Name, Refers(f, n),
                      Target(f, n) = None
               PROVE  definition'[<<f, n>>] = None
  BY <1>1 DEF UnfoundInv
<1>3. phase = "resolve"
  BY <1>2, LoadedFixed DEF SelectionInv
<1>4. definition[<<f, n>>] = None
  BY <1>2, <1>3 DEF SelectionInv, UnfoundInv
<1>5. CASE Quiet
  BY <1>4, <1>5, QuietSteps
<1>6. ASSUME NEW item \in WorkItem, NEW m \in Name, ResolveSymbol(item, m)
      PROVE  definition'[<<f, n>>] = None
  <2>1. definition' = [definition EXCEPT ![<<item[1], m>>] =
             IF Target(item[1], m) = None THEN None ELSE <<Target(item[1], m), m>>]
    BY <1>6, ResolveEffect
  <2>2. definition = [s \in SymbolId |-> definition[s]] /\ <<f, n>> \in SymbolId
    BY SymbolsApart DEF SelectionInv, SymbolsOK
  <2>3. CASE <<item[1], m>> = <<f, n>>
    BY <1>2, <2>1, <2>2, <2>3
  <2>4. CASE <<item[1], m>> # <<f, n>>
    BY <1>4, <2>1, <2>2, <2>4
  <2> QED
    BY <2>3, <2>4
<1>7. CASE \/ \E m \in Name : ProcessAlternatives(m)
           \/ \E u \in undefined : CanonicaliseUndefined(u)
  BY <1>3, <1>7 DEF ProcessAlternatives, CanonicaliseUndefined
<1> QED
  BY <1>5, <1>6, <1>7, EveryStep

LEMMA RecordStep ==
    ASSUME SelectionInv, [Next]_vars
    PROVE  RecordInv'
<1>1. /\ taken \subseteq taken' /\ \A f, n : Refers(f, n)' <=> Refers(f, n)
      /\ \A f, n : UndefinedRecord(f, n)' = UndefinedRecord(f, n)
  BY LoadedFixed, WantsFixed, RecordFixed DEF SelectionInv
<1>2. \A u \in undefined :
          \E f \in File, n \in Name : Refers(f, n) /\ f \in taken' /\ u \in UndefinedRecord(f, n)
  BY <1>1 DEF SelectionInv, RecordInv
<1>3. CASE Quiet
  <2>1. undefined' = undefined
    BY <1>3, QuietSteps
  <2>2. phase' = "done" => phase = "done" \/ undefined = {}
    BY <1>3 DEF Quiet, vars, TakeFile, LoseRace, FailItem, FinishResolution,
                FinishAlternatives, FinishCanonicalisation
  <2> QED
    BY <1>1, <1>2, <2>1, <2>2 DEF RecordInv, SelectionInv
<1>4. ASSUME NEW item \in WorkItem, NEW n \in Name, ResolveSymbol(item, n) PROVE RecordInv'
  <2>1. /\ item[1] \in File /\ Refers(item[1], n) /\ item[1] \in taken
        /\ phase = "resolve" /\ phase' = phase
        /\ undefined' = undefined \cup UndefinedRecord(item[1], n)
    BY <1>4, ResolveEffect
  <2> QED
    BY <1>1, <1>2, <2>1 DEF RecordInv
<1>5. ASSUME NEW n \in Name, ProcessAlternatives(n) PROVE RecordInv'
  <2>1. undefined' = undefined /\ phase' # "done"
    BY <1>5 DEF ProcessAlternatives
  <2> QED
    BY <1>1, <1>2, <2>1 DEF RecordInv
<1>6. ASSUME NEW u \in undefined, CanonicaliseUndefined(u) PROVE RecordInv'
  <2>1. undefined' = undefined \ {u} /\ phase' # "done"
    BY <1>6 DEF CanonicaliseUndefined
  <2> QED
    BY <1>1, <1>2, <2>1 DEF RecordInv
<1> QED
  BY <1>3, <1>4, <1>5, <1>6, EveryStep

LEMMA CanonicalStep ==
    ASSUME SelectionInv, [Next]_vars
    PROVE  CanonicalInv'
<1>1. /\ taken \subseteq taken' /\ \A f, n : Refers(f, n)' <=> Refers(f, n)
      /\ \A f, n : UndefinedRecord(f, n)' = UndefinedRecord(f, n)
      /\ phase # "resolve" => phase' # "resolve"
  BY LoadedFixed, WantsFixed, RecordFixed DEF SelectionInv
<1>2. CanonicalInv /\ nameToId = [n \in Name |-> nameToId[n]]
  BY DEF SelectionInv, SymbolsOK
<1>3. CASE phase \in {"resolve", "alternatives"} /\ nameToId' = nameToId
  BY <1>2, <1>3 DEF CanonicalInv
<1>4. CASE Quiet
  <2>1. UNCHANGED <<definition, undefined, nameToId>>
    BY <1>4, QuietSteps
  <2>2. phase' \in {"resolve", "alternatives"} => phase \in {"resolve", "alternatives"}
    BY <1>4 DEF Quiet, vars, TakeFile, LoseRace, FailItem, FinishResolution,
                FinishAlternatives, FinishCanonicalisation
  <2> QED
    BY <1>1, <1>2, <2>1, <2>2 DEF CanonicalInv
<1>5. CASE \/ \E item \in WorkItem, n \in Name : ResolveSymbol(item, n)
           \/ \E n \in Name : ProcessAlternatives(n)
  <2>1. phase \in {"resolve", "alternatives"} /\ nameToId' = nameToId
    BY <1>5, ResolveEffect DEF ProcessAlternatives
  <2> QED
    BY <1>3, <2>1
<1>6. ASSUME NEW u \in undefined, CanonicaliseUndefined(u) PROVE CanonicalInv'
  <2>1. PICK g \in File, m \in Name : Refers(g, m) /\ g \in taken /\ u \in UndefinedRecord(g, m)
    BY DEF SelectionInv, RecordInv
  <2> DEFINE s == <<g, m>>
             Stands(n, id) ==
                /\ definition'[id] = id
                /\ \/ id = <<Synthetic, n>>
                   \/ \E f \in File : /\ id = <<f, n>> /\ Refers(f, n) /\ f \in taken'
                                      /\ UndefinedRecord(f, n) \cap undefined' = {}
  <2>2. /\ phase = "canonicalise" /\ phase' = phase
        /\ undefined' = undefined \ {u}
        /\ \A t \in SymbolId :
              t # s /\ (t = <<Synthetic, m>> => nameToId[m] # None) =>
                 definition'[t] = definition[t]
        /\ \A n \in Name : n # m \/ nameToId[n] # None => nameToId'[n] = nameToId[n]
        /\ nameToId[m] = None => nameToId'[m] \in {None, s, <<Synthetic, m>>}
        /\ nameToId[m] = None /\ nameToId'[m] # None => definition'[nameToId'[m]] = nameToId'[m]
    BY <1>6, <2>1, CanonicaliseEffect
  <2>3. ASSUME NEW n \in Name, nameToId'[n] # None PROVE Stands(n, nameToId'[n])
    <3>1. CASE nameToId[n] # None
      <4> DEFINE id == nameToId[n]
      <4>1. /\ definition[id] = id
            /\ \/ id = <<Synthetic, n>>
               \/ \E f \in File : /\ id = <<f, n>> /\ Refers(f, n) /\ f \in taken
                                  /\ UndefinedRecord(f, n) \cap undefined = {}
        BY <1>2, <3>1 DEF CanonicalInv
      <4>2. nameToId'[n] = id
        BY <2>2, <3>1
      <4> HIDE DEF id
      <4>3. id # s
        BY <2>1, <4>1, FilesAreNumbers
      <4>4. id \in SymbolId /\ (id = <<Synthetic, m>> => n = m)
        BY <4>1, SymbolsApart, FilesAreNumbers
      <4>5. definition'[id] = id
        <5>1. id = <<Synthetic, m>> => nameToId[m] # None
          BY <3>1, <4>4
        <5> QED
          BY <2>2, <4>1, <4>3, <4>4, <5>1
      <4> QED
        BY <1>1, <2>2, <4>1, <4>2, <4>5
    <3>2. CASE nameToId[n] = None
      <4>1. n = m /\ nameToId'[m] \in {s, <<Synthetic, m>>} /\ definition'[nameToId'[m]] = nameToId'[m]
        BY <2>2, <2>3, <3>2
      <4>2. UndefinedRecord(g, m) \cap undefined' = {}
        BY <2>1, <2>2, RecordShape
      <4> QED
        BY <1>1, <2>1, <4>1, <4>2
    <3> QED
      BY <3>1, <3>2
  <2> QED
    BY <1>1, <2>2, <2>3 DEF CanonicalInv
<1> QED
  BY <1>4, <1>5, <1>6, EveryStep

\* A reference that was looked up keeps what it has got, until its record is dealt with.
LEMMA LookedUpKept ==
    ASSUME SelectionInv, [Next]_vars, phase' # "failed",
           NEW f \in File, NEW n \in Name, Refers(f, n), LookedUp(f, n)
    PROVE  LookedUp(f, n)'
<1> DEFINE s == <<f, n>>
           target == Target(f, n)
           record == UndefinedRecord(f, n)
           Late == IF target # None /\ target \in Loaded THEN definition[s] = <<target, n>>
                   ELSE nameToId[n] # None /\ definition[s] = nameToId[n]
           Late1 == IF target # None /\ target \in Loaded THEN definition'[s] = <<target, n>>
                    ELSE nameToId'[n] # None /\ definition'[s] = nameToId'[n]
           Early == record \subseteq undefined
                      /\ definition[s] = IF target = None THEN None ELSE <<target, n>>
           Early1 == record \subseteq undefined'
                      /\ definition'[s] = IF target = None THEN None ELSE <<target, n>>
<1>1. /\ input' = input /\ target' = target /\ record' = record
      /\ Sym' = Sym /\ input \in LinkInput
      /\ phase # "resolve" => Loaded' = Loaded /\ phase' # "resolve"
  BY LoadedFixed, WantsFixed, RecordFixed DEF SelectionInv, NeededInv, Sym
<1>2. s \in SymbolId /\ definition = [t \in SymbolId |-> definition[t]]
  BY SymbolsApart DEF SelectionInv, SymbolsOK
<1>3. /\ target # None /\ Sym[f][n].vis = "Hidden" => "DOWNGRADE_TO_LOCAL" \in flags[<<target, n>>]
      /\ \/ Early
         \/ /\ phase \in {"canonicalise", "done"} /\ record # {} /\ record \cap undefined = {}
            /\ Late
  BY DEF LookedUp
<1>4. target # None /\ Sym[f][n].vis = "Hidden" => "DOWNGRADE_TO_LOCAL" \in flags'[<<target, n>>]
  <2> SUFFICES ASSUME target # None, Sym[f][n].vis = "Hidden"
               PROVE  "DOWNGRADE_TO_LOCAL" \in flags'[<<target, n>>]
    OBVIOUS
  <2>1. target \in Bucket(n)
    BY <1>1, TargetDefines
  <2> HIDE DEF target
  <2>2. flags[<<target, n>>] \subseteq flags'[<<target, n>>]
    BY <2>1, FlagsGrow DEF Bucket
  <2> QED
    BY <1>3, <2>2
<1>5. SUFFICES \/ Early1
               \/ /\ phase' \in {"canonicalise", "done"} /\ record # {} /\ record \cap undefined' = {}
                  /\ IF target # None /\ target \in Loaded' THEN definition'[s] = <<target, n>>
                     ELSE nameToId'[n] # None /\ definition'[s] = nameToId'[n]
  <2> HIDE DEF target, record
  <2> QED
    BY <1>1, <1>4 DEF LookedUp, target, record
<1>6. phase \in {"canonicalise", "done"} => phase' \in {"canonicalise", "done"} /\ Loaded' = Loaded
  BY <1>1, EveryStep, ResolveEffect DEF Quiet, vars, TakeFile, LoseRace, FailItem, FinishResolution, FinishAlternatives,
              FinishCanonicalisation, ProcessAlternatives, CanonicaliseUndefined
<1> HIDE DEF target, record
<1>7. CASE UNCHANGED <<definition, nameToId>> /\ undefined' = undefined
  BY <1>3, <1>5, <1>6, <1>7
<1>8. CASE Quiet
  BY <1>7, <1>8, QuietSteps
<1>9. ASSUME NEW item \in WorkItem, NEW m \in Name, ResolveSymbol(item, m) PROVE Early1
  <2>1. /\ phase = "resolve"
        /\ undefined' = undefined \cup UndefinedRecord(item[1], m)
        /\ definition' = [definition EXCEPT ![<<item[1], m>>] =
              IF Target(item[1], m) = None THEN None ELSE <<Target(item[1], m), m>>]
    BY <1>9, ResolveEffect
  <2>2. Early
    BY <1>3, <2>1
  <2>3. CASE <<item[1], m>> = s
    <3>1. item[1] = f /\ m = n
      BY <2>3
    <3> QED
      BY <1>2, <2>1, <2>2, <3>1 DEF target, record
  <2>4. CASE <<item[1], m>> # s
    BY <1>2, <2>1, <2>2, <2>4
  <2> QED
    BY <2>3, <2>4
<1>10. ASSUME NEW m \in Name, ProcessAlternatives(m)
       PROVE  UNCHANGED <<definition[s], nameToId>> /\ undefined' = undefined
  <2>1. s \notin Redirected(m)
    BY ReferencesDefineNothing DEF Redirected, Bucket
  <2>2. definition'[s] = definition[s]
    BY <1>2, <1>10, <2>1 DEF ProcessAlternatives
  <2> QED
    BY <1>10, <2>2 DEF ProcessAlternatives
<1>11. ASSUME NEW u \in undefined, CanonicaliseUndefined(u)
       PROVE  \/ Early1
              \/ /\ phase' \in {"canonicalise", "done"} /\ record # {} /\ record \cap undefined' = {}
                 /\ Late1
  <2>1. PICK g \in File, m \in Name : Refers(g, m) /\ u \in UndefinedRecord(g, m)
    BY DEF SelectionInv, RecordInv
  <2>2. /\ phase = "canonicalise" /\ phase' = phase
        /\ undefined' = undefined \ {u}
        /\ \A t \in SymbolId :
              t # <<g, m>> /\ (t = <<Synthetic, m>> => nameToId[m] # None) =>
                 definition'[t] = definition[t]
        /\ \A k \in Name : k # m \/ nameToId[k] # None => nameToId'[k] = nameToId[k]
        /\ IF Target(g, m) # None /\ Target(g, m) \in Loaded
             THEN UNCHANGED <<definition, nameToId>>
             ELSE nameToId'[m] # None /\ definition'[<<g, m>>] = nameToId'[m]
    BY <1>11, <2>1, CanonicaliseEffect
  <2>3. CASE <<g, m>> = s
    <3>1. g = f /\ m = n
      BY <2>3
    <3>2. record = {u}
      BY <2>1, <3>1, RecordShape DEF record
    <3>3. Early
      BY <1>3, <3>2
    <3> QED
      BY <2>2, <3>1, <3>2, <3>3 DEF target
  <2>4. CASE <<g, m>> # s
    <3>1. u \notin record
      BY <2>1, <2>4, RecordsApart DEF record
    <3>2. s # <<Synthetic, m>>
      BY FilesAreNumbers
    <3>3. definition'[s] = definition[s]
      BY <1>2, <2>2, <2>4, <3>2
    <3>4. nameToId[n] # None => nameToId'[n] = nameToId[n]
      BY <2>2
    <3> QED
      BY <1>3, <2>2, <3>1, <3>3, <3>4
  <2> QED
    BY <2>3, <2>4
<1>12. ASSUME NEW m \in Name, ProcessAlternatives(m) PROVE phase \notin {"canonicalise", "done"}
  BY <1>12 DEF ProcessAlternatives
<1>13. ASSUME NEW u \in undefined, CanonicaliseUndefined(u) PROVE phase = "canonicalise"
  BY <1>13 DEF CanonicaliseUndefined
<1> HIDE DEF Early, Early1
<1>14. ASSUME NEW m \in Name, ProcessAlternatives(m) PROVE Early1
  BY <1>3, <1>10, <1>12, <1>14 DEF Early, Early1
<1>15. CASE \E u \in undefined : CanonicaliseUndefined(u)
  BY <1>5, <1>6, <1>11, <1>13, <1>15
<1> QED
  BY <1>5, <1>8, <1>9, <1>14, <1>15, EveryStep

LEMMA LookupStep ==
    ASSUME SelectionInv, [Next]_vars
    PROVE  LookupInv'
<1>1. /\ \A item : ItemNames(item)' = ItemNames(item)
      /\ input \in LinkInput
  BY InputFixed, WantsFixed DEF SelectionInv, NeededInv
<1>2. SUFFICES ASSUME phase' # "failed", errors' = {}, NEW i \in WorkItem, NEW n \in ItemNames(i),
                      i[1] \in taken'
               PROVE  n \in todo'[i] \/ LookedUp(i[1], n)'
  BY <1>1 DEF LookupInv
<1>3. i[1] \in File /\ n \in Name /\ Refers(i[1], n)
  BY DEF WorkItem, ItemNames
<1>4. phase # "failed" /\ errors = {} /\ i[1] \in taken => n \in todo[i] \/ LookedUp(i[1], n)
  BY DEF SelectionInv, LookupInv
<1>5. LookedUp(i[1], n) => LookedUp(i[1], n)'
  BY <1>2, <1>3, LookedUpKept
<1>6. CASE UNCHANGED <<taken, todo, errors>> /\ phase # "failed"
  BY <1>2, <1>4, <1>5, <1>6
<1>7. CASE UNCHANGED vars
  BY <1>2, <1>6, <1>7 DEF vars
<1>8. ASSUME NEW item \in WorkItem, TakeFile(item) PROVE n \in todo'[i] \/ LookedUp(i[1], n)'
  <2>1. /\ taken' = taken \cup {asking[item]}
        /\ todo'[i] = IF i[1] = asking[item] THEN ItemNames(i) ELSE todo[i]
        /\ errors' = errors /\ phase' = phase
    BY <1>8 DEF TakeFile
  <2> QED
    BY <1>2, <1>4, <1>5, <2>1
<1>9. ASSUME NEW item \in WorkItem, LoseRace(item) PROVE n \in todo'[i] \/ LookedUp(i[1], n)'
  BY <1>2, <1>6, <1>9 DEF LoseRace
<1>10. ASSUME NEW item \in WorkItem, FailItem(item) PROVE FALSE
  BY <1>2, <1>10 DEF FailItem, HandleResult
<1>11. CASE FinishResolution \/ FinishAlternatives \/ FinishCanonicalisation
  BY <1>6, <1>11 DEF FinishResolution, FinishAlternatives, FinishCanonicalisation
<1>12. ASSUME NEW item \in WorkItem, NEW m \in Name, ResolveSymbol(item, m)
       PROVE  n \in todo'[i] \/ LookedUp(i[1], n)'
  <2>1. todo' = [todo EXCEPT ![item] = @ \ {m}] /\ UNCHANGED <<taken, errors>> /\ phase' = phase
    BY <1>12, ResolveSymbolEffect DEF SelectionInv, NeededInv
  <2>2. CASE ~(i = item /\ n = m)
    <3>1. n \in todo[i] => n \in todo'[i]
      BY <2>1, <2>2 DEF SelectionInv, NeededInv, LoadTypeOK
    <3> QED
      BY <1>2, <1>4, <1>5, <2>1, <3>1
  <2>3. CASE i = item /\ n = m
    <3> DEFINE f == i[1]
               target == Target(f, n)
               record == UndefinedRecord(f, n)
    <3>1. /\ undefined' = undefined \cup record
          /\ definition' = [definition EXCEPT ![<<f, n>>] =
                IF target = None THEN None ELSE <<target, n>>]
      BY <1>12, <2>3, ResolveEffect
    <3>2. /\ definition = [s \in SymbolId |-> definition[s]]
          /\ flags = [s \in SymbolId |-> flags[s]] /\ <<f, n>> \in SymbolId
      BY <1>3, SymbolsApart DEF SelectionInv, SymbolsOK
    <3>3. /\ Target(f, n)' = target /\ UndefinedRecord(f, n)' = record
          /\ Sym' = Sym
      BY InputFixed, WantsFixed, RecordFixed DEF Sym
    <3>4. record \subseteq undefined'
             /\ definition'[<<f, n>>] = IF target = None THEN None ELSE <<target, n>>
      BY <3>1, <3>2
    <3>5. target # None /\ Sym[f][n].vis = "Hidden" => "DOWNGRADE_TO_LOCAL" \in flags'[<<target, n>>]
      <4> SUFFICES ASSUME target # None, Sym[f][n].vis = "Hidden"
                   PROVE  "DOWNGRADE_TO_LOCAL" \in flags'[<<target, n>>]
        OBVIOUS
      <4>1. flags' = [flags EXCEPT ![<<target, n>>] =
                         @ \cup VisibilityFlags(Sym[f][n].vis, flags[<<target, n>>])]
        BY <1>12, <2>3 DEF ResolveSymbol, AddFlags
      <4>2. <<target, n>> \in SymbolId
        BY <1>1, <1>3, TargetDefines, SymbolsApart DEF Bucket
      <4>3. "DOWNGRADE_TO_LOCAL" \in VisibilityFlags(Sym[f][n].vis, flags[<<target, n>>])
        BY <1>1, <1>3, EntryFacts, FlagsAdded
      <4> HIDE DEF target
      <4> QED
        BY <3>2, <4>1, <4>2, <4>3
    <3> HIDE DEF target, record, f
    <3>6. LookedUp(f, n)'
      BY <3>3, <3>4, <3>5 DEF LookedUp
    <3> QED
      BY <3>6 DEF f
  <2> QED
    BY <2>2, <2>3
<1>13. CASE \/ \E m \in Name : ProcessAlternatives(m)
            \/ \E u \in undefined : CanonicaliseUndefined(u)
  BY <1>6, <1>13 DEF ProcessAlternatives, CanonicaliseUndefined
<1> QED
  BY <1>7, <1>8, <1>9, <1>10, <1>11, <1>12, <1>13 DEF Next

LEMMA SelectionInit == Init => SelectionInv
<1> SUFFICES ASSUME Init PROVE SelectionInv
  OBVIOUS
<1>1. NeededInv
  BY NeededInit
<1>2. /\ definition = [s \in SymbolId |->
            IF s[1] # Synthetic /\ (s[1] # Synthetic => Defines(s[1], s[2])) THEN s ELSE None]
      /\ flags = [s \in SymbolId |->
            IF s[1] \in Dynamic /\ (s[1] \in Dynamic => Defines(s[1], s[2])) THEN {"DYNAMIC"}
            ELSE {}]
      /\ nameToId = [n \in Name |-> None]
      /\ phase = "resolve" /\ undefined = {} /\ altTodo = {} /\ duplicates = {}
      /\ todo = [item \in WorkItem |-> IF item[1] \in Optional THEN {} ELSE ItemNames(item)]
      /\ taken = File \ Optional
  BY DEF Init
<1>3. ASSUME NEW f \in File, NEW n \in Name
      PROVE  /\ definition[<<f, n>>] = IF Defines(f, n) THEN <<f, n>> ELSE None
             /\ flags[<<f, n>>] = IF f \in Dynamic /\ Defines(f, n) THEN {"DYNAMIC"} ELSE {}
  BY <1>2, SymbolsApart, FilesAreNumbers
<1>4. SymbolsOK
  BY <1>2 DEF SymbolsOK
<1>5. FlagsInv
  BY <1>3 DEF FlagsInv
<1>6. DefinitionInv /\ DuplicateInv /\ RecordInv /\ CanonicalInv
  BY <1>2, <1>3 DEF DefinitionInv, DuplicateInv, RecordInv, CanonicalInv
<1>7. UnfoundInv
  BY <1>3, ReferencesDefineNothing DEF UnfoundInv
<1>8. LookupInv
  BY <1>2 DEF LookupInv
<1> QED
  BY <1>1, <1>4, <1>5, <1>6, <1>7, <1>8 DEF SelectionInv

LEMMA SelectionStep == SelectionInv /\ [Next]_vars => SelectionInv'
<1> SUFFICES ASSUME SelectionInv, [Next]_vars PROVE SelectionInv'
  OBVIOUS
<1>1. NeededInv' /\ SymbolsOK'
  BY NeededStep, SymbolsStep DEF SelectionInv
<1>2. FlagsInv' /\ DefinitionInv' /\ DuplicateInv'
  BY FlagsStep, DefinitionStep, DuplicateStep
<1>3. UnfoundInv' /\ LookupInv' /\ RecordInv' /\ CanonicalInv'
  BY UnfoundStep, LookupStep, RecordStep, CanonicalStep
<1> QED
  BY <1>1, <1>2, <1>3 DEF SelectionInv

-----------------------------------------------------------------------------
(* The invariant gives DefinitionsSelected *)

\* For a name with a definition in a loaded file, the winner for every reference that may have
\* it is the definition selected.
LEMMA SelectedWins ==
    ASSUME input \in LinkInput, NEW f \in File, NEW n \in Name,
           Target(f, n) # None, Target(f, n) \in Loaded
    PROVE  Winner(f, n) = Selected(n) /\ Winner(f, n) # None
<1> DEFINE t == Target(f, n)
           strong == OfKind(n, Available(n), {"Strong", "Comdat"})
           common == OfKind(n, Available(n), {"Common"})
           weak == OfKind(n, Available(n), {"Weak", "GnuUnique"})
           best == Best(Selector(Sym, n, Available(n)))
           rest == Bucket(n) \cap Loaded
           shared == {g \in Loaded \cap Dynamic : Defines(g, n)}
<1>1. t \in rest /\ (Sym[f][n].vis # "Default" => t \notin Dynamic)
  BY TargetDefines
<1>2. Available(n) \in SUBSET Bucket(n)
  BY DEF Available
<1>3. /\ strong # {} => best = Min(strong)
      /\ strong = {} /\ common # {} => best = Min(Largest(n, common))
      /\ strong = {} /\ common = {} /\ weak # {} => best = Min(weak)
      /\ best = None <=> Available(n) = {}
  BY <1>2, BestChosen
<1>4. /\ Loaders(n, {"Strong", "Comdat"}) = strong /\ Loaders(n, {"Common"}) = common
      /\ Loaders(n, {"Weak", "GnuUnique"}) = weak
  BY DEF Loaders, OfKind, Available, Bucket, Defines, Defining, Loaded
<1>5. Available(n) = {} <=> strong = {} /\ common = {} /\ weak = {}
  BY DEF OfKind, Available, Bucket, Defines, Defining
<1> HIDE DEF t, strong, common, weak, best
<1>6. CASE Available(n) # {}
  <2>1. Selected(n) = best
    BY <1>3, <1>6 DEF Selected, best
  <2>2. Winner(f, n) = best
    BY <1>3, <1>4, <1>5, <1>6 DEF Winner
  <2> QED
    BY <1>3, <1>6, <2>1, <2>2
<1>7. CASE Available(n) = {}
  <2>1. rest = shared
    BY <1>7 DEF Available, Bucket, Loaded
  <2>2. Sym[f][n].vis = "Default"
    BY <1>1, <1>7 DEF Available
  <2>3. Selected(n) = Min(rest)
    BY <1>1, <1>3, <1>7 DEF Selected, best
  <2>4. Winner(f, n) = Min(shared)
    BY <1>1, <1>4, <1>5, <1>7, <2>1, <2>2 DEF Winner
  <2>5. Min(rest) # None
    <3>1. rest \in SUBSET Nat /\ rest # {} /\ None \notin rest
      BY <1>1, FilesAreNumbers DEF Bucket
    <3> HIDE DEF rest
    <3> QED
      BY <3>1, MinProperties
  <2> QED
    BY <2>1, <2>3, <2>4, <2>5
<1> QED
  BY <1>6, <1>7

\* A reference that finds nothing has no winner.
LEMMA NothingWins ==
    ASSUME input \in LinkInput, NEW f \in File, NEW n \in Name, Target(f, n) = None
    PROVE  Winner(f, n) = None
<1>1. Bucket(n) = {} \/ (Sym[f][n].vis # "Default" /\ Bucket(n) \ Dynamic = {})
  BY TargetDefines
<1>2. /\ Loaders(n, {"Strong", "Comdat"}) = {} /\ Loaders(n, {"Common"}) = {}
      /\ Loaders(n, {"Weak", "GnuUnique"}) = {}
  BY <1>1 DEF Loaders, Bucket, Defines, Defining, Loaded
<1>3. {g \in Loaded \cap Dynamic : Defines(g, n)} = {} \/ Sym[f][n].vis # "Default"
  BY <1>1 DEF Bucket, Loaded
<1> QED
  BY <1>2, <1>3 DEF Winner

\* A winner is a loaded file.
LEMMA WinnerLoaded ==
    ASSUME input \in LinkInput, NEW f \in File, NEW n \in Name, Winner(f, n) # None
    PROVE  Winner(f, n) \in Loaded
<1> DEFINE strong == OfKind(n, Available(n), {"Strong", "Comdat"})
           common == OfKind(n, Available(n), {"Common"})
           weak == OfKind(n, Available(n), {"Weak", "GnuUnique"})
           shared == {g \in Loaded \cap Dynamic : Defines(g, n)}
           best == Best(Selector(Sym, n, Available(n)))
<1>1. Available(n) \in SUBSET Bucket(n)
  BY DEF Available
<1>2. /\ strong # {} => best = Min(strong)
      /\ strong = {} /\ common # {} => best = Min(Largest(n, common))
      /\ strong = {} /\ common = {} /\ weak # {} => best = Min(weak)
      /\ best = None <=> Available(n) = {}
      /\ best # None => best \in Available(n)
  BY <1>1, BestChosen
<1>3. /\ Loaders(n, {"Strong", "Comdat"}) = strong /\ Loaders(n, {"Common"}) = common
      /\ Loaders(n, {"Weak", "GnuUnique"}) = weak
  BY DEF Loaders, OfKind, Available, Bucket, Defines, Defining, Loaded
<1>4. Available(n) = {} <=> strong = {} /\ common = {} /\ weak = {}
  BY DEF OfKind, Available, Bucket, Defines, Defining
<1> HIDE DEF strong, common, weak, best
<1>5. CASE Available(n) # {}
  <2>1. Winner(f, n) = best
    BY <1>2, <1>3, <1>4, <1>5 DEF Winner
  <2> QED
    BY <1>2, <1>5, <2>1 DEF Available
<1>6. CASE Available(n) = {}
  <2>1. shared # {} /\ Winner(f, n) = Min(shared)
    BY <1>3, <1>4, <1>6 DEF Winner
  <2>2. shared \in SUBSET Nat /\ shared \subseteq Loaded
    BY FilesAreNumbers DEF Loaded
  <2> HIDE DEF shared
  <2> QED
    BY <2>1, <2>2, MinProperties
<1> QED
  BY <1>5, <1>6

\* Where a reference of a loaded object ends: at the definition selected for its name if the
\* file it found was loaded, else, and it is weak then or found nothing, at the canonical symbol.
LEMMA ReferenceEnds ==
    ASSUME SelectionInv, phase = "done", NEW s \in References
    PROVE  LET f == s[1]
               n == s[2]
               t == Target(f, n)
           IN  /\ f \in File /\ n \in Name /\ s = <<f, n>> /\ Refers(f, n)
               /\ Sym[f][n].kind = "ref" => t = None \/ t \in Loaded
               /\ t # None /\ t \in Loaded =>
                     /\ Definition(s) = <<Selected(n), n>>
                     /\ Sym[f][n].vis = "Hidden" => "DOWNGRADE_TO_LOCAL" \in flags[<<t, n>>]
               /\ ~(t # None /\ t \in Loaded) =>
                     /\ nameToId[n] # None /\ Definition(s) = nameToId[n]
                     /\ Definition(s)[1] \in Loaded \cup {Synthetic}
<1> DEFINE f == s[1]
           n == s[2]
           t == Target(f, n)
<1>1. /\ f \in Loaded /\ f \notin Dynamic /\ f # Prelude /\ Refers(f, n)
      /\ f \in File /\ n \in Name /\ s = <<f, n>> /\ s \in SymbolId
  BY DEF References, SymbolId, Loaded
<1>2. /\ input \in LinkInput /\ Loaded = taken \cap File /\ errors = {} /\ undefined = {}
      /\ altTodo = {} /\ duplicates = {}
  BY DEF SelectionInv, NeededInv, Loaded, TakenInv, PhaseInv, RecordInv, DuplicateInv
<1>3. PICK item \in WorkItem : item[1] = f /\ n \in ItemNames(item)
  BY <1>1, ItemOf
<1>4. LookedUp(f, n)
  <2>1. todo[item] = {}
    BY DEF SelectionInv, NeededInv, PhaseInv
  <2> QED
    BY <1>1, <1>2, <1>3, <2>1 DEF SelectionInv, LookupInv
<1>5. t # None => t \in Bucket(n) /\ t # f
  BY <1>1, <1>2, TargetDefines, ReferencesDefineNothing DEF Bucket
<1>6. ASSUME Sym[f][n].kind = "ref", t # None PROVE t \in Loaded
  <2>1. Activates(f, n, t)
    BY <1>1, <1>5, <1>6 DEF Activates
  <2>2. t \in Needs(f)
    BY <1>1, <1>5, <1>6, <2>1 DEF Needs, Bucket
  <2>3. Closed(Loaded)
    BY NeededImplies DEF SelectionInv, ExactlyNeededLoaded
  <2> QED
    BY <1>1, <2>2, <2>3 DEF Closed
<1>7. UndefinedRecord(f, n) = {} <=> t # None /\ Sym[f][n].kind = "ref"
  BY <1>1, <1>5 DEF UndefinedRecord
<1> HIDE DEF t
<1>8. ASSUME t # None, t \in Loaded
      PROVE  /\ Definition(s) = <<Selected(n), n>>
             /\ Sym[f][n].vis = "Hidden" => "DOWNGRADE_TO_LOCAL" \in flags[<<t, n>>]
  <2>1. definition[s] = <<t, n>> /\ (Sym[f][n].vis = "Hidden" => "DOWNGRADE_TO_LOCAL" \in flags[<<t, n>>])
    BY <1>1, <1>4, <1>8 DEF LookedUp, t
  <2>2. definition[<<t, n>>] = <<Selected(n), n>>
    BY <1>1, <1>2, <1>5, <1>8 DEF SelectionInv, DefinitionInv, Bucket
  <2>3. <<t, n>> # None
    BY <1>1, <1>5, <1>8, SymbolsApart DEF Bucket
  <2> QED
    BY <2>1, <2>2, <2>3 DEF Definition
<1>9. ASSUME ~(t # None /\ t \in Loaded)
      PROVE  /\ nameToId[n] # None /\ Definition(s) = nameToId[n]
             /\ Definition(s)[1] \in Loaded \cup {Synthetic}
  <2>1. UndefinedRecord(f, n) # {}
    BY <1>6, <1>7, <1>9
  <2>2. nameToId[n] # None /\ definition[s] = nameToId[n]
    BY <1>1, <1>2, <1>4, <1>9, <2>1 DEF LookedUp, t
  <2>3. /\ definition[nameToId[n]] = nameToId[n]
        /\ \/ nameToId[n] = <<Synthetic, n>>
           \/ \E g \in File : nameToId[n] = <<g, n>> /\ g \in taken
    BY <1>1, <2>2 DEF SelectionInv, CanonicalInv
  <2>4. Definition(s) = nameToId[n]
    BY <2>2, <2>3 DEF Definition
  <2>5. nameToId[n][1] \in Loaded \cup {Synthetic}
    BY <1>2, <2>3
  <2> QED
    BY <2>2, <2>4, <2>5
<1> QED
  BY <1>1, <1>6, <1>8, <1>9 DEF t

LEMMA SelectionImplies == SelectionInv => DefinitionsSelected
<1> SUFFICES ASSUME SelectionInv, phase = "done" PROVE DefinitionsSelected
  BY DEF DefinitionsSelected, StrongReferencesBound, SettledWeakReferencesBound,
         SettledHiddenReferencesDowngrade, DuplicatesReported
<1>1. input \in LinkInput /\ None \notin Loaded
  BY FilesAreNumbers DEF SelectionInv, NeededInv, Loaded
<1>2. ASSUME NEW s \in References, Target(s[1], s[2]) # None, Target(s[1], s[2]) \in Loaded
      PROVE  /\ Bound(s)
             /\ Definition(s) = <<Winner(s[1], s[2]), s[2]>>
  BY <1>1, <1>2, ReferenceEnds, SelectedWins DEF Bound
<1>3. ASSUME NEW s \in References, ~(Target(s[1], s[2]) # None /\ Target(s[1], s[2]) \in Loaded),
             Winner(s[1], s[2]) = None
      PROVE  Bound(s)
  BY <1>3, ReferenceEnds DEF Bound
<1>4. StrongReferencesBound
  <2> SUFFICES ASSUME NEW s \in References, Sym[s[1]][s[2]].kind = "ref" PROVE Bound(s)
    BY DEF StrongReferencesBound
  <2>1. Target(s[1], s[2]) = None \/ Target(s[1], s[2]) \in Loaded
    BY ReferenceEnds
  <2>2. Target(s[1], s[2]) = None => Winner(s[1], s[2]) = None
    BY <1>1, ReferenceEnds, NothingWins
  <2> QED
    BY <1>2, <1>3, <2>1, <2>2
<1>5. SettledWeakReferencesBound
  <2> SUFFICES ASSUME NEW s \in References,
                      Target(s[1], s[2]) \in Loaded \/ Winner(s[1], s[2]) = None
               PROVE  Bound(s)
    BY DEF SettledWeakReferencesBound
  <2> QED
    BY <1>1, <1>2, <1>3
<1>6. SettledHiddenReferencesDowngrade
  <2> SUFFICES ASSUME NEW s \in References, Sym[s[1]][s[2]].vis = "Hidden",
                      Winner(s[1], s[2]) # None, Winner(s[1], s[2]) = Target(s[1], s[2])
               PROVE  "DOWNGRADE_TO_LOCAL" \in flags[Definition(s)]
    BY DEF SettledHiddenReferencesDowngrade
  <2>1. Target(s[1], s[2]) \in Loaded
    <3>1. s[1] \in File /\ s[2] \in Name
      BY ReferenceEnds
    <3> QED
      BY <1>1, <3>1, WinnerLoaded
  <2> QED
    BY <1>2, <2>1, ReferenceEnds
<1>7. DuplicatesReported
  <2>1. \A n \in Name : ~Ambiguous(n)
    BY DEF SelectionInv, DuplicateInv
  <2> QED
    BY <2>1 DEF DuplicatesReported, Ambiguous, Loaders
<1> QED
  BY <1>4, <1>5, <1>6, <1>7 DEF DefinitionsSelected

\* In every order in which files are loaded, names looked up and alternatives resolved, a link
\* that succeeds has bound every settled reference to the definition the selection rule names
\* for the files loaded in the end, with the visibility asked for, and has reported every
\* duplicate (resolve_symbol, select_symbol, canonicalise_undefined_symbols).
THEOREM DefinitionsAreSelected == Spec => []DefinitionsSelected
<1>1. SelectionInv => DefinitionsSelected
  BY SelectionImplies
<1> QED
  BY <1>1, SelectionInit, SelectionStep, PTL DEF Spec

=============================================================================
