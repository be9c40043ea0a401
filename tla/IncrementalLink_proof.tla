----------------------- MODULE IncrementalLink_proof -----------------------
(***************************************************************************)
(* Proofs about IncrementalLink, for any links, inputs, contents and       *)
(* circumstances: type correctness, that the state lock excludes and       *)
(* guards the state directory, and that a publishing index is marked.      *)
(***************************************************************************)
EXTENDS IncrementalLink, TLAPS

-----------------------------------------------------------------------------
(* Where a link is *)

PC == {"idle", "publication", "pubcheck", "lock", "fast", "recheck", "patch", "writepatch",
       "refreshpatch", "checkpatch", "load", "prepare", "classify", "verifyreuse", "open",
       "begin", "write", "verify", "finish", "finalverify", "remove", "install", "drop",
       "report", "hash", "clear", "lastverify", "done"}

\* Between acquire_incremental_state_lock, or begin_update, and the drop of the lock.
Holding == {"fast", "recheck", "patch", "writepatch", "refreshpatch", "checkpatch", "write",
            "verify", "finish", "finalverify", "remove", "install", "drop", "report", "hash",
            "clear"}

\* Before the lock is first asked for, or after the end.
Outside == {"idle", "publication", "pubcheck", "lock", "done"}

\* The link has made a state of its own.
HasPending == {"recheck", "patch", "writepatch", "refreshpatch", "checkpatch", "classify",
               "verifyreuse", "open", "begin", "write", "verify", "finish", "finalverify",
               "remove", "install", "drop", "report", "hash"}

\* ... and has mapped its inputs: a link that relinks or reuses what maybe_prepare found.
Loaded == {"prepare", "classify", "verifyreuse", "open", "begin", "write", "verify", "finish",
           "finalverify", "report", "hash", "lastverify"}

Relinking == {"reuse", "sections", "relink", "interrupted"}

\* The modes a link can be in at each place that depends on it.
ModeInv(l) ==
    /\ pc[l] \in {"recheck", "patch"} => mode[l] \in {"unchanged", "ambiguous"}
    /\ pc[l] \in {"writepatch", "refreshpatch", "checkpatch"} => mode[l] = "patch"
    /\ pc[l] = "verifyreuse" => mode[l] = "reuse"
    /\ pc[l] \in {"open", "write", "verify"} => mode[l] \in Relinking \ {"reuse"}
    /\ pc[l] \in {"begin", "finish", "lastverify"} => mode[l] \in Relinking
    /\ pc[l] \in {"remove", "install", "drop"} => mode[l] \in Relinking \cup {"ambiguous"}
    /\ pc[l] \in {"report", "hash", "finalverify"} => Defers(l)
    /\ pc[l] = "clear" => mode[l] \in Relinking \cup {"patch"}

\* The update marker is there while the output or the index is not what it was, and not
\* while the fast path relies on the state.
MarkerInv(l) ==
    /\ pc[l] \in {"writepatch", "refreshpatch", "checkpatch", "write", "verify", "finish",
                  "finalverify", "report", "hash", "clear"} => marker
    /\ pc[l] \in {"remove", "install", "drop"} => (marker <=> mode[l] # "ambiguous")
    /\ pc[l] \in {"recheck", "patch"} => ~marker

\* What a process that waits has been told.
ReportInv(l) ==
    /\ pc[l] = "done" => reported[l] # "no"
    /\ reported[l] # "no" => pc[l] \in {"hash", "remove", "install", "drop", "clear", "done"}
    /\ pc[l] = "hash" => reported[l] = "success"
    /\ reported[l] # "no" /\ pc[l] # "done" => reported[l] = "success" /\ Defers(l)
    /\ pc[l] = "clear" /\ reported[l] = "no" => ~Defers(l)

ControlOK ==
    /\ setting \in Setting
    /\ pc \in [Link -> PC]
    /\ lock \in Link \cup {None}
    /\ marker \in BOOLEAN
    /\ mode \in [Link -> {"none", "unchanged", "ambiguous", "patch", "reuse", "sections",
                          "relink", "interrupted"}]
    /\ reported \in [Link -> {"no", "success", "error"}]

\* The lock is held by the link that is between taking and dropping it.
LockInv == \A l \in Link : pc[l] \in Holding <=> lock = l

ControlInv ==
    /\ ControlOK /\ LockInv
    /\ \A l \in Link : ModeInv(l) /\ MarkerInv(l) /\ ReportInv(l)

-----------------------------------------------------------------------------
(* Types and kinds of states *)

FullState(s) == s.kind = "full" /\ \A i \in Input : s.inputs[i].hash # None

Mapping == [Input -> [content : Content, ino : Nat, m : Nat]]

DataOK ==
    /\ now \in Nat /\ edits \in Nat
    /\ file \in [Input -> [content : Content, ino : Nat, m : Nat, c : Nat]]
    /\ output \in [args : Args \cup {None}, in : [Input -> Content \cup {None}],
                   ino : Nat, m : Nat]
    /\ index \in State \cup {None}
    /\ update = None \/ \E I \in SUBSET Input : update \in MetadataUpdate(I)
    /\ startFile \in Nat
    /\ mapped \in [Link -> Mapping \cup {None}]
    /\ prev \in [Link -> State \cup {None}]
    /\ pending \in [Link -> State \cup {None}]
    /\ changed \in [Link -> SUBSET Input]
    /\ rewritten \in [Link -> SUBSET Input]
    /\ seen \in [Link -> [Input -> SUBSET Content]]

LocalsInv(l) ==
    /\ pc[l] \in HasPending => pending[l] \in State
    /\ (\/ pc[l] \in Loaded
        \/ pc[l] \in {"remove", "install", "drop", "clear"} /\ mode[l] \in Relinking)
         => mapped[l] \in Mapping
    /\ pc[l] = "pubcheck" => prev[l] \in State
    /\ pc[l] \in {"recheck", "patch", "writepatch", "refreshpatch", "checkpatch"} =>
         index # None

\* What kind of index there is and will be.
KindInv(l) ==
    /\ pc[l] \in {"recheck", "patch", "writepatch", "refreshpatch", "checkpatch"} =>
         FullState(index) /\ FullState(pending[l])
    /\ pc[l] \in {"classify", "verifyreuse", "open", "begin", "write", "verify", "finish",
                  "finalverify", "remove"} => pending[l].kind = "full"
    /\ pc[l] \in {"remove", "install"} /\ ~FirstPass(l) => FullState(pending[l])
    /\ pc[l] = "install" /\ FirstPass(l) => pending[l].kind = "publishing"
    /\ pc[l] = "drop" => index = pending[l] /\ (~FirstPass(l) => FullState(index))
    /\ pc[l] = "clear" => index # None /\ FullState(index)

DiskInv ==
    /\ index # None /\ index.kind = "publishing" => marker
    /\ index # None /\ index.kind = "full" => FullState(index)
    /\ update # None => \A i \in DOMAIN update.inputs : update.inputs[i].hash # None

TypeInv == DataOK /\ \A l \in Link : LocalsInv(l)

StateInv == DiskInv /\ \A l \in Link : KindInv(l)

-----------------------------------------------------------------------------
(* The control invariant *)

LEMMA EndControl ==
    ASSUME ControlInv, NEW l \in Link, pc[l] \notin {"idle", "done"}, UNCHANGED setting,
           NEW outcome \in {"success", "error"}, End(l, outcome), UNCHANGED marker
    PROVE  ControlInv'
BY ConstantsAssumption
   DEF ControlInv, ControlOK, LockInv, ModeInv, MarkerInv, ReportInv, Defers, End, Goto, Unlock,
       Forget, PC, Holding, Relinking

LEMMA LeaveControl ==
    ASSUME ControlInv, NEW l \in Link, pc[l] \in Holding, reported[l] = "no", UNCHANGED setting,
           LeaveFastPath(l), UNCHANGED marker
    PROVE  ControlInv'
BY ConstantsAssumption
   DEF ControlInv, ControlOK, LockInv, ModeInv, MarkerInv, ReportInv, Defers, LeaveFastPath,
       Goto, Unlock, PC, Holding, Relinking

LEMMA ControlInit == Init => ControlInv
<1> SUFFICES ASSUME Init PROVE ControlInv
  OBVIOUS
<1>1. /\ setting \in Setting /\ marker = FALSE /\ lock = None
      /\ pc = [l \in Link |-> "idle"] /\ mode = [l \in Link |-> "none"]
      /\ reported = [l \in Link |-> "no"]
  BY DEF Init
<1>2. ControlOK
  BY <1>1 DEF ControlOK, PC
<1>3. ASSUME NEW l \in Link PROVE pc[l] = "idle" /\ reported[l] = "no" /\ lock # l
  BY <1>1, ConstantsAssumption
<1> QED
  BY <1>2, <1>3 DEF ControlInv, LockInv, ModeInv, MarkerInv, ReportInv, Holding

LEMMA ControlStep == ControlInv /\ [Next]_vars => ControlInv'
<1> SUFFICES ASSUME ControlInv, [Next]_vars PROVE ControlInv'
  OBVIOUS
<1> USE ConstantsAssumption
<1> USE DEF ControlInv, ControlOK, LockInv, ModeInv, MarkerInv, ReportInv, Defers, PC, Holding,
            Relinking, Goto, diskVars, locals
<1>1. CASE UNCHANGED vars \/ Tick \/ ModifyOutput \/ \E i \in Input, v \in Content : Edit(i, v)
  <2>1. UNCHANGED <<setting, pc, lock, marker, mode, reported>>
    BY <1>1 DEF vars, Tick, ModifyOutput, Edit
  <2> QED
    BY <2>1
<1>2. ASSUME NEW l \in Link, StartLink(l) PROVE ControlInv'
  BY <1>2 DEF StartLink
<1>3. ASSUME NEW l \in Link, ReadDuringPublication(l) PROVE ControlInv'
  BY <1>3 DEF ReadDuringPublication
<1>4. ASSUME NEW l \in Link, CheckPublication(l) PROVE ControlInv'
  BY <1>4, EndControl DEF CheckPublication
<1>5. ASSUME NEW l \in Link, AcquireStateLock(l) PROVE ControlInv'
  BY <1>5 DEF AcquireStateLock
<1>6. ASSUME NEW l \in Link, CheckInputs(l) PROVE ControlInv'
  <2>1. CASE ~FastPathOpen(l)
    BY <1>6, <2>1, LeaveControl DEF CheckInputs
  <2>2. CASE FastPathOpen(l)
    <3>1. /\ ~marker /\ UNCHANGED <<setting, lock, marker, reported>>
          /\ pc[l] = "fast" /\ \E next \in {"recheck", "patch"} : pc' = [pc EXCEPT ![l] = next]
          /\ \E m \in {"unchanged", "ambiguous"} : mode' = [mode EXCEPT ![l] = m]
      BY <1>6, <2>2 DEF CheckInputs, FastPathOpen
    <3> QED
      BY <3>1
  <2> QED
    BY <2>1, <2>2
<1>7. ASSUME NEW l \in Link, RecheckInputs(l) PROVE ControlInv'
  <2>1. CASE LeaveFastPath(l)
    BY <1>7, <2>1, LeaveControl DEF RecheckInputs
  <2>2. CASE End(l, "success")
    BY <1>7, <2>2, EndControl DEF RecheckInputs
  <2>3. CASE mode[l] = "ambiguous" /\ Goto(l, "remove") /\ UNCHANGED <<lock, mode, reported>>
    BY <1>7, <2>3 DEF RecheckInputs
  <2> QED
    BY <1>7, <2>1, <2>2, <2>3 DEF RecheckInputs
<1>8. ASSUME NEW l \in Link, PatchUnsupported(l) PROVE ControlInv'
  BY <1>8, LeaveControl DEF PatchUnsupported
<1>9. ASSUME NEW l \in Link, StartPatch(l) PROVE ControlInv'
  BY <1>9 DEF StartPatch, MarkedForUpdate
<1>10. ASSUME NEW l \in Link, WritePatch(l) \/ RefreshPatched(l) PROVE ControlInv'
  <2>1. /\ UNCHANGED <<setting, lock, marker, mode, reported>>
        /\ pc[l] \in {"writepatch", "refreshpatch"}
        /\ \E next \in {"refreshpatch", "checkpatch"} : Goto(l, next)
    BY <1>10 DEF WritePatch, RefreshPatched
  <2> QED
    BY <2>1
<1>11. ASSUME NEW l \in Link, CheckPatched(l) PROVE ControlInv'
  <2>1. CASE LeaveFastPath(l) /\ UNCHANGED update
    BY <1>11, <2>1, LeaveControl DEF CheckPatched
  <2>2. CASE Goto(l, "clear") /\ UNCHANGED <<lock, mode, reported>>
    <3>1. pc[l] = "checkpatch" /\ UNCHANGED <<setting, marker>>
      BY <1>11 DEF CheckPatched
    <3> QED
      BY <2>2, <3>1
  <2> QED
    BY <1>11, <2>1, <2>2 DEF CheckPatched
<1>12. ASSUME NEW l \in Link, LoadInputs(l) \/ ReadPrevious(l) PROVE ControlInv'
  BY <1>12 DEF LoadInputs, ReadPrevious
<1>13. ASSUME NEW l \in Link, PrepareState(l) PROVE ControlInv'
  <2>1. Classify(l) \in Relinking
    BY DEF Classify
  <2> QED
    BY <1>13, <2>1 DEF PrepareState
<1>14. ASSUME NEW l \in Link, VerifyInputs(l) PROVE ControlInv'
  <2>1. CASE \E outcome \in {"success", "error"} : End(l, outcome)
    BY <1>14, <2>1, EndControl DEF VerifyInputs
  <2>2. CASE pc[l] = "verifyreuse" /\ Goto(l, "begin") /\ UNCHANGED <<lock, reported, mode>>
    BY <1>14, <2>2 DEF VerifyInputs
  <2>3. CASE pc[l] = "verify" /\ Goto(l, "finish") /\ UNCHANGED <<lock, reported, mode>>
    BY <1>14, <2>3 DEF VerifyInputs
  <2>4. CASE pc[l] = "finalverify" /\ Goto(l, "remove") /\ UNCHANGED <<lock, reported, mode>>
    BY <1>14, <2>4 DEF VerifyInputs
  <2> QED
    BY <1>14, <2>1, <2>2, <2>3, <2>4 DEF VerifyInputs
<1>15. ASSUME NEW l \in Link, OpenOutput(l) \/ WriteOutput(l) \/ RemoveIndex(l) \/ InstallIndex(l)
       PROVE ControlInv'
  BY <1>15 DEF OpenOutput, WriteOutput, RemoveIndex, InstallIndex
<1>16. ASSUME NEW l \in Link, BeginUpdate(l) PROVE ControlInv'
  BY <1>16 DEF BeginUpdate, MarkedForUpdate
<1>17. ASSUME NEW l \in Link, PrepareFinish(l) PROVE ControlInv'
  <2>1. /\ UNCHANGED <<setting, lock, marker, mode, reported>>
        /\ pc[l] = "finish"
        /\ Goto(l, IF Defers(l) THEN "finalverify" ELSE "remove")
    BY <1>17 DEF PrepareFinish
  <2> QED
    BY <2>1
<1>18. ASSUME NEW l \in Link, RemoveMetadataUpdate(l) PROVE ControlInv'
  <2>1. CASE mode[l] = "ambiguous"
    BY <1>18, <2>1, EndControl DEF RemoveMetadataUpdate
  <2>2. CASE mode[l] # "ambiguous"
    BY <1>18, <2>2 DEF RemoveMetadataUpdate, FirstPass
  <2> QED
    BY <2>1, <2>2
<1>19. ASSUME NEW l \in Link, InformParentDone(l) \/ HashInputs(l) PROVE ControlInv'
  BY <1>19 DEF InformParentDone, HashInputs
<1>20. ASSUME NEW l \in Link, ClearMarker(l) PROVE ControlInv'
  <2>1. pc[l] = "clear" /\ lock = l /\ UNCHANGED setting /\ marker' = FALSE /\ lock' = None
    BY <1>20 DEF ClearMarker, End, Unlock
  <2>2. \A k \in Link : k # l => pc[k] \notin Holding
    BY <2>1
  <2>3. \E next \in {"lastverify", "done"} : pc' = [pc EXCEPT ![l] = next]
    BY <1>20 DEF ClearMarker, End
  <2>4. ControlOK' /\ LockInv'
    <3>1. pc' \in [Link -> PC] /\ pc'[l] \notin Holding
      BY <2>3
    <3>2. mode' \in [Link -> {"none", "unchanged", "ambiguous", "patch", "reuse", "sections",
                              "relink", "interrupted"}]
      BY <1>20 DEF ClearMarker, End, Forget
    <3>3. reported' \in [Link -> {"no", "success", "error"}]
      BY <1>20 DEF ClearMarker, End
    <3>4. \A k \in Link : pc'[k] \notin Holding /\ lock' # k
      BY <2>1, <2>2, <2>3, <3>1
    <3> QED
      BY <2>1, <3>1, <3>2, <3>3, <3>4
  <2>5. ASSUME NEW k \in Link, k # l PROVE (ModeInv(k) /\ MarkerInv(k) /\ ReportInv(k))'
    <3>1. pc'[k] = pc[k] /\ mode'[k] = mode[k] /\ reported'[k] = reported[k]
      BY <1>20, <2>3, <2>5 DEF ClearMarker, End, Forget
    <3> QED
      BY <2>1, <2>2, <2>5, <3>1
  <2>6. (ModeInv(l) /\ MarkerInv(l) /\ ReportInv(l))'
    <3>1. CASE End(l, "success")
      <4>1. pc'[l] = "done" /\ reported'[l] # "no"
        BY <3>1 DEF End
      <4> QED
        BY <4>1
    <3>2. CASE Goto(l, "lastverify") /\ UNCHANGED <<reported, mode>>
               /\ ~(mode[l] = "patch" \/ reported[l] = "success")
      <4>1. pc'[l] = "lastverify" /\ reported'[l] = "no" /\ mode'[l] \in Relinking
        BY <2>1, <3>2
      <4> QED
        BY <4>1
    <3> QED
      BY <1>20, <3>1, <3>2 DEF ClearMarker
  <2> QED
    BY <2>4, <2>5, <2>6
<1>21. ASSUME NEW l \in Link, Crash(l) PROVE ControlInv'
  BY <1>21, EndControl DEF Crash
<1> QED
  BY <1>1, <1>2, <1>3, <1>4, <1>5, <1>6, <1>7, <1>8, <1>9, <1>10, <1>11, <1>12, <1>13, <1>14,
     <1>15, <1>16, <1>17, <1>18, <1>19, <1>20, <1>21
     DEF Next, LinkStep

-----------------------------------------------------------------------------
(* What the operators on states return *)

LEMMA StampType ==
    ASSUME now \in Nat PROVE Stamp \in Nat /\ Stamp >= now
BY DEF Stamp

LEMMA IdentityType ==
    ASSUME NEW f \in [content : Content, ino : Nat, m : Nat, c : Nat]
    PROVE  FileIdentity(f) \in Identity
BY DEF FileIdentity, Identity

LEMMA OutputIdentityType ==
    ASSUME DataOK PROVE OutputIdentity \in [ino : Nat, m : Nat]
BY DEF DataOK, OutputIdentity

LEMMA ReadStateType ==
    ASSUME DataOK PROVE ReadState \in State \cup {None} /\ (ReadState = None <=> index = None)
<1>1. CASE index = None
  BY <1>1 DEF ReadState
<1>2. CASE index # None /\ update = None
  BY <1>2 DEF ReadState, ApplyMetadataUpdate, DataOK
<1>3. CASE index # None /\ update # None
  <2>1. PICK I \in SUBSET Input : update \in MetadataUpdate(I)
    BY <1>3 DEF DataOK
  <2>2. index \in State
    BY <1>3 DEF DataOK
  <2> DEFINE both == [i \in Input |-> IF i \in DOMAIN update.inputs THEN update.inputs[i]
                                                                 ELSE index.inputs[i]]
  <2>3. both \in [Input -> InputState]
    BY <2>1, <2>2 DEF MetadataUpdate, State
  <2>4. ReadState = [index EXCEPT !.start = update.start, !.out = update.out, !.inputs = both]
    BY <1>3 DEF ReadState, ApplyMetadataUpdate
  <2> HIDE DEF both
  <2>5. ReadState \in State
    BY <2>1, <2>2, <2>3, <2>4 DEF MetadataUpdate, State
  <2> QED
    BY <1>3, <2>5, NoneAssumption
<1> QED
  BY <1>1, <1>2, <1>3

\* The fields of the state read from disk.
LEMMA ReadStateFields ==
    ASSUME DataOK, index # None
    PROVE  /\ ReadState.kind = index.kind /\ ReadState.args = index.args
           /\ update = None => ReadState = index
           /\ update # None =>
                /\ ReadState.start = update.start /\ ReadState.out = update.out
                /\ \A i \in Input : ReadState.inputs[i] =
                      IF i \in DOMAIN update.inputs THEN update.inputs[i] ELSE index.inputs[i]
<1>1. index \in State
  BY DEF DataOK
<1>2. CASE update = None
  BY <1>2 DEF ReadState, ApplyMetadataUpdate
<1>3. CASE update # None
  BY <1>1, <1>3 DEF ReadState, ApplyMetadataUpdate, State
<1> QED
  BY <1>2, <1>3

LEMMA SnapshottedType ==
    ASSUME DataOK, NEW I
    PROVE  /\ Snapshotted(I) \in [Input -> [content : Content, ino : Nat, m : Nat, c : Nat]]
           /\ SnapshotTime(I) \in Nat /\ SnapshotTime(I) >= now
           /\ \A i \in Input : /\ Snapshotted(I)[i].content = file[i].content
                               /\ Snapshotted(I)[i].ino = file[i].ino
                               /\ Snapshotted(I)[i].m = file[i].m
<1>1. now \in Nat /\ Stamp \in Nat /\ Stamp >= now
  BY StampType DEF DataOK
<1>2. SnapshotTime(I) \in Nat /\ SnapshotTime(I) >= now
  BY <1>1 DEF SnapshotTime
<1>3. ASSUME NEW i \in Input
      PROVE  /\ Snapshotted(I)[i] \in [content : Content, ino : Nat, m : Nat, c : Nat]
             /\ Snapshotted(I)[i].content = file[i].content
             /\ Snapshotted(I)[i].ino = file[i].ino /\ Snapshotted(I)[i].m = file[i].m
  BY <1>1 DEF DataOK, Snapshotted
<1>4. Snapshotted(I) = [i \in Input |-> Snapshotted(I)[i]]
  BY DEF Snapshotted
<1> QED
  BY <1>2, <1>3, <1>4

LEMMA HashedType ==
    ASSUME NEW l \in Link, NEW inputs \in [Input -> InputState], NEW I, mapped[l] \in Mapping
    PROVE  /\ Hashed(l, inputs, I) \in [Input -> InputState]
           /\ \A i \in Input :
                /\ Hashed(l, inputs, I)[i].id = inputs[i].id
                /\ Hashed(l, inputs, I)[i].hash =
                     IF i \in I /\ inputs[i].hash = None THEN mapped[l][i].content
                                                        ELSE inputs[i].hash
                /\ i \in I => Hashed(l, inputs, I)[i].hash # None
<1>1. \A i \in Input : mapped[l][i].content \in Content /\ mapped[l][i].content # None
  BY ConstantsAssumption DEF Mapping
<1>2. \A i \in Input : /\ Hashed(l, inputs, I)[i] \in InputState
                       /\ Hashed(l, inputs, I)[i].id = inputs[i].id
                       /\ Hashed(l, inputs, I)[i].hash =
                            IF i \in I /\ inputs[i].hash = None THEN mapped[l][i].content
                                                               ELSE inputs[i].hash
  BY <1>1 DEF Hashed, InputState
<1>3. Hashed(l, inputs, I) = [i \in Input |-> Hashed(l, inputs, I)[i]]
  BY DEF Hashed
<1>4. Hashed(l, inputs, I) \in [Input -> InputState]
  BY <1>2, <1>3
<1> QED
  BY <1>1, <1>2, <1>4

LEMMA RefreshedType ==
    ASSUME NEW inputs \in [Input -> InputState], NEW I,
           NEW files \in [Input -> [content : Content, ino : Nat, m : Nat, c : Nat]]
    PROVE  /\ Refreshed(inputs, I, files) \in [Input -> InputState]
           /\ \A i \in Input :
                /\ Refreshed(inputs, I, files)[i].hash = inputs[i].hash
                /\ Refreshed(inputs, I, files)[i].id =
                     IF i \in I THEN FileIdentity(files[i]) ELSE inputs[i].id
BY DEF Refreshed, InputState, FileIdentity, Identity

LEMMA FromInputFileType ==
    ASSUME DataOK, NEW l \in Link, mapped[l] \in Mapping, NEW s \in State \cup {None},
           NEW i \in Input
    PROVE  FromInputFile(l, s, i) \in InputState
<1>1. FileIdentity(file[i]) \in Identity
  BY IdentityType DEF DataOK
<1> QED
  BY <1>1 DEF FromInputFile, Mapping, State, InputState

-----------------------------------------------------------------------------
(* Type correctness *)

\* A step of one link leaves the others where they are.
LEMMA Frame ==
    ASSUME ControlOK, DataOK, NEW l \in Link, StartLink(l) \/ LinkStep(l) \/ Crash(l),
           NEW k \in Link, k # l
    PROVE  /\ pc'[k] = pc[k] /\ mapped'[k] = mapped[k] /\ prev'[k] = prev[k]
           /\ pending'[k] = pending[k] /\ mode'[k] = mode[k] /\ changed'[k] = changed[k]
           /\ rewritten'[k] = rewritten[k] /\ reported'[k] = reported[k] /\ seen'[k] = seen[k]
<1> USE DEF ControlOK, DataOK, Goto, locals, diskVars
<1>1. CASE StartLink(l) \/ ReadDuringPublication(l) \/ AcquireStateLock(l)
  BY <1>1 DEF StartLink, ReadDuringPublication, AcquireStateLock
<1>2. CASE CheckPublication(l)
  BY <1>2 DEF CheckPublication, End, Forget
<1>3. CASE CheckInputs(l)
  BY <1>3 DEF CheckInputs, LeaveFastPath
<1>4. CASE RecheckInputs(l)
  BY <1>4 DEF RecheckInputs, LeaveFastPath, End, Forget
<1>5. CASE PatchUnsupported(l) \/ CheckPatched(l)
  BY <1>5 DEF PatchUnsupported, CheckPatched, LeaveFastPath
<1>6. CASE StartPatch(l) \/ WritePatch(l) \/ RefreshPatched(l)
  BY <1>6 DEF StartPatch, WritePatch, RefreshPatched
<1>7. CASE LoadInputs(l) \/ ReadPrevious(l) \/ PrepareState(l)
  BY <1>7 DEF LoadInputs, ReadPrevious, PrepareState
<1>8. CASE VerifyInputs(l)
  BY <1>8 DEF VerifyInputs, End, Forget
<1>9. CASE OpenOutput(l) \/ BeginUpdate(l) \/ WriteOutput(l)
  BY <1>9 DEF OpenOutput, BeginUpdate, WriteOutput
<1>10. CASE PrepareFinish(l) \/ RemoveIndex(l) \/ InstallIndex(l)
  BY <1>10 DEF PrepareFinish, RemoveIndex, InstallIndex
<1>11. CASE RemoveMetadataUpdate(l) \/ ClearMarker(l) \/ Crash(l)
  BY <1>11 DEF RemoveMetadataUpdate, ClearMarker, Crash, End, Forget
<1>12. CASE InformParentDone(l) \/ HashInputs(l)
  BY <1>12 DEF InformParentDone, HashInputs
<1> QED
  BY <1>1, <1>2, <1>3, <1>4, <1>5, <1>6, <1>7, <1>8, <1>9, <1>10, <1>11, <1>12 DEF LinkStep

\* A link that holds the lock is the only one that changes what is in the state directory.
LEMMA Guarded ==
    ASSUME ControlInv, NEW l \in Link, StartLink(l) \/ LinkStep(l) \/ Crash(l),
           NEW k \in Link, k # l, pc[k] \in Holding
    PROVE  UNCHANGED <<index, update, marker, startFile>>
<1>1. lock = k /\ lock # l /\ lock # None /\ pc[l] \notin Holding
  BY ConstantsAssumption DEF ControlInv, LockInv, Holding
<1> USE DEF Holding, diskVars
<1>2. CASE StartLink(l) \/ ReadDuringPublication(l) \/ AcquireStateLock(l) \/ CheckPublication(l)
  BY <1>1, <1>2 DEF StartLink, ReadDuringPublication, AcquireStateLock, CheckPublication
<1>3. CASE CheckInputs(l) \/ RecheckInputs(l) \/ PatchUnsupported(l) \/ StartPatch(l)
           \/ WritePatch(l) \/ RefreshPatched(l) \/ CheckPatched(l)
  BY <1>1, <1>3 DEF CheckInputs, RecheckInputs, PatchUnsupported, StartPatch, WritePatch,
                    RefreshPatched, CheckPatched
<1>4. CASE LoadInputs(l) \/ ReadPrevious(l) \/ PrepareState(l) \/ VerifyInputs(l)
           \/ OpenOutput(l) \/ BeginUpdate(l)
  BY <1>1, <1>4 DEF LoadInputs, ReadPrevious, PrepareState, VerifyInputs, OpenOutput, BeginUpdate
<1>5. CASE WriteOutput(l) \/ PrepareFinish(l) \/ RemoveIndex(l) \/ InstallIndex(l)
           \/ RemoveMetadataUpdate(l) \/ InformParentDone(l) \/ HashInputs(l) \/ ClearMarker(l)
  BY <1>1, <1>5 DEF WriteOutput, PrepareFinish, RemoveIndex, InstallIndex,
                    RemoveMetadataUpdate, InformParentDone, HashInputs, ClearMarker
<1>6. CASE Crash(l)
  BY <1>6 DEF Crash
<1> QED
  BY <1>2, <1>3, <1>4, <1>5, <1>6 DEF LinkStep

\* Every step of a link takes it to another place, and what it has reported stands.
LEMMA Moves ==
    ASSUME ControlOK, NEW l \in Link, StartLink(l) \/ LinkStep(l) \/ Crash(l)
    PROVE  pc'[l] # pc[l] /\ (reported[l] # "no" => reported'[l] # "no")
<1> USE DEF ControlOK, Goto, End, LeaveFastPath, locals
<1>1. CASE StartLink(l) \/ ReadDuringPublication(l) \/ CheckPublication(l) \/ AcquireStateLock(l)
  BY <1>1 DEF StartLink, ReadDuringPublication, CheckPublication, AcquireStateLock
<1>2. CASE CheckInputs(l) \/ RecheckInputs(l) \/ PatchUnsupported(l) \/ CheckPatched(l)
  BY <1>2 DEF CheckInputs, RecheckInputs, PatchUnsupported, CheckPatched
<1>3. CASE StartPatch(l) \/ WritePatch(l) \/ RefreshPatched(l)
  BY <1>3 DEF StartPatch, WritePatch, RefreshPatched
<1>4. CASE LoadInputs(l) \/ ReadPrevious(l) \/ PrepareState(l) \/ VerifyInputs(l)
  BY <1>4 DEF LoadInputs, ReadPrevious, PrepareState, VerifyInputs
<1>5. CASE OpenOutput(l) \/ BeginUpdate(l) \/ WriteOutput(l) \/ PrepareFinish(l)
  BY <1>5 DEF OpenOutput, BeginUpdate, WriteOutput, PrepareFinish
<1>6. CASE RemoveIndex(l) \/ InstallIndex(l) \/ RemoveMetadataUpdate(l) \/ InformParentDone(l)
           \/ HashInputs(l) \/ ClearMarker(l) \/ Crash(l)
  BY <1>6 DEF RemoveIndex, InstallIndex, RemoveMetadataUpdate, InformParentDone, HashInputs,
              ClearMarker, Crash
<1> QED
  BY <1>1, <1>2, <1>3, <1>4, <1>5, <1>6 DEF LinkStep

LEMMA TypeInit == Init => TypeInv
<1> SUFFICES ASSUME Init PROVE TypeInv
  OBVIOUS
<1>1. DataOK
  BY ConstantsAssumption DEF Init, DataOK, Mapping
<1>2. ASSUME NEW l \in Link PROVE LocalsInv(l)
  BY <1>2 DEF Init, LocalsInv, HasPending, Loaded
<1> QED
  BY <1>1, <1>2 DEF TypeInv

\* What the end of a link, and leaving the fast path, do to the data.
LEMMA EndType ==
    ASSUME TypeInv, NEW l \in Link, NEW outcome, End(l, outcome), ControlOK
    PROVE  /\ LocalsInv(l)'
           /\ mapped' \in [Link -> Mapping \cup {None}]
           /\ prev' \in [Link -> State \cup {None}]
           /\ pending' \in [Link -> State \cup {None}]
           /\ changed' \in [Link -> SUBSET Input]
           /\ rewritten' \in [Link -> SUBSET Input]
<1>1. pc'[l] = "done"
  BY DEF End, Goto, ControlOK
<1>2. LocalsInv(l)'
  BY <1>1 DEF LocalsInv, HasPending, Loaded
<1> QED
  BY <1>2 DEF End, Forget, TypeInv, DataOK

LEMMA LeaveType ==
    ASSUME TypeInv, NEW l \in Link, LeaveFastPath(l), ControlOK
    PROVE  /\ LocalsInv(l)'
           /\ mapped' \in [Link -> Mapping \cup {None}]
           /\ prev' \in [Link -> State \cup {None}]
           /\ pending' \in [Link -> State \cup {None}]
           /\ changed' \in [Link -> SUBSET Input]
           /\ rewritten' \in [Link -> SUBSET Input]
<1>1. pc'[l] = "load"
  BY DEF LeaveFastPath, Goto, ControlOK
<1>2. LocalsInv(l)'
  BY <1>1 DEF LocalsInv, HasPending, Loaded
<1> QED
  BY <1>2 DEF LeaveFastPath, TypeInv, DataOK

LEMMA TypeStep == ControlInv /\ TypeInv /\ [Next]_vars => TypeInv'
<1> SUFFICES ASSUME ControlInv, TypeInv, [Next]_vars PROVE TypeInv'
  OBVIOUS
<1> ControlOK /\ DataOK /\ now \in Nat /\ Stamp \in Nat
  BY StampType DEF ControlInv, TypeInv, DataOK
<1> ReadState \in State \cup {None} /\ (ReadState = None <=> index = None)
  BY ReadStateType
<1>a. ASSUME NEW l \in Link, StartLink(l) \/ LinkStep(l) \/ Crash(l), DataOK', LocalsInv(l)'
      PROVE  TypeInv'
  <2>1. ASSUME NEW k \in Link, k # l PROVE LocalsInv(k)'
    <3>1. pc[k] \in Holding => index' = index
      BY <1>a, <2>1, Guarded
    <3> QED
      BY <1>a, <2>1, <3>1, Frame DEF TypeInv, LocalsInv, Holding
  <2> QED
    BY <1>a, <2>1 DEF TypeInv
<1>1. CASE UNCHANGED vars
  BY <1>1 DEF vars, TypeInv, DataOK, LocalsInv
<1>2. CASE Tick
  <2>1. now' \in Nat
    BY <1>2, ConstantsAssumption DEF Tick
  <2> QED
    BY <1>2, <2>1 DEF Tick, TypeInv, DataOK, LocalsInv
<1>3. CASE ModifyOutput
  <2>1. output' \in [args : Args \cup {None}, in : [Input -> Content \cup {None}],
                     ino : Nat, m : Nat]
    BY <1>3 DEF ModifyOutput, DataOK
  <2> QED
    BY <1>3, <2>1 DEF ModifyOutput, TypeInv, DataOK, LocalsInv
<1>4. ASSUME NEW i \in Input, NEW v \in Content, Edit(i, v) PROVE TypeInv'
  <2>1. file' \in [Input -> [content : Content, ino : Nat, m : Nat, c : Nat]]
    <3>1. \E n \in Nat : file' = [file EXCEPT ![i] =
                                   [content |-> v, ino |-> n, m |-> Stamp, c |-> Stamp]]
      <4>1. file[i].ino \in Nat /\ file[i].ino + 1 \in Nat
        BY DEF DataOK
      <4> QED
        BY <1>4, <4>1 DEF Edit
    <3> QED
      BY <3>1 DEF DataOK
  <2>2. /\ mapped' \in [Link -> Mapping \cup {None}]
        /\ \A l \in Link : mapped[l] \in Mapping => mapped'[l] \in Mapping
    <3>1. ASSUME NEW l \in Link, mapped[l] \in Mapping
          PROVE  [mapped[l] EXCEPT ![i].content = v] \in Mapping
      BY <3>1 DEF Mapping
    <3>2. CASE UNCHANGED mapped
      BY <3>2 DEF DataOK
    <3>3. CASE mapped' = [l \in Link |-> IF mapped[l] # None /\ mapped[l][i].ino = file[i].ino
                                          THEN [mapped[l] EXCEPT ![i].content = v]
                                          ELSE mapped[l]]
      BY <3>1, <3>3, NoneAssumption DEF DataOK
    <3> QED
      BY <1>4, <3>2, <3>3 DEF Edit
  <2>3. seen' \in [Link -> [Input -> SUBSET Content]]
    BY <1>4 DEF Edit, DataOK
  <2>4. DataOK'
    BY <1>4, <2>1, <2>2, <2>3 DEF Edit, DataOK
  <2>5. UNCHANGED <<pc, pending, prev, mode, index>>
    BY <1>4 DEF Edit
  <2> QED
    BY <2>2, <2>4, <2>5 DEF TypeInv, LocalsInv
<1>5. ASSUME NEW l \in Link, StartLink(l) \/ LinkStep(l) \/ Crash(l)
      PROVE  DataOK' /\ LocalsInv(l)'
  <2> USE DEF ControlOK, Goto, diskVars
  <2> DEFINE FileType == [Input -> [content : Content, ino : Nat, m : Nat, c : Nat]]
             OutputType == [args : Args \cup {None}, in : [Input -> Content \cup {None}],
                            ino : Nat, m : Nat]
             LocalsOK == LocalsInv(l)
  <2>1. CASE StartLink(l)
    <3>1. DataOK'
      BY <2>1 DEF StartLink, DataOK, locals
    <3>2. pc'[l] = "publication"
      BY <2>1 DEF StartLink
    <3> QED
      BY <3>1, <3>2 DEF LocalsInv, HasPending, Loaded
  <2>2. CASE ReadDuringPublication(l)
    <3>1. prev' \in [Link -> State \cup {None}]
      BY <2>2 DEF ReadDuringPublication, DataOK
    <3>2. DataOK'
      BY <2>2, <3>1 DEF ReadDuringPublication, DataOK
    <3>3. pc'[l] = "lock" \/ (pc'[l] = "pubcheck" /\ prev'[l] \in State)
      BY <2>2 DEF ReadDuringPublication, DataOK
    <3> QED
      BY <3>2, <3>3 DEF LocalsInv, HasPending, Loaded
  <2>3. CASE CheckPublication(l)
    <3>1. CASE End(l, "success")
      BY <2>3, <3>1, EndType DEF CheckPublication, DataOK
    <3>2. CASE pc' = [pc EXCEPT ![l] = "lock"] /\ prev' = [prev EXCEPT ![l] = None]
               /\ UNCHANGED <<mapped, pending, changed, rewritten>>
      <4>1. DataOK'
        BY <2>3, <3>2 DEF CheckPublication, DataOK
      <4> QED
        BY <4>1, <3>2 DEF LocalsInv, HasPending, Loaded
    <3> QED
      BY <2>3, <3>1, <3>2 DEF CheckPublication
  <2>4. CASE AcquireStateLock(l)
    <3>1. DataOK'
      BY <2>4 DEF AcquireStateLock, DataOK, locals
    <3>2. pc'[l] \in {"load", "fast"}
      BY <2>4 DEF AcquireStateLock
    <3> QED
      BY <3>1, <3>2 DEF LocalsInv, HasPending, Loaded
  <2>5. CASE CheckInputs(l)
    <3>1. CASE LeaveFastPath(l) /\ UNCHANGED <<now, file>>
      BY <2>5, <3>1, LeaveType DEF CheckInputs, DataOK
    <3>2. CASE ~LeaveFastPath(l)
      <4> DEFINE same == {i \in Input : ReadState.inputs[i].id = FileIdentity(file[i])}
                 ambiguous == {i \in same : Ambiguous(ReadState.inputs[i], ReadState.start)}
                 D == {i \in (Input \ same) \cup ambiguous :
                         ~ContentMatches(ReadState.inputs[i], i)}
                 I == (Input \ same) \ D
      <4>1. /\ FastPathOpen(l)
            /\ changed' = [changed EXCEPT ![l] = D] /\ rewritten' = [rewritten EXCEPT ![l] = I]
            /\ file' = Snapshotted(I) /\ now' = SnapshotTime(I)
            /\ pending' = [pending EXCEPT ![l] =
                             [ReadState EXCEPT !.inputs = Refreshed(@, I, file')]]
            /\ pc' = [pc EXCEPT ![l] = IF D = {} THEN "recheck" ELSE "patch"]
            /\ UNCHANGED <<lock, mapped, prev, reported, output, index, update, startFile,
                           edits, seen>>
        BY <2>5, <3>2 DEF CheckInputs
      <4>a. D \in SUBSET Input /\ I \in SUBSET Input
        OBVIOUS
      <4> HIDE DEF same, ambiguous, D, I
      <4>b. pc'[l] \in {"recheck", "patch"} /\ index' # None
        BY <4>1 DEF FastPathOpen
      <4>2. ReadState \in State
        BY <4>1 DEF FastPathOpen
      <4>3. file' \in FileType /\ now' \in Nat
        BY <4>1, SnapshottedType
      <4>4. Refreshed(ReadState.inputs, I, file') \in [Input -> InputState]
        BY <4>2, <4>3, RefreshedType DEF State
      <4>5. [ReadState EXCEPT !.inputs = Refreshed(@, I, file')] \in State
        BY <4>2, <4>4 DEF State
      <4>6. pending' \in [Link -> State \cup {None}] /\ pending'[l] \in State
        BY <4>1, <4>5 DEF DataOK
      <4>7. DataOK'
        BY <4>1, <4>3, <4>6, <4>a DEF DataOK
      <4> QED
        BY <4>b, <4>6, <4>7 DEF LocalsInv, HasPending, Loaded
    <3> QED
      BY <3>1, <3>2, <2>5 DEF CheckInputs, LeaveFastPath
  <2>6. CASE RecheckInputs(l)
    <3>1. CASE LeaveFastPath(l)
      BY <2>6, <3>1, LeaveType DEF RecheckInputs, DataOK
    <3>2. CASE End(l, "success")
      BY <2>6, <3>2, EndType DEF RecheckInputs, DataOK
    <3>3. CASE ~LeaveFastPath(l) /\ ~End(l, "success")
      <4>1. /\ pc[l] = "recheck" /\ pc'[l] = "remove" /\ mode[l] = "ambiguous"
            /\ pending' = [pending EXCEPT ![l] =
                 [ReadState EXCEPT !.start = startFile,
                                   !.inputs = Refreshed(@, rewritten[l], file)]]
            /\ UNCHANGED <<now, edits, seen, file, output, index, update, startFile, mapped,
                           prev, changed, rewritten, mode>>
        BY <2>6, <3>3 DEF RecheckInputs
      <4>2. ReadState \in State
        BY <4>1 DEF TypeInv, LocalsInv
      <4>3. Refreshed(ReadState.inputs, rewritten[l], file) \in [Input -> InputState]
        BY <4>2, RefreshedType DEF State, DataOK
      <4>4. [ReadState EXCEPT !.start = startFile,
                              !.inputs = Refreshed(@, rewritten[l], file)] \in State
        BY <4>2, <4>3 DEF State, DataOK
      <4>5. pending' \in [Link -> State \cup {None}] /\ pending'[l] \in State
        BY <4>1, <4>4 DEF DataOK
      <4>6. DataOK'
        BY <4>1, <4>5 DEF DataOK
      <4> QED
        BY <4>1, <4>5, <4>6 DEF LocalsInv, HasPending, Loaded, Relinking
    <3> QED
      BY <2>6, <3>1, <3>2, <3>3
  <2>7. CASE PatchUnsupported(l)
    BY <2>7, LeaveType DEF PatchUnsupported, DataOK
  <2>8. CASE StartPatch(l)
    <3> DEFINE read == [i \in Input |-> IF i \in changed[l]
                          THEN [pending[l].inputs[i] EXCEPT !.hash = file[i].content]
                          ELSE pending[l].inputs[i]]
    <3>1. /\ pc[l] = "patch" /\ pc'[l] = "writepatch" /\ pending[l] \in State
          /\ pending' = [pending EXCEPT ![l] = [@ EXCEPT !.inputs = read]]
          /\ UNCHANGED <<now, file, output, index, update, startFile, mapped, prev, changed,
                         rewritten, edits, seen>>
      BY <2>8 DEF StartPatch, TypeInv, LocalsInv, HasPending
    <3>2. read \in [Input -> InputState]
      <4>1. \A i \in Input : pending[l].inputs[i] \in InputState /\ file[i].content \in Content
        BY <3>1 DEF State, DataOK
      <4> QED
        BY <4>1 DEF InputState
    <3> HIDE DEF read
    <3>3. [pending[l] EXCEPT !.inputs = read] \in State
      BY <3>1, <3>2 DEF State
    <3>4. pending' \in [Link -> State \cup {None}] /\ pending'[l] \in State
      BY <3>1, <3>3 DEF DataOK
    <3>5. DataOK'
      BY <3>1, <3>4 DEF DataOK
    <3> QED
      BY <3>1, <3>4, <3>5 DEF TypeInv, LocalsInv, HasPending, Loaded
  <2>9. CASE WritePatch(l)
    <3>1. /\ pc[l] = "writepatch" /\ pc'[l] = "refreshpatch" /\ pending[l] \in State
          /\ now' = Stamp
          /\ pending' = [pending EXCEPT ![l] = [@ EXCEPT !.out = [ino |-> output.ino, m |-> Stamp]]]
          /\ UNCHANGED <<file, index, update, startFile, mapped, prev, changed,
                         rewritten, edits, seen>>
      BY <2>9 DEF WritePatch, TypeInv, LocalsInv, HasPending
    <3> DEFINE bytes == [i \in Input |-> IF i \in changed[l] THEN pending[l].inputs[i].hash
                                                            ELSE output.in[i]]
    <3>2. output' = [output EXCEPT !.m = Stamp, !.in = bytes]
      BY <2>9 DEF WritePatch
    <3>3. bytes \in [Input -> Content \cup {None}]
      BY <3>1 DEF State, InputState, DataOK
    <3> HIDE DEF bytes
    <3>4. output' \in OutputType
      BY <3>2, <3>3 DEF DataOK
    <3>5. [pending[l] EXCEPT !.out = [ino |-> output.ino, m |-> Stamp]] \in State
      BY <3>1 DEF State, DataOK
    <3>6. pending' \in [Link -> State \cup {None}] /\ pending'[l] \in State
      BY <3>1, <3>5 DEF DataOK
    <3>7. DataOK'
      BY <3>1, <3>4, <3>6 DEF DataOK
    <3> QED
      BY <3>1, <3>6, <3>7 DEF TypeInv, LocalsInv, HasPending, Loaded
  <2>10. CASE RefreshPatched(l)
    <3> DEFINE fresh == [i \in Input |-> IF i \in changed[l]
            THEN [pending[l].inputs[i] EXCEPT
                     !.id = FileIdentity(file'[i]),
                     !.snap = IF i \in Hardlinked THEN FileIdentity(file'[i]) ELSE None]
            ELSE pending[l].inputs[i]]
    <3>1. /\ pc[l] = "refreshpatch" /\ pc'[l] = "checkpatch" /\ pending[l] \in State
          /\ file' = Snapshotted(changed[l]) /\ now' = SnapshotTime(changed[l])
          /\ pending' = [pending EXCEPT ![l] = [@ EXCEPT !.inputs = fresh]]
          /\ UNCHANGED <<output, index, update, startFile, mapped, prev, changed,
                         rewritten, edits, seen>>
      BY <2>10 DEF RefreshPatched, TypeInv, LocalsInv, HasPending
    <3>2. file' \in FileType /\ now' \in Nat
      BY <3>1, SnapshottedType
    <3>3. fresh \in [Input -> InputState]
      <4>1. \A i \in Input : FileIdentity(file'[i]) \in Identity
        BY <3>2, IdentityType
      <4> QED
        BY <3>1, <4>1 DEF State, InputState
    <3> HIDE DEF fresh
    <3>4. [pending[l] EXCEPT !.inputs = fresh] \in State
      BY <3>1, <3>3 DEF State
    <3>5. pending' \in [Link -> State \cup {None}] /\ pending'[l] \in State
      BY <3>1, <3>4 DEF DataOK
    <3>6. DataOK'
      BY <3>1, <3>2, <3>5 DEF DataOK
    <3> QED
      BY <3>1, <3>5, <3>6 DEF TypeInv, LocalsInv, HasPending, Loaded
  <2>11. CASE CheckPatched(l)
    <3>1. CASE LeaveFastPath(l) /\ UNCHANGED update
      BY <2>11, <3>1, LeaveType DEF CheckPatched, DataOK
    <3>2. CASE ~(LeaveFastPath(l) /\ UNCHANGED update)
      <4>1. /\ pc[l] = "checkpatch" /\ pc'[l] = "clear" /\ pending[l] \in State
            /\ update' = [start |-> startFile, out |-> pending[l].out,
                           inputs |-> [i \in changed[l] \cup rewritten[l] |->
                                         pending[l].inputs[i]]]
            /\ UNCHANGED <<mapped, prev, pending, changed, rewritten, now, file, output, index,
                           startFile, edits, seen, mode>> /\ mode[l] = "patch"
        BY <2>11, <3>2 DEF CheckPatched, TypeInv, LocalsInv, HasPending, ControlInv, ModeInv
      <4>2. changed[l] \cup rewritten[l] \in SUBSET Input
        BY DEF DataOK
      <4>3. update' \in MetadataUpdate(changed[l] \cup rewritten[l])
        BY <4>1, <4>2 DEF DataOK, State, MetadataUpdate
      <4>4. DataOK'
        BY <4>1, <4>2, <4>3 DEF DataOK
      <4> QED
        BY <4>1, <4>4 DEF LocalsInv, HasPending, Loaded, Relinking
    <3> QED
      BY <3>1, <3>2
  <2>12. CASE LoadInputs(l)
    <3> DEFINE opened == [i \in Input |->
                 [content |-> file[i].content, ino |-> file[i].ino, m |-> file[i].m]]
    <3>a. opened \in Mapping
      <4>1. ASSUME NEW i \in Input PROVE opened[i] \in [content : Content, ino : Nat, m : Nat]
        BY DEF DataOK
      <4> QED
        BY <4>1 DEF Mapping
    <3>b. mapped' = [mapped EXCEPT ![l] = opened]
      BY <2>12 DEF LoadInputs
    <3> HIDE DEF opened
    <3>1. mapped' \in [Link -> Mapping \cup {None}] /\ mapped'[l] \in Mapping
      BY <3>a, <3>b DEF DataOK
    <3>2. DataOK'
      BY <2>12, <3>1 DEF LoadInputs, DataOK
    <3>3. pc'[l] = "prepare"
      BY <2>12 DEF LoadInputs
    <3> QED
      BY <3>1, <3>2, <3>3 DEF LocalsInv, HasPending, Loaded
  <2>13. CASE ReadPrevious(l)
    <3>1. /\ pc[l] = "prepare" /\ pc'[l] = "classify" /\ mapped[l] \in Mapping
          /\ UNCHANGED mapped
      BY <2>13 DEF ReadPrevious, TypeInv, LocalsInv, Loaded
    <3> DEFINE inputs == [i \in Input |-> FromInputFile(l, ReadState, i)]
    <3>2. inputs \in [Input -> InputState]
      BY <3>1, FromInputFileType
    <3>3. pending' = [pending EXCEPT ![l] =
            [kind |-> "full", args |-> ArgsOf[l], start |-> startFile, out |-> OutputIdentity,
             inputs |-> inputs]]
      BY <2>13 DEF ReadPrevious
    <3> HIDE DEF inputs
    <3>4. pending' \in [Link -> State \cup {None}] /\ pending'[l] \in State
      BY <3>2, <3>3, OutputIdentityType, ConstantsAssumption DEF DataOK, State
    <3>5. prev' \in [Link -> State \cup {None}]
      BY <2>13 DEF ReadPrevious, DataOK
    <3>6. DataOK'
      BY <2>13, <3>1, <3>4, <3>5 DEF ReadPrevious, DataOK
    <3> QED
      BY <3>1, <3>4, <3>6 DEF LocalsInv, HasPending, Loaded
  <2>14. CASE PrepareState(l)
    <3>1. /\ pc[l] = "classify" /\ pc'[l] \in {"verifyreuse", "open"}
          /\ UNCHANGED <<mapped, pending>>
      BY <2>14 DEF PrepareState
    <3>2. DataOK'
      BY <2>14 DEF PrepareState, DataOK, ChangedInputs
    <3> QED
      BY <3>1, <3>2 DEF TypeInv, LocalsInv, HasPending, Loaded
  <2>15. CASE VerifyInputs(l)
    <3>1. CASE \E outcome \in {"success", "error"} : End(l, outcome)
      BY <2>15, <3>1, EndType DEF VerifyInputs, DataOK
    <3>2. CASE ~\E outcome \in {"success", "error"} : End(l, outcome)
      <4>1. /\ pc[l] \in {"verifyreuse", "verify", "finalverify"}
            /\ pc'[l] \in {"begin", "finish", "remove"}
            /\ UNCHANGED <<mapped, prev, pending, mode, changed, rewritten>>
        BY <2>15, <3>2 DEF VerifyInputs, locals
      <4>2. DataOK'
        BY <2>15, <4>1 DEF VerifyInputs, DataOK
      <4> QED
        BY <4>1, <4>2 DEF TypeInv, LocalsInv, HasPending, Loaded
    <3> QED
      BY <3>1, <3>2
  <2>16. CASE OpenOutput(l)
    <3>1. output' \in OutputType
      <4>1. CASE output' = [output EXCEPT !.m = Stamp]
        BY <4>1 DEF DataOK
      <4>2. CASE output' = [args |-> None, in |-> [i \in Input |-> None],
                            ino |-> output.ino + 1, m |-> Stamp]
        BY <4>2 DEF DataOK
      <4> QED
        BY <2>16, <4>1, <4>2 DEF OpenOutput
    <3>2. DataOK'
      BY <2>16, <3>1 DEF OpenOutput, DataOK, locals
    <3>3. pc[l] = "open" /\ pc'[l] = "begin" /\ UNCHANGED <<mapped, pending>>
      BY <2>16 DEF OpenOutput, locals
    <3> QED
      BY <3>2, <3>3 DEF TypeInv, LocalsInv, HasPending, Loaded
  <2>17. CASE BeginUpdate(l)
    <3>1. DataOK'
      BY <2>17 DEF BeginUpdate, IndexForUpdate, DataOK, locals
    <3>2. pc[l] = "begin" /\ pc'[l] \in {"finish", "write"} /\ UNCHANGED <<mapped, pending>>
      BY <2>17 DEF BeginUpdate, locals
    <3> QED
      BY <3>1, <3>2 DEF TypeInv, LocalsInv, HasPending, Loaded
  <2>18. CASE WriteOutput(l)
    <3>1. pc[l] = "write" /\ pc'[l] = "verify" /\ UNCHANGED <<mapped, pending>>
      BY <2>18 DEF WriteOutput, locals
    <3>2. mapped[l] \in Mapping
      BY <3>1 DEF TypeInv, LocalsInv, Loaded
    <3>3. PICK kept \in SUBSET Input :
            output' = [args |-> ArgsOf[l], ino |-> output.ino, m |-> Stamp,
                       in |-> [i \in Input |-> IF i \in kept THEN output.in[i]
                                                            ELSE mapped[l][i].content]]
      BY <2>18 DEF WriteOutput
    <3>4. output' \in OutputType
      BY <3>2, <3>3, ConstantsAssumption DEF DataOK, Mapping
    <3>5. DataOK'
      BY <2>18, <3>4 DEF WriteOutput, DataOK, locals
    <3> QED
      BY <3>1, <3>5 DEF TypeInv, LocalsInv, HasPending, Loaded
  <2>19. CASE PrepareFinish(l)
    <3> DEFINE hashed == Hashed(l, pending[l].inputs, IF Defers(l) THEN {} ELSE Input)
               fresh == [i \in Input |->
                 [hashed[i] EXCEPT !.id = FileIdentity(file'[i]),
                    !.snap = IF i \in Hardlinked THEN FileIdentity(file'[i]) ELSE None]]
    <3>1. /\ pc[l] = "finish" /\ pc'[l] \in {"finalverify", "remove"}
          /\ file' = Snapshotted(Input) /\ now' = SnapshotTime(Input)
          /\ pending' = [pending EXCEPT ![l] = [@ EXCEPT !.out = OutputIdentity,
                                                        !.inputs = fresh]]
          /\ UNCHANGED <<output, index, update, startFile, mapped, prev, mode, changed,
                         rewritten, edits, seen>>
      BY <2>19 DEF PrepareFinish
    <3>2. pending[l] \in State /\ mapped[l] \in Mapping
      BY <3>1 DEF TypeInv, LocalsInv, HasPending, Loaded
    <3>3. file' \in FileType /\ now' \in Nat
      BY <3>1, SnapshottedType
    <3>4. fresh \in [Input -> InputState]
      <4>1. \A i \in Input : FileIdentity(file'[i]) \in Identity
        BY <3>3, IdentityType
      <4>2. hashed \in [Input -> InputState]
        BY <3>2, HashedType DEF State
      <4> HIDE DEF hashed
      <4> QED
        BY <4>1, <4>2 DEF InputState
    <3> HIDE DEF fresh
    <3>5. [pending[l] EXCEPT !.out = OutputIdentity, !.inputs = fresh] \in State
      BY <3>2, <3>4, OutputIdentityType DEF State
    <3>6. pending' \in [Link -> State \cup {None}] /\ pending'[l] \in State
      BY <3>1, <3>5 DEF DataOK
    <3>7. DataOK'
      BY <3>1, <3>3, <3>6 DEF DataOK
    <3> QED
      BY <3>1, <3>2, <3>6, <3>7 DEF LocalsInv, HasPending, Loaded
  <2>20. CASE RemoveIndex(l)
    <3>1. /\ pc[l] = "remove" /\ pc'[l] = "install" /\ index' = None
          /\ pending' = [pending EXCEPT ![l] = StateToInstall(l)]
          /\ UNCHANGED <<now, file, output, update, startFile, mapped, prev, mode, changed,
                         rewritten, edits, seen>>
      BY <2>20 DEF RemoveIndex
    <3>2. StateToInstall(l) \in State
      <4>1. pending[l] \in State
        BY <3>1 DEF TypeInv, LocalsInv, HasPending
      <4>2. CASE ~FirstPass(l)
        BY <4>1, <4>2 DEF StateToInstall
      <4>3. CASE FirstPass(l)
        <5>1. mapped[l] \in Mapping
          BY <3>1, <4>3 DEF TypeInv, LocalsInv, FirstPass, Defers, Relinking
        <5> DEFINE hashed == Hashed(l, pending[l].inputs, {i \in Input :
                               Ambiguous(pending[l].inputs[i], pending[l].start)})
        <5>2. hashed \in [Input -> InputState]
          BY <4>1, <5>1, HashedType DEF State
        <5>3. StateToInstall(l) = [pending[l] EXCEPT !.kind = "publishing", !.inputs = hashed]
          BY <4>1, <4>3 DEF StateToInstall, State
        <5> HIDE DEF hashed
        <5> QED
          BY <4>1, <5>2, <5>3 DEF State
      <4> QED
        BY <4>2, <4>3
    <3>3. pending' \in [Link -> State \cup {None}] /\ pending'[l] \in State
      BY <3>1, <3>2 DEF DataOK
    <3>4. DataOK'
      BY <3>1, <3>3 DEF DataOK
    <3> QED
      BY <3>1, <3>3, <3>4 DEF TypeInv, LocalsInv, HasPending, Loaded
  <2>21. CASE InstallIndex(l)
    <3>1. /\ pc[l] = "install" /\ pc'[l] = "drop" /\ index' = pending[l]
          /\ UNCHANGED <<mapped, pending, mode>>
      BY <2>21 DEF InstallIndex, locals
    <3>2. DataOK'
      BY <2>21 DEF InstallIndex, DataOK, locals
    <3> QED
      BY <3>1, <3>2 DEF TypeInv, LocalsInv, HasPending, Loaded
  <2>22. CASE RemoveMetadataUpdate(l)
    <3>1. CASE mode[l] = "ambiguous"
      BY <2>22, <3>1, EndType DEF RemoveMetadataUpdate, DataOK
    <3>2. CASE mode[l] # "ambiguous"
      <4>1. /\ pc[l] = "drop" /\ pc'[l] \in {"report", "clear"}
            /\ UNCHANGED <<mapped, pending, mode>>
        BY <2>22, <3>2 DEF RemoveMetadataUpdate, locals
      <4>2. mode[l] \in Relinking
        BY <3>2, <4>1 DEF ControlInv, ModeInv
      <4>3. DataOK'
        BY <2>22, <3>2 DEF RemoveMetadataUpdate, DataOK, locals
      <4> QED
        BY <4>1, <4>2, <4>3 DEF TypeInv, LocalsInv, HasPending, Loaded
    <3> QED
      BY <3>1, <3>2
  <2>23. CASE InformParentDone(l)
    <3>1. DataOK'
      BY <2>23 DEF InformParentDone, DataOK, locals
    <3>2. pc[l] = "report" /\ pc'[l] = "hash" /\ UNCHANGED <<mapped, pending>>
      BY <2>23 DEF InformParentDone, locals
    <3> QED
      BY <3>1, <3>2 DEF TypeInv, LocalsInv, HasPending, Loaded
  <2>24. CASE HashInputs(l)
    <3> DEFINE hashed == Hashed(l, pending[l].inputs, Input)
    <3>1. pc[l] = "hash" /\ pending[l] \in State /\ mapped[l] \in Mapping /\ mode[l] \in Relinking
      BY <2>24 DEF HashInputs, TypeInv, LocalsInv, HasPending, Loaded, ControlInv, ModeInv,
                   Defers, Relinking
    <3>2. /\ pc'[l] = "remove"
          /\ pending' = [pending EXCEPT ![l] = [@ EXCEPT !.kind = "full", !.inputs = hashed]]
          /\ UNCHANGED <<now, file, output, index, update, startFile, mapped, prev, mode,
                         changed, rewritten, edits, seen>>
      BY <2>24, <3>1 DEF HashInputs, State
    <3>3. hashed \in [Input -> InputState]
      BY <3>1, HashedType DEF State
    <3> HIDE DEF hashed
    <3>4. [pending[l] EXCEPT !.kind = "full", !.inputs = hashed] \in State
      BY <3>1, <3>3 DEF State
    <3>5. pending' \in [Link -> State \cup {None}] /\ pending'[l] \in State
      BY <3>2, <3>4 DEF DataOK
    <3>6. DataOK'
      BY <3>2, <3>5 DEF DataOK
    <3> QED
      BY <3>1, <3>2, <3>5, <3>6 DEF LocalsInv, HasPending, Loaded
  <2>25. CASE ClearMarker(l)
    <3>1. CASE End(l, "success")
      BY <2>25, <3>1, EndType DEF ClearMarker, DataOK
    <3>2. CASE ~End(l, "success")
      <4>1. /\ pc[l] = "clear" /\ pc'[l] = "lastverify" /\ mode[l] # "patch"
            /\ UNCHANGED <<mapped, pending, mode>>
        BY <2>25, <3>2 DEF ClearMarker, locals
      <4>2. mode[l] \in Relinking
        BY <4>1 DEF ControlInv, ModeInv
      <4>3. DataOK'
        BY <2>25, <3>2 DEF ClearMarker, DataOK, locals
      <4> QED
        BY <4>1, <4>2, <4>3 DEF TypeInv, LocalsInv, HasPending, Loaded
    <3> QED
      BY <3>1, <3>2
  <2>26. CASE Crash(l)
    <3>1. now' \in Nat /\ output' \in OutputType
      <4> DEFINE garbage == [i \in Input |-> None]
      <4>1. [output EXCEPT !.in = garbage] \in OutputType
        BY DEF DataOK
      <4>2. [output EXCEPT !.m = Stamp, !.in = garbage] \in OutputType
        BY DEF DataOK
      <4> QED
        BY <2>26, <4>1, <4>2 DEF Crash, DataOK
    <3> QED
      BY <2>26, <3>1, EndType DEF Crash, DataOK
  <2> QED
    BY <1>5, <2>1, <2>2, <2>3, <2>4, <2>5, <2>6, <2>7, <2>8, <2>9, <2>10, <2>11, <2>12, <2>13,
       <2>14, <2>15, <2>16, <2>17, <2>18, <2>19, <2>20, <2>21, <2>22, <2>23, <2>24, <2>25, <2>26
       DEF LinkStep
<1> QED
  BY <1>1, <1>2, <1>3, <1>4, <1>5, <1>a DEF Next

-----------------------------------------------------------------------------
(* What is on disk and what will be *)

LEMMA SettingFixed == [Next]_vars => UNCHANGED setting
<1> SUFFICES ASSUME [Next]_vars PROVE UNCHANGED setting
  OBVIOUS
<1>1. CASE UNCHANGED vars \/ Tick \/ ModifyOutput \/ \E i \in Input, v \in Content : Edit(i, v)
  BY <1>1 DEF vars, Tick, ModifyOutput, Edit
<1>2. ASSUME NEW l \in Link, StartLink(l) \/ LinkStep(l) \/ Crash(l) PROVE UNCHANGED setting
  BY <1>2 DEF LinkStep, StartLink, Crash, ReadDuringPublication, CheckPublication,
      AcquireStateLock, CheckInputs, RecheckInputs, PatchUnsupported, StartPatch, WritePatch,
      RefreshPatched, CheckPatched, LoadInputs, ReadPrevious, PrepareState, VerifyInputs,
      OpenOutput, BeginUpdate, WriteOutput, PrepareFinish, RemoveIndex, InstallIndex,
      RemoveMetadataUpdate, InformParentDone, HashInputs, ClearMarker
<1> QED
  BY <1>1, <1>2 DEF Next

LEMMA ReadStateFull ==
    ASSUME DataOK, DiskInv, index # None, FullState(index) PROVE FullState(ReadState)
BY ReadStateFields DEF DiskInv, FullState

LEMMA StateInit == Init => StateInv
<1> SUFFICES ASSUME Init PROVE StateInv
  OBVIOUS
<1>1. index = None /\ update = None /\ \A l \in Link : pc[l] = "idle"
  BY DEF Init
<1> QED
  BY <1>1 DEF StateInv, DiskInv, KindInv

LEMMA StateStep ==
    ASSUME ControlInv, ControlInv', TypeInv, TypeInv', StateInv, [Next]_vars PROVE StateInv'
<1> USE DEF Goto, diskVars, locals
<1>s. UNCHANGED setting
  BY SettingFixed
<1>t. ControlOK /\ DataOK /\ DiskInv
  BY DEF ControlInv, TypeInv, StateInv
<1>0. CASE UNCHANGED <<pc, pending, mode, reported, index, update, marker>>
  BY <1>0, <1>s DEF StateInv, DiskInv, KindInv, FullState, FirstPass, Defers
<1>1. CASE UNCHANGED vars \/ Tick \/ ModifyOutput \/ \E i \in Input, v \in Content : Edit(i, v)
  <2>1. UNCHANGED <<pc, pending, mode, reported, index, update, marker>>
    BY <1>1 DEF vars, Tick, ModifyOutput, Edit
  <2> QED
    BY <2>1, <1>0
<1>2. ASSUME NEW l \in Link, StartLink(l) \/ LinkStep(l) \/ Crash(l), DiskInv', KindInv(l)'
      PROVE  StateInv'
  <2>1. ASSUME NEW k \in Link, k # l PROVE KindInv(k)'
    <3>1. pc'[k] = pc[k] /\ pending'[k] = pending[k] /\ mode'[k] = mode[k]
          /\ reported'[k] = reported[k]
      BY <1>2, <1>t, <2>1, Frame
    <3>2. FirstPass(k)' <=> FirstPass(k)
      BY <3>1, <1>s DEF FirstPass, Defers
    <3>3. pc[k] \in Holding => index' = index
      BY <1>2, <2>1, Guarded
    <3>4. KindInv(k)
      BY DEF StateInv
    <3> QED
      BY <3>1, <3>2, <3>3, <3>4 DEF KindInv, FullState, Holding
  <2> QED
    BY <1>2, <2>1 DEF StateInv
<1>3. ASSUME NEW l \in Link, UNCHANGED <<index, update, marker>> PROVE DiskInv'
  BY <1>3, <1>t DEF DiskInv, FullState
\* A link that goes on without touching the state on disk or its own.
<1>4. ASSUME NEW l \in Link, LinkStep(l) \/ StartLink(l) \/ Crash(l),
             UNCHANGED <<index, update, marker>>,
             pc'[l] \in {"publication", "pubcheck", "lock", "load", "prepare", "fast", "done",
                        "lastverify", "report", "hash"}
      PROVE  StateInv'
  <2>1. KindInv(l)'
    BY <1>4 DEF KindInv
  <2> QED
    BY <1>2, <1>3, <1>4, <2>1
<1>5. ASSUME NEW l \in Link,
             StartLink(l) \/ ReadDuringPublication(l) \/ CheckPublication(l) \/
             AcquireStateLock(l) \/ LoadInputs(l) \/ PatchUnsupported(l) \/
             InformParentDone(l) \/ Crash(l)
      PROVE  StateInv'
  <2>1. UNCHANGED <<index, update, marker>>
    BY <1>5 DEF StartLink, ReadDuringPublication, CheckPublication, AcquireStateLock, LoadInputs,
                PatchUnsupported, InformParentDone, Crash
  <2>2. pc'[l] \in {"publication", "pubcheck", "lock", "load", "prepare", "fast", "done", "hash"}
    BY <1>5, <1>t DEF StartLink, ReadDuringPublication, CheckPublication, AcquireStateLock,
       LoadInputs, PatchUnsupported, InformParentDone, Crash, End, LeaveFastPath, ControlOK
  <2> QED
    BY <1>4, <1>5, <2>1, <2>2 DEF LinkStep
\* The fast path has a full state.
<1>6. ASSUME NEW l \in Link, CheckInputs(l) PROVE StateInv'
  <2>1. UNCHANGED <<index, update, marker>>
    BY <1>6 DEF CheckInputs
  <2>2. CASE LeaveFastPath(l)
    BY <1>4, <1>6, <1>t, <2>1, <2>2 DEF LeaveFastPath, ControlOK, LinkStep
  <2>3. CASE ~LeaveFastPath(l)
    <3>1. PICK I : /\ pending' = [pending EXCEPT ![l] =
                                    [ReadState EXCEPT !.inputs = Refreshed(@, I, file')]]
                   /\ FastPathOpen(l)
      BY <1>6, <2>3 DEF CheckInputs
    <3>2. pc'[l] \in {"recheck", "patch"}
      BY <1>6, <2>3, <1>t DEF CheckInputs, ControlOK
    <3>3. index # None /\ FullState(index) /\ index \in State
      BY <3>1, <1>t DEF FastPathOpen, DiskInv, DataOK, State
    <3>4. FullState(ReadState) /\ ReadState \in State
      BY <3>3, <1>t, ReadStateFull, ReadStateType
    <3>5. file' \in [Input -> [content : Content, ino : Nat, m : Nat, c : Nat]]
      BY DEF TypeInv, DataOK
    <3>6. FullState(pending'[l])
      <4>1. pending'[l] = [ReadState EXCEPT !.inputs = Refreshed(@, I, file')]
        BY <3>1, <1>t DEF DataOK
      <4>2. \A i \in Input : Refreshed(ReadState.inputs, I, file')[i].hash
                              = ReadState.inputs[i].hash
        BY <3>4, <3>5, RefreshedType DEF State
      <4> QED
        BY <4>1, <4>2, <3>4 DEF FullState, State
    <3>7. KindInv(l)'
      BY <2>1, <3>2, <3>3, <3>6 DEF KindInv, FullState
    <3> QED
      BY <1>2, <1>3, <1>6, <2>1, <3>7 DEF LinkStep
  <2> QED
    BY <2>2, <2>3
<1>7. ASSUME NEW l \in Link, RecheckInputs(l) PROVE StateInv'
  <2>1. UNCHANGED <<index, update, marker>>
    BY <1>7 DEF RecheckInputs
  <2>2. CASE LeaveFastPath(l) \/ End(l, "success")
    BY <1>4, <1>7, <1>t, <2>1, <2>2 DEF LeaveFastPath, End, ControlOK, LinkStep
  <2>3. CASE ~(LeaveFastPath(l) \/ End(l, "success"))
    <3>1. /\ pc[l] = "recheck" /\ pc'[l] = "remove"
          /\ pending'[l] = [ReadState EXCEPT !.start = startFile,
                                             !.inputs = Refreshed(@, rewritten[l], file)]
      BY <1>7, <1>t, <2>3 DEF RecheckInputs, ControlOK, DataOK
    <3>2. index # None /\ FullState(index) /\ index \in State
      BY <3>1, <1>t DEF StateInv, KindInv, TypeInv, LocalsInv, DataOK
    <3>3. FullState(ReadState) /\ ReadState \in State
      BY <3>2, <1>t, ReadStateFull, ReadStateType
    <3>4. \A i \in Input : Refreshed(ReadState.inputs, rewritten[l], file)[i].hash
                           = ReadState.inputs[i].hash
      BY <3>3, <1>t, RefreshedType DEF State, DataOK
    <3>5. FullState(pending'[l])
      BY <3>1, <3>3, <3>4 DEF FullState, State
    <3>6. KindInv(l)'
      BY <3>1, <3>5 DEF KindInv, FullState
    <3> QED
      BY <1>2, <1>3, <1>7, <2>1, <3>6 DEF LinkStep
  <2> QED
    BY <2>2, <2>3
<1>8. ASSUME NEW l \in Link, StartPatch(l) PROVE StateInv'
  <2>1. pc[l] = "patch" /\ pc'[l] = "writepatch" /\ UNCHANGED <<index, update>> /\ marker'
    BY <1>8, <1>t DEF StartPatch, MarkedForUpdate, ControlOK
  <2>2. pending[l] \in State /\ FullState(index) /\ FullState(pending[l])
    BY <2>1 DEF StateInv, KindInv, TypeInv, LocalsInv, HasPending
  <2>3. pending'[l] = [pending[l] EXCEPT !.inputs = [i \in Input |->
            IF i \in changed[l] THEN [pending[l].inputs[i] EXCEPT !.hash = file[i].content]
                                ELSE pending[l].inputs[i]]]
    BY <1>8, <1>t, <2>2 DEF StartPatch, DataOK
  <2>4. \A i \in Input : file[i].content # None /\ pending[l].inputs[i] \in InputState
    BY <1>t, <2>2, ConstantsAssumption DEF DataOK, State
  <2>5. FullState(pending'[l])
    BY <2>2, <2>3, <2>4 DEF FullState, State, InputState
  <2>6. KindInv(l)'
    BY <2>1, <2>2, <2>5 DEF KindInv, FullState
  <2>7. DiskInv'
    BY <2>1, <1>t DEF DiskInv, FullState
  <2> QED
    BY <1>2, <1>8, <2>6, <2>7 DEF LinkStep
<1>9. ASSUME NEW l \in Link, WritePatch(l) PROVE StateInv'
  <2>1. pc[l] = "writepatch" /\ pc'[l] = "refreshpatch" /\ UNCHANGED <<index, update, marker>>
    BY <1>9, <1>t DEF WritePatch, ControlOK
  <2>2. pending[l] \in State /\ FullState(index) /\ FullState(pending[l])
    BY <2>1 DEF StateInv, KindInv, TypeInv, LocalsInv, HasPending
  <2>3. pending'[l].kind = pending[l].kind /\ pending'[l].inputs = pending[l].inputs
    BY <1>9, <1>t, <2>2 DEF WritePatch, DataOK, State
  <2>4. KindInv(l)'
    BY <2>1, <2>2, <2>3 DEF KindInv, FullState
  <2> QED
    BY <1>2, <1>3, <1>9, <2>1, <2>4 DEF LinkStep
<1>10. ASSUME NEW l \in Link, RefreshPatched(l) PROVE StateInv'
  <2>1. pc[l] = "refreshpatch" /\ pc'[l] = "checkpatch" /\ UNCHANGED <<index, update, marker>>
    BY <1>10, <1>t DEF RefreshPatched, ControlOK
  <2>2. pending[l] \in State /\ FullState(index) /\ FullState(pending[l])
    BY <2>1 DEF StateInv, KindInv, TypeInv, LocalsInv, HasPending
  <2> DEFINE fresh == [i \in Input |->
          IF i \in changed[l]
            THEN [pending[l].inputs[i] EXCEPT !.id = FileIdentity(file'[i]),
                    !.snap = IF i \in Hardlinked THEN FileIdentity(file'[i]) ELSE None]
            ELSE pending[l].inputs[i]]
  <2>3. pending'[l] = [pending[l] EXCEPT !.inputs = fresh]
    BY <1>10, <1>t, <2>2 DEF RefreshPatched, DataOK
  <2>4. \A i \in Input : fresh[i].hash = pending[l].inputs[i].hash
    BY <2>2 DEF State, InputState
  <2> HIDE DEF fresh
  <2>5. FullState(pending'[l])
    BY <2>2, <2>3, <2>4 DEF FullState, State
  <2>6. KindInv(l)'
    BY <2>1, <2>2, <2>5 DEF KindInv, FullState
  <2> QED
    BY <1>2, <1>3, <1>10, <2>1, <2>6 DEF LinkStep
<1>11. ASSUME NEW l \in Link, CheckPatched(l) PROVE StateInv'
  <2>1. CASE LeaveFastPath(l) /\ UNCHANGED update
    <3>1. UNCHANGED <<index, update, marker>> /\ pc'[l] = "load"
      BY <1>11, <1>t, <2>1 DEF CheckPatched, LeaveFastPath, ControlOK
    <3> QED
      BY <1>4, <1>11, <3>1 DEF LinkStep
  <2>2. CASE ~(LeaveFastPath(l) /\ UNCHANGED update)
    <3>1. /\ pc[l] = "checkpatch" /\ pc'[l] = "clear" /\ UNCHANGED <<index, marker>>
          /\ update' = [start |-> startFile, out |-> pending[l].out,
                         inputs |-> [i \in changed[l] \cup rewritten[l] |->
                                       pending[l].inputs[i]]]
      BY <1>11, <1>t, <2>2 DEF CheckPatched, ControlOK
    <3>2. index # None /\ FullState(index) /\ FullState(pending[l])
      BY <3>1 DEF StateInv, KindInv, TypeInv, LocalsInv
    <3>3. \A i \in DOMAIN update'.inputs : update'.inputs[i].hash # None
      <4>1. changed[l] \cup rewritten[l] \subseteq Input
        BY <1>t DEF DataOK
      <4> QED
        BY <3>1, <3>2, <4>1 DEF FullState
    <3>4. DiskInv'
      BY <3>1, <3>3, <1>t DEF DiskInv, FullState
    <3>5. KindInv(l)'
      BY <3>1, <3>2 DEF KindInv, FullState
    <3> QED
      BY <1>2, <1>11, <3>4, <3>5 DEF LinkStep
  <2> QED
    BY <2>1, <2>2
\* The link makes its state.
<1>12. ASSUME NEW l \in Link, ReadPrevious(l) PROVE StateInv'
  <2>1. pc'[l] = "classify" /\ pending'[l].kind = "full" /\ UNCHANGED <<index, update, marker>>
    BY <1>12, <1>t DEF ReadPrevious, ControlOK, DataOK
  <2>2. KindInv(l)'
    BY <2>1 DEF KindInv
  <2> QED
    BY <1>2, <1>3, <1>12, <2>1, <2>2 DEF LinkStep
<1>13. ASSUME NEW l \in Link, PrepareState(l) \/ OpenOutput(l) \/ WriteOutput(l) PROVE StateInv'
  <2>1. /\ pc[l] \in {"classify", "open", "write"}
        /\ pc'[l] \in {"verifyreuse", "open", "begin", "verify"}
        /\ UNCHANGED <<index, update, marker, pending>>
    BY <1>13, <1>t DEF PrepareState, OpenOutput, WriteOutput, ControlOK
  <2>2. KindInv(l)'
    BY <2>1 DEF KindInv, StateInv
  <2> QED
    BY <1>2, <1>3, <1>13, <2>1, <2>2 DEF LinkStep
<1>14. ASSUME NEW l \in Link, VerifyInputs(l) PROVE StateInv'
  <2>1. UNCHANGED <<index, update, marker>>
    BY <1>14 DEF VerifyInputs
  <2>2. CASE \E outcome \in {"success", "error"} : End(l, outcome)
    BY <1>4, <1>14, <1>t, <2>1, <2>2 DEF End, ControlOK, LinkStep
  <2>3. CASE ~\E outcome \in {"success", "error"} : End(l, outcome)
    <3>1. /\ pc[l] \in {"verifyreuse", "verify", "finalverify"}
          /\ pc'[l] \in {"begin", "finish", "remove"}
          /\ pc'[l] = "remove" => pc[l] = "finalverify"
          /\ UNCHANGED <<pending, mode, reported>>
      BY <1>14, <1>t, <2>3 DEF VerifyInputs, ControlOK
    <3>2. pc[l] = "finalverify" => FirstPass(l)'
      BY <1>s, <1>t, <3>1 DEF ControlInv, ControlOK, ModeInv, ReportInv, FirstPass, Defers
    <3>3. KindInv(l)'
      BY <3>1, <3>2 DEF KindInv, StateInv
    <3> QED
      BY <1>2, <1>3, <1>14, <2>1, <3>3 DEF LinkStep
  <2> QED
    BY <2>2, <2>3
<1>15. ASSUME NEW l \in Link, BeginUpdate(l) PROVE StateInv'
  <2>1. /\ pc[l] = "begin" /\ pc'[l] \in {"finish", "write"} /\ UNCHANGED <<update, pending>>
        /\ marker' /\ index' \in {None, index}
    BY <1>15, <1>t DEF BeginUpdate, MarkedForUpdate, IndexForUpdate, ControlOK
  <2>2. KindInv(l)'
    BY <2>1 DEF KindInv, StateInv
  <2>3. DiskInv'
    BY <2>1, <1>t DEF DiskInv, FullState
  <2> QED
    BY <1>2, <1>15, <2>2, <2>3 DEF LinkStep
<1>16. ASSUME NEW l \in Link, PrepareFinish(l) PROVE StateInv'
  <2> DEFINE hashed == Hashed(l, pending[l].inputs, IF Defers(l) THEN {} ELSE Input)
             fresh == [i \in Input |->
                 [hashed[i] EXCEPT !.id = FileIdentity(file'[i]),
                    !.snap = IF i \in Hardlinked THEN FileIdentity(file'[i]) ELSE None]]
  <2>1. /\ pc[l] = "finish"
        /\ pc'[l] = (IF Defers(l) THEN "finalverify" ELSE "remove")
        /\ pending'[l] = [pending[l] EXCEPT !.out = OutputIdentity, !.inputs = fresh]
        /\ UNCHANGED <<index, update, marker, mode, reported>>
    BY <1>16, <1>t DEF PrepareFinish, ControlOK, DataOK
  <2>2. pending[l] \in State /\ mapped[l] \in Mapping /\ pending[l].kind = "full"
    BY <2>1 DEF TypeInv, LocalsInv, HasPending, Loaded, StateInv, KindInv
  <2>3. hashed \in [Input -> InputState]
        /\ (~Defers(l) => \A i \in Input : hashed[i].hash # None)
    BY <2>2, HashedType DEF State
  <2> HIDE DEF hashed
  <2>4. ~Defers(l) => \A i \in Input : fresh[i].hash # None
    BY <2>3 DEF InputState
  <2> HIDE DEF fresh
  <2>5. pending'[l].kind = "full" /\ pending'[l].inputs = fresh
    BY <2>1, <2>2 DEF State
  <2>6. Defers(l)' <=> Defers(l)
    BY <1>s, <2>1 DEF Defers
  <2>7. KindInv(l)'
    BY <2>1, <2>4, <2>5, <2>6 DEF KindInv, FullState, FirstPass
  <2> QED
    BY <1>2, <1>3, <1>16, <2>1, <2>7 DEF LinkStep
\* The state is installed.
<1>17. ASSUME NEW l \in Link, RemoveIndex(l) PROVE StateInv'
  <2>1. /\ pc[l] = "remove" /\ pc'[l] = "install" /\ index' = None
        /\ pending'[l] = StateToInstall(l) /\ UNCHANGED <<update, marker, mode, reported>>
    BY <1>17, <1>t DEF RemoveIndex, ControlOK, DataOK
  <2>2. FirstPass(l)' <=> FirstPass(l)
    BY <1>s, <2>1 DEF FirstPass, Defers
  <2>3. pending[l] \in State /\ (~FirstPass(l) => FullState(pending[l]))
    BY <2>1 DEF TypeInv, LocalsInv, HasPending, StateInv, KindInv
  <2>4. CASE FirstPass(l)
    <3>1. pending'[l].kind = "publishing"
      BY <2>1, <2>3, <2>4 DEF StateToInstall, State
    <3> QED
      BY <1>2, <1>17, <1>t, <2>1, <2>2, <2>4, <3>1 DEF LinkStep, KindInv, DiskInv
  <2>5. CASE ~FirstPass(l)
    <3>1. pending'[l] = pending[l]
      BY <2>1, <2>5 DEF StateToInstall
    <3> QED
      BY <1>2, <1>17, <1>t, <2>1, <2>2, <2>3, <2>5, <3>1 DEF LinkStep, KindInv, DiskInv
  <2> QED
    BY <2>4, <2>5
<1>18. ASSUME NEW l \in Link, InstallIndex(l) PROVE StateInv'
  <2>1. /\ pc[l] = "install" /\ pc'[l] = "drop" /\ index' = pending[l]
        /\ UNCHANGED <<update, marker, mode, reported, pending>>
    BY <1>18, <1>t DEF InstallIndex, ControlOK
  <2>2. FirstPass(l)' <=> FirstPass(l)
    BY <1>s, <2>1 DEF FirstPass, Defers
  <2>3. /\ ~FirstPass(l) => FullState(pending[l])
        /\ FirstPass(l) => pending[l].kind = "publishing" /\ marker
    BY <2>1 DEF StateInv, KindInv, ControlInv, MarkerInv, FirstPass, Defers
  <2>4. DiskInv'
    BY <2>1, <2>3, <1>t DEF DiskInv, FullState
  <2>5. KindInv(l)'
    BY <2>1, <2>2, <2>3 DEF KindInv, FullState
  <2> QED
    BY <1>2, <1>18, <2>4, <2>5 DEF LinkStep
<1>19. ASSUME NEW l \in Link, RemoveMetadataUpdate(l) PROVE StateInv'
  <2>1. pc[l] = "drop" /\ update' = None /\ UNCHANGED <<index, marker>>
    BY <1>19 DEF RemoveMetadataUpdate
  <2>2. DiskInv'
    BY <2>1, <1>t DEF DiskInv, FullState
  <2>3. index # None /\ (~FirstPass(l) => FullState(index))
    BY <2>1, NoneAssumption DEF StateInv, KindInv, TypeInv, LocalsInv, HasPending
  <2>4. pc'[l] \in {"done", "report"} \/ (pc'[l] = "clear" /\ ~FirstPass(l))
    BY <1>19, <1>t DEF RemoveMetadataUpdate, End, ControlOK
  <2>5. KindInv(l)'
    BY <2>1, <2>3, <2>4 DEF KindInv, FullState
  <2> QED
    BY <1>2, <1>19, <2>2, <2>5 DEF LinkStep
<1>20. ASSUME NEW l \in Link, HashInputs(l) PROVE StateInv'
  <2>1. /\ pc[l] = "hash" /\ pc'[l] = "remove" /\ UNCHANGED <<index, update, marker>>
        /\ pending[l] \in State /\ mapped[l] \in Mapping
    BY <1>20, <1>t DEF HashInputs, ControlOK, TypeInv, LocalsInv, HasPending, Loaded
  <2>2. pending'[l] = [pending[l] EXCEPT !.kind = "full",
                                         !.inputs = Hashed(l, pending[l].inputs, Input)]
    BY <1>20, <1>t, <2>1 DEF HashInputs, DataOK, State
  <2>3. \A i \in Input : Hashed(l, pending[l].inputs, Input)[i].hash # None
    BY <2>1, HashedType DEF State
  <2>4. FullState(pending'[l])
    BY <2>1, <2>2, <2>3 DEF FullState, State
  <2>5. KindInv(l)'
    BY <2>1, <2>4 DEF KindInv, FullState
  <2> QED
    BY <1>2, <1>3, <1>20, <2>1, <2>5 DEF LinkStep
<1>21. ASSUME NEW l \in Link, ClearMarker(l) PROVE StateInv'
  <2>1. pc[l] = "clear" /\ UNCHANGED <<index, update>> /\ pc'[l] \in {"done", "lastverify"}
    BY <1>21, <1>t DEF ClearMarker, End, ControlOK
  <2>2. index # None /\ FullState(index)
    BY <2>1 DEF StateInv, KindInv
  <2>3. DiskInv'
    BY <2>1, <2>2, <1>t DEF DiskInv, FullState
  <2>4. KindInv(l)'
    BY <2>1 DEF KindInv
  <2> QED
    BY <1>2, <1>21, <2>3, <2>4 DEF LinkStep
<1> QED
  BY <1>1, <1>5, <1>6, <1>7, <1>8, <1>9, <1>10, <1>11, <1>12, <1>13, <1>14, <1>15, <1>16, <1>17,
     <1>18, <1>19, <1>20, <1>21 DEF Next, LinkStep

\* Every variable of the protocol keeps its type.
THEOREM TypeCorrect == Spec => []TypeOK
<1>1. Init => ControlInv /\ TypeInv
  BY ControlInit, TypeInit
<1>2. ControlInv /\ TypeInv /\ [Next]_vars => (ControlInv /\ TypeInv)'
  BY ControlStep, TypeStep
<1>3. ControlInv /\ TypeInv => TypeOK
  BY DEF ControlInv, ControlOK, TypeInv, DataOK, TypeOK, PC, Mapping
<1> QED
  BY <1>1, <1>2, <1>3, PTL DEF Spec

\* What is said of every behaviour, whatever its circumstances.
LinkInv == ControlInv /\ TypeInv /\ StateInv

LEMMA LinkInvariant == Spec => []LinkInv
<1>1. Init => LinkInv
  BY ControlInit, TypeInit, StateInit DEF LinkInv
<1>2. LinkInv /\ [Next]_vars => LinkInv'
  BY ControlStep, TypeStep, StateStep DEF LinkInv
<1> QED
  BY <1>1, <1>2, PTL DEF Spec

\* acquire_incremental_state_lock, begin_update: two links are never both between taking the
\* state lock and dropping it.
THEOREM LockExcludes ==
    Spec => [](\A k, l \in Link : pc[k] \in Holding /\ pc[l] \in Holding => k = l)
<1>1. LinkInv => \A k, l \in Link : pc[k] \in Holding /\ pc[l] \in Holding => k = l
  BY DEF LinkInv, ControlInv, LockInv
<1> QED
  BY <1>1, LinkInvariant, PTL

\* A step of another link leaves alone what the holder of the lock works on.
StateDirGuarded ==
    \A k \in Link : pc[k] \in Holding /\ pc'[k] = pc[k]
                      => UNCHANGED <<index, update, marker, startFile>>

\* While a link holds the state lock (fast path, begin_update, publication in the background),
\* no other step changes the index, the metadata update or the markers, whatever links run.
THEOREM LockGuards == Spec => [][StateDirGuarded]_vars
<1>1. ASSUME LinkInv, [Next]_vars, NEW k \in Link, pc[k] \in Holding, pc'[k] = pc[k]
      PROVE  UNCHANGED <<index, update, marker, startFile>>
  <2>1. CASE UNCHANGED vars \/ Tick \/ ModifyOutput
             \/ \E i \in Input, v \in Content : Edit(i, v)
    BY <2>1 DEF vars, Tick, ModifyOutput, Edit
  <2>2. ASSUME NEW l \in Link, StartLink(l) \/ LinkStep(l) \/ Crash(l)
        PROVE  UNCHANGED <<index, update, marker, startFile>>
    <3>1. CASE l # k
      BY <1>1, <2>2, <3>1, Guarded DEF LinkInv
    <3>2. CASE l = k
      <4>1. pc'[l] # pc[l]
        BY <1>1, <2>2, Moves DEF LinkInv, ControlInv
      <4> QED
        BY <1>1, <3>2, <4>1
    <3> QED
      BY <3>1, <3>2
  <2> QED
    BY <1>1, <2>1, <2>2 DEF Next
<1>2. LinkInv /\ [Next]_vars => StateDirGuarded
  BY <1>1 DEF StateDirGuarded
<1> QED
  BY <1>2, LinkInvariant, PTL DEF Spec

\* PublishingIsMarked, for any number of concurrent links, inputs and crashes: a publishing
\* index is on disk only while the update marker is, so that only
\* maybe_reuse_output_during_publication uses it.
THEOREM PublishingMarked == Spec => []PublishingIsMarked
<1>1. LinkInv => PublishingIsMarked
  BY DEF LinkInv, StateInv, DiskInv, PublishingIsMarked
<1> QED
  BY <1>1, LinkInvariant, PTL

=============================================================================
