-------------------------- MODULE SerialLinks_proof --------------------------
(***************************************************************************)
(* Proofs about IncrementalLink for links made one after the other, with a *)
(* state still published in the background while the next one starts, with *)
(* crashes between any two steps and with an output that other programs    *)
(* change: an unmarked state describes the output, and a link reports      *)
(* success only when the output is what its inputs make.                   *)
(***************************************************************************)
EXTENDS IncrementalLink_proof

\* Nothing happens under a running link but its death, every change has its own timestamp, and
\* no two inputs are edited (the metadata update keeps the records of the last patch only).
Quiet ==
    /\ setting.env \cap {"concurrent_links", "edits_during_link", "in_place_edits",
                         "coarse_clock"} = {}
    /\ \A i, j \in setting.edited : i = j

-----------------------------------------------------------------------------
(* What is said of a state, an output, the files, the clock, and which files are edited *)

File == [content : Content, ino : Nat, m : Nat, c : Nat]

\* A recorded input is no newer than the clock, and its hash is right while nobody edits it.
RecordOK(r, i, f, t, edited) ==
    /\ r.id.m <= t
    /\ r.hash # None /\ (r.id.m = f[i].m \/ i \notin edited) => r.hash = f[i].content

RecordsOK(s, f, t, edited) ==
    s.out.m <= t /\ \A i \in Input : RecordOK(s.inputs[i], i, f, t, edited)

\* If the state s names the output o, it says what o was made from.
Describes(s, o, f) ==
    s.out = [ino |-> o.ino, m |-> o.m] =>
        /\ o.args = s.args
        /\ \A i \in Input : /\ s.inputs[i].hash # None => o.in[i] = s.inputs[i].hash
                            /\ s.inputs[i].id.m = f[i].m => o.in[i] = f[i].content

\* The files f but for what a snapshot changes.
SameFiles(f, g) == \A i \in Input : g[i].content = f[i].content /\ g[i].m = f[i].m

LEMMA RecordsLater ==
    ASSUME NEW s \in State, NEW f \in [Input -> File], NEW g \in [Input -> File],
           NEW t \in Nat, NEW u \in Nat, t <= u, NEW edited,
           RecordsOK(s, f, t, edited), SameFiles(f, g)
    PROVE  RecordsOK(s, g, u, edited)
BY DEF State, InputState, Identity, File, RecordsOK, RecordOK, SameFiles

LEMMA DescribesSame ==
    ASSUME NEW s, NEW o, NEW f, NEW g, Describes(s, o, f), SameFiles(f, g)
    PROVE  Describes(s, o, g)
BY DEF Describes, SameFiles

LEMMA RecordsEdited ==
    ASSUME NEW s \in State, NEW f \in [Input -> File], NEW t \in Nat, NEW edited,
           NEW i \in edited \cap Input, NEW g \in [Input -> File],
           g[i].m = t + 1, \A j \in Input : j # i => g[j] = f[j],
           RecordsOK(s, f, t, edited)
    PROVE  RecordsOK(s, g, t + 1, edited)
<1>1. s.out.m \in Nat /\ \A j \in Input : s.inputs[j].id.m \in Nat
  BY DEF State, InputState, Identity
<1>2. s.out.m <= t + 1
  BY <1>1 DEF RecordsOK
<1>3. ASSUME NEW j \in Input PROVE RecordOK(s.inputs[j], j, g, t + 1, edited)
  <2>1. RecordOK(s.inputs[j], j, f, t, edited)
    BY DEF RecordsOK
  <2>2. CASE j = i
    BY <1>1, <2>1, <2>2 DEF RecordOK
  <2>3. CASE j # i
    BY <1>1, <2>1, <2>3 DEF RecordOK
  <2> QED
    BY <2>2, <2>3
<1> QED
  BY <1>2, <1>3 DEF RecordsOK

LEMMA DescribesEdited ==
    ASSUME NEW s \in State, NEW f \in [Input -> File], NEW t \in Nat, NEW edited,
           NEW i \in edited \cap Input, NEW g \in [Input -> File],
           g[i].m = t + 1, \A j \in Input : j # i => g[j] = f[j],
           RecordsOK(s, f, t, edited), NEW o, Describes(s, o, f)
    PROVE  Describes(s, o, g)
<1>1. \A j \in Input : s.inputs[j].id.m \in Nat
  BY DEF State, InputState, Identity
<1>2. s.inputs[i].id.m <= t
  BY DEF RecordsOK, RecordOK
<1> QED
  BY <1>1, <1>2 DEF Describes

LEMMA DescribesNewer ==
    ASSUME NEW s \in State, NEW f, NEW o, o.m \in Nat, s.out.m < o.m
    PROVE  Describes(s, o, f)
BY DEF Describes, State

-----------------------------------------------------------------------------
(* The invariant *)

SerialInv ==
    /\ \A k, l \in Link : Waiting(k) /\ Waiting(l) => k = l
    /\ \A k, l \in Link : pc[k] \notin Outside /\ pc[l] \notin Outside => k = l

ClockInv == output.m <= now /\ \A i \in Input : file[i].m <= now

IndexRecords == index # None => RecordsOK(index, file, now, setting.edited)

UpdateRecords ==
    update # None =>
      /\ update.out.m <= now
      /\ \A i \in DOMAIN update.inputs : RecordOK(update.inputs[i], i, file, now, setting.edited)

LocalRecords(l) ==
    /\ pending[l] # None => RecordsOK(pending[l], file, now, setting.edited)
    /\ prev[l] # None => RecordsOK(prev[l], file, now, setting.edited)

RecordsInv == ClockInv /\ IndexRecords /\ UpdateRecords /\ \A l \in Link : LocalRecords(l)

\* A state that some path of the linker may rely on describes the output.
TrustInv ==
    index # None /\ (~marker \/ index.kind = "publishing") => Describes(ReadState, output, file)

\* The output is what l makes of the inputs as they are.
Current(l) == output.args = ArgsOf[l] /\ \A i \in Input : output.in[i] = file[i].content

CurrentInv(l) ==
    /\ reported[l] = "no" /\
          (\/ pc[l] \in {"recheck", "refreshpatch", "checkpatch", "clear", "verify", "finish",
                         "finalverify", "remove", "install", "drop", "report", "lastverify"}
           \/ pc[l] \in {"verifyreuse", "begin"} /\ mode[l] = "reuse") => Current(l)
    /\ pc[l] \in {"open", "begin", "write"} /\ mode[l] = "sections" /\ output.args # None =>
         \A i \in Input \ changed[l] : output.in[i] = file[i].content

\* The fast path.
PatchInv(l) ==
    /\ pc[l] \in {"recheck", "patch"} =>
         ReadState.args = ArgsOf[l] /\ ReadState.out = OutputIdentity
    /\ pc[l] \in {"patch", "writepatch"} =>
         /\ output.args = ArgsOf[l]
         /\ \A i \in Input \ changed[l] : output.in[i] = file[i].content
    /\ pc[l] \in {"patch", "writepatch", "refreshpatch", "checkpatch"} =>
         /\ index.args = ArgsOf[l]
         /\ changed[l] # {} /\ changed[l] \subseteq setting.edited
    /\ pc[l] \in {"writepatch", "refreshpatch", "checkpatch"} =>
         \A i \in changed[l] : pending[l].inputs[i].hash = file[i].content
    /\ pc[l] \in {"refreshpatch", "checkpatch"} => pending[l].out = OutputIdentity
    /\ pc[l] \in {"remove", "install", "drop"} /\ mode[l] = "ambiguous" =>
         /\ pending[l].args = ArgsOf[l]
         /\ \A i \in Input : pending[l].inputs[i].hash = file[i].content
         /\ update # None =>
              \A i \in DOMAIN update.inputs : update.inputs[i].hash = file[i].content

\* The link has mapped its inputs.
HasMapped(l) ==
    pc[l] \in Loaded \/ (pc[l] \in {"remove", "install", "drop", "clear"} /\ mode[l] \in Relinking)

LoadInv(l) ==
    /\ HasMapped(l) /\ reported[l] = "no" =>
         \A i \in Input : mapped[l][i].content = file[i].content
    /\ HasMapped(l) /\ pc[l] \in HasPending =>
         /\ pending[l].args = ArgsOf[l]
         /\ \A i \in Input : pending[l].inputs[i].hash # None =>
                                pending[l].inputs[i].hash = mapped[l][i].content
    /\ pc[l] = "classify" => \A i \in Input : pending[l].inputs[i].id.m = file[i].m
    /\ pc[l] = "classify" /\ prev[l] # None /\ ~marker => Describes(prev[l], output, file)
    /\ pc[l] = "pubcheck" /\ prev[l].kind = "publishing" => Describes(prev[l], output, file)

\* The state a link is going to install describes the output.
PublishInv(l) ==
    /\ pc[l] \in {"finalverify", "remove", "install", "drop", "report", "hash"}
       /\ mode[l] \in Relinking =>
         /\ pending[l].out = OutputIdentity =>
              /\ output.args = ArgsOf[l]
              /\ \A i \in Input : output.in[i] = mapped[l][i].content
         /\ \A i \in Input : pending[l].inputs[i].id.m = file[i].m \/ i \notin setting.edited
                               => mapped[l][i].content = file[i].content
    /\ pc[l] \in {"begin", "write"} /\ mode[l] # "reuse" /\ index # None =>
         ReadState.out.m < output.m
    /\ pc[l] \in {"begin", "write", "verify", "finish", "finalverify", "remove", "install",
                  "drop"} /\ mode[l] \in Relinking \ {"reuse"} /\ update # None =>
         reported[l] = "no" /\ update.out.m < output.m
    /\ pc[l] \in {"report", "hash"} => update = None
    /\ pc[l] = "clear" => Describes(ReadState, output, file)

SerialLinkInv(l) == CurrentInv(l) /\ PatchInv(l) /\ LoadInv(l) /\ PublishInv(l)

QuietInv == SerialInv /\ RecordsInv /\ TrustInv /\ \A l \in Link : SerialLinkInv(l)

-----------------------------------------------------------------------------
(* What the state read from disk inherits *)

LEMMA ReadStateSame == UNCHANGED <<index, update>> => UNCHANGED ReadState
BY DEF ReadState, ApplyMetadataUpdate

LEMMA ReadRecords ==
    ASSUME DataOK, RecordsInv, index # None
    PROVE  RecordsOK(ReadState, file, now, setting.edited)
BY ReadStateFields DEF RecordsInv, IndexRecords, UpdateRecords, RecordsOK

LEMMA QuietStamp == Quiet => Stamp = now + 1
BY DEF Quiet, Stamp

LEMMA QuietWaiting == ASSUME SerialInv, NEW k \in Link, NEW l \in Link, Waiting(k), Waiting(l)
                      PROVE  k = l
BY DEF SerialInv

\* Where a link is that nobody waits for.
LEMMA NotWaiting ==
    ASSUME ControlInv, NEW l \in Link, ~Waiting(l)
    PROVE  /\ pc[l] \in {"idle", "done", "hash", "remove", "install", "drop", "clear"}
           /\ pc[l] # "idle" => reported[l] # "no"
           /\ pc[l] \in {"hash", "remove", "install", "drop", "clear"} =>
                reported[l] = "success" /\ mode[l] \in {"relink", "sections"}
BY DEF ControlInv, ReportInv, Waiting, Defers

-----------------------------------------------------------------------------
(* Initially, and while only the environment acts *)

LEMMA QuietInit == Init => QuietInv
<1> SUFFICES ASSUME Init PROVE QuietInv
  OBVIOUS
<1>1. \A l \in Link : pc[l] = "idle" /\ pending[l] = None /\ prev[l] = None
  BY DEF Init
<1>2. index = None /\ update = None /\ output.m = 0 /\ now \in Nat
      /\ \A i \in Input : file[i].m = 0
  BY ConstantsAssumption DEF Init
<1>3. SerialInv /\ RecordsInv /\ TrustInv
  BY <1>1, <1>2 DEF SerialInv, RecordsInv, ClockInv, IndexRecords, UpdateRecords, LocalRecords,
                    TrustInv, Waiting, Outside
<1>4. ASSUME NEW l \in Link PROVE SerialLinkInv(l)
  BY <1>1 DEF SerialLinkInv, CurrentInv, PatchInv, LoadInv, PublishInv, HasMapped, Loaded
<1> QED
  BY <1>3, <1>4 DEF QuietInv

LEMMA ClockStep ==
    ASSUME LinkInv, QuietInv, UNCHANGED vars \/ Tick PROVE QuietInv'
<1>1. now \in Nat /\ now' \in Nat /\ now <= now'
  BY ConstantsAssumption DEF Tick, LinkInv, TypeInv, DataOK, vars
<1>2. UNCHANGED <<setting, file, output, index, update, marker, startFile, lock, pc, mapped, prev,
                  pending, mode, changed, rewritten, reported>>
  BY DEF Tick, vars
<1>3. UNCHANGED ReadState
  BY <1>2, ReadStateSame
<1>4. SerialInv' /\ TrustInv'
  BY <1>2, <1>3 DEF QuietInv, SerialInv, TrustInv, Waiting
<1>5. RecordsInv'
  <2>1. DataOK /\ RecordsInv
    BY DEF LinkInv, TypeInv, QuietInv
  <2>2. file \in [Input -> File] /\ SameFiles(file, file)
    BY <2>1 DEF DataOK, File, SameFiles
  <2>3. ClockInv'
    BY <1>1, <1>2, <2>1 DEF RecordsInv, ClockInv, DataOK
  <2>4. IndexRecords'
    BY <1>1, <1>2, <2>1, <2>2, RecordsLater DEF RecordsInv, IndexRecords, DataOK
  <2>5. ASSUME NEW l \in Link PROVE LocalRecords(l)'
    BY <1>1, <1>2, <2>1, <2>2, RecordsLater DEF RecordsInv, LocalRecords, DataOK
  <2>6. UpdateRecords'
    <3> SUFFICES ASSUME update' # None PROVE UpdateRecords'
      BY DEF UpdateRecords
    <3>1. PICK I \in SUBSET Input : update \in MetadataUpdate(I)
      BY <1>2, <2>1 DEF DataOK
    <3>2. update.out.m \in Nat /\ \A i \in DOMAIN update.inputs : update.inputs[i].id.m \in Nat
      BY <3>1 DEF MetadataUpdate, InputState, Identity
    <3> QED
      BY <1>1, <1>2, <2>1, <3>2 DEF RecordsInv, UpdateRecords, RecordOK
  <2> QED
    BY <2>3, <2>4, <2>5, <2>6 DEF RecordsInv
<1>6. ASSUME NEW l \in Link PROVE SerialLinkInv(l)'
  <2>1. SerialLinkInv(l)
    BY DEF QuietInv
  <2>2. CurrentInv(l)' /\ PatchInv(l)'
    BY <1>2, <1>3, <2>1 DEF SerialLinkInv, CurrentInv, PatchInv, Current, OutputIdentity
  <2>3. LoadInv(l)' /\ PublishInv(l)'
    BY <1>2, <1>3, <2>1 DEF SerialLinkInv, LoadInv, PublishInv, HasMapped, OutputIdentity
  <2> QED
    BY <2>2, <2>3 DEF SerialLinkInv
<1> QED
  BY <1>4, <1>5, <1>6 DEF QuietInv

LEMMA RecordsKept ==
    ASSUME LinkInv, LinkInv', RecordsInv, UNCHANGED setting, now <= now', SameFiles(file, file')
    PROVE  /\ \A i \in Input : file'[i].m <= now'
           /\ index # None => /\ RecordsOK(index, file', now', setting'.edited)
                              /\ RecordsOK(ReadState, file', now', setting'.edited)
           /\ index' \in {index, None} => IndexRecords'
           /\ update' \in {update, None} => UpdateRecords'
           /\ \A l \in Link :
                /\ pending[l] # None => RecordsOK(pending[l], file', now', setting'.edited)
                /\ prev[l] # None => RecordsOK(prev[l], file', now', setting'.edited)
                /\ pending'[l] \in {pending[l], None} /\ prev'[l] \in {prev[l], ReadState, None}
                     => LocalRecords(l)'
<1>1. /\ DataOK /\ now \in Nat /\ now' \in Nat
      /\ file \in [Input -> File] /\ file' \in [Input -> File]
      /\ setting'.edited = setting.edited
  BY DEF LinkInv, TypeInv, DataOK, File
<1>2. \A i \in Input : file'[i].m <= now'
  BY <1>1 DEF RecordsInv, ClockInv, SameFiles, File
<1>3. ASSUME NEW s \in State, RecordsOK(s, file, now, setting.edited)
      PROVE  RecordsOK(s, file', now', setting'.edited)
  BY <1>1, <1>3, RecordsLater
<1>4. index # None => /\ RecordsOK(index, file', now', setting'.edited)
                      /\ RecordsOK(ReadState, file', now', setting'.edited)
  <2> SUFFICES ASSUME index # None
               PROVE  /\ RecordsOK(index, file', now', setting'.edited)
                      /\ RecordsOK(ReadState, file', now', setting'.edited)
    OBVIOUS
  <2>1. index \in State /\ ReadState \in State
    BY <1>1, ReadStateType DEF DataOK
  <2>2. /\ RecordsOK(index, file, now, setting.edited)
        /\ RecordsOK(ReadState, file, now, setting.edited)
    BY <1>1, ReadRecords DEF RecordsInv, IndexRecords
  <2> QED
    BY <1>3, <2>1, <2>2
<1>5. index' \in {index, None} => IndexRecords'
  BY <1>4 DEF IndexRecords
<1>6. update' \in {update, None} => UpdateRecords'
  <2> SUFFICES ASSUME update' = update, update # None PROVE UpdateRecords'
    BY DEF UpdateRecords
  <2>1. PICK I \in SUBSET Input : update \in MetadataUpdate(I)
    BY <1>1 DEF DataOK
  <2>2. /\ update.out.m \in Nat
        /\ \A i \in DOMAIN update.inputs : i \in Input /\ update.inputs[i].id.m \in Nat
    BY <2>1 DEF MetadataUpdate, InputState, Identity
  <2>3. /\ update.out.m <= now
        /\ \A i \in DOMAIN update.inputs :
              RecordOK(update.inputs[i], i, file, now, setting.edited)
    BY DEF RecordsInv, UpdateRecords
  <2>4. \A i \in DOMAIN update.inputs :
            RecordOK(update.inputs[i], i, file', now', setting'.edited)
    BY <1>1, <2>2, <2>3 DEF RecordOK, SameFiles
  <2> QED
    BY <1>1, <2>2, <2>3, <2>4 DEF UpdateRecords
<1>7. \A l \in Link :
        /\ pending[l] # None => RecordsOK(pending[l], file', now', setting'.edited)
        /\ prev[l] # None => RecordsOK(prev[l], file', now', setting'.edited)
  BY <1>1, <1>3 DEF RecordsInv, LocalRecords, DataOK
<1>8. ReadState # None => index # None
  BY <1>1, ReadStateType
<1>9. ASSUME NEW l \in Link, pending'[l] \in {pending[l], None},
             prev'[l] \in {prev[l], ReadState, None}
      PROVE  LocalRecords(l)'
  BY <1>4, <1>7, <1>8, <1>9 DEF LocalRecords
<1> QED
  BY <1>2, <1>4, <1>5, <1>6, <1>7, <1>9

\* An input is replaced, or the output is changed, while nobody waits for a link.
LEMMA EditStep ==
    ASSUME LinkInv, LinkInv', Quiet, QuietInv, NEW i \in Input, NEW v \in Content, Edit(i, v)
    PROVE  QuietInv'
<1> DEFINE E == setting.edited
<1>1. /\ DataOK /\ ControlInv /\ RecordsInv
      /\ now \in Nat /\ file \in [Input -> File] /\ file' \in [Input -> File]
  BY DEF LinkInv, TypeInv, QuietInv, DataOK, File
<1>2. /\ i \in E \cap Input /\ now' = now + 1
      /\ file'[i].m = now + 1 /\ \A j \in Input : j # i => file'[j] = file[j]
      /\ UNCHANGED <<setting, output, index, update, marker, pc, prev, pending, mapped, mode,
                     changed, rewritten, reported>>
      /\ \A l \in Link : ~Waiting(l)
  BY <1>1, QuietStamp DEF Quiet, Edit
<1>3. UNCHANGED ReadState
  BY <1>2, ReadStateSame
<1> HIDE DEF E
<1>4. ASSUME NEW s \in State, RecordsOK(s, file, now, E)
      PROVE  /\ RecordsOK(s, file', now', E)
             /\ Describes(s, output, file) => Describes(s, output', file')
             /\ s.inputs[i].id.m # file'[i].m
  <2>1. RecordsOK(s, file', now', E)
    BY <1>1, <1>2, <1>4, RecordsEdited
  <2>2. Describes(s, output, file) => Describes(s, output', file')
    BY <1>1, <1>2, <1>4, DescribesEdited
  <2>3. s.inputs[i].id.m \in Nat /\ s.inputs[i].id.m <= now
    BY <1>2, <1>4 DEF RecordsOK, RecordOK, State, InputState, Identity
  <2> QED
    BY <1>1, <1>2, <2>1, <2>2, <2>3
<1>5. index # None => /\ index \in State /\ RecordsOK(index, file, now, E)
                      /\ ReadState \in State /\ RecordsOK(ReadState, file, now, E)
  BY <1>1, ReadRecords, ReadStateType DEF DataOK, RecordsInv, IndexRecords, E
<1>6. \A l \in Link :
        /\ pending[l] # None => pending[l] \in State /\ RecordsOK(pending[l], file, now, E)
        /\ prev[l] # None => prev[l] \in State /\ RecordsOK(prev[l], file, now, E)
  BY <1>1 DEF DataOK, RecordsInv, LocalRecords, E
<1>7. SerialInv' /\ TrustInv'
  BY <1>2, <1>3, <1>4, <1>5 DEF QuietInv, SerialInv, TrustInv, Waiting
<1>8. RecordsInv'
  <2>1. ClockInv'
    BY <1>1, <1>2 DEF RecordsInv, ClockInv, DataOK, File
  <2>2. IndexRecords'
    BY <1>2, <1>4, <1>5 DEF IndexRecords, E
  <2>3. ASSUME NEW l \in Link PROVE LocalRecords(l)'
    BY <1>2, <1>4, <1>6 DEF LocalRecords, E
  <2>4. UpdateRecords'
    <3> SUFFICES ASSUME update # None PROVE UpdateRecords'
      BY <1>2 DEF UpdateRecords
    <3>1. PICK I \in SUBSET Input : update \in MetadataUpdate(I)
      BY <1>1 DEF DataOK
    <3>2. update.out.m \in Nat
          /\ \A j \in DOMAIN update.inputs : j \in Input /\ update.inputs[j].id.m \in Nat
      BY <3>1 DEF MetadataUpdate, InputState, Identity
    <3>3. /\ update.out.m <= now
          /\ \A j \in DOMAIN update.inputs : RecordOK(update.inputs[j], j, file, now, E)
      BY <1>1 DEF RecordsInv, UpdateRecords, E
    <3>4. ASSUME NEW j \in DOMAIN update.inputs
          PROVE  RecordOK(update.inputs[j], j, file', now', E)
      BY <1>1, <1>2, <3>2, <3>3 DEF RecordOK
    <3> QED
      BY <1>1, <1>2, <3>2, <3>3, <3>4 DEF UpdateRecords, E
  <2> QED
    BY <2>1, <2>2, <2>3, <2>4 DEF RecordsInv
<1>9. ASSUME NEW l \in Link PROVE SerialLinkInv(l)'
  <2>1. /\ pc'[l] = pc[l] /\ reported'[l] = reported[l] /\ mode'[l] = mode[l]
        /\ pc[l] \in {"idle", "done", "hash", "remove", "install", "drop", "clear"}
        /\ pc[l] # "idle" => reported[l] # "no"
        /\ pc[l] \in {"hash", "remove", "install", "drop", "clear"} =>
             reported[l] = "success" /\ mode[l] \in {"relink", "sections"}
    BY <1>1, <1>2, NotWaiting
  <2>2. CurrentInv(l)'
    BY <2>1 DEF CurrentInv
  <2>3. PatchInv(l)'
    BY <2>1 DEF PatchInv
  <2>4. LoadInv(l)'
    BY <1>2, <2>1 DEF LoadInv, QuietInv, SerialLinkInv, HasMapped, Loaded, HasPending
  <2>5. PublishInv(l)'
    <3>0. PublishInv(l)
      BY DEF QuietInv, SerialLinkInv
    <3>1. ASSUME pc[l] \in {"finalverify", "remove", "install", "drop", "report", "hash"},
                 mode[l] \in Relinking
          PROVE  /\ pending'[l].out = OutputIdentity' =>
                       /\ output'.args = ArgsOf[l]
                       /\ \A j \in Input : output'.in[j] = mapped'[l][j].content
                 /\ \A j \in Input : pending'[l].inputs[j].id.m = file'[j].m \/ j \notin E
                                       => mapped'[l][j].content = file'[j].content
      <4>1. pending[l] \in State
        BY <3>1 DEF LinkInv, TypeInv, LocalsInv, HasPending
      <4>2. pending[l].inputs[i].id.m # file'[i].m
        BY <1>4, <1>6, <4>1, NoneAssumption
      <4> QED
        BY <1>2, <3>0, <3>1, <4>2 DEF PublishInv, OutputIdentity, E
    <3>2. pc[l] = "clear" => Describes(ReadState', output', file')
      <4>1. pc[l] = "clear" => index # None
        BY DEF LinkInv, StateInv, KindInv
      <4> QED
        BY <1>3, <1>4, <1>5, <3>0, <4>1 DEF PublishInv
    <3>3. UNCHANGED <<index, update, reported, pc, mode>>
      BY <1>2
    <3> QED
      BY <1>2, <2>1, <3>0, <3>1, <3>2, <3>3 DEF PublishInv, E
  <2> QED
    BY <2>2, <2>3, <2>4, <2>5 DEF SerialLinkInv
<1> QED
  BY <1>7, <1>8, <1>9 DEF QuietInv

LEMMA ModifyStep ==
    ASSUME LinkInv, LinkInv', Quiet, QuietInv, ModifyOutput
    PROVE  QuietInv'
<1>1. /\ DataOK /\ ControlInv /\ RecordsInv /\ now \in Nat /\ output'.m \in Nat
  BY DEF LinkInv, TypeInv, QuietInv, DataOK
<1>2. /\ now' = now + 1 /\ output'.m = now + 1
      /\ UNCHANGED <<setting, file, index, update, marker, pc, prev, pending, mapped, mode,
                     changed, rewritten, reported>>
      /\ \A l \in Link : ~Waiting(l)
  BY <1>1, QuietStamp DEF ModifyOutput, DataOK
<1>3. UNCHANGED ReadState
  BY <1>2, ReadStateSame
<1>4. SameFiles(file, file')
  BY <1>2 DEF SameFiles
<1>5. ASSUME NEW s \in State, RecordsOK(s, file, now, setting.edited)
      PROVE  Describes(s, output', file') /\ s.out # OutputIdentity'
  <2>1. s.out.m \in Nat /\ s.out.m < output'.m
    BY <1>1, <1>2, <1>5 DEF RecordsOK, State
  <2> QED
    BY <1>1, <2>1, DescribesNewer DEF OutputIdentity
<1>6. index # None => Describes(ReadState', output', file')
  BY <1>1, <1>3, <1>5, ReadRecords, ReadStateType
<1>7. SerialInv' /\ TrustInv'
  BY <1>2, <1>6 DEF QuietInv, SerialInv, TrustInv, Waiting
<1>8. RecordsInv'
  <2>1. now <= now' /\ output'.m <= now'
    BY <1>1, <1>2
  <2>2. ClockInv'
    BY <1>1, <1>2, <1>4, <2>1, RecordsKept DEF ClockInv
  <2>3. IndexRecords' /\ UpdateRecords' /\ \A l \in Link : LocalRecords(l)'
    BY <1>1, <1>2, <1>4, <2>1, RecordsKept
  <2> QED
    BY <2>2, <2>3 DEF RecordsInv
<1>9. ASSUME NEW l \in Link PROVE SerialLinkInv(l)'
  <2>1. /\ pc'[l] = pc[l] /\ reported'[l] = reported[l] /\ mode'[l] = mode[l]
        /\ pc[l] \in {"idle", "done", "hash", "remove", "install", "drop", "clear"}
        /\ pc[l] # "idle" => reported[l] # "no"
        /\ pc[l] \in {"hash", "remove", "install", "drop", "clear"} =>
             reported[l] = "success" /\ mode[l] \in {"relink", "sections"}
    BY <1>1, <1>2, NotWaiting
  <2>2. CurrentInv(l)'
    BY <2>1 DEF CurrentInv
  <2>3. PatchInv(l)'
    BY <2>1 DEF PatchInv
  <2>4. LoadInv(l)'
    BY <1>2, <2>1 DEF LoadInv, QuietInv, SerialLinkInv, HasMapped, Loaded, HasPending
  <2>5. PublishInv(l)'
    <3>0. PublishInv(l)
      BY DEF QuietInv, SerialLinkInv
    <3>1. ASSUME pc[l] \in {"finalverify", "remove", "install", "drop", "report", "hash"}
          PROVE  pending'[l].out # OutputIdentity'
      <4>1. pending[l] \in State /\ RecordsOK(pending[l], file, now, setting.edited)
        BY <1>1, <3>1, NoneAssumption
           DEF LinkInv, TypeInv, LocalsInv, HasPending, RecordsInv, LocalRecords
      <4> QED
        BY <1>2, <1>5, <4>1
    <3>2. pc[l] = "clear" => index # None
      BY DEF LinkInv, StateInv, KindInv
    <3> QED
      BY <1>2, <1>6, <2>1, <3>0, <3>1, <3>2 DEF PublishInv
  <2> QED
    BY <2>2, <2>3, <2>4, <2>5 DEF SerialLinkInv
<1> QED
  BY <1>7, <1>8, <1>9 DEF QuietInv

-----------------------------------------------------------------------------
(* A link that has not asked for the lock yet *)

LEMMA OutsideStep ==
    ASSUME LinkInv, LinkInv', Quiet, QuietInv, NEW l \in Link, pc[l] \in Outside,
           StartLink(l) \/ LinkStep(l) \/ Crash(l), UNCHANGED setting
    PROVE  QuietInv'
<1> ControlInv /\ ControlOK /\ DataOK /\ RecordsInv
  BY DEF LinkInv, ControlInv, TypeInv, QuietInv
<1>1. StartLink(l) \/ ReadDuringPublication(l) \/ CheckPublication(l) \/ AcquireStateLock(l)
      \/ Crash(l)
  BY DEF Outside, LinkStep, CheckInputs, RecheckInputs, PatchUnsupported, StartPatch, WritePatch,
         RefreshPatched, CheckPatched, LoadInputs, ReadPrevious, PrepareState, VerifyInputs,
         OpenOutput, BeginUpdate, WriteOutput, PrepareFinish, RemoveIndex, InstallIndex,
         RemoveMetadataUpdate, InformParentDone, HashInputs, ClearMarker
<1>2. /\ UNCHANGED <<now, file, output, index, update, marker>>
      /\ pc'[l] \in Outside \cup {"fast", "load"}
      /\ pc'[l] \in {"fast", "load"} => AcquireStateLock(l)
      /\ pc'[l] = "pubcheck" => prev'[l] = ReadState
      /\ pending'[l] \in {pending[l], None} /\ prev'[l] \in {prev[l], ReadState, None}
  <2>1. CASE StartLink(l) \/ ReadDuringPublication(l) \/ CheckPublication(l) \/ AcquireStateLock(l)
    BY <2>1 DEF StartLink, ReadDuringPublication, CheckPublication, AcquireStateLock, diskVars,
                locals, End, Forget, Goto, ControlOK, DataOK, Outside
  <2>2. CASE Crash(l)
    BY <2>2 DEF Crash, End, Forget, Goto, ControlOK, DataOK, Outside
  <2> QED
    BY <1>1, <2>1, <2>2
<1>3. UNCHANGED ReadState
  BY <1>2, ReadStateSame
<1>4. ASSUME NEW k \in Link, k # l
      PROVE  /\ pc'[k] = pc[k] /\ mapped'[k] = mapped[k] /\ prev'[k] = prev[k]
             /\ pending'[k] = pending[k] /\ mode'[k] = mode[k] /\ changed'[k] = changed[k]
             /\ rewritten'[k] = rewritten[k] /\ reported'[k] = reported[k]
  BY <1>4, Frame
<1>5. SerialInv'
  <2>1. ASSUME NEW k \in Link, k # l, Waiting(k)', Waiting(l)' PROVE FALSE
    <3>1. Waiting(k)
      BY <1>4, <2>1 DEF Waiting
    <3>2. ~Waiting(l)
      BY <2>1, <3>1, QuietWaiting DEF QuietInv
    <3>3. pc[l] \in {"idle", "done"}
      BY <3>2, NotWaiting DEF Outside
    <3>4. StartLink(l)
      BY <1>1, <3>3 DEF ReadDuringPublication, CheckPublication, AcquireStateLock, Crash
    <3> QED
      BY <3>1, <3>4 DEF Quiet, StartLink
  <2>2. ASSUME NEW k \in Link, k # l, pc'[k] \notin Outside, pc'[l] \notin Outside PROVE FALSE
    <3>1. AcquireStateLock(l) /\ lock = None /\ pc[l] = "lock"
      BY <1>2, <2>2 DEF AcquireStateLock
    <3>2. Waiting(l)
      BY <3>1 DEF Waiting, ControlInv, ReportInv
    <3>3. ~Waiting(k)
      BY <2>2, <3>2, QuietWaiting DEF QuietInv
    <3>4. pc[k] \in Holding
      BY <1>4, <2>2, <3>3, NotWaiting DEF Outside, Holding
    <3> QED
      BY <3>1, <3>4, ConstantsAssumption DEF ControlInv, LockInv
  <2>3. \A j, k \in Link : j # l /\ k # l =>
            /\ Waiting(j)' /\ Waiting(k)' => j = k
            /\ pc'[j] \notin Outside /\ pc'[k] \notin Outside => j = k
    BY <1>4 DEF QuietInv, SerialInv, Waiting
  <2> QED
    BY <2>1, <2>2, <2>3 DEF SerialInv
<1>6. RecordsInv'
  <2>1. SameFiles(file, file') /\ now <= now'
    BY <1>2 DEF SameFiles, DataOK
  <2>2. IndexRecords' /\ UpdateRecords' /\ \A k \in Link : LocalRecords(k)'
    BY <1>2, <1>4, <2>1, RecordsKept
  <2> QED
    BY <1>2, <2>2 DEF RecordsInv, ClockInv
<1>7. TrustInv'
  BY <1>2, <1>3 DEF QuietInv, TrustInv
<1>8. SerialLinkInv(l)'
  <2>1. pc'[l] = "pubcheck" /\ prev'[l].kind = "publishing" =>
            Describes(prev'[l], output', file')
    <3> SUFFICES ASSUME pc'[l] = "pubcheck", ReadState.kind = "publishing"
                 PROVE  Describes(ReadState, output, file)
      BY <1>2
    <3>1. index # None
      BY <1>1, <1>2 DEF ReadDuringPublication, CheckPublication, StartLink, AcquireStateLock,
                        Crash, End, Goto, ControlOK
    <3>2. index.kind = "publishing"
      BY <3>1, ReadStateFields
    <3> QED
      BY <3>1, <3>2 DEF QuietInv, TrustInv
  <2> QED
    BY <1>2, <2>1 DEF SerialLinkInv, CurrentInv, PatchInv, LoadInv, PublishInv, HasMapped, Loaded,
                      HasPending, Outside
<1>9. ASSUME NEW k \in Link, k # l PROVE SerialLinkInv(k)'
  <2>1. SerialLinkInv(k)
    BY DEF QuietInv
  <2>2. CurrentInv(k)' /\ PatchInv(k)'
    BY <1>2, <1>3, <1>4, <1>9, <2>1 DEF SerialLinkInv, CurrentInv, PatchInv, Current, OutputIdentity
  <2>3. LoadInv(k)' /\ PublishInv(k)'
    BY <1>2, <1>3, <1>4, <1>9, <2>1
       DEF SerialLinkInv, LoadInv, PublishInv, HasMapped, OutputIdentity
  <2> QED
    BY <2>2, <2>3 DEF SerialLinkInv
<1> QED
  BY <1>5, <1>6, <1>7, <1>8, <1>9 DEF QuietInv

-----------------------------------------------------------------------------
(* A link that has: what its step has to show *)

LEMMA WorkStep ==
    ASSUME LinkInv, LinkInv', Quiet, QuietInv, NEW l \in Link, pc[l] \notin Outside,
           LinkStep(l) \/ Crash(l), UNCHANGED setting,
           SameFiles(file, file'), now <= now', output' = output \/ reported[l] = "no",
           output'.m <= now', IndexRecords', UpdateRecords', LocalRecords(l)', TrustInv',
           SerialLinkInv(l)'
    PROVE  QuietInv'
<1> ControlInv /\ ControlOK /\ DataOK /\ RecordsInv
  BY DEF LinkInv, ControlInv, TypeInv, QuietInv
<1>1. ASSUME NEW k \in Link, k # l
      PROVE  /\ pc'[k] = pc[k] /\ mapped'[k] = mapped[k] /\ prev'[k] = prev[k]
             /\ pending'[k] = pending[k] /\ mode'[k] = mode[k] /\ changed'[k] = changed[k]
             /\ rewritten'[k] = rewritten[k] /\ reported'[k] = reported[k]
             /\ pc[k] \in Outside
  <2>1. pc[k] \in Outside
    BY <1>1 DEF QuietInv, SerialInv
  <2> QED
    BY <1>1, <2>1, Frame
<1>2. Waiting(l)' => Waiting(l)
  <2>1. pc[l] # "idle"
    BY DEF Outside
  <2>2. reported[l] # "no" => reported'[l] # "no"
    BY Moves
  <2> QED
    BY <2>1, <2>2 DEF Waiting
<1>3. SerialInv'
  <2>1. \A k \in Link : Waiting(k)' => Waiting(k)
    BY <1>1, <1>2 DEF Waiting
  <2>2. \A k \in Link : k # l => pc'[k] \in Outside
    BY <1>1
  <2> QED
    BY <2>1, <2>2 DEF QuietInv, SerialInv
<1>4. RecordsInv'
  <2>1. (\A i \in Input : file'[i].m <= now') /\ \A k \in Link : k # l => LocalRecords(k)'
    BY <1>1, RecordsKept
  <2> QED
    BY <2>1 DEF RecordsInv, ClockInv
<1>5. ASSUME NEW k \in Link, k # l PROVE SerialLinkInv(k)'
  <2>1. ASSUME pc[k] = "pubcheck", prev[k].kind = "publishing"
        PROVE  Describes(prev[k], output', file')
    <3>1. Waiting(k)
      BY <2>1 DEF ControlInv, ReportInv, Waiting
    <3>2. reported[l] # "no"
      BY <1>5, <3>1, QuietWaiting DEF QuietInv, Waiting, Outside
    <3>3. Describes(prev[k], output, file)
      BY <2>1 DEF QuietInv, SerialLinkInv, LoadInv
    <3> QED
      BY <3>2, <3>3, DescribesSame
  <2> QED
    BY <1>1, <1>5, <2>1 DEF SerialLinkInv, CurrentInv, PatchInv, LoadInv, PublishInv, HasMapped,
                      Loaded, HasPending, Outside
<1> QED
  BY <1>3, <1>4, <1>5 DEF QuietInv

\* A step that leaves the output and the state on disk alone.
LEMMA LocalStep ==
    ASSUME LinkInv, LinkInv', Quiet, QuietInv, NEW l \in Link, pc[l] \notin Outside,
           LinkStep(l) \/ Crash(l), UNCHANGED <<setting, output, index, update, marker>>,
           SameFiles(file, file'), now <= now', LocalRecords(l)', SerialLinkInv(l)'
    PROVE  QuietInv'
<1>1. RecordsInv /\ TrustInv /\ DataOK /\ now' \in Nat
  BY DEF QuietInv, LinkInv, TypeInv, DataOK
<1>2. IndexRecords' /\ UpdateRecords'
  BY <1>1, RecordsKept
<1>3. TrustInv'
  BY <1>1, ReadStateSame, DescribesSame DEF TrustInv
<1>4. output'.m <= now'
  BY <1>1 DEF RecordsInv, ClockInv, DataOK
<1> QED
  BY <1>2, <1>3, <1>4, WorkStep

\* A link that ends, or gives up the fast path, says nothing more.
LEMMA SilentStep ==
    ASSUME LinkInv, LinkInv', Quiet, QuietInv, NEW l \in Link, pc[l] \notin Outside,
           LinkStep(l) \/ Crash(l), UNCHANGED <<setting, now, file, output, index, update, marker>>,
           (\E outcome : End(l, outcome)) \/ LeaveFastPath(l)
    PROVE  QuietInv'
<1>1. ControlOK /\ DataOK /\ RecordsInv /\ now \in Nat
  BY DEF LinkInv, ControlInv, TypeInv, QuietInv, DataOK
<1>2. SameFiles(file, file') /\ now <= now'
  BY <1>1 DEF SameFiles
<1>3. pc'[l] \in {"done", "load"} /\ pending'[l] = None /\ prev'[l] \in {prev[l], None}
  BY <1>1 DEF End, LeaveFastPath, Goto, Forget, ControlOK, DataOK
<1>4. LocalRecords(l)'
  BY <1>1, <1>2, <1>3, RecordsKept
<1>5. SerialLinkInv(l)'
  BY <1>3
     DEF SerialLinkInv, CurrentInv, PatchInv, LoadInv, PublishInv, HasMapped, Loaded,
         HasPending
<1> QED
  BY <1>2, <1>4, <1>5, LocalStep

-----------------------------------------------------------------------------
(* The fast path *)

\* What is used in every step below.
Facts(l) ==
    /\ ControlInv /\ ControlOK /\ DataOK /\ DiskInv /\ RecordsInv /\ TrustInv
    /\ ModeInv(l) /\ MarkerInv(l) /\ ReportInv(l) /\ LocalsInv(l) /\ KindInv(l)
    /\ CurrentInv(l) /\ PatchInv(l) /\ LoadInv(l) /\ PublishInv(l)
    /\ now \in Nat /\ Stamp = now + 1
    /\ file \in [Input -> File]

LEMMA HaveFacts ==
    ASSUME LinkInv, Quiet, QuietInv, NEW l \in Link PROVE Facts(l)
BY QuietStamp
   DEF Facts, LinkInv, ControlInv, TypeInv, StateInv, QuietInv, SerialLinkInv, DataOK, File

LEMMA SnapshotSame ==
    ASSUME DataOK, NEW I, file' = Snapshotted(I), now' = SnapshotTime(I)
    PROVE  SameFiles(file, file') /\ now <= now'
BY SnapshottedType DEF SameFiles

LEMMA CheckInputsStep ==
    ASSUME LinkInv, LinkInv', Quiet, QuietInv, NEW l \in Link, CheckInputs(l) PROVE QuietInv'
<1> Facts(l) /\ DataOK
  BY HaveFacts DEF Facts
<1>1. /\ UNCHANGED <<setting, output, index, update, marker>> /\ LinkStep(l)
      /\ pc[l] = "fast" /\ pc[l] \notin Outside
  BY DEF CheckInputs, LinkStep, Outside
<1>2. CASE ~FastPathOpen(l)
  BY <1>1, <1>2, SilentStep DEF CheckInputs
<1>3. CASE FastPathOpen(l)
  <2> DEFINE same == {i \in Input : ReadState.inputs[i].id = FileIdentity(file[i])}
             ambiguous == {i \in same : Ambiguous(ReadState.inputs[i], ReadState.start)}
             D == {i \in (Input \ same) \cup ambiguous : ~ContentMatches(ReadState.inputs[i], i)}
             I == (Input \ same) \ D
  <2>1. /\ FastPathOpen(l)
        /\ changed' = [changed EXCEPT ![l] = D]
        /\ file' = Snapshotted(I) /\ now' = SnapshotTime(I)
        /\ pending' = [pending EXCEPT ![l] = [ReadState EXCEPT !.inputs = Refreshed(@, I, file')]]
        /\ pc' = [pc EXCEPT ![l] = IF D = {} THEN "recheck" ELSE "patch"]
        /\ UNCHANGED prev
    BY <1>3 DEF CheckInputs, Goto
  <2>2. /\ ~marker /\ index # None /\ index \in State
        /\ ReadState.args = ArgsOf[l] /\ ReadState.out = OutputIdentity
        /\ index.args = ReadState.args
    BY <2>1, ReadStateFields DEF FastPathOpen, DataOK
  <2>3. /\ Describes(ReadState, output, file) /\ ReadState \in State
        /\ RecordsOK(ReadState, file, now, setting.edited)
        /\ FullState(ReadState)
    <3>1. FullState(index)
      BY <2>2 DEF Facts, DiskInv, State
    <3> QED
      BY <2>2, <3>1, ReadRecords, ReadStateType, ReadStateFull DEF Facts, TrustInv
  <2>4. output.args = ArgsOf[l]
    BY <2>2, <2>3 DEF Describes, OutputIdentity
  <2>5. ASSUME NEW i \in Input, i \notin D PROVE output.in[i] = file[i].content
    <3>1. /\ ReadState.inputs[i].hash # None => output.in[i] = ReadState.inputs[i].hash
          /\ ReadState.inputs[i].id.m = file[i].m => output.in[i] = file[i].content
      BY <2>2, <2>3 DEF Describes, OutputIdentity
    <3>2. CASE i \in same
      BY <3>1, <3>2 DEF FileIdentity
    <3>3. CASE i \notin same
      BY <2>3, <2>5, <3>1, <3>3 DEF ContentMatches, FullState
    <3> QED
      BY <3>2, <3>3
  <2>6. D \subseteq setting.edited /\ D \subseteq Input
    BY <2>3 DEF RecordsOK, RecordOK, FullState, ContentMatches
  <2>7. ASSUME NEW i \in I PROVE i \in Input /\ ReadState.inputs[i].hash = file[i].content
    BY DEF ContentMatches
  <2> HIDE DEF same, ambiguous, D, I
  <2>8. SameFiles(file, file') /\ now <= now' /\ file' \in [Input -> File] /\ now' \in Nat
    BY <2>1, SnapshotSame DEF LinkInv, TypeInv, DataOK, File
  <2>9. LocalRecords(l)'
    <3>1. pending'[l] = [ReadState EXCEPT !.inputs = Refreshed(@, I, file')]
      BY <2>1 DEF DataOK
    <3>2. \A i \in Input : /\ pending'[l].inputs[i].hash = ReadState.inputs[i].hash
                           /\ pending'[l].inputs[i].id =
                                IF i \in I THEN FileIdentity(file'[i]) ELSE ReadState.inputs[i].id
      <4>1. \A i \in Input :
               /\ Refreshed(ReadState.inputs, I, file')[i].hash = ReadState.inputs[i].hash
               /\ Refreshed(ReadState.inputs, I, file')[i].id =
                    IF i \in I THEN FileIdentity(file'[i]) ELSE ReadState.inputs[i].id
        BY <2>3, <2>8, RefreshedType DEF State, File
      <4> QED
        BY <2>3, <3>1, <4>1 DEF State
    <3>3. pending'[l].out = ReadState.out
      BY <2>3, <3>1 DEF State
    <3>4. RecordsOK(ReadState, file', now', setting'.edited)
      BY <1>1, <2>2, <2>8, RecordsKept DEF Facts
    <3>5. \A i \in Input : file'[i].m <= now' /\ file'[i].content = file[i].content
      BY <1>1, <2>8, RecordsKept DEF Facts, SameFiles
    <3>6. ASSUME NEW i \in Input
          PROVE  RecordOK(pending'[l].inputs[i], i, file', now', setting'.edited)
      <4>1. CASE i \in I
        <5>1. ReadState.inputs[i].hash = file[i].content
          BY <2>7, <4>1
        <5>2. pending'[l].inputs[i].id.m = file'[i].m
          <6>1. pending'[l].inputs[i].id = FileIdentity(file'[i])
            BY <3>2, <4>1
          <6> QED
            BY <6>1 DEF FileIdentity
        <5>3. pending'[l].inputs[i].hash = file'[i].content
          BY <3>2, <3>5, <5>1
        <5> QED
          BY <3>5, <5>2, <5>3 DEF RecordOK
      <4>2. CASE i \notin I
        BY <3>2, <3>4, <4>2 DEF RecordOK, RecordsOK
      <4> QED
        BY <4>1, <4>2
    <3>7. RecordsOK(pending'[l], file', now', setting'.edited)
      BY <3>3, <3>4, <3>6 DEF RecordsOK
    <3>8. prev'[l] # None => RecordsOK(prev'[l], file', now', setting'.edited)
      BY <1>1, <2>1, <2>8, RecordsKept DEF Facts
    <3> QED
      BY <3>7, <3>8 DEF LocalRecords
  <2>10. /\ pc'[l] \in {"recheck", "patch"} /\ changed'[l] = D
         /\ pc'[l] = "recheck" <=> D = {}
         /\ UNCHANGED ReadState
    BY <1>1, <2>1, ReadStateSame DEF Facts, ControlOK, DataOK
  <2>11. CurrentInv(l)'
    BY <1>1, <2>4, <2>5, <2>8, <2>10 DEF CurrentInv, Current, SameFiles
  <2>12. PatchInv(l)'
    BY <1>1, <2>2, <2>4, <2>5, <2>6, <2>8, <2>10 DEF PatchInv, SameFiles, OutputIdentity
  <2>13. LoadInv(l)' /\ PublishInv(l)'
    BY <2>10 DEF LoadInv, PublishInv, HasMapped, Loaded
  <2> QED
    BY <1>1, <2>8, <2>9, <2>11, <2>12, <2>13, LocalStep DEF SerialLinkInv
<1> QED
  BY <1>2, <1>3

LEMMA RecheckInputsStep ==
    ASSUME LinkInv, LinkInv', Quiet, QuietInv, NEW l \in Link,
           RecheckInputs(l) \/ PatchUnsupported(l)
    PROVE  QuietInv'
<1> Facts(l) /\ DataOK /\ ControlOK
  BY HaveFacts DEF Facts
<1>1. /\ UNCHANGED <<setting, now, file, output, index, update, marker>> /\ LinkStep(l)
      /\ pc[l] \notin Outside
  BY DEF RecheckInputs, PatchUnsupported, LinkStep, Outside, diskVars
<1>2. CASE LeaveFastPath(l) \/ End(l, "success")
  BY <1>1, <1>2, SilentStep
<1>3. CASE ~(LeaveFastPath(l) \/ End(l, "success"))
  <2>1. /\ pc[l] = "recheck" /\ pc'[l] = "remove" /\ mode[l] = "ambiguous"
        /\ pending'[l] = [ReadState EXCEPT !.start = startFile,
                                           !.inputs = Refreshed(@, rewritten[l], file)]
        /\ UNCHANGED <<prev, mode, reported>>
    BY <1>3 DEF RecheckInputs, PatchUnsupported, Goto, ControlOK, DataOK
  <2>2. /\ index # None /\ ~marker /\ reported[l] = "no" /\ FullState(index) /\ FullState(ReadState)
        /\ ReadState \in State /\ RecordsOK(ReadState, file, now, setting.edited)
        /\ ReadState.args = ArgsOf[l] /\ ReadState.out = OutputIdentity
    BY <2>1, ReadRecords, ReadStateType, ReadStateFull
       DEF Facts, MarkerInv, ReportInv, LocalsInv, KindInv, PatchInv
  <2>3. Current(l) /\ Describes(ReadState, output, file)
    BY <2>1, <2>2 DEF Facts, CurrentInv, TrustInv
  <2>4. \A i \in Input : ReadState.inputs[i].hash = file[i].content
    BY <2>2, <2>3 DEF Describes, Current, FullState, OutputIdentity
  <2>5. /\ pending'[l].args = ReadState.args /\ pending'[l].out = ReadState.out
        /\ \A i \in Input : /\ pending'[l].inputs[i].hash = ReadState.inputs[i].hash
                            /\ pending'[l].inputs[i].id =
                                 IF i \in rewritten[l] THEN FileIdentity(file[i])
                                                      ELSE ReadState.inputs[i].id
    <3>1. \A i \in Input : /\ Refreshed(ReadState.inputs, rewritten[l], file)[i].hash
                               = ReadState.inputs[i].hash
                          /\ Refreshed(ReadState.inputs, rewritten[l], file)[i].id =
                               IF i \in rewritten[l] THEN FileIdentity(file[i])
                                                    ELSE ReadState.inputs[i].id
      <4>1. /\ ReadState.inputs \in [Input -> InputState]
            /\ file \in [Input -> [content : Content, ino : Nat, m : Nat, c : Nat]]
        BY <2>2 DEF State, DataOK
      <4> QED
        BY <4>1, RefreshedType
    <3> QED
      BY <2>1, <2>2, <3>1 DEF State
  <2>6. RecordsOK(pending'[l], file, now, setting.edited)
    <3>1. ASSUME NEW i \in Input PROVE RecordOK(pending'[l].inputs[i], i, file, now, setting.edited)
      <4>1. pending'[l].inputs[i].hash = file[i].content
        BY <2>4, <2>5
      <4>2. pending'[l].inputs[i].id \in {FileIdentity(file[i]), ReadState.inputs[i].id}
        BY <2>5
      <4>3. FileIdentity(file[i]).m <= now /\ ReadState.inputs[i].id.m <= now
        BY <2>2 DEF Facts, RecordsInv, ClockInv, FileIdentity, RecordsOK, RecordOK
      <4> QED
        BY <4>1, <4>2, <4>3 DEF RecordOK
    <3> QED
      BY <2>2, <2>5, <3>1 DEF RecordsOK
  <2>7. LocalRecords(l)'
    BY <1>1, <2>1, <2>6 DEF LocalRecords, Facts, RecordsInv
  <2>8. CurrentInv(l)'
    BY <1>1, <2>1, <2>3 DEF CurrentInv, Current
  <2>9. PatchInv(l)'
    <3>1. ASSUME update # None, NEW i \in DOMAIN update.inputs
          PROVE  update.inputs[i].hash = file[i].content
      <4>1. i \in Input
        BY <3>1 DEF DataOK, MetadataUpdate
      <4>2. ReadState.inputs[i] = update.inputs[i]
        BY <2>2, <3>1, <4>1, ReadStateFields
      <4> QED
        BY <2>4, <4>1, <4>2
    <3> QED
      BY <1>1, <2>1, <2>2, <2>4, <2>5, <3>1 DEF PatchInv
  <2>10. LoadInv(l)' /\ PublishInv(l)'
    BY <2>1 DEF LoadInv, PublishInv, HasMapped, Loaded, Relinking
  <2>11. SameFiles(file, file') /\ now <= now'
    BY <1>1 DEF SameFiles, Facts
  <2> QED
    BY <1>1, <2>7, <2>8, <2>9, <2>10, <2>11, LocalStep DEF SerialLinkInv
<1> QED
  BY <1>2, <1>3

LEMMA StartPatchStep ==
    ASSUME LinkInv, LinkInv', Quiet, QuietInv, NEW l \in Link, StartPatch(l) PROVE QuietInv'
<1> Facts(l) /\ DataOK /\ ControlOK
  BY HaveFacts DEF Facts
<1>1. /\ UNCHANGED <<setting, now, file, output, index, update, prev, changed, reported>>
      /\ LinkStep(l) /\ pc[l] = "patch" /\ pc[l] \notin Outside /\ marker'
      /\ pc'[l] = "writepatch"
  BY DEF StartPatch, LinkStep, Outside, MarkedForUpdate, Goto, ControlOK
<1>2. pending[l] \in State /\ FullState(index) /\ index # None
  BY <1>1 DEF Facts, LocalsInv, HasPending, KindInv
<1> DEFINE read == [i \in Input |-> IF i \in changed[l]
                      THEN [pending[l].inputs[i] EXCEPT !.hash = file[i].content]
                      ELSE pending[l].inputs[i]]
<1>3. pending'[l] = [pending[l] EXCEPT !.inputs = read]
  BY <1>2 DEF StartPatch, DataOK
<1>4. \A i \in Input : /\ read[i].id = pending[l].inputs[i].id
                       /\ i \in changed[l] => read[i].hash = file[i].content
                       /\ i \notin changed[l] => read[i] = pending[l].inputs[i]
  BY <1>2 DEF State, InputState
<1> HIDE DEF read
<1>5. pending'[l].inputs = read /\ pending'[l].out = pending[l].out
  BY <1>2, <1>3 DEF State
<1>6. LocalRecords(l)'
  <2>1. RecordsOK(pending[l], file, now, setting.edited)
    BY <1>2, NoneAssumption DEF Facts, RecordsInv, LocalRecords
  <2>2. ASSUME NEW i \in Input PROVE RecordOK(read[i], i, file, now, setting.edited)
    <3>1. RecordOK(pending[l].inputs[i], i, file, now, setting.edited)
      BY <2>1 DEF RecordsOK
    <3>2. CASE i \in changed[l]
      BY <1>4, <3>1, <3>2 DEF RecordOK
    <3>3. CASE i \notin changed[l]
      BY <1>4, <3>1, <3>3
    <3> QED
      BY <3>2, <3>3
  <2>3. RecordsOK(pending'[l], file, now, setting.edited)
    BY <1>5, <2>1, <2>2 DEF RecordsOK
  <2> QED
    BY <1>1, <2>3 DEF LocalRecords, Facts, RecordsInv
<1>7. CurrentInv(l)' /\ LoadInv(l)' /\ PublishInv(l)'
  BY <1>1 DEF CurrentInv, LoadInv, PublishInv, HasMapped, Loaded
<1>8. PatchInv(l)'
  <2>1. changed[l] \subseteq Input
    BY DEF DataOK
  <2>2. ASSUME NEW i \in changed[l] PROVE pending'[l].inputs[i].hash = file[i].content
    <3>1. read[i].hash = file[i].content
      BY <1>4, <2>1
    <3> QED
      BY <1>5, <3>1
  <2> QED
    BY <1>1, <2>2 DEF PatchInv, Facts
<1>9. TrustInv'
  BY <1>1, <1>2 DEF TrustInv, FullState
<1>10. SameFiles(file, file') /\ now <= now' /\ output'.m <= now'
  BY <1>1 DEF SameFiles, Facts, RecordsInv, ClockInv
<1>11. IndexRecords' /\ UpdateRecords'
  BY <1>1, <1>10, RecordsKept DEF Facts
<1> QED
  BY <1>1, <1>6, <1>7, <1>8, <1>9, <1>10, <1>11, WorkStep DEF SerialLinkInv

LEMMA WritePatchStep ==
    ASSUME LinkInv, LinkInv', Quiet, QuietInv, NEW l \in Link, WritePatch(l) PROVE QuietInv'
<1> Facts(l) /\ DataOK /\ ControlOK
  BY HaveFacts DEF Facts
<1>1. /\ UNCHANGED <<setting, file, index, update, marker, prev, changed, reported, mode>>
      /\ LinkStep(l) /\ pc[l] = "writepatch" /\ pc[l] \notin Outside
      /\ pc'[l] = "refreshpatch" /\ now' = now + 1
  BY DEF WritePatch, LinkStep, Outside, Goto, ControlOK, Facts
<1>2. /\ pending[l] \in State /\ FullState(index) /\ index # None /\ marker
      /\ reported[l] = "no"
  BY <1>1 DEF Facts, LocalsInv, HasPending, KindInv, MarkerInv, ReportInv
<1>3. /\ output'.args = output.args /\ output'.ino = output.ino /\ output'.m = now + 1
      /\ \A i \in Input : output'.in[i] = IF i \in changed[l] THEN pending[l].inputs[i].hash
                                                           ELSE output.in[i]
  BY DEF WritePatch, DataOK, Facts
<1>4. /\ pending'[l].out = OutputIdentity' /\ pending'[l].inputs = pending[l].inputs
      /\ pending'[l].out.m = now + 1
  <2>1. pending'[l] = [pending[l] EXCEPT !.out = [ino |-> output.ino, m |-> now + 1]]
    BY <1>2 DEF WritePatch, DataOK, Facts
  <2> QED
    BY <1>2, <1>3, <2>1 DEF State, OutputIdentity
<1>5. SameFiles(file, file') /\ now <= now' /\ output'.m <= now'
  BY <1>1, <1>3 DEF SameFiles, Facts
<1>6. LocalRecords(l)'
  <2>1. RecordsOK(pending[l], file', now', setting'.edited)
    BY <1>1, <1>2, <1>5, RecordsKept, NoneAssumption DEF Facts
  <2>2. RecordsOK(pending'[l], file', now', setting'.edited)
    BY <1>1, <1>4, <1>5, <2>1 DEF RecordsOK, Facts
  <2>3. prev'[l] # None => RecordsOK(prev'[l], file', now', setting'.edited)
    BY <1>1, <1>5, RecordsKept DEF Facts
  <2> QED
    BY <2>2, <2>3 DEF LocalRecords
<1>7. LoadInv(l)' /\ PublishInv(l)'
  BY <1>1 DEF LoadInv, PublishInv, HasMapped, Loaded
<1>8. CurrentInv(l)'
  <2>1. Current(l)'
    BY <1>1, <1>3 DEF Facts, PatchInv, Current
  <2> QED
    BY <1>1, <2>1 DEF CurrentInv
<1>9. PatchInv(l)'
  <2>1. changed[l] \subseteq Input
    BY DEF DataOK
  <2> QED
    BY <1>1, <1>4, <2>1 DEF PatchInv, Facts
<1>10. TrustInv'
  BY <1>1, <1>2 DEF TrustInv, FullState
<1>11. IndexRecords' /\ UpdateRecords'
  BY <1>1, <1>5, RecordsKept DEF Facts
<1> QED
  BY <1>1, <1>2, <1>5, <1>6, <1>7, <1>8, <1>9, <1>10, <1>11, WorkStep DEF SerialLinkInv

LEMMA RefreshPatchedStep ==
    ASSUME LinkInv, LinkInv', Quiet, QuietInv, NEW l \in Link, RefreshPatched(l) PROVE QuietInv'
<1> Facts(l) /\ DataOK /\ ControlOK
  BY HaveFacts DEF Facts
<1>1. /\ UNCHANGED <<setting, output, index, update, marker, prev, changed, reported, mode>>
      /\ LinkStep(l) /\ pc[l] = "refreshpatch" /\ pc[l] \notin Outside
      /\ pc'[l] = "checkpatch"
      /\ file' = Snapshotted(changed[l]) /\ now' = SnapshotTime(changed[l])
  BY DEF RefreshPatched, LinkStep, Outside, Goto, ControlOK
<1>2. pending[l] \in State /\ changed[l] \subseteq Input
  BY <1>1 DEF Facts, LocalsInv, HasPending, DataOK
<1>3. SameFiles(file, file') /\ now <= now'
  BY <1>1, SnapshotSame
<1> DEFINE fresh == [i \in Input |->
          IF i \in changed[l]
            THEN [pending[l].inputs[i] EXCEPT !.id = FileIdentity(file'[i]),
                    !.snap = IF i \in Hardlinked THEN FileIdentity(file'[i]) ELSE None]
            ELSE pending[l].inputs[i]]
<1>4. pending'[l] = [pending[l] EXCEPT !.inputs = fresh]
  BY <1>2 DEF RefreshPatched, DataOK
<1>5. ASSUME NEW i \in Input
      PROVE  /\ fresh[i].hash = pending[l].inputs[i].hash
             /\ i \in changed[l] => fresh[i].id = FileIdentity(file'[i])
             /\ i \notin changed[l] => fresh[i] = pending[l].inputs[i]
  BY <1>2 DEF State, InputState
<1> HIDE DEF fresh
<1>6. pending'[l].inputs = fresh /\ pending'[l].out = pending[l].out
  BY <1>2, <1>4 DEF State
<1>7. ASSUME NEW i \in changed[l] PROVE fresh[i].hash = file'[i].content
  <2>1. pending[l].inputs[i].hash = file[i].content
    BY <1>1 DEF Facts, PatchInv
  <2>2. i \in Input
    BY <1>2
  <2> QED
    BY <1>3, <1>5, <2>1, <2>2 DEF SameFiles
<1>8. LocalRecords(l)'
  <2>1. RecordsOK(pending[l], file', now', setting'.edited)
    BY <1>1, <1>2, <1>3, RecordsKept, NoneAssumption DEF Facts
  <2>2. ASSUME NEW i \in Input PROVE RecordOK(fresh[i], i, file', now', setting'.edited)
    <3>1. CASE i \in changed[l]
      <4>1. fresh[i].id.m = file'[i].m
        <5>1. fresh[i].id = FileIdentity(file'[i])
          BY <1>5, <3>1
        <5> QED
          BY <5>1 DEF FileIdentity
      <4>2. file'[i].m <= now'
        BY <1>1, <1>3, RecordsKept DEF Facts
      <4> QED
        BY <1>7, <3>1, <4>1, <4>2 DEF RecordOK
    <3>2. CASE i \notin changed[l]
      BY <1>5, <2>1, <3>2 DEF RecordsOK
    <3> QED
      BY <3>1, <3>2
  <2>3. RecordsOK(pending'[l], file', now', setting'.edited)
    BY <1>6, <2>1, <2>2 DEF RecordsOK
  <2>4. prev'[l] # None => RecordsOK(prev'[l], file', now', setting'.edited)
    BY <1>1, <1>3, RecordsKept DEF Facts
  <2> QED
    BY <2>3, <2>4 DEF LocalRecords
<1>9. CurrentInv(l)'
  BY <1>1, <1>3 DEF Facts, CurrentInv, Current, SameFiles
<1>10. PatchInv(l)'
  BY <1>1, <1>6, <1>7 DEF PatchInv, Facts, OutputIdentity
<1>11. LoadInv(l)' /\ PublishInv(l)'
  BY <1>1 DEF LoadInv, PublishInv, HasMapped, Loaded
<1> QED
  BY <1>1, <1>3, <1>8, <1>9, <1>10, <1>11, LocalStep DEF SerialLinkInv

LEMMA CheckPatchedStep ==
    ASSUME LinkInv, LinkInv', Quiet, QuietInv, NEW l \in Link, CheckPatched(l) PROVE QuietInv'
<1> Facts(l) /\ DataOK /\ ControlOK
  BY HaveFacts DEF Facts
<1>1. /\ UNCHANGED <<setting, now, file, output, index, marker>>
      /\ LinkStep(l) /\ pc[l] = "checkpatch" /\ pc[l] \notin Outside
  BY DEF CheckPatched, LinkStep, Outside
<1>2. CASE ~StillAsPatched(l)
  BY <1>1, <1>2, SilentStep DEF CheckPatched
<1>3. CASE StillAsPatched(l)
  <2> DEFINE I == changed[l] \cup rewritten[l]
  <2>1. /\ update' = [start |-> startFile, out |-> pending[l].out,
                      inputs |-> [i \in I |-> pending[l].inputs[i]]]
        /\ pc'[l] = "clear" /\ mode[l] = "patch" /\ reported[l] = "no"
        /\ UNCHANGED <<mapped, prev, pending, mode, changed, reported>>
    BY <1>1, <1>3 DEF CheckPatched, Goto, ControlOK, Facts, ModeInv, ReportInv
  <2>2. I \subseteq Input /\ changed[l] \subseteq Input
    BY DEF DataOK
  <2>3. /\ pending[l] \in State /\ index # None /\ index \in State /\ FullState(index) /\ marker
        /\ RecordsOK(pending[l], file, now, setting.edited)
        /\ RecordsOK(index, file, now, setting.edited)
    BY <1>1, NoneAssumption DEF Facts, LocalsInv, HasPending, KindInv, MarkerInv, RecordsInv,
       IndexRecords, LocalRecords, DataOK
  <2>4. /\ Current(l) /\ index.args = ArgsOf[l] /\ pending[l].out = OutputIdentity
        /\ changed[l] # {} /\ changed[l] \subseteq setting.edited
    BY <1>1, <2>1 DEF Facts, CurrentInv, PatchInv
  \* The only edited input is the one that has been patched.
  <2>5. ASSUME NEW i \in Input, i \notin I PROVE index.inputs[i].hash = file[i].content
    <3>1. i \notin setting.edited
      BY <2>4, <2>5 DEF Quiet
    <3> QED
      BY <2>3, <3>1 DEF RecordsOK, RecordOK, FullState
  <2>6. ASSUME NEW i \in I PROVE pending[l].inputs[i].hash \in {None, file[i].content}
    <3>1. pending[l].inputs[i].id.m = file[i].m
      <4>1. pending[l].inputs[i].id = FileIdentity(file[i])
        BY <1>3, <2>2, <2>6 DEF StillAsPatched, IdentitiesMatch
      <4> QED
        BY <4>1 DEF FileIdentity
    <3> QED
      BY <2>2, <2>3, <3>1 DEF RecordsOK, RecordOK
  <2> HIDE DEF I
  <2>7. update' # None
    <3>1. /\ startFile \in Nat /\ pending[l].out \in [ino : Nat, m : Nat]
          /\ \A i \in I : pending[l].inputs[i] \in InputState
      BY <2>2, <2>3 DEF DataOK, State
    <3>2. update' \in MetadataUpdate(I)
      BY <2>1, <3>1 DEF MetadataUpdate
    <3> QED
      BY <2>2, <3>2, NoneAssumption
  <2>8. Describes(ReadState', output', file')
    <3>1. /\ ReadState'.args = index.args /\ ReadState'.out = pending[l].out
          /\ \A i \in Input : ReadState'.inputs[i] =
                IF i \in I THEN pending[l].inputs[i] ELSE index.inputs[i]
      <4>1. /\ index' = index /\ update'.out = pending[l].out /\ DOMAIN update'.inputs = I
            /\ \A i \in I : update'.inputs[i] = pending[l].inputs[i]
        BY <1>1, <2>1
      <4>2. ReadState' = [index EXCEPT !.start = update'.start, !.out = update'.out,
                             !.inputs = [i \in Input |-> IF i \in DOMAIN update'.inputs
                                          THEN update'.inputs[i] ELSE index.inputs[i]]]
        BY <2>3, <2>7, <4>1 DEF ReadState, ApplyMetadataUpdate
      <4> QED
        BY <2>3, <4>1, <4>2 DEF State
    <3>2. ASSUME NEW i \in Input PROVE ReadState'.inputs[i].hash \in {None, file[i].content}
      <4>1. CASE i \in I
        BY <2>6, <3>1, <4>1
      <4>2. CASE i \notin I
        BY <2>5, <3>1, <4>2
      <4> QED
        BY <4>1, <4>2
    <3> QED
      BY <1>1, <2>4, <3>1, <3>2 DEF Describes, Current
  <2>9. UpdateRecords'
    <3>1. update'.out.m <= now'
      BY <1>1, <2>1, <2>3 DEF RecordsOK
    <3>2. ASSUME NEW i \in I PROVE RecordOK(pending[l].inputs[i], i, file', now', setting'.edited)
      BY <1>1, <2>2, <2>3 DEF RecordsOK
    <3>3. DOMAIN update'.inputs = I /\ \A i \in I : update'.inputs[i] = pending[l].inputs[i]
      BY <2>1
    <3> QED
      BY <3>1, <3>2, <3>3 DEF UpdateRecords
  <2>10. SameFiles(file, file') /\ now <= now' /\ output'.m <= now'
    BY <1>1 DEF SameFiles, Facts, RecordsInv, ClockInv
  <2>11. IndexRecords' /\ LocalRecords(l)'
    BY <1>1, <2>1, <2>10, RecordsKept DEF Facts
  <2>12. TrustInv'
    BY <1>1, <2>8 DEF TrustInv
  <2>13. SerialLinkInv(l)'
    <3>1. CurrentInv(l)'
      BY <1>1, <2>1, <2>4 DEF CurrentInv, Current
    <3>2. PatchInv(l)' /\ LoadInv(l)' /\ PublishInv(l)'
      BY <1>1, <2>1, <2>8
         DEF PatchInv, LoadInv, PublishInv, HasMapped, Loaded, Relinking, HasPending
    <3> QED
      BY <3>1, <3>2 DEF SerialLinkInv
  <2> QED
    BY <1>1, <2>9, <2>10, <2>11, <2>12, <2>13, WorkStep
<1> QED
  BY <1>2, <1>3

-----------------------------------------------------------------------------
(* Loading and deciding *)

LEMMA LoadInputsStep ==
    ASSUME LinkInv, LinkInv', Quiet, QuietInv, NEW l \in Link, LoadInputs(l) PROVE QuietInv'
<1> Facts(l) /\ DataOK /\ ControlOK
  BY HaveFacts DEF Facts
<1>1. /\ UNCHANGED <<setting, now, file, output, index, update, marker, prev, pending>>
      /\ LinkStep(l) /\ pc[l] = "load" /\ pc[l] \notin Outside /\ pc'[l] = "prepare"
      /\ \A i \in Input : mapped'[l][i].content = file[i].content
  BY DEF LoadInputs, LinkStep, Outside, diskVars, Goto, ControlOK, DataOK
<1>2. SameFiles(file, file') /\ now <= now'
  BY <1>1 DEF SameFiles, Facts
<1>3. LocalRecords(l)'
  BY <1>1, <1>2, RecordsKept DEF Facts
<1>4. SerialLinkInv(l)'
  BY <1>1 DEF SerialLinkInv, CurrentInv, PatchInv, LoadInv, PublishInv, HasPending
<1> QED
  BY <1>1, <1>2, <1>3, <1>4, LocalStep

LEMMA ReadPreviousStep ==
    ASSUME LinkInv, LinkInv', Quiet, QuietInv, NEW l \in Link, ReadPrevious(l) PROVE QuietInv'
<1> Facts(l) /\ DataOK /\ ControlOK
  BY HaveFacts DEF Facts
<1>1. /\ UNCHANGED <<setting, now, file, output, index, update, marker, mapped, reported, mode>>
      /\ LinkStep(l) /\ pc[l] = "prepare" /\ pc[l] \notin Outside /\ pc'[l] = "classify"
      /\ prev'[l] = ReadState
  BY DEF ReadPrevious, LinkStep, Outside, diskVars, Goto, ControlOK, DataOK
<1>2. /\ mapped[l] \in Mapping /\ reported[l] = "no"
      /\ \A i \in Input : mapped[l][i].content = file[i].content
  BY <1>1 DEF Facts, LocalsInv, LoadInv, ReportInv, HasMapped, Loaded
<1>3. /\ pending'[l].out = OutputIdentity /\ pending'[l].args = ArgsOf[l]
      /\ \A i \in Input : pending'[l].inputs[i] = FromInputFile(l, ReadState, i)
  BY DEF ReadPrevious, DataOK
<1>4. ReadState # None => /\ index # None /\ RecordsOK(ReadState, file, now, setting.edited)
  BY ReadStateType, ReadRecords DEF Facts
<1>5. ASSUME NEW i \in Input
      PROVE  LET r == FromInputFile(l, ReadState, i)
             IN  r.id.m = file[i].m /\ r.hash \in {None, file[i].content}
  <2>1. CASE ReadState # None /\ ReadState.inputs[i].id = FileIdentity(file[i])
    BY <1>4, <2>1 DEF FromInputFile, FileIdentity, RecordsOK, RecordOK
  <2>2. CASE ~(ReadState # None /\ ReadState.inputs[i].id = FileIdentity(file[i]))
    BY <1>2, <2>2 DEF FromInputFile, FileIdentity
  <2> QED
    BY <2>1, <2>2
<1>6. SameFiles(file, file') /\ now <= now'
  BY <1>1 DEF SameFiles, Facts
<1>7. LocalRecords(l)'
  <2>1. ASSUME NEW i \in Input PROVE RecordOK(pending'[l].inputs[i], i, file, now, setting.edited)
    BY <1>3, <1>5 DEF RecordOK, Facts, RecordsInv, ClockInv
  <2>2. pending'[l].out.m <= now
    BY <1>3 DEF OutputIdentity, Facts, RecordsInv, ClockInv
  <2> QED
    BY <1>1, <1>4, <2>1, <2>2 DEF LocalRecords, RecordsOK
<1>8. LoadInv(l)'
  <2>1. HasMapped(l)
    BY <1>1 DEF HasMapped, Loaded
  <2>2. prev'[l] # None /\ ~marker' => Describes(prev'[l], output', file')
    BY <1>1, <1>4 DEF Facts, TrustInv
  <2> QED
    BY <1>1, <1>2, <1>3, <1>5, <2>1, <2>2 DEF LoadInv
<1>9. CurrentInv(l)' /\ PatchInv(l)' /\ PublishInv(l)'
  BY <1>1 DEF CurrentInv, PatchInv, PublishInv
<1> QED
  BY <1>1, <1>6, <1>7, <1>8, <1>9, LocalStep DEF SerialLinkInv

LEMMA PrepareStateStep ==
    ASSUME LinkInv, LinkInv', Quiet, QuietInv, NEW l \in Link, PrepareState(l) PROVE QuietInv'
<1> Facts(l) /\ DataOK /\ ControlOK
  BY HaveFacts DEF Facts
<1>1. /\ UNCHANGED <<setting, now, file, output, index, update, marker, mapped, pending, reported>>
      /\ LinkStep(l) /\ pc[l] = "classify" /\ pc[l] \notin Outside
      /\ prev'[l] = None /\ mode'[l] = Classify(l) /\ changed'[l] = ChangedInputs(l)
      /\ pc'[l] = IF Classify(l) = "reuse" THEN "verifyreuse" ELSE "open"
  BY DEF PrepareState, LinkStep, Outside, diskVars, Goto, ControlOK, DataOK
<1>2. /\ pending[l] \in State /\ reported[l] = "no"
      /\ \A i \in Input : mapped[l][i].content = file[i].content
      /\ \A i \in Input : pending[l].inputs[i].hash # None =>
                             pending[l].inputs[i].hash = file[i].content
      /\ \A i \in Input : pending[l].inputs[i].id.m = file[i].m
  BY <1>1 DEF Facts, LocalsInv, HasPending, ReportInv, LoadInv, HasMapped, Loaded
<1>3. ASSUME Classify(l) \in {"reuse", "sections"}
      PROVE  /\ output.args = ArgsOf[l]
             /\ \A i \in Input \ ChangedInputs(l) : output.in[i] = file[i].content
             /\ Classify(l) = "reuse" => ChangedInputs(l) = {}
  <2>1. prev[l] # None
    BY <1>3 DEF Classify
  <2>2. ~marker
    BY <1>3, <2>1 DEF Classify
  <2>3. /\ prev[l].args = ArgsOf[l] /\ prev[l].out = OutputIdentity
        /\ Classify(l) = "reuse" => ChangedInputs(l) = {}
    BY <1>3, <2>1, <2>2 DEF Classify
  <2>4. Describes(prev[l], output, file)
    BY <1>1, <2>1, <2>2 DEF Facts, LoadInv
  <2>5. /\ output.args = ArgsOf[l]
        /\ \A i \in Input :
             /\ prev[l].inputs[i].hash # None => output.in[i] = prev[l].inputs[i].hash
             /\ prev[l].inputs[i].id.m = file[i].m => output.in[i] = file[i].content
    BY <2>3, <2>4 DEF Describes, OutputIdentity
  <2>6. ASSUME NEW i \in Input \ ChangedInputs(l) PROVE output.in[i] = file[i].content
    <3>1. SameContent(pending[l].inputs[i], prev[l].inputs[i])
      BY <2>6 DEF ChangedInputs
    <3> QED
      BY <1>2, <2>5, <3>1 DEF SameContent
  <2> QED
    BY <2>3, <2>5, <2>6
<1>4. LocalRecords(l)'
  BY <1>1 DEF Facts, RecordsInv, LocalRecords
<1>5. CurrentInv(l)'
  BY <1>1, <1>3 DEF CurrentInv, Current
<1>6. LoadInv(l)'
  BY <1>1, <1>2 DEF Facts, LoadInv, HasMapped, Loaded, HasPending
<1>7. PatchInv(l)' /\ PublishInv(l)'
  BY <1>1 DEF PatchInv, PublishInv
<1>8. SameFiles(file, file') /\ now <= now'
  BY <1>1 DEF SameFiles, Facts
<1> QED
  BY <1>1, <1>4, <1>5, <1>6, <1>7, <1>8, LocalStep DEF SerialLinkInv

-----------------------------------------------------------------------------
(* Linking *)

LEMMA VerifyInputsStep ==
    ASSUME LinkInv, LinkInv', Quiet, QuietInv, NEW l \in Link, VerifyInputs(l) PROVE QuietInv'
<1> Facts(l) /\ DataOK /\ ControlOK
  BY HaveFacts DEF Facts
<1>1. /\ UNCHANGED <<setting, now, file, output, index, update, marker>>
      /\ LinkStep(l) /\ pc[l] \notin Outside
  BY DEF VerifyInputs, LinkStep, Outside, diskVars
<1>2. CASE \E outcome : End(l, outcome)
  BY <1>1, <1>2, SilentStep
<1>3. CASE ~\E outcome : End(l, outcome)
  <2>1. /\ UNCHANGED <<mapped, prev, pending, mode, changed, reported>>
        /\ \/ pc[l] = "verifyreuse" /\ pc'[l] = "begin" /\ mode[l] = "reuse"
           \/ pc[l] = "verify" /\ pc'[l] = "finish" /\ mode[l] \in Relinking
           \/ pc[l] = "finalverify" /\ pc'[l] = "remove" /\ mode[l] \in Relinking
    BY <1>3 DEF VerifyInputs, locals, Goto, ControlOK, Facts, ModeInv, Relinking, Defers
  <2>2. UNCHANGED OutputIdentity
    BY <1>1 DEF OutputIdentity
  <2>3. LocalRecords(l)'
    BY <1>1, <2>1 DEF Facts, RecordsInv, LocalRecords
  <2>4. CurrentInv(l)'
    BY <1>1, <2>1 DEF Facts, CurrentInv, Current
  <2>5. PatchInv(l)'
    BY <1>1, <2>1 DEF PatchInv, Relinking
  <2>6. LoadInv(l)'
    BY <1>1, <2>1 DEF Facts, LoadInv, HasMapped, Loaded, HasPending, Relinking
  <2>7. PublishInv(l)'
    BY <1>1, <2>1, <2>2 DEF Facts, PublishInv, Relinking
  <2>8. SameFiles(file, file') /\ now <= now'
    BY <1>1 DEF SameFiles, Facts
  <2> QED
    BY <1>1, <2>3, <2>4, <2>5, <2>6, <2>7, <2>8, LocalStep DEF SerialLinkInv
<1> QED
  BY <1>2, <1>3

\* A state read or updated before the output is written names an older output.
LEMMA OlderState ==
    ASSUME NEW l \in Link, Facts(l)
    PROVE  /\ index # None => ReadState \in State /\ ReadState.out.m <= now
           /\ update # None => update.out.m <= now
<1> DataOK /\ RecordsInv
  BY DEF Facts
<1> QED
  BY ReadRecords, ReadStateType DEF RecordsInv, UpdateRecords, RecordsOK

LEMMA OpenOutputStep ==
    ASSUME LinkInv, LinkInv', Quiet, QuietInv, NEW l \in Link, OpenOutput(l) PROVE QuietInv'
<1> Facts(l) /\ DataOK /\ ControlOK
  BY HaveFacts DEF Facts
<1>1. /\ UNCHANGED <<setting, file, index, update, marker, mapped, prev, pending, mode, changed,
                     reported>>
      /\ LinkStep(l) /\ pc[l] = "open" /\ pc[l] \notin Outside /\ pc'[l] = "begin"
      /\ now' = now + 1 /\ output'.m = now + 1
      /\ output'.args # None => output'.in = output.in /\ output.args # None
  BY DEF OpenOutput, LinkStep, Outside, locals, Goto, ControlOK, DataOK, Facts
<1>2. /\ reported[l] = "no" /\ mode[l] \in Relinking \ {"reuse"}
      /\ UNCHANGED ReadState
  BY <1>1, ReadStateSame DEF Facts, ReportInv, ModeInv
<1>3. /\ index # None => ReadState \in State /\ ReadState.out.m < output'.m
                         /\ ReadState.out.m \in Nat
      /\ update # None => update.out.m < output'.m
  <2>1. update # None => update.out.m \in Nat
    BY DEF DataOK, MetadataUpdate
  <2>2. index # None => ReadState.out.m \in Nat
    BY OlderState DEF State
  <2> QED
    BY <1>1, <2>1, <2>2, OlderState DEF Facts
<1>4. SameFiles(file, file') /\ now <= now' /\ output'.m <= now' /\ output'.m \in Nat
  BY <1>1 DEF SameFiles, Facts
<1>5. IndexRecords' /\ UpdateRecords' /\ LocalRecords(l)'
  BY <1>1, <1>4, RecordsKept DEF Facts
<1>6. TrustInv'
  BY <1>1, <1>2, <1>3, <1>4, DescribesNewer DEF TrustInv
<1>7. CurrentInv(l)' /\ PatchInv(l)'
  BY <1>1, <1>2 DEF Facts, CurrentInv, PatchInv, Relinking
<1>8. LoadInv(l)'
  BY <1>1 DEF Facts, LoadInv, HasMapped, Loaded, HasPending
<1>9. PublishInv(l)'
  BY <1>1, <1>2, <1>3 DEF PublishInv
<1> QED
  BY <1>1, <1>2, <1>4, <1>5, <1>6, <1>7, <1>8, <1>9, WorkStep DEF SerialLinkInv

LEMMA BeginUpdateStep ==
    ASSUME LinkInv, LinkInv', Quiet, QuietInv, NEW l \in Link, BeginUpdate(l) PROVE QuietInv'
<1> Facts(l) /\ DataOK /\ ControlOK
  BY HaveFacts DEF Facts
<1>1. /\ UNCHANGED <<setting, now, file, output, update, mapped, prev, pending, mode, changed,
                     reported>>
      /\ LinkStep(l) /\ pc[l] = "begin" /\ pc[l] \notin Outside
      /\ pc'[l] = IF mode[l] = "reuse" THEN "finish" ELSE "write"
      /\ index' \in {index, None} /\ marker'
  BY DEF BeginUpdate, IndexForUpdate, MarkedForUpdate, LinkStep, Outside, locals, Goto, ControlOK
<1>2. reported[l] = "no" /\ mode[l] \in Relinking
  BY <1>1 DEF Facts, ReportInv, ModeInv
<1>3. index' # None => UNCHANGED ReadState /\ index' = index
  BY <1>1, ReadStateSame
<1>4. SameFiles(file, file') /\ now <= now' /\ output'.m <= now'
  BY <1>1 DEF SameFiles, Facts, RecordsInv, ClockInv
<1>5. IndexRecords' /\ UpdateRecords' /\ LocalRecords(l)'
  BY <1>1, <1>4, RecordsKept DEF Facts
<1>6. TrustInv'
  BY <1>1, <1>3 DEF Facts, TrustInv
<1>7. CurrentInv(l)' /\ PatchInv(l)'
  BY <1>1, <1>2 DEF Facts, CurrentInv, PatchInv, Current, Relinking
<1>8. LoadInv(l)'
  BY <1>1 DEF Facts, LoadInv, HasMapped, Loaded, HasPending
<1>9. PublishInv(l)'
  BY <1>1, <1>2, <1>3 DEF Facts, PublishInv, Relinking
<1> QED
  BY <1>1, <1>2, <1>4, <1>5, <1>6, <1>7, <1>8, <1>9, WorkStep DEF SerialLinkInv

LEMMA WriteOutputStep ==
    ASSUME LinkInv, LinkInv', Quiet, QuietInv, NEW l \in Link, WriteOutput(l) PROVE QuietInv'
<1> Facts(l) /\ DataOK /\ ControlOK
  BY HaveFacts DEF Facts
<1>1. /\ UNCHANGED <<setting, file, index, update, marker, mapped, prev, pending, mode, changed,
                     reported>>
      /\ LinkStep(l) /\ pc[l] = "write" /\ pc[l] \notin Outside /\ pc'[l] = "verify"
      /\ now' = now + 1
  BY DEF WriteOutput, LinkStep, Outside, locals, Goto, ControlOK, Facts
<1>2. /\ reported[l] = "no" /\ mode[l] \in Relinking \ {"reuse"} /\ UNCHANGED ReadState
      /\ \A i \in Input : mapped[l][i].content = file[i].content
  BY <1>1, ReadStateSame DEF Facts, ReportInv, ModeInv, LoadInv, HasMapped, Loaded
<1>3. output'.m = now + 1 /\ Current(l)'
  <2>1. PICK kept \in SUBSET (IF mode[l] = "sections" /\ output.args # None
                                THEN Input \ changed[l] ELSE {}) :
          output' = [args |-> ArgsOf[l], ino |-> output.ino, m |-> now + 1,
                     in |-> [i \in Input |-> IF i \in kept THEN output.in[i]
                                                           ELSE mapped[l][i].content]]
    BY DEF WriteOutput, Facts
  <2>2. ASSUME NEW i \in kept PROVE output.in[i] = file[i].content
    BY <1>1, <2>2 DEF Facts, CurrentInv
  <2>3. \A i \in Input : output'.in[i] = file[i].content
    BY <1>2, <2>1, <2>2
  <2> QED
    BY <1>1, <2>1, <2>3 DEF Current
<1>4. SameFiles(file, file') /\ now <= now' /\ output'.m <= now' /\ output'.m \in Nat
  BY <1>1, <1>3 DEF SameFiles, Facts
<1>5. /\ index # None => ReadState \in State /\ ReadState.out.m < output'.m
      /\ update # None => update.out.m < output'.m
  <2>1. update # None => update.out.m \in Nat
    BY DEF DataOK, MetadataUpdate
  <2>2. index # None => ReadState.out.m \in Nat
    BY OlderState DEF State
  <2> QED
    BY <1>3, <2>1, <2>2, OlderState DEF Facts
<1>6. IndexRecords' /\ UpdateRecords' /\ LocalRecords(l)'
  BY <1>1, <1>4, RecordsKept DEF Facts
<1>7. TrustInv'
  BY <1>1, <1>2, <1>4, <1>5, DescribesNewer DEF TrustInv
<1>8. CurrentInv(l)' /\ PatchInv(l)'
  BY <1>1, <1>3 DEF CurrentInv, PatchInv
<1>9. LoadInv(l)'
  BY <1>1 DEF Facts, LoadInv, HasMapped, Loaded, HasPending
<1>10. PublishInv(l)'
  BY <1>1, <1>2, <1>5 DEF PublishInv
<1> QED
  BY <1>1, <1>2, <1>4, <1>6, <1>7, <1>8, <1>9, <1>10, WorkStep DEF SerialLinkInv

LEMMA PrepareFinishStep ==
    ASSUME LinkInv, LinkInv', Quiet, QuietInv, NEW l \in Link, PrepareFinish(l) PROVE QuietInv'
<1> Facts(l) /\ DataOK /\ ControlOK
  BY HaveFacts DEF Facts
<1>1. /\ UNCHANGED <<setting, output, index, update, marker, mapped, prev, mode, changed,
                     reported>>
      /\ LinkStep(l) /\ pc[l] = "finish" /\ pc[l] \notin Outside
      /\ pc'[l] \in {"finalverify", "remove"}
      /\ file' = Snapshotted(Input) /\ now' = SnapshotTime(Input)
  BY DEF PrepareFinish, LinkStep, Outside, Goto, ControlOK
<1>2. /\ reported[l] = "no" /\ mode[l] \in Relinking /\ UNCHANGED OutputIdentity
      /\ pending[l] \in State /\ mapped[l] \in Mapping /\ pending[l].args = ArgsOf[l]
      /\ \A i \in Input : mapped[l][i].content = file[i].content
      /\ \A i \in Input : pending[l].inputs[i].hash \in {None, file[i].content}
      /\ Current(l)
  BY <1>1 DEF Facts, ReportInv, ModeInv, LocalsInv, HasPending, LoadInv, HasMapped, Loaded,
              CurrentInv, OutputIdentity
<1>3. SameFiles(file, file') /\ now <= now'
  BY <1>1, SnapshotSame
<1> DEFINE hashed == Hashed(l, pending[l].inputs, IF Defers(l) THEN {} ELSE Input)
           recorded == [i \in Input |-> [hashed[i] EXCEPT !.id = FileIdentity(file'[i]),
                          !.snap = IF i \in Hardlinked THEN FileIdentity(file'[i]) ELSE None]]
<1>4. pending'[l] = [pending[l] EXCEPT !.out = OutputIdentity, !.inputs = recorded]
  BY <1>2 DEF PrepareFinish, DataOK
<1>5. /\ hashed \in [Input -> InputState]
      /\ \A i \in Input : hashed[i].hash \in {None, file[i].content}
  <2>1. pending[l].inputs \in [Input -> InputState]
    BY <1>2 DEF State
  <2> QED
    BY <1>2, <2>1, HashedType
<1> HIDE DEF hashed
<1>6. \A i \in Input : recorded[i].hash = hashed[i].hash /\ recorded[i].id = FileIdentity(file'[i])
  BY <1>5 DEF InputState
<1> HIDE DEF recorded
<1>7. /\ pending'[l].out = OutputIdentity /\ pending'[l].inputs = recorded
      /\ pending'[l].args = ArgsOf[l]
  BY <1>2, <1>4 DEF State
<1>8. ASSUME NEW i \in Input
      PROVE  /\ recorded[i].id.m = file'[i].m /\ file'[i].m <= now'
             /\ recorded[i].hash \in {None, file'[i].content}
             /\ file'[i].content = file[i].content
  <2>1. recorded[i].id = FileIdentity(file'[i])
    BY <1>6
  <2>2. recorded[i].id.m = file'[i].m
    BY <2>1 DEF FileIdentity
  <2>3. file'[i].m <= now'
    BY <1>1, <1>3, RecordsKept DEF Facts
  <2> QED
    BY <1>3, <1>5, <1>6, <2>2, <2>3 DEF SameFiles
<1>9. LocalRecords(l)'
  <2>1. pending'[l].out.m <= now'
    BY <1>1, <1>2, <1>3, <1>7
       DEF OutputIdentity, Facts, RecordsInv, ClockInv, DataOK, LinkInv, TypeInv
  <2>2. RecordsOK(pending'[l], file', now', setting'.edited)
    BY <1>7, <1>8, <2>1 DEF RecordsOK, RecordOK
  <2>3. prev'[l] # None => RecordsOK(prev'[l], file', now', setting'.edited)
    BY <1>1, <1>3, RecordsKept DEF Facts
  <2> QED
    BY <2>2, <2>3 DEF LocalRecords
<1>10. CurrentInv(l)'
  BY <1>1, <1>2, <1>8 DEF CurrentInv, Current
<1>11. PatchInv(l)'
  BY <1>1, <1>2 DEF PatchInv, Relinking
<1>12. LoadInv(l)'
  BY <1>1, <1>2, <1>7, <1>8 DEF LoadInv
<1>13. PublishInv(l)'
  BY <1>1, <1>2, <1>7, <1>8 DEF Facts, PublishInv, Current
<1> QED
  BY <1>1, <1>3, <1>9, <1>10, <1>11, <1>12, <1>13, LocalStep DEF SerialLinkInv

-----------------------------------------------------------------------------
(* Installing a state *)

\* A link that relinks installs a state that describes the output.
LEMMA RelinkDescribes ==
    ASSUME NEW l \in Link, Facts(l), pc[l] \in {"install", "drop"}, mode[l] \in Relinking
    PROVE  Describes(pending[l], output, file)
<1>1. /\ pending[l] \in State /\ RecordsOK(pending[l], file, now, setting.edited)
      /\ pending[l].args = ArgsOf[l]
      /\ \A i \in Input : pending[l].inputs[i].hash # None =>
                             pending[l].inputs[i].hash = mapped[l][i].content
      /\ pending[l].out = OutputIdentity =>
           output.args = ArgsOf[l] /\ \A i \in Input : output.in[i] = mapped[l][i].content
      /\ \A i \in Input : pending[l].inputs[i].id.m = file[i].m =>
                             mapped[l][i].content = file[i].content
  BY NoneAssumption
     DEF Facts, LocalsInv, HasPending, LoadInv, HasMapped, PublishInv, RecordsInv, LocalRecords
<1> QED
  BY <1>1 DEF Describes, OutputIdentity

\* So does a link that only had to read its inputs.
LEMMA AmbiguousDescribes ==
    ASSUME NEW l \in Link, Facts(l), pc[l] \in {"install", "drop"}, mode[l] = "ambiguous"
    PROVE  /\ Describes(pending[l], output, file)
           /\ update # None =>
                Describes(ApplyMetadataUpdate(pending[l], update), output, file)
<1>1. /\ Current(l) /\ pending[l] \in State /\ pending[l].args = ArgsOf[l]
      /\ \A i \in Input : pending[l].inputs[i].hash = file[i].content
      /\ update # None => \A i \in DOMAIN update.inputs : update.inputs[i].hash = file[i].content
  BY DEF Facts, CurrentInv, PatchInv, ReportInv, Defers, LocalsInv, HasPending
<1>2. Describes(pending[l], output, file)
  BY <1>1 DEF Describes, Current
<1>3. ASSUME update # None PROVE Describes(ApplyMetadataUpdate(pending[l], update), output, file)
  <2> DEFINE s == ApplyMetadataUpdate(pending[l], update)
  <2>1. /\ s.args = pending[l].args
        /\ \A i \in Input : s.inputs[i] = IF i \in DOMAIN update.inputs THEN update.inputs[i]
                                                                  ELSE pending[l].inputs[i]
    BY <1>1, <1>3 DEF ApplyMetadataUpdate, State
  <2> HIDE DEF s
  <2>2. \A i \in Input : s.inputs[i].hash = file[i].content
    BY <1>1, <1>3, <2>1
  <2>3. Describes(s, output, file)
    BY <1>1, <2>1, <2>2 DEF Describes, Current
  <2> QED
    BY <2>3 DEF s
<1> QED
  BY <1>2, <1>3

LEMMA RemoveIndexStep ==
    ASSUME LinkInv, LinkInv', Quiet, QuietInv, NEW l \in Link, RemoveIndex(l) PROVE QuietInv'
<1> Facts(l) /\ DataOK /\ ControlOK
  BY HaveFacts DEF Facts
<1>1. /\ UNCHANGED <<setting, now, file, output, update, marker, mapped, prev, mode, changed,
                     reported>>
      /\ LinkStep(l) /\ pc[l] = "remove" /\ pc[l] \notin Outside
      /\ pc'[l] = "install" /\ index' = None
      /\ pending'[l] = StateToInstall(l) /\ UNCHANGED OutputIdentity
  BY DEF RemoveIndex, LinkStep, Outside, Goto, ControlOK, DataOK, OutputIdentity
<1>2. pending[l] \in State /\ RecordsOK(pending[l], file, now, setting.edited)
  BY <1>1, NoneAssumption DEF Facts, LocalsInv, HasPending, RecordsInv, LocalRecords
<1>3. SameFiles(file, file') /\ now <= now' /\ output'.m <= now'
  BY <1>1 DEF SameFiles, Facts, RecordsInv, ClockInv
<1>4. IndexRecords' /\ UpdateRecords' /\ TrustInv'
  BY <1>1, <1>3, RecordsKept DEF Facts, TrustInv
<1>5. ASSUME FirstPass(l)
      PROVE  /\ mode[l] \in Relinking
             /\ pending'[l].args = pending[l].args /\ pending'[l].out = pending[l].out
             /\ \A i \in Input : /\ pending'[l].inputs[i].id = pending[l].inputs[i].id
                                 /\ pending'[l].inputs[i].hash \in
                                      {pending[l].inputs[i].hash, mapped[l][i].content}
  <2>1. mode[l] \in Relinking
    BY <1>5 DEF FirstPass, Defers, Relinking
  <2>2. mapped[l] \in Mapping /\ pending[l].inputs \in [Input -> InputState]
    BY <1>1, <1>2, <2>1 DEF Facts, LocalsInv, State
  <2> DEFINE A == {i \in Input : Ambiguous(pending[l].inputs[i], pending[l].start)}
             hashed == Hashed(l, pending[l].inputs, A)
  <2>3. \A i \in Input : /\ hashed[i].id = pending[l].inputs[i].id
                         /\ hashed[i].hash \in {pending[l].inputs[i].hash, mapped[l][i].content}
    BY <2>2, HashedType
  <2>4. pending'[l] = [pending[l] EXCEPT !.kind = "publishing", !.inputs = hashed]
    BY <1>1, <1>5 DEF StateToInstall
  <2> HIDE DEF hashed
  <2> QED
    BY <1>2, <2>1, <2>3, <2>4 DEF State
<1>6. ~FirstPass(l) => pending'[l] = pending[l]
  BY <1>1 DEF StateToInstall
<1>7. LocalRecords(l)'
  <2>1. ASSUME FirstPass(l), NEW i \in Input
        PROVE  RecordOK(pending'[l].inputs[i], i, file, now, setting.edited)
    <3>1. pending[l].inputs[i].id.m = file[i].m \/ i \notin setting.edited
            => mapped[l][i].content = file[i].content
      BY <1>1, <1>5, <2>1 DEF Facts, PublishInv
    <3>2. RecordOK(pending[l].inputs[i], i, file, now, setting.edited)
      BY <1>2 DEF RecordsOK
    <3> QED
      BY <1>5, <2>1, <3>1, <3>2 DEF RecordOK
  <2>2. RecordsOK(pending'[l], file, now, setting.edited)
    BY <1>2, <1>5, <1>6, <2>1 DEF RecordsOK
  <2> QED
    BY <1>1, <2>2 DEF LocalRecords, Facts, RecordsInv
<1>8. CurrentInv(l)'
  BY <1>1 DEF Facts, CurrentInv, Current
<1>9. PatchInv(l)'
  BY <1>1, <1>5, <1>6 DEF Facts, PatchInv, Relinking
<1>10. LoadInv(l)'
  BY <1>1, <1>5, <1>6 DEF Facts, LoadInv, HasMapped, Loaded, HasPending
<1>11. PublishInv(l)'
  BY <1>1, <1>5, <1>6 DEF Facts, PublishInv
<1> QED
  BY <1>1, <1>3, <1>4, <1>7, <1>8, <1>9, <1>10, <1>11, WorkStep DEF SerialLinkInv

LEMMA InstallIndexStep ==
    ASSUME LinkInv, LinkInv', Quiet, QuietInv, NEW l \in Link, InstallIndex(l) PROVE QuietInv'
<1> Facts(l) /\ DataOK /\ ControlOK
  BY HaveFacts DEF Facts
<1>1. /\ UNCHANGED <<setting, now, file, output, update, marker, mapped, prev, pending, mode,
                     changed, reported>>
      /\ LinkStep(l) /\ pc[l] = "install" /\ pc[l] \notin Outside
      /\ pc'[l] = "drop" /\ index' = pending[l] /\ UNCHANGED OutputIdentity
  BY DEF InstallIndex, LinkStep, Outside, Goto, ControlOK, DataOK, OutputIdentity, locals
<1>2. pending[l] \in State /\ RecordsOK(pending[l], file, now, setting.edited)
  BY <1>1, NoneAssumption DEF Facts, LocalsInv, HasPending, RecordsInv, LocalRecords
<1>3. SameFiles(file, file') /\ now <= now' /\ output'.m <= now'
  BY <1>1 DEF SameFiles, Facts, RecordsInv, ClockInv
<1>4. IndexRecords' /\ UpdateRecords' /\ LocalRecords(l)'
  BY <1>1, <1>2, <1>3, RecordsKept DEF Facts, IndexRecords
<1>5. ReadState' = ApplyMetadataUpdate(pending[l], update)
  BY <1>1, <1>2, NoneAssumption DEF ReadState, ApplyMetadataUpdate
<1>6. TrustInv'
  <2> SUFFICES ASSUME ~marker \/ pending[l].kind = "publishing"
               PROVE  Describes(ReadState', output, file)
    BY <1>1 DEF TrustInv
  <2>1. CASE mode[l] = "ambiguous"
    <3>1. update = None => ReadState' = pending[l]
      BY <1>5 DEF ApplyMetadataUpdate
    <3> QED
      BY <1>1, <1>5, <2>1, <3>1, AmbiguousDescribes
  <2>2. CASE mode[l] # "ambiguous"
    <3>1. mode[l] \in Relinking /\ pending[l].kind = "publishing"
      BY <1>1, <2>2 DEF Facts, ModeInv, MarkerInv
    <3>2. FirstPass(l)
      BY <1>1, <3>1 DEF Facts, KindInv, FullState
    <3>3. mode[l] \in Relinking \ {"reuse"}
      BY <3>2 DEF FirstPass, Defers, Relinking
    <3>4. CASE update = None
      BY <1>1, <1>5, <3>1, <3>4, RelinkDescribes DEF ApplyMetadataUpdate
    <3>5. CASE update # None
      <4>1. ReadState'.out = update.out
        BY <1>2, <1>5, <3>5 DEF ApplyMetadataUpdate, State
      <4>2. update.out.m < output.m
        BY <1>1, <3>3, <3>5 DEF Facts, PublishInv
      <4>3. ReadState'.out # [ino |-> output.ino, m |-> output.m]
        <5>1. update.out.m \in Nat /\ output.m \in Nat
          BY <3>5 DEF DataOK, MetadataUpdate
        <5> QED
          BY <4>1, <4>2, <5>1
      <4> QED
        BY <4>3 DEF Describes
    <3> QED
      BY <3>4, <3>5
  <2> QED
    BY <2>1, <2>2
<1>7. CurrentInv(l)' /\ PatchInv(l)'
  BY <1>1 DEF Facts, CurrentInv, PatchInv, Current
<1>8. LoadInv(l)'
  BY <1>1 DEF Facts, LoadInv, HasMapped, Loaded, HasPending
<1>9. PublishInv(l)'
  BY <1>1 DEF Facts, PublishInv
<1> QED
  BY <1>1, <1>3, <1>4, <1>6, <1>7, <1>8, <1>9, WorkStep DEF SerialLinkInv

LEMMA RemoveMetadataUpdateStep ==
    ASSUME LinkInv, LinkInv', Quiet, QuietInv, NEW l \in Link, RemoveMetadataUpdate(l)
    PROVE  QuietInv'
<1> Facts(l) /\ DataOK /\ ControlOK
  BY HaveFacts DEF Facts
<1>1. /\ UNCHANGED <<setting, now, file, output, index, marker>>
      /\ LinkStep(l) /\ pc[l] = "drop" /\ pc[l] \notin Outside
      /\ update' = None /\ UNCHANGED OutputIdentity
      /\ mode[l] \in Relinking \cup {"ambiguous"}
      /\ index = pending[l] /\ index # None
  BY NoneAssumption
     DEF RemoveMetadataUpdate, LinkStep, Outside, OutputIdentity, Facts, ModeInv, KindInv,
         LocalsInv, HasPending
<1>2. ReadState' = pending[l]
  BY <1>1 DEF ReadState, ApplyMetadataUpdate
<1>3. Describes(pending[l], output, file)
  BY <1>1, RelinkDescribes, AmbiguousDescribes
<1>4. SameFiles(file, file') /\ now <= now' /\ output'.m <= now'
  BY <1>1 DEF SameFiles, Facts, RecordsInv, ClockInv
<1>5. IndexRecords' /\ UpdateRecords' /\ TrustInv'
  BY <1>1, <1>2, <1>3, <1>4, RecordsKept DEF Facts, TrustInv
<1>6. CASE mode[l] = "ambiguous"
  <2>1. pc'[l] = "done" /\ pending'[l] = None /\ prev'[l] = None
    BY <1>6 DEF RemoveMetadataUpdate, End, Forget, Goto, ControlOK, DataOK
  <2>2. LocalRecords(l)'
    BY <2>1 DEF LocalRecords
  <2>3. SerialLinkInv(l)'
    BY <2>1
       DEF SerialLinkInv, CurrentInv, PatchInv, LoadInv, PublishInv, HasMapped, Loaded,
           HasPending
  <2> QED
    BY <1>1, <1>4, <1>5, <2>2, <2>3, WorkStep
<1>7. CASE mode[l] # "ambiguous"
  <2>1. /\ UNCHANGED <<mapped, prev, pending, mode, changed, reported>>
        /\ pc'[l] = IF FirstPass(l) THEN "report" ELSE "clear"
        /\ mode[l] \in Relinking
    BY <1>1, <1>7 DEF RemoveMetadataUpdate, locals, Goto, ControlOK
  <2>2. LocalRecords(l)'
    BY <1>1, <2>1 DEF Facts, RecordsInv, LocalRecords
  <2>3. CurrentInv(l)' /\ PatchInv(l)'
    BY <1>1, <2>1 DEF Facts, CurrentInv, PatchInv, Current, Relinking
  <2>4. LoadInv(l)'
    BY <1>1, <2>1 DEF Facts, LoadInv, HasMapped, Loaded, HasPending
  <2>5. PublishInv(l)'
    BY <1>1, <1>2, <1>3, <2>1 DEF Facts, PublishInv
  <2> QED
    BY <1>1, <1>4, <1>5, <2>2, <2>3, <2>4, <2>5, WorkStep DEF SerialLinkInv
<1> QED
  BY <1>6, <1>7

LEMMA InformParentDoneStep ==
    ASSUME LinkInv, LinkInv', Quiet, QuietInv, NEW l \in Link, InformParentDone(l) PROVE QuietInv'
<1> Facts(l) /\ DataOK /\ ControlOK
  BY HaveFacts DEF Facts
<1>1. /\ UNCHANGED <<setting, now, file, output, index, update, marker, mapped, prev, pending, mode,
                     changed>>
      /\ LinkStep(l) /\ pc[l] = "report" /\ pc[l] \notin Outside
      /\ pc'[l] = "hash" /\ reported'[l] = "success" /\ UNCHANGED OutputIdentity
  BY DEF InformParentDone, LinkStep, Outside, Goto, ControlOK, OutputIdentity, locals, diskVars
<1>2. LocalRecords(l)'
  BY <1>1 DEF Facts, RecordsInv, LocalRecords
<1>3. CurrentInv(l)' /\ PatchInv(l)'
  BY <1>1 DEF CurrentInv, PatchInv
<1>4. LoadInv(l)'
  BY <1>1 DEF Facts, LoadInv, HasMapped, Loaded, HasPending
<1>5. PublishInv(l)'
  BY <1>1 DEF Facts, PublishInv
<1>6. SameFiles(file, file') /\ now <= now'
  BY <1>1 DEF SameFiles, Facts
<1> QED
  BY <1>1, <1>2, <1>3, <1>4, <1>5, <1>6, LocalStep DEF SerialLinkInv

LEMMA HashInputsStep ==
    ASSUME LinkInv, LinkInv', Quiet, QuietInv, NEW l \in Link, HashInputs(l) PROVE QuietInv'
<1> Facts(l) /\ DataOK /\ ControlOK
  BY HaveFacts DEF Facts
<1>1. /\ UNCHANGED <<setting, now, file, output, index, update, marker, mapped, prev, mode, changed,
                     reported>>
      /\ LinkStep(l) /\ pc[l] = "hash" /\ pc[l] \notin Outside
      /\ pc'[l] = "remove" /\ UNCHANGED OutputIdentity
  BY DEF HashInputs, LinkStep, Outside, Goto, ControlOK, OutputIdentity, diskVars
<1>2. /\ reported[l] = "success" /\ mode[l] \in Relinking
      /\ pending[l] \in State /\ mapped[l] \in Mapping
      /\ RecordsOK(pending[l], file, now, setting.edited)
  BY <1>1, NoneAssumption
     DEF Facts, ReportInv, ModeInv, Defers, Relinking, LocalsInv, HasPending, Loaded, RecordsInv,
         LocalRecords
<1> DEFINE hashed == Hashed(l, pending[l].inputs, Input)
<1>3. \A i \in Input : /\ hashed[i].id = pending[l].inputs[i].id
                       /\ hashed[i].hash \in {pending[l].inputs[i].hash, mapped[l][i].content}
  <2>1. pending[l].inputs \in [Input -> InputState]
    BY <1>2 DEF State
  <2> QED
    BY <1>2, <2>1, HashedType
<1>4. pending'[l] = [pending[l] EXCEPT !.kind = "full", !.inputs = hashed]
  BY <1>2 DEF HashInputs, DataOK
<1> HIDE DEF hashed
<1>5. /\ pending'[l].args = pending[l].args /\ pending'[l].out = pending[l].out
      /\ pending'[l].inputs = hashed
  BY <1>2, <1>4 DEF State
<1>6. LocalRecords(l)'
  <2>1. ASSUME NEW i \in Input PROVE RecordOK(hashed[i], i, file, now, setting.edited)
    <3>1. pending[l].inputs[i].id.m = file[i].m \/ i \notin setting.edited
            => mapped[l][i].content = file[i].content
      BY <1>1, <1>2 DEF Facts, PublishInv
    <3>2. RecordOK(pending[l].inputs[i], i, file, now, setting.edited)
      BY <1>2 DEF RecordsOK
    <3> QED
      BY <1>3, <3>1, <3>2 DEF RecordOK
  <2>2. RecordsOK(pending'[l], file, now, setting.edited)
    BY <1>2, <1>5, <2>1 DEF RecordsOK
  <2> QED
    BY <1>1, <2>2 DEF LocalRecords, Facts, RecordsInv
<1>7. CurrentInv(l)' /\ PatchInv(l)'
  BY <1>1, <1>2 DEF CurrentInv, PatchInv, Relinking
<1>8. LoadInv(l)'
  BY <1>1, <1>2, <1>3, <1>5 DEF Facts, LoadInv, HasMapped, Loaded, HasPending
<1>9. PublishInv(l)'
  BY <1>1, <1>3, <1>5 DEF Facts, PublishInv
<1>10. SameFiles(file, file') /\ now <= now'
  BY <1>1 DEF SameFiles, Facts
<1> QED
  BY <1>1, <1>6, <1>7, <1>8, <1>9, <1>10, LocalStep DEF SerialLinkInv

LEMMA ClearMarkerStep ==
    ASSUME LinkInv, LinkInv', Quiet, QuietInv, NEW l \in Link, ClearMarker(l) PROVE QuietInv'
<1> Facts(l) /\ DataOK /\ ControlOK
  BY HaveFacts DEF Facts
<1>1. /\ UNCHANGED <<setting, now, file, output, index, update>>
      /\ LinkStep(l) /\ pc[l] = "clear" /\ pc[l] \notin Outside
  BY DEF ClearMarker, LinkStep, Outside
<1>2. Describes(ReadState', output', file')
  BY <1>1, ReadStateSame DEF Facts, PublishInv
<1>3. SameFiles(file, file') /\ now <= now' /\ output'.m <= now'
  BY <1>1 DEF SameFiles, Facts, RecordsInv, ClockInv
<1>4. IndexRecords' /\ UpdateRecords' /\ TrustInv'
  BY <1>1, <1>2, <1>3, RecordsKept DEF Facts, TrustInv
<1>5. CASE mode[l] = "patch" \/ reported[l] = "success"
  <2>1. pc'[l] = "done" /\ pending'[l] = None /\ prev'[l] = None
    BY <1>5 DEF ClearMarker, End, Forget, Goto, ControlOK, DataOK
  <2>2. LocalRecords(l)'
    BY <2>1 DEF LocalRecords
  <2>3. SerialLinkInv(l)'
    BY <2>1
       DEF SerialLinkInv, CurrentInv, PatchInv, LoadInv, PublishInv, HasMapped, Loaded,
           HasPending
  <2> QED
    BY <1>1, <1>3, <1>4, <2>2, <2>3, WorkStep
<1>6. CASE ~(mode[l] = "patch" \/ reported[l] = "success")
  <2>1. /\ UNCHANGED <<mapped, prev, pending, mode, changed, reported>>
        /\ pc'[l] = "lastverify" /\ mode[l] \in Relinking
    BY <1>1, <1>6 DEF ClearMarker, locals, Goto, ControlOK, Facts, ModeInv
  <2>2. LocalRecords(l)'
    BY <1>1, <2>1 DEF Facts, RecordsInv, LocalRecords
  <2>3. CurrentInv(l)' /\ PatchInv(l)'
    BY <1>1, <2>1 DEF Facts, CurrentInv, PatchInv, Current
  <2>4. LoadInv(l)' /\ PublishInv(l)'
    BY <1>1, <2>1 DEF Facts, LoadInv, PublishInv, HasMapped, Loaded, HasPending
  <2> QED
    BY <1>1, <1>3, <1>4, <2>2, <2>3, <2>4, WorkStep DEF SerialLinkInv
<1> QED
  BY <1>5, <1>6

-----------------------------------------------------------------------------
(* A link that dies *)

LEMMA CrashStep ==
    ASSUME LinkInv, LinkInv', Quiet, QuietInv, NEW l \in Link, Crash(l), pc[l] \notin Outside,
           UNCHANGED setting
    PROVE  QuietInv'
<1> Facts(l) /\ DataOK /\ ControlOK
  BY HaveFacts DEF Facts
<1>1. UNCHANGED <<file, index, update, marker>> /\ End(l, "error")
  BY DEF Crash
<1>2. CASE UNCHANGED <<now, output>>
  BY <1>1, <1>2, SilentStep
<1>3. CASE ~UNCHANGED <<now, output>>
  <2>1. /\ pc[l] \in {"write", "writepatch"} /\ reported[l] = "no" /\ marker
        /\ \/ output'.m = output.m /\ now' = now
           \/ output'.m = now + 1 /\ now' = now + 1
    BY <1>3 DEF Crash, Facts, ReportInv, MarkerInv, DataOK
  <2>2. pc'[l] = "done" /\ pending'[l] = None /\ prev'[l] = None
    BY <1>1 DEF End, Forget, Goto, ControlOK, DataOK
  <2>3. LocalRecords(l)'
    BY <2>2 DEF LocalRecords
  <2>4. SerialLinkInv(l)'
    BY <2>2
       DEF SerialLinkInv, CurrentInv, PatchInv, LoadInv, PublishInv, HasMapped, Loaded,
           HasPending
  <2>5. SameFiles(file, file') /\ now <= now' /\ output'.m <= now' /\ output'.m \in Nat
    BY <1>1, <2>1 DEF SameFiles, Facts, RecordsInv, ClockInv, DataOK
  <2>6. IndexRecords' /\ UpdateRecords'
    BY <1>1, <2>5, RecordsKept DEF Facts
  <2>7. TrustInv'
    <3> SUFFICES ASSUME index # None, index.kind = "publishing"
                 PROVE  Describes(ReadState', output', file')
      BY <1>1, <2>1 DEF TrustInv
    <3>1. pc[l] = "write"
      BY <2>1 DEF Facts, KindInv, FullState
    <3>2. mode[l] # "reuse" /\ ReadState.out.m < output.m
      BY <3>1 DEF Facts, ModeInv, PublishInv
    <3>3. ReadState \in State /\ ReadState.out.m <= now /\ ReadState.out.m \in Nat
      BY OlderState DEF State
    <3>4. ReadState.out.m < output'.m
      BY <2>1, <3>2, <3>3 DEF Facts
    <3>5. UNCHANGED ReadState
      BY <1>1, ReadStateSame
    <3> QED
      BY <2>5, <3>3, <3>4, <3>5, DescribesNewer
  <2> QED
    BY <1>1, <2>1, <2>3, <2>4, <2>5, <2>6, <2>7, WorkStep
<1> QED
  BY <1>2, <1>3

-----------------------------------------------------------------------------
(* Every step *)

LEMMA QuietStep ==
    LinkInv /\ LinkInv' /\ Quiet /\ QuietInv /\ [Next]_vars => QuietInv'
<1> SUFFICES ASSUME LinkInv, LinkInv', Quiet, QuietInv, [Next]_vars PROVE QuietInv'
  OBVIOUS
<1>1. UNCHANGED setting
  BY SettingFixed
<1>2. CASE UNCHANGED vars \/ Tick
  BY <1>2, ClockStep
<1>3. CASE ModifyOutput
  BY <1>3, ModifyStep
<1>4. ASSUME NEW i \in Input, NEW v \in Content, Edit(i, v) PROVE QuietInv'
  BY <1>4, EditStep
<1>5. ASSUME NEW l \in Link, pc[l] \in Outside, StartLink(l) \/ LinkStep(l) \/ Crash(l)
      PROVE  QuietInv'
  BY <1>1, <1>5, OutsideStep
<1>6. ASSUME NEW l \in Link, pc[l] \notin Outside, StartLink(l) \/ LinkStep(l) \/ Crash(l)
      PROVE  QuietInv'
  <2>1. ~(StartLink(l) \/ ReadDuringPublication(l) \/ CheckPublication(l) \/ AcquireStateLock(l))
    BY <1>6 DEF Outside, StartLink, ReadDuringPublication, CheckPublication, AcquireStateLock
  <2>2. CASE CheckInputs(l) \/ RecheckInputs(l) \/ PatchUnsupported(l) \/ StartPatch(l)
    BY <2>2, CheckInputsStep, RecheckInputsStep, StartPatchStep
  <2>3. CASE WritePatch(l) \/ RefreshPatched(l) \/ CheckPatched(l)
    BY <2>3, WritePatchStep, RefreshPatchedStep, CheckPatchedStep
  <2>4. CASE LoadInputs(l) \/ ReadPrevious(l) \/ PrepareState(l) \/ VerifyInputs(l)
    BY <2>4, LoadInputsStep, ReadPreviousStep, PrepareStateStep, VerifyInputsStep
  <2>5. CASE OpenOutput(l) \/ BeginUpdate(l) \/ WriteOutput(l) \/ PrepareFinish(l)
    BY <2>5, OpenOutputStep, BeginUpdateStep, WriteOutputStep, PrepareFinishStep
  <2>6. CASE RemoveIndex(l) \/ InstallIndex(l) \/ RemoveMetadataUpdate(l)
    BY <2>6, RemoveIndexStep, InstallIndexStep, RemoveMetadataUpdateStep
  <2>7. CASE InformParentDone(l) \/ HashInputs(l) \/ ClearMarker(l)
    BY <2>7, InformParentDoneStep, HashInputsStep, ClearMarkerStep
  <2>8. CASE Crash(l)
    BY <1>1, <1>6, <2>8, CrashStep
  <2> QED
    BY <1>6, <2>1, <2>2, <2>3, <2>4, <2>5, <2>6, <2>7, <2>8 DEF LinkStep
<1> QED
  BY <1>2, <1>3, <1>4, <1>5, <1>6 DEF Next

LEMMA QuietInvariant == Spec /\ Quiet => [](LinkInv /\ Quiet /\ QuietInv)
<1>1. Quiet /\ [Next]_vars => Quiet'
  BY SettingFixed DEF Quiet
<1> QED
  BY <1>1, LinkInvariant, QuietInit, QuietStep, PTL DEF Spec

\* UnmarkedStateDescribesOutput, for links made one after the other with crashes between any
\* two steps, an output other programs change and states still being published in the
\* background: the state that apply_metadata_update gives without a marker, when it names the
\* output on disk, records the arguments and the inputs this output was made from.
THEOREM UnmarkedDescribes == Spec /\ Quiet => []UnmarkedStateDescribesOutput
<1>1. LinkInv /\ QuietInv => UnmarkedStateDescribesOutput
  <2> SUFFICES ASSUME LinkInv, QuietInv, ~marker, index # None, ReadState.out = OutputIdentity
               PROVE  /\ output.args = ReadState.args
                      /\ \A i \in Input : ReadState.inputs[i].hash = output.in[i]
    BY DEF UnmarkedStateDescribesOutput
  <2>1. DataOK /\ DiskInv /\ index.kind # "publishing" /\ index \in State
    BY DEF LinkInv, TypeInv, StateInv, DiskInv, DataOK
  <2>2. FullState(ReadState)
    BY <2>1, ReadStateFull DEF DiskInv, State
  <2>3. Describes(ReadState, output, file)
    BY DEF QuietInv, TrustInv
  <2> QED
    BY <2>2, <2>3 DEF Describes, OutputIdentity, FullState
<1> QED
  BY <1>1, QuietInvariant, PTL

-----------------------------------------------------------------------------
(* What a link that reports success leaves *)

\* The contents seen by a link somebody waits for include the present ones.
SeenInv == \A l \in Link : Waiting(l) => \A i \in Input : file[i].content \in seen[l][i]

LEMMA SeenStep ==
    LinkInv /\ LinkInv' /\ SeenInv /\ [Next]_vars => SeenInv'
<1> SUFFICES ASSUME LinkInv, LinkInv', SeenInv, [Next]_vars PROVE SeenInv'
  OBVIOUS
<1> ControlInv /\ ControlOK /\ DataOK
  BY DEF LinkInv, ControlInv, TypeInv
<1>1. CASE UNCHANGED vars \/ Tick \/ ModifyOutput
  BY <1>1 DEF vars, Tick, ModifyOutput, SeenInv, Waiting
<1>2. ASSUME NEW j \in Input, NEW v \in Content, Edit(j, v) PROVE SeenInv'
  <2>1. /\ UNCHANGED <<pc, reported>>
        /\ \A i \in Input : file'[i].content = IF i = j THEN v ELSE file[i].content
        /\ \A l \in Link : Waiting(l) => seen'[l] = [seen[l] EXCEPT ![j] = @ \cup {v}]
    BY <1>2 DEF Edit, DataOK
  <2>2. ASSUME NEW l \in Link, Waiting(l)', NEW i \in Input PROVE file'[i].content \in seen'[l][i]
    <3>1. Waiting(l) /\ seen[l] \in [Input -> SUBSET Content]
      BY <2>1, <2>2 DEF Waiting, DataOK
    <3>2. seen'[l][i] = IF i = j THEN seen[l][i] \cup {v} ELSE seen[l][i]
      BY <2>1, <3>1
    <3>3. file[i].content \in seen[l][i]
      BY <3>1 DEF SeenInv
    <3> QED
      BY <2>1, <3>2, <3>3
  <2> QED
    BY <2>2 DEF SeenInv
<1>3. ASSUME NEW l \in Link, StartLink(l) PROVE SeenInv'
  <2>1. /\ UNCHANGED <<file, reported>>
        /\ \A k \in Link \ {l} : pc'[k] = pc[k] /\ seen'[k] = seen[k]
        /\ seen'[l] = [i \in Input |-> {file[i].content}]
    BY <1>3 DEF StartLink, diskVars, Goto, ControlOK, DataOK
  <2> QED
    BY <2>1 DEF SeenInv, Waiting
<1>4. ASSUME NEW l \in Link, LinkStep(l) \/ Crash(l) PROVE SeenInv'
  <2>1. UNCHANGED seen /\ pc[l] # "idle"
    BY <1>4 DEF LinkStep, Crash, ReadDuringPublication, CheckPublication,
        AcquireStateLock, CheckInputs, RecheckInputs, PatchUnsupported, StartPatch, WritePatch,
        RefreshPatched, CheckPatched, LoadInputs, ReadPrevious, PrepareState, VerifyInputs,
        OpenOutput, BeginUpdate, WriteOutput, PrepareFinish, RemoveIndex, InstallIndex,
        RemoveMetadataUpdate, InformParentDone, HashInputs, ClearMarker
  <2>2. file' = file \/ \E I : file' = Snapshotted(I)
    BY <1>4 DEF LinkStep, Crash, ReadDuringPublication, CheckPublication, diskVars,
        AcquireStateLock, CheckInputs, RecheckInputs, PatchUnsupported, StartPatch, WritePatch,
        RefreshPatched, CheckPatched, LoadInputs, ReadPrevious, PrepareState, VerifyInputs,
        OpenOutput, BeginUpdate, WriteOutput, PrepareFinish, RemoveIndex, InstallIndex,
        RemoveMetadataUpdate, InformParentDone, HashInputs, ClearMarker
  <2>3. \A i \in Input : file'[i].content = file[i].content
    BY <2>2, SnapshottedType
  <2>4. ASSUME NEW k \in Link, Waiting(k)' PROVE Waiting(k)
    <3>1. CASE k = l
      BY <1>4, <2>1, <2>4, <3>1, Moves DEF Waiting
    <3>2. CASE k # l
      BY <1>4, <2>4, <3>2, Frame DEF Waiting
    <3> QED
      BY <3>1, <3>2
  <2> QED
    BY <2>1, <2>3, <2>4 DEF SeenInv
<1> QED
  BY <1>1, <1>2, <1>3, <1>4 DEF Next

LEMMA SuccessCurrent ==
    ASSUME NEW l \in Link, Facts(l), LinkStep(l), reported[l] = "no", reported'[l] = "success"
    PROVE  Current(l)
<1> ControlOK
  BY DEF Facts
<1>1. \/ CheckPublication(l) \/ RecheckInputs(l) \/ VerifyInputs(l) \/ RemoveMetadataUpdate(l)
      \/ InformParentDone(l) \/ ClearMarker(l)
  BY DEF LinkStep, ReadDuringPublication, AcquireStateLock, CheckInputs, LeaveFastPath, locals,
         PatchUnsupported, StartPatch, WritePatch, RefreshPatched, CheckPatched, LoadInputs,
         ReadPrevious, PrepareState, OpenOutput, BeginUpdate, WriteOutput, PrepareFinish,
         RemoveIndex, InstallIndex, HashInputs
<1>2. CASE CheckPublication(l)
  <2>1. /\ pc[l] = "pubcheck" /\ prev[l].kind = "publishing" /\ prev[l].args = ArgsOf[l]
        /\ prev[l].out = OutputIdentity
        /\ \A i \in Input : prev[l].inputs[i].id = FileIdentity(file[i])
    BY <1>2 DEF CheckPublication, UsableWhilePublishing, InputUnchanged
  <2>2. Describes(prev[l], output, file)
    BY <2>1 DEF Facts, LoadInv
  <2>3. ASSUME NEW i \in Input PROVE prev[l].inputs[i].id.m = file[i].m
    <3>1. prev[l].inputs[i].id = FileIdentity(file[i])
      BY <2>1
    <3> QED
      BY <3>1 DEF FileIdentity
  <2> QED
    BY <2>1, <2>2, <2>3 DEF Describes, OutputIdentity, Current
<1>3. CASE RecheckInputs(l) \/ RemoveMetadataUpdate(l) \/ InformParentDone(l) \/ ClearMarker(l)
  BY <1>3 DEF RecheckInputs, RemoveMetadataUpdate, InformParentDone, ClearMarker, Facts, CurrentInv
<1>4. CASE VerifyInputs(l)
  <2>1. pc[l] = "lastverify"
    BY <1>4 DEF VerifyInputs, End, locals, ControlOK
  <2> QED
    BY <2>1 DEF Facts, CurrentInv
<1> QED
  BY <1>1, <1>2, <1>3, <1>4

\* SuccessMeansCurrentOutput, for links made one after the other: whichever way a link takes,
\* reuse while a state is published, the fast path, a patch or a link in full, when it reports
\* success the output is what its arguments make of the inputs.
THEOREM SuccessIsCurrent == Spec /\ Quiet => SuccessMeansCurrentOutput
<1>1. Init => SeenInv
  BY DEF Init, SeenInv, Waiting
<1>2. ASSUME LinkInv, Quiet, QuietInv, SeenInv, [Next]_vars, NEW l \in Link,
             reported[l] = "no", reported'[l] = "success"
      PROVE  OutputIsCurrent(l)
  <2>1. Facts(l) /\ ControlOK /\ DataOK
    BY <1>2, HaveFacts DEF Facts
  <2>2. LinkStep(l)
    <3>1. ~(UNCHANGED vars \/ Tick \/ ModifyOutput \/ \E i \in Input, v \in Content : Edit(i, v))
      BY <1>2 DEF vars, Tick, ModifyOutput, Edit
    <3>2. PICK k \in Link : StartLink(k) \/ LinkStep(k) \/ Crash(k)
      BY <1>2, <3>1 DEF Next
    <3>3. k = l
      BY <1>2, <2>1, <3>2, Frame
    <3> QED
      BY <1>2, <2>1, <3>2, <3>3 DEF StartLink, Crash, End, ControlOK
  <2>3. Current(l)
    BY <1>2, <2>1, <2>2, SuccessCurrent
  <2>4. pc[l] # "idle"
    BY <2>2 DEF LinkStep, ReadDuringPublication, CheckPublication,
        AcquireStateLock, CheckInputs, RecheckInputs, PatchUnsupported, StartPatch, WritePatch,
        RefreshPatched, CheckPatched, LoadInputs, ReadPrevious, PrepareState, VerifyInputs,
        OpenOutput, BeginUpdate, WriteOutput, PrepareFinish, RemoveIndex, InstallIndex,
        RemoveMetadataUpdate, InformParentDone, HashInputs, ClearMarker
  <2> QED
    BY <1>2, <2>3, <2>4 DEF SeenInv, Waiting, Current, OutputIsCurrent
<1>3. LinkInv /\ Quiet /\ QuietInv /\ SeenInv /\ [Next]_vars =>
        \A l \in Link : reported[l] = "no" /\ reported'[l] = "success" => OutputIsCurrent(l)
  BY <1>2
<1> QED
  BY <1>1, <1>3, QuietInvariant, SeenStep, PTL DEF Spec, SuccessMeansCurrentOutput

=============================================================================
