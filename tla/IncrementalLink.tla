--------------------------- MODULE IncrementalLink ---------------------------
(***************************************************************************)
(* The incremental-link protocol of libsld/src/incremental.rs, driven by   *)
(* libsld/src/lib.rs (load_inputs_and_link) and libsld/src/subprocess.rs:  *)
(* how a link decides that the output on disk can be reused or patched,    *)
(* what it writes to the state directory beside the output, and in which   *)
(* order, so that later links, also after a crash, decide correctly.       *)
(*                                                                         *)
(* What is abstracted: an output is the arguments and the input contents   *)
(* it was made from; a hash is the content it hashes; what sections,       *)
(* relocations and build ids the state records is left out, and whether a  *)
(* changed input can be patched is a nondeterministic choice.  Every edit  *)
(* keeps the length of the file, so only timestamps and the inode tell two *)
(* versions apart.  One action is one step no other process can see half   *)
(* done, or one whose halves make no difference.                           *)
(***************************************************************************)
EXTENDS Naturals, FiniteSets

CONSTANTS
    Link,            \* invocations of the linker with one output path
    Input,           \* the input files of every link
    Content,         \* what a file can contain
    Args,            \* what args_hash distinguishes
    None,
    ArgsOf,          \* [Link -> Args]
    FirstContent,    \* [Input -> Content]: the inputs before the first link
    Hardlinked,      \* inputs whose snapshot is a hardlink (is_atomic_replacement_rust_input)
    Excluded,        \* links the fast path is not for (trace, save dir, no dependency file)
    Setting,         \* the circumstances considered; every behaviour has one of them
    TicksPerSecond,  \* timestamps are ticks
    MaxEdits         \* bound: edits of input files and of the output

\* What the environment of a link may do.
\*   concurrent_links   a link starts while another has not reported
\*   edits_during_link  an input is edited between the start and the report of a link
\*   in_place_edits     an edit keeps the inode, so mapped bytes change under a reader
\*   coarse_clock       two changes can have the same timestamp
\*   unsupported_patch  patch_changed_inputs may give up
\*   modified_output    another program (strip, say) writes the output between links
\*   crash              a linker process may die at any point
Behaviour == {"concurrent_links", "edits_during_link", "in_place_edits", "coarse_clock",
              "unsupported_patch", "modified_output", "crash"}

\* Which links are made, which of them do not defer their state (timing, trace, save dir, no
\* fork), which inputs are edited, what else happens, and the bound on the seconds that pass.
Circumstances == [links : SUBSET Link, foreground : SUBSET Link, edited : SUBSET Input,
                  env : SUBSET Behaviour, seconds : Nat]

ASSUME ConstantsAssumption ==
    /\ None \notin Content \cup Args \cup Link
    /\ ArgsOf \in [Link -> Args]
    /\ FirstContent \in [Input -> Content]
    /\ Hardlinked \subseteq Input
    /\ Excluded \subseteq Link
    /\ Setting \subseteq Circumstances
    /\ TicksPerSecond \in Nat \ {0} /\ MaxEdits \in Nat

VARIABLES
    setting,    \* the circumstances of this behaviour
    now,        \* the clock, in ticks
    file,       \* the input files: content and the fields of FileIdentity that matter
    output,     \* the output file: what it was made from, inode and mtime
    index,      \* INDEX_FILE
    update,     \* METADATA_UPDATE_FILE
    marker,     \* the update marker exists
    startFile,  \* mtime of the link-start marker
    lock,       \* who holds the flock on STATE_LOCK_FILE
    pc,         \* where each link is
    mapped,     \* the inputs each link has mapped: content, inode, and mtime when opened
    prev,       \* the persisted state a link has read
    pending,    \* the state a link is going to persist
    mode,       \* what the link decided
    changed,    \* inputs the link found changed
    rewritten,  \* inputs the link found rewritten with the same content
    edits,      \* number of edits so far
    reported,   \* what the process that started the link was told
    seen        \* per link and input: the contents since the link started

diskVars == <<file, output, index, update, marker, startFile>>
vars == <<setting, now, file, output, index, update, marker, startFile, lock, pc, mapped, prev,
          pending, mode, changed, rewritten, edits, reported, seen>>

-----------------------------------------------------------------------------
(* Files, identities and persisted state *)

\* FileIdentity, without the length and the device.
Identity == [ino : Nat, m : Nat, c : Nat]
FileIdentity(f) == [ino |-> f.ino, m |-> f.m, c |-> f.c]

\* FileContentState::from_path_identity_only of the output.
OutputIdentity == [ino |-> output.ino, m |-> output.m]

\* FileState: the content's hash (None for a hash not computed), the identity, and the
\* identity of the snapshot.
InputState == [hash : Content \cup {None}, id : Identity, snap : Identity \cup {None}]

\* PersistedState.  A publishing index names PUBLISHING_SECTIONS_FILE as its sections file.
State == [kind : {"full", "publishing"}, args : Args, start : Nat,
          out : [ino : Nat, m : Nat], inputs : [Input -> InputState]]

\* A metadata update for the inputs I of the index.
MetadataUpdate(I) == [start : Nat, out : [ino : Nat, m : Nat], inputs : [I -> InputState]]

\* A file that is absent is not one that is there.
ASSUME NoneAssumption ==
    /\ None \notin State
    /\ \A I \in SUBSET Input : None \notin MetadataUpdate(I)
    /\ None \notin [Input -> [content : Content, ino : Nat, m : Nat]]

\* PersistedState::apply_metadata_update.
ApplyMetadataUpdate(s, u) ==
    IF u = None THEN s
    ELSE [s EXCEPT !.start = u.start, !.out = u.out,
                   !.inputs = [i \in Input |->
                       IF i \in DOMAIN u.inputs THEN u.inputs[i] ELSE s.inputs[i]]]

\* PersistedState::read_impl; None when there is no index.
ReadState == IF index = None THEN None ELSE ApplyMetadataUpdate(index, update)

\* Mutant: the second of the link's start is taken to be before it.
TimestampAfter(t, lower) == t \div TicksPerSecond > lower \div TicksPerSecond

\* timestamp_on_or_after: whole seconds.
TimestampOnOrAfter(t, lower) == t \div TicksPerSecond >= lower \div TicksPerSecond

\* FileIdentity::may_have_changed_since.
MayHaveChangedSince(id, start) ==
    TimestampOnOrAfter(id.m, start) \/ TimestampOnOrAfter(id.c, start)

\* Mutant: a hardlink anchors the content whatever its mtime.
AnchoredBySnapshot(input, start) == input.snap = input.id

\* input_content_is_anchored_before_link_start.
Anchored(input, start) ==
    input.snap = input.id /\ ~TimestampOnOrAfter(input.id.m, start)

\* The identity alone says nothing about the content: it overlaps the link's start.
Ambiguous(input, start) == ~Anchored(input, start) /\ MayHaveChangedSince(input.id, start)

\* input_content_matches_previous: a state without a hash matches nothing.
ContentMatches(input, i) == input.hash = file[i].content

\* FileContentState::eq.
SameContent(a, b) == IF a.hash # None /\ b.hash # None THEN a.hash = b.hash ELSE a.id = b.id

-----------------------------------------------------------------------------
(* The environment *)

TypeOK ==
    /\ setting \in Setting
    /\ now \in Nat /\ edits \in Nat
    /\ file \in [Input -> [content : Content, ino : Nat, m : Nat, c : Nat]]
    /\ output \in [args : Args \cup {None}, in : [Input -> Content \cup {None}],
                   ino : Nat, m : Nat]
    /\ index \in State \cup {None}
    /\ update = None \/ \E I \in SUBSET Input : update \in MetadataUpdate(I)
    /\ marker \in BOOLEAN
    /\ startFile \in Nat
    /\ lock \in Link \cup {None}
    /\ pc \in [Link -> {"idle", "publication", "pubcheck", "lock", "fast", "recheck", "patch",
                        "writepatch", "refreshpatch", "checkpatch", "load", "prepare",
                        "classify", "verifyreuse", "open", "begin", "write", "verify",
                        "finish", "finalverify", "remove", "install", "drop", "report", "hash",
                        "clear", "lastverify", "done"}]
    /\ mapped \in [Link -> [Input -> [content : Content, ino : Nat, m : Nat]] \cup {None}]
    /\ prev \in [Link -> State \cup {None}]
    /\ pending \in [Link -> State \cup {None}]
    /\ mode \in [Link -> {"none", "unchanged", "ambiguous", "patch", "reuse", "sections",
                          "relink", "interrupted"}]
    /\ changed \in [Link -> SUBSET Input]
    /\ rewritten \in [Link -> SUBSET Input]
    /\ reported \in [Link -> {"no", "success", "error"}]
    /\ seen \in [Link -> [Input -> SUBSET Content]]

Init ==
    /\ setting \in Setting
    /\ now = TicksPerSecond
    /\ file = [i \in Input |-> [content |-> FirstContent[i], ino |-> 0, m |-> 0, c |-> 0]]
    /\ output = [args |-> None, in |-> [i \in Input |-> None], ino |-> 0, m |-> 0]
    /\ index = None /\ update = None /\ marker = FALSE /\ startFile = 0 /\ lock = None
    /\ pc = [l \in Link |-> "idle"]
    /\ mapped = [l \in Link |-> None]
    /\ prev = [l \in Link |-> None]
    /\ pending = [l \in Link |-> None]
    /\ mode = [l \in Link |-> "none"]
    /\ changed = [l \in Link |-> {}]
    /\ rewritten = [l \in Link |-> {}]
    /\ edits = 0
    /\ reported = [l \in Link |-> "no"]
    /\ seen = [l \in Link |-> [i \in Input |-> {}]]

\* The link runs and the process that started it waits.
Waiting(l) == pc[l] # "idle" /\ reported[l] = "no"

\* The time a change is stamped with: a clock that is not coarse gives each its own.
Stamp == IF "coarse_clock" \in setting.env THEN now ELSE now + 1

\* A second passes.
Tick ==
    /\ now < setting.seconds * TicksPerSecond
    /\ now' = (now \div TicksPerSecond + 1) * TicksPerSecond
    /\ UNCHANGED <<file, output, index, update, marker, startFile, lock, pc, mapped, prev,
                   pending, mode, changed, rewritten, setting, edits, reported, seen>>

\* Somebody writes an input: a new file is renamed over it, or its bytes are overwritten.
\* The second changes the bytes of every process that has the file mapped.
Edit(i, v) ==
    /\ i \in setting.edited
    /\ edits < MaxEdits /\ edits' = edits + 1
    /\ "edits_during_link" \in setting.env \/ \A l \in Link : ~Waiting(l)
    /\ now' = Stamp
    /\ \/ /\ file' = [file EXCEPT ![i] =
                         [content |-> v, ino |-> @.ino + 1, m |-> Stamp, c |-> Stamp]]
          /\ UNCHANGED mapped
       \/ /\ "in_place_edits" \in setting.env
          /\ file' = [file EXCEPT ![i] =
                         [content |-> v, ino |-> @.ino, m |-> Stamp, c |-> Stamp]]
          /\ mapped' = [l \in Link |->
                IF mapped[l] # None /\ mapped[l][i].ino = file[i].ino
                  THEN [mapped[l] EXCEPT ![i].content = v]
                  ELSE mapped[l]]
    /\ seen' = [l \in Link |-> IF Waiting(l) THEN [seen[l] EXCEPT ![i] = @ \cup {v}]
                                             ELSE seen[l]]
    /\ UNCHANGED <<setting, output, index, update, marker, startFile, lock, pc, prev, pending,
                   mode, changed, rewritten, reported>>

\* Another program changes the output.
ModifyOutput ==
    /\ "modified_output" \in setting.env /\ edits < MaxEdits /\ edits' = edits + 1
    /\ \A l \in Link : ~Waiting(l)
    /\ now' = Stamp
    /\ output' = [output EXCEPT !.m = Stamp, !.in = [i \in Input |-> None]]
    /\ UNCHANGED <<setting, file, index, update, marker, startFile, lock, pc, mapped, prev,
                   pending, mode, changed, rewritten, reported, seen>>

\* The locals of a link that ends.
Forget(l) ==
    /\ mapped' = [mapped EXCEPT ![l] = None]
    /\ prev' = [prev EXCEPT ![l] = None]
    /\ pending' = [pending EXCEPT ![l] = None]
    /\ mode' = [mode EXCEPT ![l] = "none"]
    /\ changed' = [changed EXCEPT ![l] = {}]
    /\ rewritten' = [rewritten EXCEPT ![l] = {}]

locals == <<mapped, prev, pending, mode, changed, rewritten>>

\* Mutant: the lock is kept until the process exits.
UnlockLate(l) == lock' = lock

\* IncrementalStateLock is dropped.
Unlock(l) == lock' = IF lock = l THEN None ELSE lock

Goto(l, next) == pc' = [pc EXCEPT ![l] = next]

\* The link ends, its locks are released, and the process waiting for it learns how.
End(l, outcome) ==
    /\ Goto(l, "done")
    /\ reported' = [reported EXCEPT ![l] = IF @ = "no" THEN outcome ELSE @]
    /\ Unlock(l)
    /\ Forget(l)

-----------------------------------------------------------------------------
(* Reuse before loading: maybe_reuse_output_before_loading *)

\* A build tool starts a link; by itself it waits for one before it starts the next.
StartLink(l) ==
    /\ pc[l] = "idle" /\ l \in setting.links
    /\ "concurrent_links" \in setting.env \/ \A k \in Link : ~Waiting(k)
    /\ Goto(l, "publication")
    /\ seen' = [seen EXCEPT ![l] = [i \in Input |-> {file[i].content}]]
    /\ UNCHANGED <<now, lock, setting, edits, reported>> /\ UNCHANGED diskVars /\ UNCHANGED locals

\* maybe_reuse_output_during_publication reads, without the lock, the state of a link that
\* has reported and is still publishing.
ReadDuringPublication(l) ==
    /\ pc[l] = "publication"
    /\ IF marker /\ l \notin Excluded /\ index # None
         THEN Goto(l, "pubcheck") /\ prev' = [prev EXCEPT ![l] = ReadState]
         ELSE Goto(l, "lock") /\ UNCHANGED prev
    /\ UNCHANGED <<setting, now, lock, mapped, pending, mode, changed, rewritten, edits, reported,
                   seen>>
    /\ UNCHANGED diskVars

\* An input is what the state s describes, by its identity where that is not ambiguous and
\* by its hash where it is.
InputUnchanged(s, i) ==
    /\ s.inputs[i].id = FileIdentity(file[i])
    /\ Ambiguous(s.inputs[i], s.start) => ContentMatches(s.inputs[i], i)

\* The state read describes this invocation, the output and the inputs.
UsableWhilePublishing(l, s) ==
    /\ s.kind = "publishing" /\ s.args = ArgsOf[l] /\ s.out = OutputIdentity
    /\ \A i \in Input : InputUnchanged(s, i)

\* maybe_reuse_output_during_publication, the checks; the output is reused or the link goes
\* on to wait for the lock.
CheckPublication(l) ==
    /\ pc[l] = "pubcheck"
    /\ IF UsableWhilePublishing(l, prev[l])
         THEN End(l, "success")
         ELSE /\ Goto(l, "lock") /\ prev' = [prev EXCEPT ![l] = None]
              /\ UNCHANGED <<lock, mapped, pending, mode, changed, rewritten, reported>>
    /\ UNCHANGED <<now, setting, edits, seen>> /\ UNCHANGED diskVars

\* acquire_incremental_state_lock and write_link_start_marker.  A link the fast path is not
\* for returns at once and drops the lock.
AcquireStateLock(l) ==
    /\ pc[l] = "lock" /\ lock = None
    /\ startFile' = now
    /\ IF l \in Excluded
         THEN Goto(l, "load") /\ UNCHANGED lock
         ELSE Goto(l, "fast") /\ lock' = l
    /\ UNCHANGED <<now, file, output, index, update, marker, setting, edits, reported, seen>>
    /\ UNCHANGED locals

\* The fast path gives up: the lock is dropped and the inputs are loaded.
LeaveFastPath(l) ==
    /\ Goto(l, "load") /\ Unlock(l)
    /\ pending' = [pending EXCEPT ![l] = None]
    /\ mode' = [mode EXCEPT ![l] = "none"]
    /\ changed' = [changed EXCEPT ![l] = {}]
    /\ rewritten' = [rewritten EXCEPT ![l] = {}]
    /\ UNCHANGED <<mapped, prev, reported>>

\* Mutant: the update marker is not looked at.
FastPathOpenMarked(l) ==
    index # None /\ ReadState.args = ArgsOf[l] /\ ReadState.out = OutputIdentity

\* No interrupted update, and a state for these arguments and this output.
FastPathOpen(l) ==
    /\ ~marker
    /\ index # None /\ ReadState.args = ArgsOf[l] /\ ReadState.out = OutputIdentity

\* snapshot_input_paths, snapshot_loaded_input_files: a hardlink advances the ctime.
Snapshotted(I) ==
    [i \in Input |-> IF i \in I \cap Hardlinked THEN [file[i] EXCEPT !.c = Stamp] ELSE file[i]]

\* ... and the time it takes.
SnapshotTime(I) == IF I \cap Hardlinked = {} THEN now ELSE Stamp

\* refresh_input_file_identities_at_indices.
Refreshed(inputs, I, files) ==
    [i \in Input |-> IF i \in I THEN [inputs[i] EXCEPT !.id = FileIdentity(files[i])]
                                ELSE inputs[i]]

\* The fast path compares every input with the persisted state; inputs rewritten with the
\* same content are snapshotted again and take their new identity.
CheckInputs(l) ==
    /\ pc[l] = "fast"
    /\ IF ~FastPathOpen(l)
         THEN LeaveFastPath(l) /\ UNCHANGED <<now, file>>
         ELSE LET s == ReadState
                  same == {i \in Input : s.inputs[i].id = FileIdentity(file[i])}
                  ambiguous == {i \in same : Ambiguous(s.inputs[i], s.start)}
                  differ == {i \in (Input \ same) \cup ambiguous : ~ContentMatches(s.inputs[i], i)}
                  again == (Input \ same) \ differ
              IN  /\ changed' = [changed EXCEPT ![l] = differ]
                  /\ rewritten' = [rewritten EXCEPT ![l] = again]
                  /\ mode' = [mode EXCEPT ![l] =
                                 IF ambiguous \cup again = {} THEN "unchanged" ELSE "ambiguous"]
                  /\ file' = Snapshotted(again) /\ now' = SnapshotTime(again)
                  /\ pending' = [pending EXCEPT ![l] =
                                   [s EXCEPT !.inputs = Refreshed(@, again, file')]]
                  /\ Goto(l, IF differ = {} THEN "recheck" ELSE "patch")
                  /\ UNCHANGED <<lock, mapped, prev, reported>>
    /\ UNCHANGED <<output, index, update, marker, startFile, setting, edits, seen>>

\* input_identity_mismatch_reason: every input still has the identity recorded for it.
IdentitiesMatch(s) == \A i \in Input : s.inputs[i].id = FileIdentity(file[i])

\* Nothing changed: the output is reused.  If an input had to be read to know, the index is
\* written anew with this link's start, so that the next link need not read it.
RecheckInputs(l) ==
    /\ pc[l] = "recheck"
    /\ \/ ~IdentitiesMatch(pending[l]) /\ LeaveFastPath(l)
       \/ IdentitiesMatch(pending[l]) /\ mode[l] = "unchanged" /\ End(l, "success")
       \/ /\ IdentitiesMatch(pending[l]) /\ mode[l] = "ambiguous"
          /\ pending' = [pending EXCEPT ![l] =
                 [ReadState EXCEPT !.start = startFile,
                                   !.inputs = Refreshed(@, rewritten[l], file)]]
          /\ Goto(l, "remove")
          /\ UNCHANGED <<lock, mapped, prev, mode, changed, rewritten, reported>>
    /\ UNCHANGED <<now, setting, edits, seen>> /\ UNCHANGED diskVars

\* patch_changed_inputs returns Unsupported: nothing was touched.
PatchUnsupported(l) ==
    /\ pc[l] = "patch" /\ "unsupported_patch" \in setting.env
    /\ LeaveFastPath(l)
    /\ UNCHANGED <<now, setting, edits, seen>> /\ UNCHANGED diskVars

\* Mutant: the update is not marked.
MarkedForUpdateNot == marker

\* mark_incremental_update_started: what the update marker becomes.
MarkedForUpdate == TRUE

\* patch_changed_inputs has read the changed inputs and sets the update marker.
StartPatch(l) ==
    /\ pc[l] = "patch"
    /\ marker' = MarkedForUpdate
    /\ mode' = [mode EXCEPT ![l] = "patch"]
    /\ pending' = [pending EXCEPT ![l].inputs = [i \in Input |->
          IF i \in changed[l] THEN [@[i] EXCEPT !.hash = file[i].content] ELSE @[i]]]
    /\ Goto(l, "writepatch")
    /\ UNCHANGED <<now, file, output, index, update, startFile, lock, mapped, prev, changed,
                   rewritten, setting, edits, reported, seen>>

\* The patches are written and flushed; the output's new identity is recorded.
WritePatch(l) ==
    /\ pc[l] = "writepatch"
    /\ now' = Stamp
    /\ output' = [output EXCEPT !.m = Stamp, !.in = [i \in Input |->
          IF i \in changed[l] THEN pending[l].inputs[i].hash ELSE @[i]]]
    /\ pending' = [pending EXCEPT ![l].out = [ino |-> output.ino, m |-> Stamp]]
    /\ Goto(l, "refreshpatch")
    /\ UNCHANGED <<file, index, update, marker, startFile, lock, mapped, prev, mode, changed,
                   rewritten, setting, edits, reported, seen>>

\* The changed inputs are snapshotted and take their current identity.
RefreshPatched(l) ==
    /\ pc[l] = "refreshpatch"
    /\ file' = Snapshotted(changed[l]) /\ now' = SnapshotTime(changed[l])
    /\ pending' = [pending EXCEPT ![l].inputs = [i \in Input |->
          IF i \in changed[l]
            THEN [@[i] EXCEPT !.id = FileIdentity(file'[i]),
                              !.snap = IF i \in Hardlinked THEN FileIdentity(file'[i]) ELSE None]
            ELSE @[i]]]
    /\ Goto(l, "checkpatch")
    /\ UNCHANGED <<output, index, update, marker, startFile, lock, mapped, prev, mode, changed,
                   rewritten, setting, edits, reported, seen>>

\* input_content_mismatch_reason and input_identity_mismatch_reason find nothing.
StillAsPatched(l) ==
    /\ \A i \in changed[l] : ContentMatches(pending[l].inputs[i], i)
    /\ IdentitiesMatch(pending[l])

\* write_metadata_update_for_inputs; or StartedUnsupported, with the marker left behind.
CheckPatched(l) ==
    /\ pc[l] = "checkpatch"
    /\ IF StillAsPatched(l)
         THEN /\ update' = [start |-> startFile, out |-> pending[l].out,
                            inputs |-> [i \in changed[l] \cup rewritten[l] |->
                                          pending[l].inputs[i]]]
              /\ Goto(l, "clear")
              /\ UNCHANGED <<lock, mapped, prev, pending, mode, changed, rewritten, reported>>
         ELSE LeaveFastPath(l) /\ UNCHANGED update
    /\ UNCHANGED <<now, file, output, index, marker, startFile, setting, edits, seen>>

-----------------------------------------------------------------------------
(* Loading and deciding: load_inputs, maybe_prepare *)

\* FileLoader::load_inputs maps the inputs.
LoadInputs(l) ==
    /\ pc[l] = "load"
    /\ mapped' = [mapped EXCEPT ![l] = [i \in Input |->
          [content |-> file[i].content, ino |-> file[i].ino, m |-> file[i].m]]]
    /\ Goto(l, "prepare")
    /\ UNCHANGED <<now, lock, prev, pending, mode, changed, rewritten, setting, edits,
                   reported, seen>>
    /\ UNCHANGED diskVars

\* FileContentState::from_input_file, for an input that s (None for no state) describes.
FromInputFile(l, s, i) ==
    LET id == FileIdentity(file[i])
    IN  IF s # None /\ s.inputs[i].id = id THEN s.inputs[i]
        ELSE [id |-> id, snap |-> None,
              hash |-> IF s = None \/ s.inputs[i].hash = None THEN None
                       ELSE mapped[l][i].content]

\* maybe_prepare, without the lock: PersistedState::read_metadata and CurrentState::new.
ReadPrevious(l) ==
    /\ pc[l] = "prepare"
    /\ prev' = [prev EXCEPT ![l] = ReadState]
    /\ pending' = [pending EXCEPT ![l] =
          [kind |-> "full", args |-> ArgsOf[l], start |-> startFile, out |-> OutputIdentity,
           inputs |-> [i \in Input |-> FromInputFile(l, ReadState, i)]]]
    /\ Goto(l, "classify")
    /\ UNCHANGED <<now, lock, mapped, mode, changed, rewritten, setting, edits, reported, seen>>
    /\ UNCHANGED diskVars

\* The inputs that differ from the previous state (reusable_input_files are the others).
ChangedInputs(l) ==
    {i \in Input : prev[l] = None \/ ~SameContent(pending[l].inputs[i], prev[l].inputs[i])}

\* classify_incremental_mode.  The sections of the previous link are read back when they are
\* needed, which fails when the index is gone or is one being published.
Classify(l) ==
    CASE prev[l] = None -> "relink"
      [] prev[l] # None /\ marker -> "interrupted"
      [] prev[l] # None /\ ~marker /\ (prev[l].args # ArgsOf[l] \/ prev[l].out # OutputIdentity)
           -> "relink"
      [] OTHER -> IF index = None \/ (index # None /\ index.kind = "publishing") THEN "relink"
                  ELSE IF ChangedInputs(l) = {} THEN "reuse" ELSE "sections"

\* maybe_prepare, the decision.
PrepareState(l) ==
    /\ pc[l] = "classify"
    /\ mode' = [mode EXCEPT ![l] = Classify(l)]
    /\ changed' = [changed EXCEPT ![l] = ChangedInputs(l)]
    /\ prev' = [prev EXCEPT ![l] = None]
    /\ Goto(l, IF Classify(l) = "reuse" THEN "verifyreuse" ELSE "open")
    /\ UNCHANGED <<now, lock, mapped, pending, rewritten, setting, edits, reported, seen>>
    /\ UNCHANGED diskVars

-----------------------------------------------------------------------------
(* Linking and finishing: load_inputs_and_link, PreparedState, PendingStateWrite *)

\* FileLoader::verify_inputs_unchanged: every input has the mtime it had when it was opened.
InputsUnmodified(l) == \A i \in Input : mapped[l][i].m = file[i].m

\* Verify inputs at one of the three places that do, or end with an error.
VerifyInputs(l) ==
    /\ pc[l] \in {"verifyreuse", "verify", "finalverify", "lastverify"}
    /\ \/ /\ ~InputsUnmodified(l) /\ End(l, "error")
       \/ /\ InputsUnmodified(l) /\ pc[l] = "lastverify" /\ End(l, "success")
       \/ /\ InputsUnmodified(l) /\ pc[l] # "lastverify"
          /\ Goto(l, CASE pc[l] = "verifyreuse" -> "begin"
                       [] pc[l] = "verify" -> "finish"
                       [] pc[l] = "finalverify" -> "remove")
          /\ UNCHANGED <<lock, reported>> /\ UNCHANGED locals
    /\ UNCHANGED <<now, setting, edits, seen>> /\ UNCHANGED diskVars

\* While the layout is computed the output is created (Output::set_size, SizedOutput::new):
\* a file to be updated in place keeps its bytes, another one replaces the old output.
OpenOutput(l) ==
    /\ pc[l] = "open"
    /\ now' = Stamp
    /\ \/ output' = [output EXCEPT !.m = Stamp]
       \/ output' = [args |-> None, in |-> [i \in Input |-> None],
                     ino |-> output.ino + 1, m |-> Stamp]
    /\ Goto(l, "begin")
    /\ UNCHANGED <<file, index, update, marker, startFile, lock, setting, edits, reported, seen>>
    /\ UNCHANGED locals

\* remove_incremental_index unless can_publish_in_background.
IndexForUpdate(l) == IF mode[l] = "interrupted" THEN None ELSE index

\* PreparedState::begin_update.
BeginUpdate(l) ==
    /\ pc[l] = "begin" /\ lock = None
    /\ lock' = l
    /\ index' = IndexForUpdate(l)
    /\ marker' = MarkedForUpdate
    /\ Goto(l, IF mode[l] = "reuse" THEN "finish" ELSE "write")
    /\ UNCHANGED <<now, file, output, update, startFile, setting, edits, reported, seen>>
    /\ UNCHANGED locals

\* Platform::write_output_file: the output is made of the mapped inputs.  When unchanged
\* sections may be reused (try_reuse_section), the bytes of an unchanged input may be left
\* as they are in the output.
WriteOutput(l) ==
    /\ pc[l] = "write"
    /\ now' = Stamp
    /\ \E kept \in SUBSET (IF mode[l] = "sections" /\ output.args # None
                             THEN Input \ changed[l] ELSE {}) :
          output' = [args |-> ArgsOf[l], ino |-> output.ino, m |-> Stamp,
                     in |-> [i \in Input |-> IF i \in kept THEN output.in[i]
                                                           ELSE mapped[l][i].content]]
    /\ Goto(l, "verify")
    /\ UNCHANGED <<file, index, update, marker, startFile, lock, setting, edits, reported, seen>>
    /\ UNCHANGED locals

\* Does the link tell its parent before the state is written?
Defers(l) == l \notin setting.foreground /\ mode[l] \in {"relink", "sections"}

\* Hashes of mapped inputs, for those of I that have none yet.
Hashed(l, inputs, I) ==
    [i \in Input |-> IF i \in I /\ inputs[i].hash = None
                       THEN [inputs[i] EXCEPT !.hash = mapped[l][i].content]
                       ELSE inputs[i]]

\* PreparedState::prepare_finish: the output's identity, snapshots, hashes unless they are
\* deferred, and the current identities of the inputs.
PrepareFinish(l) ==
    /\ pc[l] = "finish"
    /\ file' = Snapshotted(Input) /\ now' = SnapshotTime(Input)
    /\ LET hashed == Hashed(l, pending[l].inputs, IF Defers(l) THEN {} ELSE Input)
       IN  pending' = [pending EXCEPT
             ![l].out = OutputIdentity,
             ![l].inputs = [i \in Input |->
                 [hashed[i] EXCEPT !.id = FileIdentity(file'[i]),
                    !.snap = IF i \in Hardlinked THEN FileIdentity(file'[i]) ELSE None]]]
    /\ Goto(l, IF Defers(l) THEN "finalverify" ELSE "remove")
    /\ UNCHANGED <<output, index, update, marker, startFile, lock, mapped, prev, mode, changed,
                   rewritten, setting, edits, reported, seen>>

\* The first pass of a deferred link writes the publishing index; its inputs' hashes are
\* filled in only where the identity is ambiguous (hash_pending_reuse_input_files).
FirstPass(l) == Defers(l) /\ reported[l] = "no"

StateToInstall(l) ==
    IF FirstPass(l)
      THEN [pending[l] EXCEPT !.kind = "publishing",
              !.inputs = Hashed(l, @, {i \in Input : Ambiguous(@[i], pending[l].start)})]
      ELSE pending[l]

\* write_index_with_sections_files: the old index is removed, ...
RemoveIndex(l) ==
    /\ pc[l] = "remove"
    /\ index' = None
    /\ pending' = [pending EXCEPT ![l] = StateToInstall(l)]
    /\ Goto(l, "install")
    /\ UNCHANGED <<now, file, output, update, marker, startFile, lock, mapped, prev, mode,
                   changed, rewritten, setting, edits, reported, seen>>

\* ... the new one renamed into place, ...
InstallIndex(l) ==
    /\ pc[l] = "install"
    /\ index' = pending[l]
    /\ Goto(l, "drop")
    /\ UNCHANGED <<now, file, output, update, marker, startFile, lock, setting, edits,
                   reported, seen>>
    /\ UNCHANGED locals

\* ... and the metadata update removed, which belonged to the old one.
RemoveMetadataUpdate(l) ==
    /\ pc[l] = "drop"
    /\ update' = None
    /\ IF mode[l] = "ambiguous"
         THEN End(l, "success")
         ELSE /\ Goto(l, IF FirstPass(l) THEN "report" ELSE "clear")
              /\ UNCHANGED <<lock, reported>> /\ UNCHANGED locals
    /\ UNCHANGED <<now, file, output, index, marker, startFile, setting, edits, seen>>

\* inform_parent_done: the parent exits, the child goes on to publish the state.
InformParentDone(l) ==
    /\ pc[l] = "report"
    /\ reported' = [reported EXCEPT ![l] = "success"]
    /\ Goto(l, "hash")
    /\ UNCHANGED <<now, lock, setting, edits, seen>> /\ UNCHANGED diskVars /\ UNCHANGED locals

\* PendingStateWrite::publish after the report: the remaining inputs are hashed from the
\* mapped bytes and the full index is written.
HashInputs(l) ==
    /\ pc[l] = "hash"
    /\ pending' = [pending EXCEPT ![l].kind = "full",
                                  ![l].inputs = Hashed(l, @, Input)]
    /\ Goto(l, "remove")
    /\ UNCHANGED <<now, lock, mapped, prev, mode, changed, rewritten, setting, edits,
                   reported, seen>>
    /\ UNCHANGED diskVars

\* clear_incremental_update_marker; the lock goes with the pending state.  A link that did
\* not defer still has to verify its inputs (link_for_arch) before it reports.
ClearMarker(l) ==
    /\ pc[l] = "clear"
    /\ marker' = FALSE
    /\ IF mode[l] = "patch" \/ reported[l] = "success"
         THEN End(l, "success")
         ELSE Goto(l, "lastverify") /\ Unlock(l) /\ UNCHANGED reported /\ UNCHANGED locals
    /\ UNCHANGED <<now, file, output, index, update, startFile, setting, edits, seen>>

\* The process dies; the kernel releases its lock.  Dying while it writes leaves an output
\* that is neither the old nor the new one, possibly with its old timestamp.
Crash(l) ==
    /\ "crash" \in setting.env /\ pc[l] \notin {"idle", "done"}
    /\ End(l, "error")
    /\ \/ UNCHANGED <<now, output>>
       \/ /\ pc[l] \in {"write", "writepatch"}
          /\ \/ UNCHANGED now /\ output' = [output EXCEPT !.in = [i \in Input |-> None]]
             \/ now' = Stamp
                /\ output' = [output EXCEPT !.m = Stamp, !.in = [i \in Input |-> None]]
    /\ UNCHANGED <<file, index, update, marker, startFile, setting, edits, seen>>

LinkStep(l) ==
    \/ ReadDuringPublication(l) \/ CheckPublication(l) \/ AcquireStateLock(l)
    \/ CheckInputs(l) \/ RecheckInputs(l) \/ PatchUnsupported(l) \/ StartPatch(l)
    \/ WritePatch(l) \/ RefreshPatched(l) \/ CheckPatched(l) \/ LoadInputs(l)
    \/ ReadPrevious(l) \/ PrepareState(l) \/ VerifyInputs(l) \/ OpenOutput(l)
    \/ BeginUpdate(l) \/ WriteOutput(l) \/ PrepareFinish(l) \/ RemoveIndex(l)
    \/ InstallIndex(l) \/ RemoveMetadataUpdate(l) \/ InformParentDone(l) \/ HashInputs(l)
    \/ ClearMarker(l)

Next ==
    \/ Tick
    \/ ModifyOutput
    \/ \E i \in Input, v \in Content : Edit(i, v)
    \/ \E l \in Link : StartLink(l) \/ LinkStep(l) \/ Crash(l)

Spec == Init /\ [][Next]_vars

\* A linker process that can take a step does; waiting for a flock ends when it is free.
FairSpec == Spec /\ \A l \in Link : WF_vars(LinkStep(l))

-----------------------------------------------------------------------------
(* Properties *)

\* The output is what a link of l's arguments makes of inputs that existed while it ran.
OutputIsCurrent(l) ==
    /\ output.args = ArgsOf[l]
    /\ \A i \in Input : output.in[i] \in seen[l][i]

\* context/incremental-design.md: "A reused or patched output must be justified by persisted
\* state that still matches the current invocation."  Whenever a link reports success, by
\* reuse, patch or relink, the output is current.
SuccessMeansCurrentOutput ==
    [][\A l \in Link : reported[l] = "no" /\ reported'[l] = "success" => OutputIsCurrent(l)]_vars

\* context/incremental-design.md: "Interrupted state updates must not be mistaken for valid
\* reusable state."  A state that is not marked as being updated and names this output
\* describes what the output was made from, if no input was edited under a link: such an edit
\* can leave, beside an error, a state whose identities are those of newer files.
UnmarkedStateDescribesOutput ==
    /\ "edits_during_link" \notin setting.env
    /\ ~marker /\ index # None /\ ReadState.out = OutputIdentity
    =>
        /\ output.args = ReadState.args
        /\ \A i \in Input : ReadState.inputs[i].hash = output.in[i]

\* A publishing index has no sections file behind it, so it must not outlive the marker that
\* keeps every path but maybe_reuse_output_during_publication from using it.
PublishingIsMarked == index # None /\ index.kind = "publishing" => marker

\* Every link that starts reports to the process that waits for it, whoever holds the lock.
StartedLinksReport == \A l \in Link : pc[l] = "publication" ~> reported[l] # "no"

=============================================================================
