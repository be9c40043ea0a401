---------------------------- MODULE InputLoading ----------------------------
(***************************************************************************)
(* From a command line to the inputs of a link: input_data.rs (opening the *)
(* files from many threads and putting them in order), archive.rs,         *)
(* file_kind.rs, grouping.rs, linker_plugins.rs and the part of lib.rs     *)
(* that drives them, with the two places of incremental.rs where an        *)
(* earlier output is kept: before and after the inputs are loaded.         *)
(*                                                                         *)
(* Every request to open a file is a task of its own.  A linker script     *)
(* asks for its inputs one by one, so two scripts interleave, and the      *)
(* numbers of the files they name depend on who asks first.                *)
(*                                                                         *)
(* A path is opaque; InDir gives the path of a name in a directory.  A     *)
(* file has a kind, a version (its contents, and its modification time)    *)
(* and what its kind needs: tokens, members, symbols, or the text of a     *)
(* response file.                                                          *)
(***************************************************************************)
EXTENDS Arguments, Scripts

CONSTANTS
  InDir,          \* <<directory, name>> -> path
  DirOf,          \* path of a script -> its directory
  LibFile,        \* name of a library -> [so, a], the file names of -l
  LibArg,         \* words of scripts that start with -l -> the library
  Rooted,         \* paths of scripts in the sysroot, with what they name -> path
  FileIndexBits,  \* FILE_INDEX_BITS
  FilesPerGroup,  \* files_per_group, at most 2^FileIndexBits
  SymbolsPerGroup,\* the symbols after which a group is closed
  Generated,      \* the inputs the plugin hands back
  Claims,         \* the IR files that the plugin claims
  Denotes,        \* arguments that name an input -> its kind and name
  Settings        \* what a behaviour starts from: [disk, commands, editable,
                  \* edits], and the meaning of its files (see Meaning below)

ASSUME GroupsFit == FilesPerGroup \in 1..2^FileIndexBits

VARIABLES
  setting,    \* the setting, which does not change
  disk,       \* path -> file
  link,       \* the number of the link that is running or comes next
  phase,      \* where that link is
  args,       \* its options
  round,      \* 1: the inputs of the command line; 2: those of the plugin
  requests,   \* the requests to open a file, by FileLoadIndex
  pathIndex,  \* path_to_load_index
  files,      \* the recorded files
  loaded,     \* LoadedInputs and loaded_files
  plugin,     \* none, unloaded, loaded; and the files offered to it
  current,    \* CurrentState: the files of the first round, and their order
  db,         \* groups, rules and version script
  result,     \* ok, reused, or the error
  previous,   \* what the last successful link left
  edits       \* edits left

vars == << setting, disk, link, phase, args, round, requests, pathIndex, files, loaded,
           plugin, current, db, result, previous, edits >>

(***************************************************************************)
(* Finding a file.                                                         *)
(***************************************************************************)
\* search_for_file
SearchForFile(fs, searchPath, first, name) ==
  LET dirs == first \o searchPath
      path(n) == InDir[<<dirs[n], name>>]
      found == {n \in DOMAIN dirs : /\ <<dirs[n], name>> \in DOMAIN InDir
                                    /\ path(n) \in DOMAIN fs}
  IN  IF found = {} THEN <<>> ELSE <<path(CHOOSE n \in found : \A m \in found : n <= m)>>

\* Input::path; the empty sequence is an error.
PathOf(fs, searchPath, input) ==
  LET search(name) == SearchForFile(fs, searchPath, input.searchFirst, name)
      lib == LibFile[input.name]
  IN  CASE input.kind = "file" ->
             IF input.searchFirst # <<>> /\ search(input.name) # <<>>
             THEN search(input.name) ELSE <<input.name>>
        [] input.kind = "lib" ->
             IF input.modifiers.allow_shared /\ search(lib.so) # <<>>
             THEN search(lib.so) ELSE search(lib.a)
        [] input.kind = "search" -> search(input.name)

\* AuxiliaryFiles::new: the path as given if it exists, else where it is found.
AuxiliaryPath(fs, searchPath, path) ==
  LET found == SearchForFile(fs, searchPath, <<>>, path)
  IN  IF path \in DOMAIN fs \/ found = <<>> THEN path ELSE found[1]

(***************************************************************************)
(* Opening one file.                                                       *)
(***************************************************************************)
\* identify_bytes; what a universal file is taken for is its arm64 slice.
IdentifyBytes(file) ==
  LET slice == IF file.kind = "universal" THEN file.slice ELSE file.kind
  IN  IF slice \in {"archive", "thin", "object", "dynamic", "ir", "text"} THEN slice ELSE "error"

IsCompilerIr(kind) == kind = "ir"
IsRelocatableObject(kind) == kind = "object"

\* __.SYMDEF and members whose name ends in .rmeta
ShouldSkipArchiveMember(member) == member.skip

State(is, parts, opened, indexes, commands, err) ==
  [is |-> is, parts |-> parts, opened |-> opened, indexes |-> indexes,
   commands |-> commands, err |-> err]
ErrorState(what, path) == State("error", <<>>, <<>>, <<>>, <<>>, <<what, path>>)

Opened(fs, path) == [path |-> path, version |-> fs[path].version]
Part(path, version, member, kind, symbols, modifiers) ==
  [path |-> path, version |-> version, member |-> member, kind |-> kind,
   symbols |-> symbols, modifiers |-> modifiers]

\* process_input: "ok", or why the whole file is refused.
ProcessInput(kind, isMember, modifiers) ==
  CASE IsCompilerIr(kind) -> "ok"
    [] ~IsCompilerIr(kind) /\ isMember /\ ~IsRelocatableObject(kind) -> "member"
    [] ~IsCompilerIr(kind) /\ ~isMember /\ kind = "dynamic" /\ ~modifiers.allow_shared -> "static"
    [] OTHER -> "ok"

\* Errors come in the order of the members.
FirstBad(outcomes) ==
  LET bad == {n \in DOMAIN outcomes : outcomes[n] # "ok"}
  IN  IF bad = {} THEN "ok" ELSE outcomes[CHOOSE n \in bad : \A m \in bad : n <= m]

ProcessArchive(fs, path, modifiers) ==
  LET members == SelectSeq(fs[path].members, LAMBDA m : ~ShouldSkipArchiveMember(m))
      bad == FirstBad([n \in DOMAIN members |->
               ProcessInput(IdentifyBytes(members[n]), TRUE, modifiers)])
  IN  IF bad # "ok" THEN ErrorState(bad, path)
      ELSE State("archive", [n \in DOMAIN members |->
             Part(path, fs[path].version, members[n].name, members[n].kind,
                  members[n].symbols, modifiers)],
             <<Opened(fs, path)>>, <<>>, <<>>, <<>>)

\* The members are files next to the archive, and behave as if they were in it.
ProcessThinArchive(fs, path, modifiers) ==
  LET members == fs[path].members
      semantics == [modifiers EXCEPT !.archive_semantics = TRUE]
      outcome(n) ==
        IF members[n] \notin DOMAIN fs THEN "missing"
        ELSE IF IdentifyBytes(fs[members[n]]) = "error" THEN "kind"
        ELSE ProcessInput(IdentifyBytes(fs[members[n]]), FALSE, semantics)
      bad == FirstBad([n \in DOMAIN members |-> outcome(n)])
  IN  IF bad # "ok" THEN ErrorState(bad, path)
      ELSE State("thin", [n \in DOMAIN members |->
             LET f == fs[members[n]]
             IN  Part(members[n], f.version, "", f.kind, f.symbols, semantics)],
             [n \in DOMAIN members |-> Opened(fs, members[n])], <<>>, <<>>, <<>>)

\* process_linker_script: the inputs a script asks for; those it names look in
\* its own directory first, and its absolute paths are in the sysroot if it is.
ScriptInput(path, sysroot, wanted) ==
  LET name == CASE sysroot = <<>> -> wanted.name
                [] sysroot # <<>> /\ <<path, wanted.name>> \in DOMAIN Rooted ->
                     Rooted[<<path, wanted.name>>]
                [] OTHER -> ForcedIn(wanted.name)
      input == IF wanted.name \in DOMAIN LibArg
               THEN InputOf("lib", LibArg[wanted.name], wanted.modifiers)
               ELSE InputOf("file", name, wanted.modifiers)
  IN  [input EXCEPT !.searchFirst = <<DirOf[path]>>]

WantedBy(script, a, path, modifiers) ==
  LET wanted == InputsOf(script.val, modifiers)
  IN  [ok |-> script.ok, commands |-> script.val,
       inputs |-> IF ~script.ok THEN <<>>
                  ELSE [n \in DOMAIN wanted |-> ScriptInput(path, a.sysroot, wanted[n])]]
ProcessLinkerScript(fs, a, path, modifiers) ==
  WantedBy(LinkerScript(fs[path].tokens), a, path, modifiers)

\* process_open_file_request, for a file that is no linker script.
ProcessFile(fs, path, modifiers) ==
  LET kind == IdentifyBytes(fs[path])
      bad == ProcessInput(kind, FALSE, modifiers)
  IN  CASE kind = "error" -> ErrorState("kind", path)
        [] kind = "archive" -> ProcessArchive(fs, path, modifiers)
        [] kind = "thin" -> ProcessThinArchive(fs, path, modifiers)
        [] OTHER -> IF bad # "ok" THEN ErrorState(bad, path)
                    ELSE State("loaded", <<Part(path, fs[path].version, "", kind,
                                                fs[path].symbols, modifiers)>>,
                               <<Opened(fs, path)>>, <<>>, <<>>, <<>>)

(***************************************************************************)
(* Requests.                                                               *)
(***************************************************************************)
Request(path, modifiers) ==
  [path |-> path, modifiers |-> modifiers, at |-> "waiting", inputs |-> <<>>,
   indexes |-> <<>>, commands |-> <<>>, version |-> 0]

\* load_inputs, up to the parallel part: the inputs of the command line are
\* numbered in its order, and one that is named again keeps its first number
\* and its first modifiers.
RECURSIVE InitialWork(_, _, _, _)
InitialWork(fs, searchPath, inputs, work) ==
  IF inputs = <<>> THEN [ok |-> TRUE, work |-> work]
  ELSE LET path == PathOf(fs, searchPath, Head(inputs))
           known == \E n \in DOMAIN work : work[n].path = path[1]
       IN  IF path = <<>> THEN [ok |-> FALSE, work |-> <<>>]
           ELSE InitialWork(fs, searchPath, Tail(inputs),
                  IF known THEN work ELSE Append(work, Request(path[1], Head(inputs).modifiers)))

IndexByPath(work) ==
  [p \in {work[n].path : n \in DOMAIN work} |-> CHOOSE n \in DOMAIN work : work[n].path = p]

\* The queue is emptied into a table, so its order is left out.
Record(i, s) == files \cup {[index |-> i, state |-> s]}

\* A task opens its file.  A script goes on to ask for its inputs.
ReadScript(i) ==
  LET r == requests[i]
  IN  \E script \in {ProcessLinkerScript(disk, args, r.path, r.modifiers)} :
        IF script.ok
        THEN /\ requests' = [requests EXCEPT ![i].at = "reading", ![i].inputs = script.inputs,
                                            ![i].commands = script.commands,
                                            ![i].version = disk[r.path].version]
             /\ UNCHANGED files
        ELSE /\ files' = Record(i, ErrorState("script", r.path))
             /\ requests' = [requests EXCEPT ![i].at = "recorded"]

OpenFile(i) ==
  LET r == requests[i]
      found == r.path \in DOMAIN disk
  IN  /\ phase = "opening" /\ r.at = "waiting"
      /\ IF found /\ IdentifyBytes(disk[r.path]) = "text" THEN ReadScript(i)
         ELSE /\ files' = Record(i, IF found THEN ProcessFile(disk, r.path, r.modifiers)
                                    ELSE ErrorState("open", r.path))
              /\ requests' = [requests EXCEPT ![i].at = "recorded"]
      /\ UNCHANGED << setting, current, disk, link, phase, args, round, pathIndex, loaded, plugin, db, result,
                      previous, edits >>

\* load_input, for the next input of a script: a new request unless some task
\* has asked for the path before.  Both happen under the map's lock.
LoadInput(i) ==
  LET r == requests[i]
      input == Head(r.inputs)
      path == PathOf(disk, args.lib_search_path, input)
      known == path[1] \in DOMAIN pathIndex
      index == IF known THEN pathIndex[path[1]] ELSE Len(requests) + 1
      asked == [requests EXCEPT ![i].inputs = Tail(@), ![i].indexes = Append(@, index)]
  IN  /\ phase = "opening" /\ r.at = "reading" /\ r.inputs # <<>>
      /\ IF path = <<>>
         THEN /\ files' = Record(i, ErrorState("library", r.path))
              /\ requests' = [requests EXCEPT ![i].at = "recorded"]
              /\ UNCHANGED pathIndex
         ELSE /\ requests' = IF known THEN asked
                             ELSE Append(asked, Request(path[1], input.modifiers))
              /\ pathIndex' = (path[1] :> index) @@ pathIndex
              /\ UNCHANGED files
      /\ UNCHANGED << setting, current, disk, link, phase, args, round, loaded, plugin, db, result, previous,
                      edits >>

\* A script has asked for everything.
RecordScript(i) ==
  LET r == requests[i]
  IN  /\ phase = "opening" /\ r.at = "reading" /\ r.inputs = <<>>
      /\ files' = Record(i, State("script", <<>>, <<[path |-> r.path, version |-> r.version]>>,
                                  r.indexes, r.commands, <<>>))
      /\ requests' = [requests EXCEPT ![i].at = "recorded"]
      /\ UNCHANGED << setting, current, disk, link, phase, args, round, pathIndex, loaded, plugin, db, result,
                      previous, edits >>

(***************************************************************************)
(* Putting the files in order.                                             *)
(***************************************************************************)
NothingLoaded ==
  [objects |-> <<>>, scripts |-> <<>>, lto |-> <<>>, opened |-> <<>>, dynamic |-> FALSE,
   err |-> <<>>]

\* add_record: an object is kept; IR is offered to the plugin, which is loaded
\* the first time.
RECURSIVE AddRecords(_, _)
AddRecords(x, parts) ==
  IF parts = <<>> THEN x
  ELSE LET p == Head(parts)
           offered == x.plugin.state # "none"
           claimed == offered /\ p.path \in Claims
       IN  AddRecords(
             IF ~IsCompilerIr(p.kind) THEN [x EXCEPT !.loaded.objects = Append(@, p)]
             ELSE [x EXCEPT !.loaded.lto = Append(@, [part |-> p, ok |-> claimed]),
                            !.plugin.state = IF offered THEN "loaded" ELSE @,
                            !.plugin.offered = IF offered THEN Append(@, p.path) ELSE @],
             Tail(parts))

\* extract_file: each file is taken once, a script's files where the script is.
RECURSIVE ExtractFiles(_, _)
ExtractFiles(x, indexes) ==
  IF indexes = <<>> \/ x.loaded.err # <<>> THEN x
  ELSE LET i == Head(indexes)
           s == x.table[i]
           taken == [x EXCEPT !.table[i].is = "taken"]
           kept == [taken EXCEPT !.loaded.opened = @ \o s.opened]
           next ==
             CASE s.is = "taken" -> x
               [] s.is = "error" -> [taken EXCEPT !.loaded.err = s.err]
               [] s.is = "script" ->
                    ExtractFiles([kept EXCEPT !.loaded.scripts = Append(@, s)], s.indexes)
               [] s.is \in {"loaded", "archive", "thin"} ->
                    [AddRecords(kept, s.parts) EXCEPT
                       !.loaded.dynamic = @ \/ (s.is = "loaded" /\ s.parts[1].kind = "dynamic")]
       IN  ExtractFiles(next, Tail(indexes))

FilesByIndex(queue) ==
  [i \in 1..Cardinality(queue) |-> (CHOOSE f \in queue : f.index = i).state]

\* extract_all
ExtractAll(table, before, plug) ==
  ExtractFiles([table |-> table, loaded |-> before, plugin |-> plug], [i \in DOMAIN table |-> i])

(***************************************************************************)
(* Groups.  A file is identified by its group and its place in it.         *)
(***************************************************************************)
FileId(group, file) == group * 2^FileIndexBits + file
GroupOf(id) == id \div 2^FileIndexBits
FileOf(id) == id % 2^FileIndexBits

\* Mutant: one file more than the bits of a file's number allow.
OneFileTooMany == FilesPerGroup + 1

DetermineMaxFilesPerGroup == FilesPerGroup

DetermineSymbolsPerGroup(a) == IF a.num_threads = <<1>> THEN 2^16 ELSE SymbolsPerGroup

\* create_groups: a group is closed when it is full, when the next file would
\* put it over the limit of symbols, or at the end.
RECURSIVE CreateGroups(_, _, _, _)
CreateGroups(objects, open, groups, limit) ==
  LET total == [n \in DOMAIN open |-> open[n].symbols]
      sum[n \in 0..Len(open)] == IF n = 0 THEN 0 ELSE sum[n - 1] + total[n]
      close == \/ Len(open) >= DetermineMaxFilesPerGroup
               \/ objects = <<>>
               \/ sum[Len(open)] + Head(objects).symbols > limit
  IN  CASE open # <<>> /\ close -> CreateGroups(objects, <<>>, Append(groups, open), limit)
        [] open = <<>> /\ objects = <<>> -> groups
        [] OTHER -> CreateGroups(Tail(objects), Append(open, Head(objects)), groups, limit)

\* The prelude, the objects, all linker scripts, and the IR, by chunks.
RECURSIVE Chunks(_, _)
Chunks(list, n) ==
  IF list = <<>> THEN <<>>
  ELSE IF Len(list) <= n THEN <<list>>
  ELSE <<SubSeq(list, 1, n)>> \o Chunks(SubSeq(list, n + 1, Len(list)), n)

AddGroups(groups, a, in) ==
  LET prelude == IF groups = <<>> THEN << <<[prelude |-> TRUE]>> >> ELSE groups
      objects == CreateGroups(in.objects, <<>>, <<>>, DetermineSymbolsPerGroup(a))
      scripts == IF in.scripts = <<>> THEN <<>> ELSE <<in.scripts>>
  IN  prelude \o objects \o scripts
      \o Chunks([n \in DOMAIN in.lto |-> in.lto[n].part], 2^FileIndexBits)

\* is_optional
IsOptional(p) ==
  \/ (p.member # "" \/ p.modifiers.archive_semantics) /\ ~p.modifiers.whole_archive
  \/ p.kind = "dynamic" /\ p.modifiers.as_needed

(***************************************************************************)
(* SymbolDb::new and add_inputs: version scripts, export lists, section    *)
(* rules and groups.                                                       *)
(***************************************************************************)
\* The version script of the command line, then those of linker scripts, of
\* which there may be only one in all.
RECURSIVE AddVersions(_, _)
AddVersions(version, scripts) ==
  IF ~version.ok \/ scripts = <<>> THEN version
  ELSE LET text == VersionTextOf(Head(scripts).commands)
       IN  AddVersions(IF text = <<>> THEN version
                       ELSE IF version.val # NoVersionScript THEN Bad
                       ELSE ParseVersionScript(text[1]), Tail(scripts))

\* The symbols, assertions and regions are each script's own.
RECURSIVE ProcessLinkerScripts(_, _)
ProcessLinkerScripts(a, scripts) ==
  IF scripts = <<>> \/ a.err THEN a
  ELSE ProcessLinkerScripts(
         ProcessCommands([a EXCEPT !.symbols = <<>>, !.asserts = <<>>, !.regions = <<>>],
                         Head(scripts).commands), Tail(scripts))

ReadVersionScript(fs, a) ==
  IF a.version_script_path = <<>> THEN Good(1, NoVersionScript)
  ELSE LET path == AuxiliaryPath(fs, a.lib_search_path, a.version_script_path[1])
       IN  IF path \notin DOMAIN fs THEN Bad ELSE ParseVersionScript(fs[path].tokens)

ReadExportList(fs, a) ==
  IF a.export_list_path = <<>> THEN Good(1, NoRules)
  ELSE LET path == AuxiliaryPath(fs, a.lib_search_path, a.export_list_path[1])
       IN  IF path \notin DOMAIN fs THEN Bad ELSE ParseExportList(fs[path].tokens)

\* --export-dynamic-symbol adds to the list.
WithForcedExports(rules, a) ==
  [rules EXCEPT !.general = @ \cup {MatcherOf(a.export_list[n]) : n \in DOMAIN a.export_list}]

EmptyDb == [version |-> Good(1, NoVersionScript), exports |-> NoRules,
            declared |-> NothingDeclared, groups |-> <<>>, err |-> "none", made |-> <<>>]

\* What the rest of the link is a function of.
Inputs(a, in) ==
  [options |-> IncrementalLinkOptions(a), objects |-> in.objects, lto |-> in.lto,
   scripts |-> [n \in DOMAIN in.scripts |-> in.scripts[n].opened]]

AddInputs(d, a, in) ==
  LET declared == ProcessLinkerScripts(d.declared, in.scripts)
      version == AddVersions(d.version, in.scripts)
      why == CASE \E n \in DOMAIN in.objects : in.objects[n].kind = "corrupt" -> "object"
               [] declared.err -> "section command"
               [] ~version.ok -> "version script"
               [] \E n \in DOMAIN in.lto : ~in.lto[n].ok -> "lto"
               [] OTHER -> "none"
  IN  [d EXCEPT !.declared = declared, !.version = version, !.err = why,
                !.groups = IF why = "none" THEN AddGroups(@, a, in) ELSE @,
                \* history: what was added
                !.made = Append(@, Inputs(a, in))]

\* has_loaded_lto_input, for IR that is not in an archive: archive members are
\* loaded when resolution wants them.
HasLoadedLtoInput(in) == \E n \in DOMAIN in.lto : ~IsOptional(in.lto[n].part)

(***************************************************************************)
(* Keeping the output of an earlier link.                                  *)
(***************************************************************************)
NoPrevious == [known |-> FALSE]

OpenedByPath(opened) ==
  [p \in {opened[n].path : n \in DOMAIN opened} |->
     opened[CHOOSE n \in DOMAIN opened : opened[n].path = p].version]
InputOrder(opened) == [n \in DOMAIN opened |-> opened[n].path]

\* maybe_reuse_output_before_loading: the same arguments, and every input that
\* was recorded is as it was.  (What is done about one that changed is the
\* subject of IncrementalLink and PatchInputs.)
MayReuseBeforeLoading(a) ==
  /\ a.incremental /\ previous.known
  /\ previous.args = a
  /\ ~a.trace
  /\ a.dependency_file # <<>> => a.dependency_file[1] \in DOMAIN disk
  /\ \A p \in DOMAIN previous.inputs :
       p \in DOMAIN disk /\ disk[p].version = previous.inputs[p]

\* Mutant: the order of the inputs does not matter.
ReuseInAnyOrder(a, in) ==
  /\ a.incremental /\ previous.known
  /\ previous.options = IncrementalLinkOptions(a)
  /\ previous.inputs = OpenedByPath(in.opened)

\* classify_incremental_mode, once the inputs are loaded.
ClassifyReuse(a, in) ==
  /\ a.incremental /\ previous.known
  /\ previous.options = IncrementalLinkOptions(a)
  /\ previous.inputs = OpenedByPath(in.opened)
  /\ previous.order = InputOrder(in.opened)

(***************************************************************************)
(* The link.                                                               *)
(***************************************************************************)
StartLoading(inputs, fs, a, n) ==
  LET work == InitialWork(fs, a.lib_search_path, inputs, <<>>)
  IN  /\ requests' = work.work
      /\ pathIndex' = IndexByPath(work.work)
      /\ files' = {}
      /\ round' = n
      /\ phase' = IF work.ok THEN "opening" ELSE "verifying"
      /\ result' = IF work.ok THEN "none" ELSE "library"

Begin ==
  /\ phase = "idle" /\ link <= Len(setting.commands)
  /\ \E parsed \in {Parse("ld", setting.commands[link], disk)} :
     LET a == parsed.args
     IN    /\ args' = a
           /\ loaded' = NothingLoaded
           /\ db' = EmptyDb
           /\ plugin' = [state |-> IF a.plugin_path = <<>> THEN "none" ELSE "unloaded",
                         offered |-> <<>>]
           /\ IF parsed.err # "none" \/ MayReuseBeforeLoading(a)
              THEN /\ phase' = "done"
                   /\ result' = IF parsed.err # "none" THEN "arguments" ELSE "reused"
                   /\ UNCHANGED << requests, pathIndex, files, round >>
              ELSE StartLoading(a.inputs, disk, a, 1)
  /\ UNCHANGED << setting, current, disk, link, previous, edits >>

\* The scope ends when no task is left.
Extract ==
  /\ phase = "opening"
  /\ \A i \in DOMAIN requests : requests[i].at = "recorded"
  /\ LET before == [loaded EXCEPT !.objects = <<>>, !.scripts = <<>>, !.lto = <<>>]
         x == ExtractAll(FilesByIndex(files), before,
                IF round = 1 THEN plugin ELSE [plugin EXCEPT !.state = "none"])
     IN  /\ loaded' = x.loaded
         /\ plugin' = [x.plugin EXCEPT !.state = IF round = 1 THEN @ ELSE plugin.state]
         /\ phase' = IF x.loaded.err # <<>> THEN "verifying"
                     ELSE IF round = 1 THEN "loaded" ELSE "adding"
         /\ result' = IF x.loaded.err # <<>> THEN x.loaded.err[1] ELSE result
  /\ UNCHANGED << setting, current, disk, link, args, round, requests, pathIndex, files, db, previous, edits >>

\* maybe_prepare; then AuxiliaryFiles and SymbolDb::new.
Prepare ==
  LET version == ReadVersionScript(disk, args)
      exports == ReadExportList(disk, args)
  IN  /\ phase = "loaded"
      /\ current' = [inputs |-> OpenedByPath(loaded.opened), order |-> InputOrder(loaded.opened)]
      /\ IF ClassifyReuse(args, loaded)
         THEN phase' = "verifying" /\ result' = "reused" /\ UNCHANGED db
         ELSE IF ~version.ok \/ ~exports.ok
         THEN phase' = "verifying" /\ result' = "auxiliary" /\ UNCHANGED db
         ELSE /\ phase' = "adding" /\ result' = result
              /\ db' = [EmptyDb EXCEPT !.version = version,
                                       !.exports = WithForcedExports(exports.val, args)]
      /\ UNCHANGED << setting, disk, link, args, round, requests, pathIndex, files, loaded, plugin,
                      previous, edits >>

\* add_inputs, and resolution after it.  The plugin is asked for what it makes
\* of the IR once, when some of it is loaded.
Add ==
  /\ phase = "adding"
  /\ \E d \in {AddInputs(db, args, loaded)} :
       /\ db' = d
       /\ IF d.err # "none"
          THEN /\ phase' = "verifying" /\ result' = d.err
               /\ UNCHANGED << requests, pathIndex, files, round >>
          ELSE IF round = 1 /\ plugin.state = "loaded" /\ HasLoadedLtoInput(loaded)
          THEN StartLoading(Generated, disk, args, 2)
          ELSE /\ phase' = "verifying" /\ result' = "ok"
               /\ UNCHANGED << requests, pathIndex, files, round >>
  /\ UNCHANGED << setting, current, disk, link, args, loaded, plugin, previous, edits >>

\* verify_inputs_unchanged comes before every other error, and before the
\* state of the link is recorded.
InputsUnchanged(opened) ==
  \A n \in DOMAIN opened : /\ opened[n].path \in DOMAIN disk
                           /\ disk[opened[n].path].version = opened[n].version

Verify ==
  LET same == InputsUnchanged(loaded.opened)
  IN  /\ phase = "verifying"
      /\ phase' = "done"
      /\ result' = IF same THEN result ELSE "changed"
      /\ previous' = IF ~same \/ result \notin {"ok", "reused"} \/ ~args.incremental
                     THEN previous
                     ELSE [known |-> TRUE, args |-> args, options |-> IncrementalLinkOptions(args),
                           inputs |-> current.inputs, order |-> current.order,
                           \* history: what the output was made from
                           made |-> IF result = "reused" THEN previous.made ELSE db.made]
      /\ UNCHANGED << setting, current, disk, link, args, round, requests, pathIndex, files, loaded, plugin, db,
                      edits >>

NextLink ==
  /\ phase = "done" /\ link < Len(setting.commands)
  /\ phase' = "idle" /\ link' = link + 1
  /\ UNCHANGED << setting, current, disk, args, round, requests, pathIndex, files, loaded, plugin, db, result,
                  previous, edits >>

\* Somebody changes a file, at any time.
Edit ==
  /\ edits > 0 /\ edits' = edits - 1
  /\ \E p \in setting.editable : disk' = [disk EXCEPT ![p].version = @ + 1]
  /\ UNCHANGED << setting, current, link, phase, args, round, requests, pathIndex, files, loaded, plugin, db,
                  result, previous >>

Finished ==
  /\ phase = "done" /\ link = Len(setting.commands)
  /\ UNCHANGED vars

Next ==
  \/ Begin \/ Extract \/ Prepare \/ Add \/ Verify \/ NextLink \/ Edit \/ Finished
  \/ \E i \in DOMAIN requests : OpenFile(i) \/ LoadInput(i) \/ RecordScript(i)

Init ==
  /\ setting \in Settings
  /\ disk = setting.disk
  /\ edits = setting.edits
  /\ link = 1 /\ phase = "idle" /\ round = 1
  /\ args = Parser0.args
  /\ requests = <<>> /\ pathIndex = <<>> /\ files = {}
  /\ loaded = NothingLoaded
  /\ plugin = [state |-> "none", offered |-> <<>>]
  /\ current = [inputs |-> <<>>, order |-> <<>>]
  /\ db = EmptyDb
  /\ result = "none"
  /\ previous = NoPrevious

Spec == Init /\ [][Next]_vars

(***************************************************************************)
(* Properties.  They are stated from what the files and the command line   *)
(* of a setting mean, which the setting says in so many words: words, the  *)
(* arguments in each response file; wants, what each linker script asks    *)
(* for, with the AS_NEEDED it is in; matchers, in order, what is put in    *)
(* which output section.                                                   *)
(***************************************************************************)
RECURSIVE Expanded(_)
Expanded(argv) ==
  IF argv = <<>> THEN <<>>
  ELSE (IF Head(argv) \in DOMAIN setting.words THEN setting.words[Head(argv)]
        ELSE <<Head(argv)>>) \o Expanded(Tail(argv))

\* What an argument does to a field of the modifiers.
Turns(field) ==
  CASE field = "as_needed" -> [on |-> "--as-needed", off |-> "--no-as-needed"]
    [] field = "allow_shared" -> [on |-> "-Bdynamic", off |-> "-Bstatic"]
    [] field = "whole_archive" -> [on |-> "--whole-archive", off |-> "--no-whole-archive"]
    [] field = "archive_semantics" -> [on |-> "--start-lib", off |-> "--end-lib"]
    [] field = "temporary" -> [on |-> "", off |-> ""]

\* The last argument before the n-th that sets the field and is not between a
\* --push-state and its --pop-state.
ModifiersAt(argv, n) ==
  LET count(k, a) == Cardinality({j \in 1..k : argv[j] = a})
      depth(k) == count(k, "--push-state") - count(k, "--pop-state")
      hidden(k) == \E j \in k..n - 1 : argv[j] = "--pop-state" /\ depth(j) < depth(k)
      sets(field) == {k \in 1..n - 1 : /\ argv[k] \in {Turns(field).on, Turns(field).off}
                                       /\ ~hidden(k)}
      last(field) == CHOOSE k \in sets(field) : \A j \in sets(field) : j <= k
  IN  [field \in DOMAIN DefaultModifiers |->
         IF sets(field) = {} THEN DefaultModifiers[field]
         ELSE argv[last(field)] = Turns(field).on]

RECURSIVE NamedFrom(_, _)
NamedFrom(argv, n) ==
  IF n > Len(argv) THEN <<>>
  ELSE (IF argv[n] \notin DOMAIN Denotes THEN <<>>
        ELSE <<InputOf(Denotes[argv[n]].kind, Denotes[argv[n]].name, ModifiersAt(argv, n))>>)
       \o NamedFrom(argv, n + 1)

\* One thread: the command line from left to right, and each script's files
\* where the script is.  A file of the command line has the modifiers it has
\* there, whoever asks for it first.
RECURSIVE Walk(_, _, _)
Walk(w, a, inputs) ==
  LET input == Head(inputs)
      path == PathOf(disk, a.lib_search_path, input)
      p == path[1]
      modifiers == IF p \in DOMAIN w.given THEN w.given[p] ELSE input.modifiers
      seen == [w EXCEPT !.seen = @ \cup {p}]
      wanted == setting.wants[p]
      children == [n \in DOMAIN wanted |->
                     ScriptInput(p, a.sysroot, [name |-> wanted[n].name,
                       modifiers |-> [modifiers EXCEPT !.as_needed = @ \/ wanted[n].as_needed]])]
      state == ProcessFile(disk, p, modifiers)
  IN  CASE inputs = <<>> \/ w.err # <<>> -> w
        [] inputs # <<>> /\ w.err = <<>> /\ p \in w.seen -> Walk(w, a, Tail(inputs))
        [] inputs # <<>> /\ w.err = <<>> /\ p \notin w.seen /\ p \notin DOMAIN disk ->
             [w EXCEPT !.err = <<"open", p>>]
        [] inputs # <<>> /\ w.err = <<>> /\ p \notin w.seen /\ p \in DOMAIN setting.wants ->
             IF \E n \in DOMAIN children : PathOf(disk, a.lib_search_path, children[n]) = <<>>
             THEN [w EXCEPT !.err = <<"library", p>>]
             ELSE Walk(Walk([seen EXCEPT !.scripts = Append(@, p)], a, children), a, Tail(inputs))
        [] OTHER -> Walk([seen EXCEPT !.parts = @ \o state.parts, !.err = state.err], a, Tail(inputs))

\* What the command line asks for, on the disk as it is.
Asked(a, argv) ==
  LET inputs == NamedFrom(Expanded(argv), 1)
      paths == [n \in DOMAIN inputs |-> PathOf(disk, a.lib_search_path, inputs[n])]
      first(p) == CHOOSE n \in DOMAIN inputs :
                    paths[n] = <<p>> /\ \A m \in 1..n - 1 : paths[m] # <<p>>
      given == [p \in {paths[n][1] : n \in DOMAIN paths} |-> inputs[first(p)].modifiers]
      nothing == [seen |-> {}, parts |-> <<>>, scripts |-> <<>>, err |-> <<>>]
  IN  IF \E n \in DOMAIN paths : paths[n] = <<>>
      THEN [nothing EXCEPT !.err = <<"library", "">>]
      ELSE Walk(nothing @@ [given |-> given], a, inputs)

\* A file that two scripts name and the command line does not has the
\* modifiers of the script that asked first.
Contested(p) ==
  Cardinality({i \in DOMAIN requests : \E n \in DOMAIN requests[i].indexes :
                 requests[requests[i].indexes[n]].path = p}) > 1

Shown(part) ==
  [path |-> part.path, member |-> part.member, kind |-> part.kind,
   modifiers |-> IF Contested(part.path) THEN DefaultModifiers ELSE part.modifiers]

IsIr(part) == part.kind = "ir"
NotIr(part) == part.kind # "ir"
ShownAll(parts) == [n \in DOMAIN parts |-> Shown(parts[n])]

\* However the threads that open the files interleave, what is loaded, its
\* order, the modifiers it is loaded with, the order in which the plugin is
\* offered IR, and the error that is reported are those of one thread that
\* reads the command line from left to right (input_data.rs load_inputs and
\* extract_all, args.rs, linker_script.rs).
ReadInCommandLineOrder ==
  round = 1 /\ (phase = "loaded" \/ loaded.err # <<>>) =>
      \A asked \in {Asked(args, setting.commands[link])} :
          IF loaded.err # <<>> THEN asked.err = loaded.err
          ELSE /\ asked.err = <<>>
               /\ ShownAll(loaded.objects) = ShownAll(SelectSeq(asked.parts, NotIr))
               /\ ShownAll([n \in DOMAIN loaded.lto |-> loaded.lto[n].part]) =
                    ShownAll(SelectSeq(asked.parts, IsIr))
               /\ [n \in DOMAIN loaded.scripts |-> loaded.scripts[n].opened[1].path] = asked.scripts
               /\ plugin.offered = IF plugin.state = "none" THEN <<>>
                                   ELSE [n \in DOMAIN loaded.lto |-> loaded.lto[n].part.path]

\* An output is kept only if a link from nothing would be given what the link
\* that made it was given: the same options, the same files with the same
\* contents in the same order, each with the same modifiers (incremental.rs
\* maybe_reuse_output_before_loading and classify_incremental_mode).
ReuseMeansSameLink ==
  [][ (phase' = "done" /\ phase # "done" /\ result' = "reused") =>
          \A asked \in {Asked(args', setting.commands[link])} :
          LET made == previous.made[1]
          IN  /\ asked.err = <<>>
              /\ made.options = IncrementalLinkOptions(args')
              /\ made.objects = SelectSeq(asked.parts, NotIr)
              /\ [n \in DOMAIN made.lto |-> made.lto[n].part] = SelectSeq(asked.parts, IsIr)
              /\ [n \in DOMAIN made.scripts |-> made.scripts[n][1].path] = asked.scripts ]_vars

\* A section goes where the first pattern of the scripts that matches it says,
\* with the files the pattern is about; with no such script where the built-in
\* rules say (layout_rules.rs, linker_script.rs).
PutWhere(name, file) ==
  LET matches(m) == /\ m.file = <<>> \/ GlobMatches(Spelled(m.file[1]), Spelled(file))
                    /\ \E n \in DOMAIN m.patterns : GlobMatches(Spelled(m.patterns[n]), Spelled(name))
      found == {n \in DOMAIN setting.matchers : matches(setting.matchers[n])}
  IN  IF found = {} THEN <<>>
      ELSE <<setting.matchers[CHOOSE n \in found : \A m \in found : n <= m].section>>

PlainHeader == [exclude |-> FALSE, alloc |-> TRUE, type |-> "progbits", exec |-> FALSE,
                tls |-> FALSE, write |-> FALSE]

SectionsPut ==
  \A probe \in setting.probes :
    LET out == Lookup(BuildRules(db.declared), Spelled(probe[1]), Spelled(probe[2]), PlainHeader)
    IN  IF "id" \in DOMAIN out
        THEN <<db.declared.sections[out.id].name>> = PutWhere(probe[1], probe[2])
        ELSE PutWhere(probe[1], probe[2]) = <<>> /\ (setting.matchers # <<>> => out = Treated("custom"))

\* The symbols a script defines are where it says, in its order.
SymbolsPlaced == [n \in DOMAIN db.declared.symbols |-> db.declared.symbols[n].name] = setting.symbols

\* An unnamed version script that a Rust compiler writes is kept in a form of
\* its own; symbols are local under it exactly when they are under the form
\* that any other script has (version_script.rs, symbol_db.rs).
RustFormAgrees ==
  \A t \in setting.versions :
    \A script \in {ParseVersionScript(t)} :
    LET entries == BodyFrom(t, 2, "globals")
    IN  /\ script.ok
        /\ script.val.rust => \A name \in setting.names :
             DowngradedToLocal(script.val, Spelled(name)) =
               IsLocal(<<Version("", {}, BodyOf(entries.val))>>, Spelled(name))

\* What a linked program takes from its scripts is what they say.
ScriptsMeanWhatTheySay ==
  phase = "done" /\ result = "ok" => SectionsPut /\ SymbolsPlaced /\ RustFormAgrees

\* FileId packs a group and a place in it: every file of the link has an
\* identifier of its own that leads back to it, whatever the numbers of
\* files and symbols (input_data.rs FileId, grouping.rs create_groups).
FileIdsLeadBack ==
  LET places == UNION {{<<g, f>> : f \in DOMAIN db.groups[g]} : g \in DOMAIN db.groups}
      id(x) == FileId(x[1] - 1, x[2] - 1)
      file(x) == db.groups[x[1]][x[2]]
  IN  /\ \A x \in places : GroupOf(id(x)) = x[1] - 1 /\ FileOf(id(x)) = x[2] - 1
      /\ db.err = "none" => \A n \in DOMAIN db.made : \A k \in DOMAIN db.made[n].objects :
           \E x \in places : file(x) = db.made[n].objects[k]

\* What is loaded is what the command line names, in its order, and every
\* file of it can be found again by its identifier (input_data.rs, grouping.rs).
LoadedInCommandLineOrder == ReadInCommandLineOrder /\ FileIdsLeadBack
=============================================================================
