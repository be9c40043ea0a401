------------------------------ MODULE Arguments ------------------------------
(***************************************************************************)
(* The command-line parser of libsld: args.rs (the parser that every       *)
(* platform shares) and args/elf.rs (the options of the ELF linker).       *)
(*                                                                         *)
(* An argument is an opaque string; how it splits is its entry in Lexeme   *)
(* (what strip_option, find('=') and strip_prefix see of it), and what it  *)
(* denotes as a number, if anything, is its entry in Number.  An optional  *)
(* value is a sequence of at most one element.                             *)
(*                                                                         *)
(* A parser is a record: the options read so far, the stack of modifiers   *)
(* that --push-state and --pop-state work on, and the error that stops it. *)
(* An option is a row of a table: how many parameters it takes and the     *)
(* effects it has on the parser, one table for each stretch of             *)
(* setup_argument_parser.                                                  *)
(***************************************************************************)
EXTENDS Naturals, Sequences, FiniteSets, TLC

CONSTANTS
  Lexeme,       \* argument -> [at, dashes, name, eq, letter, rest, colon, parts]
  Number,       \* the strings parse_number accepts -> their values
  Joined,       \* pieces of a quoted word -> the argument they spell
  Forced,       \* paths that start with = or $SYSROOT -> their path in the sysroot
  Unsupported   \* the environment variable SLD_UNSUPPORTED

(***************************************************************************)
(* Modifiers and inputs.                                                   *)
(***************************************************************************)
DefaultModifiers ==
  [as_needed |-> FALSE, allow_shared |-> TRUE, whole_archive |-> FALSE,
   archive_semantics |-> FALSE, temporary |-> FALSE]

InputOf(kind, name, modifiers) ==
  [kind |-> kind, name |-> name, searchFirst |-> <<>>, modifiers |-> modifiers]

(***************************************************************************)
(* The options before any argument is read.                                *)
(***************************************************************************)
CommonDefaults ==
  [num_threads |-> <<>>, inputs |-> <<>>, file_write_mode |-> <<>>,
   unrecognized_options |-> <<>>, mmap_output_file |-> TRUE,
   incremental |-> FALSE, incremental_padding_percent |-> 0,
   prepopulate_maps |-> FALSE, debug_fuel |-> <<>>, should_fork |-> TRUE,
   demangle |-> TRUE, version_mode |-> "none", validate_output |-> FALSE,
   write_layout |-> FALSE, write_trace |-> FALSE,
   numeric_experiments |-> <<>>, sym_info |-> <<>>,
   time_phase_options |-> <<>>]

\* from_env: the reference-linker variable turns the layout and the trace on.
FromEnv(referenceLinker) ==
  [CommonDefaults EXCEPT !.write_layout = referenceLinker,
                         !.write_trace = referenceLinker]

ElfDefaults ==
  [arch |-> "x86_64", lib_search_path |-> <<>>, output |-> "a.out",
   should_output_executable |-> TRUE, should_output_partial_object |-> FALSE,
   dynamic_linker |-> <<>>, strip |-> "nothing", retain |-> {},
   gc_sections |-> TRUE, merge_sections |-> TRUE,
   copy_relocations |-> "allowed", relocation_model |-> "nonrelocatable",
   version_script_path |-> <<>>, debug_address |-> <<>>,
   should_write_eh_frame_hdr |-> FALSE, write_gc_stats |-> <<>>,
   wrap |-> <<>>, gc_stats_ignore |-> <<>>, verbose_gc_stats |-> FALSE,
   rpath |-> <<>>, soname |-> <<>>, enable_new_dtags |-> TRUE,
   execstack |-> FALSE, needs_origin_handling |-> FALSE,
   needs_nodelete_handling |-> FALSE, should_write_linker_identity |-> TRUE,
   build_id |-> "none", exclude_libs |-> {}, exclude_all |-> FALSE,
   no_undefined |-> <<>>, allow_shlib_undefined |-> FALSE, sysroot |-> <<>>,
   dependency_file |-> <<>>, undefined |-> <<>>, relro |-> TRUE,
   entry |-> <<>>, b_symbolic |-> "none", export_all_dynamic_symbols |-> FALSE,
   export_list |-> <<>>, export_list_path |-> <<>>, defsym |-> <<>>,
   section_start |-> <<>>, ttext |-> <<>>, tdata |-> <<>>, tbss |-> <<>>,
   got_plt_syms |-> FALSE, relax |-> TRUE, hash_style |-> "both",
   trace |-> FALSE, pack_dyn_relocs |-> "none", use_android_relr_tags |-> FALSE,
   unresolved_symbols |-> "report-all", error_unresolved_symbols |-> TRUE,
   allow_multiple_definitions |-> FALSE, z_interpose |-> FALSE,
   z_stack_size |-> <<>>, z_isa |-> <<>>, z_pack_relative_relocs |-> FALSE,
   max_page_size |-> <<>>, auxiliary |-> <<>>, rpath_set |-> <<>>,
   plugin_path |-> <<>>, plugin_args |-> <<>>, experimental_sframe |-> FALSE,
   debug_compression_kind |-> "none"]

Parser0 ==
  [args |-> FromEnv(FALSE) @@ ElfDefaults, stack |-> <<DefaultModifiers>>,
   err |-> "none", exited |-> FALSE]

Failed(p, why) == [p EXCEPT !.err = why]
Top(p) == p.stack[Len(p.stack)]
SetTo(p, field, value) == [p EXCEPT !.args[field] = value]

(***************************************************************************)
(* The effects a handler is made of.                                       *)
(***************************************************************************)
Assign(field, value) == [does |-> "assign", field |-> field, value |-> value]
Take(field) == [does |-> "take", field |-> field]
Push(field) == [does |-> "push", field |-> field]
Once(field) == [does |-> "once", field |-> field]
NumberIn(field) == [does |-> "number", field |-> field]
OneOf(field, table, otherwise) ==
  [does |-> "oneof", field |-> field, table |-> table, otherwise |-> otherwise]
Modify(field, value) == [does |-> "modify", field |-> field, value |-> value]
Do(what) == [does |-> what]

Flag(effects) == [params |-> "none", effects |-> effects]
WithParam(effects) == [params |-> "one", effects |-> effects]
WithOptionalParam(effects) == [params |-> "optional", effects |-> effects]
Named(names, row) == [n \in names |-> row]

\* platform.rs: warn_unsupported; a warning does not change the parser.
WarnUnsupported(p) == IF Unsupported = "error" THEN Failed(p, "unsupported") ELSE p

AddInput(p, kind, name) ==
  [p EXCEPT !.args.inputs = Append(@, InputOf(kind, name, Top(p)))]

(***************************************************************************)
(* Options that are one letter followed at once, or in the next argument,  *)
(* by their value.                                                         *)
(***************************************************************************)
Prefixed(main, subs, subsWithValue) ==
  [main |-> main, subs |-> subs, subsWithValue |-> subsWithValue]

SearchAndLibraryPrefixes ==
  [L |-> Prefixed(<<Do("search_dir")>>, <<>>, <<>>),
   l |-> Prefixed(<<Do("library")>>, <<>>, Named({":filename", "libname"}, <<>>)),
   u |-> Prefixed(<<Push("undefined")>>, <<>>, <<>>),
   m |-> Prefixed(<<Do("unknown_emulation")>>,
           [elf_x86_64 |-> <<Assign("arch", "x86_64")>>,
            elf_x86_64_sol2 |-> <<Do("solaris_linker"), Assign("arch", "x86_64")>>,
            aarch64elf |-> <<Assign("arch", "aarch64")>>,
            aarch64linux |-> <<Assign("arch", "aarch64")>>,
            elf64lriscv |-> <<Assign("arch", "riscv64")>>,
            elf64loongarch |-> <<Assign("arch", "loongarch64")>>], <<>>)]

ZKeywords ==
  Named({"now", "notext", "nostart-stop-gc", "lazy"}, <<>>) @@
  ("origin" :> <<Assign("needs_origin_handling", TRUE)>>) @@
  ("relro" :> <<Assign("relro", TRUE)>>) @@
  ("norelro" :> <<Assign("relro", FALSE)>>) @@
  ("execstack" :> <<Assign("execstack", TRUE)>>) @@
  ("noexecstack" :> <<Assign("execstack", FALSE)>>) @@
  ("nocopyreloc" :> <<Assign("copy_relocations", "flag")>>) @@
  ("nodelete" :> <<Assign("needs_nodelete_handling", TRUE)>>) @@
  ("defs" :> <<Assign("no_undefined", <<TRUE>>)>>) @@
  ("undefs" :> <<Assign("no_undefined", <<FALSE>>)>>) @@
  ("muldefs" :> <<Assign("allow_multiple_definitions", TRUE)>>) @@
  ("interpose" :> <<Assign("z_interpose", TRUE)>>) @@
  ("pack-relative-relocs" :> <<Assign("z_pack_relative_relocs", TRUE)>>) @@
  ("nopack-relative-relocs" :> <<Assign("z_pack_relative_relocs", FALSE)>>) @@
  ("x86-64-baseline" :> <<Assign("z_isa", <<"baseline">>)>>) @@
  ("x86-64-v2" :> <<Assign("z_isa", <<"v2">>)>>) @@
  ("x86-64-v3" :> <<Assign("z_isa", <<"v3">>)>>) @@
  ("x86-64-v4" :> <<Assign("z_isa", <<"v4">>)>>)

PrefixOptions ==
  SearchAndLibraryPrefixes @@
  [z |-> Prefixed(<<Do("unsupported")>>, ZKeywords,
           ("stack-size" :> <<Do("stack_size")>>) @@
           ("max-page-size" :> <<Do("max_page_size")>>)),
   R |-> Prefixed(<<Do("rpath_or_file")>>, <<>>, <<>>),
   O |-> Prefixed(<<>>, <<>>, <<>>),
   o |-> Prefixed(<<Do("output")>>, <<>>, <<>>),
   h |-> Prefixed(<<Take("soname")>>, <<>>, <<>>),
   T |-> Prefixed(<<Do("script")>>, <<>>, <<>>)]

(***************************************************************************)
(* Long options, in the order in which setup_argument_parser declares      *)
(* them.                                                                   *)
(***************************************************************************)
OutputKindOptions ==
  Named({"static", "Bstatic"}, Flag(<<Modify("allow_shared", FALSE)>>)) @@
  ("Bdynamic" :> Flag(<<Modify("allow_shared", TRUE)>>)) @@
  ("output" :> WithParam(<<Do("output")>>)) @@
  ("strip-all" :> Flag(<<Assign("strip", "all")>>)) @@
  ("strip-debug" :> Flag(<<Assign("strip", "debug")>>)) @@
  ("gc-sections" :> Flag(<<Assign("gc_sections", TRUE)>>)) @@
  ("no-gc-sections" :> Flag(<<Assign("gc_sections", FALSE)>>)) @@
  Named({"shared", "Bshareable"},
        Flag(<<Assign("should_output_executable", FALSE)>>)) @@
  Named({"pie", "pic-executable"},
        Flag(<<Assign("relocation_model", "relocatable"),
               Assign("should_output_executable", TRUE)>>)) @@
  ("no-pie" :> Flag(<<Assign("relocation_model", "nonrelocatable"),
                      Assign("should_output_executable", TRUE)>>)) @@
  ("relocatable" :> Flag(<<Assign("should_output_executable", FALSE),
                           Assign("should_output_partial_object", TRUE),
                           Assign("gc_sections", FALSE),
                           Assign("relro", FALSE),
                           Assign("should_write_linker_identity", FALSE),
                           Assign("merge_sections", FALSE)>>)) @@
  ("pack-dyn-relocs" :> WithParam(<<OneOf("pack_dyn_relocs",
       [n \in {"none", "relr", "android", "android+relr"} |-> n], "warn")>>)) @@
  ("help" :> Flag(<<Do("exit")>>))

ProcessOptions ==
  ("version" :> Flag(<<Assign("version_mode", "exit")>>)) @@
  ("demangle" :> Flag(<<Assign("demangle", TRUE)>>)) @@
  ("no-demangle" :> Flag(<<Assign("demangle", FALSE)>>)) @@
  ("time" :> WithOptionalParam(<<Do("time")>>)) @@
  ("dynamic-linker" :> WithParam(<<Take("dynamic_linker")>>)) @@
  ("no-dynamic-linker" :> Flag(<<Assign("dynamic_linker", <<>>)>>)) @@
  ("mmap-output-file" :> Flag(<<Assign("mmap_output_file", TRUE)>>)) @@
  ("no-mmap-output-file" :> Flag(<<Assign("mmap_output_file", FALSE)>>)) @@
  ("incremental" :> Flag(<<Assign("incremental", TRUE)>>)) @@
  ("no-incremental" :> Flag(<<Assign("incremental", FALSE)>>)) @@
  ("incremental-padding-percent" :> WithParam(<<Do("padding")>>)) @@
  ("entry" :> WithParam(<<Take("entry")>>))

ThreadAndStateOptions ==
  ("threads" :> WithOptionalParam(<<Do("threads")>>)) @@
  ("no-threads" :> Flag(<<Assign("num_threads", <<1>>)>>)) @@
  ("sld-experiments" :> WithParam(<<Do("experiments")>>)) @@
  ("as-needed" :> Flag(<<Modify("as_needed", TRUE)>>)) @@
  ("no-as-needed" :> Flag(<<Modify("as_needed", FALSE)>>)) @@
  ("whole-archive" :> Flag(<<Modify("whole_archive", TRUE)>>)) @@
  ("no-whole-archive" :> Flag(<<Modify("whole_archive", FALSE)>>)) @@
  ("push-state" :> Flag(<<Do("push_state")>>)) @@
  ("pop-state" :> Flag(<<Do("pop_state")>>))

ExportAndDebugOptions ==
  ("eh-frame-hdr" :> Flag(<<Assign("should_write_eh_frame_hdr", TRUE)>>)) @@
  ("no-eh-frame-hdr" :> Flag(<<Assign("should_write_eh_frame_hdr", FALSE)>>)) @@
  ("export-dynamic" :> Flag(<<Assign("export_all_dynamic_symbols", TRUE)>>)) @@
  ("no-export-dynamic" :> Flag(<<Assign("export_all_dynamic_symbols", FALSE)>>)) @@
  ("compress-debug-sections" :> WithParam(<<OneOf("debug_compression_kind",
       [n \in {"none", "zlib", "zstd"} |-> n], "fail")>>)) @@
  ("soname" :> WithParam(<<Take("soname")>>)) @@
  ("rpath" :> WithParam(<<Once("rpath_set")>>)) @@
  ("no-string-merge" :> Flag(<<Assign("merge_sections", FALSE)>>)) @@
  ("no-undefined" :> Flag(<<Assign("no_undefined", <<TRUE>>)>>)) @@
  ("allow-multiple-definition" :> Flag(<<Assign("allow_multiple_definitions", TRUE)>>)) @@
  ("relax" :> Flag(<<Assign("relax", TRUE)>>)) @@
  ("no-relax" :> Flag(<<Assign("relax", FALSE)>>)) @@
  ("validate-output" :> Flag(<<Assign("validate_output", TRUE)>>)) @@
  ("write-layout" :> Flag(<<Assign("write_layout", TRUE)>>)) @@
  ("write-trace" :> Flag(<<Assign("write_trace", TRUE)>>))

SymbolicOptions ==
  ("got-plt-syms" :> Flag(<<Assign("got_plt_syms", TRUE)>>)) @@
  ("Bsymbolic" :> Flag(<<Assign("b_symbolic", "all")>>)) @@
  ("Bsymbolic-functions" :> Flag(<<Assign("b_symbolic", "functions")>>)) @@
  ("Bsymbolic-non-weak-functions" :>
     Flag(<<Assign("b_symbolic", "nonweakfunctions")>>)) @@
  ("Bsymbolic-non-weak" :> Flag(<<Assign("b_symbolic", "nonweak")>>)) @@
  ("Bno-symbolic" :> Flag(<<Assign("b_symbolic", "none")>>)) @@
  ("thread-count" :> WithParam(<<Do("threads")>>)) @@
  ("exclude-libs" :> WithParam(<<Do("exclude_libs")>>)) @@
  ("version-script" :> WithParam(<<Take("version_script_path")>>)) @@
  ("script" :> WithParam(<<Do("script")>>))

ListOptions ==
  ("export-dynamic-symbol" :> WithParam(<<Push("export_list")>>)) @@
  ("export-dynamic-symbol-list" :> WithParam(<<Take("export_list_path")>>)) @@
  ("dynamic-list" :> WithParam(<<Assign("b_symbolic", "all"),
                                 Take("export_list_path")>>)) @@
  ("write-gc-stats" :> WithParam(<<Take("write_gc_stats")>>)) @@
  ("gc-stats-ignore" :> WithParam(<<Push("gc_stats_ignore")>>)) @@
  ("no-identity-comment" :> Flag(<<Assign("should_write_linker_identity", FALSE)>>)) @@
  ("debug-address" :> WithParam(<<NumberIn("debug_address")>>)) @@
  ("debug-fuel" :> WithParam(<<NumberIn("debug_fuel"), Assign("num_threads", <<1>>)>>)) @@
  ("unresolved-symbols" :> WithParam(<<OneOf("unresolved_symbols",
       [n \in {"report-all", "ignore-in-shared-libs", "ignore-in-object-files",
               "ignore-all"} |-> n], "fail")>>)) @@
  ("undefined" :> WithParam(<<Push("undefined")>>)) @@
  ("wrap" :> WithParam(<<Push("wrap")>>)) @@
  ("defsym" :> WithParam(<<Do("defsym")>>)) @@
  ("section-start" :> WithParam(<<Do("section_start")>>))

TableOptions ==
  ("hash-style" :> WithParam(<<OneOf("hash_style",
       [n \in {"gnu", "sysv", "both"} |-> n], "fail")>>)) @@
  ("enable-new-dtags" :> Flag(<<Assign("enable_new_dtags", TRUE)>>)) @@
  ("disable-new-dtags" :> Flag(<<Assign("enable_new_dtags", FALSE)>>)) @@
  ("retain-symbols-file" :> WithParam(<<Do("retain_symbols")>>)) @@
  ("build-id" :> WithParam(<<OneOf("build_id",
       ("none" :> "none") @@ Named({"fast", "md5", "sha1"}, "fast") @@
       ("uuid" :> "uuid") @@ ("0xabcd" :> "hex"), "fail")>>)) @@
  ("icf" :> WithParam(<<Do("icf")>>)) @@
  ("sort-section" :> WithParam(<<Do("unsupported")>>)) @@
  ("sysroot" :> WithParam(<<Do("sysroot")>>)) @@
  ("auxiliary" :> WithParam(<<Push("auxiliary")>>))

RemainingOptions ==
  ("plugin-opt" :> WithParam(<<Push("plugin_args")>>)) @@
  ("dependency-file" :> WithParam(<<Take("dependency_file")>>)) @@
  ("trace" :> WithParam(<<Assign("trace", TRUE)>>)) @@
  ("plugin" :> WithParam(<<Take("plugin_path")>>)) @@
  ("rpath-link" :> WithParam(<<>>)) @@
  ("sym-info" :> WithParam(<<Take("sym_info")>>)) @@
  ("start-lib" :> Flag(<<Modify("archive_semantics", TRUE)>>)) @@
  ("end-lib" :> Flag(<<Modify("archive_semantics", FALSE)>>)) @@
  ("no-fork" :> Flag(<<Assign("should_fork", FALSE)>>)) @@
  ("update-in-place" :> Flag(<<Assign("file_write_mode", <<"in_place">>)>>)) @@
  ("no-update-in-place" :> Flag(<<Assign("file_write_mode", <<"replace">>)>>)) @@
  ("EB" :> Flag(<<Do("big_endian")>>)) @@
  ("prepopulate-maps" :> Flag(<<Assign("prepopulate_maps", TRUE)>>)) @@
  ("verbose-gc-stats" :> Flag(<<Assign("verbose_gc_stats", TRUE)>>))

UndefinedAndRelrOptions ==
  ("allow-shlib-undefined" :> Flag(<<Assign("allow_shlib_undefined", TRUE)>>)) @@
  ("no-allow-shlib-undefined" :> Flag(<<Assign("allow_shlib_undefined", FALSE)>>)) @@
  ("error-unresolved-symbols" :> Flag(<<Assign("error_unresolved_symbols", TRUE)>>)) @@
  ("warn-unresolved-symbols" :> Flag(<<Assign("error_unresolved_symbols", FALSE)>>)) @@
  ("use-android-relr-tags" :> Flag(<<Assign("use_android_relr_tags", TRUE)>>)) @@
  ("no-use-android-relr-tags" :> Flag(<<Assign("use_android_relr_tags", FALSE)>>)) @@
  ("sld-experimental-sframe" :> Flag(<<Assign("experimental_sframe", TRUE)>>))

\* Flags that are accepted and do nothing; they are declared last, so one with
\* the name of an option would take its place.
SilentFlags ==
  Named({"start-group", "end-group", "nostdlib", "no-undefined-version",
         "fatal-warnings", "color-diagnostics", "undefined-version",
         "sort-common", "stats", "no-call-graph-profile-sort",
         "no-copy-dt-needed-entries", "no-add-needed", "discard-locals",
         "no-fatal-warnings"}, Flag(<<>>))

Options ==
  SilentFlags @@ OutputKindOptions @@ ProcessOptions @@ ThreadAndStateOptions @@
  ExportAndDebugOptions @@ SymbolicOptions @@ ListOptions @@ TableOptions @@
  RemainingOptions @@ UndefinedAndRelrOptions

ShortOptions ==
  Named({"(", ")", "X", "EL"}, Flag(<<>>)) @@
  [s |-> Options["strip-all"], S |-> Options["strip-debug"],
   r |-> Options["relocatable"], v |-> Flag(<<Assign("version_mode", "verbose")>>),
   e |-> Options["entry"], E |-> Options["export-dynamic"],
   f |-> Options["auxiliary"], t |-> Options["trace"]]

IgnoredFlags ==
  {"gdb-index", "fix-cortex-a53-835769", "fix-cortex-a53-843419", "discard-all", "x"}

(***************************************************************************)
(* The handlers that do more than assign a field.  fs is the file system   *)
(* they read.                                                              *)
(***************************************************************************)
IsFile(fs, path) == path \in DOMAIN fs
PowersOfTwo == {2^e : e \in 0..20}
ForcedIn(path) == IF path \in DOMAIN Forced THEN Forced[path] ELSE path

\* Mutant: the state that is popped stays in force.
PopKeepsInner(p) ==
  LET rest == SubSeq(p.stack, 1, Len(p.stack) - 1)
  IN  IF rest = <<>> THEN Failed(p, "pop-state")
      ELSE [p EXCEPT !.stack = [rest EXCEPT ![Len(rest)] = Top(p)]]

\* Mismatched --pop-state: the stack is popped before it is found empty.
PopState(p) ==
  LET rest == SubSeq(p.stack, 1, Len(p.stack) - 1)
  IN  IF rest = <<>> THEN Failed(p, "pop-state") ELSE [p EXCEPT !.stack = rest]

PushState(p) == [p EXCEPT !.stack = Append(@, Top(p))]

\* Names of libraries are added up to the name ALL, which hides them all.
ExcludeLibs(p, names) ==
  LET all == {i \in DOMAIN names : names[i] = "ALL"}
  IN  IF all # {} \/ p.args.exclude_all
      THEN [p EXCEPT !.args.exclude_all = TRUE, !.args.exclude_libs = {}]
      ELSE [p EXCEPT !.args.exclude_libs = @ \cup ({names[i] : i \in DOMAIN names} \ {""})]

\* -Ttext=A, -Tdata=A and -Tbss=A share the prefix of -T; any other value is a
\* script, which is an input with the default modifiers whatever the stack says.
Script(p, v) ==
  LET x == Lexeme[v]
      start == ("text" :> "ttext") @@ ("data" :> "tdata") @@ ("bss" :> "tbss")
  IN  CASE x.eq = <<>> \/ x.name \notin DOMAIN start ->
             [p EXCEPT !.args.inputs = Append(@, InputOf("file", v, DefaultModifiers))]
        [] x.eq[1] \notin DOMAIN Number -> Failed(p, "number")
        [] OTHER -> SetTo(p, start[x.name], <<Number[x.eq[1]]>>)

\* A directory named before --sysroot is rewritten when the sysroot is known,
\* one named after it when it is added.
Sysroot(p, v) ==
  [p EXCEPT !.args.sysroot = <<v>>,
            !.args.lib_search_path = [i \in DOMAIN @ |-> ForcedIn(@[i])]]

AddSearchDir(p, v) ==
  [p EXCEPT !.args.lib_search_path =
     Append(@, IF p.args.sysroot = <<>> THEN v ELSE ForcedIn(v))]

\* NAME=VALUE options: the text up to the first = and the text after it.
SectionStart(p, v) ==
  LET x == Lexeme[v]
  IN  IF x.eq = <<>> \/ x.eq[1] \notin DOMAIN Number
      THEN Failed(p, "section-start")
      ELSE [p EXCEPT !.args.section_start = (x.name :> Number[x.eq[1]]) @@ @]

Defsym(p, v) ==
  IF Lexeme[v].eq = <<>> THEN Failed(p, "defsym")
  ELSE [p EXCEPT !.args.defsym = Append(@, <<Lexeme[v].name, Lexeme[v].eq[1]>>)]

RetainSymbols(p, v, fs) ==
  IF ~IsFile(fs, v) THEN Failed(p, "read")
  ELSE SetTo(SetTo(p, "strip", "retain"), "retain", fs[v].names)

\* -R names a directory; an existing file is reported as an unknown option.
RpathOrFile(p, v, fs) ==
  IF IsFile(fs, v)
  THEN [p EXCEPT !.args.unrecognized_options = Append(@, v)]
  ELSE [p EXCEPT !.args.rpath_set = IF \E i \in DOMAIN @ : @[i] = v THEN @ ELSE Append(@, v)]

Library(p, v) ==
  IF Lexeme[v].colon # <<>> THEN AddInput(p, "search", Lexeme[v].colon[1])
                            ELSE AddInput(p, "lib", v)

CounterKinds ==
  {"cycles", "instructions", "cache-misses", "branch-misses", "page-faults",
   "page-faults-minor", "page-faults-major", "l1d-read", "l1d-miss"}

TimePhases(p, names) ==
  IF \E i \in DOMAIN names : names[i] \notin CounterKinds THEN Failed(p, "counter")
  ELSE SetTo(p, "time_phase_options", <<names>>)

\* _ keeps the default of an experiment.
Experiments(p, parts) ==
  IF \E i \in DOMAIN parts : parts[i] \notin DOMAIN Number \cup {"_"} THEN Failed(p, "number")
  ELSE SetTo(p, "numeric_experiments", parts)

\* One effect; v is the parameter as an optional value.
Perform(p, e, v, fs) ==
  LET value == v[1]
      number == v # <<>> /\ value \in DOMAIN Number
  IN  CASE p.err # "none" -> p
        [] e.does = "assign" -> SetTo(p, e.field, e.value)
        [] e.does = "take" -> SetTo(p, e.field, v)
        [] e.does = "push" -> SetTo(p, e.field, Append(p.args[e.field], value))
        [] e.does = "once" -> SetTo(p, e.field,
             LET s == p.args[e.field]
             IN  IF \E i \in DOMAIN s : s[i] = value THEN s ELSE Append(s, value))
        [] e.does = "number" -> IF number THEN SetTo(p, e.field, <<Number[value]>>)
                                ELSE Failed(p, "number")
        [] e.does = "oneof" -> IF value \in DOMAIN e.table
                               THEN SetTo(p, e.field, e.table[value])
                               ELSE IF e.otherwise = "warn" THEN WarnUnsupported(p)
                               ELSE Failed(p, "value")
        [] e.does = "modify" -> [p EXCEPT !.stack[Len(p.stack)][e.field] = e.value]
        [] e.does = "push_state" -> PushState(p)
        [] e.does = "pop_state" -> PopState(p)
        [] e.does = "output" -> SetTo(p, "output", value)
        [] e.does = "search_dir" -> AddSearchDir(p, value)
        [] e.does = "library" -> Library(p, value)
        [] e.does = "script" -> Script(p, value)
        [] e.does = "sysroot" -> Sysroot(p, value)
        [] e.does = "exclude_libs" -> ExcludeLibs(p, Lexeme[value].parts)
        [] e.does = "section_start" -> SectionStart(p, value)
        [] e.does = "defsym" -> Defsym(p, value)
        [] e.does = "retain_symbols" -> RetainSymbols(p, value, fs)
        [] e.does = "rpath_or_file" -> RpathOrFile(p, value, fs)
        [] e.does = "stack_size" ->
             IF ~number THEN Failed(p, "number")
             ELSE SetTo(p, "z_stack_size", IF Number[value] = 0 THEN <<>> ELSE <<Number[value]>>)
        [] e.does = "max_page_size" ->
             IF ~number \/ Number[value] \notin PowersOfTwo THEN Failed(p, "number")
             ELSE SetTo(p, "max_page_size", <<Number[value]>>)
        [] e.does = "padding" -> IF number THEN SetTo(p, "incremental_padding_percent", Number[value])
                                 ELSE Failed(p, "number")
        [] e.does = "threads" ->
             IF v = <<>> THEN SetTo(p, "num_threads", <<>>)
             ELSE IF number /\ Number[value] # 0 THEN SetTo(p, "num_threads", <<Number[value]>>)
             ELSE Failed(p, "number")
        [] e.does = "experiments" -> Experiments(p, Lexeme[value].parts)
        [] e.does = "time" -> TimePhases(p, IF v = <<>> THEN <<>> ELSE Lexeme[value].parts)
        [] e.does = "solaris_linker" ->
             IF p.args.dynamic_linker = <<>>
             THEN SetTo(p, "dynamic_linker", <<"/lib/amd64/ld.so.1">>) ELSE p
        [] e.does = "exit" -> [p EXCEPT !.exited = TRUE]
        [] e.does = "icf" -> IF value = "none" THEN p ELSE WarnUnsupported(p)
        [] e.does = "unsupported" -> WarnUnsupported(p)
        [] e.does \in {"unknown_emulation", "big_endian"} -> Failed(p, e.does)

RECURSIVE Handle(_, _, _, _)
Handle(p, effects, v, fs) ==
  IF effects = <<>> THEN p
  ELSE Handle(Perform(p, Head(effects), v, fs), Tail(effects), v, fs)

(***************************************************************************)
(* arguments_from_string: the words of a response file.  The text is a     *)
(* sequence of pieces: a blank, a quote, an escape, or a run of other      *)
(* characters.  A quoted word must be followed by a blank, a quote inside  *)
(* a word is refused, and an empty quoted word is no argument at all.      *)
(***************************************************************************)
Quotes == {"'", "\""}
Blank == " "
WordOf(pieces) == IF Len(pieces) = 1 THEN pieces[1] ELSE Joined[pieces]
NoWord == <<>>

Flush(w) ==
  [w EXCEPT !.out = IF w.heap = NoWord THEN @ ELSE Append(@, WordOf(w.heap)),
            !.heap = NoWord]

RECURSIVE Words(_, _)
Words(w, text) ==
  LET ch == Head(text)
      next == [w EXCEPT !.blankNext = FALSE]
  IN  CASE w.err -> w
        [] w.err = FALSE /\ text = <<>> -> IF w.quote # "" THEN [w EXCEPT !.err = TRUE] ELSE Flush(w)
        [] text # <<>> /\ w.blankNext /\ ch # Blank -> [w EXCEPT !.err = TRUE]
        [] text # <<>> /\ ~(w.blankNext /\ ch # Blank) ->
             CASE ch \in Quotes /\ w.quote = ch ->
                    Words([Flush(next) EXCEPT !.quote = "", !.blankNext = TRUE], Tail(text))
               [] ch \in Quotes /\ w.quote = "" /\ w.heap # NoWord -> [w EXCEPT !.err = TRUE]
               [] ch \in Quotes /\ w.quote = "" /\ w.heap = NoWord ->
                    Words([next EXCEPT !.quote = ch], Tail(text))
               [] ch = Blank /\ w.quote = "" -> Words(Flush(next), Tail(text))
               [] ch = "\\" /\ Len(text) = 1 -> [w EXCEPT !.err = TRUE]
               [] ch = "\\" /\ Len(text) > 1 ->
                    Words([next EXCEPT !.heap = Append(@, text[2])], Tail(Tail(text)))
               [] OTHER -> Words([next EXCEPT !.heap = Append(@, ch)], Tail(text))

ArgumentsFromString(text) ==
  Words([out |-> <<>>, heap |-> NoWord, quote |-> "", blankNext |-> FALSE,
         err |-> FALSE], text)

(***************************************************************************)
(* handle_argument, for the argument argv[i] of an iterator that is at i;  *)
(* the result holds the place the iterator is left at.                     *)
(***************************************************************************)
At(p, i) == [p |-> p, i |-> i]

\* A handler that wants its parameter takes the next argument of the iterator
\* it was found in: a response file's own, not that of the command line.
WithNext(p, row, argv, i, fs) ==
  IF row.params = "one"
  THEN IF i = Len(argv) THEN At(Failed(p, "missing"), i + 1)
       ELSE At(Handle(p, row.effects, <<argv[i + 1]>>, fs), i + 2)
  ELSE At(Handle(p, row.effects, <<>>, fs), i + 1)

\* --name=value: a flag ignores the value, and itself.
WithEquals(p, row, value, fs) ==
  IF row.params = "none" THEN p ELSE Handle(p, row.effects, <<value>>, fs)

\* A prefix option's value is looked up among its keywords, NAME or NAME=.
WithPrefix(p, row, value, fs) ==
  LET x == Lexeme[value]
  IN  CASE x.eq # <<>> /\ x.name \in DOMAIN row.subsWithValue
             /\ row.subsWithValue[x.name] # <<>> ->
               Handle(p, row.subsWithValue[x.name], x.eq, fs)
        [] x.eq = <<>> /\ value \in DOMAIN row.subs -> Handle(p, row.subs[value], <<>>, fs)
        [] x.eq = <<>> /\ value \in DOMAIN row.subsWithValue /\ row.subsWithValue[value] = <<>> ->
               Failed(p, "sub-option")
        [] OTHER -> Handle(p, row.main, <<value>>, fs)

RECURSIVE HandleArguments(_, _, _, _)
HandleArgument(p, argv, i, fs) ==
  LET x == Lexeme[argv[i]]
      long == x.dashes > 0 /\ x.name \in DOMAIN Options
      short == x.dashes = 1 /\ x.eq = <<>> /\ x.name \in DOMAIN ShortOptions
      prefix == x.dashes = 1 /\ x.letter \in DOMAIN PrefixOptions
  IN  CASE x.at # "" ->
             LET words == IF IsFile(fs, x.at) THEN ArgumentsFromString(fs[x.at].text)
                                              ELSE [err |-> TRUE]
             IN  IF words.err THEN At(Failed(p, "response file"), i + 1)
                 ELSE At(HandleArguments(p, words.out, 1, fs), i + 1)
        [] long /\ x.eq # <<>> -> At(WithEquals(p, Options[x.name], x.eq[1], fs), i + 1)
        [] long /\ x.eq = <<>> /\ x.name = "build-id" ->
             At(Handle(p, Options["build-id"].effects, <<"fast">>, fs), i + 1)
        [] long /\ x.eq = <<>> /\ x.name # "build-id" ->
             WithNext(p, Options[x.name], argv, i, fs)
        [] ~long /\ short -> WithNext(p, ShortOptions[x.name], argv, i, fs)
        [] ~long /\ ~short /\ prefix ->
             IF x.rest # "" THEN At(WithPrefix(p, PrefixOptions[x.letter], x.rest, fs), i + 1)
             ELSE IF i = Len(argv) THEN At(Failed(p, "missing"), i + 1)
             ELSE At(WithPrefix(p, PrefixOptions[x.letter], argv[i + 1], fs), i + 2)
        [] ~long /\ ~short /\ ~prefix /\ x.dashes > 0 ->
             At(IF x.eq = <<>> /\ x.name \in IgnoredFlags THEN WarnUnsupported(p)
                ELSE [p EXCEPT !.args.unrecognized_options = Append(@, argv[i])], i + 1)
        [] x.at = "" /\ x.dashes = 0 -> At(AddInput(p, "file", argv[i]), i + 1)

ArgumentsAfter(done, argv, fs) == HandleArguments(done.p, argv, done.i, fs)
HandleArguments(p, argv, i, fs) ==
  IF i > Len(argv) \/ p.err # "none" \/ p.exited THEN p
  ELSE ArgumentsAfter(HandleArgument(p, argv, i, fs), argv, fs)

\* What parse does once the arguments are read.
Conclude(p) ==
  LET a == p.args
      shared == IF a.should_output_executable THEN a.copy_relocations ELSE "shared object"
      done == [p EXCEPT !.args.copy_relocations = shared,
                        !.args.rpath = IF a.rpath_set # <<>> THEN a.rpath_set ELSE @,
                        !.args.rpath_set = <<>>]
  IN  CASE p.err # "none" \/ p.exited -> p
        [] a.unrecognized_options # <<>> -> Failed(done, "unrecognized")
        [] a.auxiliary # <<>> /\ a.should_output_executable -> Failed(done, "auxiliary")
        [] a.pack_dyn_relocs \in {"android", "android+relr"} -> WarnUnsupported(done)
        [] OTHER -> done

\* args.rs: the platform is chosen by -flavor, or by the program's name.
Flavors == ("gnu" :> "elf") @@ ("ld" :> "elf") @@ ("darwin" :> "macho") @@
           ("ld64" :> "macho") @@ ("wasm" :> "wasm") @@ ("ld-wasm" :> "wasm")
Platform(program, argv) ==
  CASE argv # <<>> /\ argv[1] = "-flavor" ->
         IF Len(argv) > 1 /\ argv[2] \in DOMAIN Flavors THEN Flavors[argv[2]] ELSE "error"
    [] program \in {"ld", "ld64", "ld-wasm"} -> Flavors[program]
    [] program = "wasm-ld" -> "wasm"
    [] OTHER -> "elf"

Parse(program, argv, fs) ==
  IF Platform(program, argv) # "elf" THEN Failed(Parser0, "platform")
  ELSE Conclude(HandleArguments(Parser0,
         IF argv # <<>> /\ argv[1] = "-flavor" THEN SubSeq(argv, 3, Len(argv)) ELSE argv,
         1, fs))

(***************************************************************************)
(* What the link reads of the options.                                     *)
(***************************************************************************)
\* Every option that changes the link, and none of the inputs: two command
\* lines with the same value differ at most in their inputs.
IncrementalLinkOptions(a) == [f \in DOMAIN a \ {"inputs"} |-> a[f]]

EntrySymbolName(a, scriptEntry) ==
  (a.entry \o scriptEntry \o <<"_start">>)[1]

StartAddressForSection(a, section) ==
  LET segment == (".text" :> a.ttext) @@ (".data" :> a.tdata) @@ (".bss" :> a.tbss)
  IN  CASE section \in DOMAIN a.section_start -> <<a.section_start[section]>>
        [] section \notin DOMAIN a.section_start /\ section \in DOMAIN segment -> segment[section]
        [] OTHER -> <<>>

SegmentStartOverride(a, segment) ==
  CASE segment = "text" -> a.ttext [] segment = "data" -> a.tdata
    [] segment = "bss" -> a.tbss [] OTHER -> <<>>

ShouldGcSections(a) == a.gc_sections /\ ~a.incremental
ShouldStripDebug(a) == ~a.should_output_partial_object /\ a.strip \in {"all", "debug"}
ShouldStripSymbol(a, name) == a.strip = "retain" /\ name \notin a.retain
ShouldAllowObjectUndefined(a, executable) ==
  IF a.no_undefined = <<>> THEN ~executable ELSE ~a.no_undefined[1]
ShouldExportDynamic(a, lib) == ~(a.exclude_all \/ lib \in a.exclude_libs)
IsRelrEnabled(a) == a.z_pack_relative_relocs \/ a.pack_dyn_relocs \in {"relr", "android+relr"}
LoadableSegmentAlignment(a) ==
  CASE a.max_page_size # <<>> -> a.max_page_size[1]
    [] a.max_page_size = <<>> /\ a.arch \in {"x86_64", "riscv64"} -> 2^12
    [] a.max_page_size = <<>> /\ a.arch \in {"aarch64", "loongarch64"} -> 2^16
=============================================================================
