------------------------------ MODULE MCFrontEnd ------------------------------
(***************************************************************************)
(* Small command lines, file systems and scripts for InputLoading.         *)
(***************************************************************************)
EXTENDS InputLoading

(***************************************************************************)
(* Arguments, as the parser sees them.                                     *)
(***************************************************************************)
Plain == [at |-> "", dashes |-> 0, name |-> "", eq |-> <<>>, letter |-> "", rest |-> "",
          colon |-> <<>>, parts |-> <<>>]
Long(n) == [Plain EXCEPT !.dashes = 2, !.name = n]
Single(n, letter, rest) ==
  [Plain EXCEPT !.dashes = 1, !.name = n, !.letter = letter, !.rest = rest]

MCLexeme ==
  [n \in {"a.o", "b.o", "c.o", "ir.o", "libx.a", "libt.a", "bad.a", "s1.ld", "s2.ld", "s3.ld",
          "lay.ld", "dir/libfoo.so", "/r/s.ld", "out", "dir", "foo", "now", "p", "=lib"} |-> Plain] @@
  ("--as-needed" :> Long("as-needed")) @@ ("--no-as-needed" :> Long("no-as-needed")) @@
  ("--whole-archive" :> Long("whole-archive")) @@
  ("--no-whole-archive" :> Long("no-whole-archive")) @@
  ("--start-lib" :> Long("start-lib")) @@ ("--end-lib" :> Long("end-lib")) @@
  ("--push-state" :> Long("push-state")) @@ ("--pop-state" :> Long("pop-state")) @@
  ("--incremental" :> Long("incremental")) @@ ("--no-gc-sections" :> Long("no-gc-sections")) @@
  ("--sysroot=/r" :> [Long("sysroot") EXCEPT !.eq = <<"/r">>]) @@
  ("--version-script=v.map" :> [Long("version-script") EXCEPT !.eq = <<"v.map">>]) @@
  ("--version-script=none" :> [Long("version-script") EXCEPT !.eq = <<"none">>]) @@
  ("--plugin" :> Long("plugin")) @@
  ("@rsp" :> [Plain EXCEPT !.at = "rsp"]) @@
  ("-Bstatic" :> Single("Bstatic", "B", "static")) @@
  ("-Bdynamic" :> Single("Bdynamic", "B", "dynamic")) @@
  ("-o" :> Single("o", "o", "")) @@ ("-znow" :> Single("znow", "z", "now")) @@
  ("-Ldir" :> Single("Ldir", "L", "dir")) @@ ("-T" :> Single("T", "T", "")) @@
  ("-L=lib" :> [Single("L", "L", "=lib") EXCEPT !.eq = <<"lib">>]) @@
  ("-lfoo" :> Single("lfoo", "l", "foo")) @@
  ("-l:libfoo.a" :> Single("l:libfoo.a", "l", ":libfoo.a")) @@
  (":libfoo.a" :> [Plain EXCEPT !.colon = <<"libfoo.a">>])

MCDenotes ==
  [n \in {"a.o", "b.o", "c.o", "ir.o", "libx.a", "libt.a", "bad.a", "s1.ld", "s2.ld", "s3.ld",
          "lay.ld", "dir/libfoo.so", "/r/s.ld"} |-> [kind |-> "file", name |-> n]] @@
  ("-lfoo" :> [kind |-> "lib", name |-> "foo"]) @@
  ("-l:libfoo.a" :> [kind |-> "search", name |-> "libfoo.a"])

MCInDir ==
  [n \in {<<"dir", f>> : f \in {"libfoo.so", "libfoo.a"}} |->
     IF n[2] = "libfoo.so" THEN "dir/libfoo.so" ELSE "dir/libfoo.a"] @@
  (<<"/r/lib", "libfoo.so">> :> "dir/libfoo.so") @@
  [n \in {<<".", f>> : f \in {"a.o", "b.o", "c.o", "s1.ld"}} |-> n[2]]

(***************************************************************************)
(* Files.                                                                  *)
(***************************************************************************)
File(kind) == [kind |-> kind, version |-> 1, symbols |-> 1]
Member(name, kind, skip) == [name |-> name, kind |-> kind, skip |-> skip, symbols |-> 2]
Archive(kind, members) == [kind |-> kind, version |-> 1, members |-> members]
Text(tokens) == [kind |-> "text", version |-> 1, tokens |-> tokens, symbols |-> 0]

Group1 == <<"GROUP", "(", "a.o", "AS_NEEDED", "(", "-lfoo", ")", "b.o", ")">>
Group2 == <<"INPUT", "(", "b.o", "c.o", "s1.ld", ")">>
Missing == <<"INPUT", "(", "c.o", "-lnone", ")">>

Lay ==
  <<"SECTIONS", "{", ".text", ":", "{", "*", "(", ".text.hot", ")", "*", "(", ".text.*", ".text", ")",
    "x", "=", ".", ";", "}", ".mine", ":", "ALIGN", "(", "8", ")", "{",
    "KEEP", "(", "a.o", "(", ".data*", ")", ")", "*", "(", ".text.hot", ".data", ")", "}", "}",
    "y", "=", "8", ";">>
LayMatchers ==
  << [section |-> ".text", file |-> <<>>, patterns |-> <<".text.hot">>],
     [section |-> ".text", file |-> <<>>, patterns |-> <<".text.*", ".text">>],
     [section |-> ".mine", file |-> <<"a.o">>, patterns |-> <<".data*">>],
     [section |-> ".mine", file |-> <<>>, patterns |-> <<".text.hot", ".data">>] >>

RustMap == <<"{", "global:", "sym_a", ";", "sym_b", ";", "local:", "*", ";", "}", ";">>

Disk ==
  [f \in {"a.o", "b.o", "c.o", "t1.o", "gen.o", "/r/a.o"} |-> File("object")] @@
  ("dir/libfoo.so" :> File("dynamic")) @@ ("ir.o" :> File("ir")) @@
  ("dir/libfoo.a" :> Archive("archive", <<Member("m1", "object", FALSE)>>)) @@
  ("libx.a" :> Archive("archive",
     <<Member("lib.rmeta", "unknown", TRUE), Member("m1", "object", FALSE), Member("m2", "ir", FALSE)>>)) @@
  ("bad.a" :> Archive("archive", <<Member("m1", "dynamic", FALSE)>>)) @@
  ("libt.a" :> Archive("thin", <<"t1.o">>)) @@
  ("s1.ld" :> Text(Group1)) @@ ("s2.ld" :> Text(Group2)) @@ ("s3.ld" :> Text(Missing)) @@
  ("/r/s.ld" :> Text(<<"INPUT", "(", "/a.o", "-lfoo", ")">>)) @@
  ("lay.ld" :> Text(Lay)) @@ ("v.map" :> Text(RustMap)) @@
  ("rsp" :> [kind |-> "text", version |-> 1,
              text |-> <<"--start-lib", " ", "'", "c.o", "'", " ", "--end-lib">>])

Wants ==
  ("s1.ld" :> << [name |-> "a.o", as_needed |-> FALSE], [name |-> "-lfoo", as_needed |-> TRUE],
                 [name |-> "b.o", as_needed |-> FALSE] >>) @@
  ("s2.ld" :> << [name |-> "b.o", as_needed |-> FALSE], [name |-> "c.o", as_needed |-> FALSE],
                 [name |-> "s1.ld", as_needed |-> FALSE] >>) @@
  ("s3.ld" :> << [name |-> "c.o", as_needed |-> FALSE], [name |-> "-lnone", as_needed |-> FALSE] >>) @@
  ("/r/s.ld" :> << [name |-> "/a.o", as_needed |-> FALSE], [name |-> "-lfoo", as_needed |-> FALSE] >>) @@
  ("lay.ld" :> <<>>)

MCLibFile == [foo |-> [so |-> "libfoo.so", a |-> "libfoo.a"], none |-> [so |-> "libnone.so", a |-> "libnone.a"]]
MCLibArg == ("-lfoo" :> "foo") @@ ("-lnone" :> "none")
MCDirOf == [s \in {"s1.ld", "s2.ld", "s3.ld", "lay.ld"} |-> "."] @@ ("/r/s.ld" :> "/r")
MCForced == ("=lib" :> "/r/lib")
MCRooted == (<<"/r/s.ld", "/a.o">> :> "/r/a.o")
MCNone == <<>>
MCGenerated == << InputOf("file", "gen.o", [DefaultModifiers EXCEPT !.temporary = TRUE]),
                  InputOf("lib", "foo", [DefaultModifiers EXCEPT !.as_needed = TRUE]) >>

MCTokenNumber == ("0" :> 0) @@ ("1" :> 1) @@ ("8" :> 8)

\* The first unit of a section's name is its first four bytes.
MCSpelling ==
  (".init" :> <<".ini", "t">>) @@ (".fini" :> <<".fin", "i">>) @@
  (".preinit_array" :> <<".pre", "init_array">>) @@ (".comment" :> <<".com", "ment">>) @@
  (".note.ABI-tag" :> <<".not", "e", ".ABI-tag">>) @@
  (".note.gnu.build-id" :> <<".not", "e", ".gnu", ".build-id">>) @@
  (".rodata" :> <<".rod", "ata">>) @@ (".text" :> <<".tex", "t">>) @@
  (".data.rel.ro" :> <<".dat", "a", ".", "rel.ro">>) @@ (".data" :> <<".dat", "a">>) @@
  (".bss" :> <<".bss">>) @@ (".init_array" :> <<".ini", "t", "_array">>) @@
  (".ctors" :> <<".cto", "rs">>) @@ (".fini_array" :> <<".fin", "i", "_array">>) @@
  (".dtors" :> <<".dto", "rs">>) @@ (".tdata" :> <<".tda", "ta">>) @@ (".tbss" :> <<".tbs", "s">>) @@
  (".gcc_except_table" :> <<".gcc", "_except_table">>) @@ (".rela" :> <<".rel", "a">>) @@
  (".crel" :> <<".cre", "l">>) @@ (".note.GNU-stack" :> <<".not", "e", ".GNU-stack">>) @@
  (".strtab" :> <<".str", "tab">>) @@ (".symtab" :> <<".sym", "tab">>) @@
  (".shstrtab" :> <<".shs", "trtab">>) @@ (".group" :> <<".gro", "up">>) @@
  (".eh_frame" :> <<".eh_", "frame">>) @@
  (".note.gnu.property" :> <<".not", "e", ".gnu", ".property">>) @@
  (".riscv.attributes" :> <<".ris", "cv.attributes">>) @@
  (".symtab_shndx" :> <<".sym", "tab", "_shndx">>) @@ (".debug_" :> <<".deb", "ug_">>) @@
  (".text.hot" :> <<".tex", "t", ".", "hot">>) @@ (".text.*" :> <<".tex", "t", ".", "*">>) @@
  (".data*" :> <<".dat", "a", "*">>) @@ (".data.x" :> <<".dat", "a", ".", "x">>) @@
  (".text.cold" :> <<".tex", "t", ".", "cold">>) @@ (".cust" :> <<".cus", "t">>) @@
  ("a.o" :> <<"a", ".", "o">>) @@ ("b.o" :> <<"b", ".", "o">>) @@
  ("sym_a" :> <<"s", "a">>) @@ ("sym_b" :> <<"s", "b">>) @@ ("sym_c" :> <<"s", "c">>) @@
  ("s*" :> <<"s", "*">>) @@ ("*" :> <<"*">>)

(***************************************************************************)
(* Settings: two links of one command line, or of two.                     *)
(***************************************************************************)
In(commands, editable, count) ==
  [disk |-> Disk, commands |-> commands, editable |-> editable, edits |-> count,
   words |-> ("@rsp" :> <<"--start-lib", "c.o", "--end-lib">>), wants |-> Wants,
   matchers |-> <<>>, symbols |-> <<>>, versions |-> {}, names |-> {}, probes |-> {}]

\* Scripts that name the same files, files of scripts that are on the command
\* line too, and scripts that ask for what is not there.
Orders ==
  { In(<< <<"-Ldir", "-o", "out", "s1.ld", "--as-needed", "b.o", "s2.ld", "-znow">> >>, {}, 0),
    In(<< <<"-Ldir", "s2.ld", "--whole-archive", "s1.ld", "libx.a">> >>, {}, 0),
    In(<< <<"-Ldir", "s1.ld", "s3.ld", "bad.a">> >>, {}, 0),
    In(<< <<"-Bstatic", "-Ldir", "s1.ld", "bad.a">> >>, {}, 0),
    In(<< <<"-lfoo">> >>, {}, 0),
    In(<< <<"--pop-state", "a.o">> >>, {}, 0),
    In(<< <<"-Ldir", "--push-state", "--whole-archive", "libx.a", "-Bstatic", "--push-state",
            "--as-needed", "-lfoo", "--pop-state", "a.o", "--pop-state", "b.o", "@rsp",
            "libt.a", "a.o">> >>, {"t1.o"}, 1),
    In(<< <<"--plugin", "p", "-Ldir", "ir.o", "s2.ld", "libx.a", "-l:libfoo.a", "ir.o">> >>, {}, 0),
    In(<< <<"ir.o", "a.o">> >>, {}, 0),
    In(<< <<"a.o", "-Bstatic", "dir/libfoo.so">> >>, {}, 0),
    In(<< <<"--version-script=none", "a.o">> >>, {}, 0),
    In(<< <<"-L=lib", "--sysroot=/r", "-lfoo", "/r/s.ld">> >>, {}, 0),
    In(<< <<"--sysroot=/r", "-L=lib", "/r/s.ld", "-lfoo">> >>, {}, 0) }

\* The same command line again, or one with another option, another file or
\* another order; a file may change at any time.
Inc(rest) == <<"--incremental", "-Ldir">> \o rest
Relinks ==
  { In(<<Inc(<<"a.o", "-lfoo">>), Inc(<<"a.o", "-lfoo">>)>>, {"a.o", "dir/libfoo.so"}, 1),
    In(<<Inc(<<"s2.ld">>), Inc(<<"s2.ld">>)>>, {"c.o"}, 1),
    In(<<Inc(<<"a.o", "b.o">>), Inc(<<"b.o", "a.o">>), Inc(<<"b.o", "a.o">>)>>, {}, 0),
    In(<<Inc(<<"a.o", "b.o">>), Inc(<<"a.o", "--no-gc-sections", "b.o">>)>>, {}, 0),
    In(<<Inc(<<"a.o", "b.o">>), Inc(<<"a.o", "b.o", "c.o">>)>>, {"b.o"}, 1),
    In(<<Inc(<<"a.o", "b.o", "a.o">>), Inc(<<"a.o", "a.o", "b.o">>)>>, {"a.o"}, 1) }

Layouts ==
  { [In(<< <<"-T", "lay.ld", "a.o", "--version-script=v.map">> >>, {}, 0) EXCEPT
       !.matchers = LayMatchers, !.symbols = <<"x", "y">>,
       !.probes = {".text", ".text.hot", ".text.cold", ".data", ".data.x", ".cust", ".bss"}
                    \X {"a.o", "b.o"},
       !.versions = {RustMap, <<"{", "global:", "sym_a", ";", "s*", ";", "local:", "*", ";", "}", ";">>,
                     <<"{", "sym_a", ";", "local:", "*", ";", "global:", "sym_c", ";", "}", ";">>},
       !.names = {"sym_a", "sym_b", "sym_c"}] }

MCSettings == Orders \cup Relinks \cup Layouts

\* The second command line names the same files with other modifiers.
ModifierChanges ==
  { In(<<Inc(<<"a.o", "-l:libfoo.a">>), Inc(<<"a.o", "--whole-archive", "-l:libfoo.a">>)>>, {}, 0) }
=============================================================================
