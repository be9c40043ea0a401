--------------------------- MODULE MCOutputTables ---------------------------
(***************************************************************************)
(* Small links for TableWriter: shared objects with version scripts,       *)
(* executables that copy data out of versioned shared objects, partial and *)
(* static links, and links that fail.                                      *)
(***************************************************************************)
EXTENDS TableWriter, UnwindInfo

\* A symbol: of a regular object unless a file below says otherwise.
\*   ver, dflt   version in its name, and whether it is the default one
\*   matched     the version the script gives it (1: none)
\*   want        "yes" when it is exported or used, "copy" when it is copied
\*   v, addr     version index and address in its shared object
Plain == [name |-> "", ver |-> "none", dflt |-> TRUE, matched |-> 1, canon |-> TRUE, want |-> "no",
          bind |-> "global", hidden |-> FALSE, down |-> FALSE, place |-> "section", sec |-> "text",
          type |-> "func", target |-> "", strip |-> FALSE, v |-> 1, addr |-> 0, weak |-> FALSE]

Sym(name) == [Plain EXCEPT !.name = name]
Exp(name) == [Sym(name) EXCEPT !.want = "yes"]
At(name, ver, dflt) == [Exp(name) EXCEPT !.ver = ver, !.dflt = dflt]
Matched(name, i) == [Exp(name) EXCEPT !.matched = i]
Loc(name) == [Sym(name) EXCEPT !.bind = "local"]
Undef(name) == [Sym(name) EXCEPT !.place = "undefined", !.type = "none"]
Lib(name, v, addr, want) ==
  [Sym(name) EXCEPT !.v = v, !.addr = addr, !.want = want, !.type = "object"]
Secsym(sec) == [Loc("") EXCEPT !.type = "section", !.sec = sec]
Defsym(name, target) == [Sym(name) EXCEPT !.place = "redirect", !.target = target, !.want = "yes"]

File(kind, syms) == [kind |-> kind, syms |-> syms]
Prelude(syms) == File("prelude", syms)
Object(syms) == File("object", syms)
Script(syms) == File("script", syms)
Dynamic(lib, verdefs, syms) == [kind |-> "dynamic", lib |-> lib, verdefs |-> verdefs, syms |-> syms]
Epilogue == File("epilogue", <<>>)

Ver(name) == [name |-> name, base |-> FALSE]
Base(name) == [name |-> name, base |-> TRUE]
Defined(name, parent) == [name |-> name, parent |-> parent]

Link0 == [kind |-> "shared", hash |-> "both", versions |-> <<>>, soname |-> FALSE, rpath |-> FALSE,
          auxiliary |-> <<>>, newDtags |-> TRUE, relr |-> FALSE, android |-> FALSE, stripAll |-> FALSE,
          partial |-> FALSE, sections |-> <<>>, output |-> "out", origin |-> FALSE, nodelete |-> FALSE,
          staticTls |-> FALSE, data |-> [s \in {} |-> 0], groups |-> <<>>]

MCNames ==
  [a |-> [gnu |-> 5 + 64 * 9, elf |-> 2, rank |-> 1],
   b |-> [gnu |-> 6 + 64 * 9, elf |-> 4, rank |-> 2],
   c |-> [gnu |-> 7 + 64 * 3, elf |-> 3, rank |-> 3],
   d |-> [gnu |-> 5 + 64 * 11, elf |-> 6, rank |-> 4],
   e |-> [gnu |-> 4 + 64 * 9, elf |-> 0, rank |-> 5],
   z |-> [gnu |-> 5 + 64 * 3, elf |-> 2, rank |-> 6]]

LibC(used) ==
  Dynamic("libc", <<Base("libc"), Ver("G1"), Ver("G2"), Ver("GLIBC_ABI_DT_RELR")>>,
          <<Lib("GLIBC_ABI_DT_RELR", 4, 99, "no")>> \o used)
LibM(used) == Dynamic("libm", <<Base("libm"), Ver("M1"), Ver("M2")>>, used)
LibOld(used) == Dynamic("libold", <<>>, used)

Common(name) == [Exp(name) EXCEPT !.place = "common", !.type = "object"]
Tls(name) == [Exp(name) EXCEPT !.type = "tls", !.sec = "tdata"]
Abs(name) == [Exp(name) EXCEPT !.place = "absolute", !.type = "none"]
Ifunc(name) == [Exp(name) EXCEPT !.type = "ifunc"]

Scripted == <<Defined("", 0), Defined("V1", 0), Defined("V2", 2)>>

\* A version script, names with versions of their own, two versions of a name.
VersionedLibrary ==
  {[Link0 EXCEPT !.versions = Scripted, !.hash = h, !.soname = s, !.rpath = TRUE,
      !.groups = <<<<Prelude(<<[Sym("_start") EXCEPT !.hidden = TRUE, !.want = "yes"]>>)>>,
                   <<Object(<<At("a", "V1", FALSE), At("a", "V2", TRUE), Loc("x")>>)>>,
                   <<Object(<<Matched("b", 3), Exp("c"), [Exp("d") EXCEPT !.down = TRUE]>>),
                     LibC(<<Lib("e", 3, 1, "yes")>>)>>,
                   <<Epilogue>>>>] : h \in {"gnu", "sysv", "both"}, s \in BOOLEAN}

\* Every definition in few buckets, exported in any order; no versions at all.
PlainLibrary ==
  {[Link0 EXCEPT !.hash = h, !.soname = TRUE, !.stripAll = st, !.nodelete = TRUE, !.newDtags = ~st,
      !.auxiliary = <<"AUXILIARY">>, !.data = [init_array |-> 8, relative |-> 2, relr |-> 1],
      !.groups = <<<<Prelude(<<>>)>>,
                   <<Object(<<Exp("a"), Tls("b"), Common("c")>>), Object(<<Exp("d"), Abs("e")>>)>>,
                   <<Epilogue>>>>] : h \in {"gnu", "sysv", "both"}, st \in BOOLEAN}

\* Exported symbols of a linker script and --defsym symbols, without versions.
ScriptedLibrary ==
  {[Link0 EXCEPT !.kind = k,
      !.groups = <<<<Prelude(<<Defsym("a", t)>>)>>, <<Object(<<Exp("b"), Undef("z")>>)>>,
                   <<Script(<<[Exp("c") EXCEPT !.sec = "data", !.type = "none"],
                              [Exp("d") EXCEPT !.hidden = TRUE, !.place = "absolute", !.type = "none"]>>)>>,
                   <<Epilogue>>>>] : k \in {"shared", "pie"}, t \in {"b", "c", "missing"}}

\* Data copied from two shared objects under strong and weak names, versions of
\* both, a third object without versions.
CopyingExecutable ==
  {[Link0 EXCEPT !.kind = k, !.relr = r, !.staticTls = TRUE, !.data = [relr |-> IF r THEN 1 ELSE 0, general |-> 1],
      !.groups = <<<<Prelude(<<>>)>>, <<Object(<<Ifunc("c")>>)>>,
                   <<LibC(<<[Lib("a", v, 1, "copy") EXCEPT !.weak = TRUE], Lib("b", 3, 1, "no"), Lib("d", 2, 2, want)>>)>>,
                   <<LibM(<<Lib("e", 5 - v, 1, "yes")>>), LibOld(<<Lib("z", 1, 1, "yes")>>)>>,
                   <<Epilogue>>>>] :
     k \in {"pie", "exec"}, r \in BOOLEAN, v \in {2, 3}, want \in {"no", "yes", "copy"}}

\* A partial link: relocations use the symbol indexes.
PartialLink ==
  {[Link0 EXCEPT !.kind = "relocatable", !.partial = TRUE, !.sections = <<"text", "data">>, !.stripAll = st,
      !.groups = <<<<Prelude(<<>>)>>, <<Object(<<Loc("x"), Secsym("data"), Undef("u"), Sym("a"), [Sym("y") EXCEPT !.strip = TRUE]>>)>>,
                   <<Object(<<Loc("w"), Undef("z"), [Sym("b") EXCEPT !.down = TRUE]>>),
                     Object(<<Sym("c"), [Sym("a") EXCEPT !.canon = FALSE]>>)>>,
                   <<Epilogue>>>>] : st \in {FALSE}}

\* A static executable has debug symbols only; an export that names a version
\* the script does not define fails the link.
OtherLinks ==
  {[Link0 EXCEPT !.kind = "static", !.stripAll = st,
      !.groups = <<<<Prelude(<<[Sym("end") EXCEPT !.want = "yes"]>>)>>, <<Object(<<Loc("x"), Exp("a")>>)>>, <<Epilogue>>>>] :
     st \in BOOLEAN}
  \cup {[Link0 EXCEPT !.versions = Scripted,
          !.groups = <<<<Prelude(<<>>)>>, <<Object(<<At("a", "V9", TRUE), At("b", "", TRUE)>>)>>, <<Epilogue>>>>]}
  \cup {[Link0 EXCEPT !.versions = <<Defined("", 0)>>, !.hash = "gnu",
          !.groups = <<<<Prelude(<<>>)>>, <<Object(<<At("a", "V1", TRUE)>>)>>, <<LibM(<<Lib("b", 2, 1, "yes")>>)>>, <<Epilogue>>>>]}
  \cup {[Link0 EXCEPT !.hash = "both", !.groups = <<<<Prelude(<<>>)>>, <<Object(<<Sym("a")>>)>>, <<Epilogue>>>>]}

MCLinks == VersionedLibrary \cup PlainLibrary \cup ScriptedLibrary \cup CopyingExecutable \cup PartialLink \cup OtherLinks

-----------------------------------------------------------------------------
(* Mach-O links *)

NSymbol(name, sec, off) ==
  [name |-> name, sec |-> sec, off |-> off, alt |-> FALSE, nds |-> FALSE, local |-> FALSE, hidden |-> FALSE]
Local(name, sec, off) == [NSymbol(name, sec, off) EXCEPT !.local = TRUE]
Hidden(name, sec, off) == [NSymbol(name, sec, off) EXCEPT !.hidden = TRUE]
Import(name) == NSymbol(name, 0, 0)

Rel(type, off, sym) == [type |-> type, off |-> off, sym |-> sym, ext |-> TRUE, add |-> 0]
Ptr(off, sym) == Rel("unsigned", off, sym)
SecPtr(off, sec, add) == [Rel("unsigned", off, sec) EXCEPT !.ext = FALSE, !.add = add]
\* A field of __eh_frame relative to itself, counted from a label at offset base.
Self(off, sym, label, base) == <<Rel("subtractor", off, label), [Ptr(off, sym) EXCEPT !.add = base - off]>>

Section(name, size, rels) == [name |-> name, size |-> size, retain |-> FALSE, rels |-> rels]
Cie(start, size) == [start |-> start, size |-> size, ptr |-> 0, len |-> 0]
Fde(start, size, ptr, len) == [start |-> start, size |-> size, ptr |-> ptr, len |-> len]
Unwind(len, enc) == [len |-> len, enc |-> enc]

\* main calls helper, which has a frame description; tail is reached through __const;
\* dead and its description are not reached.  Sections: text, const, data, except,
\* compact, eh.
Program(dwarf, common) ==
  [subs |-> TRUE,
   syms |-> <<NSymbol("main", 1, 0), Local("dead", 1, 2), Local("helper", 1, 3), NSymbol("tail", 1, 6),
              Local("c0", 2, 0), Local("c1", 2, 1), Local("c2", 2, 4), Local("d", 3, 0),
              Local("lsda1", 4, 0), Local("lsda2", 4, 1), Import("puts"), Import("personality"),
              Local("frames", 6, 0), Import("msg$a"), Hidden("shared", 2, 6)>>,
   secs |-> <<Section("text", 8, <<Rel("branch", 0, 3), Rel("got_load", 1, 8), Rel("branch", 2, 14),
                                   Rel("branch", 3, 11), Rel("got_load", 4, IF common THEN 15 ELSE 4)>>),
              Section("const", 7, <<Ptr(0, 8), Ptr(1, 2), Ptr(2, 11), Ptr(4, 4), Ptr(5, 9), Ptr(6, 11)>>),
              Section("data", 3, <<Ptr(0, 7), Ptr(1, 11), [Ptr(2, 3) EXCEPT !.add = 1]>>),
              Section("except", 2, <<>>),
              Section("compact", 16, <<SecPtr(0, 1, 0), Ptr(2, 12), Ptr(3, 9), Ptr(4, 2), Ptr(8, 3), Ptr(12, 4)>>),
              Section("eh", 8, Self(3, 2, 13, 0) \o <<Rel("pointer_to_got", 1, 12)>> \o Self(5, 3, 13, 0) \o Self(6, 10, 13, 0))>>,
   compact |-> <<Unwind(2, "frame"), Unwind(1, "frameless"), Unwind(2, IF dwarf THEN "dwarf" ELSE "frame"), Unwind(2, "frameless")>>,
   frames |-> <<Cie(0, 2), Fde(2, 2, 2, 1), Fde(4, 3, 4, 2)>>]

\* A second object: functions with frames only, a thread-local variable, a function
\* that may not be stripped, an alternative entry.  Sections: text, tvars, tdata, eh.
Library ==
  [subs |-> TRUE,
   syms |-> <<NSymbol("tail", 1, 0), [NSymbol("keep", 1, 1) EXCEPT !.nds = TRUE], [NSymbol("alt", 1, 2) EXCEPT !.alt = TRUE],
              Local("var", 2, 0), Local("var_init", 3, 1), Import("tlv_bootstrap"), Local("frames", 4, 0),
              Import("msg$b"), NSymbol("extra", 1, 3), Import("puts")>>,
   secs |-> <<Section("text", 5, <<Rel("branch", 0, 8), Rel("tlv", 2, 4), Rel("branch", 3, 10)>>),
              Section("tvars", 3, <<Ptr(0, 6), Ptr(2, 5)>>),
              Section("tdata", 2, <<>>),
              Section("eh", 8, Self(2, 1, 7, 0) \o Self(4, 2, 7, 0) \o Self(6, 9, 7, 0))>>,
   compact |-> <<>>,
   frames |-> <<Cie(0, 1), Fde(1, 2, 1, 1), Fde(3, 2, 3, 2), Fde(5, 2, 5, 1)>>]

\* An object without subsections, with two more personalities; the last function has
\* none of it.  Sections: text, data, compact.
Plugin(n) ==
  [subs |-> FALSE,
   syms |-> <<NSymbol("plug", 1, 0), Import("p2"), Import("p3"), Import("p4"), NSymbol("slot", 2, 0), Import("msg$a"), Import("msg$b")>>,
   secs |-> <<Section("text", 4, <<Rel("branch", 0, 6), Rel("branch", 1, 7)>>), Section("data", 5, <<Ptr(0, 1), Ptr(4, 6)>>),
              Section("compact", 4 * n, [i \in 1..2 * n |-> IF i % 2 = 1 THEN SecPtr(2 * i - 2, 1, (i - 1) \div 2)
                                                           ELSE Ptr(2 * i - 2, i \div 2 + 1)])>>,
   compact |-> [i \in 1..n |-> Unwind(1, "frame")], frames |-> <<>>]

MachBase ==
  [objs |-> <<>>, roots |-> {}, strip |-> TRUE, exec |-> TRUE, dylibs |-> <<"libSystem", "libobjc", "libc++">>,
   stems |-> ("msg$a" :> "msg" @@ "msg$b" :> "msg"),
   family |-> [puts |-> "none", msg |-> "libobjc", personality |-> "libc++", tlv_bootstrap |-> "none",
               p2 |-> "none", p3 |-> "none", p4 |-> "none"],
   ordinals |-> [p2 |-> 3],
   from |-> [puts |-> "libSystem", msg |-> "libobjc", personality |-> "libc++", tlv_bootstrap |-> "libSystem",
             p2 |-> "libc++", p3 |-> "libSystem", p4 |-> "libSystem"]]

MCMachLinks ==
  {[MachBase EXCEPT !.objs = <<Program(d, h)>>, !.roots = r, !.strip = s, !.exec = x] :
     d, h, s, x \in BOOLEAN, r \in {{<<1, 1>>}, {<<1, 1>>, <<1, 4>>}}}
  \cup {[MachBase EXCEPT !.objs = <<Program(TRUE, TRUE), Library>>, !.roots = r, !.strip = s] :
          s \in BOOLEAN, r \in {{<<1, 1>>}, {<<1, 1>>, <<2, 9>>}, {<<1, 4>>, <<2, 3>>}}}
  \cup {[MachBase EXCEPT !.objs = <<Library, Plugin(n)>>, !.roots = {<<2, 1>>, <<1, 9>>, <<2, 5>>}, !.strip = s] :
          s \in BOOLEAN, n \in {2, 3, 4}}

-----------------------------------------------------------------------------
\* A link is for one of the two formats; the other's state stays as it is.
ElfIdle == /\ link = Link0 /\ phase = "idle" /\ pending = {} /\ exports = {} /\ shared = {} /\ copied = {}
           /\ order = <<>> /\ sizes = {} /\ lay = {} /\ todo = {} /\ out = {}
MachIdle == /\ mlink = MachBase /\ mphase = "idle" /\ graph = NewGraph /\ deltas = << >> /\ place = << >>
            /\ fix = << >> /\ mtodo = {} /\ image = << >> /\ table = << >>

Init == \/ ElfInit /\ MachIdle
        \/ MachInit /\ ElfIdle

Done == (phase \in {"done", "failed"} \/ mphase \in {"done", "failed"}) /\ UNCHANGED <<elfVars, machVars>>

Next ==
  \/ phase # "idle" /\ ElfNext /\ UNCHANGED machVars
  \/ mphase # "idle" /\ MachNext /\ UNCHANGED elfVars
  \/ Done

Spec == Init /\ [][Next]_<<elfVars, machVars>>
=============================================================================
