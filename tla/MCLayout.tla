------------------------------- MODULE MCLayout -------------------------------
(***************************************************************************)
(* Programs for LayoutPhases: one family for each thing that shapes the    *)
(* layout - attributes and addresses of sections, thunks, relaxation.      *)
(***************************************************************************)
EXTENDS LayoutPhases

MCPage == 8

Rec(g, o, part, size, flags, type) ==
  [g |-> g, o |-> o, part |-> part, size |-> size, flags |-> flags, type |-> type, pad |-> "A" \in flags]

Custom(primary, loc) ==
  [flags |-> {}, type |-> "NULL", min |-> 1, primary |-> primary, prio |-> "none", loc |-> loc,
   single |-> FALSE, relro |-> FALSE, seg |-> "none"]

Base(i, custom, secs, groups, objects) ==
  [info |-> i, custom |-> custom, secs |-> secs, groups |-> groups, objects |-> objects,
   syms |-> <<>>, rels |-> <<>>, internal |-> <<>>, must |-> {}, merged |-> 0,
   symbols |-> [g \in 1..groups |-> 1], relro |-> TRUE, partial |-> FALSE, base |-> 16, hash |-> 0,
   padding |-> 0, arch |-> "x86_64"]

\* Attributes of the custom section: read-only, data, NOBITS, TLS, code, debug.
Kinds == {<<{"A"}, "PROGBITS">>, <<{"A", "W"}, "PROGBITS">>, <<{"A", "W"}, "NOBITS">>,
          <<{"A", "W", "T"}, "NOBITS">>, <<{"A", "X"}, "PROGBITS">>, <<{}, "PROGBITS">>}

CustomInfo(loc) == BuiltIn @@ [c |-> Custom("none", loc), i |-> Custom("init_array", -1)]

Symbols == <<[at |-> "start", s |-> "bss", used |-> TRUE, off |-> 0],
             [at |-> "redirect", s |-> 1, used |-> TRUE, off |-> 3],
             [at |-> "end", s |-> "data", used |-> FALSE, off |-> 0]>>

Sectioned ==
  {[Base(CustomInfo(loc), <<"c", "i">>,
         <<Rec(2, 1, <<"rodata", 4>>, 3, {"A"}, "PROGBITS"), Rec(2, 1, <<"text", 2>>, 5, {"A", "X"}, "PROGBITS"),
           Rec(2, 1, <<"c", 4>>, n, k[1], k[2]),
           Rec(2, 2, <<"i", 4>>, 3 - (3 * d) \div 2, {"A", "W"}, "INIT_ARRAY"),
           Rec(3, 3, <<"c", 2>>, 3, k[1], k[2]), Rec(3, 3, <<"init", 1>>, 1, {"A", "X"}, "PROGBITS"),
           Rec(3, 3, <<"data", 8>>, d, {"A", "W"}, "PROGBITS"),
           Rec(3, 3, <<"bss", 2>>, 3, {"A", "W"}, "NOBITS"),
           Rec(3, 3, <<"tdata", 2>>, d \div 2, {"A", "W", "T"}, "PROGBITS")>>, 4, 3)
    EXCEPT !.relro = relro, !.base = base, !.hash = 2 - d, !.padding = IF n = 6 THEN 50 ELSE 0,
           !.internal = Symbols, !.merged = 3, !.partial = (base = 0 /\ ~relro)] :
     loc \in {-1, 130}, k \in Kinds, n \in {0, 6}, d \in {0, 2},
     relro \in BOOLEAN, base \in {0, 16}}

Call(sec, off, sym) == [kind |-> "call", sec |-> sec, off |-> off, sym |-> sym, add |-> 0]
Sym(sec, off) == [sec |-> sec, off |-> off, interposable |-> FALSE]

\* Objects of code in two groups, the last of them in another part; calls from both ends of
\* each to the start of the first, the end of the sixth and the other part.  Sizes that are no
\* multiple of the alignment and padding make capacities that differ from sizes.
Code(z, pad) ==
  [Base(BuiltIn, <<>>,
        [n \in 1..7 |-> Rec(IF n < 4 THEN 2 ELSE 3, IF n = 7 THEN 6 ELSE n,
                            IF n = 7 THEN <<"text", 4>> ELSE Text, z[n], {"A", "X"}, "PROGBITS")], 4, 6)
   EXCEPT !.arch = "aarch64", !.padding = pad,
          !.syms = <<Sym(1, 0), Sym(6, z[6] - 1), Sym(7, 0)>>,
          !.rels = [n \in 1..6 |-> Call(n, 0, 1)] \o [n \in 1..6 |-> Call(n, z[n] - 1, 1)]
                   \o [n \in 1..6 |-> Call(n, 0, 2)] \o <<Call(7, 2, 1), Call(7, 2, 2), Call(2, 0, 3)>>]

Thunked ==
  {Code(z, 0) : z \in {f \in [1..7 -> {4, 17, 18}] : f[3] # f[4] /\ f[7] = 4}}

\* Padded sections: code around the branch range, with sums that miss up to all of the slack.
Padded == {Code([n \in 1..7 |-> z[n % 2]], pad) : z \in [{0, 1} -> {4, 8, 10, 16, 18}], pad \in {1, 25, 100}}

\* A little code, and more of it at a fixed address, within or out of reach.
Far ==
  {[Base(BuiltIn @@ [c |-> Custom("none", loc)], <<"c">>,
         <<Rec(2, 1, Text, z, {"A", "X"}, "PROGBITS"), Rec(3, 2, Text, 5, {"A", "X"}, "PROGBITS"),
           Rec(3, 2, <<"c", 2>>, z, {"A", "X"}, "PROGBITS")>>, 4, 2)
    EXCEPT !.arch = "aarch64", !.padding = pad, !.syms = <<Sym(1, 0), Sym(2, 4), Sym(3, z - 1)>>,
           !.rels = <<Call(1, z - 1, 2), Call(1, 0, 3), Call(2, 0, 3), Call(3, z - 1, 1), Call(3, 0, 2)>>] :
     loc \in {120, 144}, z \in {4, 7}, pad \in {0, 25}}

\* Calls and alignment directives on both sides of a boundary of reach.
Align(sec, off, add) == [kind |-> "align", sec |-> sec, off |-> off, sym |-> 1, add |-> add]
Lui(sec, off, sym) == [kind |-> "lui", sec |-> sec, off |-> off, sym |-> sym, add |-> 0]

Relaxed ==
  {[Base(BuiltIn, <<>>,
         <<Rec(2, 1, Text, 4 + a, {"A", "X"}, "PROGBITS"), Rec(2, 1, <<"rodata", 4>>, 3, {"A"}, "PROGBITS"),
           Rec(2, 2, <<"text", x>>, 10, {"A", "X"}, "PROGBITS"), Rec(3, 3, Text, 8 + b, {"A", "X"}, "PROGBITS")>>, 4, 3)
    EXCEPT !.arch = "riscv64", !.base = base,
           !.syms = <<Sym(1, 4), Sym(3, 9), Sym(4, 4), Sym(2, 1), [Sym(4, 0) EXCEPT !.interposable = TRUE]>>,
           !.rels = <<Call(1, 0, y), Call(3, 0, 3), Align(3, 4, 1), Lui(3, 5, 4), Call(4, 0, 1), Call(4, 4, 2)>>] :
     a \in {0, 3}, b \in {0, 1, 3}, x \in {1, 4}, y \in {2, 5}, base \in {0, 8}}

MCPrograms == Sectioned \cup Thunked \cup Padded \cup Far \cup Relaxed
=============================================================================
