------------------------------- MODULE Scripts -------------------------------
(***************************************************************************)
(* The languages libsld reads besides objects: linker scripts              *)
(* (linker_script.rs), the expressions in them (expression_eval.rs), the   *)
(* rules that map input sections to output sections (layout_rules.rs),     *)
(* version scripts (version_script.rs), export lists (export_list.rs) and  *)
(* the glob patterns they share (glob_match.rs).                           *)
(*                                                                         *)
(* A script is a sequence of tokens: comments and blanks are gone.  A name *)
(* that can be matched by a pattern is a sequence of characters.  A parser *)
(* takes the tokens and a place and returns [ok, i, val].                  *)
(***************************************************************************)
EXTENDS Integers, Sequences, FiniteSets, TLC, Bitwise

CONSTANTS
  TokenNumber,  \* number tokens (suffix included) -> their values
  WordBits,     \* the width of a u64, small
  Spelling,     \* names and patterns -> their characters
  Quoted,       \* the patterns written in quotes
  Demangled     \* C++ symbol names -> what they demangle to, spelled

Good(i, val) == [ok |-> TRUE, i |-> i, val |-> val]
Bad == [ok |-> FALSE, i |-> 0, val |-> <<>>]

\* One item before the others of a list.
Prepend(x, rest) == IF rest.ok THEN Good(rest.i, <<x>> \o rest.val) ELSE Bad

TokenAt(t, i) == IF i \in DOMAIN t THEN t[i] ELSE "end"
Is(t, i, token) == TokenAt(t, i) = token

(***************************************************************************)
(* Glob patterns.  glob_match.rs sorts a pattern into one of four kinds;   *)
(* matching a compiled pattern is the glob crate's.                        *)
(***************************************************************************)
RECURSIVE AnalyzeFrom(_, _)
AnalyzeFrom(pattern, kind) ==
  CASE pattern = <<>> -> kind
    [] pattern # <<>> /\ Head(pattern) = "\\" ->
         AnalyzeFrom(SubSeq(pattern, 3, Len(pattern)),
                     IF kind = "exact" THEN "escaped" ELSE kind)
    [] pattern # <<>> /\ Head(pattern) = "*" -> "star"
    [] pattern # <<>> /\ Head(pattern) \in {"[", "]", "?"} ->
         AnalyzeFrom(Tail(pattern), "nonstar")
    [] OTHER -> AnalyzeFrom(Tail(pattern), kind)

AnalyzeGlobPattern(pattern) == AnalyzeFrom(pattern, "exact")

\* A backslash stands for the character after it; one at the end for itself.
RECURSIVE UnescapePattern(_)
UnescapePattern(pattern) ==
  CASE Len(pattern) < 2 -> pattern
    [] Len(pattern) >= 2 /\ Head(pattern) = "\\" ->
         <<pattern[2]>> \o UnescapePattern(SubSeq(pattern, 3, Len(pattern)))
    [] OTHER -> <<Head(pattern)>> \o UnescapePattern(Tail(pattern))

RECURSIVE GlobMatches(_, _)
GlobMatches(pattern, name) ==
  CASE pattern = <<>> -> name = <<>>
    [] pattern # <<>> /\ Head(pattern) = "*" ->
         \E k \in 0..Len(name) : GlobMatches(Tail(pattern), SubSeq(name, k + 1, Len(name)))
    [] OTHER -> /\ name # <<>>
                /\ Head(pattern) \in {"?", Head(name)}
                /\ GlobMatches(Tail(pattern), Tail(name))

(***************************************************************************)
(* Expressions: nine levels of binary operators, loosest first, then the   *)
(* unary ones and the primaries.  Comparisons bind more loosely than the   *)
(* bitwise operators and do not chain; all other levels associate to the   *)
(* left.                                                                   *)
(***************************************************************************)
LogicalLevels == << {"||"}, {"&&"} >>
ComparisonLevel == << {"<=", ">=", "==", "!=", "<", ">"} >>
BitwiseLevels == << {"|"}, {"^"}, {"&"} >>
ShiftLevel == << {"<<", ">>"} >>
ArithmeticLevels == << {"+", "-"}, {"*", "/"} >>
Levels == LogicalLevels \o ComparisonLevel \o BitwiseLevels \o ShiftLevel \o ArithmeticLevels
Comparison == Len(LogicalLevels) + 1

Binary(op, l, r) == [op |-> op, l |-> l, r |-> r]
UnaryOps == {"!", "~", "-"}
SectionFunctions == {"SIZEOF", "ALIGNOF", "ADDR", "ORIGIN", "LENGTH", "LOADADDR"}
IsIdentifier(token) ==
  token \notin DOMAIN TokenNumber \cup UNION {Levels[n] : n \in DOMAIN Levels} \cup UnaryOps
               \cup {"(", ")", "{", "}", ",", ";", ":", "=", "end"}

RECURSIVE ParseLevel(_, _, _)
ParseExpression(t, i) == ParseLevel(1, t, i)

\* while let Some(op): the operators of one level, left to right.
RECURSIVE Climb(_, _, _)
Climb(n, t, left) ==
  IF ~left.ok \/ TokenAt(t, left.i) \notin Levels[n] THEN left
  ELSE LET right == ParseLevel(n + 1, t, left.i + 1)
           both == Good(right.i, Binary(t[left.i], left.val, right.val))
       IN  IF ~right.ok THEN Bad ELSE IF n = Comparison THEN both ELSE Climb(n, t, both)

\* delimited('(', parse_expression, ')')
Parenthesised(t, i) ==
  LET e == ParseExpression(t, i + 1)
  IN  IF e.ok /\ Is(t, e.i, ")") THEN Good(e.i + 1, e.val) ELSE Bad

TwoExpressions(f, t, i) ==
  LET a == ParseExpression(t, i)
      b == ParseExpression(t, a.i + 1)
  IN  IF a.ok /\ Is(t, a.i, ",") /\ b.ok /\ Is(t, b.i, ")")
      THEN Good(b.i + 1, [call |-> f, l |-> a.val, r |-> b.val]) ELSE Bad

\* SEGMENT_START("name", default)
SegmentStartCall(t, i) ==
  LET e == ParseExpression(t, i + 2)
  IN  IF Is(t, i + 1, ",") /\ e.ok /\ Is(t, e.i, ")")
      THEN Good(e.i + 1, [segment |-> TokenAt(t, i), default |-> e.val]) ELSE Bad

\* An identifier: a symbol, the location counter, or a function that is known.
IdentifierOrFunction(t, i) ==
  LET f == TokenAt(t, i)
  IN  CASE f = "." -> Good(i + 1, [dot |-> TRUE])
        [] f # "." /\ ~Is(t, i + 1, "(") -> Good(i + 1, [sym |-> f])
        [] Is(t, i + 1, "(") /\ f \in SectionFunctions ->
             IF IsIdentifier(TokenAt(t, i + 2)) /\ Is(t, i + 3, ")")
             THEN Good(i + 4, [fn |-> f, arg |-> t[i + 2]]) ELSE Bad
        [] Is(t, i + 1, "(") /\ f = "ALIGN" ->
             LET e == Parenthesised(t, i + 1)
             IN  IF e.ok THEN Good(e.i, [align |-> e.val]) ELSE Bad
        [] Is(t, i + 1, "(") /\ f \in {"MIN", "MAX"} -> TwoExpressions(f, t, i + 2)
        [] Is(t, i + 1, "(") /\ f = "SEGMENT_START" -> SegmentStartCall(t, i + 2)
        [] OTHER -> Bad

Primary(t, i) ==
  CASE Is(t, i, "(") -> Parenthesised(t, i)
    [] TokenAt(t, i) \in DOMAIN TokenNumber -> Good(i + 1, [num |-> TokenNumber[t[i]]])
    [] IsIdentifier(TokenAt(t, i)) -> IdentifierOrFunction(t, i)
    [] OTHER -> Bad

RECURSIVE Unary(_, _)
Unary(t, i) ==
  IF TokenAt(t, i) \notin UnaryOps THEN Primary(t, i)
  ELSE LET e == Unary(t, i + 1)
       IN  IF e.ok THEN Good(e.i, [un |-> t[i], e |-> e.val]) ELSE Bad

ParseLevel(n, t, i) ==
  IF n > Len(Levels) THEN Unary(t, i) ELSE Climb(n, t, ParseLevel(n + 1, t, i))

(***************************************************************************)
(* Evaluation.  Numbers wrap at the word's width; Fail is an error.  c     *)
(* gives the laid-out sections, by name, and the memory regions.           *)
(***************************************************************************)
Word == 2^WordBits
Fail == -1
Truth(b) == IF b THEN 1 ELSE 0
Complement(x) == Word - 1 - x

Arithmetic(op, x, y) ==
  CASE op = "+" -> (x + y) % Word
    [] op = "-" -> (x - y + Word) % Word
    [] op = "*" -> (x * y) % Word
    [] op = "/" -> IF y = 0 THEN Fail ELSE x \div y

Compare(op, x, y) ==
  Truth(CASE op = "<" -> x < y [] op = ">" -> x > y [] op = "<=" -> x <= y
          [] op = ">=" -> x >= y [] op = "==" -> x = y [] op = "!=" -> x # y)

\* wrapping_shl and wrapping_shr take the distance modulo the width.
BitOperation(op, x, y) ==
  CASE op = "&" -> x & y
    [] op = "|" -> x | y
    [] op = "^" -> x ^^ y
    [] op = "<<" -> (x * 2^(y % WordBits)) % Word
    [] op = ">>" -> x \div 2^(y % WordBits)

\* A section that is not in the output has size and alignment zero, and no
\* address.
SectionValue(f, name, c) ==
  CASE name \in DOMAIN c.sections ->
         CASE f = "SIZEOF" -> c.sections[name].size
           [] f = "ALIGNOF" -> c.sections[name].align
           [] f \in {"ADDR", "LOADADDR"} -> c.sections[name].addr
    [] name \notin DOMAIN c.sections -> IF f \in {"SIZEOF", "ALIGNOF"} THEN 0 ELSE Fail

\* eval_constant_expr: what can be known without a layout.
RECURSIVE EvalConstant(_)
EvalConstant(e) ==
  CASE "num" \in DOMAIN e -> e.num
    [] "op" \in DOMAIN e /\ e.op \in UNION {ArithmeticLevels[n] : n \in DOMAIN ArithmeticLevels} ->
         LET x == EvalConstant(e.l)
             y == EvalConstant(e.r)
         IN  IF x = Fail \/ y = Fail THEN Fail ELSE Arithmetic(e.op, x, y)
    [] "un" \in DOMAIN e /\ e.un = "-" ->
         LET x == EvalConstant(e.e) IN IF x = Fail THEN Fail ELSE (Word - x) % Word
    [] OTHER -> Fail

\* A symbol is one: the assertion it is in is meant to be skipped.
RECURSIVE Evaluate(_, _)
EvaluateBinary(e, c) ==
  LET x == Evaluate(e.l, c)
      y == Evaluate(e.r, c)
      op == e.op
  IN  CASE op = "&&" -> IF x = Fail \/ (x # 0 /\ y = Fail) THEN Fail ELSE Truth(x # 0 /\ y # 0)
        [] op = "||" -> IF x = Fail \/ (x = 0 /\ y = Fail) THEN Fail ELSE Truth(x # 0 \/ y # 0)
        [] op \notin {"&&", "||"} /\ (x = Fail \/ y = Fail) -> Fail
        [] x # Fail /\ y # Fail /\ op \in {"+", "-", "*", "/"} -> Arithmetic(op, x, y)
        [] x # Fail /\ y # Fail /\ op \in Levels[Comparison] -> Compare(op, x, y)
        [] x # Fail /\ y # Fail /\ op \in {"&", "|", "^", "<<", ">>"} -> BitOperation(op, x, y)

Region(name, c) == {n \in DOMAIN c.regions : c.regions[n].name = name}

EvaluateFunction(e, c) ==
  IF e.fn \notin {"ORIGIN", "LENGTH"} THEN SectionValue(e.fn, e.arg, c)
  ELSE LET found == Region(e.arg, c)
           first == CHOOSE n \in found : \A m \in found : n <= m
       IN  IF found = {} THEN Fail
           ELSE Evaluate(IF e.fn = "ORIGIN" THEN c.regions[first].origin
                                            ELSE c.regions[first].length, c)

EvaluateUnary(un, x) ==
  CASE x = Fail -> Fail
    [] x # Fail /\ un = "!" -> Truth(x = 0)
    [] x # Fail /\ un = "~" -> Complement(x)
    [] x # Fail /\ un = "-" -> (Word - x) % Word

Evaluate(e, c) ==
  CASE "num" \in DOMAIN e -> e.num
    [] "dot" \in DOMAIN e -> 0
    [] "sym" \in DOMAIN e -> 1
    [] "op" \in DOMAIN e -> EvaluateBinary(e, c)
    [] "un" \in DOMAIN e -> EvaluateUnary(e.un, Evaluate(e.e, c))
    [] "fn" \in DOMAIN e -> EvaluateFunction(e, c)
    [] "align" \in DOMAIN e -> LET a == Evaluate(e.align, c)
                               IN  IF a \in {Fail, 0} THEN Fail ELSE (a - 1) & Complement(a - 1)
    [] "call" \in DOMAIN e ->
         LET x == Evaluate(e.l, c)
             y == Evaluate(e.r, c)
         IN  IF x = Fail \/ y = Fail THEN Fail
             ELSE IF (e.call = "MIN") = (x <= y) THEN x ELSE y
    [] "segment" \in DOMAIN e -> Evaluate(e.default, c)

(***************************************************************************)
(* Commands.  Many(f, ...) is winnow's repeat_till: items of one kind up   *)
(* to a closing token.                                                     *)
(***************************************************************************)
RECURSIVE ParseCommands(_, _, _)
RECURSIVE ParseRegions(_, _)
RECURSIVE ParseSectionCommands(_, _)
RECURSIVE ParseContents(_, _)
RECURSIVE TokensUntil(_, _, _)
RECURSIVE SkipBraces(_, _, _)

TokensUntil(t, i, closing) ==
  CASE TokenAt(t, i) = "end" -> Bad
    [] TokenAt(t, i) = closing -> Good(i + 1, <<>>)
    [] OTHER -> Prepend(t[i], TokensUntil(t, i + 1, closing))

Optional(t, i, token) == IF Is(t, i, token) THEN i + 1 ELSE i

\* name = value up to the closing parenthesis, kept as text; then ;
ParseProvide(t, i, hidden) ==
  LET value == TokensUntil(t, i + 3, ")")
  IN  IF Is(t, i, "(") /\ Is(t, i + 2, "=") /\ value.ok /\ value.val # <<>>
      THEN Good(Optional(t, value.i, ";"),
                [cmd |-> "provide", name |-> t[i + 1], text |-> value.val, hidden |-> hidden])
      ELSE Bad

ParseAssert(t, i) ==
  LET e == ParseExpression(t, i + 1)
  IN  IF Is(t, i, "(") /\ e.ok /\ Is(t, e.i, ",") /\ Is(t, e.i + 2, ")")
      THEN Good(Optional(t, e.i + 3, ";"), [cmd |-> "assert", e |-> e.val]) ELSE Bad

\* NAME : ORIGIN = e , LENGTH = e
ParseRegions(t, i) ==
  IF Is(t, i, "}") THEN Good(i + 1, <<>>)
  ELSE LET origin == ParseExpression(t, i + 4)
           length == ParseExpression(t, origin.i + 3)
           rest == ParseRegions(t, length.i)
       IN  IF /\ Is(t, i + 1, ":") /\ TokenAt(t, i + 2) \in {"ORIGIN", "org", "o"}
              /\ Is(t, i + 3, "=") /\ origin.ok /\ Is(t, origin.i, ",")
              /\ TokenAt(t, origin.i + 1) \in {"LENGTH", "len", "l"}
              /\ Is(t, origin.i + 2, "=") /\ length.ok /\ rest.ok
           THEN Good(rest.i, <<[name |-> t[i], origin |-> origin.val,
                                length |-> length.val]>> \o rest.val)
           ELSE Bad

\* The text of a VERSION block: braces are counted, nothing else is read.
SkipBraces(t, i, depth) ==
  CASE depth = 0 -> i
    [] depth > 0 /\ TokenAt(t, i) = "end" -> 0
    [] OTHER -> SkipBraces(t, i + 1, IF Is(t, i, "{") THEN depth + 1
                                     ELSE IF Is(t, i, "}") THEN depth - 1 ELSE depth)

ParseVersionCommand(t, i) ==
  LET close == SkipBraces(t, i + 1, 1)
  IN  IF Is(t, i, "{") /\ close # 0
      THEN Good(Optional(t, close, ";"),
                [cmd |-> "version", text |-> SubSeq(t, i + 1, close - 2)]) ELSE Bad

Powers == {2^e : e \in 0..WordBits}
ParseAlignment(t, i) ==
  IF /\ Is(t, i, "ALIGN") /\ Is(t, i + 1, "(") /\ TokenAt(t, i + 2) \in DOMAIN TokenNumber
     /\ TokenNumber[t[i + 2]] \in Powers /\ Is(t, i + 3, ")")
  THEN Good(i + 4, TokenNumber[t[i + 2]]) ELSE Bad

\* file ( patterns ), or KEEP of it
ParseMatcherPattern(t, i, keep) ==
  LET patterns == TokensUntil(t, i + 2, ")")
  IN  IF Is(t, i + 1, "(") /\ patterns.ok
      THEN Good(patterns.i, [cmd |-> "matcher", keep |-> keep,
                             file |-> IF Is(t, i, "*") THEN <<>> ELSE <<t[i]>>,
                             patterns |-> patterns.val]) ELSE Bad

ParseMatcher(t, i) ==
  IF Is(t, i, "KEEP") /\ Is(t, i + 1, "(")
  THEN LET m == ParseMatcherPattern(t, i + 2, TRUE)
       IN  IF m.ok /\ Is(t, m.i, ")") THEN Good(Optional(t, m.i + 1, ";"), m.val) ELSE Bad
  ELSE LET m == ParseMatcherPattern(t, i, FALSE)
       IN  IF m.ok THEN Good(Optional(t, m.i, ";"), m.val) ELSE Bad

\* name = e ; where the name . stands only for an alignment
ParseAssignment(t, i) ==
  LET e == ParseExpression(t, i + 2)
      aligned == "align" \in DOMAIN e.val /\ "num" \in DOMAIN e.val.align
                 /\ e.val.align.num \in Powers
  IN  CASE ~Is(t, i + 1, "=") \/ ~e.ok -> Bad
        [] Is(t, i + 1, "=") /\ e.ok /\ Is(t, i, ".") ->
             IF aligned THEN Good(Optional(t, e.i, ";"), [cmd |-> "align", n |-> e.val.align.num])
             ELSE Bad
        [] OTHER -> Good(Optional(t, e.i, ";"), [cmd |-> "assign", name |-> t[i], e |-> e.val])

ParseContentsCommand(t, i) ==
  LET provide == ParseProvide(t, i + 1, Is(t, i, "PROVIDE_HIDDEN"))
      matcher == ParseMatcher(t, i)
  IN  CASE TokenAt(t, i) \in {"PROVIDE", "PROVIDE_HIDDEN"} /\ provide.ok -> provide
        [] matcher.ok -> matcher
        [] OTHER -> ParseAssignment(t, i)

ContentsAfter(t, one) == IF one.ok THEN Prepend(one.val, ParseContents(t, one.i)) ELSE Bad
ParseContents(t, i) ==
  IF Is(t, i, "}") THEN Good(i + 1, <<>>)
  ELSE ContentsAfter(t, ParseContentsCommand(t, i))

\* name [address] : [ALIGN(n)] { contents }
SectionOf(t, i, start, align, body) ==
  IF body.ok THEN Good(body.i, [cmd |-> "section", name |-> t[i],
                                start |-> IF start.i = i + 1 THEN <<>> ELSE <<start.val>>,
                                align |-> align.val, body |-> body.val])
  ELSE Bad
SectionBody(t, i, start, align) ==
  IF align.ok /\ Is(t, align.i, "{") THEN SectionOf(t, i, start, align, ParseContents(t, align.i + 1)) ELSE Bad
SectionAlign(t, i, start) ==
  IF ~start.ok \/ ~Is(t, start.i, ":") THEN Bad
  ELSE SectionBody(t, i, start, IF Is(t, start.i + 1, "{") THEN Good(start.i + 1, 1)
                                ELSE ParseAlignment(t, start.i + 1))
ParseSection(t, i) ==
  SectionAlign(t, i, IF Is(t, i + 1, ":") THEN Good(i + 1, <<>>) ELSE ParseExpression(t, i + 1))

ParseSectionCommand(t, i) ==
  LET aligned == ParseAlignment(t, i + 2)
      located == TokenAt(t, i + 2) \in DOMAIN TokenNumber
  IN  CASE Is(t, i, "ASSERT") -> ParseAssert(t, i + 1)
        [] Is(t, i, ".") /\ aligned.ok /\ Is(t, i + 1, "=") /\ Is(t, aligned.i, ";") ->
             Good(aligned.i + 1, [cmd |-> "align", n |-> aligned.val])
        [] Is(t, i, ".") /\ ~aligned.ok /\ Is(t, i + 1, "=") /\ located /\ Is(t, i + 3, ";") ->
             Good(i + 4, [cmd |-> "locate", at |-> TokenNumber[t[i + 2]]])
        [] Is(t, i, ".") /\ ~(Is(t, i + 1, "=") /\ (aligned.ok \/ located)) -> Bad
        [] OTHER -> ParseSection(t, i)

SectionCommandsAfter(t, one) ==
  IF one.ok THEN Prepend(one.val, ParseSectionCommands(t, one.i)) ELSE Bad
ParseSectionCommands(t, i) ==
  IF Is(t, i, "}") THEN Good(i + 1, <<>>)
  ELSE SectionCommandsAfter(t, ParseSectionCommand(t, i))

Wrapped(parsed, cmd) ==
  IF parsed.ok THEN Good(parsed.i, [cmd |-> cmd, list |-> parsed.val]) ELSE Bad

\* A list in parentheses, under a command of its own.
GroupCommands ==
  [GROUP |-> "group", INPUT |-> "group", OUTPUT_FORMAT |-> "ignored", AS_NEEDED |-> "as_needed"]
ParseGroup(t, i, cmd) ==
  IF Is(t, i, "(") THEN Wrapped(ParseCommands(t, i + 1, ")"), cmd) ELSE Bad

ParseDefinition(t, i, e) ==
  IF e.ok THEN Good(Optional(t, e.i, ";"), [cmd |-> "define", name |-> t[i], e |-> e.val]) ELSE Bad

ParseCommand(t, i) ==
  CASE TokenAt(t, i) \in DOMAIN GroupCommands -> ParseGroup(t, i + 1, GroupCommands[t[i]])
    [] Is(t, i, "SECTIONS") /\ Is(t, i + 1, "{") ->
         Wrapped(ParseSectionCommands(t, i + 2), "sections")
    [] Is(t, i, "ENTRY") /\ Is(t, i + 1, "(") /\ Is(t, i + 3, ")") ->
         Good(i + 4, [cmd |-> "entry", name |-> t[i + 2]])
    [] Is(t, i, "VERSION") -> ParseVersionCommand(t, i + 1)
    [] TokenAt(t, i) \in {"PROVIDE", "PROVIDE_HIDDEN"} ->
         ParseProvide(t, i + 1, Is(t, i, "PROVIDE_HIDDEN"))
    [] Is(t, i, "ASSERT") -> ParseAssert(t, i + 1)
    [] Is(t, i, "MEMORY") /\ Is(t, i + 1, "{") -> Wrapped(ParseRegions(t, i + 2), "memory")
    [] TokenAt(t, i) \in {"(", ")", "{", "}", ";", "end", "SECTIONS", "ENTRY", "MEMORY"} -> Bad
    [] OTHER -> IF ~Is(t, i + 1, "=") THEN Good(i + 1, [cmd |-> "arg", name |-> t[i]])
                ELSE ParseDefinition(t, i, ParseExpression(t, i + 2))

CommandsAfter(t, one, closing) ==
  IF one.ok THEN Prepend(one.val, ParseCommands(t, one.i, closing)) ELSE Bad
ParseCommands(t, i, closing) ==
  IF Is(t, i, closing) THEN Good(i + 1, <<>>)
  ELSE CommandsAfter(t, ParseCommand(t, i), closing)

LinkerScript(t) == ParseCommands(t, 1, "end")

\* foreach_input: what a script asks to be loaded, in order.  library says
\* which arguments start with -l.
RECURSIVE InputsOf(_, _)
InputsOf(commands, modifiers) ==
  IF commands = <<>> THEN <<>>
  ELSE LET c == Head(commands)
           first ==
             CASE c.cmd = "arg" -> << [name |-> c.name, modifiers |-> modifiers] >>
               [] c.cmd = "group" -> InputsOf(c.list, modifiers)
               [] c.cmd = "as_needed" -> InputsOf(c.list, [modifiers EXCEPT !.as_needed = TRUE])
               [] OTHER -> <<>>
       IN  first \o InputsOf(Tail(commands), modifiers)

\* The first VERSION command of a script.
VersionTextOf(commands) ==
  LET found == {n \in DOMAIN commands : commands[n].cmd = "version"}
  IN  IF found = {} THEN <<>>
      ELSE <<commands[CHOOSE n \in found : \A m \in found : n <= m].text>>

(***************************************************************************)
(* Version scripts and export lists.  A matcher is a kind and the          *)
(* characters it is about; a body has four sets of them.                   *)
(***************************************************************************)
Spelled(name) == Spelling[name]

\* parse_matcher, for one pattern.
MatcherOf(token) ==
  LET text == Spelled(token)
      kind == AnalyzeGlobPattern(text)
  IN  CASE token \in Quoted -> [kind |-> "exact", text |-> text]
        [] token \notin Quoted /\ text = <<"*">> -> [kind |-> "all", text |-> <<>>]
        [] token \notin Quoted /\ kind = "escaped" ->
             [kind |-> "exact", text |-> UnescapePattern(text)]
        [] OTHER -> [kind |-> kind, text |-> text]

NoRules == [general |-> {}, cxx |-> {}]
Externs == [C |-> "general"] @@ ("C++" :> "cxx")

\* extern "lang" { a; b }; the last semicolon may be left out, and blocks do
\* not nest.
RECURSIVE ExternItems(_, _)
ExternItems(t, i) ==
  CASE Is(t, i, "}") -> IF Is(t, i + 1, ";") THEN Good(i + 2, {}) ELSE Bad
    [] TokenAt(t, i) \notin DOMAIN Spelling -> Bad
    [] OTHER -> LET rest == ExternItems(t, Optional(t, i + 1, ";"))
                IN  IF rest.ok /\ (Is(t, i + 1, ";") \/ Is(t, i + 1, "}"))
                    THEN Good(rest.i, {MatcherOf(t[i])} \cup rest.val) ELSE Bad

\* One entry of a body: where it goes, and what it matches.
ParseEntry(t, i) ==
  CASE Is(t, i, "extern") ->
         LET items == ExternItems(t, i + 3)
         IN  IF TokenAt(t, i + 1) \in DOMAIN Externs /\ Is(t, i + 2, "{") /\ items.ok
             THEN Good(items.i, [to |-> Externs[t[i + 1]], what |-> items.val, single |-> FALSE])
             ELSE Bad
    [] TokenAt(t, i) \in DOMAIN Spelling /\ Is(t, i + 1, ";") ->
         Good(i + 2, [to |-> "general", what |-> {MatcherOf(t[i])}, single |-> TRUE])
    [] OTHER -> Bad

\* parse_version_section: entries before any label are global.
RECURSIVE BodyFrom(_, _, _)
BodyAfter(t, one, section) ==
  IF one.ok THEN Prepend(one.val @@ [section |-> section], BodyFrom(t, one.i, section)) ELSE Bad
BodyFrom(t, i, section) ==
  CASE Is(t, i, "}") -> Good(i + 1, <<>>)
    [] TokenAt(t, i) \in {"global:", "local:"} ->
         BodyFrom(t, i + 1, IF Is(t, i, "global:") THEN "globals" ELSE "locals")
    [] OTHER -> BodyAfter(t, ParseEntry(t, i), section)

EntriesIn(entries, section, to) ==
  UNION {entries[n].what : n \in {k \in DOMAIN entries : /\ entries[k].section = section
                                                         /\ entries[k].to = to}}
BodyOf(entries) ==
  [globals |-> [general |-> EntriesIn(entries, "globals", "general"),
                cxx |-> EntriesIn(entries, "globals", "cxx")],
   locals |-> [general |-> EntriesIn(entries, "locals", "general"),
               cxx |-> EntriesIn(entries, "locals", "cxx")]]

\* A body that a Rust compiler writes: exact globals, and everything local.
RustLike(entries) ==
  /\ \E n \in DOMAIN entries : /\ entries[n].section = "locals" /\ entries[n].single
                               /\ \E m \in entries[n].what : m.kind = "all"
  /\ \A n \in DOMAIN entries : entries[n].section = "globals" =>
       entries[n].single /\ \A m \in entries[n].what : m.kind = "exact"

Version(name, parent, body) == [name |-> name, parent |-> parent, body |-> body]
EmptyBody == [globals |-> NoRules, locals |-> NoRules]

\* The named versions, after a placeholder for the base version.  A parent is
\* the index of an earlier version.
RECURSIVE NamedVersions(_, _, _)
VersionAfter(t, i, versions, entries) ==
  LET parent == TokenAt(t, entries.i)
      known == {n \in DOMAIN versions : versions[n].name = parent}
      semicolon == IF parent = ";" THEN entries.i ELSE entries.i + 1
  IN  IF ~entries.ok \/ (parent # ";" /\ known = {}) \/ ~Is(t, semicolon, ";") THEN Bad
      ELSE NamedVersions(t, semicolon + 1, Append(versions,
             Version(t[i], IF parent = ";" THEN {} ELSE known, BodyOf(entries.val))))
NamedVersions(t, i, versions) ==
  CASE Is(t, i, "end") -> Good(i, versions)
    [] ~Is(t, i, "end") /\ ~Is(t, i + 1, "{") -> Bad
    [] OTHER -> VersionAfter(t, i, versions, BodyFrom(t, i + 2, "globals"))

RegularScript(versions) == [rust |-> FALSE, versions |-> versions, global |-> {}]
NoVersionScript == RegularScript(<<>>)

Regular(named) == IF named.ok THEN Good(named.i, RegularScript(named.val)) ELSE Bad
AnonymousScript(t, entries) ==
  CASE ~entries.ok \/ ~Is(t, entries.i, ";") \/ ~Is(t, entries.i + 1, "end") -> Bad
    [] entries.ok /\ Is(t, entries.i, ";") /\ Is(t, entries.i + 1, "end") /\ RustLike(entries.val) ->
         Good(entries.i + 1, [rust |-> TRUE, versions |-> <<>>,
           global |-> {m.text : m \in EntriesIn(entries.val, "globals", "general")}])
    [] OTHER -> Good(entries.i + 1, RegularScript(<<Version("", {}, BodyOf(entries.val))>>))
ParseVersionScript(t) ==
  IF Is(t, 1, "{") THEN AnonymousScript(t, BodyFrom(t, 2, "globals"))
  ELSE Regular(NamedVersions(t, 1, <<Version("", {}, EmptyBody)>>))

DemangledOf(name) == IF name \in DOMAIN Demangled THEN Demangled[name] ELSE name

MatchesExact(rules, name) == \E m \in rules : m.kind = "exact" /\ m.text = name
MatchesGlob(rules, name, kind) == \E m \in rules : m.kind = kind /\ GlobMatches(m.text, name)
MatchesAll(rules) == \E m \in rules : m.kind = "all"

\* One set of rules, general and C++, by the three tests of find_match.
Side(rules, name, test) ==
  CASE test = "exact" -> \/ MatchesExact(rules.general, name)
                         \/ MatchesExact(rules.cxx, DemangledOf(name))
    [] test \in {"star", "nonstar"} -> \/ MatchesGlob(rules.general, name, test)
                                       \/ MatchesGlob(rules.cxx, DemangledOf(name), test)
    [] test = "all" -> MatchesAll(rules.general) \/ MatchesAll(rules.cxx)

Hit(n, section) == [version |-> n, section |-> section]

\* 1) the first version with an exact pattern: its general rules, global then
\* local, before its C++ rules.
ExactHit(versions, name) ==
  LET in(n) == Side(versions[n].body.globals, name, "exact")
               \/ Side(versions[n].body.locals, name, "exact")
      found == {n \in DOMAIN versions : in(n)}
      n == CHOOSE k \in found : \A j \in found : k <= j
      body == versions[n].body
  IN  IF found = {} THEN {}
      ELSE {Hit(n - 1, IF \/ MatchesExact(body.globals.general, name)
                          \/ /\ ~MatchesExact(body.locals.general, name)
                             /\ MatchesExact(body.globals.cxx, DemangledOf(name))
                       THEN "global" ELSE "local")}

\* 2), 3) the last version that matches, global before local.
LastHit(versions, name, test) ==
  LET found == {n \in DOMAIN versions : \/ Side(versions[n].body.globals, name, test)
                                        \/ Side(versions[n].body.locals, name, test)}
      n == CHOOSE k \in found : \A j \in found : k >= j
  IN  IF found = {} THEN {}
      ELSE {Hit(n - 1, IF Side(versions[n].body.globals, name, test) THEN "global" ELSE "local")}

FindMatch(versions, name) ==
  LET hits == << ExactHit(versions, name), LastHit(versions, name, "nonstar"),
                 LastHit(versions, name, "star"), LastHit(versions, name, "all") >>
      found == {k \in DOMAIN hits : hits[k] # {}}
  IN  IF found = {} THEN {} ELSE hits[CHOOSE k \in found : \A j \in found : k <= j]

\* version_for_symbol: asked is the version the object gives the symbol, if
\* any.  The base version is no version; the others are numbered from two.
VersionForSymbol(script, name, asked) ==
  LET named == {n \in DOMAIN script.versions : n > 1 /\ <<script.versions[n].name>> = asked}
      hit == CHOOSE h \in FindMatch(script.versions, name) : TRUE
  IN  CASE script.rust -> <<>>
        [] ~script.rust /\ asked = <<"">> -> <<1>>
        [] ~script.rust /\ asked # <<>> /\ asked # <<"">> ->
             IF named = {} THEN <<Fail>> ELSE <<CHOOSE n \in named : \A k \in named : n >= k>>
        [] OTHER -> IF FindMatch(script.versions, name) = {} \/ hit.version = 0 THEN <<>>
                    ELSE <<hit.version + 1>>

VersionCount(script) == IF Len(script.versions) = 1 THEN 0 ELSE Len(script.versions)
ParentCount(script) ==
  Cardinality({n \in DOMAIN script.versions : script.versions[n].parent # {}})

IsLocal(versions, name) == \E h \in FindMatch(versions, name) : h.section = "local"

\* should_downgrade_to_local, with the upgrade that handle_rust_version_script
\* does later for the names a Rust script lists.
DowngradedToLocal(script, name) ==
  IF script.rust THEN name \notin script.global ELSE IsLocal(script.versions, name)

\* export_list.rs: braces or lines; the same tests in the same order.
RECURSIVE ExportItems(_, _)
Exported(entry, rest) ==
  IF rest.ok THEN Good(rest.i, [rest.val EXCEPT ![entry.to] = @ \cup entry.what]) ELSE Bad
ExportsAfter(t, one) == IF one.ok THEN Exported(one.val, ExportItems(t, one.i)) ELSE Bad
ExportItems(t, i) ==
  IF Is(t, i, "}") THEN IF Is(t, i + 1, ";") THEN Good(i + 2, NoRules) ELSE Bad
  ELSE ExportsAfter(t, ParseEntry(t, i))

ParseExportList(t) ==
  IF Is(t, 1, "{") THEN ExportItems(t, 2)
  ELSE Good(Len(t) + 1, [NoRules EXCEPT !.general = {MatcherOf(t[n]) : n \in DOMAIN t}])

Exports(rules, name) == \E test \in {"exact", "star", "nonstar", "all"} : Side(rules, name, test)

(***************************************************************************)
(* Section rules.  The first unit of a section's spelling is its first     *)
(* four bytes, by which the rules are hashed.                              *)
(***************************************************************************)
ToSection(section, keep, sorted) == [to |-> section, keep |-> keep, sorted |-> sorted]
Treated(how) == [how |-> how]
Rule(kind, name, files, outcome) ==
  [kind |-> kind, text |-> Spelled(name), files |-> files, outcome |-> outcome]
Exact(name, outcome) == Rule("exact", name, <<>>, outcome)
Prefix(name, outcome) == Rule("prefix", name, <<>>, outcome)

DefaultRules ==
  [n \in 1..5 |-> LET s == <<".init", ".fini", ".preinit_array", ".comment", ".note.ABI-tag">>[n]
                  IN  Exact(s, ToSection(s, TRUE, FALSE))] \o
  << Exact(".note.gnu.build-id", ToSection(".note.gnu.build-id", FALSE, FALSE)) >> \o
  [n \in 1..5 |-> LET s == <<".rodata", ".text", ".data.rel.ro", ".data", ".bss">>[n]
                  IN  Prefix(s, ToSection(s, FALSE, FALSE))] \o
  << Prefix(".init_array", ToSection(".init_array", TRUE, TRUE)),
     Prefix(".ctors", ToSection(".init_array", TRUE, TRUE)),
     Prefix(".fini_array", ToSection(".fini_array", TRUE, TRUE)),
     Prefix(".dtors", ToSection(".fini_array", TRUE, TRUE)) >> \o
  [n \in 1..3 |-> LET s == <<".tdata", ".tbss", ".gcc_except_table">>[n]
                  IN  Prefix(s, ToSection(s, FALSE, FALSE))] \o
  << Prefix(".rela", Treated("discard")), Prefix(".crel", Treated("discard")),
     Exact(".note.GNU-stack", Treated("stack")) >> \o
  [n \in 1..4 |-> Exact(<<".strtab", ".symtab", ".shstrtab", ".group">>[n], Treated("discard"))] \o
  << Exact(".eh_frame", Treated("eh_frame")),
     Exact(".note.gnu.property", Treated("property")),
     Exact(".riscv.attributes", Treated("attributes")),
     Exact(".symtab_shndx", Treated("discard")),
     Prefix(".debug_", Treated("debug")) >>

\* SectionRule::new
ScriptRule(pattern, files, section, keep) ==
  LET text == Spelled(pattern)
      kind == AnalyzeGlobPattern(text)
  IN  [kind |-> IF kind \in {"star", "nonstar"} THEN "glob" ELSE "exact",
       text |-> IF kind = "escaped" THEN UnescapePattern(text) ELSE text,
       files |-> files, outcome |-> [id |-> section, keep |-> keep]]

StartsWith(name, text) == Len(name) >= Len(text) /\ SubSeq(name, 1, Len(text)) = text

\* Mutant: a rule is taken for every file.
RuleMatchesAnyFile(r, name, file) ==
  CASE r.kind = "exact" -> name = r.text
    [] r.kind = "prefix" -> StartsWith(name, r.text)
    [] r.kind = "glob" -> GlobMatches(r.text, name)

RuleMatches(r, name, file) ==
  /\ CASE r.kind = "exact" -> name = r.text
       [] r.kind = "prefix" -> StartsWith(name, r.text)
       [] r.kind = "glob" -> GlobMatches(r.text, name)
  /\ r.files = <<>> \/ GlobMatches(Spelled(r.files[1]), file)

\* A section header: the flags that decide where a nameless section goes.
UnnamedSectionOutput(h) ==
  CASE ~h.alloc \/ h.type \notin {"progbits", "nobits"} -> Treated("discard")
    [] h.alloc /\ h.type = "progbits" ->
         ToSection(IF h.exec THEN ".text" ELSE IF h.tls THEN ".tdata"
                   ELSE IF h.write THEN ".data" ELSE ".rodata", FALSE, FALSE)
    [] h.alloc /\ h.type = "nobits" -> ToSection(IF h.tls THEN ".tbss" ELSE ".bss", FALSE, FALSE)

Lookup(rules, name, file, h) ==
  LET hashed == {n \in DOMAIN rules : name # <<>> /\ Head(rules[n].text) = Head(name)}
      found == {n \in hashed : RuleMatches(rules[n], name, file)}
  IN  CASE h.exclude -> Treated("discard")
        [] ~h.exclude /\ found # {} -> rules[CHOOSE n \in found : \A m \in found : n <= m].outcome
        [] ~h.exclude /\ found = {} /\ name = <<>> -> UnnamedSectionOutput(h)
        [] OTHER -> Treated("custom")

(***************************************************************************)
(* process_linker_script: the sections, rules and symbols a script         *)
(* declares.  The accumulator holds the output sections in order; a        *)
(* section named twice keeps its first alignment and address.              *)
(***************************************************************************)
NothingDeclared ==
  [sections |-> <<>>, rules |-> <<>>, symbols |-> <<>>, asserts |-> <<>>,
   regions |-> <<>>, err |-> FALSE, extra |-> 1, at |-> <<>>]

SectionNamed(a, name) == {n \in DOMAIN a.sections : a.sections[n].name = name /\ a.sections[n].primary = 0}
Larger(x, y) == IF x > y THEN x ELSE y

Declared(a, symbol, placement, hidden) ==
  [a EXCEPT !.symbols = Append(@, [name |-> symbol, placement |-> placement, hidden |-> hidden])]

\* . is the end of the last matcher's section, or the start of the first.
Here(primary, last) == IF last = 0 THEN <<"start", primary>> ELSE <<"end", last>>

SegmentStart(e) ==
  LET d == EvalConstant(e.default)
  IN  <<"segment", e.segment, IF d = Fail THEN 0 ELSE d>>

\* One matcher: the section's first goes to the section itself, the others to
\* sections merged into it.
AddMatcher(a, m, primary, last) ==
  LET id == IF last = 0 THEN primary ELSE Len(a.sections) + 1
  IN  [a EXCEPT
        !.sections = IF last = 0 THEN @
                     ELSE Append(@, [name |-> a.sections[primary].name, align |-> a.extra,
                                     at |-> <<>>, primary |-> primary]),
        !.extra = IF last = 0 THEN @ ELSE 1,
        !.rules = @ \o [n \in DOMAIN m.patterns |-> ScriptRule(m.patterns[n], m.file, id, m.keep)]]

RECURSIVE ProcessContents(_, _, _, _)
ProcessContents(a, body, primary, last) ==
  IF body = <<>> THEN a
  ELSE LET c == Head(body)
           id == IF last = 0 THEN primary ELSE Len(a.sections) + 1
           next ==
             CASE c.cmd = "matcher" -> AddMatcher(a, c, primary, last)
               [] c.cmd = "align" -> [a EXCEPT !.extra = c.n]
               [] c.cmd = "provide" -> Declared(a, c.name, Here(primary, last), c.hidden)
               [] c.cmd = "assign" ->
                    CASE "dot" \in DOMAIN c.e -> Declared(a, c.name, Here(primary, last), FALSE)
                      [] "segment" \in DOMAIN c.e -> Declared(a, c.name, SegmentStart(c.e), FALSE)
                      [] OTHER -> a
       IN  ProcessContents(next, Tail(body), primary, IF c.cmd = "matcher" THEN id ELSE last)

OpenSection(a, s) ==
  LET address == IF s.start # <<>> THEN <<s.start[1].num>> ELSE a.at
      known == SectionNamed(a, s.name)
      new == [name |-> s.name, align |-> Larger(s.align, a.extra), at |-> address, primary |-> 0]
      opened == [a EXCEPT !.sections = IF known = {} THEN Append(@, new) ELSE @,
                          !.extra = 1, !.at = <<>>]
      id == IF known = {} THEN Len(opened.sections) ELSE CHOOSE n \in known : TRUE
  IN  IF s.start # <<>> /\ "num" \notin DOMAIN s.start[1] THEN [a EXCEPT !.err = TRUE]
      ELSE ProcessContents(opened, s.body, id, 0)

RECURSIVE ProcessSections(_, _)
ProcessSections(a, list) ==
  IF list = <<>> \/ a.err THEN a
  ELSE LET c == Head(list)
       IN  ProcessSections(
             CASE c.cmd = "section" -> OpenSection(a, c)
               [] c.cmd = "locate" -> [a EXCEPT !.at = <<c.at>>]
               [] c.cmd = "align" -> [a EXCEPT !.extra = c.n]
               [] c.cmd = "assert" -> [a EXCEPT !.asserts = Append(@, c.e)], Tail(list))

\* A top-level definition: a number, a segment's start, or a symbol and a
\* distance; anything else is an error.
PlacementOf(e) ==
  LET redirect(sign) ==
        IF "sym" \in DOMAIN e.l /\ "num" \in DOMAIN e.r
        THEN <<"redirect", e.l.sym, sign * e.r.num>> ELSE <<>>
  IN  CASE "segment" \in DOMAIN e -> SegmentStart(e)
        [] "num" \in DOMAIN e -> <<"absolute", e.num>>
        [] "sym" \in DOMAIN e -> <<"redirect", e.sym, 0>>
        [] "op" \in DOMAIN e /\ e.op = "+" -> redirect(1)
        [] "op" \in DOMAIN e /\ e.op = "-" -> redirect(-1)
        [] OTHER -> <<>>

\* parse_symbol_expression: a sum of numbers and at most one symbol, the
\* first; later ones are dropped.
RECURSIVE SumOf(_, _, _, _)
SumOf(text, sign, offset, sym) ==
  LET t == Head(text)
  IN  CASE text = <<>> -> IF sym = <<>> THEN <<"absolute", (offset + Word) % Word>>
                          ELSE <<"redirect", sym[1], offset>>
        [] text # <<>> /\ t \in {"+", "-"} -> SumOf(Tail(text), IF t = "+" THEN 1 ELSE -1, offset, sym)
        [] text # <<>> /\ t \in DOMAIN TokenNumber ->
             SumOf(Tail(text), sign, offset + sign * TokenNumber[t], sym)
        [] OTHER -> SumOf(Tail(text), sign, offset, IF sym = <<>> THEN <<t>> ELSE sym)

RECURSIVE ProcessCommands(_, _)
ProcessCommands(a, commands) ==
  IF commands = <<>> \/ a.err THEN a
  ELSE LET c == Head(commands)
       IN  ProcessCommands(
             CASE c.cmd = "provide" -> Declared(a, c.name, SumOf(c.text, 1, 0, <<>>), c.hidden)
               [] c.cmd = "define" -> IF PlacementOf(c.e) = <<>> THEN [a EXCEPT !.err = TRUE]
                                      ELSE Declared(a, c.name, PlacementOf(c.e), FALSE)
               [] c.cmd = "sections" -> ProcessSections([a EXCEPT !.extra = 1, !.at = <<>>], c.list)
               [] c.cmd = "assert" -> [a EXCEPT !.asserts = Append(@, c.e)]
               [] c.cmd = "memory" -> [a EXCEPT !.regions = c.list]
               [] OTHER -> a, Tail(commands))

\* build: the rules of the scripts, and .comment; or the built-in ones.
BuildRules(a) ==
  IF a.rules = <<>> THEN DefaultRules
  ELSE Append(a.rules, Exact(".comment", ToSection(".comment", TRUE, FALSE)))

EvaluateAssertions(asserts, c) ==
  \A n \in DOMAIN asserts : Evaluate(asserts[n], c) \notin {0, Fail}
=============================================================================
