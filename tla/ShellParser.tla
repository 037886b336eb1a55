----------------------------- MODULE ShellParser ----------------------------
(***************************************************************************)
(* The parser of the shell (userland/sh.c:262): recursive descent over the *)
(* bytes of the line, which it keeps pointing into and finally cuts up in  *)
(* place, by a zero behind every word.  A line is a sequence of bytes: "w" *)
(* stands for any byte of a file name, and " " for white space.  The       *)
(* parser is a record that the functions of the source pass on:            *)
(*   line, at (its cursor), result, node (what was returned), mem (how     *)
(*   many nodes malloc() can still give).                                  *)
(***************************************************************************)
EXTENDS Integers, Sequences, FiniteSets

CONSTANTS MAX_ARGC,
          LineBytes, MaxLine,   \* the lines: bytes, and bound on the length
          Nodes                 \* how much memory there may be

ASSUME ParserAssumption == MAX_ARGC \in Nat \ {0} /\ MaxLine \in Nat

VARIABLES parsed   \* the parser after parse(), or before
parserVars == <<parsed>>

Null == [type |-> "null"]

Peek(p) == IF p.at <= Len(p.line) THEN p.line[p.at] ELSE "nul"

(* consume_while(): the first place from the cursor on that is not in C.   *)
EndOf(p, C) == CHOOSE j \in p.at .. Len(p.line) + 1 :
                 /\ \A k \in p.at .. j - 1 : p.line[k] \in C
                 /\ j <= Len(p.line) => p.line[j] \notin C

FileNameByte == LineBytes \ {">", " ", "|", "&", ";"}

SkipWhitespaces(p) == [p EXCEPT !.at = EndOf(p, {" "})]
Skip(p) == SkipWhitespaces([p EXCEPT !.at = @ + 1])

Fail(p, why) == [p EXCEPT !.node = Null, !.result = why]

(* node = malloc(): the node n, or none.                                   *)
NewNode(p, n) == IF p.mem = 0 THEN Fail(p, "NOMEM_ERROR")
                 ELSE [p EXCEPT !.node = n, !.mem = @ - 1]

(* parse_filename(): the word at the cursor, as its place and its length.  *)
Word(p) == [start |-> p.at, length |-> EndOf(p, FileNameByte) - p.at]

RECURSIVE ParseWords(_)
ParseWords(p) ==
    IF Len(p.node.argv) >= MAX_ARGC THEN Fail(p, "TOO_MANY_ARGS_ERROR")
    ELSE IF Word(p).length = 0 THEN p
    ELSE ParseWords(SkipWhitespaces(
           [p EXCEPT !.at = @ + Word(p).length,
                     !.node.argv = Append(@, Word(p))]))

(* What parse_execute() returns, given the node with the words in it.      *)
Executed(r) == IF r.node # Null /\ r.node.argv = << >> THEN Fail(r, "EMPTY") ELSE r
ParseExecute(p) ==
    IF p.mem = 0 THEN NewNode(p, Null)
    ELSE Executed(ParseWords(NewNode(p, [type |-> "execute", argv |-> << >>])))

(* Behind the command `from', and behind ">" at the cursor of `to'.        *)
RedirectedTo(from, to) ==
    IF Word(to).length = 0 THEN Fail(to, "SYNTAX_ERROR")
    ELSE NewNode([to EXCEPT !.at = @ + Word(to).length],
                 [type |-> "redirect", from |-> from.node, to |-> Word(to)])
Redirected(from) ==
    IF from.node = Null \/ Peek(from) # ">" THEN from
    ELSE RedirectedTo(from, Skip(from))
ParseRedirect(p) == Redirected(SkipWhitespaces(ParseExecute(p)))

Piped(left, right) ==
    IF right.node # Null
    THEN NewNode(right, [type |-> "pipe", left |-> left.node, right |-> right.node])
    ELSE IF right.result = "EMPTY" THEN Fail(right, "SYNTAX_ERROR") ELSE right
RECURSIVE ParsePipe(_), PipeFrom(_)
PipeFrom(left) ==
    IF left.node = Null \/ Peek(left) # "|" THEN left
    ELSE Piped(left, ParsePipe(Skip(left)))
ParsePipe(p) == PipeFrom(SkipWhitespaces(ParseRedirect(p)))

(* parse_juxtaposition(): one is what parse_pipe() returned, left is that  *)
(* or a node of type background.                                           *)
InBackground(one) ==
    IF Peek(one) = "&" THEN NewNode(one, [type |-> "background", inner |-> one.node])
    ELSE one
Juxtaposed(left, right) ==
    IF right.node # Null
    THEN NewNode(right, [type |-> "juxtaposition", left |-> left.node,
                         right |-> right.node])
    ELSE [right EXCEPT !.node = left.node,
                       !.result = IF @ = "EMPTY" THEN "SUCCESS" ELSE @]
RECURSIVE ParseJuxtaposition(_), JuxtapositionFrom(_), Continued(_)
Continued(left) ==
    IF left.node = Null THEN [left EXCEPT !.at = @ + 1]
    ELSE Juxtaposed(left, ParseJuxtaposition(Skip(left)))
JuxtapositionFrom(one) ==
    IF one.node = Null \/ Peek(one) \notin {"&", ";"} THEN one
    ELSE Continued(InBackground(one))
ParseJuxtaposition(p) == JuxtapositionFrom(SkipWhitespaces(ParsePipe(p)))

(* null_terminate(): the words of a tree, each of which gets a zero behind *)
(* it.                                                                     *)
RECURSIVE WordsOf(_)
WordsOf(n) ==
    CASE n.type = "execute" -> n.argv
      [] n.type = "redirect" -> Append(WordsOf(n.from), n.to)
      [] n.type = "background" -> WordsOf(n.inner)
      [] n.type \in {"pipe", "juxtaposition"} ->
           WordsOf(n.left) \o WordsOf(n.right)

NullTerminateFirst(line, n) ==                                \* fault
    [line EXCEPT ![WordsOf(n)[1].start + WordsOf(n)[1].length] = "nul"]
NullTerminate(line, n) ==
    LET ends == {WordsOf(n)[i].start + WordsOf(n)[i].length :
                   i \in DOMAIN WordsOf(n)}
    IN [k \in DOMAIN line |-> IF k \in ends THEN "nul" ELSE line[k]]

(* parse(), given what parse_juxtaposition() left.                         *)
ParsedIgnoringRest(q) ==                                      \* fault
    IF q.node = Null THEN q ELSE [q EXCEPT !.line = NullTerminate(@, q.node)]
Parsed(q) ==
    IF Peek(q) # "nul" THEN Fail(q, "SYNTAX_ERROR")
    ELSE IF q.node = Null THEN q
    ELSE [q EXCEPT !.line = NullTerminate(@, q.node)]
Parse(p) == Parsed(SkipWhitespaces(ParseJuxtaposition(SkipWhitespaces(p))))

-----------------------------------------------------------------------------
ShellParserInit ==
    \E n \in 0 .. MaxLine, m \in Nodes : \E l \in [1 .. n -> LineBytes] :
      parsed = [line |-> l \o <<"nul">>, at |-> 1, result |-> "unparsed",
                node |-> Null, mem |-> m, input |-> l]

(* main() calls parse() on the line, whose end is a zero, and goes by      *)
(* parser.result.                                                          *)
ParseLine ==
    /\ parsed.result = "unparsed"
    /\ parsed' = Parse([parsed EXCEPT !.result = "SUCCESS",
                                      !.line = parsed.input \o <<"nul">>])

ShellParserNext == ParseLine

-----------------------------------------------------------------------------
(* The reference: the words and operators of a line, in order, and which   *)
(* of them may follow each other.                                          *)

Starts(l) == {i \in DOMAIN l : /\ l[i] # " "
                               /\ l[i] = "w" /\ i > 1 => l[i - 1] # "w"}
Token(l, k) == l[CHOOSE i \in Starts(l) :
                   Cardinality({j \in Starts(l) : j < i}) = k - 1]
Tokens(l) == [k \in 1 .. Cardinality(Starts(l)) |-> Token(l, k)]

(* A command is words and perhaps a redirection to one word, and nothing   *)
(* follows that word in the command; commands are joined by "|", and such  *)
(* pipelines are each followed by ";" or "&", the last perhaps not.        *)
IsCommandLine(t) ==
    /\ t # << >> /\ t[1] = "w" /\ t[Len(t)] \in {"w", ";", "&"}
    /\ \A i \in 1 .. Len(t) - 1 :
         /\ t[i] # "w" => t[i + 1] = "w"
         /\ t[i] = "w" /\ i > 1 /\ t[i + 1] \in {"w", ">"} => t[i - 1] # ">"

(* More words in a row than an argv has room for.                          *)
HasLongCommand(t) ==
    \E i \in DOMAIN t : /\ i + MAX_ARGC - 1 <= Len(t)
                        /\ \A j \in i .. i + MAX_ARGC - 1 : t[j] = "w"

(* The parser accepts exactly the command lines, tells an empty line from  *)
(* a wrong one, and refuses a command with MAX_ARGC words or more, unless  *)
(* memory ran out; success always comes with a tree, as main() asserts     *)
(* (sh.c:722).                                                             *)
ParserAcceptsCommandLines ==
    LET t == Tokens(parsed.input)
    IN parsed.result # "unparsed" /\ parsed.mem > 0 =>
         /\ (parsed.result = "SUCCESS")
              <=> IsCommandLine(t) /\ ~HasLongCommand(t)
         /\ (parsed.result = "EMPTY") <=> t = << >>
         /\ parsed.result = "SUCCESS" => parsed.node # Null

(* Each word of the tree, read as a string from where it starts, is that   *)
(* word and nothing more, and the words of the tree are all the words of   *)
(* the line in their order: the zeros written by null_terminate() end      *)
(* every word and fall into none (sh.c:485).                               *)
WordsAreStrings ==
    parsed.result = "SUCCESS" =>
      LET ws == WordsOf(parsed.node)
          inLine == {i \in Starts(parsed.input) : parsed.input[i] = "w"}
      IN /\ {ws[k].start : k \in DOMAIN ws} = inLine
         /\ \A k \in 1 .. Len(ws) - 1 : ws[k].start < ws[k + 1].start
         /\ \A k \in DOMAIN ws :
              /\ parsed.line[ws[k].start + ws[k].length] = "nul"
              /\ \A i \in 0 .. ws[k].length - 1 :
                   parsed.line[ws[k].start + i] = "w"
=============================================================================
