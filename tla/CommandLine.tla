---------------------------- MODULE CommandLine ----------------------------
(***************************************************************************)
(* The tokenizer of the HTTP API (command.rs).  A line is a sequence of     *)
(* lexemes: a run of ordinary characters, whitespace, a quote, a backslash. *)
(* An argument is the sequence of lexemes it was put together from.         *)
(***************************************************************************)
EXTENDS Integers, Sequences

SeqOps == INSTANCE SequencesExt

CONSTANTS
    MAX_COMMAND_LENGTH,      \* in lexemes
    MAX_ARGUMENTS

ASSUME LineAssumption ==
    /\ MAX_COMMAND_LENGTH \in Nat
    /\ MAX_ARGUMENTS \in Nat

Whitespace == {" ", "\n", "\r", "\t"}
Quotes == {"'", "\""}
Backslash == "\\"

Unescape(c) ==
    IF c = "n" THEN "\n" ELSE IF c = "r" THEN "\r" ELSE IF c = "t" THEN "\t" ELSE c

\* The scanner before the first character: the argument that is being put
\* together, whether one has been started, the open quote, a pending escape.
ScanStart == [arguments |-> <<>>, current |-> <<>>, started |-> FALSE,
              quote |-> "", escape |-> FALSE]

Take(s, c) == [s EXCEPT !.current = Append(@, c), !.started = TRUE]

\* Mutant: the text of an argument is left behind for the next one.
EndArgument_KeepsText(s) ==
    IF s.started
    THEN [s EXCEPT !.arguments = Append(@, s.current), !.started = FALSE]
    ELSE s

EndArgument(s) ==
    IF s.started
    THEN [s EXCEPT !.arguments = Append(@, s.current), !.current = <<>>,
                   !.started = FALSE]
    ELSE s

\* One character: between single quotes only the quote is special, between
\* double quotes the backslash is special too.
Scan(s, c) ==
    IF s.escape THEN Take([s EXCEPT !.escape = FALSE], Unescape(c))
    ELSE IF c = Backslash /\ s.quote # "'" THEN [s EXCEPT !.escape = TRUE]
    ELSE IF s.quote # "" /\ c = s.quote THEN [s EXCEPT !.quote = ""]
    ELSE IF s.quote = "" /\ c \in Quotes
    THEN [s EXCEPT !.quote = c, !.started = TRUE]
    ELSE IF s.quote = "" /\ c \in Whitespace THEN EndArgument(s)
    ELSE Take(s, c)

\* A run of characters, from some state of the scanner on.
ScanFrom(start, line) ==
    LET scan[i \in 0..Len(line)] ==
            IF i = 0 THEN start ELSE Scan(scan[i - 1], line[i])
    IN  scan[Len(line)]

Scanned(line) == ScanFrom(ScanStart, line)

\* The arguments of a line, and whether parse accepts it.
Parse(line) == EndArgument(Scanned(line)).arguments

Parses(line) ==
    /\ Len(line) <= MAX_COMMAND_LENGTH
    /\ ~Scanned(line).escape
    /\ Scanned(line).quote = ""
    /\ Len(Parse(line)) \in 1..MAX_ARGUMENTS

-----------------------------------------------------------------------------
(* The inverse, for the properties: a line that is typed for an argument list *)

\* Double quotes, and a backslash where needed.
Escaped(c) == IF c \in {"\"", Backslash} THEN <<Backslash, c>> ELSE <<c>>
EscapedText(argument) ==
    SeqOps!FlattenSeq([i \in DOMAIN argument |-> Escaped(argument[i])])
Quoted(argument) == <<"\"">> \o EscapedText(argument) \o <<"\"", " ">>

Quote(arguments) ==
    SeqOps!FlattenSeq([i \in DOMAIN arguments |-> Quoted(arguments[i])])
============================================================================
