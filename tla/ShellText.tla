------------------------------ MODULE ShellText ------------------------------
(***************************************************************************)
(* How the shell of 2/ reads what is typed: tokenize_command (parser.c)     *)
(* makes tokens of the characters up to the end of a line or an &, and      *)
(* evaluate (evaluator.c) cuts the tokens into entries, pipelines and       *)
(* programs.  Both are functions of the text; the text is a sequence of     *)
(* characters, a position in it is what stdin has come to.                  *)
(*                                                                          *)
(* What evaluate does with a line bash would refuse (a |, &&, || or & with  *)
(* nothing before it, a redirection to nothing) is not modelled.            *)
(***************************************************************************)
EXTENDS Naturals, Sequences, FiniteSets, SequencesExt

EOF == "EOF"
Char(text, i) == IF i <= Len(text) THEN text[i] ELSE EOF

is_word_end(c) == c \in {"&", "|", ">", " ", "\t", "\r", "\n", EOF}

(* Where a loop over the characters comes to, with what it has put into the   *)
(* string on its way.  A loop that waits for a character that never comes     *)
(* reads EOF for ever.                                                        *)
Never == 0
Read(string, next) == [string |-> string, next |-> next]
With(string, read) == [read EXCEPT !.string = string \o @]

Find(text, c, i) ==
  LET places == {j \in i..Len(text) : text[j] = c}
  IN IF places = {} THEN Never ELSE CHOOSE j \in places : \A k \in places : j <= k

SingleQuoted(text, i) ==
  LET close == Find(text, "'", i)
  IN IF close = Never THEN Read(<<>>, Never) ELSE Read(SubSeq(text, i, close - 1), close + 1)

\* mutant: a backslash is dropped before every character
EscapeDropped(c) == IF c = "\n" THEN <<>> ELSE <<c>>
EscapedInDouble(c) ==
  IF c \in {"\"", "\\"} THEN <<c>> ELSE IF c = "\n" THEN <<>> ELSE <<"\\", c>>

DoubleQuoted(text, i) ==
  LET from[j \in i..(Len(text) + 2)] ==
        IF Char(text, j) = EOF THEN Read(<<>>, Never)
        ELSE IF text[j] = "\"" THEN Read(<<>>, j + 1)
        ELSE IF text[j] = "\\" THEN With(EscapedInDouble(Char(text, j + 1)), from[j + 2])
        ELSE With(<<text[j]>>, from[j + 1])
  IN from[i]

(* A word.  A round of the loop takes a part in single quotes, then one in    *)
(* double quotes, then one character: a quote behind such a part is that      *)
(* character.                                                                 *)
Word(text, i) ==
  LET from[j \in i..(Len(text) + 2)] ==
        LET single == IF Char(text, j) = "'" THEN SingleQuoted(text, j + 1) ELSE Read(<<>>, j)
            double == IF single.next # Never /\ Char(text, single.next) = "\""
                      THEN DoubleQuoted(text, single.next + 1) ELSE Read(<<>>, single.next)
            k      == double.next
            quoted == single.string \o double.string
        IN IF k = Never \/ is_word_end(Char(text, k)) THEN Read(quoted, k)
           ELSE IF text[k] # "\\" THEN With(Append(quoted, text[k]), from[k + 1])
           ELSE IF Char(text, k + 1) = "\n" THEN With(quoted, from[k + 2])
           ELSE With(Append(quoted, Char(text, k + 1)), from[k + 2])
  IN from[i]

(* The tokens of a line: [type, value] each, where it ends, and how: "line",  *)
(* "eof", or "stuck" in a loop that does not end or in strdup(NULL), which is *)
(* called for a word of no characters.                                        *)
Token(type, value) == [type |-> type, value |-> value]
Tokens(tokens, next, how) == [tokens |-> tokens, next |-> next, how |-> how]
Then(token, rest) == [rest EXCEPT !.tokens = <<token>> \o @]

tokenize_command(text, i) ==
  LET from[j \in i..(Len(text) + 2)] ==
        LET k == CHOOSE n \in j..(Len(text) + 2) :
                   Char(text, n) # " " /\ \A m \in j..(n - 1) : Char(text, m) = " "
            c == Char(text, k)
            doubled == Char(text, k + 1) = c
            newline == Find(text, "\n", k)
            word    == Word(text, k)
        IN IF c = EOF THEN Tokens(<<>>, k, "eof")
           ELSE IF c = "&" /\ ~doubled THEN Tokens(<<Token("&", <<>>)>>, k + 1, "line")
           ELSE IF c \in {"&", "|", ">"} /\ doubled THEN Then(Token(c \o c, <<>>), from[k + 2])
           ELSE IF c \in {"|", ">"} THEN Then(Token(c, <<>>), from[k + 1])
           ELSE IF c = "\n" THEN Tokens(<<>>, k + 1, "line")
           ELSE IF c = "#" THEN Tokens(<<>>, newline + 1, IF newline = Never THEN "stuck" ELSE "line")
           ELSE IF word.next = Never \/ word.string = <<>> THEN Tokens(<<>>, k, "stuck")
           ELSE Then(Token("word", word.string), from[word.next])
  IN from[i]

(* The cutting of evaluate, init_pipe_list and init_program.  A separator at  *)
(* the end is followed by nothing.                                            *)
is_logical(type)     == type \in {"&&", "||"}
is_redirection(type) == type \in {">", ">>"}

InOrder(S) == [n \in 1..Cardinality(S) |-> CHOOSE i \in S : Cardinality({j \in S : j <= i}) = n]

Pieces(tokens, separators) ==
  LET cuts == {i \in 1..Len(tokens) : tokens[i].type \in separators}
      ends == InOrder(cuts \cup {Len(tokens)})
  IN [n \in 1..Len(ends) |->
        SubSeq(tokens, IF n = 1 THEN 1 ELSE ends[n - 1] + 1,
               IF ends[n] \in cuts THEN ends[n] - 1 ELSE ends[n])]

Values(tokens) == [i \in 1..Len(tokens) |-> tokens[i].value]

\* mutant: > appends as >> does
AlwaysAppends(type) == TRUE
is_redirection_append(type) == type = ">>"

init_program(tokens) ==
  LET places == {i \in 1..Len(tokens) : is_redirection(tokens[i].type)}
      i      == CHOOSE n \in places : \A m \in places : n <= m
  IN IF places = {} THEN [argv |-> Values(tokens), output |-> <<>>, append |-> FALSE]
     ELSE [argv   |-> Values(SubSeq(tokens, 1, i - 1)),
           output |-> tokens[i + 1].value,
           append |-> is_redirection_append(tokens[i].type)]

init_pipe_list(tokens) ==
  LET pieces == Pieces(tokens, {"|"})
  IN [n \in 1..Len(pieces) |-> init_program(pieces[n])]

OperatorAfter(tokens, n) ==
  LET logical == SelectSeq(tokens, LAMBDA token : is_logical(token.type))
  IN IF n > Len(logical) THEN "null" ELSE IF logical[n].type = "&&" THEN "and" ELSE "or"

evaluate(tokens) ==
  LET background == tokens[Len(tokens)].type = "&"
      foreground == IF background THEN Front(tokens) ELSE tokens
      pieces     == Pieces(foreground, {"&&", "||"})
  IN [entries    |-> [n \in 1..Len(pieces) |->
                        [pipeline |-> init_pipe_list(pieces[n]),
                         operator |-> OperatorAfter(foreground, n)]],
      background |-> background]

(* A redirection at the beginning of a line: init_argv gets 0 and -1 for the  *)
(* bounds of the name before it, as size_t, and runs over the end of the      *)
(* tokens.  Anywhere else where a program would begin, it makes one without   *)
(* a name, the null pointer.                                                  *)
RunsOver(tokens) == tokens # <<>> /\ is_redirection(tokens[1].type)
Nameless(program) == program.argv = <<>>
===============================================================================
