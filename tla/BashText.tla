------------------------------- MODULE BashText -------------------------------
(***************************************************************************)
(* How /bin/bash reads the characters the shell of 2/ knows: every character *)
(* has a context, which the characters before it give, and with it a part in *)
(* a word, or it ends one.  There are no loops over parts of words here.     *)
(* ShellText is compared with this; task_eng.txt takes bash for the measure. *)
(***************************************************************************)
EXTENDS Naturals, Sequences, FiniteSets, SequencesExt

Blanks    == {" ", "\t", "\n"}
OperatorChars == {"&", "|", ">"}

(* The context a character leaves. *)
Unquoted(context) == context \in {"out", "word"}
After(context, c) ==
  CASE Unquoted(context) /\ c \in Blanks \cup OperatorChars -> "out"
    [] context = "out" /\ c = "#"             -> "comment"
    [] Unquoted(context) /\ c = "'"           -> "single"
    [] Unquoted(context) /\ c = "\""          -> "double"
    [] context = "out" /\ c = "\\"            -> "escape"
    [] context = "word" /\ c = "\\"           -> "escape in word"
    [] context = "comment"                    -> IF c = "\n" THEN "out" ELSE "comment"
    [] context = "single" /\ c # "'"          -> "single"
    [] context = "double" /\ c = "\\"         -> "escape in double"
    [] context = "double" /\ c # "\""         -> "double"
    [] context = "escape in double"           -> "double"
    [] context = "escape" /\ c = "\n"         -> "out"
    [] OTHER                                  -> "word"

(* The contexts of a text: of each character, and of what follows it. *)
Contexts(text) ==
  LET before[i \in 1..(Len(text) + 1)] ==
        IF i = 1 THEN "out" ELSE After(before[i - 1], text[i - 1])
  IN [i \in 1..(Len(text) + 1) |-> before[i]]

(* What a character adds to the word it is in. *)
Part(context, c) ==
  CASE context \in {"escape", "escape in word"} -> IF c = "\n" THEN <<>> ELSE <<c>>
    [] context = "escape in double" ->
         IF c \in {"\"", "\\"} THEN <<c>> ELSE IF c = "\n" THEN <<>> ELSE <<"\\", c>>
    [] context = "single" -> IF c = "'" THEN <<>> ELSE <<c>>
    [] context = "double" -> IF c \in {"\"", "\\"} THEN <<>> ELSE <<c>>
    [] OTHER -> IF c \in {"'", "\"", "\\"} THEN <<>> ELSE <<c>>

Splits(text, context) ==
  {i \in 1..Len(text) :
     \/ Unquoted(context[i]) /\ text[i] \in Blanks \cup OperatorChars
     \/ context[i] = "comment" \/ (context[i] = "out" /\ text[i] = "#")}

(* The tokens of the whole text: words between splits, operators as long as   *)
(* they can be, and the ends of lines; each with its first and last place.    *)
Words(text, splits) ==
  {w \in (1..Len(text)) \X (1..Len(text)) :
     /\ w[1] <= w[2] /\ (w[1]..w[2]) \cap splits = {}
     /\ w[1] - 1 \in splits \cup {0} /\ w[2] + 1 \in splits \cup {Len(text) + 1}}

Spelled(text, context, w) ==
  FlattenSeq([i \in 1..(w[2] - w[1] + 1) |-> Part(context[w[1] + i - 1], text[w[1] + i - 1])])

(* The k-th of a run of equal operator characters begins an operator if k is  *)
(* odd, and the next one belongs to it.                                       *)
Operators(text, context) ==
  LET op(i)  == i \in 1..Len(text) /\ Unquoted(context[i]) /\ text[i] \in OperatorChars
      run(i) == Cardinality({j \in 1..i : \A k \in j..i : op(k) /\ text[k] = text[i]})
  IN {<<i, IF op(i + 1) /\ text[i + 1] = text[i] THEN i + 1 ELSE i>> :
        i \in {k \in 1..Len(text) : op(k) /\ run(k) % 2 = 1}}

Newlines(text, context) ==
  {<<i, i>> : i \in {k \in 1..Len(text) :
     text[k] = "\n" /\ (Unquoted(context[k]) \/ context[k] = "comment")}}

BashTokens(text) ==
  LET context == Contexts(text)
      words == Words(text, Splits(text, context))
      spans == words \cup Operators(text, context) \cup Newlines(text, context)
      nth(n) == CHOOSE s \in spans : Cardinality({r \in spans : r[1] <= s[1]}) = n
      token(span) ==
        IF span \in words THEN [type |-> "word", value |-> Spelled(text, context, span)]
        ELSE [type |-> IF text[span[1]] = "\n" THEN "newline"
                       ELSE IF span[1] = span[2] THEN text[span[1]]
                       ELSE text[span[1]] \o text[span[1]],
              value |-> <<>>]
  IN [n \in 1..Cardinality(spans) |-> token(nth(n))]

(* The tokens of each line, or of each part of one up to an &, if there are any. *)
BashLines(text) ==
  LET tokens  == BashTokens(text)
      ends    == {i \in 1..Len(tokens) : tokens[i].type \in {"newline", "&"}} \cup {0, Len(tokens)}
      nth(n)  == CHOOSE e \in ends : Cardinality({d \in ends : d < e}) = n
      line(n) == SelectSeq(SubSeq(tokens, nth(n - 1) + 1, nth(n)), LAMBDA t : t.type # "newline")
  IN SelectSeq([n \in 1..(Cardinality(ends) - 1) |-> line(n)], LAMBDA l : l # <<>>)

(* What bash takes for a line: what is redirected goes to a word, which may   *)
(* stand without a program, and no other operator has nothing before it.      *)
Redirections == {">", ">>"}
Grammatical(tokens) ==
  LET type == [i \in 0..(Len(tokens) + 1) |-> IF i \in 1..Len(tokens) THEN tokens[i].type ELSE "end"]
  IN \A i \in 1..Len(tokens) :
       /\ type[i] \in {"|", "||", "&&", "&"} => type[i - 1] = "word"
       /\ type[i] \in Redirections => type[i + 1] = "word"

(* A redirection of no program, which bash takes: it makes the file. *)
RedirectsNothing(tokens) ==
  \E i \in 1..Len(tokens) :
    tokens[i].type \in Redirections /\ (i = 1 \/ tokens[i - 1].type # "word")

(* Texts bash takes, without what the shell of 2/ is known to read otherwise: *)
(* a tab between words; a word of no characters; a quote right behind the end *)
(* of a quoted part, save for double after single; a line that is continued   *)
(* at a token's beginning or after an operator; the end of the text in a      *)
(* quote, an escape or a comment; words behind a redirection, save for one    *)
(* that begins the line.                                                      *)
Ordinary(text, lines) ==
  LET context   == Contexts(text)
      splits    == Splits(text, context)
      closes(i) == context[i] \in {"single", "double"} /\ context[i + 1] = "word"
      opens(i)  == context[i] = "word" /\ context[i + 1] \in {"single", "double"}
  IN /\ Unquoted(context[Len(text) + 1])
     /\ \A i \in 1..Len(text) :
          /\ i \in splits => text[i] # "\t"
          /\ ~(context[i] = "escape" /\ text[i] = "\n")
          /\ i < Len(text) /\ closes(i) /\ opens(i + 1) =>
               context[i] = "single" /\ text[i + 1] = "\""
     /\ \A w \in Words(text, splits) : Spelled(text, context, w) # <<>>
     /\ \A n \in 1..Len(lines) :
          LET type(k) == lines[n][k].type
          IN /\ Grammatical(lines[n])
             /\ type(Len(lines[n])) \notin {"|", "||", "&&"}
             /\ \A k \in 2..(Len(lines[n]) - 2) :
                  type(k) \in Redirections => type(k + 2) \notin {"word"} \cup Redirections
===============================================================================
