---------------------------- MODULE MCShellSession ----------------------------
EXTENDS ShellSession
(* Every short text; longer ones of the characters that make words; chains, in *)
(* the foreground, before and behind one in the background; redirections of    *)
(* nothing in a chain.                                                         *)
CONSTANTS MaxLength, MaxWordLength
Characters     == {"a", " ", "\n", "\t", "'", "\"", "\\", "&", "|", ">", "#"}
WordCharacters == {"a", " ", "'", "\"", "\\"}
TextsOf(S, n)    == UNION {[1..k -> S] : k \in 0..n}

Logical  == {<<"&", "&">>, <<"|", "|">>}
Joins    == Logical \cup {<<"|">>, <<" ", "|", " ">>, <<" ", ">", ">", "a", "|">>}
Chain(n, joins) == {FlattenSeq([i \in 1..n |-> <<"a">> \o c[i]]) \o <<"a">> : c \in [1..n -> joins]}
Line(text) == Append(text, "\n")
MCTexts ==
  TextsOf(Characters, MaxLength) \cup TextsOf(WordCharacters, MaxWordLength)
  \cup {Line(c) : c \in Chain(3, Logical) \cup Chain(2, Joins)}
  \cup {Line(c) \o Line(d) : c \in Chain(2, Logical), d \in Chain(1, Logical)}
  \cup {<<"a", "\n">> \o c \o <<"&">> \o Line(d) : c \in Chain(1, Logical), d \in Chain(1, Logical)}
  \cup {<<"a">> \o c \o <<">", "a">> \o d : c \in Logical, d \in {<<"\n">>, <<"&", "\n", "a", "\n">>}}
MCLines ==
  [chain : {Append(c, o) : c \in UNION {[1..n -> {"and", "or"}] : n \in 0..3}, o \in Operators},
   background : BOOLEAN]
===============================================================================
