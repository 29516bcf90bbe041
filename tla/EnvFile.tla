------------------------------- MODULE EnvFile -------------------------------
(***************************************************************************)
(* What envfile.Parse finds in a shell env file (internal/envfile).  A     *)
(* file is a sequence of bytes, of which only those the scanner tells      *)
(* apart are here; a run of letters stands for itself, and the word export *)
(* is one of them.  Why a value is not known is left out: known says       *)
(* whether it is.  The scanner's position is an index into the file, past  *)
(* its end when there is nothing left.                                     *)
(***************************************************************************)
EXTENDS Naturals, Sequences, FiniteSetsExt

NL == "\n"
BQ == "backquote"
Letters == {"A", "B", "x", "export"}
Blanks == {" "}
Operators == {";", "&", "(", ")"}
Eof == "eof"

At(s, i) == IF i <= Len(s) THEN s[i] ELSE Eof

\* A piece of a word: where it ends, its value, and whether that is known.
Piece(pos, text, known) == [pos |-> pos, text |-> text, known |-> known]
Prefixed(c, w) == [w EXCEPT !.text = <<c>> \o @]
Unknown(w) == [w EXCEPT !.known = FALSE]

PastAll(s, i, S) == Min({j \in i..(i + Len(s)) : At(s, j) \notin S})
PastNext(s, i, q) == Min({j + 1 : j \in {k \in i..Len(s) : s[k] = q}} \cup {Len(s) + 1})

Blank(s, i) == PastAll(s, i, Blanks)
Name(s, i) == PastAll(s, i, Letters)
Comment(s, i) == Min({j \in i..(i + Len(s)) : At(s, j) \in {NL, Eof}})

RECURSIVE Escaped(_, _, _), Balanced(_, _, _, _), DoubleQuoted(_, _), Expansion(_, _)

\* Past q, a backslash hiding the byte after it: $'...' and backquotes.
Escaped(s, i, q) ==
  CASE At(s, i) = Eof  -> Len(s) + 1
    [] At(s, i) = "\\" -> Escaped(s, i + 2, q)
    [] At(s, i) = q    -> i + 1
    [] OTHER           -> Escaped(s, i + 1, q)

Closing(open) == IF open = "(" THEN ")" ELSE "}"

\* Past the bracket that closes the one i is in, depth deep.
Balanced(s, i, open, depth) ==
  CASE At(s, i) = Eof  -> Len(s) + 1
    [] At(s, i) = open -> Balanced(s, i + 1, open, depth + 1)
    [] At(s, i) = Closing(open) ->
         IF depth = 1 THEN i + 1 ELSE Balanced(s, i + 1, open, depth - 1)
    [] At(s, i) = "\\" -> Balanced(s, i + 2, open, depth)
    [] At(s, i) = "'"  -> Balanced(s, PastNext(s, i + 1, "'"), open, depth)
    [] At(s, i) = "\"" -> Balanced(s, DoubleQuoted(s, i + 1).pos, open, depth)
    [] OTHER           -> Balanced(s, i + 1, open, depth)

\* Past the expansion at i, or i itself when its $ stands for itself.
Expansion(s, i) ==
  CASE At(s, i) = BQ               -> Escaped(s, i + 1, BQ)
    [] At(s, i + 1) \in {"(", "{"} -> Balanced(s, i + 1, At(s, i + 1), 0)
    [] At(s, i + 1) \in Letters    -> Name(s, i + 1)
    [] At(s, i + 1) \in {"#", "$"} -> i + 2
    [] OTHER                       -> i

DoubleQuoted(s, i) ==
  LET c == At(s, i)
      n == At(s, i + 1)
  IN  CASE c = Eof  -> Piece(i, <<>>, FALSE)
        [] c = "\"" -> Piece(i + 1, <<>>, TRUE)
        [] c = "\\" ->
             IF n = NL THEN DoubleQuoted(s, i + 2)
             ELSE IF n \in {"$", BQ, "\"", "\\"} THEN Prefixed(n, DoubleQuoted(s, i + 2))
             ELSE Prefixed("\\", DoubleQuoted(s, i + 1))
        [] c \in {"$", BQ} ->
             IF Expansion(s, i) = i THEN Prefixed(c, DoubleQuoted(s, i + 1))
             ELSE Unknown(DoubleQuoted(s, Expansion(s, i)))
        [] OTHER -> Prefixed(c, DoubleQuoted(s, i + 1))

RECURSIVE Word(_, _, _), SkipStatement(_, _)

\* tilde says whether one here would be expanded.
Word(s, i, tilde) ==
  LET c == At(s, i)
      q == DoubleQuoted(s, i + 1)
      e == PastNext(s, i + 1, "'")
      rest(j) == Word(s, j, c = ":")
  IN  CASE c \in {Eof, NL} \cup Blanks \cup Operators -> Piece(i, <<>>, TRUE)
        [] c = "~" /\ tilde -> Unknown(rest(i + 1))
        [] c = "'"  ->
             IF At(s, e - 1) = "'" /\ e > i + 1
             THEN [rest(e) EXCEPT !.text = SubSeq(s, i + 1, e - 2) \o @]
             ELSE Unknown(rest(e))
        [] c = "\"" ->
             LET w == [rest(q.pos) EXCEPT !.text = q.text \o @]
             IN  IF q.known THEN w ELSE Unknown(w)
        [] c = "\\" ->
             IF At(s, i + 1) = NL THEN rest(i + 2)
             ELSE IF At(s, i + 1) = Eof THEN Prefixed("\\", rest(i + 1))
             ELSE Prefixed(At(s, i + 1), rest(i + 2))
        [] c = "$" /\ At(s, i + 1) = "'" -> Unknown(rest(Escaped(s, i + 2, "'")))
        [] c \in {"$", BQ} /\ Expansion(s, i) # i -> Unknown(rest(Expansion(s, i)))
        [] OTHER -> Prefixed(c, rest(i + 1))

WordStart(s, i) == i = 1 \/ s[i - 1] \in {NL} \cup Blanks \cup Operators

\* The newline that ends the statement i is in, or the end of the file.
SkipStatement(s, i) ==
  LET c == At(s, i)
  IN  CASE c \in {Eof, NL} -> i
        [] c = "#" /\ WordStart(s, i) -> Comment(s, i)
        [] c = "'"  -> SkipStatement(s, PastNext(s, i + 1, "'"))
        [] c = "\"" -> SkipStatement(s, DoubleQuoted(s, i + 1).pos)
        [] c = "\\" -> SkipStatement(s, Min({i + 2, Len(s) + 1}))
        [] c = "$" /\ At(s, i + 1) = "'" -> SkipStatement(s, Escaped(s, i + 2, "'"))
        [] c \in {"$", BQ} /\ Expansion(s, i) # i -> SkipStatement(s, Expansion(s, i))
        [] OTHER -> SkipStatement(s, i + 1)

BugAnyRest(s, i) == TRUE

\* Whether only a comment or the end of the line follows.
EndOfStatement(s, i) ==
  LET j == Blank(s, i)
      k == IF At(s, j) = ";" THEN Blank(s, j + 1) ELSE j
  IN  At(s, k) \in {Eof, NL, "#"}

\* The statement at i: its name is empty when it is not an assignment.
Statement(s, i) ==
  LET from == IF At(s, i) = "export" /\ At(s, i + 1) \in Blanks THEN Blank(s, i + 1) ELSE i
      eq   == Name(s, from)
      w    == Word(s, eq + 1, TRUE)
      known == w.known /\ EndOfStatement(s, w.pos)
  IN  IF eq > from /\ At(s, eq) = "="
      THEN [name |-> SubSeq(s, from, eq - 1), known |-> known,
            value |-> IF known THEN w.text ELSE <<>>, end |-> SkipStatement(s, w.pos)]
      ELSE IF eq > from /\ At(s, eq) = "+" /\ At(s, eq + 1) = "="
      THEN [name |-> SubSeq(s, from, eq - 1), known |-> FALSE, value |-> <<>>,
            end |-> SkipStatement(s, eq)]
      ELSE [name |-> <<>>, known |-> FALSE, value |-> <<>>, end |-> SkipStatement(s, eq)]

Line(s, i) == 1 + Cardinality({j \in 1..(i - 1) : s[j] = NL})

\* The names a statement that stays in the file may expand, $NAME or ${NAME}.
Refs(s, from, end) ==
  LET starts == {IF At(s, j + 1) = "{" THEN j + 2 ELSE j + 1 : j \in {k \in from..(end - 1) : s[k] = "$"}}
  IN  {SubSeq(s, i, Name(s, i) - 1) : i \in {j \in starts : j < end /\ s[j] \in Letters}}

RECURSIVE Statements(_, _)

\* Parse, from i: the assignments, and the names expanded by what is not one
\* or is not known.
Statements(s, i) ==
  LET b == Blank(s, i)
      a == Statement(s, b)
      skip(j) == Statements(s, j)
  IN  CASE b > Len(s)       -> [assignments |-> <<>>, refs |-> {}]
        [] At(s, b) = NL    -> skip(b + 1)
        [] At(s, b) = "#"   -> skip(Comment(s, b) + 1)
        [] OTHER ->
             LET rest == skip(a.end + 1)
                 last == IF a.end > 1 /\ At(s, a.end - 1) = NL THEN a.end - 1 ELSE a.end
             IN  [assignments |->
                    (IF a.name = <<>> THEN <<>>
                     ELSE <<[name |-> a.name, known |-> a.known, value |-> a.value,
                             first |-> Line(s, b), last |-> Line(s, last)]>>) \o rest.assignments,
                  refs |-> (IF a.known THEN {} ELSE Refs(s, b, a.end)) \cup rest.refs]

Parse(s) == Statements(s, 1)

=============================================================================
