------------------------------- MODULE MCImport -------------------------------
(***************************************************************************)
(* The statements a file is made of, each with what a POSIX shell makes of *)
(* it.  A word is a sequence of pieces; a piece is its text, the value the *)
(* shell gives it, whether that can be told without running the shell, and *)
(* the names the shell expands in it.                                      *)
(***************************************************************************)
EXTENDS Import

CONSTANT MaxPieces

P(text, value) == [text |-> text, value |-> value, known |-> TRUE, uses |-> {}]
U(text, uses)  == [text |-> text, value |-> <<>>, known |-> FALSE, uses |-> uses]
A == <<"A">>

Letter  == P(<<"x">>, <<"x">>)
Hash    == P(<<"#">>, <<"#">>)
Colon   == P(<<":">>, <<":">>)
Tilde   == U(<<"~">>, {})
Dollar  == P(<<"$">>, <<"$">>)
Ref     == U(<<"$", "A">>, {A})
Joined  == P(<<"\\", NL>>, <<>>)

Pieces ==
  { Letter, Hash, Colon, Tilde, Dollar, Ref, Joined,
    P(<<"'", "$", "A", "\\", NL, "\"", "'">>, <<"$", "A", "\\", NL, "\"">>),
    P(<<"\"", "\"">>, <<>>),
    P(<<"\"", "#", NL, "'", "\"">>, <<"#", NL, "'">>),
    P(<<"\"", "\\", "\"", "\\", "x", "\\", NL, "$", "\"">>, <<"\"", "\\", "x", "$">>),
    P(<<"\"", "\\", "$", "A", "\\", "\\", "\"">>, <<"$", "A", "\\">>),
    U(<<"\"", "$", "A", "\"">>, {A}),
    U(<<"\"", "$", "(", "x", " ", "\"", ")", "\"", ")", "\"">>, {}),
    P(<<"\\", "'">>, <<"'">>),
    P(<<"\\", " ">>, <<" ">>),
    U(<<"$", "(", "x", " ", "'", ")", "'", NL, ")">>, {}),
    U(<<"$", "{", "A", "}">>, {A}),
    U(<<BQ, "x", "\\", BQ, NL, BQ>>, {}),
    U(<<"$", "'", "\\", "'", "'">>, {}) }

\* A $ stands for itself at the end of a word; letters after $A would be part
\* of the name; the ~ of a continued line is left out.
Follows(p, q) ==
  /\ p # Dollar
  /\ ~(p = Ref /\ q = Letter)
  /\ ~(p = Joined /\ q = Tilde)

Simple == {Letter, Ref, P(<<"'", NL, "'">>, <<NL>>)}

Words ==
  {w \in UNION {[1..n -> Simple \cup Pieces] : n \in 0..MaxPieces} :
     \A k \in 2..Len(w) : Follows(w[k - 1], w[k])}

\* A tilde is one only at the start of a value and after an unquoted colon.
PieceAt(w, k) ==
  IF w[k] = Tilde /\ k > 1 /\ w[k - 1] # Colon THEN P(<<"~">>, <<"~">>) ELSE w[k]

Endings ==
  { [text |-> <<>>, assigns |-> TRUE, alone |-> TRUE],
    [text |-> <<" ", "#", " ", "'", "\\">>, assigns |-> TRUE, alone |-> TRUE],
    [text |-> <<";", "#", "\"">>, assigns |-> TRUE, alone |-> TRUE],
    [text |-> <<";", "x">>, assigns |-> TRUE, alone |-> FALSE],
    [text |-> <<" ", "x">>, assigns |-> FALSE, alone |-> FALSE] }

Cost(export, w, e) ==
  (IF w = <<>> THEN 1 ELSE 0) + (IF export THEN 1 ELSE 0) + (IF e.text = <<>> THEN 0 ELSE 1)
    + FoldSeq(LAMBDA p, m : m + IF p \in Simple THEN 1 ELSE 2, 0, w)

Assignment(n, export, w, e) ==
  LET pieces == [k \in 1..Len(w) |-> PieceAt(w, k)]
      texts  == FlattenSeq([k \in 1..Len(w) |-> w[k].text])
      values == FlattenSeq([k \in 1..Len(w) |-> pieces[k].value])
      known  == \A k \in 1..Len(w) : pieces[k].known
  IN  [text  |-> (IF export THEN <<"export", " ">> ELSE <<>>) \o n \o <<"=">> \o texts \o e.text,
       name  |-> IF e.assigns THEN n ELSE <<>>,
       value |-> IF e.assigns /\ known THEN values ELSE <<>>,
       known |-> e.assigns /\ known,
       uses  |-> UNION {w[k].uses : k \in 1..Len(w)},
       alone |-> e.alone,
       size  |-> Cost(export, w, e)]

Other(text, uses, size) ==
  [text |-> text, name |-> <<>>, value |-> <<>>, known |-> FALSE, uses |-> uses,
   alone |-> FALSE, size |-> size]

\* Comments, commands that quote, continue or expand, and an append.
Others ==
  { Other(<<>>, {}, 1),
    Other(<<"#", " ", "$", "A", "'", "\\">>, {}, 2),
    Other(<<" ", "#", "A", "=", "x", "\"">>, {}, 2),
    Other(<<"x", " ", "$", "A">>, {A}, 1),
    Other(<<"x", " ", "\"", "$", "{", "A", "}", "\"">>, {A}, 2),
    Other(<<"x", " ", "'", NL, "A", "=", "x", NL, "'">>, {}, 2),
    Other(<<"x", "#", "'", NL, "A", "=", "x", "'">>, {}, 2),
    Other(<<"x", " ", "\\", NL, "A", "=", "x">>, {}, 2),
    Other(<<"x", " ", "\"", "$", "(", "x", NL, "\"", "A", "=", "x", "\"", ")", "\"">>, {}, 2),
    Other(<<"x", " ", "$", "(", NL, "A", "=", "x", NL, ")">>, {}, 2),
    Other(<<"(", "x", ")", "#", "'">>, {}, 2),
    Other(<<"export", " ", "A">>, {}, 2),
    [Other(<<"A", "+", "=", "x", "'", NL, "'">>, {}, 1) EXCEPT !.name = A] }

\* A is given every word that fits, other names a few.
Assignments ==
  {Assignment(A, a[1], a[2], a[3]) :
     a \in {x \in BOOLEAN \X Words \X Endings : Cost(x[1], x[2], x[3]) <= MaxSize}}
  \cup {Assignment(n, FALSE, <<p>>, e) :
          n \in {<<"B">>, <<"x">>}, p \in {Letter, Ref}, e \in Endings}

AllStatements == Assignments \cup Others

Runs ==
  { [overwrite |-> TRUE, public |-> FALSE, dry |-> FALSE],
    [overwrite |-> FALSE, public |-> TRUE, dry |-> FALSE],
    [overwrite |-> FALSE, public |-> FALSE, dry |-> TRUE] }
Before == { <<>>, A :> [value |-> <<"#">>, tier |-> "public"] }
=============================================================================
