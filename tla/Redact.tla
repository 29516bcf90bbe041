-------------------------------- MODULE Redact --------------------------------
(***************************************************************************)
(* The streaming redactor between a command broker exec runs and the agent *)
(* (internal/redact): output arrives in chunks cut anywhere, and leaves    *)
(* with every secret replaced by a marker.  A Write or Close is one step.  *)
(* Its loop decides the bytes of buf from the front and stops at the first *)
(* that may start a value not all there yet; instead of running the loop,  *)
(* Flush says where it stops and what it has written by then.  What is     *)
(* written is kept by its place in the stream: the bytes let through, and  *)
(* the places of the markers.                                              *)
(***************************************************************************)
EXTENDS Integers, Sequences

CONSTANTS Bytes,
          SecretSets,  \* sets of secrets a Writer may be given
          MinLen,      \* 6
          MaxStream    \* bound: bytes of output in all

Secret == [name : Nat, value : Seq(Bytes)]

ASSUME RedactAssumption ==
  /\ \A s \in SecretSets : s \subseteq Secret
  /\ MinLen \in Nat \ {0} /\ MaxStream \in Nat

VARIABLES secrets,  \* what NewWriter was given
          buf,      \* input not yet decided
          cover,    \* how many bytes at its start a marker stands for
          closed,
          stream,   \* history: all input so far
          done,     \* history: how many bytes of it are decided
          shown,    \* history: which of them were written as they are
          marks     \* history: the markers written, and where

vars == <<secrets, buf, cover, closed, stream, done, shown, marks>>

\* NewWriter: short values are not redacted, equal ones go to the first name
\* (names stand for their place in the order).
Entries(s) ==
  {e \in s : /\ Len(e.value) >= MinLen
             /\ \A f \in s : f.value = e.value => e.name <= f.name}

Init ==
  /\ secrets \in SecretSets
  /\ buf = <<>> /\ cover = 0 /\ closed = FALSE
  /\ stream = <<>> /\ done = 0 /\ shown = {} /\ marks = {}

\* v is in b at i; or what there is of b from i on is a beginning of v.
Fits(v, b, i) ==
  /\ i + Len(v) <= Len(b) + 1
  /\ \A k \in 1..Len(v) : b[i + k - 1] = v[k]
CouldFit(v, b, i) ==
  /\ i + Len(v) > Len(b) + 1
  /\ \A k \in 1..(Len(b) + 1 - i) : b[i + k - 1] = v[k]

\* match: the values that fit at i, and the longest of them.
Matches(b, i) == {e \in Entries(secrets) : Fits(e.value, b, i)}
Longest(es) == {e \in es : \A f \in es : Len(f.value) <= Len(e.value)}

\* match: a longer value may still come.  Values are tried longest first.
Waits(b, i, final) ==
  ~final /\ \E e \in Entries(secrets) : CouldFit(e.value, b, i)

\* What the loop has covered with the markers of the first n bytes: up to
\* where, counted from b's start.
Ends(b, n) ==
  {m[1] + Len(m[2].value) - 1 :
     m \in {m \in (1..n) \X Entries(secrets) : Fits(m[2].value, b, m[1])}}
CoveredTo(b, n, c) ==
  /\ c = cover \/ c \in Ends(b, n)
  /\ cover <= c /\ \A c2 \in Ends(b, n) : c2 <= c

Covered(b, i) == i <= cover \/ \E c \in Ends(b, i - 1) : i <= c

BugNotCarried(n, c) == 0

\* max(cover-i, 0)
Carried(n, c) == IF c > n THEN c - n ELSE 0

\* flush: the first n bytes of b are decided.
Flush(b, n, final) ==
  /\ \A i \in 1..n : ~Waits(b, i, final)
  /\ n < Len(b) => Waits(b, n + 1, final)
  /\ \E c \in 0..Len(b) : CoveredTo(b, n, c) /\ cover' = Carried(n, c)
  /\ buf' = SubSeq(b, n + 1, Len(b))
  /\ done' = done + n
  /\ shown' = shown \cup
       {done + i : i \in {j \in 1..n : Matches(b, j) = {} /\ ~Covered(b, j)}}
  /\ marks' = marks \cup
       {[at |-> done + m[1], name |-> m[2].name] :
          m \in {m \in (1..n) \X Entries(secrets) :
                   m[2] \in Longest(Matches(b, m[1])) /\ ~Covered(b, m[1])}}

Write(p) ==
  /\ ~closed
  /\ stream' = stream \o p
  /\ \E n \in 0..Len(buf \o p) : Flush(buf \o p, n, FALSE)
  /\ UNCHANGED <<secrets, closed>>

\* The command has ended, so no more input can complete a value.
Close ==
  /\ ~closed /\ closed' = TRUE
  /\ \E n \in 0..Len(buf) : Flush(buf, n, TRUE)
  /\ UNCHANGED <<secrets, stream>>

Next ==
  \/ \E l \in 1..(MaxStream - Len(stream)) : \E p \in [1..l -> Bytes] : Write(p)
  \/ Close

Spec == Init /\ [][Next]_vars

-----------------------------------------------------------------------------
(* Properties.                                                             *)

TypeOK ==
  /\ secrets \in SecretSets
  /\ buf \in Seq(Bytes) /\ stream \in Seq(Bytes) /\ closed \in BOOLEAN
  /\ done \in Nat /\ cover \in 0..Len(buf)
  /\ shown \subseteq 1..done
  /\ marks \subseteq [at : 1..done, name : Nat]

\* e occurs in the output at p and has the byte at q.
Hides(e, p, q) ==
  Fits(e.value, stream, p) /\ p <= q /\ q < p + Len(e.value)

\* Whatever the chunks: of what is decided, exactly the bytes of no
\* occurrence of any value were written (also of an occurrence that is
\* completed later), and one marker for each run of occurrences that
\* overlap, named for the longest at its start (Writer).
OutputIsRedaction ==
  LET Es == Entries(secrets) IN
  /\ shown = {q \in 1..done : \A e \in Es, p \in 1..q : ~Hides(e, p, q)}
  /\ \A q \in 1..done, e \in Es :
       [at |-> q, name |-> e.name] \in marks <=>
         /\ \E f \in Longest(Matches(stream, q)) : f.name = e.name
         /\ \A f \in Es, p \in 1..(q - 1) : ~Hides(f, p, q)
  /\ closed => done = Len(stream)
=============================================================================
