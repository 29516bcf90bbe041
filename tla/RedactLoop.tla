------------------------------ MODULE RedactLoop ------------------------------
(***************************************************************************)
(* The loop of redact.Writer's flush as it is written, turn by turn, to    *)
(* compare with Redact, which says of a write where it stops and what has  *)
(* left by then.  i, lit and cover count from 0 into buf, as in the code.  *)
(***************************************************************************)
EXTENDS Redact

\* match: the values at i are tried longest first; the first that is there,
\* or may still come, decides.
Tried(b, i, final) ==
  LET could == {e \in Entries(secrets) :
                  \/ Fits(e.value, b, i + 1)
                  \/ ~final /\ CouldFit(e.value, b, i + 1)}
  IN {e \in could : \A f \in could : Len(f.value) <= Len(e.value)}

\* out keeps of a byte, and of a marker, the place in the stream it stands for.
Literal(from, to) == [k \in 1..(to - from) |-> [at |-> done + from + k, name |-> -1]]
Marker(i, e) == <<[at |-> done + i + 1, name |-> e.name]>>

Longer(c, d) == IF c > d THEN c ELSE d

BugLitStays(s, c) ==
  [s EXCEPT !.i = @ + 1, !.cover = c, !.lit = IF s.i + 1 < c THEN s.i + 1 ELSE @]

\* The end of a turn: i++, and what lies under a marker is not pending output.
Advance(s, c) ==
  [s EXCEPT !.i = @ + 1, !.cover = c, !.lit = IF s.i + 1 <= c THEN s.i + 1 ELSE @]

Turn(s, b, final) ==
  LET es == Tried(b, s.i, final) IN
  CASE s.wait -> s
    [] \E e \in es : CouldFit(e.value, b, s.i + 1) -> [s EXCEPT !.wait = TRUE]
    [] es = {} -> Advance(s, s.cover)
    [] OTHER ->
         LET e == CHOOSE e \in es : TRUE
             shows == s.i >= s.cover
             written == s.out \o Literal(s.lit, s.i) \o Marker(s.i, e)
         IN Advance([s EXCEPT !.out = IF shows THEN written ELSE @],
                  Longer(s.cover, s.i + Len(e.value)))

Loop(b, final) ==
  LET after[i \in 0..Len(b)] ==
        IF i = 0 THEN [i |-> 0, lit |-> 0, cover |-> cover, out |-> <<>>, wait |-> FALSE]
        ELSE Turn(after[i - 1], b, final)
      end == after[Len(b)]
  IN [end EXCEPT !.out = @ \o Literal(end.lit, end.i)]

\* A step writes what is in out, in that order and each once; the rest of
\* b, and how far the last marker reaches into it, stay.
WritesLoop(b, final) ==
  LET l == Loop(b, final) IN
  /\ {l.out[k] : k \in DOMAIN l.out} =
       {[at |-> q, name |-> -1] : q \in shown' \ shown} \cup (marks' \ marks)
  /\ \A k \in 1..(Len(l.out) - 1) : l.out[k].at < l.out[k + 1].at
  /\ buf' = SubSeq(b, l.i + 1, Len(b))
  /\ cover' = Longer(l.cover - l.i, 0)

\* Every write and close of Redact, which is proved to redact the stream,
\* writes byte for byte what flush's loop does from the same buffer, and
\* keeps the same tail and cover: the pending run lit, a marker not written
\* under another, and the wait for a longer value included.
FlushIsLoop ==
  [][IF closed' # closed THEN WritesLoop(buf, TRUE)
     ELSE WritesLoop(buf \o SubSeq(stream', Len(stream) + 1, Len(stream')), FALSE)]_vars
=============================================================================
