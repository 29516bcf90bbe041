------------------------------- MODULE MCRedact -------------------------------
(***************************************************************************)
(* Redact with every pair of secrets over two bytes, up to four long: one  *)
(* inside the other, overlapping, overlapping itself, equal, too short.    *)
(***************************************************************************)
EXTENDS RedactLoop

CONSTANT MaxValue

Values == UNION {[1..l -> Bytes] : l \in 1..MaxValue}
Pairs == {{[name |-> 1, value |-> v], [name |-> 2, value |-> w]} :
            v \in Values, w \in Values}
=============================================================================
