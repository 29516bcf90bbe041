--------------------------- MODULE MCRequestQueue ---------------------------
(* Small requests for the model checker.                                   *)
EXTENDS RequestQueue

CONSTANTS r1, n1, n2

\* A short request for one name.
One == [names |-> {n1}, ttl |-> 1, extend |-> FALSE]

\* One for both, that also extends a grant it finds too short.
Both == [names |-> {n1, n2}, ttl |-> 3, extend |-> TRUE]

OneAndBoth == [r \in Requesters |-> IF r = r1 THEN {One} ELSE {One, Both}]
=============================================================================
