---------------------------- MODULE MCGrantAgent ----------------------------
(* Calls for the model checker's runs of liveness: two of any kinds, or    *)
(* one of each.  The others came before any agent: a read or a revoke      *)
(* found none, an add could not start one.                                 *)
EXTENDS GrantAgent, FiniteSets

CalledBefore(c) ==
  [NotCalled EXCEPT !.pc = IF c \in Adders THEN "failed" ELSE "done"]

Two(calls) == Cardinality(calls) = 2

OneOfEach(calls) ==
  /\ Cardinality(calls) = 3
  /\ \A kind \in {Adders, Readers, Revokers} : calls \cap kind # {}

FewInit ==
  /\ NoAgentYet
  /\ \E few \in SUBSET Clients :
       /\ Two(few) \/ OneOfEach(few)
       /\ client = [c \in Clients |-> IF c \in few THEN NotCalled ELSE CalledBefore(c)]

FewSpec == FewInit /\ [][Next]_vars /\ Fairness
=============================================================================
