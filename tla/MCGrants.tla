------------------------------ MODULE MCGrants ------------------------------
(***************************************************************************)
(* Grants for TLC, on both kinds of platform, chosen when a behaviour      *)
(* begins: with the kernel keyring, as the cfg has it, and with the grant  *)
(* agent alone, with kills and one more write instead of a key quota.      *)
(* There every exec is like one in a sandbox, which sees the agent alone.  *)
(* Approvers are interchangeable: they start alike and nothing in the      *)
(* model tells one from another.                                           *)
(***************************************************************************)
EXTENDS Grants, TLC

VARIABLE platform

AgentAlone ==
  INSTANCE Grants WITH HasKernel <- FALSE, Faults <- {"agent", "crash"}, MaxWrites <- MaxWrites + 1

PlatformInit == platform \in {"linux", "other"} /\ Init

\* Bound: a behaviour has one exec and ends with it.  A reader changes
\* nothing but its own record, so what another would read is explored with
\* the other alone, and what would come next with an exec that has not begun.
Reading == \A e \in Readers : reader[e].pc \notin {"running", "refused", "failed"}

OneReads == \A e, f \in Readers : reader[e].pc = "idle" \/ reader[f].pc = "idle" \/ e = f

\* With the kernel, an exec that ends without running is left out: it changes
\* nothing, and nothing is said of it.
EndsInRun == \A e \in Readers : reader[e].pc \notin {"refused", "failed"}

\* Bound: with the kernel, one of the approvers' grants does not fail.
OneGrantHolds ==
  \E g \in Approvers : grant[g].pc \notin {"failed", "undo", "unlink", "undone"}

\* Bound: a file comes back only where the exec is one that sees the agent
\* alone; what is said of the others is proved whatever comes back.
CameTwice == \E w \in DOMAIN writes, x \in DOMAIN writes : w < x /\ writes[w] = writes[x]

AgentSeesBack == CameTwice => \A e \in Execs : reader[e].pc = "idle"

PlatformNext ==
  /\ Reading
  /\ \/ platform = "linux" /\ Next /\ EndsInRun' /\ OneGrantHolds'
     \/ platform = "other" /\ AgentAlone!Next /\ \A e \in Execs : reader'[e].pc = "idle"
  /\ OneReads' /\ AgentSeesBack'
  /\ UNCHANGED platform

BoundedSpec == PlatformInit /\ [][PlatformNext]_<<vars, platform>>

ApproversAlike == Permutations(Approvers)
=============================================================================
