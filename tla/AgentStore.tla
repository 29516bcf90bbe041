----------------------------- MODULE AgentStore -----------------------------
(***************************************************************************)
(* What the callers of the grant agent are promised, for one name and      *)
(* whatever processes, sockets and goroutines stand behind it: one store,  *)
(* which holds a grant or none.  An add or a revoke takes effect at one    *)
(* moment, and has when its caller hears of it; a read gets what the store *)
(* held at some moment since it was asked.  A store may lose what it       *)
(* holds, and what was asked of it may have been done just before that.    *)
(* What its caller gave up may still be done later, once.                  *)
(***************************************************************************)
EXTENDS Naturals

CONSTANTS Adders, Readers, Revokers,  \* calls, each an adder for its grant
          None                        \* no grant

VARIABLES held,  \* what the store holds
          st,    \* each call: "idle", "asked", "done" or "failed"
          took,  \* the adds and revokes that have taken effect
          seen,  \* what a read under way may answer
          got    \* what a read has answered

vars == <<held, st, took, seen, got>>

Clients == Adders \cup Readers \cup Revokers
Writers == Adders \cup Revokers

Init ==
  /\ held = None
  /\ st = [c \in Clients |-> "idle"]
  /\ took = {}
  /\ seen = [c \in Readers |-> {}]
  /\ got = [c \in Readers |-> None]

Goes(c, to) == st' = [st EXCEPT ![c] = to]

Ask(c) ==
  /\ st[c] = "idle" /\ Goes(c, "asked")
  /\ seen' = IF c \in Readers THEN [seen EXCEPT ![c] = {held}] ELSE seen
  /\ UNCHANGED <<held, took, got>>

\* What a call could have found is of no use once it is over.
Ends(c, to) ==
  /\ Goes(c, to)
  /\ seen' = [d \in Readers |-> IF d = c THEN {} ELSE seen[d]]

\* Every read under way may have come at a moment when the store held one
\* of these.
Shows(grants) ==
  seen' = [c \in Readers |-> IF st[c] = "asked" THEN seen[c] \cup grants ELSE seen[c]]

\* Asked for and not yet done, whether or not somebody waits for it still.
UnderWay(c) == c \in Writers \ took /\ st[c] \in {"asked", "failed"}

Takes(c) ==
  /\ UnderWay(c)
  /\ held' = IF c \in Adders THEN c ELSE None
  /\ took' = took \cup {c}
  /\ Shows({held'})
  /\ UNCHANGED <<st, got>>

\* A grant ends, or the store does, with some of what it was asked for done
\* just before.
Loses ==
  /\ held' = None
  /\ \E last \in SUBSET {c \in Writers : UnderWay(c)} :
       /\ took' = took \cup last
       /\ Shows({None} \cup (last \cap Adders))
  /\ UNCHANGED <<st, got>>

\* There is no store to ask: nothing is granted, and nothing to revoke.
FindsNone(c) ==
  /\ c \notin Adders /\ st[c] = "idle" /\ held = None
  /\ Ends(c, "done")
  /\ took' = took \cup ({c} \cap Writers)
  /\ UNCHANGED <<held, got>>

Returns(c) ==
  /\ st[c] = "asked" /\ Ends(c, "done")
  /\ c \in Writers => c \in took
  /\ IF c \in Readers THEN \E g \in seen[c] : got' = [got EXCEPT ![c] = g]
                      ELSE UNCHANGED got
  /\ UNCHANGED <<held, took>>

Fails(c) ==
  /\ st[c] \in {"idle", "asked"} /\ Ends(c, "failed")
  /\ UNCHANGED <<held, took, got>>

Next ==
  \/ Loses
  \/ \E c \in Clients : Ask(c) \/ Takes(c) \/ FindsNone(c) \/ Returns(c) \/ Fails(c)

Spec == Init /\ [][Next]_vars
=============================================================================
