--------------------------- MODULE GrantAgentCalls ---------------------------
(***************************************************************************)
(* GrantAgent with the history that shows it to implement AgentStore: what *)
(* has taken effect, and what each read under way could have found.        *)
(*                                                                         *)
(* What an add or a revoke does, it does when it is handled by an agent    *)
(* that listens.  Calls that such an agent has accepted when it closes its *)
(* socket go on in its memory, which nobody else can reach any more: those *)
(* have taken effect by then, just before the store was lost.              *)
(***************************************************************************)
EXTENDS GrantAgent

VARIABLES took,  \* history: adds and revokes that have taken effect
          seen   \* history: for each read, what it could have found

\* What a call made now finds.
Holds ==
  IF Reachable /\ agent[sock].held # None /\ grant[agent[sock].held].life = "live"
  THEN agent[sock].held ELSE None

Writers == Adders \cup Revokers

\* Accepted by an agent that stops listening in this step and goes on.
Overtaken ==
  {c \in Writers : /\ conn[c].st = "accepted"
                   /\ agent[conn[c].to].pc = "serving" /\ agent'[conn[c].to].pc = "closed"}

\* A revoke that finds no agent is done with that.
TakeNow ==
  {c \in Writers : HandledNow(c)} \cup Overtaken
    \cup {c \in Revokers : client[c].pc = "idle" /\ client'[c].pc = "done"}

Seen(c) ==
  IF client'[c].pc # "waiting" THEN {}
  ELSE IF client[c].pc = "idle" THEN {Holds'}
  ELSE seen[c] \cup {Holds'} \cup (Overtaken \cap Adders)

Noted ==
  /\ took' = took \cup TakeNow
  /\ seen' = [c \in Readers |-> Seen(c)]

CallsInit == Init /\ took = {} /\ seen = [c \in Readers |-> {}]

callVars == <<vars, took, seen>>

CallsNext == Next /\ Noted

CallsSpec == CallsInit /\ [][CallsNext]_callVars

\* What the caller knows of its call.
Phase(c) == IF client[c].pc \in {"poll", "waiting"} THEN "asked" ELSE client[c].pc

Store ==
  INSTANCE AgentStore WITH held <- Holds, st <- [c \in Clients |-> Phase(c)],
                           got <- [c \in Readers |-> client[c].got]

\* The agents of a user are to their callers one store that does each thing
\* it is asked for at one moment, whatever starts, closes, is killed or is
\* late: this is what Grants takes for one variable (agent.go, grantd.go).
StoreSpec == Store!Spec
=============================================================================
