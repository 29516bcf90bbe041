-------------------------- MODULE GrantAgentProofs --------------------------
(***************************************************************************)
(* Proofs about GrantAgent, for any number of calls and agents:            *)
(*   TypeCorrect           types, and every connection is to a running     *)
(*                         agent;                                          *)
(*   OneServerAlways       whoever serves holds the lock and the socket;   *)
(*   RevokeReachesAll      no read begun after a revoke returned gets what *)
(*                         the revoke was to end;                          *)
(*   DroppedForCauseHolds  a grant leaves an agent that goes on only for   *)
(*                         its own expiry or a call;                       *)
(*   StoreImplemented      to its callers all this is AgentStore.          *)
(* RevokeReachesAll needs RevokedInv: a grant a revoke is to end can only  *)
(* be held by the agent the revoke is connected to, or by one nobody can   *)
(* connect to any more.  DroppedForCauseHolds needs HeldInv: what an agent *)
(* holds is at that agent, and a timer that has fired is of a grant whose  *)
(* time is up or that was dropped.  StoreImplemented needs CallsInv: which *)
(* calls have taken effect, and what each read under way has seen.         *)
(***************************************************************************)
EXTENDS GrantAgentCalls, TLAPS

Serving(a) == agent[a].pc = "serving"

\* From the lock to its release; and the path is the server's.
LockOK ==
  \A a \in Adders :
    /\ agent[a].pc \in {"locked", "serving", "closed", "removed"} => lock = a
    /\ Serving(a) => sock = a

\* An agent that does not listen yet is new and holds nothing.
FreshOK ==
  \A a \in Adders :
    /\ client[a].pc = "idle" => agent[a].pc = "none"
    /\ agent[a].pc \in {"none", "start", "locked"} => agent[a].held = None

\* A call that is not waiting has no connection open unless it gave up.
ConnOK ==
  \A c \in Clients :
    /\ conn[c].st = "none" => conn[c] = NoConn
    /\ client[c].pc \in {"idle", "poll", "done"} => conn[c].st = "none"
    /\ client[c].pc \in {"idle", "poll"} => client[c].got = None

\* What a revoke is to end was acknowledged.
AckOK ==
  /\ gone \subseteq Acknowledged
  /\ \A r \in Revokers : client[r].before \subseteq Acknowledged
  /\ \A c \in Readers : client[c].before \subseteq gone

\* No agent that can be connected to holds a grant that is gone.
ServingFree == \A a \in Adders : Serving(a) => agent[a].held \notin gone

\* Nor, while a revoke is under way, one that it is to end, but for the
\* agent it is connected to and that has not handled it yet.
RevokingOK ==
  \A r \in Revokers, a \in Adders :
    /\ client[r].pc = "waiting" /\ conn[r].st # "none"
    /\ Serving(a) /\ agent[a].held \in client[r].before
    => conn[r].to = a /\ conn[r].st \in {"queued", "accepted"}

\* A read under way is at an agent without what was gone when it began.
ReadingOK ==
  \A c \in Readers :
    /\ conn[c].st \in {"queued", "accepted"}
         => agent[conn[c].to].held \notin client[c].before
    /\ conn[c].res \notin client[c].before
    /\ client[c].got \notin client[c].before

RevokedInv ==
  /\ TypeOK /\ LockOK /\ FreshOK /\ ConnOK /\ AckOK
  /\ ServingFree /\ RevokingOK /\ ReadingOK

-----------------------------------------------------------------------------
(* Types.                                                                  *)

\* The part of TypeOK about connections.
ConnRuns ==
  \A c \in Clients :
    conn[c].st # "none" => conn[c].to # None /\ agent[conn[c].to].pc \in Running

LEMMA InitType == Init => TypeOK
<1> SUFFICES ASSUME Init PROVE TypeOK
  OBVIOUS
<1>1. agent \in [Adders -> AgentType] /\ sock \in Marks /\ lock \in Marks
  BY DEF Init, NoAgentYet, NotCalled, NoProcess, AgentType, Marks
<1>2. client \in [Clients -> ClientType]
  BY DEF Init, NoAgentYet, NotCalled, ClientType, Marks
<1>3. conn \in [Clients -> ConnType] /\ \A c \in Clients : conn[c].st = "none"
  BY DEF Init, NoAgentYet, NotCalled, NoConn, ConnType, Marks
<1>4. grant \in [Adders -> GrantType] /\ gone \subseteq Adders
  BY DEF Init, NoAgentYet, NotCalled, NoGrant, GrantType, Marks
<1> QED
  BY <1>1, <1>2, <1>3, <1>4 DEF TypeOK

\* Moving an agent or a call on keeps its type.
LEMMA AgentGoesType ==
  ASSUME agent \in [Adders -> AgentType], NEW a,
         NEW pc \in {"none", "start", "locked", "serving", "closed", "removed",
                     "released", "gone"},
         AgentGoes(a, pc)
  PROVE  /\ agent' \in [Adders -> AgentType]
         /\ \A b \in Adders : /\ agent'[b].held = agent[b].held
                              /\ agent'[b].pc = IF b = a THEN pc ELSE agent[b].pc
  BY DEF AgentGoes, AgentType

LEMMA ClientGoesType ==
  ASSUME client \in [Clients -> ClientType], NEW c,
         NEW pc \in {"idle", "poll", "waiting", "done", "failed"},
         ClientGoes(c, pc)
  PROVE  /\ client' \in [Clients -> ClientType]
         /\ \A d \in Clients : /\ client'[d].got = client[d].got
                               /\ client'[d].before = client[d].before
                               /\ client'[d].pc = IF d = c THEN pc ELSE client[d].pc
  BY DEF ClientGoes, ClientType

\* Dropping a grant keeps the types of all.
LEMMA DropType ==
  ASSUME NEW gr \in [Adders -> GrantType], NEW g
  PROVE  Drop(gr, g) \in [Adders -> GrantType]
  BY DEF Drop, GrantType

\* The end of a process leaves no connection to it, and nothing of its
\* memory.
LEMMA EndsType ==
  ASSUME TypeOK, NEW a \in Adders, Ends(a)
  PROVE  /\ agent' \in [Adders -> AgentType]
         /\ conn' \in [Clients -> ConnType]
         /\ grant' \in [Adders -> GrantType]
         /\ ConnRuns'
         /\ agent'[a].pc = "gone" /\ agent'[a].held = None
         /\ \A b \in Adders \ {a} : agent'[b] = agent[b]
         /\ \A c \in Clients : conn'[c] \in {conn[c], NoConn}
<1>1. /\ agent' \in [Adders -> AgentType]
      /\ agent'[a].pc = "gone" /\ agent'[a].held = None
      /\ \A b \in Adders \ {a} : agent'[b] = agent[b]
  BY DEF Ends, TypeOK, AgentType, NoProcess, Marks
<1>2. /\ conn' \in [Clients -> ConnType]
      /\ \A c \in Clients : conn'[c] = IF conn[c].to = a THEN NoConn ELSE conn[c]
  BY DEF Ends, TypeOK, ConnType, NoConn, Marks
<1>3. grant' \in [Adders -> GrantType]
  BY DEF Ends, TypeOK, GrantType, NoGrant, Marks
<1>4. ConnRuns'
  <2> SUFFICES ASSUME NEW c \in Clients, conn'[c].st # "none"
               PROVE  conn'[c].to # None /\ agent'[conn'[c].to].pc \in Running
    BY DEF ConnRuns
  <2>1. conn[c].to # a /\ conn'[c] = conn[c]
    BY <1>2 DEF NoConn
  <2>2. conn[c].to # None /\ agent[conn[c].to].pc \in Running /\ conn[c].to \in Adders
    BY <2>1 DEF TypeOK, ConnType, Marks
  <2> QED
    BY <1>1, <2>1, <2>2
<1> QED
  BY <1>1, <1>2, <1>3, <1>4

LEMMA AgentStepType ==
  ASSUME TypeOK, NEW a \in Adders, Agent(a) \/ Signalled(a) \/ AgentDies(a)
  PROVE  TypeOK'
<1> USE DEF Marks
<1>0. agent \in [Adders -> AgentType] /\ ConnRuns /\ conn \in [Clients -> ConnType]
  BY DEF TypeOK, ConnRuns
<1>1. ASSUME TakeLock(a) PROVE TypeOK'
  <2>1. agent' \in [Adders -> AgentType] /\ ConnRuns'
    BY <1>0, <1>1, AgentGoesType DEF TakeLock, ConnRuns, ConnType, Running
  <2> QED
    BY <1>1, <2>1 DEF TakeLock, TypeOK, ConnRuns
<1>2. ASSUME LockTaken(a) PROVE TypeOK'
  <2>1. agent' \in [Adders -> AgentType] /\ ConnRuns'
    BY <1>0, <1>2, AgentGoesType DEF LockTaken, ConnRuns, ConnType, Running
  <2> QED
    BY <1>2, <2>1 DEF LockTaken, TypeOK, ConnRuns
<1>3. ASSUME Listen(a) PROVE TypeOK'
  <2>1. agent' \in [Adders -> AgentType] /\ ConnRuns'
    BY <1>0, <1>3, AgentGoesType DEF Listen, ConnRuns, ConnType, Running
  <2> QED
    BY <1>3, <2>1 DEF Listen, TypeOK, ConnRuns
<1>4. ASSUME IdleSeen(a) PROVE TypeOK'
  <2>1. agent' \in [Adders -> AgentType] /\ \A b \in Adders : agent'[b].pc = agent[b].pc
    BY <1>0, <1>4 DEF IdleSeen, AgentType
  <2>2. ConnRuns'
    BY <1>0, <1>4, <2>1 DEF IdleSeen, ConnRuns, ConnType
  <2> QED
    BY <1>4, <2>1, <2>2 DEF IdleSeen, TypeOK, ConnRuns
<1>5. ASSUME Close(a) PROVE TypeOK'
  <2>1. /\ agent' \in [Adders -> AgentType]
        /\ \A b \in Adders : agent[b].pc \in Running => agent'[b].pc \in Running
    BY <1>0, <1>5 DEF Close, AgentType, Running
  <2>2. /\ conn' \in [Clients -> ConnType]
        /\ \A c \in Clients : conn'[c] \in {conn[c], NoConn}
    BY <1>0, <1>5 DEF Close, ConnType, NoConn
  <2>3. ConnRuns'
    BY <1>0, <2>1, <2>2 DEF ConnRuns, ConnType, NoConn
  <2> QED
    BY <1>5, <2>1, <2>2, <2>3 DEF Close, TypeOK, ConnRuns
<1>6. ASSUME RemoveSock(a) PROVE TypeOK'
  <2>1. agent' \in [Adders -> AgentType] /\ ConnRuns'
    BY <1>0, <1>6, AgentGoesType DEF RemoveSock, ConnRuns, ConnType, Running
  <2> QED
    BY <1>6, <2>1 DEF RemoveSock, TypeOK, ConnRuns
<1>7. ASSUME Release(a) PROVE TypeOK'
  <2>1. agent' \in [Adders -> AgentType] /\ ConnRuns'
    BY <1>0, <1>7, AgentGoesType DEF Release, ConnRuns, ConnType, Running
  <2> QED
    BY <1>7, <2>1 DEF Release, TypeOK, ConnRuns
<1>8. ASSUME Exit(a) PROVE TypeOK'
  BY <1>8, EndsType DEF Exit, Ends, TypeOK, ConnRuns
<1>9. ASSUME AgentDies(a) PROVE TypeOK'
  <2>1. lock' \in Marks
    BY <1>9 DEF AgentDies, TypeOK
  <2> QED
    BY <1>9, <2>1, EndsType DEF AgentDies, Ends, TypeOK, ConnRuns
<1> QED
  BY <1>1, <1>2, <1>3, <1>4, <1>5, <1>6, <1>7, <1>8, <1>9
  DEF Agent, Signalled, IdleCloses

\* Answering a connection keeps it where it is.
LEMMA AnsweredType ==
  ASSUME conn \in [Clients -> ConnType], NEW c \in Clients, NEW res \in Marks,
         Answered(c, res)
  PROVE  /\ conn' \in [Clients -> ConnType]
         /\ conn'[c].st = "handled" /\ conn'[c].res = res
         /\ \A d \in Clients : /\ conn'[d].to = conn[d].to
                               /\ d # c => conn'[d] = conn[d]
  BY DEF Answered, ConnType

LEMMA StoreStepType ==
  ASSUME TypeOK, NEW c \in Clients,
         Accept(c) \/ Handle(c) \/ Respond(c) \/ ConnTimesOut(c)
  PROVE  TypeOK'
<1>0. /\ conn \in [Clients -> ConnType] /\ agent \in [Adders -> AgentType]
      /\ grant \in [Adders -> GrantType] /\ client \in [Clients -> ClientType]
      /\ ConnRuns
  BY DEF TypeOK, ConnRuns
<1>1. \A d \in Clients : conn[d].st # "none" => conn[d].to \in Adders
  BY <1>0 DEF ConnRuns, ConnType, Marks
<1>2. ASSUME Accept(c) PROVE TypeOK'
  <2>1. /\ conn' \in [Clients -> ConnType]
        /\ \A d \in Clients : /\ conn'[d].to = conn[d].to
                              /\ conn'[d].st # "none" => conn[d].st # "none"
    BY <1>0, <1>2 DEF Accept, ConnType
  <2>2. ConnRuns'
    BY <1>0, <1>2, <2>1 DEF Accept, ConnRuns
  <2> QED
    BY <1>2, <2>1, <2>2 DEF Accept, TypeOK, ConnRuns
<1>3. ASSUME HandleAdd(c) PROVE TypeOK'
  <2>1. conn' \in [Clients -> ConnType] /\ conn[c].to \in Adders
    BY <1>0, <1>1, <1>3, AnsweredType DEF HandleAdd, Marks
  <2>2. /\ agent' \in [Adders -> AgentType]
        /\ \A b \in Adders : agent'[b].pc = agent[b].pc
    BY <1>0, <1>3 DEF HandleAdd, AgentType, Marks
  <2>3. grant' \in [Adders -> GrantType]
    <3>1. Drop(grant, agent[conn[c].to].held) \in [Adders -> GrantType]
      BY <1>0, DropType
    <3>2. [at |-> conn[c].to, life |-> "live", timer |-> "armed"] \in GrantType
      BY <2>1 DEF GrantType, Marks
    <3> QED
      BY <1>3, <3>1, <3>2 DEF HandleAdd
  <2>4. ConnRuns'
    <3>1. \A d \in Clients : /\ conn'[d].to = conn[d].to
                             /\ conn'[d].st # "none" => conn[d].st # "none"
      BY <1>0, <1>3, AnsweredType DEF HandleAdd, Marks
    <3> QED
      BY <1>0, <1>1, <2>2, <3>1 DEF ConnRuns
  <2> QED
    BY <1>3, <2>1, <2>2, <2>3, <2>4 DEF HandleAdd, TypeOK, ConnRuns
<1>4. ASSUME HandleRead(c) PROVE TypeOK'
  <2> DEFINE res == IF Live(agent[conn[c].to].held) THEN agent[conn[c].to].held
                    ELSE None
  <2>1. res \in Marks
    BY <1>0, <1>1, <1>4 DEF HandleRead, AgentType, Marks
  <2>2. Answered(c, res)
    BY <1>4 DEF HandleRead
  <2> HIDE DEF res
  <2>3. conn' \in [Clients -> ConnType]
    BY <1>0, <2>1, <2>2, AnsweredType
  <2>4. ConnRuns'
    BY <1>0, <1>4, <2>1, <2>2, AnsweredType DEF ConnRuns, HandleRead
  <2> QED
    BY <1>4, <2>3, <2>4 DEF HandleRead, TypeOK, ConnRuns
<1>5. ASSUME HandleRevoke(c) PROVE TypeOK'
  <2>1. agent[conn[c].to].held \in Marks
    BY <1>0, <1>1, <1>5 DEF HandleRevoke, AgentType
  <2>2. Answered(c, agent[conn[c].to].held)
    BY <1>5 DEF HandleRevoke
  <2>3. conn' \in [Clients -> ConnType]
    BY <1>0, <2>1, <2>2, AnsweredType
  <2>4. /\ agent' \in [Adders -> AgentType]
        /\ \A b \in Adders : agent'[b].pc = agent[b].pc
    BY <1>0, <1>5 DEF HandleRevoke, AgentType, Marks
  <2>5. grant' \in [Adders -> GrantType]
    BY <1>0, <1>5, DropType DEF HandleRevoke
  <2>6. ConnRuns'
    <3>1. \A d \in Clients : /\ conn'[d].to = conn[d].to
                             /\ conn'[d].st # "none" => conn[d].st # "none"
      BY <1>0, <1>5, <2>1, <2>2, AnsweredType DEF HandleRevoke
    <3> QED
      BY <1>0, <1>1, <2>4, <3>1 DEF ConnRuns
  <2> QED
    BY <1>5, <2>3, <2>4, <2>5, <2>6 DEF HandleRevoke, TypeOK, ConnRuns
<1>6. ASSUME conn' = [conn EXCEPT ![c] = NoConn], UNCHANGED agent
      PROVE  conn' \in [Clients -> ConnType] /\ ConnRuns'
  BY <1>0, <1>6 DEF ConnType, NoConn, Marks, ConnRuns
<1>7. ASSUME Respond(c) PROVE TypeOK'
  <2>1. conn[c].res \in Marks
    BY <1>0 DEF ConnType
  <2>2. client' \in [Clients -> ClientType]
    <3>1. CASE client[c].pc # "waiting"
      BY <1>0, <1>7, <3>1 DEF Respond
    <3>2. CASE client[c].pc = "waiting"
      <4>1. PICK whole \in {TRUE, ~MayBeTorn(c)} :
              client' = [client EXCEPT ![c].pc = "done", ![c].got = conn[c].res,
                                       ![c].whole = whole]
        BY <1>7, <3>2 DEF Respond
      <4>2. whole \in BOOLEAN
        BY <4>1 DEF MayBeTorn
      <4>3. client[c] \in ClientType
        BY <1>0
      <4>4. [client[c] EXCEPT !.pc = "done", !.got = conn[c].res, !.whole = whole]
              \in ClientType
        BY <2>1, <4>2, <4>3, Zenon DEF ClientType
      <4> QED
        BY <1>0, <4>1, <4>4
    <3> QED
      BY <3>1, <3>2
  <2>3. gone' \subseteq Adders
    BY <1>0, <1>7 DEF Respond, TypeOK, ClientType
  <2>4. conn' \in [Clients -> ConnType] /\ ConnRuns'
    BY <1>6, <1>7 DEF Respond
  <2> QED
    BY <1>7, <2>2, <2>3, <2>4 DEF Respond, TypeOK, ConnRuns
<1>8. ASSUME ConnTimesOut(c) PROVE TypeOK'
  BY <1>6, <1>8 DEF ConnTimesOut, TypeOK, ConnRuns
<1> QED
  BY <1>2, <1>3, <1>4, <1>5, <1>7, <1>8 DEF Handle

LEMMA TimeStepType ==
  ASSUME TypeOK, NEW g \in Adders, Expire(g) \/ Timer(g)
  PROVE  TypeOK'
<1>0. agent \in [Adders -> AgentType] /\ grant \in [Adders -> GrantType] /\ ConnRuns
  BY DEF TypeOK, ConnRuns
<1>1. ASSUME Expire(g) PROVE TypeOK'
  <2>1. grant' \in [Adders -> GrantType]
    BY <1>0, <1>1 DEF Expire, GrantType
  <2> QED
    BY <1>1, <2>1 DEF Expire, TypeOK
<1>2. ASSUME TimerFires(g) PROVE TypeOK'
  <2>1. grant' \in [Adders -> GrantType]
    BY <1>0, <1>2 DEF TimerFires, GrantType
  <2> QED
    BY <1>2, <2>1 DEF TimerFires, TypeOK
<1>3. ASSUME TimerRuns(g) PROVE TypeOK'
  <2>1. grant' \in [Adders -> GrantType]
    <3> DEFINE gr == Drop(grant, agent[grant[g].at].held)
    <3>1. gr \in [Adders -> GrantType]
      BY <1>0, DropType
    <3>2. \/ grant' = [gr EXCEPT ![g].timer = "none"]
          \/ grant' = [grant EXCEPT ![g].timer = "none"]
      BY <1>3 DEF TimerRuns
    <3> HIDE DEF gr
    <3> QED
      BY <1>0, <3>1, <3>2 DEF GrantType
  <2>2. /\ agent' \in [Adders -> AgentType]
        /\ \A b \in Adders : agent'[b].pc = agent[b].pc
    <3>1. CASE StillHeld(g)
      <4>1. agent' = [agent EXCEPT ![grant[g].at].held = None]
        BY <1>3, <3>1 DEF TimerRuns
      <4> QED
        BY <1>0, <4>1 DEF AgentType, Marks
    <3>2. CASE ~StillHeld(g)
      BY <1>0, <1>3, <3>2 DEF TimerRuns
    <3> QED
      BY <3>1, <3>2
  <2>3. conn \in [Clients -> ConnType]
    BY DEF TypeOK
  <2>4. ConnRuns'
    BY <1>0, <1>3, <2>2, <2>3 DEF TimerRuns, ConnRuns, ConnType, Marks
  <2> QED
    BY <1>3, <2>1, <2>2, <2>4 DEF TimerRuns, TypeOK, ConnRuns
<1> QED
  BY <1>1, <1>2, <1>3 DEF Timer

LEMMA ClientStepType ==
  ASSUME TypeOK, NEW c \in Clients, FreshOK, Client(c)
  PROVE  TypeOK'
<1>0. /\ agent \in [Adders -> AgentType] /\ client \in [Clients -> ClientType]
      /\ conn \in [Clients -> ConnType] /\ ConnRuns
  BY DEF TypeOK, ConnRuns
<1>1. ASSUME Connect(c) PROVE TypeOK'
  <2>1. Before(c) \subseteq Adders
    BY DEF Before, Acknowledged, TypeOK
  <2>2. client' \in [Clients -> ClientType]
    BY <1>0, <1>1, <2>1 DEF Connect, ClientType
  <2>3. sock \in Adders /\ agent[sock].pc \in Running
    BY <1>1 DEF Connect, Reachable, TypeOK, Marks, Running
  <2>4. conn' \in [Clients -> ConnType]
    BY <1>0, <1>1, <2>3 DEF Connect, ConnType, Marks
  <2>5. ConnRuns'
    <3>1. conn'[c].to = sock /\ \A d \in Clients \ {c} : conn'[d] = conn[d]
      BY <1>0, <1>1 DEF Connect, ConnType
    <3>2. UNCHANGED agent /\ sock # None
      BY <1>1 DEF Connect, Reachable
    <3> QED
      BY <1>0, <2>3, <3>1, <3>2 DEF ConnRuns
  <2> QED
    BY <1>1, <2>2, <2>4, <2>5 DEF Connect, TypeOK, ConnRuns
<1>2. ASSUME StartAgent(c) PROVE TypeOK'
  <2>1. client' \in [Clients -> ClientType]
    BY <1>0, <1>2, ClientGoesType DEF StartAgent
  <2>2. agent' \in [Adders -> AgentType] /\ ConnRuns'
    <3>1. CASE AgentGoes(c, "start")
      <4>1. c \in Adders /\ agent[c].pc = "none"
        BY <1>2 DEF StartAgent, FreshOK
      <4>2. \A d \in Clients : conn[d].st # "none" => conn[d].to \in Adders \ {c}
        BY <1>0, <4>1 DEF ConnRuns, ConnType, Running, Marks
      <4> QED
        BY <1>0, <1>2, <3>1, <4>2, AgentGoesType DEF StartAgent, ConnRuns
    <3>2. CASE UNCHANGED agent
      BY <1>0, <1>2, <3>2 DEF StartAgent, ConnRuns
    <3> QED
      BY <1>2, <3>1, <3>2 DEF StartAgent
  <2> QED
    BY <1>2, <2>1, <2>2 DEF StartAgent, TypeOK, ConnRuns
<1>3. ASSUME NoAgent(c) PROVE TypeOK'
  <2>1. client' \in [Clients -> ClientType]
    BY <1>0, <1>3, ClientGoesType DEF NoAgent
  <2>2. gone' \subseteq Adders
    BY <1>3 DEF NoAgent, Acknowledged, TypeOK
  <2> QED
    BY <1>3, <2>1, <2>2 DEF NoAgent, TypeOK
<1>4. ASSUME StopPolling(c) \/ CallFails(c) PROVE TypeOK'
  <2>1. client' \in [Clients -> ClientType]
    BY <1>0, <1>4, ClientGoesType DEF StopPolling, CallFails
  <2> QED
    BY <1>4, <2>1 DEF StopPolling, CallFails, TypeOK
<1> QED
  BY <1>1, <1>2, <1>3, <1>4 DEF Client

-----------------------------------------------------------------------------
(* Steps of the agents and of time: they let go of connections and grants, *)
(* and answer and acknowledge nothing.                                     *)

QuietStep ==
  /\ UNCHANGED <<client, gone>>
  /\ \A a \in Adders : /\ agent'[a].held \in {agent[a].held, None}
                       /\ Serving(a)' => Serving(a) \/ agent'[a].held = None
  /\ \A c \in Clients :
       \/ conn'[c] = NoConn
       \/ conn'[c] = conn[c]
       \/ /\ conn[c].st = "queued" /\ conn'[c].st = "accepted"
          /\ conn'[c].to = conn[c].to /\ conn'[c].res = conn[c].res

Promises == ConnOK /\ AckOK /\ ServingFree /\ RevokingOK /\ ReadingOK

LEMMA QuietKeeps ==
  ASSUME TypeOK, Promises, QuietStep
  PROVE  Promises'
<1>0. /\ None \notin gone /\ UNCHANGED <<client, gone>>
      /\ \A c \in Clients : None \notin client[c].before
  BY GrantAgentAssumption DEF TypeOK, ClientType, QuietStep
<1>1. ConnOK'
  BY <1>0 DEF Promises, QuietStep, ConnOK, NoConn
<1>2. AckOK'
  BY <1>0 DEF Promises, AckOK, Acknowledged
<1>3. ServingFree'
  BY <1>0 DEF Promises, QuietStep, ServingFree, Serving
<1>4. RevokingOK'
  <2> SUFFICES ASSUME NEW r \in Revokers, NEW a \in Adders,
                      client[r].pc = "waiting", conn'[r].st # "none",
                      Serving(a)', agent'[a].held \in client[r].before
               PROVE  conn'[r].to = a /\ conn'[r].st \in {"queued", "accepted"}
    BY <1>0 DEF RevokingOK
  <2>1. r \in Clients
    BY DEF Clients
  <2>2. agent'[a].held = agent[a].held /\ Serving(a)
    BY <1>0, <2>1 DEF QuietStep
  <2>3. /\ conn[r].st # "none"
        /\ conn'[r].to = conn[r].to
        /\ conn[r].st \in {"queued", "accepted"} => conn'[r].st \in {"queued", "accepted"}
    BY <2>1 DEF QuietStep, NoConn
  <2> QED
    BY <2>2, <2>3 DEF Promises, RevokingOK
<1>5. ReadingOK'
  <2> SUFFICES ASSUME NEW c \in Readers
               PROVE  /\ conn'[c].st \in {"queued", "accepted"}
                           => agent'[conn'[c].to].held \notin client[c].before
                      /\ conn'[c].res \notin client[c].before
                      /\ client[c].got \notin client[c].before
    BY <1>0 DEF ReadingOK
  <2>1. c \in Clients
    BY DEF Clients
  <2>2. CASE conn'[c] = NoConn
    BY <1>0, <2>1, <2>2 DEF NoConn, Promises, ReadingOK
  <2>3. CASE conn'[c] # NoConn
    <3>1. /\ conn'[c].to = conn[c].to /\ conn'[c].res = conn[c].res
          /\ conn'[c].st \in {"queued", "accepted"} => conn[c].st \in {"queued", "accepted"}
      BY <2>1, <2>3 DEF QuietStep
    <3>2. conn[c].st \in {"queued", "accepted"} => conn[c].to \in Adders
      BY <2>1 DEF TypeOK, ConnType, Marks
    <3> QED
      BY <1>0, <2>1, <3>1, <3>2 DEF QuietStep, Promises, ReadingOK
  <2> QED
    BY <2>2, <2>3
<1> QED
  BY <1>1, <1>2, <1>3, <1>4, <1>5 DEF Promises

\* An agent's own steps keep the lock, the socket and its beginnings.
LEMMA AgentStepKeeps ==
  ASSUME TypeOK, LockOK, FreshOK, NEW a \in Adders,
         Agent(a) \/ Signalled(a) \/ AgentDies(a)
  PROVE  LockOK' /\ FreshOK' /\ QuietStep
<1>0. /\ agent \in [Adders -> AgentType] /\ conn \in [Clients -> ConnType]
      /\ Adders \subseteq Clients /\ None \notin Adders
  BY GrantAgentAssumption DEF TypeOK, Clients
<1> USE DEF Serving
<1>1. ASSUME TakeLock(a) PROVE LockOK' /\ FreshOK' /\ QuietStep
  <2>1. \A b \in Adders : /\ agent'[b].held = agent[b].held
                          /\ agent'[b].pc = IF b = a THEN "locked" ELSE agent[b].pc
    BY <1>0, <1>1, AgentGoesType DEF TakeLock
  <2>2. LockOK'
    BY <1>0, <1>1, <2>1 DEF TakeLock, LockOK, LockFree
  <2>3. FreshOK'
    BY <1>1, <2>1 DEF TakeLock, FreshOK
  <2>4. QuietStep
    BY <1>1, <2>1 DEF TakeLock, QuietStep
  <2> QED
    BY <2>2, <2>3, <2>4
<1>2. ASSUME LockTaken(a) PROVE LockOK' /\ FreshOK' /\ QuietStep
  <2>1. \A b \in Adders : /\ agent'[b].held = agent[b].held
                          /\ agent'[b].pc = IF b = a THEN "gone" ELSE agent[b].pc
    BY <1>0, <1>2, AgentGoesType DEF LockTaken
  <2>2. LockOK'
    BY <1>0, <1>2, <2>1 DEF LockTaken, LockOK
  <2>3. FreshOK'
    BY <1>2, <2>1 DEF LockTaken, FreshOK
  <2>4. QuietStep
    BY <1>2, <2>1 DEF LockTaken, QuietStep
  <2> QED
    BY <2>2, <2>3, <2>4
<1>3. ASSUME Listen(a) PROVE LockOK' /\ FreshOK' /\ QuietStep
  <2>1. \A b \in Adders : /\ agent'[b].held = agent[b].held
                          /\ agent'[b].pc = IF b = a THEN "serving" ELSE agent[b].pc
    BY <1>0, <1>3, AgentGoesType DEF Listen
  <2>2. LockOK'
    BY <1>0, <1>3, <2>1 DEF Listen, LockOK
  <2>3. FreshOK'
    BY <1>3, <2>1 DEF Listen, FreshOK
  <2>4. agent[a].held = None
    BY <1>3 DEF Listen, FreshOK
  <2>5. QuietStep
    BY <1>3, <2>1, <2>4 DEF Listen, QuietStep
  <2> QED
    BY <2>2, <2>3, <2>5
<1>4. ASSUME IdleSeen(a) PROVE LockOK' /\ FreshOK' /\ QuietStep
  <2>1. \A b \in Adders : agent'[b].held = agent[b].held /\ agent'[b].pc = agent[b].pc
    BY <1>0, <1>4 DEF IdleSeen, AgentType
  <2>2. LockOK'
    BY <1>4, <2>1 DEF IdleSeen, LockOK
  <2>3. FreshOK'
    BY <1>4, <2>1 DEF IdleSeen, FreshOK
  <2>4. QuietStep
    BY <1>4, <2>1 DEF IdleSeen, QuietStep
  <2> QED
    BY <2>2, <2>3, <2>4
<1>5. ASSUME Close(a) PROVE LockOK' /\ FreshOK' /\ QuietStep
  <2>1. \A b \in Adders : /\ agent'[b].held = agent[b].held
                          /\ agent'[b].pc = IF b = a THEN "closed" ELSE agent[b].pc
    BY <1>0, <1>5 DEF Close, AgentType
  <2>2. LockOK'
    BY <1>0, <1>5, <2>1 DEF Close, LockOK
  <2>3. client[a].pc # "idle"
    BY <1>5 DEF Close, FreshOK
  <2>4. UNCHANGED client
    BY <1>5 DEF Close
  <2>6. FreshOK'
    BY <1>0, <2>1, <2>3, <2>4 DEF FreshOK
  <2>5. QuietStep
    BY <1>0, <1>5, <2>1 DEF Close, QuietStep
  <2> QED
    BY <2>2, <2>5, <2>6
<1>6. ASSUME RemoveSock(a) PROVE LockOK' /\ FreshOK' /\ QuietStep
  <2>1. \A b \in Adders : /\ agent'[b].held = agent[b].held
                          /\ agent'[b].pc = IF b = a THEN "removed" ELSE agent[b].pc
    BY <1>0, <1>6, AgentGoesType DEF RemoveSock
  <2>2. LockOK'
    BY <1>0, <1>6, <2>1 DEF RemoveSock, LockOK
  <2>3. FreshOK'
    BY <1>6, <2>1 DEF RemoveSock, FreshOK
  <2>4. QuietStep
    BY <1>6, <2>1 DEF RemoveSock, QuietStep
  <2> QED
    BY <2>2, <2>3, <2>4
<1>7. ASSUME Release(a) PROVE LockOK' /\ FreshOK' /\ QuietStep
  <2>1. \A b \in Adders : /\ agent'[b].held = agent[b].held
                          /\ agent'[b].pc = IF b = a THEN "released" ELSE agent[b].pc
    BY <1>0, <1>7, AgentGoesType DEF Release
  <2>2. LockOK'
    BY <1>0, <1>7, <2>1 DEF Release, LockOK
  <2>3. FreshOK'
    BY <1>7, <2>1 DEF Release, FreshOK
  <2>4. QuietStep
    BY <1>7, <2>1 DEF Release, QuietStep
  <2> QED
    BY <2>2, <2>3, <2>4
<1>8. ASSUME Ends(a), agent[a].pc # "none",
             lock' = lock \/ (lock = a /\ lock' = None)
      PROVE LockOK' /\ FreshOK' /\ QuietStep
  <2>1. /\ agent'[a].pc = "gone" /\ agent'[a].held = None
        /\ \A b \in Adders \ {a} : agent'[b] = agent[b]
        /\ \A c \in Clients : conn'[c] \in {conn[c], NoConn}
        /\ UNCHANGED <<sock, client, gone>>
    BY <1>8, EndsType DEF Ends
  <2>2. LockOK'
    BY <1>8, <2>1 DEF LockOK
  <2>3. client[a].pc # "idle"
    BY <1>8 DEF FreshOK
  <2>4. FreshOK'
    BY <2>1, <2>3 DEF FreshOK
  <2>5. QuietStep
    BY <2>1 DEF QuietStep
  <2> QED
    BY <2>2, <2>4, <2>5
<1>9. ASSUME Exit(a) PROVE LockOK' /\ FreshOK' /\ QuietStep
  BY <1>8, <1>9 DEF Exit
<1>10. ASSUME AgentDies(a) PROVE LockOK' /\ FreshOK' /\ QuietStep
  BY <1>8, <1>10 DEF AgentDies
<1> QED
  BY <1>1, <1>2, <1>3, <1>4, <1>5, <1>6, <1>7, <1>9, <1>10
  DEF Agent, Signalled, IdleCloses

\* Nor do time and the steps of connections that handle nothing.
LEMMA TimeStepKeeps ==
  ASSUME TypeOK, LockOK, FreshOK, NEW g \in Adders, Expire(g) \/ Timer(g)
  PROVE  LockOK' /\ FreshOK' /\ QuietStep
<1>1. /\ \A a \in Adders : /\ agent'[a].pc = agent[a].pc
                           /\ agent'[a].held \in {agent[a].held, None}
      /\ UNCHANGED <<sock, lock, client, conn, gone>>
  <2>1. CASE TimerRuns(g) /\ StillHeld(g)
    <3>1. agent' = [agent EXCEPT ![grant[g].at].held = None]
      BY <2>1 DEF TimerRuns
    <3> QED
      BY <2>1, <3>1 DEF TimerRuns, TypeOK, AgentType
  <2>2. CASE ~(TimerRuns(g) /\ StillHeld(g))
    BY <2>2 DEF Expire, Timer, TimerFires, TimerRuns
  <2> QED
    BY <2>1, <2>2
<1>2. LockOK'
  BY <1>1 DEF LockOK, Serving
<1>3. FreshOK'
  BY <1>1 DEF FreshOK
<1>4. QuietStep
  BY <1>1 DEF QuietStep, Serving
<1> QED
  BY <1>2, <1>3, <1>4

LEMMA ConnStepKeeps ==
  ASSUME TypeOK, LockOK, FreshOK, NEW c \in Clients, Accept(c) \/ ConnTimesOut(c)
  PROVE  LockOK' /\ FreshOK' /\ QuietStep
<1>1. UNCHANGED <<agent, sock, lock, client, gone>>
  BY DEF Accept, ConnTimesOut
<1>2. LockOK'
  BY <1>1 DEF LockOK, Serving
<1>3. FreshOK'
  BY <1>1 DEF FreshOK
<1>4. \A d \in Clients :
        \/ conn'[d] = NoConn
        \/ conn'[d] = conn[d]
        \/ /\ conn[d].st = "queued" /\ conn'[d].st = "accepted"
           /\ conn'[d].to = conn[d].to /\ conn'[d].res = conn[d].res
  BY DEF Accept, ConnTimesOut, TypeOK, ConnType
<1>5. QuietStep
  BY <1>1, <1>4 DEF QuietStep, Serving
<1> QED
  BY <1>2, <1>3, <1>5

-----------------------------------------------------------------------------
(* The steps that handle, answer, begin and end calls.                     *)

\* Handling a call keeps the lock, the socket and the agents' beginnings,
\* and no call or history changes.
LEMMA HandleFrame ==
  ASSUME TypeOK, LockOK, FreshOK, NEW c \in Clients, Handle(c)
  PROVE  /\ LockOK' /\ FreshOK'
         /\ conn[c].to \in Adders /\ agent[conn[c].to].pc \in Running
         /\ conn[c].st = "accepted"
         /\ \A a \in Adders :
              /\ agent'[a].pc = agent[a].pc
              /\ a # conn[c].to => agent'[a].held = agent[a].held
         /\ \E res \in Marks : Answered(c, res)
         /\ UNCHANGED <<sock, lock, client, gone>>
<1>0. agent \in [Adders -> AgentType] /\ conn \in [Clients -> ConnType] /\ ConnRuns
  BY DEF TypeOK, ConnRuns
<1>1. conn[c].st = "accepted" /\ UNCHANGED <<sock, lock, client, gone>>
  BY DEF Handle, HandleAdd, HandleRead, HandleRevoke
<1>2. conn[c].to \in Adders /\ agent[conn[c].to].pc \in Running
  BY <1>0, <1>1 DEF ConnRuns, ConnType, Marks
<1>3. \/ UNCHANGED agent
      \/ \E h : agent' = [agent EXCEPT ![conn[c].to].held = h]
  BY DEF Handle, HandleAdd, HandleRead, HandleRevoke
<1>4. \A a \in Adders :
        /\ agent'[a].pc = agent[a].pc
        /\ a # conn[c].to => agent'[a].held = agent[a].held
  <2>1. CASE UNCHANGED agent
    BY <2>1
  <2>2. ASSUME NEW h, agent' = [agent EXCEPT ![conn[c].to].held = h]
        PROVE  \A a \in Adders :
                 /\ agent'[a].pc = agent[a].pc
                 /\ a # conn[c].to => agent'[a].held = agent[a].held
    BY <1>0, <1>2, <2>2 DEF AgentType
  <2> QED
    BY <1>3, <2>1, <2>2
<1>5. agent[conn[c].to].held \in Marks
  BY <1>0, <1>2 DEF AgentType
<1>6. \E res \in Marks : Answered(c, res)
  <2>1. CASE HandleAdd(c)
    <3>1. c \in Marks /\ Answered(c, c)
      BY <2>1 DEF HandleAdd, Marks
    <3> QED
      BY <3>1
  <2>2. CASE HandleRead(c)
    <3>1. (IF Live(agent[conn[c].to].held) THEN agent[conn[c].to].held ELSE None)
            \in Marks
      BY <1>5 DEF Marks
    <3> QED
      BY <2>2, <3>1 DEF HandleRead
  <2>3. CASE HandleRevoke(c)
    BY <1>5, <2>3 DEF HandleRevoke
  <2> QED
    BY <2>1, <2>2, <2>3 DEF Handle
<1>7. LockOK'
  BY <1>1, <1>4 DEF LockOK, Serving
<1>8. FreshOK'
  BY <1>1, <1>2, <1>4 DEF FreshOK, Running
<1> QED
  BY <1>1, <1>2, <1>4, <1>6, <1>7, <1>8

LEMMA HandleKeeps ==
  ASSUME TypeOK, LockOK, FreshOK, Promises, NEW c \in Clients, Handle(c)
  PROVE  LockOK' /\ FreshOK' /\ Promises'
<1> DEFINE a == conn[c].to
<1>0. /\ None \notin gone /\ gone \subseteq Adders
      /\ \A d \in Clients : None \notin client[d].before
      /\ conn \in [Clients -> ConnType] /\ agent \in [Adders -> AgentType]
      /\ Readers \subseteq Clients /\ Revokers \subseteq Clients
  BY GrantAgentAssumption DEF TypeOK, ClientType, Clients
<1>1. /\ LockOK' /\ FreshOK' /\ a \in Adders /\ conn[c].st = "accepted"
      /\ \A b \in Adders : /\ agent'[b].pc = agent[b].pc
                           /\ b # a => agent'[b].held = agent[b].held
      /\ UNCHANGED <<sock, lock, client, gone>>
  BY HandleFrame
<1>2. PICK res \in Marks : Answered(c, res)
  BY HandleFrame
<1>3. /\ conn'[c].st = "handled" /\ conn'[c].res = res
      /\ \A d \in Clients : /\ conn'[d].to = conn[d].to
                            /\ d # c => conn'[d] = conn[d]
  BY <1>0, <1>2, AnsweredType
<1>4. client[c].pc \in {"waiting", "failed"}
  BY <1>0, <1>1 DEF Promises, ConnOK, TypeOK, ClientType
\* A grant added now is no revoke's business yet.
<1>5. agent'[a].held \in {agent[a].held, None} \/ agent'[a].held \notin Acknowledged
  <2>1. CASE HandleAdd(c)
    <3>1. agent'[a].held = c
      BY <1>0, <1>1, <2>1 DEF HandleAdd, AgentType
    <3> QED
      BY <1>4, <3>1 DEF Acknowledged
  <2>2. CASE HandleRead(c)
    BY <2>2 DEF HandleRead
  <2>3. CASE HandleRevoke(c)
    BY <1>0, <1>1, <2>3 DEF HandleRevoke, AgentType
  <2> QED
    BY <2>1, <2>2, <2>3 DEF Handle
<1>6. \A b \in Adders, g \in Acknowledged :
        agent'[b].held = g => agent[b].held = g
  <2>1. None \notin Acknowledged
    BY GrantAgentAssumption DEF Acknowledged
  <2> QED
    BY <1>1, <1>5, <2>1
<1> HIDE DEF a
<1>7. ConnOK'
  BY <1>1, <1>3, <1>4 DEF Promises, ConnOK
<1>8. AckOK'
  BY <1>1 DEF Promises, AckOK, Acknowledged
<1>9. ServingFree'
  BY <1>1, <1>6 DEF Promises, ServingFree, Serving, AckOK
<1>10. RevokingOK'
  <2> SUFFICES ASSUME NEW r \in Revokers, NEW b \in Adders,
                      client[r].pc = "waiting", conn'[r].st # "none",
                      Serving(b)', agent'[b].held \in client[r].before
               PROVE  conn'[r].to = b /\ conn'[r].st \in {"queued", "accepted"}
    BY <1>1 DEF RevokingOK
  <2>1. agent[b].held \in client[r].before /\ Serving(b)
    BY <1>1, <1>6 DEF Promises, AckOK, Serving
  <2>2. conn[r].st # "none"
    BY <1>0, <1>1, <1>3
  <2>3. conn[r].to = b /\ conn[r].st \in {"queued", "accepted"}
    BY <2>1, <2>2 DEF Promises, RevokingOK
  <2>4. CASE r # c
    BY <1>0, <1>3, <2>3, <2>4
  <2>5. CASE r = c
    <3>1. HandleRevoke(c)
      BY <2>5, GrantAgentAssumption DEF Handle, HandleAdd, HandleRead
    <3>2. agent'[b].held = None
      BY <1>0, <2>3, <2>5, <3>1 DEF HandleRevoke, AgentType
    <3> QED
      BY <1>0, <3>2
  <2> QED
    BY <2>4, <2>5
<1>11. ReadingOK'
  <2> SUFFICES ASSUME NEW d \in Readers
               PROVE  /\ conn'[d].st \in {"queued", "accepted"}
                           => agent'[conn'[d].to].held \notin client[d].before
                      /\ conn'[d].res \notin client[d].before
                      /\ client[d].got \notin client[d].before
    BY <1>1 DEF ReadingOK
  <2>1. client[d].before \subseteq Acknowledged /\ client[d].got \notin client[d].before
    BY DEF Promises, AckOK, ReadingOK
  <2>2. CASE d # c
    <3>1. conn'[d] = conn[d]
      BY <1>0, <1>3, <2>2
    <3>2. conn[d].st \in {"queued", "accepted"} => conn[d].to \in Adders
      BY <1>0 DEF TypeOK, ConnType, Marks
    <3> QED
      BY <1>6, <2>1, <3>1, <3>2 DEF Promises, ReadingOK
  <2>3. CASE d = c
    <3>1. HandleRead(c)
      BY <2>3, GrantAgentAssumption DEF Handle, HandleAdd, HandleRevoke
    <3>2. conn'[c].res = IF Live(agent[a].held) THEN agent[a].held ELSE None
      BY <1>0, <3>1 DEF HandleRead, Answered, ConnType, a
    <3>3. agent[a].held \notin client[c].before
      BY <1>1, <2>3 DEF Promises, ReadingOK, a
    <3> QED
      BY <1>0, <1>3, <2>1, <2>3, <3>2, <3>3
  <2> QED
    BY <2>2, <2>3
<1> QED
  BY <1>1, <1>7, <1>8, <1>9, <1>10, <1>11 DEF Promises

\* An answer: an add's is its acknowledgement, a revoke's makes its grants
\* gone, a read's is what was found.
LEMMA RespondKeeps ==
  ASSUME TypeOK, LockOK, FreshOK, Promises, NEW c \in Clients, Respond(c)
  PROVE  LockOK' /\ FreshOK' /\ Promises'
<1>0. /\ None \notin gone /\ gone \subseteq Adders
      /\ \A d \in Clients : None \notin client[d].before
      /\ conn \in [Clients -> ConnType] /\ client \in [Clients -> ClientType]
      /\ Readers \subseteq Clients /\ Revokers \subseteq Clients /\ Adders \subseteq Clients
  BY GrantAgentAssumption DEF TypeOK, ClientType, Clients
<1>1. /\ conn[c].st = "handled" /\ conn' = [conn EXCEPT ![c] = NoConn]
      /\ UNCHANGED <<agent, sock, lock>>
  BY DEF Respond
<1>2. conn'[c] = NoConn /\ \A d \in Clients \ {c} : conn'[d] = conn[d]
  BY <1>0, <1>1
<1>3. CASE client[c].pc # "waiting"
  <2>1. UNCHANGED <<client, gone>>
    BY <1>3 DEF Respond
  <2>2. QuietStep
    BY <1>1, <1>2, <2>1 DEF QuietStep, Serving
  <2>3. LockOK' /\ FreshOK'
    BY <1>1, <2>1 DEF LockOK, FreshOK, Serving
  <2> QED
    BY <2>2, <2>3, QuietKeeps
<1>4. CASE client[c].pc = "waiting"
  <2>1. PICK whole \in {TRUE, ~MayBeTorn(c)} :
          client' = [client EXCEPT ![c].pc = "done", ![c].got = conn[c].res,
                                   ![c].whole = whole]
    BY <1>4 DEF Respond
  <2>2. /\ client'[c].pc = "done" /\ client'[c].got = conn[c].res
        /\ client'[c].before = client[c].before
        /\ \A d \in Clients \ {c} : client'[d] = client[d]
    BY <1>0, <2>1 DEF ClientType
  <2>3. gone' = IF c \in Revokers THEN gone \cup client[c].before ELSE gone
    BY <1>4 DEF Respond
  <2>4. Acknowledged \subseteq Acknowledged'
    BY <1>0, <2>2 DEF Acknowledged
  <2>5. \A d \in Clients : client'[d].before = client[d].before
    BY <2>2
  <2>6. LockOK' /\ FreshOK'
    BY <1>0, <1>1, <1>4, <2>2 DEF LockOK, FreshOK, Serving
  <2>7. ConnOK'
    BY <1>2, <2>2 DEF Promises, ConnOK, NoConn
  <2>8. AckOK'
    <3>1. gone' \subseteq Acknowledged'
      BY <2>3, <2>4 DEF Promises, AckOK
    <3>2. \A r \in Revokers : client'[r].before \subseteq Acknowledged'
      BY <1>0, <2>4, <2>5 DEF Promises, AckOK
    <3>3. \A d \in Readers : client'[d].before \subseteq gone'
      BY <1>0, <2>3, <2>5 DEF Promises, AckOK
    <3> QED
      BY <3>1, <3>2, <3>3 DEF AckOK
  <2>9. ServingFree'
    <3> SUFFICES ASSUME NEW a \in Adders, Serving(a)
                 PROVE  agent[a].held \notin gone'
      BY <1>1 DEF ServingFree, Serving
    <3>1. agent[a].held \notin gone
      BY DEF Promises, ServingFree
    <3>2. c \in Revokers => agent[a].held \notin client[c].before
      BY <1>1, <1>4 DEF Promises, RevokingOK
    <3> QED
      BY <2>3, <3>1, <3>2
  <2>10. RevokingOK'
    <3> SUFFICES ASSUME NEW r \in Revokers, NEW a \in Adders,
                        client'[r].pc = "waiting", conn'[r].st # "none",
                        Serving(a), agent[a].held \in client'[r].before
                 PROVE  conn'[r].to = a /\ conn'[r].st \in {"queued", "accepted"}
      BY <1>1 DEF RevokingOK, Serving
    <3>1. r # c
      BY <2>2
    <3>2. conn'[r] = conn[r] /\ client'[r] = client[r]
      BY <1>0, <1>2, <2>2, <3>1
    <3> QED
      BY <3>2 DEF Promises, RevokingOK
  <2>11. ReadingOK'
    <3> SUFFICES ASSUME NEW d \in Readers
                 PROVE  /\ conn'[d].st \in {"queued", "accepted"}
                             => agent[conn'[d].to].held \notin client'[d].before
                        /\ conn'[d].res \notin client'[d].before
                        /\ client'[d].got \notin client'[d].before
      BY <1>1 DEF ReadingOK
    <3>1. CASE d # c
      <4>1. conn'[d] = conn[d] /\ client'[d] = client[d]
        BY <1>0, <1>2, <2>2, <3>1
      <4> QED
        BY <4>1 DEF Promises, ReadingOK
    <3>2. CASE d = c
      BY <1>0, <1>2, <2>2, <3>2 DEF Promises, ReadingOK, NoConn
    <3> QED
      BY <3>1, <3>2
  <2> QED
    BY <2>6, <2>7, <2>8, <2>9, <2>10, <2>11 DEF Promises
<1> QED
  BY <1>3, <1>4

\* A call connects to the one agent that serves.
LEMMA ConnectKeeps ==
  ASSUME TypeOK, LockOK, FreshOK, Promises, NEW c \in Clients, Connect(c)
  PROVE  LockOK' /\ FreshOK' /\ Promises'
<1>0. /\ None \notin gone /\ None \notin Acknowledged
      /\ conn \in [Clients -> ConnType] /\ client \in [Clients -> ClientType]
      /\ Readers \subseteq Clients /\ Revokers \subseteq Clients /\ Adders \subseteq Clients
      /\ Readers \cap Revokers = {}
  BY GrantAgentAssumption DEF TypeOK, Clients, Acknowledged
<1>1. /\ client[c].pc \in {"idle", "poll"} /\ Reachable
      /\ client' = [client EXCEPT ![c].pc = "waiting", ![c].before = Before(c)]
      /\ conn' = [conn EXCEPT ![c].st = "queued", ![c].to = sock]
      /\ UNCHANGED <<agent, sock, lock, grant, gone>>
  BY DEF Connect
<1>2. conn[c] = NoConn /\ client[c].got = None
  BY <1>1 DEF Promises, ConnOK
<1>3. /\ conn'[c].st = "queued" /\ conn'[c].to = sock /\ conn'[c].res = None
      /\ \A d \in Clients \ {c} : conn'[d] = conn[d]
  BY <1>0, <1>1, <1>2 DEF NoConn, ConnType
<1>4. /\ client'[c].pc = "waiting" /\ client'[c].before = Before(c)
      /\ client'[c].got = None
      /\ \A d \in Clients \ {c} : client'[d] = client[d]
  BY <1>0, <1>1, <1>2 DEF ClientType
<1>5. sock \in Adders /\ Serving(sock)
  BY <1>1 DEF Reachable, Serving, TypeOK, Marks
<1>6. LockOK' /\ FreshOK'
  BY <1>0, <1>1, <1>4 DEF LockOK, FreshOK, Serving
<1>7. ConnOK'
  BY <1>3, <1>4 DEF Promises, ConnOK
<1>8. Acknowledged' = Acknowledged
  BY <1>0, <1>1, <1>4 DEF Acknowledged
<1>9. AckOK'
  <2>1. \A r \in Revokers : client'[r].before \subseteq Acknowledged
    BY <1>0, <1>4 DEF Promises, AckOK, Before
  <2>2. \A d \in Readers : client'[d].before \subseteq gone
    BY <1>0, <1>4 DEF Promises, AckOK, Before
  <2> QED
    BY <1>1, <1>8, <2>1, <2>2 DEF Promises, AckOK
<1>10. ServingFree'
  BY <1>1 DEF Promises, ServingFree, Serving
<1>11. RevokingOK'
  <2> SUFFICES ASSUME NEW r \in Revokers, NEW a \in Adders,
                      client'[r].pc = "waiting", conn'[r].st # "none",
                      Serving(a), agent[a].held \in client'[r].before
               PROVE  conn'[r].to = a /\ conn'[r].st \in {"queued", "accepted"}
    BY <1>1 DEF RevokingOK, Serving
  <2>1. CASE r # c
    <3>1. conn'[r] = conn[r] /\ client'[r] = client[r]
      BY <1>0, <1>3, <1>4, <2>1
    <3> QED
      BY <3>1 DEF Promises, RevokingOK
  <2>2. CASE r = c
    <3>1. sock = a
      BY DEF LockOK
    <3> QED
      BY <1>3, <2>2, <3>1
  <2> QED
    BY <2>1, <2>2
<1>12. ReadingOK'
  <2> SUFFICES ASSUME NEW d \in Readers
               PROVE  /\ conn'[d].st \in {"queued", "accepted"}
                           => agent[conn'[d].to].held \notin client'[d].before
                      /\ conn'[d].res \notin client'[d].before
                      /\ client'[d].got \notin client'[d].before
    BY <1>1 DEF ReadingOK
  <2>1. CASE d # c
    <3>1. conn'[d] = conn[d] /\ client'[d] = client[d]
      BY <1>0, <1>3, <1>4, <2>1
    <3> QED
      BY <3>1 DEF Promises, ReadingOK
  <2>2. CASE d = c
    <3>1. client'[d].before = gone
      BY <1>0, <1>4, <2>2 DEF Before
    <3>2. agent[sock].held \notin gone
      BY <1>5 DEF Promises, ServingFree
    <3> QED
      BY <1>0, <1>3, <1>4, <2>2, <3>1, <3>2
  <2> QED
    BY <2>1, <2>2
<1> QED
  BY <1>6, <1>7, <1>9, <1>10, <1>11, <1>12 DEF Promises

\* Starting an agent, finding none, and giving up.  A revoke that finds no
\* agent ends everything: nobody serves.
LEMMA CallKeeps ==
  ASSUME TypeOK, LockOK, FreshOK, Promises, NEW c \in Clients,
         StartAgent(c) \/ NoAgent(c) \/ StopPolling(c) \/ CallFails(c)
  PROVE  LockOK' /\ FreshOK' /\ Promises'
<1>0. /\ conn \in [Clients -> ConnType] /\ client \in [Clients -> ClientType]
      /\ agent \in [Adders -> AgentType]
      /\ Readers \subseteq Clients /\ Revokers \subseteq Clients /\ Adders \subseteq Clients
  BY DEF TypeOK, Clients
<1>1. PICK pc \in {"poll", "done", "failed"} : ClientGoes(c, pc)
  BY DEF StartAgent, NoAgent, StopPolling, CallFails
<1>2. \A d \in Clients : /\ client'[d].got = client[d].got
                         /\ client'[d].before = client[d].before
                         /\ client'[d].pc = IF d = c THEN pc ELSE client[d].pc
  BY <1>0, <1>1, ClientGoesType
<1>3. UNCHANGED <<sock, lock, conn>> /\ client[c].pc \in {"idle", "poll", "waiting"}
  BY DEF StartAgent, NoAgent, StopPolling, CallFails
<1>4. pc # "failed" => client[c].pc = "idle"
  <2>1. client'[c].pc = pc
    BY <1>2
  <2>2. CASE StartAgent(c) \/ NoAgent(c)
    BY <2>2 DEF StartAgent, NoAgent
  <2>3. CASE StopPolling(c) \/ CallFails(c)
    <3>1. ClientGoes(c, "failed")
      BY <2>3 DEF StopPolling, CallFails
    <3> QED
      BY <1>0, <2>1, <3>1, ClientGoesType
  <2> QED
    BY <2>2, <2>3
<1>5. \A a \in Adders :
        /\ agent'[a].held = agent[a].held
        /\ \/ agent'[a].pc = agent[a].pc
           \/ StartAgent(c) /\ a = c /\ agent'[a].pc = "start" /\ agent[a].pc = "none"
  <2>1. CASE StartAgent(c) /\ AgentGoes(c, "start")
    <3>1. c \in Adders /\ agent[c].pc = "none"
      BY <2>1 DEF StartAgent, FreshOK
    <3> QED
      BY <1>0, <2>1, <3>1, AgentGoesType
  <2>2. CASE UNCHANGED agent
    BY <2>2
  <2> QED
    BY <2>1, <2>2 DEF StartAgent, NoAgent, StopPolling, CallFails
<1>6. LockOK'
  BY <1>3, <1>5 DEF LockOK, Serving
<1>7. FreshOK'
  BY <1>0, <1>2, <1>3, <1>5 DEF FreshOK
<1>8. \A a \in Adders : Serving(a)' <=> Serving(a)
  BY <1>5 DEF Serving
<1>9. ConnOK'
  <2> SUFFICES ASSUME NEW d \in Clients
               PROVE  /\ conn[d].st = "none" => conn[d] = NoConn
                      /\ client'[d].pc \in {"idle", "poll", "done"} => conn[d].st = "none"
                      /\ client'[d].pc \in {"idle", "poll"} => client[d].got = None
    BY <1>2, <1>3 DEF ConnOK
  <2>1. CASE d # c
    BY <1>2, <2>1 DEF Promises, ConnOK
  <2>2. CASE d = c
    BY <1>2, <1>4, <2>2 DEF Promises, ConnOK
  <2> QED
    BY <2>1, <2>2
<1>10. Acknowledged \subseteq Acknowledged'
  BY <1>0, <1>2, <1>3 DEF Acknowledged
<1>11. /\ gone \subseteq gone' /\ gone' \subseteq gone \cup Acknowledged
       /\ gone' = gone \/ ~Reachable
  BY DEF StartAgent, NoAgent, StopPolling, CallFails
<1>12. AckOK'
  <2>1. gone' \subseteq Acknowledged'
    BY <1>10, <1>11 DEF Promises, AckOK
  <2>2. \A r \in Revokers : client'[r].before \subseteq Acknowledged'
    BY <1>0, <1>2, <1>10 DEF Promises, AckOK
  <2>3. \A d \in Readers : client'[d].before \subseteq gone'
    BY <1>0, <1>2, <1>11 DEF Promises, AckOK
  <2> QED
    BY <2>1, <2>2, <2>3 DEF AckOK
<1>13. ServingFree'
  <2> SUFFICES ASSUME NEW a \in Adders, Serving(a)
               PROVE  agent[a].held \notin gone'
    BY <1>5, <1>8 DEF ServingFree
  <2>1. sock = a /\ a # None
    BY GrantAgentAssumption DEF LockOK
  <2>2. Reachable
    BY <2>1 DEF Reachable, Serving
  <2>3. gone' = gone
    BY <1>11, <2>2
  <2> QED
    BY <2>3 DEF Promises, ServingFree
<1>14. RevokingOK'
  <2> SUFFICES ASSUME NEW r \in Revokers, NEW a \in Adders,
                      client'[r].pc = "waiting", conn[r].st # "none",
                      Serving(a), agent[a].held \in client[r].before
               PROVE  conn[r].to = a /\ conn[r].st \in {"queued", "accepted"}
    BY <1>0, <1>2, <1>3, <1>5, <1>8 DEF RevokingOK
  <2>1. client[r].pc = "waiting"
    BY <1>0, <1>2
  <2> QED
    BY <2>1 DEF Promises, RevokingOK
<1>15. ReadingOK'
  <2> SUFFICES ASSUME NEW d \in Readers
               PROVE  /\ conn[d].st \in {"queued", "accepted"}
                           => agent'[conn[d].to].held \notin client[d].before
                      /\ conn[d].res \notin client[d].before
                      /\ client[d].got \notin client[d].before
    BY <1>0, <1>2, <1>3 DEF ReadingOK
  <2>1. conn[d].st \in {"queued", "accepted"} => conn[d].to \in Adders
    BY <1>0 DEF TypeOK, ConnType, Marks
  <2> QED
    BY <1>5, <2>1 DEF Promises, ReadingOK
<1> QED
  BY <1>6, <1>7, <1>9, <1>12, <1>13, <1>14, <1>15 DEF Promises

-----------------------------------------------------------------------------
(* The theorems.                                                           *)

LEMMA InitInv == Init => RevokedInv
<1> SUFFICES ASSUME Init PROVE RevokedInv
  OBVIOUS
<1>1. TypeOK
  BY InitType
<1>2. /\ \A a \in Adders : agent[a] = NoProcess
      /\ \A c \in Clients : /\ conn[c] = NoConn
                            /\ client[c].pc = "idle" /\ client[c].got = None
                            /\ client[c].before = {}
      /\ gone = {} /\ Readers \subseteq Clients /\ Revokers \subseteq Clients
  BY DEF Init, NoAgentYet, NotCalled, Clients
<1>3. LockOK /\ FreshOK /\ ServingFree
  BY <1>2 DEF LockOK, FreshOK, ServingFree, Serving, NoProcess
<1>4. ConnOK /\ AckOK
  BY <1>2 DEF ConnOK, AckOK, NoConn
<1>5. RevokingOK /\ ReadingOK
  BY <1>2 DEF RevokingOK, ReadingOK, NoConn
<1> QED
  BY <1>1, <1>3, <1>4, <1>5 DEF RevokedInv

\* Each step keeps the invariant: the agents' and time's by QuietKeeps, the
\* calls' one by one.
LEMMA StepInv == RevokedInv /\ [Next]_vars => RevokedInv'
<1> SUFFICES ASSUME RevokedInv, [Next]_vars PROVE RevokedInv'
  OBVIOUS
<1>0. TypeOK /\ LockOK /\ FreshOK /\ Promises
  BY DEF RevokedInv, Promises
<1>1. SUFFICES TypeOK' /\ LockOK' /\ FreshOK' /\ Promises'
  BY DEF RevokedInv, Promises
<1>2. ASSUME NEW a \in Adders, Agent(a) \/ Signalled(a) \/ AgentDies(a)
      PROVE  TypeOK' /\ LockOK' /\ FreshOK' /\ Promises'
  BY <1>0, <1>2, AgentStepType, AgentStepKeeps, QuietKeeps
<1>3. ASSUME NEW a \in Adders, Expire(a) \/ Timer(a)
      PROVE  TypeOK' /\ LockOK' /\ FreshOK' /\ Promises'
  BY <1>0, <1>3, TimeStepType, TimeStepKeeps, QuietKeeps
<1>4. ASSUME NEW c \in Clients, Accept(c) \/ ConnTimesOut(c)
      PROVE  TypeOK' /\ LockOK' /\ FreshOK' /\ Promises'
  BY <1>0, <1>4, StoreStepType, ConnStepKeeps, QuietKeeps
<1>5. ASSUME NEW c \in Clients, Handle(c)
      PROVE  TypeOK' /\ LockOK' /\ FreshOK' /\ Promises'
  BY <1>0, <1>5, StoreStepType, HandleKeeps
<1>6. ASSUME NEW c \in Clients, Respond(c)
      PROVE  TypeOK' /\ LockOK' /\ FreshOK' /\ Promises'
  BY <1>0, <1>6, StoreStepType, RespondKeeps
<1>7. ASSUME NEW c \in Clients, Client(c)
      PROVE  TypeOK' /\ LockOK' /\ FreshOK' /\ Promises'
  <2>1. TypeOK'
    BY <1>0, <1>7, ClientStepType
  <2> QED
    BY <1>0, <1>7, <2>1, ConnectKeeps, CallKeeps DEF Client
<1>8. CASE UNCHANGED vars
  <2>1. TypeOK'
    BY <1>0, <1>8 DEF vars, TypeOK
  <2>2. LockOK' /\ FreshOK'
    BY <1>0, <1>8 DEF vars, LockOK, FreshOK, Serving
  <2>3. QuietStep
    BY <1>8 DEF vars, QuietStep, Serving
  <2> QED
    BY <1>0, <2>1, <2>2, <2>3, QuietKeeps
<1> QED
  BY <1>2, <1>3, <1>4, <1>5, <1>6, <1>7, <1>8 DEF Next

THEOREM RevokedInvariant == Spec => []RevokedInv
  BY InitInv, StepInv, PTL DEF Spec

\* Every variable keeps its type and no connection outlives its agent, for
\* any number of calls.
THEOREM TypeCorrect == Spec => []TypeOK
<1>1. RevokedInv => TypeOK
  BY DEF RevokedInv
<1> QED
  BY <1>1, RevokedInvariant, PTL

\* One agent per user, at its own socket, however many adds start one and
\* whichever are killed.
THEOREM OneServerAlways == Spec => []OneServer
<1>1. RevokedInv => OneServer
  BY DEF RevokedInv, LockOK, OneServer, Serving
<1> QED
  BY <1>1, RevokedInvariant, PTL

\* A revoke that returned is final over every agent there was or will be.
THEOREM RevokeReachesAll == Spec => []RevokedIsUnreachable
<1>1. RevokedInv => RevokedIsUnreachable
  BY DEF RevokedInv, ReadingOK, RevokedIsUnreachable
<1> QED
  BY <1>1, RevokedInvariant, PTL

-----------------------------------------------------------------------------
(* Why a grant leaves its agent's memory.                                  *)

\* The add of c has not been handled.
Pending(c) == client[c].pc \in {"idle", "poll"} \/ conn[c].st \in {"queued", "accepted"}

\* A grant is at no agent before its add is handled.
PendingOK == \A c \in Adders : Pending(c) => grant[c].at = None

\* What an agent holds is at that agent, and has not been dropped.
HeldOK ==
  \A a \in Adders :
    agent[a].held # None => /\ grant[agent[a].held].at = a
                            /\ grant[agent[a].held].life \in {"live", "expired"}

\* A timer runs in an agent, and fires only when its grant's time is up; the
\* grant may have been dropped since.
TimerOK ==
  \A g \in Adders :
    /\ grant[g].timer # "none" => grant[g].at # None
    /\ grant[g].timer = "fired" => grant[g].life \in {"expired", "dropped"}

HeldInv == PendingOK /\ HeldOK /\ TimerOK

\* Steps that touch no grant and bring no add back.
LEMMA CalmKeepsHeld ==
  ASSUME HeldInv, UNCHANGED grant, \A a \in Adders : agent'[a].held = agent[a].held,
         \A c \in Adders : Pending(c)' => Pending(c)
  PROVE  HeldInv'
<1>1. PendingOK'
  BY DEF HeldInv, PendingOK
<1>2. HeldOK'
  BY DEF HeldInv, HeldOK
<1>3. TimerOK'
  BY DEF HeldInv, TimerOK
<1> QED
  BY <1>1, <1>2, <1>3 DEF HeldInv

\* The end of a process takes what it held and its timers with it.
LEMMA EndsKeepsHeld ==
  ASSUME TypeOK, HeldInv, NEW a \in Adders, Ends(a)
  PROVE  HeldInv'
<1>1. /\ agent'[a].held = None
      /\ \A b \in Adders \ {a} : agent'[b] = agent[b]
      /\ \A c \in Clients : conn'[c] \in {conn[c], NoConn}
  BY EndsType
<1>2. /\ client' = client
      /\ \A g \in Adders : grant'[g] = IF grant[g].at = a THEN NoGrant ELSE grant[g]
  BY DEF Ends
<1>3. \A c \in Adders : Pending(c)' => Pending(c)
  BY <1>1, <1>2 DEF Pending, NoConn, Clients
<1>4. PendingOK'
  BY <1>2, <1>3 DEF HeldInv, PendingOK, NoGrant
<1>5. HeldOK'
  <2>1. ASSUME NEW b \in Adders, agent'[b].held # None
        PROVE  /\ grant'[agent'[b].held].at = b
               /\ grant'[agent'[b].held].life \in {"live", "expired"}
    <3>1. b # a /\ agent'[b].held = agent[b].held
      BY <1>1, <2>1
    <3>2. /\ grant[agent[b].held].at = b
          /\ grant[agent[b].held].life \in {"live", "expired"}
      BY <2>1, <3>1 DEF HeldInv, HeldOK
    <3>3. agent[b].held \in Adders
      BY <2>1, <3>1 DEF TypeOK, AgentType, Marks
    <3> QED
      BY <1>2, <3>1, <3>2, <3>3
  <2> QED
    BY <2>1 DEF HeldOK
<1>6. TimerOK'
  BY <1>2 DEF HeldInv, TimerOK, NoGrant
<1> QED
  BY <1>4, <1>5, <1>6 DEF HeldInv

LEMMA AgentKeepsHeld ==
  ASSUME TypeOK, HeldInv, NEW a \in Adders, Agent(a) \/ Signalled(a) \/ AgentDies(a)
  PROVE  HeldInv'
<1>0. agent \in [Adders -> AgentType] /\ conn \in [Clients -> ConnType]
      /\ Adders \subseteq Clients
  BY DEF TypeOK, Clients
<1>1. CASE Exit(a) \/ AgentDies(a)
  BY <1>1, EndsKeepsHeld DEF Exit, AgentDies
<1>2. CASE Close(a)
  <2>1. \A b \in Adders : agent'[b].held = agent[b].held
    BY <1>0, <1>2 DEF Close, AgentType
  <2>2. \A c \in Adders : conn'[c] \in {conn[c], NoConn}
    BY <1>0, <1>2 DEF Close
  <2>3. UNCHANGED <<client, grant>>
    BY <1>2 DEF Close
  <2>4. \A c \in Adders : Pending(c)' => Pending(c)
    BY <2>2, <2>3 DEF Pending, NoConn
  <2> QED
    BY <2>1, <2>3, <2>4, CalmKeepsHeld
<1>3. CASE \/ TakeLock(a) \/ LockTaken(a) \/ Listen(a) \/ IdleSeen(a) \/ RemoveSock(a)
           \/ Release(a)
  <2>1. \A b \in Adders : agent'[b].held = agent[b].held
    BY <1>0, <1>3 DEF TakeLock, LockTaken, Listen, IdleSeen, RemoveSock, Release,
       AgentGoes, AgentType
  <2>2. UNCHANGED <<client, conn, grant>>
    BY <1>3 DEF TakeLock, LockTaken, Listen, IdleSeen, RemoveSock, Release
  <2>3. \A c \in Adders : Pending(c)' => Pending(c)
    BY <2>2 DEF Pending
  <2> QED
    BY <2>1, <2>2, <2>3, CalmKeepsHeld
<1> QED
  BY <1>1, <1>2, <1>3 DEF Agent, Signalled, IdleCloses

\* Connections accepted, answered, given up; reads; and the calls' own steps.
LEMMA ConnKeepsHeld ==
  ASSUME TypeOK, HeldInv, NEW c \in Clients,
         Accept(c) \/ ConnTimesOut(c) \/ HandleRead(c) \/ Respond(c) \/ Client(c)
  PROVE  HeldInv'
<1>0. /\ agent \in [Adders -> AgentType] /\ conn \in [Clients -> ConnType]
      /\ client \in [Clients -> ClientType] /\ Adders \subseteq Clients
  BY DEF TypeOK, Clients
<1>1. UNCHANGED grant
  BY DEF Accept, ConnTimesOut, HandleRead, Respond, Client, Connect, StartAgent, NoAgent,
     StopPolling, CallFails
<1>2. \A a \in Adders : agent'[a].held = agent[a].held
  <2>1. CASE StartAgent(c)
    <3>1. \/ AgentGoes(c, "start")
          \/ UNCHANGED agent
      BY <2>1 DEF StartAgent
    <3> QED
      BY <1>0, <3>1 DEF AgentGoes, AgentType
  <2>2. CASE ~StartAgent(c)
    <3>1. UNCHANGED agent
      BY <2>2 DEF Accept, ConnTimesOut, HandleRead, Respond, Client, Connect, NoAgent,
         StopPolling, CallFails
    <3> QED
      BY <3>1
  <2> QED
    BY <2>1, <2>2
<1>3. /\ \A d \in Clients : d # c => client'[d] = client[d] /\ conn'[d] = conn[d]
      /\ Pending(c)' => Pending(c)
  <2>1. CASE Accept(c)
    BY <1>0, <2>1 DEF Accept, Pending, ConnType
  <2>2. CASE ConnTimesOut(c)
    BY <1>0, <2>2 DEF ConnTimesOut, Pending, ConnType, NoConn
  <2>3. CASE HandleRead(c)
    BY <1>0, <2>3 DEF HandleRead, Answered, Pending, ConnType
  <2>4. CASE Respond(c)
    <3>1. /\ conn' = [conn EXCEPT ![c] = NoConn]
          /\ \/ client' = client
             \/ \E whole \in {TRUE, ~MayBeTorn(c)} :
                  client' = [client EXCEPT ![c].pc = "done", ![c].got = conn[c].res,
                                           ![c].whole = whole]
      BY <2>4 DEF Respond
    <3>2. /\ \A d \in Clients : d # c => client'[d] = client[d] /\ conn'[d] = conn[d]
          /\ conn'[c].st = "none"
          /\ client'[c].pc \in {client[c].pc, "done"}
      BY <1>0, <3>1 DEF NoConn, ClientType
    <3> QED
      BY <3>2 DEF Pending
  <2>5. CASE Connect(c)
    <3>1. Pending(c)
      BY <2>5 DEF Connect, Pending
    <3>2. \A d \in Clients : d # c => client'[d] = client[d] /\ conn'[d] = conn[d]
      BY <1>0, <2>5 DEF Connect
    <3> QED
      BY <3>1, <3>2
  <2>6. CASE StartAgent(c) \/ NoAgent(c) \/ StopPolling(c)
    <3>1. Pending(c)
      BY <2>6 DEF StartAgent, NoAgent, StopPolling, Pending
    <3>2. conn' = conn /\ \A d \in Clients : d # c => client'[d] = client[d]
      BY <1>0, <2>6 DEF StartAgent, NoAgent, StopPolling, ClientGoes
    <3> QED
      BY <3>1, <3>2
  <2>7. CASE CallFails(c)
    BY <1>0, <2>7 DEF CallFails, ClientGoes, Pending, ClientType
  <2> QED
    BY <2>1, <2>2, <2>3, <2>4, <2>5, <2>6, <2>7 DEF Client
<1>4. \A d \in Adders : Pending(d)' => Pending(d)
  BY <1>0, <1>3 DEF Pending
<1> QED
  BY <1>1, <1>2, <1>4, CalmKeepsHeld

\* What dropping the grant h, held or not, does to each.
LEMMA DropOne ==
  ASSUME grant \in [Adders -> GrantType], NEW h \in Marks
  PROVE  /\ Drop(grant, h) \in [Adders -> GrantType]
         /\ \A g \in Adders :
              /\ g # h => Drop(grant, h)[g] = grant[g]
              /\ g = h => /\ Drop(grant, h)[g].at = grant[g].at
                          /\ Drop(grant, h)[g].life = "dropped"
                          /\ Drop(grant, h)[g].timer \in {grant[g].timer, "none"}
  BY GrantAgentAssumption DEF Drop, GrantType, Marks, GrantAgentAssumption

\* An add is handled: what the agent held goes, what it holds is new.
LEMMA AddKeepsHeld ==
  ASSUME TypeOK, ConnOK, HeldInv, NEW c \in Clients, HandleAdd(c)
  PROVE  HeldInv'
<1> DEFINE a == conn[c].to
           h == agent[a].held
           old == Drop(grant, h)
<1>0. /\ agent \in [Adders -> AgentType] /\ conn \in [Clients -> ConnType]
      /\ grant \in [Adders -> GrantType] /\ Adders \subseteq Clients
      /\ c \in Adders /\ conn[c].st = "accepted" /\ client' = client
  BY DEF TypeOK, Clients, HandleAdd
<1>1. a \in Adders /\ h \in Marks
  <2>1. a \in Adders
    BY <1>0 DEF TypeOK, ConnType, Marks
  <2> QED
    BY <1>0, <2>1 DEF AgentType
<1>2. /\ grant' = [old EXCEPT ![c] = [at |-> a, life |-> "live", timer |-> "armed"]]
      /\ agent' = [agent EXCEPT ![a].held = c]
      /\ conn' = [conn EXCEPT ![c].st = "handled", ![c].res = c]
  BY DEF HandleAdd, Answered
<1> HIDE DEF a, h, old
<1>3. /\ old \in [Adders -> GrantType]
      /\ \A g \in Adders :
           /\ g # h => old[g] = grant[g]
           /\ g = h => /\ old[g].at = grant[g].at
                       /\ old[g].life = "dropped"
                       /\ old[g].timer \in {grant[g].timer, "none"}
  BY <1>0, <1>1, DropOne DEF old
<1>4. /\ grant'[c] = [at |-> a, life |-> "live", timer |-> "armed"]
      /\ \A g \in Adders : g # c => grant'[g] = old[g]
  BY <1>0, <1>2, <1>3
<1>5. /\ agent'[a].held = c
      /\ \A b \in Adders : b # a => agent'[b].held = agent[b].held
  BY <1>0, <1>1, <1>2 DEF AgentType
<1>6. /\ conn'[c].st = "handled"
      /\ \A d \in Clients : d # c => conn'[d] = conn[d]
  BY <1>0, <1>2 DEF ConnType
<1>7. None \notin Adders /\ grant[c].at = None
  BY <1>0, GrantAgentAssumption DEF GrantAgentAssumption, HeldInv, PendingOK, Pending
<1>8. PendingOK'
  <2>1. client[c].pc \notin {"idle", "poll"}
    BY <1>0 DEF ConnOK
  <2>2. ~Pending(c)'
    BY <1>0, <1>6, <2>1 DEF Pending
  <2>3. \A g \in Adders : g # c => grant'[g].at = grant[g].at
    BY <1>3, <1>4
  <2>4. \A g \in Adders : g # c /\ Pending(g)' => Pending(g)
    BY <1>0, <1>6 DEF Pending
  <2> QED
    BY <2>2, <2>3, <2>4 DEF HeldInv, PendingOK
<1>9. HeldOK'
  BY <1>0, <1>1, <1>3, <1>4, <1>5, <1>7 DEF HeldInv, HeldOK, AgentType, Marks, h
<1>10. TimerOK'
  BY <1>1, <1>3, <1>4, <1>7 DEF HeldInv, TimerOK
<1> QED
  BY <1>8, <1>9, <1>10 DEF HeldInv

\* A revoke is handled: what the agent held goes.
LEMMA RevokeKeepsHeld ==
  ASSUME TypeOK, HeldInv, NEW c \in Clients, HandleRevoke(c)
  PROVE  HeldInv'
<1> DEFINE a == conn[c].to
           h == agent[a].held
<1>0. /\ agent \in [Adders -> AgentType] /\ conn \in [Clients -> ConnType]
      /\ grant \in [Adders -> GrantType] /\ Adders \subseteq Clients
      /\ c \in Revokers /\ conn[c].st = "accepted" /\ client' = client
  BY DEF TypeOK, Clients, HandleRevoke
<1>1. a \in Adders /\ h \in Marks
  <2>1. a \in Adders
    BY <1>0 DEF TypeOK, ConnType, Marks
  <2> QED
    BY <1>0, <2>1 DEF AgentType
<1>2. /\ grant' = Drop(grant, h)
      /\ agent' = [agent EXCEPT ![a].held = None]
      /\ \A d \in Adders : conn'[d] = conn[d]
  BY <1>0, GrantAgentAssumption DEF HandleRevoke, Answered, GrantAgentAssumption
<1>3. h # None => grant[h].at = a
  BY <1>1 DEF HeldInv, HeldOK
<1> HIDE DEF a, h
<1>4. \A g \in Adders :
        /\ g # h => grant'[g] = grant[g]
        /\ g = h => /\ grant'[g].at = grant[g].at
                    /\ grant'[g].life = "dropped"
                    /\ grant'[g].timer \in {grant[g].timer, "none"}
  BY <1>0, <1>1, <1>2, DropOne
<1>5. /\ agent'[a].held = None
      /\ \A b \in Adders : b # a => agent'[b].held = agent[b].held
  BY <1>0, <1>1, <1>2 DEF AgentType
<1>6. PendingOK'
  BY <1>0, <1>2, <1>4 DEF HeldInv, PendingOK, Pending
<1>7. HeldOK'
  <2>1. ASSUME NEW b \in Adders, agent'[b].held # None
        PROVE  /\ grant'[agent'[b].held].at = b
               /\ grant'[agent'[b].held].life \in {"live", "expired"}
    <3>1. b # a /\ agent'[b].held = agent[b].held /\ agent[b].held \in Adders
      BY <1>0, <1>5, <2>1 DEF AgentType, Marks
    <3>2. /\ grant[agent[b].held].at = b
          /\ grant[agent[b].held].life \in {"live", "expired"}
      BY <2>1, <3>1 DEF HeldInv, HeldOK
    <3>3. agent[b].held # h
      BY <1>3, <2>1, <3>1, <3>2
    <3> QED
      BY <1>4, <3>1, <3>2, <3>3
  <2> QED
    BY <2>1 DEF HeldOK
<1>8. TimerOK'
  BY <1>4 DEF HeldInv, TimerOK
<1> QED
  BY <1>6, <1>7, <1>8 DEF HeldInv

\* Time passes for a grant, and its timer fires and runs.
LEMMA TimeKeepsHeld ==
  ASSUME TypeOK, HeldInv, NEW g \in Adders, Expire(g) \/ Timer(g)
  PROVE  HeldInv'
<1>0. /\ agent \in [Adders -> AgentType] /\ grant \in [Adders -> GrantType]
      /\ client' = client /\ conn' = conn /\ None \notin Adders
  BY GrantAgentAssumption DEF GrantAgentAssumption, TypeOK, Expire, Timer, TimerFires, TimerRuns
<1>1. ASSUME \A b \in Adders : agent'[b].held = agent[b].held,
             \A k \in Adders : k # g => grant'[k] = grant[k],
             grant'[g].at = grant[g].at,
             grant'[g].timer \in {grant[g].timer, "none"}
               \/ (grant[g].life = "expired" /\ grant[g].timer = "armed"),
             \/ grant'[g].life = grant[g].life
             \/ grant[g].life = "live" /\ grant'[g].life = "expired"
      PROVE  HeldInv'
  <2>1. PendingOK'
    BY <1>0, <1>1 DEF HeldInv, PendingOK, Pending
  <2>2. HeldOK'
    BY <1>0, <1>1 DEF HeldInv, HeldOK, AgentType, Marks
  <2>3. TimerOK'
    BY <1>1 DEF HeldInv, TimerOK
  <2> QED
    BY <2>1, <2>2, <2>3 DEF HeldInv
<1>2. CASE Expire(g)
  <2>1. \A b \in Adders : agent'[b].held = agent[b].held
    BY <1>2 DEF Expire
  <2> QED
    BY <1>0, <1>1, <1>2, <2>1 DEF Expire, GrantType
<1>3. CASE TimerFires(g)
  <2>1. \A b \in Adders : agent'[b].held = agent[b].held
    BY <1>3 DEF TimerFires
  <2> QED
    BY <1>0, <1>1, <1>3, <2>1 DEF TimerFires, GrantType
<1>4. CASE TimerRuns(g) /\ ~StillHeld(g)
  <2>1. UNCHANGED agent /\ grant' = [grant EXCEPT ![g].timer = "none"]
    BY <1>4 DEF TimerRuns
  <2> QED
    BY <1>0, <1>1, <2>1 DEF GrantType
<1>5. CASE TimerRuns(g) /\ StillHeld(g)
  <2> DEFINE a == grant[g].at
             old == Drop(grant, g)
  <2>1. a \in Adders /\ agent[a].held = g
    BY <1>0, <1>5 DEF TimerRuns, StillHeld, HeldInv, TimerOK, GrantType, Marks
  <2>2. /\ grant' = [old EXCEPT ![g].timer = "none"]
        /\ agent' = [agent EXCEPT ![a].held = None]
    BY <1>5, <2>1 DEF TimerRuns
  <2>3. /\ old \in [Adders -> GrantType]
        /\ \A k \in Adders : k # g => old[k] = grant[k]
        /\ old[g].at = grant[g].at
    BY <1>0, DropOne DEF Marks
  <2> HIDE DEF old
  <2>4. /\ \A k \in Adders : k # g => grant'[k] = grant[k]
        /\ grant'[g].at = grant[g].at /\ grant'[g].timer = "none"
    BY <2>2, <2>3 DEF GrantType
  <2>5. grant[g].at = a
    OBVIOUS
  <2> HIDE DEF a
  <2>6. /\ agent'[a].held = None
        /\ \A b \in Adders : b # a => agent'[b].held = agent[b].held
    BY <1>0, <2>1, <2>2 DEF AgentType
  <2>7. PendingOK'
    BY <1>0, <2>4 DEF HeldInv, PendingOK, Pending
  <2>8. HeldOK'
    <3>1. ASSUME NEW b \in Adders, agent'[b].held # None
          PROVE  /\ grant'[agent'[b].held].at = b
                 /\ grant'[agent'[b].held].life \in {"live", "expired"}
      <4>1. b # a /\ agent'[b].held = agent[b].held /\ agent[b].held \in Adders
        BY <1>0, <2>6, <3>1 DEF AgentType, Marks
      <4>2. /\ grant[agent[b].held].at = b
            /\ grant[agent[b].held].life \in {"live", "expired"}
        BY <3>1, <4>1 DEF HeldInv, HeldOK
      <4>3. agent[b].held # g
        BY <2>5, <4>1, <4>2
      <4> QED
        BY <2>4, <4>1, <4>2, <4>3
    <3> QED
      BY <3>1 DEF HeldOK
  <2>9. TimerOK'
    BY <2>4 DEF HeldInv, TimerOK
  <2> QED
    BY <2>7, <2>8, <2>9 DEF HeldInv
<1> QED
  BY <1>2, <1>3, <1>4, <1>5 DEF Timer

\* Why a step empties or changes what an agent that goes on holds.
LEMMA DropCause ==
  ASSUME TypeOK, HeldInv, [Next]_vars, NEW a \in Adders,
         agent[a].held # None, agent'[a].held # agent[a].held, agent'[a].pc # "gone"
  PROVE  \/ grant[agent[a].held].life = "expired"
         \/ \E c \in Adders \cup Revokers : HandledNow(c)
<1>0. /\ agent \in [Adders -> AgentType] /\ conn \in [Clients -> ConnType]
      /\ grant \in [Adders -> GrantType] /\ agent[a].held \in Adders
      /\ Adders \subseteq Clients
  BY DEF TypeOK, AgentType, Marks, Clients
<1>1. ASSUME NEW b \in Adders, Agent(b) \/ Signalled(b) \/ AgentDies(b) PROVE FALSE
  <2>1. CASE Exit(b) \/ AgentDies(b)
    <3>1. /\ agent'[b].pc = "gone"
          /\ \A d \in Adders \ {b} : agent'[d] = agent[d]
      BY <2>1, EndsType DEF Exit, AgentDies
    <3> QED
      BY <3>1
  <2>2. CASE \/ TakeLock(b) \/ LockTaken(b) \/ Listen(b) \/ IdleSeen(b) \/ Close(b)
             \/ RemoveSock(b) \/ Release(b)
    <3>1. agent'[a].held = agent[a].held
      BY <1>0, <2>2 DEF TakeLock, LockTaken, Listen, IdleSeen, Close, RemoveSock, Release,
         AgentGoes, AgentType
    <3> QED
      BY <3>1
  <2> QED
    BY <1>1, <2>1, <2>2 DEF Agent, Signalled, IdleCloses
<1>2. ASSUME NEW g \in Adders, Expire(g) \/ Timer(g)
      PROVE  grant[agent[a].held].life = "expired"
  <2>1. TimerRuns(g) /\ StillHeld(g)
    BY <1>2 DEF Expire, Timer, TimerFires, TimerRuns
  <2>2. grant[g].timer = "fired" /\ grant[g].at \in Adders
    BY <1>0, <2>1 DEF TimerRuns, HeldInv, TimerOK, GrantType, Marks
  <2>3. agent[grant[g].at].held = g
    BY <2>1 DEF StillHeld
  <2>4. agent' = [agent EXCEPT ![grant[g].at].held = None]
    BY <2>1 DEF TimerRuns
  <2>5. a = grant[g].at
    BY <1>0, <2>2, <2>4 DEF AgentType
  <2>6. agent[a].held = g
    BY <2>3, <2>5
  <2>7. grant[g].life \in {"expired", "dropped"}
    BY <2>2 DEF HeldInv, TimerOK
  <2>8. grant[g].life \in {"live", "expired"}
    BY <2>6 DEF HeldInv, HeldOK
  <2> QED
    BY <2>6, <2>7, <2>8
<1>3. ASSUME NEW c \in Clients,
             Accept(c) \/ HandleRead(c) \/ Respond(c) \/ ConnTimesOut(c)
      PROVE  FALSE
  BY <1>3 DEF Accept, HandleRead, Respond, ConnTimesOut
<1>4. ASSUME NEW c \in Clients, Client(c) PROVE FALSE
  <2>1. agent'[a].held = agent[a].held
    <3>1. CASE StartAgent(c)
      <4>1. AgentGoes(c, "start") \/ UNCHANGED agent
        BY <3>1 DEF StartAgent
      <4> QED
        BY <1>0, <4>1 DEF AgentGoes, AgentType
    <3>2. CASE ~StartAgent(c)
      BY <1>4, <3>2 DEF Client, Connect, NoAgent, StopPolling, CallFails
    <3> QED
      BY <3>1, <3>2
  <2> QED
    BY <2>1
<1>5. ASSUME NEW c \in Clients, HandleAdd(c) \/ HandleRevoke(c)
      PROVE  \E d \in Adders \cup Revokers : HandledNow(d)
  <2>1. /\ c \in Adders \cup Revokers /\ conn[c].st = "accepted"
        /\ \E res : Answered(c, res)
    BY <1>5 DEF HandleAdd, HandleRevoke
  <2>2. conn'[c].st = "handled"
    BY <1>0, <2>1 DEF Answered, ConnType
  <2> QED
    BY <2>1, <2>2 DEF HandledNow
<1>6. ~UNCHANGED vars
  BY DEF vars
<1> QED
  BY <1>1, <1>2, <1>3, <1>4, <1>5, <1>6 DEF Next, Handle

\* What an agent holds, and which timers are running, on top of types.
THEOREM HeldInvariant == Spec => [](RevokedInv /\ HeldInv)
<1>1. Init => HeldInv
  <2> SUFFICES ASSUME Init PROVE HeldInv
    OBVIOUS
  <2>1. PendingOK
    BY DEF Init, NoAgentYet, NotCalled, PendingOK, NoGrant
  <2>2. HeldOK /\ TimerOK
    BY DEF Init, NoAgentYet, NotCalled, HeldOK, TimerOK, NoProcess, NoGrant
  <2> QED
    BY <2>1, <2>2 DEF HeldInv
<1>2. ASSUME RevokedInv, HeldInv, [Next]_vars PROVE HeldInv'
  <2>0. TypeOK /\ ConnOK
    BY <1>2 DEF RevokedInv
  <2>1. CASE UNCHANGED vars
    <3>1. UNCHANGED grant /\ (\A a \in Adders : agent'[a].held = agent[a].held)
      BY <2>1 DEF vars
    <3>2. \A c \in Adders : Pending(c)' => Pending(c)
      BY <2>1 DEF vars, Pending
    <3> QED
      BY <1>2, <3>1, <3>2, CalmKeepsHeld
  <2> QED
    BY <1>2, <2>0, <2>1, AgentKeepsHeld, TimeKeepsHeld, ConnKeepsHeld, AddKeepsHeld,
       RevokeKeepsHeld DEF Next, Handle
<1> QED
  BY <1>1, <1>2, RevokedInvariant, PTL DEF Spec

\* store.handle and its timers: a grant leaves the memory of an agent that
\* goes on only when its own time is up or an add or a revoke is handled,
\* never for the timer of the grant it replaced, for any number of agents
\* and calls.
THEOREM DroppedForCauseHolds == Spec => DroppedForCause
<1>1. RevokedInv /\ HeldInv /\ [Next]_vars
        => [\A a \in Adders :
              agent[a].held # None /\ agent'[a].held # agent[a].held /\ agent'[a].pc # "gone"
                => \/ grant[agent[a].held].life = "expired"
                   \/ \E c \in Adders \cup Revokers : HandledNow(c)]_vars
  BY DropCause DEF RevokedInv
<1> QED
  BY <1>1, HeldInvariant, PTL DEF Spec, DroppedForCause

-----------------------------------------------------------------------------
(* One store.                                                              *)

\* What the calls accepted by an agent that no longer listens may find there:
\* nothing, its grant, or what one of them adds.
LeftAt(a) ==
  {None} \cup {g \in Adders : g = agent[a].held /\ grant[g].life = "live"}
    \cup {c \in Adders : conn[c].st = "accepted" /\ conn[c].to = a}

\* Only an adder waits for an agent to come up, and what has not been
\* accepted is hung up when its agent stops listening.
QueueOK ==
  \A c \in Clients : /\ client[c].pc = "poll" => c \in Adders
                     /\ conn[c].st = "queued" => Serving(conn[c].to)

\* An add or a revoke has taken effect once it is handled, and from when its
\* agent stopped listening.
TookOK ==
  /\ took \subseteq Writers
  /\ \A c \in Writers :
       /\ client[c].pc \in {"idle", "poll"} => c \notin took
       /\ client[c].pc = "done" => c \in took
       /\ conn[c].st = "handled" => c \in took
       /\ conn[c].st \in {"queued", "accepted"} => (c \in took <=> ~Serving(conn[c].to))

\* A read under way has seen what its answer may be.
SeenOK ==
  /\ seen \in [Readers -> SUBSET Marks]
  /\ \A c \in Readers :
       /\ client[c].pc # "waiting" => seen[c] = {}
       /\ client[c].pc = "waiting" =>
            /\ Holds \in seen[c]
            /\ conn[c].st = "handled" => conn[c].res \in seen[c]
            /\ conn[c].st = "accepted" /\ ~Serving(conn[c].to) => LeftAt(conn[c].to) \subseteq seen[c]

CallsInv == QueueOK /\ TookOK /\ SeenOK

\* What the store holds is a grant of the agent at the socket.
LEMMA HoldsMeans ==
  ASSUME TypeOK, LockOK
  PROVE  /\ Holds \in Marks
         /\ \A a \in Adders :
              Serving(a) => /\ sock = a /\ Reachable
                            /\ Holds = IF agent[a].held # None /\ grant[agent[a].held].life = "live"
                                       THEN agent[a].held ELSE None
         /\ (\A a \in Adders : ~Serving(a)) => Holds = None
<1>0. sock \in Marks /\ agent \in [Adders -> AgentType] /\ None \notin Adders
  BY GrantAgentAssumption DEF TypeOK
<1>1. Holds \in Marks
  <2>1. CASE Reachable
    <3>1. sock \in Adders
      BY <1>0, <2>1 DEF Reachable, Marks
    <3>2. agent[sock].held \in Marks
      BY <1>0, <3>1 DEF AgentType
    <3> QED
      BY <3>2 DEF Holds, Marks
  <2>2. CASE ~Reachable
    BY <2>2 DEF Holds, Marks
  <2> QED
    BY <2>1, <2>2
<1>2. ASSUME NEW a \in Adders, Serving(a)
      PROVE  /\ sock = a /\ Reachable
             /\ Holds = IF agent[a].held # None /\ grant[agent[a].held].life = "live"
                        THEN agent[a].held ELSE None
  <2>1. sock = a
    BY <1>2 DEF LockOK
  <2>2. Reachable
    BY <1>0, <1>2, <2>1 DEF Reachable, Serving
  <2> QED
    BY <2>1, <2>2 DEF Holds
<1>3. ASSUME \A a \in Adders : ~Serving(a) PROVE Holds = None
  BY <1>0, <1>3 DEF Holds, Reachable, Serving, Marks
<1> QED
  BY <1>1, <1>2, <1>3

\* Nothing is overtaken while agents go on listening.
LEMMA NotOvertaken ==
  ASSUME TypeOK, \A a \in Adders : Serving(a) => agent'[a].pc # "closed"
  PROVE  Overtaken = {}
<1> SUFFICES ASSUME NEW c \in Overtaken PROVE FALSE
  OBVIOUS
<1>1. /\ c \in Writers /\ conn[c].st = "accepted"
      /\ agent[conn[c].to].pc = "serving" /\ agent'[conn[c].to].pc = "closed"
  BY DEF Overtaken
<1>2. c \in Clients
  BY <1>1 DEF Writers, Clients
<1>3. conn[c].to \in Adders
  BY <1>1, <1>2 DEF TypeOK, ConnType, Marks
<1> QED
  BY <1>1, <1>3 DEF Serving

\* A grant's life is never given back.
LifeEnds == \A g \in Adders : grant'[g].life = "live" => grant[g].life = "live"

\* An agent listens once.  One that stops hangs up what it has not accepted,
\* and is closed, or gone with every connection; the store holds nothing then.
StopsWell ==
  \A a \in Adders :
    /\ Serving(a)' => Serving(a) \/ agent[a].pc = "locked"
    /\ Serving(a) /\ ~Serving(a)' =>
         /\ Holds' = None
         /\ \A c \in Clients :
              conn'[c].to = a => /\ conn'[c].st # "queued"
                                 /\ conn'[c].st = "accepted" => conn[c].st = "accepted"
         /\ agent'[a].pc = "closed" \/ \A c \in Clients : conn'[c].to # a

\* What a step of an agent, of time, or of a connection nobody hears of does
\* to the store: it loses what it holds, or nothing.
StoreCalm == Holds' = None \/ (Holds' = Holds /\ Overtaken = {})

\* Such a step handles nothing; what it overtakes has taken effect.
LEMMA QuietTakes ==
  ASSUME TypeOK, QuietStep
  PROVE  TakeNow = Overtaken
<1>1. \A c \in Writers : ~HandledNow(c)
  BY DEF QuietStep, NoConn, HandledNow, Writers, Clients
<1>2. \A c \in Revokers : ~(client[c].pc = "idle" /\ client'[c].pc = "done")
  BY DEF QuietStep
<1> QED
  BY <1>1, <1>2 DEF TakeNow

LEMMA QuietKeepsCalls ==
  ASSUME RevokedInv, TypeOK', LockOK', CallsInv, Noted,
         QuietStep, LifeEnds, StopsWell, StoreCalm
  PROVE  CallsInv'
<1>0. /\ agent \in [Adders -> AgentType] /\ conn \in [Clients -> ConnType]
      /\ conn' \in [Clients -> ConnType] /\ UNCHANGED client
      /\ TypeOK /\ LockOK /\ TypeOK' /\ LockOK'
  BY DEF RevokedInv, TypeOK, QuietStep
<1>1. \A c \in Clients : conn[c].st # "none" => conn[c].to \in Adders
  BY <1>0 DEF TypeOK, ConnType, Marks
<1>c. \A c \in Clients :
        /\ conn'[c].st = "queued" => conn[c] = conn'[c]
        /\ conn'[c].st = "accepted" =>
             /\ conn[c].st \in {"queued", "accepted"}
             /\ conn'[c].to = conn[c].to
        /\ conn'[c].st = "handled" => conn'[c] = conn[c]
  BY <1>0 DEF QuietStep, NoConn, ConnType
<1>2. QueueOK'
  <2> SUFFICES ASSUME NEW c \in Clients
               PROVE  /\ client[c].pc = "poll" => c \in Adders
                      /\ conn'[c].st = "queued" => agent'[conn'[c].to].pc = "serving"
    BY <1>0 DEF QueueOK, Serving
  <2>1. client[c].pc = "poll" => c \in Adders
    BY DEF CallsInv, QueueOK
  <2>2. ASSUME conn'[c].st = "queued" PROVE agent'[conn'[c].to].pc = "serving"
    <3>1. conn[c] = conn'[c] /\ conn[c].st = "queued"
      BY <1>c, <2>2
    <3>2. Serving(conn[c].to) /\ conn[c].to \in Adders
      BY <1>1, <3>1 DEF CallsInv, QueueOK
    <3> QED
      BY <2>2, <3>1, <3>2 DEF StopsWell, Serving
  <2> QED
    BY <2>1, <2>2
<1>t. took' = took \cup Overtaken
  BY <1>0, QuietTakes DEF Noted
<1>3. TookOK'
  <2>1. took' \subseteq Writers
    BY <1>t DEF CallsInv, TookOK, Overtaken
  <2> SUFFICES ASSUME NEW c \in Writers
               PROVE  /\ client[c].pc \in {"idle", "poll"} => c \notin took'
                      /\ client[c].pc = "done" => c \in took'
                      /\ conn'[c].st = "handled" => c \in took'
                      /\ conn'[c].st \in {"queued", "accepted"}
                           => (c \in took' <=> agent'[conn'[c].to].pc # "serving")
    BY <1>0, <2>1 DEF TookOK, Serving
  <2>0. c \in Clients
    BY DEF Writers, Clients
  <2>2. client[c].pc \in {"idle", "poll"} => c \notin took'
    <3>1. client[c].pc \in {"idle", "poll"} => conn[c].st = "none"
      BY <2>0 DEF RevokedInv, ConnOK
    <3>2. client[c].pc \in {"idle", "poll"} => c \notin Overtaken
      BY <3>1 DEF Overtaken
    <3> QED
      BY <1>t, <3>2 DEF CallsInv, TookOK
  <2>3. client[c].pc = "done" => c \in took'
    BY <1>t DEF CallsInv, TookOK
  <2>4. conn'[c].st = "handled" => c \in took'
    BY <1>t, <1>c, <2>0 DEF CallsInv, TookOK
  <2>5. ASSUME conn'[c].st \in {"queued", "accepted"}
        PROVE  c \in took' <=> agent'[conn'[c].to].pc # "serving"
    <3>0. conn[c].st \in {"queued", "accepted"}
      BY <1>c, <2>0, <2>5
    <3>1. PICK a \in Adders : conn[c].to = a /\ conn'[c].to = a
      BY <1>1, <1>c, <2>0, <2>5, <3>0
    <3>2. c \in took <=> ~Serving(a)
      BY <3>0, <3>1 DEF CallsInv, TookOK
    <3>3. CASE ~Serving(a)
      <4>1. agent[a].pc \in Running
        BY <1>0, <2>0, <3>0, <3>1 DEF TypeOK
      <4>2. ~Serving(a)'
        BY <3>3, <4>1 DEF StopsWell, Running
      <4> QED
        BY <1>t, <3>1, <3>2, <3>3, <4>2 DEF Serving
    <3>4. CASE Serving(a) /\ Serving(a)'
      <4>1. c \notin Overtaken
        BY <3>1, <3>4 DEF Overtaken, Serving
      <4> QED
        BY <1>t, <3>1, <3>2, <3>4, <4>1 DEF Serving
    <3>5. CASE Serving(a) /\ ~Serving(a)'
      <4>1. conn'[c].st = "accepted" /\ agent'[a].pc = "closed"
        BY <2>0, <2>5, <3>1, <3>5 DEF StopsWell
      <4>2. conn[c].st = "accepted"
        BY <2>0, <3>1, <3>5, <4>1 DEF StopsWell
      <4>3. c \in Overtaken
        BY <3>1, <3>5, <4>1, <4>2 DEF Overtaken, Serving
      <4> QED
        BY <1>t, <3>1, <3>5, <4>3 DEF Serving
    <3> QED
      BY <3>3, <3>4, <3>5
  <2> QED
    BY <2>2, <2>3, <2>4, <2>5
<1>4. SeenOK'
  <2>1. Holds \in Marks /\ Holds' \in Marks
    <3>1. Holds \in Marks
      BY <1>0, HoldsMeans
    <3> QED
      BY <3>1 DEF StoreCalm, Marks
  <2>2. seen' = [c \in Readers |-> IF client[c].pc # "waiting" THEN {}
                                  ELSE seen[c] \cup {Holds'} \cup (Overtaken \cap Adders)]
    BY <1>0 DEF Noted, Seen
  <2>3. seen \in [Readers -> SUBSET Marks]
    BY DEF CallsInv, SeenOK
  <2>4. seen' \in [Readers -> SUBSET Marks]
    BY <2>1, <2>2, <2>3 DEF Marks
  <2>5. \A c \in Readers : client[c].pc # "waiting" => seen'[c] = {}
    BY <2>2
  <2>6. ASSUME NEW c \in Readers, client[c].pc = "waiting"
        PROVE  /\ Holds' \in seen'[c]
               /\ conn'[c].st = "handled" => conn'[c].res \in seen'[c]
    <3>0. c \in Clients /\ seen'[c] = seen[c] \cup {Holds'} \cup (Overtaken \cap Adders)
      BY <2>2, <2>6 DEF Clients
    <3>1. conn[c].st = "handled" => conn[c].res \in seen[c]
      BY <2>6 DEF CallsInv, SeenOK
    <3> QED
      BY <1>c, <3>0, <3>1
  <2>7. ASSUME NEW c \in Readers, client[c].pc = "waiting",
               NEW a \in Adders, conn'[c].st = "accepted", conn'[c].to = a, ~Serving(a)'
        PROVE  LeftAt(a)' \subseteq seen'[c]
    <3>0. c \in Clients /\ seen'[c] = seen[c] \cup {Holds'} \cup (Overtaken \cap Adders)
      BY <2>2, <2>7 DEF Clients
    <3>1. conn[c].to = a /\ conn[c].st \in {"queued", "accepted"}
      BY <1>c, <2>7, <3>0
    <3>2. SUFFICES ASSUME NEW g \in LeftAt(a)', g # None PROVE g \in seen'[c]
      <4>1. None \in seen'[c]
        <5>1. CASE ~Serving(a)
          <6>1. conn[c].st = "accepted"
            BY <3>0, <3>1, <5>1 DEF CallsInv, QueueOK
          <6> QED
            BY <2>7, <3>0, <3>1, <5>1, <6>1 DEF CallsInv, SeenOK, LeftAt
        <5>2. CASE Serving(a)
          BY <2>7, <3>0, <5>2 DEF StopsWell
        <5> QED
          BY <5>1, <5>2
      <4> QED
        BY <4>1
    <3>3. \/ g \in Adders /\ g = agent'[a].held /\ grant'[g].life = "live"
          \/ g \in Adders /\ conn'[g].st = "accepted" /\ conn'[g].to = a
      BY <3>2 DEF LeftAt
    <3>4. CASE g \in Adders /\ g = agent'[a].held /\ grant'[g].life = "live"
      <4>1. g = agent[a].held /\ grant[g].life = "live"
        BY <3>2, <3>4 DEF QuietStep, LifeEnds
      <4>2. CASE Serving(a)
        <5>1. Holds = g
          BY <1>0, <3>2, <4>1, <4>2, HoldsMeans
        <5> QED
          BY <2>7, <3>0, <5>1 DEF CallsInv, SeenOK
      <4>3. CASE ~Serving(a)
        <5>1. conn[c].st = "accepted"
          BY <3>0, <3>1, <4>3 DEF CallsInv, QueueOK
        <5>2. LeftAt(a) \subseteq seen[c]
          BY <2>7, <3>1, <4>3, <5>1 DEF CallsInv, SeenOK
        <5> QED
          BY <3>0, <3>4, <4>1, <5>2 DEF LeftAt
      <4> QED
        BY <4>2, <4>3
    <3>5. CASE g \in Adders /\ conn'[g].st = "accepted" /\ conn'[g].to = a
      <4>0. g \in Clients
        BY <3>5 DEF Clients
      <4>1. conn[g].st \in {"queued", "accepted"} /\ conn[g].to = a
        BY <1>c, <3>5, <4>0
      <4>2. CASE Serving(a)
        <5>1. conn[g].st = "accepted" /\ agent'[a].pc = "closed"
          BY <2>7, <3>0, <3>5, <4>0, <4>2 DEF StopsWell
        <5>2. g \in Overtaken
          BY <3>5, <4>1, <4>2, <5>1 DEF Overtaken, Writers, Serving
        <5> QED
          BY <3>0, <3>5, <5>2
      <4>3. CASE ~Serving(a)
        <5>1. conn[c].st = "accepted" /\ conn[g].st = "accepted"
          BY <3>0, <3>1, <4>0, <4>1, <4>3 DEF CallsInv, QueueOK
        <5>2. LeftAt(a) \subseteq seen[c]
          BY <2>7, <3>1, <4>3, <5>1 DEF CallsInv, SeenOK
        <5> QED
          BY <3>0, <3>5, <4>1, <5>1, <5>2 DEF LeftAt
      <4> QED
        BY <4>2, <4>3
    <3> QED
      BY <3>3, <3>4, <3>5
  <2>8. \A c \in Readers : conn'[c].st = "accepted" => conn'[c].to \in Adders
    BY <1>1, <1>c DEF Clients
  <2> QED
    BY <1>0, <2>4, <2>5, <2>6, <2>7, <2>8 DEF SeenOK, Serving, LeftAt
<1> QED
  BY <1>2, <1>3, <1>4 DEF CallsInv

\* A read that has not been answered waits at a connection.
LEMMA ReadPhase ==
  ASSUME TypeOK, CallsInv, NEW c \in Readers
  PROVE  Phase(c) = "asked" <=> client[c].pc = "waiting"
<1>1. c \in Clients /\ c \notin Adders /\ client[c].pc # "asked"
  BY GrantAgentAssumption DEF Clients, TypeOK, ClientType
<1> QED
  BY <1>1 DEF CallsInv, QueueOK, Phase

\* To the callers such a step is nothing, or the store loses what it holds.
LEMMA QuietRefines ==
  ASSUME RevokedInv, CallsInv, Noted, QuietStep, StoreCalm
  PROVE  [Store!Next]_(Store!vars)
<1>0. UNCHANGED client /\ TypeOK
  BY DEF QuietStep, RevokedInv
<1>1. \A c \in Clients : Phase(c)' = Phase(c)
  BY <1>0 DEF Phase
<1>2. /\ [c \in Clients |-> Phase(c)]' = [c \in Clients |-> Phase(c)]
      /\ [c \in Readers |-> client[c].got]' = [c \in Readers |-> client[c].got]
  BY <1>0, <1>1
<1>3. took' = took \cup Overtaken
  BY <1>0, QuietTakes DEF Noted
<1>4. seen' = [c \in Readers |-> IF client[c].pc # "waiting" THEN {}
                                ELSE seen[c] \cup {Holds'} \cup (Overtaken \cap Adders)]
  BY <1>0 DEF Noted, Seen
<1>5. seen = [c \in Readers |-> seen[c]]
  BY DEF CallsInv, SeenOK
<1>6. \A c \in Readers : client[c].pc # "waiting" => seen[c] = {}
  BY DEF CallsInv, SeenOK
<1>7. CASE Holds' = Holds /\ Overtaken = {}
  <2>1. \A c \in Readers : client[c].pc = "waiting" => Holds \in seen[c]
    BY DEF CallsInv, SeenOK
  <2>2. \A c \in Readers : (IF client[c].pc # "waiting" THEN {}
                            ELSE seen[c] \cup {Holds'} \cup (Overtaken \cap Adders)) = seen[c]
    BY <1>6, <1>7, <2>1
  <2>3. seen' = seen
    BY <1>4, <1>5, <2>2
  <2> QED
    BY <1>2, <1>3, <1>7, <2>3 DEF Store!vars, Store!Clients, Clients
<1>8. CASE Holds' = None
  <2>1. ASSUME NEW c \in Overtaken PROVE Store!UnderWay(c)
    <3>1. c \in Writers /\ conn[c].st = "accepted" /\ Serving(conn[c].to) /\ c \in Clients
      BY DEF Overtaken, Serving, Writers, Clients
    <3>2. c \notin took
      BY <3>1 DEF CallsInv, TookOK
    <3>3. client[c].pc \in {"waiting", "failed"}
      BY <1>0, <3>1 DEF RevokedInv, ConnOK, TypeOK, ClientType
    <3>4. Phase(c) \in {"asked", "failed"}
      BY <3>3 DEF Phase
    <3> QED
      BY <3>1, <3>2, <3>4 DEF Store!UnderWay, Store!Writers, Writers
  <2>2. Overtaken \in SUBSET {c \in Store!Writers : Store!UnderWay(c)}
    BY <2>1 DEF Overtaken, Store!Writers, Writers
  <2>3. \A c \in Readers :
          (IF client[c].pc # "waiting" THEN {}
           ELSE seen[c] \cup {Holds'} \cup (Overtaken \cap Adders))
            = IF Phase(c) = "asked" THEN seen[c] \cup ({None} \cup (Overtaken \cap Adders))
              ELSE seen[c]
    BY <1>0, <1>6, <1>8, ReadPhase
  <2>4. seen' = [c \in Readers |->
                  IF Phase(c) = "asked" THEN seen[c] \cup ({None} \cup (Overtaken \cap Adders))
                  ELSE seen[c]]
    BY <1>4, <2>3
  <2>5. Store!Shows({None} \cup (Overtaken \cap Adders))
    BY <2>4 DEF Store!Shows, Clients
  <2>6. Store!Loses
    BY <1>2, <1>3, <1>8, <2>2, <2>5 DEF Store!Loses
  <2> QED
    BY <2>6 DEF Store!Next
<1> QED
  BY <1>7, <1>8 DEF StoreCalm

\* Steps that change neither who listens nor what is held there.
LEMMA SameStore ==
  ASSUME TypeOK, sock' = sock,
         \A a \in Adders : /\ Serving(a)' <=> Serving(a)
                           /\ Serving(a) => agent'[a].held = agent[a].held,
         \A g \in Adders : grant'[g].life = "live" <=> grant[g].life = "live"
  PROVE  /\ LifeEnds /\ StopsWell /\ StoreCalm
         /\ Holds' = Holds /\ Overtaken = {}
<1>0. sock \in Marks /\ agent \in [Adders -> AgentType] /\ None \notin Adders
  BY GrantAgentAssumption DEF TypeOK
<1>1. LifeEnds /\ StopsWell
  BY DEF LifeEnds, StopsWell
<1>2. Holds' = Holds
  <2>1. CASE sock = None
    BY <2>1 DEF Holds, Reachable
  <2>2. CASE sock # None
    <3>1. sock \in Adders
      BY <1>0, <2>2 DEF Marks
    <3>2. Reachable' <=> Reachable
      BY <3>1 DEF Reachable, Serving
    <3>3. CASE Reachable
      <4>1. agent'[sock].held = agent[sock].held
        BY <3>1, <3>3 DEF Reachable, Serving
      <4>2. agent[sock].held # None => agent[sock].held \in Adders
        BY <1>0, <3>1 DEF AgentType, Marks
      <4> QED
        BY <3>2, <3>3, <4>1, <4>2 DEF Holds
    <3>4. CASE ~Reachable
      BY <3>2, <3>4 DEF Holds
    <3> QED
      BY <3>3, <3>4
  <2> QED
    BY <2>1, <2>2
<1>3. Overtaken = {}
  <2>1. \A a \in Adders : Serving(a) => agent'[a].pc # "closed"
    BY DEF Serving
  <2> QED
    BY <2>1, NotOvertaken
<1> QED
  BY <1>1, <1>2, <1>3 DEF StoreCalm

\* The end of a process.
LEMMA EndsCalm ==
  ASSUME TypeOK, LockOK, HeldInv, NEW a \in Adders, Ends(a)
  PROVE  LifeEnds /\ StopsWell /\ StoreCalm
<1>1. /\ agent'[a].pc = "gone"
      /\ \A b \in Adders \ {a} : agent'[b] = agent[b]
      /\ sock' = sock /\ sock \in Marks
      /\ agent \in [Adders -> AgentType] /\ None \notin Adders
  BY EndsType, GrantAgentAssumption DEF Ends, TypeOK
<1>2. /\ \A g \in Adders : grant'[g] = IF grant[g].at = a THEN NoGrant ELSE grant[g]
      /\ \A c \in Clients : conn'[c] = IF conn[c].to = a THEN NoConn ELSE conn[c]
  BY DEF Ends
<1>3. LifeEnds
  BY <1>2 DEF LifeEnds, NoGrant
<1>4. CASE Serving(a)
  <2>1. sock = a
    BY <1>4 DEF LockOK
  <2>2. Holds' = None
    BY <1>1, <2>1 DEF Holds, Reachable
  <2>3. \A c \in Clients : conn'[c].to # a
    BY <1>1, <1>2 DEF NoConn
  <2>4. StopsWell
    BY <1>1, <2>2, <2>3 DEF StopsWell, Serving
  <2> QED
    BY <1>3, <2>2, <2>4 DEF StoreCalm
<1>5. CASE ~Serving(a)
  <2>1. \A b \in Adders : Serving(b)' <=> Serving(b)
    BY <1>1, <1>5 DEF Serving
  <2>2. StopsWell
    BY <2>1 DEF StopsWell
  <2>3. Overtaken = {}
    <3>1. \A b \in Adders : Serving(b) => agent'[b].pc # "closed"
      BY <2>1 DEF Serving
    <3> QED
      BY <3>1, NotOvertaken
  <2>4. Holds' = Holds
    <3>1. CASE sock = None \/ sock = a
      <4>1. ~Reachable /\ ~Reachable'
        BY <1>1, <1>5, <3>1 DEF Reachable, Serving
      <4> QED
        BY <4>1 DEF Holds
    <3>2. CASE sock \in Adders \ {a}
      <4>1. agent'[sock] = agent[sock] /\ (Reachable' <=> Reachable)
        BY <1>1, <3>2 DEF Reachable
      <4>2. agent[sock].held # None
              => agent[sock].held \in Adders /\ grant[agent[sock].held].at = sock
        BY <1>1, <3>2 DEF HeldInv, HeldOK, AgentType, Marks
      <4>3. agent[sock].held # None => grant'[agent[sock].held] = grant[agent[sock].held]
        BY <1>2, <3>2, <4>2
      <4> QED
        BY <1>1, <4>1, <4>3 DEF Holds
    <3> QED
      BY <1>1, <3>1, <3>2 DEF Marks
  <2> QED
    BY <1>3, <2>2, <2>3, <2>4 DEF StoreCalm
<1> QED
  BY <1>4, <1>5

LEMMA AgentCalm ==
  ASSUME RevokedInv, HeldInv, NEW a \in Adders, Agent(a) \/ Signalled(a) \/ AgentDies(a)
  PROVE  LifeEnds /\ StopsWell /\ StoreCalm
<1>0. /\ agent \in [Adders -> AgentType] /\ conn \in [Clients -> ConnType]
      /\ TypeOK /\ LockOK /\ FreshOK /\ None \notin Adders
  BY GrantAgentAssumption DEF RevokedInv, TypeOK
<1>1. CASE Exit(a) \/ AgentDies(a)
  BY <1>0, <1>1, EndsCalm DEF Exit, AgentDies
<1>2. CASE Close(a)
  <2>1. \A b \in Adders : agent'[b].pc = IF b = a THEN "closed" ELSE agent[b].pc
    BY <1>0, <1>2 DEF Close, AgentType
  <2>2. UNCHANGED grant /\ sock' = None
    BY <1>2 DEF Close
  <2>3. Holds' = None
    BY <2>2 DEF Holds, Reachable
  <2>4. \A c \in Clients :
          conn'[c].to = a => conn'[c].st # "queued" /\ conn'[c] = conn[c]
    BY <1>0, <1>2 DEF Close, NoConn
  <2>5. StopsWell
    BY <2>1, <2>3, <2>4 DEF StopsWell, Serving
  <2> QED
    BY <2>2, <2>3, <2>5 DEF LifeEnds, StoreCalm
<1>3. CASE Listen(a)
  <2>1. \A b \in Adders : /\ agent'[b].held = agent[b].held
                          /\ agent'[b].pc = IF b = a THEN "serving" ELSE agent[b].pc
    BY <1>0, <1>3, AgentGoesType DEF Listen
  <2>2. UNCHANGED grant /\ sock' = a /\ agent[a].pc = "locked" /\ agent[a].held = None
    BY <1>0, <1>3 DEF Listen, FreshOK
  <2>3. Holds' = None
    BY <2>1, <2>2 DEF Holds
  <2>4. StopsWell
    BY <2>1, <2>2 DEF StopsWell, Serving
  <2> QED
    BY <2>2, <2>3, <2>4 DEF LifeEnds, StoreCalm
<1>4. CASE RemoveSock(a)
  <2>1. \A b \in Adders : agent'[b].pc = IF b = a THEN "removed" ELSE agent[b].pc
    BY <1>0, <1>4, AgentGoesType DEF RemoveSock
  <2>2. UNCHANGED grant /\ sock' = None /\ agent[a].pc = "closed"
    BY <1>4 DEF RemoveSock
  <2>3. Holds' = None
    BY <2>2 DEF Holds, Reachable
  <2>4. StopsWell
    BY <2>1, <2>2 DEF StopsWell, Serving
  <2> QED
    BY <2>2, <2>3, <2>4 DEF LifeEnds, StoreCalm
<1>5. CASE TakeLock(a) \/ LockTaken(a) \/ IdleSeen(a) \/ Release(a)
  <2>1. \A b \in Adders : /\ Serving(b)' <=> Serving(b)
                          /\ agent'[b].held = agent[b].held
    <3>1. CASE TakeLock(a) \/ LockTaken(a) \/ Release(a)
      <4>1. PICK pc \in {"locked", "gone", "released"} :
              AgentGoes(a, pc) /\ agent[a].pc # "serving"
        BY <3>1 DEF TakeLock, LockTaken, Release
      <4> QED
        BY <1>0, <4>1, AgentGoesType DEF Serving
    <3>2. CASE IdleSeen(a)
      BY <1>0, <3>2 DEF IdleSeen, AgentType, Serving
    <3> QED
      BY <1>5, <3>1, <3>2
  <2>2. UNCHANGED <<sock, grant>>
    BY <1>5 DEF TakeLock, LockTaken, IdleSeen, Release
  <2> QED
    BY <1>0, <2>1, <2>2, SameStore
<1> QED
  BY <1>1, <1>2, <1>3, <1>4, <1>5 DEF Agent, Signalled, IdleCloses

\* A grant whose timer runs is held no longer as far as callers can tell.
LEMMA TimeCalm ==
  ASSUME RevokedInv, HeldInv, NEW g \in Adders, Expire(g) \/ Timer(g)
  PROVE  LifeEnds /\ StopsWell /\ StoreCalm
<1>0. /\ agent \in [Adders -> AgentType] /\ grant \in [Adders -> GrantType]
      /\ sock \in Marks /\ TypeOK /\ None \notin Adders
  BY GrantAgentAssumption DEF RevokedInv, TypeOK
<1>1. CASE Expire(g)
  <2>1. /\ UNCHANGED <<agent, sock>>
        /\ grant'[g].life = "expired" /\ \A k \in Adders : k # g => grant'[k] = grant[k]
    BY <1>0, <1>1 DEF Expire, GrantType
  <2>2. LifeEnds /\ StopsWell
    BY <2>1 DEF LifeEnds, StopsWell, Serving
  <2>3. Overtaken = {}
    <3>1. \A a \in Adders : Serving(a) => agent'[a].pc # "closed"
      BY <2>1 DEF Serving
    <3> QED
      BY <1>0, <3>1, NotOvertaken
  <2>4. Holds' = None \/ Holds' = Holds
    <3>1. Reachable' = Reachable
      BY <2>1 DEF Reachable
    <3>2. CASE Reachable
      <4>1. agent[sock].held # None => agent[sock].held \in Adders
        BY <1>0, <3>2 DEF Reachable, AgentType, Marks
      <4> QED
        BY <2>1, <3>1, <3>2, <4>1 DEF Holds
    <3>3. CASE ~Reachable
      BY <3>1, <3>3 DEF Holds
    <3> QED
      BY <3>2, <3>3
  <2> QED
    BY <2>2, <2>3, <2>4 DEF StoreCalm
<1>2. CASE TimerFires(g)
  <2>1. /\ UNCHANGED <<agent, sock>>
        /\ \A k \in Adders : grant'[k].life = grant[k].life
    BY <1>0, <1>2 DEF TimerFires, GrantType
  <2> QED
    BY <1>0, <2>1, SameStore DEF Serving
<1>3. CASE TimerRuns(g) /\ ~StillHeld(g)
  <2>1. /\ UNCHANGED <<agent, sock>>
        /\ \A k \in Adders : grant'[k].life = grant[k].life
    BY <1>0, <1>3 DEF TimerRuns, GrantType
  <2> QED
    BY <1>0, <2>1, SameStore DEF Serving
<1>4. CASE TimerRuns(g) /\ StillHeld(g)
  <2>1. /\ grant[g].at \in Adders /\ grant[g].timer = "fired"
        /\ grant[g].life \in {"expired", "dropped"}
    BY <1>0, <1>4 DEF TimerRuns, HeldInv, TimerOK, GrantType, Marks
  <2>2. PICK a \in Adders : a = grant[g].at
    BY <2>1
  <2>3. /\ agent[a].held = g /\ agent' = [agent EXCEPT ![a].held = None]
        /\ grant' = [Drop(grant, g) EXCEPT ![g].timer = "none"] /\ UNCHANGED sock
    BY <1>4, <2>2 DEF TimerRuns, StillHeld
  <2>4. /\ \A b \in Adders : agent'[b].pc = agent[b].pc
        /\ agent'[a].held = None /\ \A b \in Adders \ {a} : agent'[b] = agent[b]
    BY <1>0, <2>3 DEF AgentType
  <2>5. /\ \A k \in Adders : k # g => grant'[k] = grant[k]
        /\ grant'[g].life = "dropped"
    BY <1>0, <2>3, DropOne DEF Marks, GrantType
  <2>6. LifeEnds /\ StopsWell
    BY <2>4, <2>5 DEF LifeEnds, StopsWell, Serving
  <2>7. Overtaken = {}
    <3>1. \A b \in Adders : Serving(b) => agent'[b].pc # "closed"
      BY <2>4 DEF Serving
    <3> QED
      BY <1>0, <3>1, NotOvertaken
  <2>8. Holds' = None \/ Holds' = Holds
    <3>1. CASE ~Reachable
      BY <1>0, <2>3, <2>4, <3>1 DEF Holds, Reachable, Marks
    <3>2. CASE Reachable /\ sock = a
      BY <2>3, <2>4, <3>2 DEF Holds
    <3>3. CASE Reachable /\ sock # a
      <4>1. /\ sock \in Adders /\ sock' = sock
            /\ agent'[sock] = agent[sock] /\ Reachable'
        BY <1>0, <2>3, <2>4, <3>3 DEF Reachable, Marks
      <4>2. agent[sock].held # None
              => agent[sock].held \in Adders /\ grant[agent[sock].held].at = sock
        BY <1>0, <4>1 DEF HeldInv, HeldOK, AgentType, Marks
      <4>3. agent[sock].held # None => agent[sock].held # g
        BY <2>2, <3>3, <4>2
      <4>4. agent[sock].held # None => grant'[agent[sock].held] = grant[agent[sock].held]
        BY <2>5, <4>2, <4>3
      <4> QED
        BY <3>3, <4>1, <4>4 DEF Holds
    <3> QED
      BY <3>1, <3>2, <3>3
  <2> QED
    BY <2>6, <2>7, <2>8 DEF StoreCalm
<1> QED
  BY <1>1, <1>2, <1>3, <1>4 DEF Timer

\* A connection that is accepted or given up changes nothing in the store.
LEMMA ConnCalm ==
  ASSUME TypeOK, NEW c \in Clients, Accept(c) \/ ConnTimesOut(c)
  PROVE  LifeEnds /\ StopsWell /\ StoreCalm
<1>1. UNCHANGED <<agent, sock, grant>>
  BY DEF Accept, ConnTimesOut
<1> QED
  BY <1>1, SameStore DEF Serving

-----------------------------------------------------------------------------
(* Steps of one call.                                                      *)

\* CallsInv for one call.
CallOK(c) ==
  /\ client[c].pc = "poll" => c \in Adders
  /\ conn[c].st = "queued" => Serving(conn[c].to)
  /\ c \in Writers =>
       /\ client[c].pc \in {"idle", "poll"} => c \notin took
       /\ client[c].pc = "done" => c \in took
       /\ conn[c].st = "handled" => c \in took
       /\ conn[c].st \in {"queued", "accepted"} => (c \in took <=> ~Serving(conn[c].to))
  /\ c \in Readers /\ client[c].pc = "waiting" =>
       /\ Holds \in seen[c]
       /\ conn[c].st = "handled" => conn[c].res \in seen[c]
       /\ conn[c].st = "accepted" /\ ~Serving(conn[c].to) => LeftAt(conn[c].to) \subseteq seen[c]

\* Nobody but c moves, no agent starts or stops listening, and one that does
\* not listen has nothing new to be found.
CallStep(c) ==
  /\ \A d \in Clients \ {c} : client'[d] = client[d] /\ conn'[d] = conn[d]
  /\ \A a \in Adders : /\ agent'[a].pc = "serving" <=> agent[a].pc = "serving"
                       /\ ~Serving(a) => LeftAt(a)' \subseteq LeftAt(a)
  /\ Overtaken = {} /\ Holds' \in Marks

LEMMA OneCall ==
  ASSUME TypeOK, CallsInv, Noted, NEW c \in Clients, CallStep(c)
  PROVE  /\ TakeNow = {d \in {c} \cap Writers :
                         HandledNow(d) \/ (d \in Revokers /\ client[d].pc = "idle"
                                                          /\ client'[d].pc = "done")}
         /\ seen' = [d \in Readers |->
                      IF d = c THEN Seen(c)
                      ELSE IF client[d].pc = "waiting" THEN seen[d] \cup {Holds'}
                      ELSE seen[d]]
<1>1. TakeNow = {d \in {c} \cap Writers :
                    HandledNow(d) \/ (d \in Revokers /\ client[d].pc = "idle"
                                                     /\ client'[d].pc = "done")}
  BY DEF TakeNow, CallStep, HandledNow, Writers, Clients
<1>2. ASSUME NEW d \in Readers, d # c
      PROVE  Seen(d) = IF client[d].pc = "waiting" THEN seen[d] \cup {Holds'} ELSE seen[d]
  <2>1. client'[d] = client[d]
    BY <1>2 DEF CallStep, Clients
  <2> QED
    BY <2>1 DEF Seen, CallStep, CallsInv, SeenOK
<1> QED
  BY <1>1, <1>2 DEF Noted

\* Then only c's own part of the invariant is at stake.
LEMMA OneCallKeeps ==
  ASSUME TypeOK, CallsInv, Noted, NEW c \in Clients, CallStep(c), CallOK(c)',
         c \in Readers /\ client'[c].pc # "waiting" => seen'[c] = {},
         c \in Readers => seen'[c] \subseteq Marks
  PROVE  CallsInv'
<1>0. /\ \A d \in Clients \ {c} : client'[d] = client[d] /\ conn'[d] = conn[d]
      /\ \A a \in Adders : Serving(a)' <=> Serving(a)
      /\ \A a \in Adders : ~Serving(a) => LeftAt(a)' \subseteq LeftAt(a)
      /\ Holds' \in Marks
  BY DEF CallStep, Serving
<1>1. \A d \in Clients : conn[d].st # "none" => conn[d].to \in Adders
  BY DEF TypeOK, ConnType, Marks
<1>2. QueueOK'
  <2>1. ASSUME NEW d \in Clients, d # c
        PROVE  /\ client'[d].pc = "poll" => d \in Adders
               /\ conn'[d].st = "queued" => agent'[conn'[d].to].pc = "serving"
    BY <1>0, <1>1, <2>1 DEF CallsInv, QueueOK, Serving
  <2> QED
    BY <2>1 DEF QueueOK, CallOK, Serving
<1>3. TookOK'
  <2>1. took' \subseteq Writers /\ \A d \in Writers : d # c => (d \in took' <=> d \in took)
    BY OneCall DEF Noted, CallsInv, TookOK
  <2>2. ASSUME NEW d \in Writers, d # c
        PROVE  /\ client'[d].pc \in {"idle", "poll"} => d \notin took'
               /\ client'[d].pc = "done" => d \in took'
               /\ conn'[d].st = "handled" => d \in took'
               /\ conn'[d].st \in {"queued", "accepted"}
                    => (d \in took' <=> agent'[conn'[d].to].pc # "serving")
    <3>1. d \in Clients /\ client'[d] = client[d] /\ conn'[d] = conn[d]
      BY <1>0, <2>2 DEF Writers, Clients
    <3> QED
      BY <1>0, <1>1, <2>1, <2>2, <3>1 DEF CallsInv, TookOK, Serving
  <2> QED
    BY <2>1, <2>2 DEF TookOK, CallOK, Serving
<1>4. SeenOK'
  <2>0. seen' \in [Readers -> SUBSET Marks]
    BY <1>0, OneCall DEF CallsInv, SeenOK
  <2>1. ASSUME NEW d \in Readers, d # c
        PROVE  /\ client'[d].pc # "waiting" => seen'[d] = {}
               /\ client'[d].pc = "waiting" =>
                    /\ Holds' \in seen'[d]
                    /\ conn'[d].st = "handled" => conn'[d].res \in seen'[d]
                    /\ \A a \in Adders :
                         conn'[d].st = "accepted" /\ conn'[d].to = a /\ ~Serving(a)'
                           => LeftAt(a)' \subseteq seen'[d]
    <3>1. d \in Clients /\ client'[d] = client[d] /\ conn'[d] = conn[d]
      BY <1>0, <2>1 DEF Clients
    <3>2. seen'[d] = IF client[d].pc = "waiting" THEN seen[d] \cup {Holds'} ELSE seen[d]
      BY <2>1, OneCall
    <3> QED
      BY <1>0, <3>1, <3>2 DEF CallsInv, SeenOK
  <2>2. \A d \in Readers : d # c /\ conn'[d].st = "accepted" => conn'[d].to \in Adders
    BY <1>0, <1>1 DEF Clients
  <2>3. ASSUME NEW d \in Readers, d # c
        PROVE  /\ client'[d].pc # "waiting" => seen'[d] = {}
               /\ client'[d].pc = "waiting" =>
                    /\ Holds' \in seen'[d]
                    /\ conn'[d].st = "handled" => conn'[d].res \in seen'[d]
                    /\ conn'[d].st = "accepted" /\ agent'[conn'[d].to].pc # "serving"
                         => ({None} \cup {g \in Adders : g = agent'[conn'[d].to].held
                                                           /\ grant'[g].life = "live"}
                               \cup {e \in Adders : conn'[e].st = "accepted"
                                                      /\ conn'[e].to = conn'[d].to})
                              \subseteq seen'[d]
    BY <2>1, <2>2, <2>3 DEF LeftAt, Serving
  <2> QED
    BY <2>0, <2>3 DEF SeenOK, CallOK, LeftAt, Serving
<1> QED
  BY <1>2, <1>3, <1>4 DEF CallsInv

\* While the store keeps what it holds, the others see nothing new.
LEMMA SeenStays ==
  ASSUME TypeOK, CallsInv, Noted, NEW c \in Clients, CallStep(c), Holds' = Holds
  PROVE  /\ seen' = [d \in Readers |-> IF d = c THEN Seen(c) ELSE seen[d]]
         /\ seen = [d \in Readers |-> seen[d]]
<1>1. \A d \in Readers : client[d].pc = "waiting" => seen[d] \cup {Holds'} = seen[d]
  BY DEF CallsInv, SeenOK
<1>2. seen = [d \in Readers |-> seen[d]]
  BY DEF CallsInv, SeenOK
<1> QED
  BY <1>1, <1>2, OneCall

\* A read finds what the store holds, or, at an agent that does not listen,
\* what is left there.
LEMMA ReadHandled ==
  ASSUME RevokedInv, CallsInv, Noted, NEW c \in Clients, HandleRead(c)
  PROVE  CallsInv' /\ [Store!Next]_(Store!vars)
<1>0. /\ TypeOK /\ LockOK /\ conn \in [Clients -> ConnType] /\ conn[c].st = "accepted"
      /\ agent \in [Adders -> AgentType] /\ None \notin Adders
      /\ UNCHANGED <<agent, sock, client, grant>> /\ c \in Readers /\ c \notin Writers
  BY GrantAgentAssumption DEF RevokedInv, TypeOK, HandleRead, Writers
<1>1. PICK a \in Adders : a = conn[c].to
  BY <1>0 DEF TypeOK, ConnType, Marks
<1> DEFINE res == IF Live(agent[a].held) THEN agent[a].held ELSE None
<1>2. Answered(c, res) /\ res \in Marks
  BY <1>0, <1>1 DEF HandleRead, AgentType, Marks
<1> HIDE DEF res
<1>3. /\ conn'[c].st = "handled" /\ conn'[c].res = res
      /\ \A d \in Clients \ {c} : conn'[d] = conn[d]
  BY <1>0, <1>2, AnsweredType
<1>4. Holds' = Holds /\ Holds \in Marks /\ Overtaken = {}
  BY <1>0, SameStore, HoldsMeans DEF Serving
<1>5. CallStep(c)
  <2>1. \A b \in Adders : LeftAt(b)' \subseteq LeftAt(b)
    <3> SUFFICES ASSUME NEW b \in Adders, NEW g \in Adders,
                        conn'[g].st = "accepted", conn'[g].to = b
                 PROVE  conn[g].st = "accepted" /\ conn[g].to = b
      BY <1>0 DEF LeftAt
    <3> QED
      BY <1>3 DEF Clients
  <2> QED
    BY <1>0, <1>3, <1>4, <2>1 DEF CallStep
<1>6. TakeNow = {}
  BY <1>0, <1>5, OneCall
<1>7. Seen(c) = seen[c]
  <2>1. client[c].pc = "waiting" => Holds \in seen[c]
    BY <1>0 DEF CallsInv, SeenOK
  <2>2. client[c].pc # "waiting" => seen[c] = {}
    BY <1>0 DEF CallsInv, SeenOK
  <2> QED
    BY <1>0, <1>4, <2>1, <2>2 DEF Seen
<1>8. seen' = seen /\ took' = took
  BY <1>0, <1>4, <1>5, <1>6, <1>7, SeenStays DEF Noted
<1>9. client[c].pc = "waiting" => res \in seen[c]
  <2>1. CASE Serving(a)
    <3>1. res = Holds
      BY <1>0, <2>1, HoldsMeans DEF res, Live
    <3> QED
      BY <1>0, <3>1 DEF CallsInv, SeenOK
  <2>2. CASE ~Serving(a)
    <3>1. res \in LeftAt(a)
      BY <1>0, <1>1 DEF LeftAt, res, Live, AgentType, Marks
    <3> QED
      BY <1>0, <1>1, <2>2, <3>1 DEF CallsInv, SeenOK
  <2> QED
    BY <2>1, <2>2
<1>10. CallOK(c)'
  <2>1. client[c].pc = "poll" => c \in Adders
    BY DEF CallsInv, QueueOK
  <2>2. client[c].pc = "waiting" => Holds \in seen[c]
    BY <1>0 DEF CallsInv, SeenOK
  <2> QED
    BY <1>0, <1>3, <1>4, <1>8, <1>9, <2>1, <2>2 DEF CallOK, Writers
<1>11. CallsInv'
  BY <1>0, <1>5, <1>8, <1>10, OneCallKeeps DEF CallsInv, SeenOK
<1>12. UNCHANGED Store!vars
  BY <1>0, <1>4, <1>8 DEF Store!vars, Phase
<1> QED
  BY <1>11, <1>12

\* An add or a revoke changes the store if its agent listens, and has done
\* so before, for all that callers can tell, if not.
LEMMA WriteHandled ==
  ASSUME RevokedInv, HeldInv, CallsInv, Noted, NEW c \in Clients,
         HandleAdd(c) \/ HandleRevoke(c)
  PROVE  CallsInv' /\ [Store!Next]_(Store!vars)
<1>0. /\ TypeOK /\ LockOK /\ conn \in [Clients -> ConnType] /\ conn[c].st = "accepted"
      /\ agent \in [Adders -> AgentType] /\ grant \in [Adders -> GrantType]
      /\ client \in [Clients -> ClientType] /\ sock \in Marks
      /\ None \notin Adders /\ UNCHANGED <<sock, client>>
      /\ c \in Writers /\ c \notin Readers /\ Adders \cap Revokers = {}
  BY GrantAgentAssumption DEF RevokedInv, TypeOK, HandleAdd, HandleRevoke, Writers
<1>1. PICK a \in Adders : a = conn[c].to
  BY <1>0 DEF TypeOK, ConnType, Marks
<1> DEFINE h == agent[a].held
           new == IF c \in Adders THEN c ELSE None
<1>2. /\ h \in Marks /\ new \in Marks
      /\ agent' = [agent EXCEPT ![a].held = new]
      /\ \E res \in Marks : Answered(c, res)
      /\ IF c \in Adders
         THEN grant' = [Drop(grant, h) EXCEPT
                          ![c] = [at |-> a, life |-> "live", timer |-> "armed"]]
         ELSE grant' = Drop(grant, h)
  BY <1>0, <1>1 DEF HandleAdd, HandleRevoke, AgentType, Marks
<1>3. /\ conn'[c].st = "handled"
      /\ \A d \in Clients \ {c} : conn'[d] = conn[d]
  BY <1>0, <1>2, AnsweredType
<1> HIDE DEF h, new
<1>4. /\ \A b \in Adders : agent'[b].pc = agent[b].pc
      /\ agent'[a].held = new /\ \A b \in Adders \ {a} : agent'[b].held = agent[b].held
  BY <1>0, <1>2 DEF AgentType
<1>5. /\ \A g \in Adders : g # h /\ g # c => grant'[g] = grant[g]
      /\ h \in Adders /\ h # c => grant'[h].life = "dropped"
      /\ c \in Adders => grant'[c].life = "live"
  <2>1. /\ Drop(grant, h) \in [Adders -> GrantType]
        /\ \A g \in Adders :
             /\ g # h => Drop(grant, h)[g] = grant[g]
             /\ g = h => Drop(grant, h)[g].life = "dropped"
    BY <1>0, <1>2, DropOne
  <2>2. \A g \in Adders : g # c => grant'[g] = Drop(grant, h)[g]
    BY <1>2, <2>1
  <2>3. c \in Adders => grant'[c].life = "live"
    BY <1>2, <2>1
  <2> QED
    BY <2>1, <2>2, <2>3
<1>6. Overtaken = {}
  <2>1. \A b \in Adders : Serving(b) => agent'[b].pc # "closed"
    BY <1>4 DEF Serving
  <2> QED
    BY <1>0, <2>1, NotOvertaken
\* A grant that another agent holds is another one.
<1>7. \A b \in Adders \ {a} :
        agent[b].held # None => /\ agent[b].held \in Adders /\ agent[b].held # h
                                /\ agent[b].held # c
  <2> SUFFICES ASSUME NEW b \in Adders \ {a}, agent[b].held # None
               PROVE  /\ agent[b].held \in Adders /\ agent[b].held # h
                      /\ agent[b].held # c
    OBVIOUS
  <2>1. agent[b].held \in Adders /\ grant[agent[b].held].at = b
    BY <1>0 DEF HeldInv, HeldOK, AgentType, Marks
  <2>2. h # None => grant[h].at = a
    BY DEF HeldInv, HeldOK, h
  <2>3. c \in Adders => grant[c].at = None
    BY <1>0 DEF HeldInv, PendingOK, Pending
  <2> QED
    BY <1>0, <2>1, <2>2, <2>3
<1>8. IF Serving(a) THEN Holds' = new ELSE Holds' = Holds
  <2>1. CASE Serving(a)
    <3>1. sock = a /\ sock' = a
      BY <1>0, <2>1 DEF LockOK
    <3>2. Reachable'
      BY <1>0, <1>4, <2>1, <3>1 DEF Reachable, Serving
    <3> QED
      BY <1>0, <1>4, <1>5, <2>1, <3>1, <3>2 DEF Holds, new
  <2>2. CASE ~Serving(a)
    <3>1. CASE sock = None \/ sock = a
      <4>1. ~Reachable /\ ~Reachable'
        BY <1>0, <1>4, <2>2, <3>1 DEF Reachable, Serving
      <4> QED
        BY <2>2, <4>1 DEF Holds
    <3>2. CASE sock \in Adders \ {a}
      <4>1. /\ Reachable' <=> Reachable
            /\ agent'[sock].held = agent[sock].held /\ sock' = sock
        BY <1>0, <1>4, <3>2 DEF Reachable
      <4>2. agent[sock].held # None => grant'[agent[sock].held] = grant[agent[sock].held]
        BY <1>5, <1>7, <3>2
      <4> QED
        BY <2>2, <4>1, <4>2 DEF Holds
    <3> QED
      BY <1>0, <3>1, <3>2 DEF Marks
  <2> QED
    BY <2>1, <2>2
<1>9. Holds \in Marks /\ Holds' \in Marks
  BY <1>0, <1>2, <1>8, HoldsMeans
<1>10. \A b \in Adders : LeftAt(b)' \subseteq LeftAt(b)
  <2> SUFFICES ASSUME NEW b \in Adders, NEW g \in LeftAt(b)', g # None
               PROVE  g \in LeftAt(b)
    BY DEF LeftAt
  <2>1. \/ g \in Adders /\ g = agent'[b].held /\ grant'[g].life = "live"
        \/ g \in Adders /\ conn'[g].st = "accepted" /\ conn'[g].to = b
    BY DEF LeftAt
  <2>2. CASE g \in Adders /\ g = agent'[b].held /\ grant'[g].life = "live"
    <3>1. CASE b = a
      <4>1. g = c /\ c \in Adders
        BY <1>4, <2>2, <3>1 DEF new
      <4> QED
        BY <1>0, <1>1, <3>1, <4>1 DEF LeftAt
    <3>2. CASE b # a
      <4>1. g = agent[b].held /\ g # h /\ g # c
        BY <1>0, <1>4, <1>7, <2>2, <3>2
      <4> QED
        BY <1>5, <2>2, <4>1 DEF LeftAt
    <3> QED
      BY <3>1, <3>2
  <2>3. CASE g \in Adders /\ conn'[g].st = "accepted" /\ conn'[g].to = b
    BY <1>3, <2>3 DEF LeftAt, Clients
  <2> QED
    BY <2>1, <2>2, <2>3
<1>11. CallStep(c)
  BY <1>0, <1>3, <1>4, <1>6, <1>9, <1>10 DEF CallStep
<1>12. took' = took \cup {c}
  <2>1. HandledNow(c)
    BY <1>0, <1>3 DEF HandledNow
  <2>2. TakeNow = {c}
    BY <1>0, <1>11, <2>1, OneCall
  <2> QED
    BY <2>2 DEF Noted
<1>13. CallOK(c)'
  <2>1. client[c].pc = "poll" => c \in Adders
    BY DEF CallsInv, QueueOK
  <2>2. client[c].pc \notin {"idle", "poll"}
    BY <1>0 DEF RevokedInv, ConnOK
  <2> QED
    BY <1>0, <1>3, <1>12, <2>1, <2>2 DEF CallOK
<1>14. CallsInv'
  BY <1>0, <1>11, <1>13, OneCallKeeps
<1>15. /\ [d \in Clients |-> Phase(d)]' = [d \in Clients |-> Phase(d)]
       /\ [d \in Readers |-> client[d].got]' = [d \in Readers |-> client[d].got]
  BY <1>0 DEF Phase
<1>16. CASE Serving(a)
  <2>1. Store!UnderWay(c)
    <3>1. c \notin took
      BY <1>0, <1>1, <1>16 DEF CallsInv, TookOK
    <3>2. client[c].pc \in {"waiting", "failed"}
      BY <1>0 DEF RevokedInv, ConnOK, ClientType
    <3>3. Phase(c) \in {"asked", "failed"}
      BY <3>2 DEF Phase
    <3> QED
      BY <1>0, <3>1, <3>3 DEF Store!UnderWay, Store!Writers, Writers
  <2>2. seen' = [d \in Readers |-> IF client[d].pc = "waiting" THEN seen[d] \cup {Holds'}
                                   ELSE seen[d]]
    BY <1>0, <1>11, OneCall
  <2>3. seen' = [d \in Readers |-> IF Phase(d) = "asked" THEN seen[d] \cup {Holds'}
                                   ELSE seen[d]]
    BY <1>0, <2>2, ReadPhase
  <2>4. Store!Shows({Holds'})
    BY <2>3 DEF Store!Shows, Clients
  <2>5. Store!Takes(c)
    BY <1>8, <1>12, <1>15, <1>16, <2>1, <2>4 DEF Store!Takes, new
  <2> QED
    BY <1>14, <2>5 DEF Store!Next, Store!Clients, Clients
<1>17. CASE ~Serving(a)
  <2>1. took' = took
    BY <1>0, <1>1, <1>12, <1>17 DEF CallsInv, TookOK
  <2>2. seen' = seen
    BY <1>0, <1>8, <1>11, <1>17, SeenStays
  <2>3. UNCHANGED Store!vars
    BY <1>8, <1>15, <1>17, <2>1, <2>2 DEF Store!vars, Store!Clients, Clients
  <2> QED
    BY <1>14, <2>3
<1> QED
  BY <1>16, <1>17

\* What a call does of its own, and its answer, leave the store alone.
LEMMA CallMoves ==
  ASSUME RevokedInv, NEW c \in Clients, Client(c) \/ Respond(c)
  PROVE  CallStep(c) /\ Holds' = Holds
<1>0. /\ TypeOK /\ LockOK /\ FreshOK
      /\ conn \in [Clients -> ConnType] /\ agent \in [Adders -> AgentType]
      /\ client \in [Clients -> ClientType] /\ UNCHANGED <<sock, grant>>
  BY DEF RevokedInv, TypeOK, Client, Connect, StartAgent, NoAgent, StopPolling, CallFails,
     Respond
<1>1. \A a \in Adders : agent'[a].held = agent[a].held /\ (Serving(a)' <=> Serving(a))
  <2>1. CASE StartAgent(c) /\ AgentGoes(c, "start")
    <3>1. c \in Adders /\ agent[c].pc = "none"
      BY <1>0, <2>1 DEF StartAgent, FreshOK
    <3> QED
      BY <1>0, <2>1, <3>1, AgentGoesType DEF Serving
  <2>2. CASE UNCHANGED agent
    BY <2>2 DEF Serving
  <2> QED
    BY <2>1, <2>2 DEF Client, Connect, StartAgent, NoAgent, StopPolling, CallFails, Respond
<1>2. \A d \in Clients \ {c} : client'[d] = client[d]
  <2>1. \/ UNCHANGED client
        \/ \E x : client' = [client EXCEPT ![c] = x]
    BY DEF Client, Connect, StartAgent, NoAgent, StopPolling, CallFails, Respond, ClientGoes
  <2> QED
    BY <1>0, <2>1
<1>3. /\ \A d \in Clients \ {c} : conn'[d] = conn[d]
      /\ conn'[c].st = "accepted" => conn'[c] = conn[c]
  <2>1. CASE Connect(c)
    BY <1>0, <2>1 DEF Connect, ConnType
  <2>2. CASE Respond(c)
    BY <1>0, <2>2 DEF Respond, NoConn
  <2>3. CASE UNCHANGED conn
    BY <2>3
  <2> QED
    BY <2>1, <2>2, <2>3 DEF Client, StartAgent, NoAgent, StopPolling, CallFails
<1>4. Holds' = Holds /\ Overtaken = {} /\ Holds \in Marks
  BY <1>0, <1>1, SameStore, HoldsMeans
<1>5. \A b \in Adders : LeftAt(b)' \subseteq LeftAt(b)
  <2> SUFFICES ASSUME NEW b \in Adders, NEW g \in Adders,
                      conn'[g].st = "accepted", conn'[g].to = b
               PROVE  conn[g].st = "accepted" /\ conn[g].to = b
    BY <1>0, <1>1 DEF LeftAt
  <2> QED
    BY <1>3 DEF Clients
<1> QED
  BY <1>1, <1>2, <1>3, <1>4, <1>5 DEF CallStep, Serving

\* What such a step is to the callers.
LEMMA CallerSees ==
  ASSUME RevokedInv, NEW c \in Clients, CallStep(c)
  PROVE  /\ [d \in Clients |-> Phase(d)]' = [[d \in Clients |-> Phase(d)] EXCEPT ![c] = Phase(c)']
         /\ client'[c].got = client[c].got =>
              [d \in Readers |-> client[d].got]' = [d \in Readers |-> client[d].got]
<1>1. \A d \in Clients \ {c} : client'[d] = client[d] /\ Phase(d)' = Phase(d)
  BY DEF CallStep, Phase
<1> QED
  BY <1>1 DEF Clients

LEMMA ConnectRefines ==
  ASSUME RevokedInv, CallsInv, Noted, NEW c \in Clients, Connect(c)
  PROVE  CallsInv' /\ [Store!Next]_(Store!vars)
<1>0. /\ TypeOK /\ LockOK /\ conn \in [Clients -> ConnType]
      /\ client \in [Clients -> ClientType] /\ Adders \cap Readers = {}
      /\ client[c].pc \in {"idle", "poll"}
      /\ c \in Readers => client[c].pc = "idle"
      /\ Reachable /\ UNCHANGED <<agent, sock>>
  <2>1. client[c].pc = "poll" => c \in Adders
    BY DEF CallsInv, QueueOK
  <2> QED
    BY <2>1, GrantAgentAssumption DEF RevokedInv, TypeOK, Connect
<1>1. CallStep(c) /\ Holds' = Holds
  BY CallMoves DEF Client
<1>2. /\ client'[c].pc = "waiting" /\ client'[c].got = client[c].got
      /\ conn'[c].st = "queued" /\ conn'[c].to = sock
  BY <1>0 DEF Connect, ClientType, ConnType
<1>3. Serving(sock)
  BY <1>0 DEF Reachable, Serving
<1>4. TakeNow = {} /\ took' = took
  <2>1. TakeNow = {}
    BY <1>0, <1>1, <1>2, OneCall DEF HandledNow
  <2> QED
    BY <2>1 DEF Noted
<1>5. c \in Readers => Seen(c) = {Holds}
  BY <1>0, <1>1, <1>2 DEF Seen
<1>6. seen' = [d \in Readers |-> IF d = c THEN {Holds} ELSE seen[d]]
  BY <1>0, <1>1, <1>5, SeenStays
<1>7. Holds \in Marks
  BY <1>0, HoldsMeans
<1>8. CallOK(c)'
  <2>1. c \in Writers => c \notin took
    BY <1>0 DEF CallsInv, TookOK
  <2>2. agent'[conn'[c].to].pc = "serving"
    BY <1>0, <1>2, <1>3 DEF Serving
  <2> QED
    BY <1>1, <1>2, <1>4, <1>6, <2>1, <2>2 DEF CallOK, Serving
<1>9. CallsInv'
  BY <1>0, <1>1, <1>2, <1>6, <1>7, <1>8, OneCallKeeps
<1>10. Phase(c)' = "asked"
  BY <1>2 DEF Phase
<1>11. CASE client[c].pc = "idle"
  <2>1. Phase(c) = "idle"
    BY <1>11 DEF Phase
  <2>2. seen' = IF c \in Readers THEN [seen EXCEPT ![c] = {Holds}] ELSE seen
    <3>1. seen = [d \in Readers |-> seen[d]]
      BY <1>0, <1>1, SeenStays
    <3> QED
      BY <1>6, <3>1
  <2>3. Store!Ask(c)
    BY <1>1, <1>2, <1>4, <1>10, <2>1, <2>2, CallerSees DEF Store!Ask, Store!Goes
  <2> QED
    BY <1>9, <2>3 DEF Store!Next, Store!Clients, Clients
<1>12. CASE client[c].pc = "poll"
  <2>1. Phase(c) = "asked" /\ c \notin Readers
    BY <1>0, <1>12 DEF Phase
  <2>2. [d \in Clients |-> Phase(d)]' = [d \in Clients |-> Phase(d)]
    BY <1>1, <1>10, <2>1, CallerSees
  <2>3. seen' = seen
    BY <1>0, <1>1, <2>1, SeenStays
  <2>4. UNCHANGED Store!vars
    BY <1>1, <1>2, <1>4, <2>2, <2>3, CallerSees DEF Store!vars, Store!Clients, Clients
  <2> QED
    BY <1>9, <2>4
<1> QED
  BY <1>0, <1>11, <1>12

\* An add that starts an agent is under way with that; without an agent
\* there is nothing to read or revoke; a call that gives up may yet be done.
LEMMA CallRefines ==
  ASSUME RevokedInv, CallsInv, Noted, NEW c \in Clients,
         StartAgent(c) \/ NoAgent(c) \/ StopPolling(c) \/ CallFails(c)
  PROVE  CallsInv' /\ [Store!Next]_(Store!vars)
<1>0. /\ TypeOK /\ LockOK /\ conn \in [Clients -> ConnType]
      /\ client \in [Clients -> ClientType] /\ Adders \cap Readers = {}
      /\ Adders \cap Revokers = {} /\ UNCHANGED <<sock, conn>>
  BY GrantAgentAssumption DEF RevokedInv, TypeOK, StartAgent, NoAgent, StopPolling, CallFails
<1>1. CallStep(c) /\ Holds' = Holds
  BY CallMoves DEF Client
<1>2. /\ client'[c].got = client[c].got
      /\ \/ client[c].pc = "idle" /\ client'[c].pc = "poll" /\ c \in Adders
         \/ client[c].pc = "idle" /\ client'[c].pc = "done" /\ c \notin Adders /\ ~Reachable
         \/ client[c].pc \in {"idle", "poll", "waiting"} /\ client'[c].pc = "failed"
  BY <1>0, ClientGoesType DEF StartAgent, NoAgent, StopPolling, CallFails
<1>3. TakeNow = {c} \cap {d \in Revokers : client'[d].pc = "done"}
  <2>1. ~HandledNow(c)
    BY <1>0 DEF HandledNow
  <2>2. client'[c].pc = "done" => client[c].pc = "idle"
    BY <1>2
  <2> QED
    BY <1>0, <1>1, <2>1, <2>2, OneCall DEF Writers
<1>4. took' = took \cup TakeNow /\ (client'[c].pc # "done" => took' = took)
  BY <1>3 DEF Noted
<1>5. /\ seen' = [d \in Readers |-> IF d = c THEN {} ELSE seen[d]]
      /\ seen = [d \in Readers |-> seen[d]]
  <2>1. c \in Readers => Seen(c) = {}
    BY <1>0, <1>2 DEF Seen
  <2> QED
    BY <1>0, <1>1, <2>1, SeenStays
<1>6. CallOK(c)'
  <2>1. conn[c].st = "queued" => Serving(conn[c].to)
    BY DEF CallsInv, QueueOK
  <2>2. \A a \in Adders : Serving(a)' <=> Serving(a)
    BY <1>1 DEF CallStep, Serving
  <2>3. conn[c].st # "none" => conn[c].to \in Adders
    BY <1>0 DEF TypeOK, ConnType, Marks
  <2>4. client[c].pc \in {"idle", "poll"} => conn[c].st = "none"
    BY DEF RevokedInv, ConnOK
  <2>5. c \in Writers =>
          /\ client'[c].pc \in {"idle", "poll"} => c \notin took'
          /\ client'[c].pc = "done" => c \in took'
          /\ conn[c].st = "handled" => c \in took'
          /\ conn[c].st \in {"queued", "accepted"} => (c \in took' <=> ~Serving(conn[c].to))
    BY <1>2, <1>3, <1>4, <2>4 DEF CallsInv, TookOK, Writers
  <2>6. client'[c].pc # "waiting"
    BY <1>2
  <2> QED
    BY <1>0, <1>2, <2>1, <2>2, <2>3, <2>5, <2>6 DEF CallOK, Serving
<1>7. CallsInv'
  BY <1>0, <1>1, <1>2, <1>5, <1>6, OneCallKeeps
<1>8. Phase(c) = IF client[c].pc = "idle" THEN "idle" ELSE "asked"
  BY <1>2 DEF Phase
<1>9. Phase(c) \in {"idle", "asked"}
  BY <1>8
<1>10. CASE client[c].pc = "idle" /\ client'[c].pc = "poll" /\ c \in Adders
  <2>1. Phase(c)' = "asked" /\ Phase(c) = "idle" /\ c \notin Readers
    BY <1>0, <1>8, <1>10 DEF Phase
  <2>2. seen' = seen /\ took' = took
    BY <1>4, <1>5, <1>10, <2>1
  <2>3. Store!Ask(c)
    BY <1>1, <1>2, <2>1, <2>2, CallerSees DEF Store!Ask, Store!Goes
  <2> QED
    BY <1>7, <2>3 DEF Store!Next, Store!Clients, Clients
<1>11. CASE client[c].pc = "idle" /\ client'[c].pc = "done" /\ c \notin Adders /\ ~Reachable
  <2>1. Phase(c)' = "done" /\ Phase(c) = "idle"
    BY <1>8, <1>11 DEF Phase
  <2>2. Holds = None
    BY <1>11 DEF Holds
  <2>3. took' = took \cup ({c} \cap Store!Writers)
    BY <1>3, <1>4, <1>11 DEF Store!Writers
  <2>4. Store!Ends(c, "done")
    BY <1>1, <1>5, <2>1, CallerSees DEF Store!Ends, Store!Goes
  <2>5. Store!FindsNone(c)
    BY <1>1, <1>2, <1>11, <2>1, <2>2, <2>3, <2>4, CallerSees DEF Store!FindsNone
  <2> QED
    BY <1>7, <2>5 DEF Store!Next, Store!Clients, Clients
<1>12. CASE client'[c].pc = "failed"
  <2>1. Phase(c)' = "failed" /\ took' = took
    BY <1>4, <1>12 DEF Phase
  <2>2. Store!Ends(c, "failed")
    BY <1>1, <1>5, <2>1, CallerSees DEF Store!Ends, Store!Goes
  <2>3. Store!Fails(c)
    BY <1>1, <1>2, <1>9, <2>1, <2>2, CallerSees DEF Store!Fails
  <2> QED
    BY <1>7, <2>3 DEF Store!Next, Store!Clients, Clients
<1> QED
  BY <1>2, <1>10, <1>11, <1>12

\* An answer: what a write did has taken effect, what a read got was held.
LEMMA RespondRefines ==
  ASSUME RevokedInv, CallsInv, Noted, NEW c \in Clients, Respond(c)
  PROVE  CallsInv' /\ [Store!Next]_(Store!vars)
<1>0. /\ TypeOK /\ LockOK /\ conn \in [Clients -> ConnType]
      /\ client \in [Clients -> ClientType] /\ conn[c].st = "handled"
  BY DEF RevokedInv, TypeOK, Respond
<1>1. CallStep(c) /\ Holds' = Holds
  BY CallMoves
<1>2. conn'[c].st = "none"
  BY <1>0 DEF Respond, NoConn
<1>3. client[c].pc \in {"waiting", "failed"}
  BY <1>0 DEF RevokedInv, ConnOK, ClientType
<1>4. took' = took
  <2>1. TakeNow = {}
    BY <1>0, <1>1, <1>2, <1>3, OneCall DEF HandledNow
  <2> QED
    BY <2>1 DEF Noted
<1>5. CASE client[c].pc = "failed"
  <2>1. client' = client
    BY <1>5 DEF Respond
  <2>2. c \in Readers => Seen(c) = {} /\ seen[c] = {}
    BY <1>5, <2>1 DEF Seen, CallsInv, SeenOK
  <2>3. seen' = seen
    BY <1>0, <1>1, <2>2, SeenStays
  <2>4. CallOK(c)'
    BY <1>2, <1>5, <2>1 DEF CallOK
  <2>5. CallsInv'
    BY <1>0, <1>1, <2>2, <2>3, <2>4, OneCallKeeps
  <2>6. UNCHANGED Store!vars
    BY <1>1, <1>4, <2>1, <2>3 DEF Store!vars, Phase
  <2> QED
    BY <2>5, <2>6
<1>6. CASE client[c].pc = "waiting"
  <2>1. PICK whole \in {TRUE, ~MayBeTorn(c)} :
          client' = [client EXCEPT ![c].pc = "done", ![c].got = conn[c].res,
                                   ![c].whole = whole]
    BY <1>6 DEF Respond
  <2>2. client'[c].pc = "done" /\ client'[c].got = conn[c].res
    BY <1>0, <2>1 DEF ClientType
  <2>3. /\ seen' = [d \in Readers |-> IF d = c THEN {} ELSE seen[d]]
        /\ seen = [d \in Readers |-> seen[d]]
    <3>1. c \in Readers => Seen(c) = {}
      BY <2>2 DEF Seen
    <3> QED
      BY <1>0, <1>1, <3>1, SeenStays
  <2>4. c \in Writers => c \in took
    BY <1>0 DEF CallsInv, TookOK
  <2>5. CallOK(c)'
    BY <1>2, <1>4, <2>2, <2>4 DEF CallOK
  <2>6. CallsInv'
    BY <1>0, <1>1, <2>2, <2>3, <2>5, OneCallKeeps
  <2>7. Phase(c) = "asked" /\ Phase(c)' = "done"
    BY <1>6, <2>2 DEF Phase
  <2>8. Store!Ends(c, "done")
    BY <1>1, <2>3, <2>7, CallerSees DEF Store!Ends, Store!Goes
  <2>9. IF c \in Readers
        THEN \E g \in seen[c] :
               [d \in Readers |-> client[d].got]'
                 = [[d \in Readers |-> client[d].got] EXCEPT ![c] = g]
        ELSE [d \in Readers |-> client[d].got]' = [d \in Readers |-> client[d].got]
    <3>1. \A d \in Clients \ {c} : client'[d] = client[d]
      BY <1>1 DEF CallStep
    <3>2. CASE c \in Readers
      <4>1. conn[c].res \in seen[c]
        BY <1>0, <1>6, <3>2 DEF CallsInv, SeenOK
      <4>2. [d \in Readers |-> client[d].got]'
              = [[d \in Readers |-> client[d].got] EXCEPT ![c] = conn[c].res]
        BY <2>2, <3>1, <3>2 DEF Clients
      <4> QED
        BY <3>2, <4>1, <4>2
    <3>3. CASE c \notin Readers
      <4>1. [d \in Readers |-> client[d].got]' = [d \in Readers |-> client[d].got]
        BY <3>1, <3>3 DEF Clients
      <4> QED
        BY <3>3, <4>1
    <3> QED
      BY <3>2, <3>3
  <2>10. Store!Returns(c)
    BY <1>1, <1>4, <2>4, <2>7, <2>8, <2>9 DEF Store!Returns, Store!Writers, Writers, Clients
  <2> QED
    BY <2>6, <2>10 DEF Store!Next, Store!Clients, Clients
<1> QED
  BY <1>3, <1>5, <1>6

-----------------------------------------------------------------------------
(* The refinement.                                                         *)

LEMMA CallsStep ==
  ASSUME RevokedInv, HeldInv, CallsInv, [CallsNext]_callVars, RevokedInv'
  PROVE  CallsInv' /\ [Store!Next]_(Store!vars)
<1>0. TypeOK /\ LockOK /\ FreshOK /\ TypeOK' /\ LockOK'
  BY DEF RevokedInv
<1>1. ASSUME Noted, QuietStep, LifeEnds, StopsWell, StoreCalm
      PROVE  CallsInv' /\ [Store!Next]_(Store!vars)
  BY <1>0, <1>1, QuietKeepsCalls, QuietRefines
<1>2. ASSUME Noted, NEW a \in Adders, Agent(a) \/ Signalled(a) \/ AgentDies(a)
      PROVE  CallsInv' /\ [Store!Next]_(Store!vars)
  BY <1>0, <1>1, <1>2, AgentStepKeeps, AgentCalm
<1>3. ASSUME Noted, NEW g \in Adders, Expire(g) \/ Timer(g)
      PROVE  CallsInv' /\ [Store!Next]_(Store!vars)
  BY <1>0, <1>1, <1>3, TimeStepKeeps, TimeCalm
<1>4. ASSUME Noted, NEW c \in Clients, Accept(c) \/ ConnTimesOut(c)
      PROVE  CallsInv' /\ [Store!Next]_(Store!vars)
  BY <1>0, <1>1, <1>4, ConnStepKeeps, ConnCalm
<1>5. ASSUME Noted, NEW c \in Clients, Handle(c)
      PROVE  CallsInv' /\ [Store!Next]_(Store!vars)
  BY <1>5, ReadHandled, WriteHandled DEF Handle
<1>6. ASSUME Noted, NEW c \in Clients, Respond(c) \/ Client(c)
      PROVE  CallsInv' /\ [Store!Next]_(Store!vars)
  BY <1>6, RespondRefines, ConnectRefines, CallRefines DEF Client
<1>7. CASE UNCHANGED callVars
  <2>1. UNCHANGED <<agent, sock, client, conn, grant, took, seen>>
    BY <1>7 DEF callVars, vars
  <2>2. Holds' = Holds
    BY <2>1 DEF Holds, Reachable
  <2>3. CallsInv'
    BY <2>1, <2>2 DEF CallsInv, QueueOK, TookOK, SeenOK, Serving, LeftAt
  <2>4. UNCHANGED Store!vars
    BY <2>1, <2>2 DEF Store!vars, Phase
  <2> QED
    BY <2>3, <2>4
<1> QED
  BY <1>2, <1>3, <1>4, <1>5, <1>6, <1>7 DEF CallsNext, Next

LEMMA CallsStart ==
  ASSUME CallsInit
  PROVE  CallsInv /\ Store!Init
<1>1. /\ \A c \in Clients : client[c].pc = "idle" /\ client[c].got = None /\ conn[c] = NoConn
      /\ sock = None /\ took = {} /\ seen = [c \in Readers |-> {}]
      /\ Readers \subseteq Clients /\ Writers \subseteq Clients
  BY DEF CallsInit, Init, NoAgentYet, NotCalled, Clients, Writers
<1>2. CallsInv
  BY <1>1 DEF CallsInv, QueueOK, TookOK, SeenOK, NoConn
<1>3. Holds = None
  BY <1>1 DEF Holds, Reachable
<1>4. Store!Init
  BY <1>1, <1>3 DEF Store!Init, Store!Clients, Clients, Phase
<1> QED
  BY <1>2, <1>4

\* The history changes nothing that the agents and their callers do.
LEMMA CallsAreSteps == CallsSpec => Spec
<1>1. CallsInit => Init
  BY DEF CallsInit
<1>2. [CallsNext]_callVars => [Next]_vars
  BY DEF CallsNext, callVars
<1> QED
  BY <1>1, <1>2, PTL DEF CallsSpec, Spec

\* What callers may still find, and what has taken effect, on top of what
\* agents hold.
THEOREM CallsInvariant == CallsSpec => [](RevokedInv /\ HeldInv /\ CallsInv)
<1>1. RevokedInv /\ HeldInv /\ CallsInv /\ RevokedInv' /\ [CallsNext]_callVars
        => CallsInv'
  BY CallsStep
<1>2. CallsInit => CallsInv
  BY CallsStart
<1> QED
  BY <1>1, <1>2, CallsAreSteps, HeldInvariant, PTL DEF CallsSpec

\* cmd/grantd.go, keyring/agent.go: to the callers of a user's agents there
\* is one store that does each thing it is asked for at one moment, between
\* the call and its answer, or drops what it holds; whichever agents start,
\* lose the lock, close, are killed or answer late, for any number of calls.
THEOREM StoreImplemented == CallsSpec => StoreSpec
<1>1. RevokedInv /\ HeldInv /\ CallsInv /\ RevokedInv' /\ [CallsNext]_callVars
        => [Store!Next]_(Store!vars)
  BY CallsStep
<1>2. CallsInit => Store!Init
  BY CallsStart
<1> QED
  BY <1>1, <1>2, CallsInvariant, PTL DEF CallsSpec, StoreSpec, Store!Spec
=============================================================================
