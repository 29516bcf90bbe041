----------------------------- MODULE GrantAgent -----------------------------
(***************************************************************************)
(* broker grantd, the process that holds grants in memory, and the calls   *)
(* made to it, for one name:                                               *)
(*   - the agent processes (cmd/grantd.go): lock, socket, serving, and the *)
(*     order they let go of both;                                          *)
(*   - the store in each (internal/keyring/agent.go): the grant it holds,  *)
(*     its timer, the ticker that ends an idle agent, and the goroutine of *)
(*     each connection;                                                    *)
(*   - the clients: an add starts an agent when it finds none, a read and  *)
(*     a revoke take that for no grant.                                    *)
(* A client makes one call, so an adder also names the grant it makes and, *)
(* since do starts at most one agent, the agent it starts.  AgentStore.tla *)
(* says what all of this is to the callers: one store.                     *)
(***************************************************************************)
EXTENDS Naturals

CONSTANTS Adders,    \* calls of Client.Add
          Readers,   \* calls of Client.Read
          Revokers,  \* calls of Client.Revoke
          Faults,    \* what may go wrong: "signal", "crash", "start", "slow"
          None       \* no grant, no agent

Clients == Adders \cup Readers \cup Revokers

ASSUME GrantAgentAssumption ==
  /\ None \notin Adders
  /\ Adders \cap Readers = {} /\ Adders \cap Revokers = {}
  /\ Readers \cap Revokers = {}

VARIABLES agent,   \* the process each adder may start
          sock,    \* whose socket is at the path; a dead agent's may stay
          lock,    \* who holds run/grantd.lock
          client,  \* each call
          conn,    \* its connection, at the agent's side
          grant,   \* each grant, in the agent it is at: its life and timer
          gone     \* history: grants a finished revoke came after

vars == <<agent, sock, lock, client, conn, grant, gone>>

NoProcess == [pc |-> "none", ticker |-> "watch", held |-> None]
NoConn == [st |-> "none", to |-> None, res |-> None]
NoGrant == [at |-> None, life |-> "none", timer |-> "none"]

NotCalled == [pc |-> "idle", got |-> None, whole |-> TRUE, before |-> {}]

NoAgentYet ==
  /\ agent = [a \in Adders |-> NoProcess]
  /\ sock = None /\ lock = None
  /\ conn = [c \in Clients |-> NoConn]
  /\ grant = [g \in Adders |-> NoGrant]
  /\ gone = {}

Init == NoAgentYet /\ client = [c \in Clients |-> NotCalled]

-----------------------------------------------------------------------------
(* The process: newGrantdCmd.                                              *)

AgentGoes(a, pc) == agent' = [agent EXCEPT ![a].pc = pc]

BugNoLock == TRUE

LockFree == lock = None

TakeLock(a) ==
  /\ agent[a].pc = "start" /\ LockFree
  /\ lock' = a /\ AgentGoes(a, "locked")
  /\ UNCHANGED <<sock, client, conn, grant, gone>>

\* The lock stayed taken for two seconds: another agent is serving.
LockTaken(a) ==
  /\ agent[a].pc = "start" /\ lock # None
  /\ AgentGoes(a, "gone")
  /\ UNCHANGED <<sock, lock, client, conn, grant, gone>>

\* A stale socket is removed first.
Listen(a) ==
  /\ agent[a].pc = "locked"
  /\ sock' = a /\ AgentGoes(a, "serving")
  /\ UNCHANGED <<lock, client, conn, grant, gone>>

\* The ticker of Serve, seeing idleFor reach idle: thirty seconds, which the
\* call that started the agent does not last.
IdleSeen(a) ==
  /\ agent[a].pc = "serving" /\ agent[a].ticker = "watch"
  /\ client[a].pc \in {"done", "failed"}
  /\ agent[a].held = None
  /\ agent' = [agent EXCEPT ![a].ticker = "close"]
  /\ UNCHANGED <<sock, lock, client, conn, grant, gone>>

\* ln.Close takes the socket away too, whoever calls it, and what was not
\* accepted is hung up.
Close(a) ==
  /\ agent[a].pc = "serving"
  /\ agent' = [agent EXCEPT ![a].pc = "closed", ![a].ticker = "watch"]
  /\ sock' = None
  /\ conn' = [c \in Clients |-> IF conn[c].to = a /\ conn[c].st = "queued"
                                THEN NoConn ELSE conn[c]]
  /\ UNCHANGED <<lock, client, grant, gone>>

IdleCloses(a) == agent[a].ticker = "close" /\ Close(a)

Signalled(a) == "signal" \in Faults /\ Close(a)

\* Serve has returned: the deferred os.Remove, then the lock, then the end.
RemoveSock(a) ==
  /\ agent[a].pc = "closed"
  /\ sock' = None /\ AgentGoes(a, "removed")
  /\ UNCHANGED <<lock, client, conn, grant, gone>>

Release(a) ==
  /\ agent[a].pc = "removed"
  /\ lock' = None /\ AgentGoes(a, "released")
  /\ UNCHANGED <<sock, client, conn, grant, gone>>

\* The process ends: its memory, its timers and its connections with it.
Ends(a) ==
  /\ agent' = [agent EXCEPT ![a] = [NoProcess EXCEPT !.pc = "gone"]]
  /\ conn' = [c \in Clients |-> IF conn[c].to = a THEN NoConn ELSE conn[c]]
  /\ grant' = [g \in Adders |-> IF grant[g].at = a THEN NoGrant ELSE grant[g]]
  /\ UNCHANGED <<sock, client, gone>>

Exit(a) ==
  /\ agent[a].pc = "released"
  /\ Ends(a)
  /\ UNCHANGED lock

\* Killed, or a signal before it listens for them: the lock goes with the
\* process and the socket stays.
AgentDies(a) ==
  /\ "crash" \in Faults /\ agent[a].pc \notin {"none", "gone"}
  /\ Ends(a)
  /\ lock' = IF lock = a THEN None ELSE lock

Agent(a) ==
  \/ TakeLock(a) \/ LockTaken(a) \/ Listen(a) \/ IdleSeen(a) \/ IdleCloses(a)
  \/ RemoveSock(a) \/ Release(a) \/ Exit(a)

-----------------------------------------------------------------------------
(* The store, and the goroutine of a connection.  Those run until the      *)
(* process exits, whether or not it still listens.                         *)

\* store.drop: the value's memory is cleared and the timer stopped; one that
\* has fired already still waits for the store.
Drop(gr, g) ==
  IF g = None THEN gr
  ELSE [gr EXCEPT ![g].life = "dropped",
                  ![g].timer = IF @ = "armed" THEN "none" ELSE @]

Accept(c) ==
  /\ conn[c].st = "queued"
  /\ conn' = [conn EXCEPT ![c].st = "accepted"]
  /\ UNCHANGED <<agent, sock, lock, client, grant, gone>>

Answered(c, res) == conn' = [conn EXCEPT ![c].st = "handled", ![c].res = res]

HandleAdd(c) ==
  LET a == conn[c].to IN
  /\ c \in Adders /\ conn[c].st = "accepted"
  /\ grant' = [Drop(grant, agent[a].held) EXCEPT
                 ![c] = [at |-> a, life |-> "live", timer |-> "armed"]]
  /\ agent' = [agent EXCEPT ![a].held = c]
  /\ Answered(c, c)
  /\ UNCHANGED <<sock, lock, client, gone>>

BugHeld(g) == g # None

\* The time is looked at as well: the timer may be late.
Live(g) == g # None /\ grant[g].life = "live"

HandleRead(c) ==
  LET a == conn[c].to IN
  /\ c \in Readers /\ conn[c].st = "accepted"
  /\ Answered(c, IF Live(agent[a].held) THEN agent[a].held ELSE None)
  /\ UNCHANGED <<agent, sock, lock, client, grant, gone>>

BugNotDropped(c) ==
  /\ c \in Revokers /\ conn[c].st = "accepted"
  /\ Answered(c, agent[conn[c].to].held)
  /\ UNCHANGED <<agent, sock, lock, client, grant, gone>>

HandleRevoke(c) ==
  LET a == conn[c].to IN
  /\ c \in Revokers /\ conn[c].st = "accepted"
  /\ grant' = Drop(grant, agent[a].held)
  /\ agent' = [agent EXCEPT ![a].held = None]
  /\ Answered(c, agent[a].held)
  /\ UNCHANGED <<sock, lock, client, gone>>

\* Encode, with the store unlocked: a read's answer is the held value's own
\* memory, so what a drop clears meanwhile may or may not go out whole.
MayBeTorn(c) ==
  c \in Readers /\ conn[c].res # None /\ grant[conn[c].res].life = "dropped"

Respond(c) ==
  /\ conn[c].st = "handled"
  /\ conn' = [conn EXCEPT ![c] = NoConn]
  /\ IF client[c].pc # "waiting" THEN UNCHANGED <<client, gone>>
     ELSE /\ \E whole \in {TRUE, ~MayBeTorn(c)} :
               client' = [client EXCEPT ![c].pc = "done", ![c].got = conn[c].res,
                                        ![c].whole = whole]
          /\ gone' = IF c \in Revokers THEN gone \cup client[c].before ELSE gone
  /\ UNCHANGED <<agent, sock, lock, grant>>

\* The connection's own deadline.
ConnTimesOut(c) ==
  /\ "slow" \in Faults /\ conn[c].st \in {"accepted", "handled"}
  /\ conn' = [conn EXCEPT ![c] = NoConn]
  /\ UNCHANGED <<agent, sock, lock, client, grant, gone>>

Expire(g) ==
  /\ grant[g].life = "live"
  /\ grant' = [grant EXCEPT ![g].life = "expired"]
  /\ UNCHANGED <<agent, sock, lock, client, conn, gone>>

TimerFires(g) ==
  /\ grant[g].life = "expired" /\ grant[g].timer = "armed"
  /\ grant' = [grant EXCEPT ![g].timer = "fired"]
  /\ UNCHANGED <<agent, sock, lock, client, conn, gone>>

BugAnyGrant(g) == TRUE
BugNeverDropped(g) == FALSE

\* if s.grants[req.Name] == h
StillHeld(g) == agent[grant[g].at].held = g

TimerRuns(g) ==
  LET a == grant[g].at IN
  /\ grant[g].timer = "fired"
  /\ IF StillHeld(g)
     THEN /\ grant' = [Drop(grant, agent[a].held) EXCEPT ![g].timer = "none"]
          /\ agent' = [agent EXCEPT ![a].held = None]
     ELSE /\ grant' = [grant EXCEPT ![g].timer = "none"]
          /\ UNCHANGED agent
  /\ UNCHANGED <<sock, lock, client, conn, gone>>

Handle(c) == HandleAdd(c) \/ HandleRead(c) \/ HandleRevoke(c)

Timer(g) == TimerFires(g) \/ TimerRuns(g)

-----------------------------------------------------------------------------
(* The client: do.                                                         *)

BugStaleSocket == sock # None

Reachable == sock # None /\ agent[sock].pc = "serving"

\* Calls acknowledged so far; a revoke must end all their grants, and what
\* a read finds ended when it begins must stay so.
Acknowledged == {g \in Adders : client[g].pc = "done"}
Before(c) == IF c \in Revokers THEN Acknowledged ELSE gone

ClientGoes(c, pc) == client' = [client EXCEPT ![c].pc = pc]

Connect(c) ==
  /\ client[c].pc \in {"idle", "poll"} /\ Reachable
  /\ client' = [client EXCEPT ![c].pc = "waiting",
                              ![c].before = Before(c)]
  /\ conn' = [conn EXCEPT ![c].st = "queued", ![c].to = sock]
  /\ UNCHANGED <<agent, sock, lock, grant, gone>>

\* errNoAgent: an add starts one.
StartAgent(c) ==
  /\ client[c].pc = "idle" /\ ~Reachable /\ c \in Adders
  /\ \/ ClientGoes(c, "poll") /\ AgentGoes(c, "start")
     \/ "start" \in Faults /\ ClientGoes(c, "failed") /\ UNCHANGED agent
  /\ UNCHANGED <<sock, lock, conn, grant, gone>>

\* errNoAgent: no grants, and nothing to revoke.
NoAgent(c) ==
  /\ client[c].pc = "idle" /\ ~Reachable /\ c \notin Adders
  /\ ClientGoes(c, "done")
  /\ gone' = IF c \in Revokers THEN gone \cup Acknowledged ELSE gone
  /\ UNCHANGED <<agent, sock, lock, conn, grant>>

BugPollsForever(c) == FALSE

\* Five seconds of dialling are over.
PollIsOver(c) == ~Reachable

StopPolling(c) ==
  /\ client[c].pc = "poll" /\ PollIsOver(c)
  /\ ClientGoes(c, "failed")
  /\ UNCHANGED <<agent, sock, lock, conn, grant, gone>>

\* The connection ends without an answer (it was never accepted, the agent
\* is gone or gave it up), or its deadline passes.
CallFails(c) ==
  /\ client[c].pc = "waiting"
  /\ conn[c].st = "none" \/ "slow" \in Faults
  /\ ClientGoes(c, "failed")
  /\ UNCHANGED <<agent, sock, lock, conn, grant, gone>>

Client(c) == Connect(c) \/ StartAgent(c) \/ NoAgent(c) \/ StopPolling(c) \/ CallFails(c)

Next ==
  \/ \E a \in Adders :
       Agent(a) \/ Signalled(a) \/ AgentDies(a) \/ Expire(a) \/ Timer(a)
  \/ \E c \in Clients :
       Accept(c) \/ Handle(c) \/ Respond(c) \/ ConnTimesOut(c) \/ Client(c)

Spec == Init /\ [][Next]_vars

\* Processes and goroutines that can run do, and time passes. Nobody has to
\* call, and nothing has to fail; a call under way is gone through with.
Fairness ==
  /\ \A a \in Adders : WF_vars(Agent(a)) /\ WF_vars(Expire(a)) /\ WF_vars(Timer(a))
  /\ \A c \in Clients :
       /\ WF_vars(Accept(c)) /\ WF_vars(Handle(c)) /\ WF_vars(Respond(c))
       /\ WF_vars(client[c].pc # "idle" /\ Client(c))

-----------------------------------------------------------------------------
(* Properties.                                                             *)

Marks == Adders \cup {None}
AgentType ==
  [pc : {"none", "start", "locked", "serving", "closed", "removed", "released",
         "gone"},
   ticker : {"watch", "close"}, held : Marks]
ClientType ==
  [pc : {"idle", "poll", "waiting", "done", "failed"}, got : Marks,
   whole : BOOLEAN, before : SUBSET Adders]
ConnType ==
  [st : {"none", "queued", "accepted", "handled"}, to : Marks, res : Marks]
GrantType ==
  [at : Marks, life : {"none", "live", "expired", "dropped"},
   timer : {"none", "armed", "fired"}]

Running == {"serving", "closed", "removed", "released"}

\* Every variable has its type, and a connection is one to a running agent,
\* never to the socket a dead one left.
TypeOK ==
  /\ agent \in [Adders -> AgentType]
  /\ sock \in Marks /\ lock \in Marks
  /\ client \in [Clients -> ClientType]
  /\ conn \in [Clients -> ConnType]
  /\ grant \in [Adders -> GrantType]
  /\ gone \subseteq Adders
  /\ \A c \in Clients :
       conn[c].st # "none" => conn[c].to # None /\ agent[conn[c].to].pc \in Running

\* One agent per user: whoever serves holds the lock and is the one at the
\* socket, so no agent keeps grants where no client reaches them, and no
\* exiting agent takes its successor's socket away (newGrantdCmd).
OneServer == \A a \in Adders : agent[a].pc = "serving" => lock = a /\ sock = a

\* Handling c's call ends in this step.
HandledNow(c) == conn[c].st = "accepted" /\ conn'[c].st = "handled"

\* A grant leaves its agent's memory for a reason of its own: its time is
\* up, or a newer add or a revoke is handled; never for the timer of the
\* grant it replaced (store.handle).
DroppedForCause ==
  [][\A a \in Adders :
       agent[a].held # None /\ agent'[a].held # agent[a].held /\ agent'[a].pc # "gone"
         => \/ grant[agent[a].held].life = "expired"
            \/ \E c \in Adders \cup Revokers : HandledNow(c)]_vars

\* A revoke that has returned is final over every agent there was: no read
\* begun later gets a grant acknowledged before the revoke began, though
\* the revoke may have found no agent while one still held the grant.
RevokedIsUnreachable ==
  \A c \in Readers : client[c].pc = "done" => client[c].got \notin client[c].before

\* Every call ends, whichever agent dies, refuses or never comes up.
CallsEnd ==
  \A c \in Clients :
    client[c].pc \in {"poll", "waiting"} ~> client[c].pc \in {"done", "failed"}

\* No daemon lingers: grants run out, and then the agent ends.
NoAgentLingers == \A a \in Adders : agent[a].pc = "serving" ~> agent[a].pc = "gone"

\* Read returns name's granted value.
ReadIsWhole == \A c \in Readers : client[c].pc = "done" => client[c].whole
=============================================================================
