------------------------- MODULE RequestQueueProofs -------------------------
(***************************************************************************)
(* Proofs about RequestQueue, for any number of requests, names and        *)
(* durations, and any bounds: its types, and every safety property the     *)
(* run RequestQueue checks.                                                *)
(*                                                                         *)
(* QueueInv is inductive.  OneWindow is by itself; what concerns one       *)
(* request and its approver is Local, and a step of one leaves the Local   *)
(* of the others alone (LocalKept); UnaskedFor is about a window about to  *)
(* open and the grants, which only the holder of the lock and people       *)
(* outside the queue write.                                                *)
(***************************************************************************)
EXTENDS RequestQueue, TLAPS

Said == {"ok", "request_timeout", "denied", "error"}

\* A request that has not been made has no approver, and only one that is
\* over has an answer.
IdleOK(r) ==
  /\ req[r].pc = "idle" => app[r].pc = "none"
  /\ req[r].pc # "done" => req[r].answer = None

\* What an approver prints has been logged, unless it is an error or the
\* line could not be written.
LoggedOK(r) ==
  /\ app[r].pc \in {"record", "print", "done"} => app[r].result \in Said
  /\ app[r].pc \in {"print", "done"} =>
       app[r].result = "error" \/ {app[r].result, "unwritten"} \cap log[r] # {}

HeardOK(r) ==
  /\ req[r].answer = "denied" \/ (req[r].answer = "ok" /\ app[r].pc # "none") =>
       app[r].pc = "done" /\ {req[r].answer, "unwritten"} \cap log[r] # {}
  /\ req[r].answer = "no_grant" =>
       app[r].pc \in {"none", "dead"} /\ {"no_grant", "unwritten"} \cap log[r] # {}

\* A line is about a window that is closed, and what it says stays true.
LinesOK(r) ==
  /\ {"denied", "request_timeout", "ok"} \cap log[r] # {} =>
       app[r].pc \in {"print", "done", "dead"}
  /\ {"denied", "request_timeout"} \cap log[r] # {} => app[r].given = {}
  /\ "ok" \in log[r] => req[r].names \subseteq met[r]

\* Only an approved window has granted, and it ends well or in an error.
GivenOK(r) ==
  app[r].given # {} =>
    /\ app[r].pc \in {"grant", "record", "print", "done", "dead"}
    /\ app[r].pc \in {"record", "print", "done"} => app[r].result \in {"ok", "error"}

\* What is granted lasts.
PickedOK(r) == app[r].pc = "grant" => app[r].picked \in TTLs

Unanswered(r) == req[r].answer \in {"request_timeout", "no_grant", "denied"}

\* A request told so has an approver that is through, or ran out of time.
LateOK(r) ==
  /\ Unanswered(r) => app[r].pc \in {"none", "done", "dead"} \/ OutOfTime(r)
  /\ Unanswered(r) /\ app[r].given # {} => app[r].pc = "dead" \/ OutOfTime(r)

\* What an approver need not ask for any more, its request has had.
MetOK(r) ==
  /\ app[r].pc \in {"start", "queue", "resolve"} => req[r].names \ app[r].missing \subseteq met[r]
  /\ app[r].pc \in {"open", "window", "grant"} => req[r].names \ app[r].shown \subseteq met[r]
  /\ req[r].names \cap app[r].given \subseteq met[r]
  /\ app[r].pc \in {"record", "print", "done"} /\ app[r].result = "ok" =>
       req[r].names \subseteq met[r]
  /\ req[r].answer = "ok" => req[r].names \subseteq met[r]

Local(r) ==
  /\ IdleOK(r) /\ LoggedOK(r) /\ HeardOK(r) /\ LinesOK(r) /\ GivenOK(r)
  /\ PickedOK(r) /\ LateOK(r) /\ MetOK(r)

\* A window about to open is not about a name that has just been granted.
UnaskedFor(r) ==
  app[r].pc = "open" =>
    \A n \in app[r].shown :
      ~(grant[n].by \in Requesters /\ Enough(n, clock, req[r].ttl, req[r].extend))

QueueInv ==
  TypeOK /\ OneWindow /\ \A r \in Requesters : Local(r) /\ UnaskedFor(r)

Grants == [ends : Nat, by : Requesters \cup {"terminal", None}]
Requests == [pc : {"idle", "wait", "done", "killed"}, names : SUBSET Names,
             ttl : Nat, extend : BOOLEAN, deadline : Nat, answer : Answers]
Approvers == [pc : {"none", "start", "queue", "resolve", "open", "window", "grant",
                    "record", "print", "done", "dead"},
              missing : SUBSET Names, shown : SUBSET Names,
              given : SUBSET Names, picked : Nat, result : Answers]

-----------------------------------------------------------------------------
(* Types.                                                                  *)

\* A state is well typed when its parts are.
LEMMA TypeIs ==
  TypeOK <=>
    /\ clock \in 0..MaxClock /\ events \in 0..MaxEvents
    /\ grant \in [Names -> Grants] /\ req \in [Requesters -> Requests]
    /\ app \in [Requesters -> Approvers] /\ lock \in Requesters \cup {None}
    /\ log \in [Requesters -> SUBSET Lines] /\ met \in [Requesters -> SUBSET Names]
BY DEF TypeOK, Grants, Requests, Approvers

\* The same, as the steps below need it.
LEMMA Typed ==
  ASSUME TypeOK
  PROVE  /\ clock \in Nat /\ grant \in [Names -> Grants]
         /\ req \in [Requesters -> Requests] /\ app \in [Requesters -> Approvers]
         /\ lock \in Requesters \cup {None} /\ log \in [Requesters -> SUBSET Lines]
         /\ met \in [Requesters -> SUBSET Names]
<1>1. /\ clock \in 0..MaxClock /\ MaxClock \in Nat
      /\ grant \in [Names -> Grants]
      /\ req \in [Requesters -> Requests] /\ app \in [Requesters -> Approvers]
      /\ lock \in Requesters \cup {None} /\ log \in [Requesters -> SUBSET Lines]
      /\ met \in [Requesters -> SUBSET Names]
  BY TypeIs, QueueAssumption DEF QueueAssumption
<1> QED
  BY <1>1

LEMMA InitType == Init => TypeOK
BY QueueAssumption DEF QueueAssumption, Init, TypeOK, Answers

\* What is asked for is names and a duration.
LEMMA WantType ==
  ASSUME NEW r \in Requesters, NEW want \in Wants[r]
  PROVE  /\ want.names \in SUBSET Names /\ want.ttl \in TTLs /\ want.ttl \in Nat
         /\ want.extend \in BOOLEAN
<1>1. want \in [names : (SUBSET Names) \ {{}}, ttl : TTLs, extend : BOOLEAN]
  BY QueueAssumption DEF QueueAssumption
<1>2. TTLs \subseteq Nat
  BY QueueAssumption DEF QueueAssumption
<1> QED
  BY <1>1, <1>2

LEMMA EventsType ==
  ASSUME TypeOK, Happens PROVE events' \in 0..MaxEvents
BY QueueAssumption DEF TypeOK, Happens, QueueAssumption

\* What is appended is a line, or one that was not written.
LEMMA AppendsType ==
  ASSUME TypeOK, NEW r \in Requesters, NEW line \in Answers, Appends(r, line)
  PROVE  log' \in [Requesters -> SUBSET Lines] /\ events' \in 0..MaxEvents
<1>1. log \in [Requesters -> SUBSET Lines] /\ events \in 0..MaxEvents
  BY TypeIs
<1>2. CASE log' = [log EXCEPT ![r] = @ \cup {line}] /\ UNCHANGED events
  BY <1>1, <1>2 DEF Lines
<1>3. CASE Happens /\ log' = [log EXCEPT ![r] = @ \cup {"unwritten"}]
  BY <1>1, <1>3, EventsType DEF Lines
<1> QED
  BY <1>2, <1>3 DEF Appends

\* The others' lines are as they were.
LEMMA AppendsSets ==
  ASSUME log \in [Requesters -> SUBSET Lines], NEW r \in Requesters, NEW line, Appends(r, line)
  PROVE  /\ \E l \in {line, "unwritten"} : log'[r] = log[r] \cup {l}
         /\ \A q \in Requesters \ {r} : log'[q] = log[q]
BY DEF Appends

\* approve returns with one of the answers.
LEMMA ReturnType ==
  ASSUME app \in [Requesters -> Approvers], lock \in Requesters \cup {None},
         NEW r \in Requesters, NEW result \in Answers, Return(r, result)
  PROVE  app' \in [Requesters -> Approvers] /\ lock' \in Requesters \cup {None}
<1>1. app' = [app EXCEPT ![r].pc = "record", ![r].result = result]
  BY DEF Return, AfterApprove
<1>2. app' \in [Requesters -> Approvers]
  BY <1>1 DEF Approvers
<1>3. lock' \in Requesters \cup {None}
  BY DEF Return
<1> QED
  BY <1>2, <1>3

\* An approver that ends is done or dead.
LEMMA ExitsType ==
  ASSUME app \in [Requesters -> Approvers],
         NEW r \in Requesters, NEW pc \in {"done", "dead"}, Exits(r, pc)
  PROVE  app' \in [Requesters -> Approvers]
<1>1. app' = [app EXCEPT ![r] = [app[r] EXCEPT !.pc = pc, !.missing = {},
                                               !.shown = {}, !.picked = 0]]
  BY DEF Exits
<1>2. [app[r] EXCEPT !.pc = pc, !.missing = {}, !.shown = {}, !.picked = 0] \in Approvers
  BY DEF Approvers
<1> QED
  BY <1>1, <1>2

\* One that is killed leaves the lock free or to its holder.
LEMMA DiesType ==
  ASSUME app \in [Requesters -> Approvers], lock \in Requesters \cup {None},
         NEW r \in Requesters, Dies(r)
  PROVE  app' \in [Requesters -> Approvers] /\ lock' \in Requesters \cup {None}
<1>1. app' \in [Requesters -> Approvers]
  BY ExitsType DEF Dies
<1>2. lock' \in Requesters \cup {None}
  BY DEF Dies
<1> QED
  BY <1>1, <1>2

\* A requester is through once it has an answer.
LEMMA AnsweredType ==
  ASSUME req \in [Requesters -> Requests],
         NEW r \in Requesters, NEW answer \in Answers, Answered(r, answer)
  PROVE  req' \in [Requesters -> Requests]
BY DEF Answered, Requests

\* What a request asks for is recorded as its names and its duration.
LEMMA AskedType ==
  ASSUME req \in [Requesters -> Requests], NEW r \in Requesters, NEW want \in Wants[r]
  PROVE  /\ Asked(r, want) \in Requests
         /\ MissingNow(want) \in SUBSET Names
<1>1. req[r] \in Requests
  OBVIOUS
<1>2. /\ want.names \in SUBSET Names /\ want.ttl \in Nat /\ want.extend \in BOOLEAN
  BY WantType
<1>3. Asked(r, want) \in Requests
  BY <1>1, <1>2 DEF Asked, Requests
<1>4. MissingNow(want) \in SUBSET Names
  BY <1>2 DEF MissingNow, Ungranted
<1> QED
  BY <1>3, <1>4

\* A requester's step sets its record, and may log, or kill its approver.
LEMMA RequesterType ==
  ASSUME TypeOK, NEW r \in Requesters, Requester(r)
  PROVE  /\ req' \in [Requesters -> Requests] /\ app' \in [Requesters -> Approvers]
         /\ lock' \in Requesters \cup {None} /\ log' \in [Requesters -> SUBSET Lines]
         /\ events' \in 0..MaxEvents
         /\ UNCHANGED <<clock, grant>>
<1>t. /\ clock \in Nat /\ grant \in [Names -> Grants]
      /\ req \in [Requesters -> Requests] /\ app \in [Requesters -> Approvers]
      /\ lock \in Requesters \cup {None} /\ log \in [Requesters -> SUBSET Lines]
  BY Typed
<1>e. events \in 0..MaxEvents
  BY TypeIs
<1>a. {"ok", "no_grant", "request_timeout", "denied", "error"} \subseteq Answers
  BY DEF Answers
<1>1. CASE Hear(r)
  <2>1. Answered(r, app[r].result) /\ UNCHANGED <<clock, grant, app, lock, log, events>>
    BY <1>1 DEF Hear
  <2>2. app[r].result \in Answers
    BY <1>t DEF Approvers
  <2> QED
    BY <2>1, <2>2, <1>t, <1>e, AnsweredType
<1>2. CASE HearNothing(r)
  <2>1. /\ Answered(r, "request_timeout") \/ Answered(r, "no_grant")
        /\ UNCHANGED <<clock, grant, app, lock>>
    BY <1>2 DEF HearNothing
  <2>2. req' \in [Requesters -> Requests]
    BY <2>1, <1>t, <1>a, AnsweredType
  <2>3. UNCHANGED <<log, events>> \/ Appends(r, "no_grant")
    BY <1>2 DEF HearNothing
  <2>4. log' \in [Requesters -> SUBSET Lines] /\ events' \in 0..MaxEvents
    BY <2>3, <1>t, <1>e, <1>a, AppendsType
  <2> QED
    BY <2>1, <2>2, <2>4, <1>t
<1>3. CASE GiveUp(r)
  <2>1. Answered(r, "request_timeout") /\ UNCHANGED <<clock, grant, log, events>>
    BY <1>3 DEF GiveUp
  <2>2. req' \in [Requesters -> Requests]
    BY <2>1, <1>t, <1>a, AnsweredType
  <2>3. UNCHANGED <<app, lock>> \/ Dies(r)
    BY <1>3 DEF GiveUp
  <2>4. app' \in [Requesters -> Approvers] /\ lock' \in Requesters \cup {None}
    BY <2>3, <1>t, DiesType
  <2> QED
    BY <2>1, <2>2, <2>4, <1>t, <1>e
<1> QED
  BY <1>1, <1>2, <1>3 DEF Requester

\* An approver's step may grant, take or free the lock, and log.
LEMMA ApproverType ==
  ASSUME TypeOK, NEW r \in Requesters, Approver(r)
  PROVE  /\ grant' \in [Names -> Grants] /\ req' = req /\ app' \in [Requesters -> Approvers]
         /\ lock' \in Requesters \cup {None} /\ log' \in [Requesters -> SUBSET Lines]
         /\ events' \in 0..MaxEvents /\ clock' = clock
<1>t. /\ clock \in Nat /\ grant \in [Names -> Grants]
      /\ req \in [Requesters -> Requests] /\ app \in [Requesters -> Approvers]
      /\ lock \in Requesters \cup {None} /\ log \in [Requesters -> SUBSET Lines]
  BY Typed
<1>e. events \in 0..MaxEvents
  BY TypeIs
<1>a. {"ok", "no_grant", "request_timeout", "denied", "error"} \subseteq Answers
  BY DEF Answers
<1>1. CASE Start(r)
  <2>1. UNCHANGED <<clock, grant, req, lock, log, events>>
    BY <1>1 DEF Start
  <2>2. CASE app' = [app EXCEPT ![r].pc = "print", ![r].result = "error"]
    <3>1. app' \in [Requesters -> Approvers]
      <4>1. app[r] \in Approvers
        BY <1>t
      <4>2. [app[r] EXCEPT !.pc = "print", !.result = "error"] \in Approvers
        BY <4>1, <1>a DEF Approvers
      <4>3. app' = [app EXCEPT ![r] = [app[r] EXCEPT !.pc = "print", !.result = "error"]]
        BY <2>2
      <4> QED
        BY <4>2, <4>3, <1>t
    <3> QED
      BY <2>1, <3>1, <1>t, <1>e
  <2>3. CASE app' = [app EXCEPT ![r].pc = "queue"]
    <3>1. app' \in [Requesters -> Approvers]
      BY <2>3, <1>t DEF Approvers
    <3> QED
      BY <2>1, <3>1, <1>t, <1>e
  <2> QED
    BY <1>1, <2>2, <2>3 DEF Start
<1>2. CASE TakeLock(r)
  <2>1. /\ app' = [app EXCEPT ![r].pc = "resolve"] /\ lock' = r
        /\ UNCHANGED <<clock, grant, req, log, events>>
    BY <1>2 DEF TakeLock
  <2>2. app' \in [Requesters -> Approvers]
    BY <2>1, <1>t DEF Approvers
  <2> QED
    BY <2>1, <2>2, <1>t, <1>e
<1>3. CASE LockTimesOut(r)
  <2>1. Return(r, "request_timeout") /\ UNCHANGED <<clock, grant, req, log, events>>
    BY <1>3 DEF LockTimesOut
  <2> QED
    BY <2>1, <1>t, <1>e, <1>a, ReturnType
<1>4. CASE GrantedMeanwhile(r)
  <2>1. Return(r, "ok") /\ UNCHANGED <<clock, grant, req, log, events>>
    BY <1>4 DEF GrantedMeanwhile
  <2> QED
    BY <2>1, <1>t, <1>e, <1>a, ReturnType
<1>5. CASE Resolve(r)
  <2>1. /\ app' = [app EXCEPT ![r].pc = "open", ![r].shown = StillMissing(r)]
        /\ UNCHANGED <<clock, grant, req, lock, log, events>>
    BY <1>5 DEF Resolve
  <2>2. StillMissing(r) \in SUBSET Names
    BY <1>t DEF StillMissing, Ungranted, Approvers
  <2>3. app' \in [Requesters -> Approvers]
    <3>1. app[r] \in Approvers
      BY <1>t
    <3>2. [app[r] EXCEPT !.pc = "open", !.shown = StillMissing(r)] \in Approvers
      BY <3>1, <2>2 DEF Approvers
    <3>3. app' = [app EXCEPT ![r] = [app[r] EXCEPT !.pc = "open", !.shown = StillMissing(r)]]
      BY <2>1
    <3> QED
      BY <3>2, <3>3, <1>t
  <2> QED
    BY <2>1, <2>3, <1>t, <1>e
<1>6. CASE Open(r)
  <2>1. app' = [app EXCEPT ![r].pc = "window"] /\ UNCHANGED <<clock, grant, req, lock, log, events>>
    BY <1>6 DEF Open
  <2>2. app' \in [Requesters -> Approvers]
    BY <2>1, <1>t DEF Approvers
  <2> QED
    BY <2>1, <2>2, <1>t, <1>e
<1>7. CASE WindowTimesOut(r)
  <2>1. Return(r, "request_timeout") /\ UNCHANGED <<clock, grant, req, log, events>>
    BY <1>7 DEF WindowTimesOut
  <2> QED
    BY <2>1, <1>t, <1>e, <1>a, ReturnType
<1>8. CASE GrantNext(r)
  <2>1. PICK n \in ToGrant(r) :
          /\ grant' = [grant EXCEPT ![n] = [ends |-> clock + app[r].picked, by |-> r]]
          /\ app' = [app EXCEPT ![r].given = @ \cup {n}]
    BY <1>8 DEF GrantNext
  <2>2. n \in Names
    BY <1>t DEF ToGrant, Approvers
  <2>3. clock + app[r].picked \in Nat
    BY <1>t DEF Approvers
  <2>4. grant' \in [Names -> Grants]
    BY <2>1, <2>3, <1>t DEF Grants
  <2>5. app' \in [Requesters -> Approvers]
    <3>1. app[r] \in Approvers
      BY <1>t
    <3>2. [app[r] EXCEPT !.given = app[r].given \cup {n}] \in Approvers
      BY <3>1, <2>2 DEF Approvers
    <3>3. app' = [app EXCEPT ![r] = [app[r] EXCEPT !.given = app[r].given \cup {n}]]
      BY <2>1
    <3> QED
      BY <3>2, <3>3, <1>t
  <2>6. UNCHANGED <<clock, req, lock, log, events>>
    BY <1>8 DEF GrantNext
  <2> QED
    BY <2>4, <2>5, <2>6, <1>t, <1>e
<1>9. CASE Granted(r)
  <2>1. Return(r, "ok") /\ UNCHANGED <<clock, grant, req, log, events>>
    BY <1>9 DEF Granted
  <2> QED
    BY <2>1, <1>t, <1>e, <1>a, ReturnType
<1>10. CASE Record(r)
  <2>1. /\ app' = [app EXCEPT ![r].pc = "print"] /\ Appends(r, app[r].result)
        /\ UNCHANGED <<clock, grant, req, lock>>
    BY <1>10 DEF Record
  <2>2. app[r].result \in Answers
    BY <1>t DEF Approvers
  <2>3. app' \in [Requesters -> Approvers]
    BY <2>1, <1>t DEF Approvers
  <2>4. log' \in [Requesters -> SUBSET Lines] /\ events' \in 0..MaxEvents
    BY <2>1, <2>2, AppendsType
  <2> QED
    BY <2>1, <2>3, <2>4, <1>t, <1>e
<1>11. CASE Tell(r)
  <2>1. Exits(r, "done") /\ UNCHANGED <<clock, grant, req, lock, log, events>>
    BY <1>11 DEF Tell
  <2>2. app' \in [Requesters -> Approvers]
    BY <2>1, <1>t, ExitsType
  <2> QED
    BY <2>1, <2>2, <1>t, <1>e
<1>12. CASE UnitExpires(r)
  <2>1. Dies(r) /\ UNCHANGED <<clock, grant, req, log, events>>
    BY <1>12 DEF UnitExpires
  <2> QED
    BY <2>1, <1>t, <1>e, DiesType
<1> QED
  BY <1>1, <1>2, <1>3, <1>4, <1>5, <1>6, <1>7, <1>8, <1>9, <1>10, <1>11, <1>12 DEF Approver

\* People make requests, and approve and deny them.
LEMMA PeopleType ==
  ASSUME TypeOK, NEW r \in Requesters, People(r)
  PROVE  /\ req' \in [Requesters -> Requests] /\ app' \in [Requesters -> Approvers]
         /\ lock' \in Requesters \cup {None} /\ log' \in [Requesters -> SUBSET Lines]
         /\ UNCHANGED <<clock, grant, events>>
<1>t. /\ clock \in Nat /\ grant \in [Names -> Grants]
      /\ req \in [Requesters -> Requests] /\ app \in [Requesters -> Approvers]
      /\ lock \in Requesters \cup {None} /\ log \in [Requesters -> SUBSET Lines]
  BY Typed
<1>a. {"ok", "no_grant", "request_timeout", "denied", "error"} \subseteq Answers
  BY DEF Answers
<1>1. CASE NothingMissing(r)
  <2>1. PICK want \in Wants[r] :
          req' = [req EXCEPT ![r] = [Asked(r, want) EXCEPT !.pc = "done", !.answer = "ok"]]
    BY <1>1 DEF NothingMissing
  <2>2. Asked(r, want) \in Requests
    BY <1>t, AskedType
  <2>3. [Asked(r, want) EXCEPT !.pc = "done", !.answer = "ok"] \in Requests
    BY <2>2, <1>a DEF Requests
  <2>4. req' \in [Requesters -> Requests]
    BY <2>1, <2>3, <1>t
  <2>5. UNCHANGED <<clock, grant, app, lock, log, events>>
    BY <1>1 DEF NothingMissing
  <2> QED
    BY <2>4, <2>5, <1>t
<1>2. CASE Launch(r)
  <2>1. PICK want \in Wants[r] :
          /\ req' = [req EXCEPT ![r] = [Asked(r, want) EXCEPT
                                          !.pc = "wait", !.deadline = clock + Timeout]]
          /\ app' = [app EXCEPT ![r] = [@ EXCEPT !.pc = "start", !.missing = MissingNow(want)]]
    BY <1>2 DEF Launch
  <2>2. clock + Timeout \in Nat
    BY QueueAssumption, <1>t DEF QueueAssumption
  <2>3. Asked(r, want) \in Requests /\ MissingNow(want) \in SUBSET Names
    BY <1>t, AskedType
  <2>4. [Asked(r, want) EXCEPT !.pc = "wait", !.deadline = clock + Timeout] \in Requests
    BY <2>2, <2>3 DEF Requests
  <2>5. req' \in [Requesters -> Requests]
    BY <2>1, <2>4, <1>t
  <2>6. app' \in [Requesters -> Approvers]
    <3>1. app[r] \in Approvers
      BY <1>t
    <3>2. [app[r] EXCEPT !.pc = "start", !.missing = MissingNow(want)] \in Approvers
      BY <3>1, <2>3 DEF Approvers
    <3>3. app' = [app EXCEPT ![r] = [app[r] EXCEPT !.pc = "start", !.missing = MissingNow(want)]]
      BY <2>1
    <3> QED
      BY <3>2, <3>3, <1>t
  <2>7. UNCHANGED <<clock, grant, lock, log, events>>
    BY <1>2 DEF Launch
  <2> QED
    BY <2>5, <2>6, <2>7, <1>t
<1>3. CASE Approved(r)
  <2>1. PICK picked \in TTLs :
          app' = [app EXCEPT ![r].pc = "grant", ![r].picked = picked]
    BY <1>3 DEF Approved
  <2>2. picked \in Nat
    BY QueueAssumption DEF QueueAssumption
  <2>3. app' \in [Requesters -> Approvers]
    <3>1. app[r] \in Approvers
      BY <1>t
    <3>2. [app[r] EXCEPT !.pc = "grant", !.picked = picked] \in Approvers
      BY <3>1, <2>2 DEF Approvers
    <3>3. app' = [app EXCEPT ![r] = [app[r] EXCEPT !.pc = "grant", !.picked = picked]]
      BY <2>1
    <3> QED
      BY <3>2, <3>3, <1>t
  <2>4. UNCHANGED <<clock, grant, req, lock, log, events>>
    BY <1>3 DEF Approved
  <2> QED
    BY <2>3, <2>4, <1>t
<1>4. CASE Denied(r)
  <2>1. Return(r, "denied") /\ UNCHANGED <<clock, grant, req, log, events>>
    BY <1>4 DEF Denied
  <2> QED
    BY <2>1, <1>t, <1>a, ReturnType
<1> QED
  BY <1>1, <1>2, <1>3, <1>4 DEF People

\* What fails ends a request or an approver.
LEMMA FaultType ==
  ASSUME TypeOK, NEW r \in Requesters, Fault(r)
  PROVE  /\ req' \in [Requesters -> Requests] /\ app' \in [Requesters -> Approvers]
         /\ lock' \in Requesters \cup {None} /\ log' \in [Requesters -> SUBSET Lines]
         /\ events' \in 0..MaxEvents
         /\ UNCHANGED <<clock, grant>>
<1>t. /\ clock \in Nat /\ grant \in [Names -> Grants]
      /\ req \in [Requesters -> Requests] /\ app \in [Requesters -> Approvers]
      /\ lock \in Requesters \cup {None} /\ log \in [Requesters -> SUBSET Lines]
  BY Typed
<1>a. {"ok", "no_grant", "request_timeout", "denied", "error"} \subseteq Answers
  BY DEF Answers
<1>1. CASE NoScreen(r)
  <2>1. PICK want \in Wants[r] :
          req' = [req EXCEPT ![r] = [Asked(r, want) EXCEPT !.pc = "done", !.answer = "no_grant"]]
    BY <1>1 DEF NoScreen
  <2>2. Asked(r, want) \in Requests
    BY <1>t, AskedType
  <2>3. [Asked(r, want) EXCEPT !.pc = "done", !.answer = "no_grant"] \in Requests
    BY <2>2, <1>a DEF Requests
  <2>4. req' \in [Requesters -> Requests]
    BY <2>1, <2>3, <1>t
  <2>5. /\ \E line \in {"no_grant", "unwritten"} : log' = [log EXCEPT ![r] = @ \cup {line}]
        /\ UNCHANGED <<clock, grant, app, lock>>
    BY <1>1 DEF NoScreen
  <2>7. log' \in [Requesters -> SUBSET Lines]
    BY <2>5, <1>t, <1>a DEF Lines
  <2>6. events' \in 0..MaxEvents
    BY <1>1, EventsType DEF NoScreen
  <2> QED
    BY <2>4, <2>5, <2>6, <2>7, <1>t
<1>2. CASE OpenFails(r)
  <2>1. Return(r, "error") /\ UNCHANGED <<clock, grant, req, log>>
    BY <1>2 DEF OpenFails
  <2>2. events' \in 0..MaxEvents
    BY <1>2, EventsType DEF OpenFails
  <2> QED
    BY <2>1, <2>2, <1>t, <1>a, ReturnType
<1>3. CASE UnlockFails(r)
  <2>1. Return(r, "error") /\ UNCHANGED <<clock, grant, req, log, events>>
    BY <1>3 DEF UnlockFails
  <2>2. events' \in 0..MaxEvents
    BY <2>1 DEF TypeOK
  <2> QED
    BY <2>1, <2>2, <1>t, <1>a, ReturnType
<1>4. CASE GrantFails(r)
  <2>1. Return(r, "error") /\ UNCHANGED <<clock, grant, req, log>>
    BY <1>4 DEF GrantFails
  <2>2. events' \in 0..MaxEvents
    BY <1>4, EventsType DEF GrantFails
  <2> QED
    BY <2>1, <2>2, <1>t, <1>a, ReturnType
<1>5. CASE KillRequester(r)
  <2>1. req' = [req EXCEPT ![r].pc = "killed"] /\ UNCHANGED <<clock, grant, app, lock, log>>
    BY <1>5 DEF KillRequester
  <2>2. req' \in [Requesters -> Requests]
    BY <2>1, <1>t DEF Requests
  <2>3. events' \in 0..MaxEvents
    BY <1>5, EventsType DEF KillRequester
  <2> QED
    BY <2>1, <2>2, <2>3, <1>t
<1>6. CASE CrashApprover(r)
  <2>1. Dies(r) /\ UNCHANGED <<clock, grant, req, log>>
    BY <1>6 DEF CrashApprover
  <2>2. events' \in 0..MaxEvents
    BY <1>6, EventsType DEF CrashApprover
  <2> QED
    BY <2>1, <2>2, <1>t, DiesType
<1> QED
  BY <1>1, <1>2, <1>3, <1>4, <1>5, <1>6 DEF Fault

\* People outside the queue change one grant.
LEMMA OutsideType ==
  ASSUME TypeOK, NEW n \in Names, TerminalGrants(n) \/ Ungrant(n)
  PROVE  /\ grant' \in [Names -> Grants] /\ events' \in 0..MaxEvents
         /\ UNCHANGED <<clock, req, app, lock, log>>
<1>t. clock \in Nat /\ grant \in [Names -> Grants]
  BY Typed
<1>1. events' \in 0..MaxEvents
  BY EventsType DEF TerminalGrants, Ungrant
<1>2. UNCHANGED <<clock, req, app, lock, log>>
  BY DEF TerminalGrants, Ungrant
<1>3. CASE TerminalGrants(n)
  <2>1. PICK t \in TTLs : grant' = [grant EXCEPT ![n] = [ends |-> clock + t, by |-> "terminal"]]
    BY <1>3 DEF TerminalGrants
  <2>2. clock + t \in Nat
    BY QueueAssumption, <1>t DEF QueueAssumption
  <2> QED
    BY <2>1, <2>2, <1>t, <1>1, <1>2 DEF Grants
<1>4. CASE Ungrant(n)
  <2>1. grant' = [grant EXCEPT ![n] = [ends |-> 0, by |-> None]]
    BY <1>4 DEF Ungrant
  <2> QED
    BY <2>1, <1>t, <1>1, <1>2 DEF Grants
<1> QED
  BY <1>3, <1>4

LEMMA MeetsType ==
  ASSUME NEW r \in Requesters, req' \in [Requesters -> Requests]
  PROVE  Meets(r)' \in SUBSET Names
BY DEF Meets, Requests

LEMMA StepType == TypeOK /\ [Next]_vars => TypeOK'
<1> SUFFICES ASSUME TypeOK, [Next]_vars PROVE TypeOK'
  OBVIOUS
<1>1. CASE Next
  <2>1. Step /\ Noted
    BY <1>1 DEF Next
  <2>2. /\ clock' \in 0..MaxClock /\ events' \in 0..MaxEvents
        /\ grant' \in [Names -> Grants] /\ req' \in [Requesters -> Requests]
        /\ app' \in [Requesters -> Approvers] /\ lock' \in Requesters \cup {None}
        /\ log' \in [Requesters -> SUBSET Lines]
    <3>1. CASE \E r \in Requesters : Requester(r) \/ Approver(r) \/ People(r) \/ Fault(r)
      BY <3>1, RequesterType, ApproverType, PeopleType, FaultType, TypeIs
    <3>2. CASE \E n \in Names : TerminalGrants(n) \/ Ungrant(n)
      BY <3>2, OutsideType, TypeIs
    <3>3. CASE Tick
      BY <3>3, TypeIs, QueueAssumption DEF Tick, QueueAssumption
    <3> QED
      BY <2>1, <3>1, <3>2, <3>3 DEF Step
  <2>3. met' \in [Requesters -> SUBSET Names]
    BY <2>1, <2>2, MeetsType, TypeIs DEF Noted
  <2>4. /\ clock' \in 0..MaxClock /\ events' \in 0..MaxEvents
        /\ grant' \in [Names -> Grants] /\ req' \in [Requesters -> Requests]
        /\ app' \in [Requesters -> Approvers] /\ lock' \in Requesters \cup {None}
        /\ log' \in [Requesters -> SUBSET Lines] /\ met' \in [Requesters -> SUBSET Names]
    BY <2>2, <2>3
  <2> QED
    BY <2>4 DEF TypeOK, Grants, Requests, Approvers
<1>2. CASE UNCHANGED vars
  BY <1>2 DEF vars, state, TypeOK
<1> QED
  BY <1>1, <1>2

\* Every variable has its type, in every behaviour.
THEOREM TypeCorrect == Spec => []TypeOK
<1>1. Init => TypeOK
  BY InitType
<1>2. TypeOK /\ [Next]_vars => TypeOK'
  BY StepType
<1> QED
  BY <1>1, <1>2, PTL DEF Spec

-----------------------------------------------------------------------------
(* What the parts of a step do to the records.                             *)

InWindow == {"resolve", "open", "window", "grant"}

\* approve's return touches two fields of its approver.
LEMMA ReturnSets ==
  ASSUME app \in [Requesters -> Approvers], NEW r \in Requesters, NEW result, Return(r, result)
  PROVE  /\ app'[r].pc = "record" /\ app'[r].result = result
         /\ app'[r].given = app[r].given
         /\ \A q \in Requesters \ {r} : app'[q] = app[q]
         /\ lock' = IF lock = r THEN None ELSE lock
<1>1. app' = [app EXCEPT ![r].pc = "record", ![r].result = result]
  BY DEF Return, AfterApprove
<1>2. lock' = IF lock = r THEN None ELSE lock
  BY DEF Return
<1>3. app[r] \in Approvers
  OBVIOUS
<1> QED
  BY <1>1, <1>2, <1>3 DEF Approvers

\* What an approver granted and printed stays when it ends.
LEMMA ExitsSets ==
  ASSUME app \in [Requesters -> Approvers], NEW r \in Requesters, NEW pc, Exits(r, pc)
  PROVE  /\ app'[r].pc = pc /\ app'[r].result = app[r].result
         /\ app'[r].given = app[r].given
         /\ \A q \in Requesters \ {r} : app'[q] = app[q]
<1>1. app' = [app EXCEPT ![r] = [app[r] EXCEPT !.pc = pc, !.missing = {},
                                               !.shown = {}, !.picked = 0]]
  BY DEF Exits
<1>2. app[r] \in Approvers
  OBVIOUS
<1> QED
  BY <1>1, <1>2 DEF Approvers

LEMMA DiesSets ==
  ASSUME app \in [Requesters -> Approvers], NEW r \in Requesters, Dies(r)
  PROVE  /\ app'[r].pc = "dead" /\ app'[r].result = app[r].result
         /\ app'[r].given = app[r].given
         /\ \A q \in Requesters \ {r} : app'[q] = app[q]
         /\ lock' = IF lock = r THEN None ELSE lock
<1>1. Exits(r, "dead") /\ lock' = IF lock = r THEN None ELSE lock
  BY DEF Dies
<1> QED
  BY <1>1, ExitsSets

\* An answer leaves what was asked for.
LEMMA AnsweredSets ==
  ASSUME req \in [Requesters -> Requests], NEW r \in Requesters, NEW answer,
         Answered(r, answer)
  PROVE  /\ req'[r].pc = "done" /\ req'[r].answer = answer
         /\ req'[r].names = req[r].names /\ req'[r].deadline = req[r].deadline
         /\ req'[r].ttl = req[r].ttl /\ req'[r].extend = req[r].extend
         /\ \A q \in Requesters \ {r} : req'[q] = req[q]
<1>1. req' = [req EXCEPT ![r].pc = "done", ![r].answer = answer]
  BY DEF Answered
<1>2. req[r] \in Requests
  OBVIOUS
<1> QED
  BY <1>1, <1>2 DEF Requests

\* What a step of r leaves of the others.
OthersAlone(r) ==
  \A q \in Requesters \ {r} :
    /\ req'[q] = req[q] /\ app'[q] = app[q] /\ log'[q] = log[q]
    /\ lock' = q <=> lock = q

\* One request's step keeps OneWindow when it does so for its own approver.
LEMMA OneWindowKept ==
  ASSUME OneWindow, NEW r \in Requesters, OthersAlone(r),
         app'[r].pc \in InWindow <=> lock' = r
  PROVE  OneWindow'
BY DEF OneWindow, OthersAlone, InWindow

-----------------------------------------------------------------------------
(* Steps that keep what is said of one request.                             *)

\* What is noted is never forgotten, and what is met while the request is
\* under way is noted.
LEMMA NotedSets ==
  ASSUME TypeOK, Noted, NEW r \in Requesters
  PROVE  /\ met[r] \subseteq met'[r]
         /\ UnderWay(r) => Meets(r)' \subseteq met'[r]
BY DEF Noted

\* A live grant that lasts long enough is good for the request.
LEMMA EnoughMeets ==
  ASSUME NEW r \in Requesters, NEW n \in req'[r].names, clock' = clock, grant' = grant,
         Enough(n, clock, req'[r].ttl, req'[r].extend)
  PROVE  n \in Meets(r)'
<1>1. LiveAt(n, clock)
  BY DEF Enough
<1>2. LiveAt(n, clock)'
  BY <1>1, Zenon DEF LiveAt
<1>3. Enough(n, clock, req[r].ttl, req[r].extend)'
  BY Zenon DEF Enough, LiveAt
<1> QED
  BY <1>2, <1>3 DEF Meets

\* Nor is it when nothing it is about has changed.
LEMMA UnaskedSame ==
  ASSUME NEW r \in Requesters, UnaskedFor(r), clock' = clock, grant' = grant,
         app'[r].pc = app[r].pc, app'[r].shown = app[r].shown,
         req'[r].ttl = req[r].ttl, req'[r].extend = req[r].extend
  PROVE  UnaskedFor(r)'
<1>1. \A n : Enough(n, clock, req[r].ttl, req[r].extend)' <=> Enough(n, clock, req[r].ttl, req[r].extend)
  BY Zenon DEF Enough, LiveAt
<1> QED
  BY <1>1 DEF UnaskedFor

\* A requester that hears, or gives up, has something true to say.
LEMMA RequesterKeeps ==
  ASSUME TypeOK, OneWindow, NEW r \in Requesters, Local(r), UnaskedFor(r), Noted, Requester(r)
  PROVE  OthersAlone(r) /\ (app'[r].pc \in InWindow <=> lock' = r)
         /\ Local(r)' /\ UnaskedFor(r)'
<1>t. /\ clock \in Nat /\ grant \in [Names -> Grants]
      /\ req \in [Requesters -> Requests] /\ app \in [Requesters -> Approvers]
      /\ lock \in Requesters \cup {None} /\ log \in [Requesters -> SUBSET Lines]
  BY Typed
<1>l. /\ IdleOK(r) /\ LoggedOK(r) /\ HeardOK(r) /\ LinesOK(r)
      /\ GivenOK(r) /\ PickedOK(r)
      /\ LateOK(r) /\ MetOK(r) /\ UnaskedFor(r)
  BY DEF Local
<1>w. /\ app[r].pc \in InWindow <=> lock = r
      /\ r # None
  BY QueueAssumption DEF OneWindow, InWindow, QueueAssumption
<1>n. /\ \A q \in Requesters : q # None
      /\ None \notin {"ok", "no_grant", "request_timeout", "denied", "error"}
  BY QueueAssumption DEF QueueAssumption
<1>m. /\ met[r] \subseteq met'[r]
      /\ UnderWay(r) => Meets(r)' \subseteq met'[r]
  BY NotedSets
<1>1. CASE Hear(r)
  <2>1. /\ req[r].pc = "wait" /\ app[r].pc = "done"
        /\ Answered(r, app[r].result)
        /\ UNCHANGED <<clock, grant, app, lock, log, events>>
    BY <1>1 DEF Hear
  <2>2. /\ req'[r].pc = "done" /\ req'[r].answer = app[r].result
        /\ req'[r].names = req[r].names /\ req'[r].deadline = req[r].deadline
        /\ \A q \in Requesters \ {r} : req'[q] = req[q]
    BY <2>1, <1>t, AnsweredSets
  <2>3. OthersAlone(r)
    BY <2>1, <2>2, <1>n DEF OthersAlone
  <2>4. app'[r].pc \in InWindow <=> lock' = r
    BY <2>1, <2>2, <1>w DEF InWindow
  <2>5. IdleOK(r)'
    BY <2>1, <2>2, <1>l DEF IdleOK
  <2>6. LoggedOK(r)'
    BY <2>1, <2>2, <1>l DEF LoggedOK, Said
  <2>7. HeardOK(r)'
    BY <2>1, <2>2, <1>l DEF HeardOK, LoggedOK, Said
  <2>8. GivenOK(r)'
    BY <2>1, <2>2, <1>l DEF GivenOK
  <2>9. PickedOK(r)'
    BY <2>1, <2>2, <1>l DEF PickedOK
  <2>10. LateOK(r)'
    BY <2>1, <2>2, <1>l DEF LateOK, GivenOK, Unanswered, OutOfTime
  <2>11. MetOK(r)'
    BY <2>1, <2>2, <1>l, <1>m DEF MetOK
  <2>12. UnaskedFor(r)'
    BY <2>1, <2>2, <1>l DEF UnaskedFor
  <2>13. LinesOK(r)'
    BY <2>1, <2>2, <1>l, <1>m DEF LinesOK, IdleOK
  <2> QED
    BY <2>3, <2>4, <2>5, <2>6, <2>7, <2>8, <2>9, <2>10, <2>11, <2>12, <2>13 DEF Local
<1>2. CASE HearNothing(r)
  <2>1. /\ req[r].pc = "wait" /\ app[r].pc = "dead"
        /\ \/ OutOfTime(r) /\ Answered(r, "request_timeout") /\ UNCHANGED log
           \/ Answered(r, "no_grant") /\ Appends(r, "no_grant")
        /\ UNCHANGED <<clock, grant, app, lock>>
    BY <1>2 DEF HearNothing
  <2>2. /\ req'[r].pc = "done"
        /\ \/ req'[r].answer = "request_timeout" /\ log' = log
           \/ /\ req'[r].answer = "no_grant"
              /\ \E line \in {"no_grant", "unwritten"} : log'[r] = log[r] \cup {line}
        /\ req'[r].names = req[r].names /\ req'[r].deadline = req[r].deadline
        /\ \A q \in Requesters \ {r} : req'[q] = req[q] /\ log'[q] = log[q]
    BY <2>1, <1>t, AnsweredSets, AppendsSets
  <2>3. OthersAlone(r)
    BY <2>1, <2>2, <1>n DEF OthersAlone
  <2>4. app'[r].pc \in InWindow <=> lock' = r
    BY <2>1, <2>2, <1>w DEF InWindow
  <2>5. IdleOK(r)'
    BY <2>1, <2>2, <1>l DEF IdleOK
  <2>6. LoggedOK(r)'
    BY <2>1, <2>2, <1>l DEF LoggedOK, Said
  <2>7. HeardOK(r)'
    BY <2>1, <2>2, <1>l DEF HeardOK
  <2>8. GivenOK(r)'
    BY <2>1, <2>2, <1>l DEF GivenOK
  <2>9. PickedOK(r)'
    BY <2>1, <2>2, <1>l DEF PickedOK
  <2>10. LateOK(r)'
    BY <2>1, <2>2, <1>l DEF LateOK, Unanswered, OutOfTime
  <2>11. MetOK(r)'
    BY <2>1, <2>2, <1>l, <1>m DEF MetOK
  <2>12. UnaskedFor(r)'
    BY <2>1, <2>2, <1>l DEF UnaskedFor
  <2>13. LinesOK(r)'
    BY <2>1, <2>2, <1>l, <1>m DEF LinesOK, IdleOK
  <2> QED
    BY <2>3, <2>4, <2>5, <2>6, <2>7, <2>8, <2>9, <2>10, <2>11, <2>12, <2>13 DEF Local
<1>3. CASE GiveUp(r)
  <2>1. /\ req[r].pc = "wait" /\ OutOfTime(r) /\ app[r].pc \notin {"done", "dead"}
        /\ Answered(r, "request_timeout")
        /\ UNCHANGED <<app, lock>> \/ Dies(r)
        /\ UNCHANGED <<clock, grant, log, events>>
    BY <1>3 DEF GiveUp
  <2>2. /\ req'[r].pc = "done" /\ req'[r].answer = "request_timeout"
        /\ req'[r].names = req[r].names /\ req'[r].deadline = req[r].deadline
        /\ req'[r].ttl = req[r].ttl /\ req'[r].extend = req[r].extend
        /\ \/ app'[r] = app[r] /\ lock' = lock
           \/ /\ app'[r].pc = "dead" /\ app'[r].given = app[r].given
              /\ app'[r].result = app[r].result
              /\ lock' = IF lock = r THEN None ELSE lock
        /\ \A q \in Requesters \ {r} : req'[q] = req[q] /\ app'[q] = app[q]
        /\ OutOfTime(r)'
    <3>1. /\ req'[r].pc = "done" /\ req'[r].answer = "request_timeout"
          /\ req'[r].names = req[r].names /\ req'[r].deadline = req[r].deadline
          /\ req'[r].ttl = req[r].ttl /\ req'[r].extend = req[r].extend
          /\ \A q \in Requesters \ {r} : req'[q] = req[q]
      BY <2>1, <1>t, AnsweredSets
    <3>2. CASE app' = app /\ lock' = lock
      BY <2>1, <3>1, <3>2 DEF OutOfTime
    <3>3. CASE Dies(r)
      <4>1. /\ app'[r].pc = "dead" /\ app'[r].result = app[r].result
            /\ app'[r].given = app[r].given
            /\ \A q \in Requesters \ {r} : app'[q] = app[q]
            /\ lock' = IF lock = r THEN None ELSE lock
        BY <3>3, <1>t, DiesSets
      <4>2. OutOfTime(r)'
        BY <2>1, <3>1 DEF OutOfTime
      <4> QED
        BY <3>1, <4>1, <4>2
    <3>4. (app' = app /\ lock' = lock) \/ Dies(r)
      BY <2>1
    <3> QED
      BY <3>2, <3>3, <3>4
  <2>3. OthersAlone(r)
    BY <2>1, <2>2, <1>n DEF OthersAlone
  <2>4. app'[r].pc \in InWindow <=> lock' = r
    BY <2>1, <2>2, <1>w DEF InWindow
  <2>5. IdleOK(r)'
    BY <2>1, <2>2, <1>l DEF IdleOK
  <2>6. LoggedOK(r)'
    BY <2>1, <2>2, <1>l DEF LoggedOK, Said
  <2>7. HeardOK(r)'
    BY <2>1, <2>2, <1>l DEF HeardOK
  <2>8. GivenOK(r)'
    BY <2>1, <2>2, <1>l DEF GivenOK
  <2>9. PickedOK(r)'
    BY <2>1, <2>2, <1>l DEF PickedOK
  <2>10. LateOK(r)'
    BY <2>2 DEF LateOK
  <2>11. MetOK(r)'
    BY <2>1, <2>2, <1>l, <1>m DEF MetOK
  <2>12. UnaskedFor(r)'
    <3>1. CASE app'[r] = app[r]
      BY <2>1, <2>2, <3>1, <1>l, UnaskedSame
    <3>2. CASE app'[r].pc = "dead"
      BY <3>2 DEF UnaskedFor
    <3> QED
      BY <2>2, <3>1, <3>2
  <2>13. LinesOK(r)'
    BY <2>1, <2>2, <1>l, <1>m DEF LinesOK, IdleOK
  <2> QED
    BY <2>3, <2>4, <2>5, <2>6, <2>7, <2>8, <2>9, <2>10, <2>11, <2>12, <2>13 DEF Local
<1> QED
  BY <1>1, <1>2, <1>3 DEF Requester

\* An approver's step, up to its end.
LEMMA ApproverKeeps ==
  ASSUME TypeOK, OneWindow, NEW r \in Requesters, Local(r), UnaskedFor(r), Noted, Approver(r)
  PROVE  OthersAlone(r) /\ (app'[r].pc \in InWindow <=> lock' = r)
         /\ Local(r)' /\ UnaskedFor(r)'
<1>t. /\ clock \in Nat /\ grant \in [Names -> Grants]
      /\ req \in [Requesters -> Requests] /\ app \in [Requesters -> Approvers]
      /\ lock \in Requesters \cup {None} /\ log \in [Requesters -> SUBSET Lines]
  BY Typed
<1>l. /\ IdleOK(r) /\ LoggedOK(r) /\ HeardOK(r) /\ LinesOK(r)
      /\ GivenOK(r) /\ PickedOK(r)
      /\ LateOK(r) /\ MetOK(r) /\ UnaskedFor(r)
  BY DEF Local
<1>w. /\ app[r].pc \in InWindow <=> lock = r
      /\ r # None
  BY QueueAssumption DEF OneWindow, InWindow, QueueAssumption
<1>n. /\ \A q \in Requesters : q # None
      /\ None \notin {"ok", "no_grant", "request_timeout", "denied", "error"}
  BY QueueAssumption DEF QueueAssumption
<1>m. /\ met[r] \subseteq met'[r]
      /\ UnderWay(r) => Meets(r)' \subseteq met'[r]
  BY NotedSets
<1>1. CASE Start(r)
  <2>1. /\ app[r].pc = "start"
        /\ \/ app' = [app EXCEPT ![r] = [app[r] EXCEPT !.pc = "print", !.result = "error"]]
           \/ app' = [app EXCEPT ![r] = [app[r] EXCEPT !.pc = "queue"]]
        /\ UNCHANGED <<clock, grant, req, lock, log, events>>
    BY <1>1 DEF Start
  <2>2. /\ req'[r] = req[r] /\ app'[r].given = app[r].given /\ app'[r].missing = app[r].missing
        /\ \/ app'[r].pc = "print" /\ app'[r].result = "error"
           \/ app'[r].pc = "queue" /\ app'[r].result = app[r].result
        /\ \A q \in Requesters \ {r} : app'[q] = app[q]
    BY <2>1, <1>t DEF Approvers
  <2>3. OthersAlone(r)
    BY <2>1, <2>2, <1>n DEF OthersAlone
  <2>4. app'[r].pc \in InWindow <=> lock' = r
    BY <2>1, <2>2, <1>w DEF InWindow
  <2>5. IdleOK(r)'
    BY <2>1, <2>2, <1>l DEF IdleOK
  <2>6. LoggedOK(r)'
    BY <2>1, <2>2, <1>l DEF LoggedOK, Said
  <2>7. HeardOK(r)'
    BY <2>1, <2>2, <1>l DEF HeardOK
  <2>8. GivenOK(r)'
    BY <2>1, <2>2, <1>l DEF GivenOK
  <2>9. PickedOK(r)'
    BY <2>1, <2>2, <1>l DEF PickedOK
  <2>10. LateOK(r)'
    BY <2>1, <2>2, <1>l DEF LateOK, Unanswered, OutOfTime
  <2>11. MetOK(r)'
    BY <2>1, <2>2, <1>l, <1>m DEF MetOK
  <2>12. UnaskedFor(r)'
    BY <2>1, <2>2, <1>l DEF UnaskedFor
  <2>13. LinesOK(r)'
    BY <2>1, <2>2, <1>l, <1>m DEF LinesOK, IdleOK
  <2> QED
    BY <2>3, <2>4, <2>5, <2>6, <2>7, <2>8, <2>9, <2>10, <2>11, <2>12, <2>13 DEF Local
<1>2. CASE TakeLock(r)
  <2>1. /\ app[r].pc = "queue" /\ lock = None /\ lock' = r
        /\ app' = [app EXCEPT ![r] = [app[r] EXCEPT !.pc = "resolve"]]
        /\ UNCHANGED <<clock, grant, req, log, events>>
    BY <1>2 DEF TakeLock, LockIsFree
  <2>2. /\ req'[r] = req[r]
        /\ app'[r].pc = "resolve" /\ app'[r].missing = app[r].missing
        /\ app'[r].given = app[r].given /\ app'[r].result = app[r].result
        /\ \A q \in Requesters \ {r} : app'[q] = app[q]
    <3>1. app[r] \in Approvers
      BY <1>t
    <3>2. app'[r] = [app[r] EXCEPT !.pc = "resolve"] /\ \A q \in Requesters \ {r} : app'[q] = app[q]
      BY <2>1, <1>t
    <3>3. /\ app'[r].pc = "resolve" /\ app'[r].missing = app[r].missing
          /\ app'[r].given = app[r].given /\ app'[r].result = app[r].result
      BY <3>1, <3>2 DEF Approvers
    <3>4. req'[r] = req[r]
      BY <2>1
    <3> QED
      BY <3>2, <3>3, <3>4
  <2>3. OthersAlone(r)
    BY <2>1, <2>2, <1>n DEF OthersAlone
  <2>4. app'[r].pc \in InWindow <=> lock' = r
    BY <2>1, <2>2, <1>w DEF InWindow
  <2>5. IdleOK(r)'
    BY <2>1, <2>2, <1>l DEF IdleOK
  <2>6. LoggedOK(r)'
    BY <2>1, <2>2, <1>l DEF LoggedOK, Said
  <2>7. HeardOK(r)'
    BY <2>1, <2>2, <1>l DEF HeardOK
  <2>8. GivenOK(r)'
    BY <2>1, <2>2, <1>l DEF GivenOK
  <2>9. PickedOK(r)'
    BY <2>1, <2>2, <1>l DEF PickedOK
  <2>10. LateOK(r)'
    BY <2>1, <2>2, <1>l DEF LateOK, Unanswered, OutOfTime
  <2>11. MetOK(r)'
    BY <2>1, <2>2, <1>l, <1>m DEF MetOK
  <2>12. UnaskedFor(r)'
    BY <2>1, <2>2, <1>l DEF UnaskedFor
  <2>13. LinesOK(r)'
    BY <2>1, <2>2, <1>l, <1>m DEF LinesOK, IdleOK
  <2> QED
    BY <2>3, <2>4, <2>5, <2>6, <2>7, <2>8, <2>9, <2>10, <2>11, <2>12, <2>13 DEF Local
<1>3. CASE LockTimesOut(r)
  <2>1. /\ app[r].pc = "queue" /\ clock >= req[r].deadline
        /\ Return(r, "request_timeout")
        /\ UNCHANGED <<clock, grant, req, log, events>>
    BY <1>3 DEF LockTimesOut
  <2>2. /\ req'[r] = req[r] /\ log'[r] = log[r]
        /\ app'[r].pc = "record" /\ app'[r].result = "request_timeout" /\ app'[r].given = app[r].given
        /\ \A q \in Requesters \ {r} : app'[q] = app[q]
        /\ lock' = IF lock = r THEN None ELSE lock
    <3>1. /\ app'[r].pc = "record" /\ app'[r].result = "request_timeout" /\ app'[r].given = app[r].given
          /\ \A q \in Requesters \ {r} : app'[q] = app[q]
          /\ lock' = IF lock = r THEN None ELSE lock
      BY <2>1, <1>t, ReturnSets
    <3>2. req'[r] = req[r] /\ log'[r] = log[r]
      BY <2>1
    <3> QED
      BY <3>1, <3>2
  <2>3. OthersAlone(r)
    BY <2>1, <2>2, <1>n DEF OthersAlone
  <2>4. app'[r].pc \in InWindow <=> lock' = r
    BY <2>1, <2>2, <1>w DEF InWindow
  <2>5. IdleOK(r)'
    BY <2>1, <2>2, <1>l DEF IdleOK
  <2>6. LoggedOK(r)'
    BY <2>1, <2>2, <1>l DEF LoggedOK, Said
  <2>7. HeardOK(r)'
    BY <2>1, <2>2, <1>l DEF HeardOK
  <2>8. GivenOK(r)'
    BY <2>1, <2>2, <1>l DEF GivenOK
  <2>9. PickedOK(r)'
    BY <2>1, <2>2, <1>l DEF PickedOK
  <2>10. LateOK(r)'
    BY <2>1, <2>2, <1>l DEF LateOK, Unanswered, OutOfTime
  <2>11. MetOK(r)'
    BY <2>1, <2>2, <1>l, <1>m DEF MetOK
  <2>12. UnaskedFor(r)'
    BY <2>1, <2>2, <1>l DEF UnaskedFor
  <2>13. LinesOK(r)'
    BY <2>1, <2>2, <1>l, <1>m DEF LinesOK, IdleOK
  <2> QED
    BY <2>3, <2>4, <2>5, <2>6, <2>7, <2>8, <2>9, <2>10, <2>11, <2>12, <2>13 DEF Local
<1>4. CASE GrantedMeanwhile(r)
  <2>1. /\ app[r].pc = "resolve" /\ StillMissing(r) = {}
        /\ Return(r, "ok")
        /\ UNCHANGED <<clock, grant, req, log, events>>
    BY <1>4 DEF GrantedMeanwhile
  <2>2. /\ req'[r] = req[r] /\ log'[r] = log[r]
        /\ app'[r].pc = "record" /\ app'[r].result = "ok" /\ app'[r].given = app[r].given
        /\ \A q \in Requesters \ {r} : app'[q] = app[q]
        /\ lock' = IF lock = r THEN None ELSE lock
    <3>1. /\ app'[r].pc = "record" /\ app'[r].result = "ok" /\ app'[r].given = app[r].given
          /\ \A q \in Requesters \ {r} : app'[q] = app[q]
          /\ lock' = IF lock = r THEN None ELSE lock
      BY <2>1, <1>t, ReturnSets
    <3>2. req'[r] = req[r] /\ log'[r] = log[r]
      BY <2>1
    <3> QED
      BY <3>1, <3>2
  <2>3. OthersAlone(r)
    BY <2>1, <2>2, <1>n DEF OthersAlone
  <2>4. app'[r].pc \in InWindow <=> lock' = r
    BY <2>1, <2>2, <1>w DEF InWindow
  <2>5. IdleOK(r)'
    BY <2>1, <2>2, <1>l DEF IdleOK
  <2>6. LoggedOK(r)'
    BY <2>1, <2>2, <1>l DEF LoggedOK, Said
  <2>7. HeardOK(r)'
    BY <2>1, <2>2, <1>l DEF HeardOK
  <2>8. GivenOK(r)'
    BY <2>1, <2>2, <1>l DEF GivenOK
  <2>9. PickedOK(r)'
    BY <2>1, <2>2, <1>l DEF PickedOK
  <2>10. LateOK(r)'
    BY <2>1, <2>2, <1>l DEF LateOK, Unanswered, OutOfTime
  <2>11. MetOK(r)'
    <3>1. req[r].names \ StillMissing(r) \subseteq met'[r]
      <4>1. SUFFICES ASSUME NEW n \in req[r].names, n \notin StillMissing(r), n \in app[r].missing
                     PROVE  n \in met'[r]
        BY <2>1, <1>l, <1>m DEF MetOK
      <4>2. Enough(n, clock, req[r].ttl, req[r].extend)
        BY <4>1 DEF StillMissing, Ungranted
      <4>3. n \in Meets(r)'
        BY <4>2, <2>1, <2>2, Zenon, EnoughMeets
      <4>4. UnderWay(r)
        BY <2>1 DEF UnderWay
      <4> QED
        BY <4>3, <4>4, <1>m
    <3> QED
      BY <2>1, <2>2, <3>1, <1>l, <1>m DEF MetOK
  <2>12. UnaskedFor(r)'
    BY <2>1, <2>2, <1>l DEF UnaskedFor
  <2>13. LinesOK(r)'
    BY <2>1, <2>2, <1>l, <1>m DEF LinesOK, IdleOK
  <2> QED
    BY <2>3, <2>4, <2>5, <2>6, <2>7, <2>8, <2>9, <2>10, <2>11, <2>12, <2>13 DEF Local
<1>5. CASE Resolve(r)
  <2>1. /\ app[r].pc = "resolve" /\ StillMissing(r) # {}
        /\ app' = [app EXCEPT ![r] = [app[r] EXCEPT !.pc = "open", !.shown = StillMissing(r)]]
        /\ UNCHANGED <<clock, grant, req, lock, log, events>>
    BY <1>5 DEF Resolve
  <2>2. /\ req'[r] = req[r]
        /\ app'[r].pc = "open" /\ app'[r].shown = StillMissing(r)
        /\ app'[r].given = app[r].given /\ app'[r].result = app[r].result
        /\ \A q \in Requesters \ {r} : app'[q] = app[q]
    BY <2>1, <1>t DEF Approvers
  <2>3. OthersAlone(r)
    BY <2>1, <2>2, <1>n DEF OthersAlone
  <2>4. app'[r].pc \in InWindow <=> lock' = r
    BY <2>1, <2>2, <1>w DEF InWindow
  <2>5. IdleOK(r)'
    BY <2>1, <2>2, <1>l DEF IdleOK
  <2>6. LoggedOK(r)'
    BY <2>1, <2>2, <1>l DEF LoggedOK, Said
  <2>7. HeardOK(r)'
    BY <2>1, <2>2, <1>l DEF HeardOK
  <2>8. GivenOK(r)'
    BY <2>1, <2>2, <1>l DEF GivenOK
  <2>9. PickedOK(r)'
    BY <2>1, <2>2, <1>l DEF PickedOK
  <2>10. LateOK(r)'
    BY <2>1, <2>2, <1>l DEF LateOK, Unanswered, OutOfTime
  <2>11. MetOK(r)'
    <3>1. req[r].names \ StillMissing(r) \subseteq met'[r]
      <4>1. SUFFICES ASSUME NEW n \in req[r].names, n \notin StillMissing(r), n \in app[r].missing
                     PROVE  n \in met'[r]
        BY <2>1, <1>l, <1>m DEF MetOK
      <4>2. Enough(n, clock, req[r].ttl, req[r].extend)
        BY <4>1 DEF StillMissing, Ungranted
      <4>3. n \in Meets(r)'
        BY <4>2, <2>1, <2>2, Zenon, EnoughMeets
      <4>4. UnderWay(r)
        BY <2>1 DEF UnderWay
      <4> QED
        BY <4>3, <4>4, <1>m
    <3> QED
      BY <2>1, <2>2, <3>1, <1>l, <1>m DEF MetOK
  <2>12. UnaskedFor(r)'
    <3>1. \A n \in app'[r].shown : ~Enough(n, clock, req[r].ttl, req[r].extend)
      BY <2>2 DEF StillMissing, Ungranted
    <3>2. clock' = clock /\ grant' = grant /\ req'[r] = req[r]
      BY <2>1, <2>2
    <3>3. \A n : Enough(n, clock, req[r].ttl, req[r].extend)' <=> Enough(n, clock, req[r].ttl, req[r].extend)
      BY <3>2, Zenon DEF Enough, LiveAt
    <3> QED
      BY <3>1, <3>3 DEF UnaskedFor
  <2>13. LinesOK(r)'
    BY <2>1, <2>2, <1>l, <1>m DEF LinesOK, IdleOK
  <2> QED
    BY <2>3, <2>4, <2>5, <2>6, <2>7, <2>8, <2>9, <2>10, <2>11, <2>12, <2>13 DEF Local
<1>6. CASE Open(r)
  <2>1. /\ app[r].pc = "open"
        /\ app' = [app EXCEPT ![r].pc = "window"]
        /\ UNCHANGED <<clock, grant, req, lock, log, events>>
    BY <1>6 DEF Open
  <2>2. /\ req'[r] = req[r]
        /\ app'[r].pc = "window" /\ app'[r].shown = app[r].shown
        /\ app'[r].given = app[r].given /\ app'[r].result = app[r].result
        /\ \A q \in Requesters \ {r} : app'[q] = app[q]
    BY <2>1, <1>t DEF Approvers
  <2>3. OthersAlone(r)
    BY <2>1, <2>2, <1>n DEF OthersAlone
  <2>4. app'[r].pc \in InWindow <=> lock' = r
    BY <2>1, <2>2, <1>w DEF InWindow
  <2>5. IdleOK(r)'
    BY <2>1, <2>2, <1>l DEF IdleOK
  <2>6. LoggedOK(r)'
    BY <2>1, <2>2, <1>l DEF LoggedOK, Said
  <2>7. HeardOK(r)'
    BY <2>1, <2>2, <1>l DEF HeardOK
  <2>8. GivenOK(r)'
    BY <2>1, <2>2, <1>l DEF GivenOK
  <2>9. PickedOK(r)'
    BY <2>1, <2>2, <1>l DEF PickedOK
  <2>10. LateOK(r)'
    BY <2>1, <2>2, <1>l DEF LateOK, Unanswered, OutOfTime
  <2>11. MetOK(r)'
    BY <2>1, <2>2, <1>l, <1>m DEF MetOK
  <2>12. UnaskedFor(r)'
    BY <2>1, <2>2, <1>l DEF UnaskedFor
  <2>13. LinesOK(r)'
    BY <2>1, <2>2, <1>l, <1>m DEF LinesOK, IdleOK
  <2> QED
    BY <2>3, <2>4, <2>5, <2>6, <2>7, <2>8, <2>9, <2>10, <2>11, <2>12, <2>13 DEF Local
<1>7. CASE WindowTimesOut(r)
  <2>1. /\ app[r].pc = "window" /\ clock >= req[r].deadline
        /\ Return(r, "request_timeout")
        /\ UNCHANGED <<clock, grant, req, log, events>>
    BY <1>7 DEF WindowTimesOut, DeadlineEnds
  <2>2. /\ req'[r] = req[r] /\ log'[r] = log[r]
        /\ app'[r].pc = "record" /\ app'[r].result = "request_timeout" /\ app'[r].given = app[r].given
        /\ \A q \in Requesters \ {r} : app'[q] = app[q]
        /\ lock' = IF lock = r THEN None ELSE lock
    <3>1. /\ app'[r].pc = "record" /\ app'[r].result = "request_timeout" /\ app'[r].given = app[r].given
          /\ \A q \in Requesters \ {r} : app'[q] = app[q]
          /\ lock' = IF lock = r THEN None ELSE lock
      BY <2>1, <1>t, ReturnSets
    <3>2. req'[r] = req[r] /\ log'[r] = log[r]
      BY <2>1
    <3> QED
      BY <3>1, <3>2
  <2>3. OthersAlone(r)
    BY <2>1, <2>2, <1>n DEF OthersAlone
  <2>4. app'[r].pc \in InWindow <=> lock' = r
    BY <2>1, <2>2, <1>w DEF InWindow
  <2>5. IdleOK(r)'
    BY <2>1, <2>2, <1>l DEF IdleOK
  <2>6. LoggedOK(r)'
    BY <2>1, <2>2, <1>l DEF LoggedOK, Said
  <2>7. HeardOK(r)'
    BY <2>1, <2>2, <1>l DEF HeardOK
  <2>8. GivenOK(r)'
    BY <2>1, <2>2, <1>l DEF GivenOK
  <2>9. PickedOK(r)'
    BY <2>1, <2>2, <1>l DEF PickedOK
  <2>10. LateOK(r)'
    BY <2>1, <2>2, <1>l DEF LateOK, Unanswered, OutOfTime
  <2>11. MetOK(r)'
    BY <2>1, <2>2, <1>l, <1>m DEF MetOK
  <2>12. UnaskedFor(r)'
    BY <2>1, <2>2, <1>l DEF UnaskedFor
  <2>13. LinesOK(r)'
    BY <2>1, <2>2, <1>l, <1>m DEF LinesOK, IdleOK
  <2> QED
    BY <2>3, <2>4, <2>5, <2>6, <2>7, <2>8, <2>9, <2>10, <2>11, <2>12, <2>13 DEF Local
<1>8. CASE GrantNext(r)
  <2>1. /\ app[r].pc = "grant"
        /\ \E n \in ToGrant(r) :
             /\ grant' = [grant EXCEPT ![n] = [ends |-> clock + app[r].picked, by |-> r]]
             /\ app' = [app EXCEPT ![r] = [app[r] EXCEPT !.given = app[r].given \cup {n}]]
        /\ UNCHANGED <<clock, req, lock, log, events>>
    BY <1>8 DEF GrantNext
  <2>2. PICK n \in ToGrant(r) :
        /\ grant' = [grant EXCEPT ![n] = [ends |-> clock + app[r].picked, by |-> r]]
        /\ req'[r] = req[r] /\ app'[r].pc = "grant" /\ app'[r].picked = app[r].picked
        /\ app'[r].given = app[r].given \cup {n} /\ app'[r].shown = app[r].shown
        /\ app'[r].result = app[r].result
        /\ \A q \in Requesters \ {r} : app'[q] = app[q]
    <3>1. app[r] \in Approvers
      BY <1>t
    <3>2. PICK n \in ToGrant(r) :
            /\ grant' = [grant EXCEPT ![n] = [ends |-> clock + app[r].picked, by |-> r]]
            /\ app' = [app EXCEPT ![r] = [app[r] EXCEPT !.given = app[r].given \cup {n}]]
      BY <2>1
    <3>3. app'[r] = [app[r] EXCEPT !.given = app[r].given \cup {n}]
      BY <3>2, <1>t
    <3>4. \A q \in Requesters \ {r} : app'[q] = app[q]
      BY <3>2, <1>t
    <3>5. /\ app'[r].pc = "grant" /\ app'[r].picked = app[r].picked
          /\ app'[r].given = app[r].given \cup {n} /\ app'[r].shown = app[r].shown
          /\ app'[r].result = app[r].result
      BY <2>1, <3>1, <3>3 DEF Approvers
    <3> QED
      BY <2>1, <3>2, <3>4, <3>5
  <2>3. OthersAlone(r)
    BY <2>1, <2>2, <1>n DEF OthersAlone
  <2>4. app'[r].pc \in InWindow <=> lock' = r
    BY <2>1, <2>2, <1>w DEF InWindow
  <2>5. IdleOK(r)'
    BY <2>1, <2>2, <1>l DEF IdleOK
  <2>6. LoggedOK(r)'
    BY <2>1, <2>2, <1>l DEF LoggedOK, Said
  <2>7. HeardOK(r)'
    BY <2>1, <2>2, <1>l DEF HeardOK
  <2>8. GivenOK(r)'
    BY <2>1, <2>2, <1>l DEF GivenOK
  <2>9. PickedOK(r)'
    BY <2>1, <2>2, <1>l DEF PickedOK
  <2>10. LateOK(r)'
    BY <2>1, <2>2, <1>l DEF LateOK, Unanswered, OutOfTime
  <2>11. MetOK(r)'
    <3>1. n \in Names
      BY <1>t DEF ToGrant, Approvers
    <3>2. app[r].picked \in Nat \ {0}
      BY <2>1, <1>l, QueueAssumption DEF PickedOK, QueueAssumption
    <3>3. LiveAt(n, clock)' /\ grant'[n].by = r
      <4>1. grant'[n].ends = clock + app[r].picked /\ grant'[n].by = r
        BY <2>2, <3>1, <1>t
      <4>2. clock + app[r].picked > clock /\ clock' = clock
        BY <2>1, <3>2, <1>t
      <4> QED
        BY <4>1, <4>2, Zenon DEF LiveAt
    <3>4. n \in req[r].names => n \in met'[r]
      <4>1. UnderWay(r)
        BY <2>1 DEF UnderWay
      <4> QED
        BY <4>1, <2>2, <3>3, <1>m DEF Meets
    <3> QED
      BY <2>1, <2>2, <3>4, <1>l, <1>m DEF MetOK
  <2>12. UnaskedFor(r)'
    BY <2>1, <2>2, <1>l DEF UnaskedFor
  <2>13. LinesOK(r)'
    BY <2>1, <2>2, <1>l, <1>m DEF LinesOK, IdleOK
  <2> QED
    BY <2>3, <2>4, <2>5, <2>6, <2>7, <2>8, <2>9, <2>10, <2>11, <2>12, <2>13 DEF Local
<1>9. CASE Granted(r)
  <2>1. /\ app[r].pc = "grant" /\ ToGrant(r) = {}
        /\ Return(r, "ok")
        /\ UNCHANGED <<clock, grant, req, log, events>>
    BY <1>9 DEF Granted
  <2>2. /\ req'[r] = req[r] /\ log'[r] = log[r]
        /\ app'[r].pc = "record" /\ app'[r].result = "ok" /\ app'[r].given = app[r].given
        /\ \A q \in Requesters \ {r} : app'[q] = app[q]
        /\ lock' = IF lock = r THEN None ELSE lock
    <3>1. /\ app'[r].pc = "record" /\ app'[r].result = "ok" /\ app'[r].given = app[r].given
          /\ \A q \in Requesters \ {r} : app'[q] = app[q]
          /\ lock' = IF lock = r THEN None ELSE lock
      BY <2>1, <1>t, ReturnSets
    <3>2. req'[r] = req[r] /\ log'[r] = log[r]
      BY <2>1
    <3> QED
      BY <3>1, <3>2
  <2>3. OthersAlone(r)
    BY <2>1, <2>2, <1>n DEF OthersAlone
  <2>4. app'[r].pc \in InWindow <=> lock' = r
    BY <2>1, <2>2, <1>w DEF InWindow
  <2>5. IdleOK(r)'
    BY <2>1, <2>2, <1>l DEF IdleOK
  <2>6. LoggedOK(r)'
    BY <2>1, <2>2, <1>l DEF LoggedOK, Said
  <2>7. HeardOK(r)'
    BY <2>1, <2>2, <1>l DEF HeardOK
  <2>8. GivenOK(r)'
    BY <2>1, <2>2, <1>l DEF GivenOK
  <2>9. PickedOK(r)'
    BY <2>1, <2>2, <1>l DEF PickedOK
  <2>10. LateOK(r)'
    BY <2>1, <2>2, <1>l DEF LateOK, Unanswered, OutOfTime
  <2>11. MetOK(r)'
    <3>1. app[r].shown \subseteq app[r].given
      BY <2>1 DEF ToGrant
    <3>2. req[r].names \subseteq met'[r]
      BY <2>1, <3>1, <1>l, <1>m DEF MetOK
    <3> QED
      BY <2>1, <2>2, <3>2, <1>l, <1>m DEF MetOK
  <2>12. UnaskedFor(r)'
    BY <2>1, <2>2, <1>l DEF UnaskedFor
  <2>13. LinesOK(r)'
    BY <2>1, <2>2, <1>l, <1>m DEF LinesOK, IdleOK
  <2> QED
    BY <2>3, <2>4, <2>5, <2>6, <2>7, <2>8, <2>9, <2>10, <2>11, <2>12, <2>13 DEF Local
<1>10. CASE Record(r)
  <2>1. /\ app[r].pc = "record"
        /\ app' = [app EXCEPT ![r].pc = "print"] /\ Appends(r, app[r].result)
        /\ UNCHANGED <<clock, grant, req, lock>>
    BY <1>10 DEF Record
  <2>2. /\ req'[r] = req[r] /\ app'[r].pc = "print"
        /\ \E line \in {app[r].result, "unwritten"} : log'[r] = log[r] \cup {line}
        /\ app'[r].given = app[r].given /\ app'[r].result = app[r].result
        /\ \A q \in Requesters \ {r} : app'[q] = app[q] /\ log'[q] = log[q]
    <3>1. /\ app'[r].pc = "print"
          /\ app'[r].given = app[r].given /\ app'[r].result = app[r].result
          /\ \A q \in Requesters \ {r} : app'[q] = app[q]
      BY <2>1, <1>t DEF Approvers
    <3>2. /\ \E line \in {app[r].result, "unwritten"} : log'[r] = log[r] \cup {line}
          /\ \A q \in Requesters \ {r} : log'[q] = log[q]
      BY <2>1, <1>t, AppendsSets
    <3> QED
      BY <2>1, <3>1, <3>2
  <2>3. OthersAlone(r)
    BY <2>1, <2>2, <1>n DEF OthersAlone
  <2>4. app'[r].pc \in InWindow <=> lock' = r
    BY <2>1, <2>2, <1>w DEF InWindow
  <2>5. IdleOK(r)'
    BY <2>1, <2>2, <1>l DEF IdleOK
  <2>6. LoggedOK(r)'
    BY <2>1, <2>2, <1>l DEF LoggedOK, Said
  <2>7. HeardOK(r)'
    BY <2>1, <2>2, <1>l DEF HeardOK
  <2>8. GivenOK(r)'
    BY <2>1, <2>2, <1>l DEF GivenOK
  <2>9. PickedOK(r)'
    BY <2>1, <2>2, <1>l DEF PickedOK
  <2>10. LateOK(r)'
    BY <2>1, <2>2, <1>l DEF LateOK, Unanswered, OutOfTime
  <2>11. MetOK(r)'
    BY <2>1, <2>2, <1>l, <1>m DEF MetOK
  <2>12. UnaskedFor(r)'
    BY <2>1, <2>2, <1>l DEF UnaskedFor
  <2>13. LinesOK(r)'
    <3>1. PICK line \in {app[r].result, "unwritten"} : log'[r] = log[r] \cup {line}
      BY <2>2
    <3>2. {"denied", "request_timeout", "ok"} \cap log[r] = {}
      BY <2>1, <1>l DEF LinesOK
    <3>3. CASE line \in {"denied", "request_timeout"}
      <4>1. app'[r].given = {}
        BY <2>1, <2>2, <3>1, <3>3, <1>l DEF GivenOK
      <4> QED
        BY <4>1, <3>1, <3>2, <3>3, <2>2 DEF LinesOK
    <3>4. CASE line = "ok"
      <4>1. req'[r].names \subseteq met'[r]
        BY <2>1, <2>2, <3>1, <3>4, <1>l, <1>m DEF MetOK
      <4> QED
        BY <4>1, <3>1, <3>2, <3>4, <2>2 DEF LinesOK
    <3>5. CASE line \notin {"denied", "request_timeout", "ok"}
      BY <3>1, <3>2, <3>5, <2>2 DEF LinesOK
    <3> QED
      BY <3>3, <3>4, <3>5
  <2> QED
    BY <2>3, <2>4, <2>5, <2>6, <2>7, <2>8, <2>9, <2>10, <2>11, <2>12, <2>13 DEF Local
<1>11. CASE Tell(r)
  <2>1. /\ app[r].pc = "print"
        /\ Exits(r, "done")
        /\ UNCHANGED <<clock, grant, req, lock, log, events>>
    BY <1>11 DEF Tell
  <2>2. /\ req'[r] = req[r] /\ log'[r] = log[r] /\ app'[r].pc = "done"
        /\ app'[r].given = app[r].given /\ app'[r].result = app[r].result
        /\ \A q \in Requesters \ {r} : app'[q] = app[q]
    BY <2>1, <1>t, ExitsSets
  <2>3. OthersAlone(r)
    BY <2>1, <2>2, <1>n DEF OthersAlone
  <2>4. app'[r].pc \in InWindow <=> lock' = r
    BY <2>1, <2>2, <1>w DEF InWindow
  <2>5. IdleOK(r)'
    BY <2>1, <2>2, <1>l DEF IdleOK
  <2>6. LoggedOK(r)'
    BY <2>1, <2>2, <1>l DEF LoggedOK, Said
  <2>7. HeardOK(r)'
    BY <2>1, <2>2, <1>l DEF HeardOK
  <2>8. GivenOK(r)'
    BY <2>1, <2>2, <1>l DEF GivenOK
  <2>9. PickedOK(r)'
    BY <2>1, <2>2, <1>l DEF PickedOK
  <2>10. LateOK(r)'
    BY <2>1, <2>2, <1>l DEF LateOK, Unanswered, OutOfTime
  <2>11. MetOK(r)'
    BY <2>1, <2>2, <1>l, <1>m DEF MetOK
  <2>12. UnaskedFor(r)'
    BY <2>1, <2>2, <1>l DEF UnaskedFor
  <2>13. LinesOK(r)'
    BY <2>1, <2>2, <1>l, <1>m DEF LinesOK, IdleOK
  <2> QED
    BY <2>3, <2>4, <2>5, <2>6, <2>7, <2>8, <2>9, <2>10, <2>11, <2>12, <2>13 DEF Local
<1>12. CASE UnitExpires(r)
  <2>1. /\ OutOfTime(r) /\ app[r].pc \notin {"none", "done", "dead"}
        /\ Dies(r)
        /\ UNCHANGED <<clock, grant, req, log, events>>
    BY <1>12 DEF UnitExpires
  <2>2. /\ req'[r] = req[r] /\ log'[r] = log[r] /\ app'[r].pc = "dead"
        /\ app'[r].given = app[r].given /\ app'[r].result = app[r].result
        /\ \A q \in Requesters \ {r} : app'[q] = app[q]
        /\ lock' = IF lock = r THEN None ELSE lock
    <3>1. /\ app'[r].pc = "dead" /\ app'[r].result = app[r].result
          /\ app'[r].given = app[r].given
          /\ \A q \in Requesters \ {r} : app'[q] = app[q]
          /\ lock' = IF lock = r THEN None ELSE lock
      BY <2>1, <1>t, DiesSets
    <3>2. req'[r] = req[r] /\ log'[r] = log[r]
      BY <2>1
    <3> QED
      BY <3>1, <3>2
  <2>3. OthersAlone(r)
    BY <2>1, <2>2, <1>n DEF OthersAlone
  <2>4. app'[r].pc \in InWindow <=> lock' = r
    BY <2>1, <2>2, <1>w DEF InWindow
  <2>5. IdleOK(r)'
    BY <2>1, <2>2, <1>l DEF IdleOK
  <2>6. LoggedOK(r)'
    BY <2>1, <2>2, <1>l DEF LoggedOK, Said
  <2>7. HeardOK(r)'
    BY <2>1, <2>2, <1>l DEF HeardOK
  <2>8. GivenOK(r)'
    BY <2>1, <2>2, <1>l DEF GivenOK
  <2>9. PickedOK(r)'
    BY <2>1, <2>2, <1>l DEF PickedOK
  <2>10. LateOK(r)'
    BY <2>1, <2>2, <1>l DEF LateOK, Unanswered, OutOfTime
  <2>11. MetOK(r)'
    BY <2>1, <2>2, <1>l, <1>m DEF MetOK
  <2>12. UnaskedFor(r)'
    BY <2>1, <2>2, <1>l DEF UnaskedFor
  <2>13. LinesOK(r)'
    BY <2>1, <2>2, <1>l, <1>m DEF LinesOK, IdleOK
  <2> QED
    BY <2>3, <2>4, <2>5, <2>6, <2>7, <2>8, <2>9, <2>10, <2>11, <2>12, <2>13 DEF Local
<1> QED
  BY <1>1, <1>2, <1>3, <1>4, <1>5, <1>6, <1>7, <1>8, <1>9, <1>10, <1>11, <1>12 DEF Approver

\* What is asked for, in the record.
LEMMA AskedSets ==
  ASSUME req \in [Requesters -> Requests], NEW r \in Requesters, NEW want \in Wants[r]
  PROVE  /\ Asked(r, want).names = want.names /\ Asked(r, want).ttl = want.ttl
         /\ Asked(r, want).extend = want.extend /\ Asked(r, want).answer = req[r].answer
         /\ Asked(r, want) \in Requests
<1>1. Asked(r, want) \in Requests
  BY AskedType
<1>2. req[r] \in Requests
  OBVIOUS
<1>3. /\ Asked(r, want).names = want.names /\ Asked(r, want).ttl = want.ttl
      /\ Asked(r, want).extend = want.extend /\ Asked(r, want).answer = req[r].answer
  BY <1>2 DEF Asked, Requests
<1> QED
  BY <1>1, <1>3

\* A request that begins has met what it found granted.
LEMMA FoundMet ==
  ASSUME TypeOK, NEW r \in Requesters, NEW want \in Wants[r], Noted, req[r].pc = "idle",
         req'[r].names = want.names, req'[r].ttl = want.ttl, req'[r].extend = want.extend,
         clock' = clock, grant' = grant
  PROVE  want.names \ MissingNow(want) \subseteq met'[r]
<1>1. SUFFICES ASSUME NEW n \in want.names, n \notin MissingNow(want) PROVE n \in met'[r]
  OBVIOUS
<1>2. Enough(n, clock, want.ttl, want.extend)
  BY <1>1 DEF MissingNow, Ungranted
<1>3. Enough(n, clock, req'[r].ttl, req'[r].extend)
  BY <1>2
<1>4. n \in Meets(r)'
  BY <1>1, <1>3, Zenon, EnoughMeets
<1>5. Meets(r)' \subseteq met'[r]
  BY NotedSets DEF UnderWay
<1> QED
  BY <1>4, <1>5

\* A request is made, approved or denied.
LEMMA PeopleKeep ==
  ASSUME TypeOK, OneWindow, NEW r \in Requesters, Local(r), UnaskedFor(r), Noted, People(r)
  PROVE  OthersAlone(r) /\ (app'[r].pc \in InWindow <=> lock' = r)
         /\ Local(r)' /\ UnaskedFor(r)'
<1>t. /\ clock \in Nat /\ grant \in [Names -> Grants]
      /\ req \in [Requesters -> Requests] /\ app \in [Requesters -> Approvers]
      /\ lock \in Requesters \cup {None} /\ log \in [Requesters -> SUBSET Lines]
  BY Typed
<1>l. /\ IdleOK(r) /\ LoggedOK(r) /\ HeardOK(r) /\ LinesOK(r)
      /\ GivenOK(r) /\ PickedOK(r)
      /\ LateOK(r) /\ MetOK(r) /\ UnaskedFor(r)
  BY DEF Local
<1>w. /\ app[r].pc \in InWindow <=> lock = r
      /\ r # None
  BY QueueAssumption DEF OneWindow, InWindow, QueueAssumption
<1>n. /\ \A q \in Requesters : q # None
      /\ None \notin {"ok", "no_grant", "request_timeout", "denied", "error"}
  BY QueueAssumption DEF QueueAssumption
<1>m. /\ met[r] \subseteq met'[r]
      /\ UnderWay(r) => Meets(r)' \subseteq met'[r]
  BY NotedSets
<1>1. CASE NothingMissing(r)
  <2>1. /\ req[r].pc = "idle"
        /\ \E want \in Wants[r] :
             /\ MissingNow(want) = {}
             /\ req' = [req EXCEPT ![r] = [Asked(r, want) EXCEPT !.pc = "done", !.answer = "ok"]]
        /\ UNCHANGED <<clock, grant, app, lock, log, events>>
    BY <1>1 DEF NothingMissing
  <2>2. /\ req'[r].pc = "done" /\ req'[r].answer = "ok" /\ req'[r].names \subseteq met'[r]
        /\ app[r].pc = "none" /\ \A q \in Requesters \ {r} : req'[q] = req[q]
    <3>1. PICK want \in Wants[r] :
            /\ MissingNow(want) = {}
            /\ req' = [req EXCEPT ![r] = [Asked(r, want) EXCEPT !.pc = "done", !.answer = "ok"]]
      BY <2>1
    <3>2. Asked(r, want) \in Requests
      BY <1>t, AskedSets
    <3>3. req'[r] = [Asked(r, want) EXCEPT !.pc = "done", !.answer = "ok"]
      BY <3>1, <1>t
    <3>4. \A q \in Requesters \ {r} : req'[q] = req[q]
      BY <3>1, <1>t
    <3>5. /\ req'[r].pc = "done" /\ req'[r].answer = "ok"
          /\ req'[r].names = Asked(r, want).names /\ req'[r].ttl = Asked(r, want).ttl
          /\ req'[r].extend = Asked(r, want).extend
      BY <3>2, <3>3 DEF Requests
    <3>6. /\ req'[r].names = want.names /\ req'[r].ttl = want.ttl /\ req'[r].extend = want.extend
      BY <3>5, <1>t, AskedSets
    <3>7. want.names \ MissingNow(want) \subseteq met'[r]
      BY <2>1, <3>6, FoundMet
    <3>8. app[r].pc = "none"
      BY <2>1, <1>l DEF IdleOK
    <3> QED
      BY <3>1, <3>4, <3>5, <3>6, <3>7, <3>8
  <2>3. OthersAlone(r)
    BY <2>1, <2>2, <1>n DEF OthersAlone
  <2>4. app'[r].pc \in InWindow <=> lock' = r
    BY <2>1, <2>2, <1>w DEF InWindow
  <2>5. IdleOK(r)'
    BY <2>1, <2>2, <1>l DEF IdleOK
  <2>6. LoggedOK(r)'
    BY <2>1, <2>2, <1>l DEF LoggedOK, Said
  <2>7. HeardOK(r)'
    BY <2>1, <2>2, <1>l DEF HeardOK
  <2>8. GivenOK(r)'
    BY <2>1, <2>2, <1>l DEF GivenOK
  <2>9. PickedOK(r)'
    BY <2>1, <2>2, <1>l DEF PickedOK
  <2>10. LateOK(r)'
    BY <2>1, <2>2, <1>l DEF LateOK, Unanswered, OutOfTime
  <2>11. MetOK(r)'
    BY <2>1, <2>2, <1>l, <1>m DEF MetOK
  <2>12. UnaskedFor(r)'
    BY <2>1, <2>2, <1>l DEF UnaskedFor
  <2>13. LinesOK(r)'
    BY <2>1, <2>2, <1>l, <1>m DEF LinesOK, IdleOK
  <2> QED
    BY <2>3, <2>4, <2>5, <2>6, <2>7, <2>8, <2>9, <2>10, <2>11, <2>12, <2>13 DEF Local
<1>2. CASE Launch(r)
  <2>1. /\ req[r].pc = "idle"
        /\ \E want \in Wants[r] :
             /\ req' = [req EXCEPT ![r] = [Asked(r, want) EXCEPT
                                             !.pc = "wait", !.deadline = clock + Timeout]]
             /\ app' = [app EXCEPT ![r] = [app[r] EXCEPT !.pc = "start", !.missing = MissingNow(want)]]
        /\ UNCHANGED <<clock, grant, lock, log, events>>
    BY <1>2 DEF Launch
  <2>2. /\ req'[r].pc = "wait" /\ req'[r].answer = None /\ app[r].given = {}
        /\ req'[r].names \ app'[r].missing \subseteq met'[r]
        /\ app[r].pc = "none" /\ app'[r].pc = "start" /\ app'[r].given = {}
        /\ \A q \in Requesters \ {r} : req'[q] = req[q] /\ app'[q] = app[q]
    <3>1. PICK want \in Wants[r] :
            /\ req' = [req EXCEPT ![r] = [Asked(r, want) EXCEPT
                                            !.pc = "wait", !.deadline = clock + Timeout]]
            /\ app' = [app EXCEPT ![r] = [app[r] EXCEPT !.pc = "start", !.missing = MissingNow(want)]]
      BY <2>1
    <3>2. Asked(r, want) \in Requests /\ app[r] \in Approvers
      BY <1>t, AskedSets
    <3>3. /\ req'[r] = [Asked(r, want) EXCEPT !.pc = "wait", !.deadline = clock + Timeout]
          /\ \A q \in Requesters \ {r} : req'[q] = req[q]
      BY <3>1, <1>t
    <3>4. /\ app'[r] = [app[r] EXCEPT !.pc = "start", !.missing = MissingNow(want)]
          /\ \A q \in Requesters \ {r} : app'[q] = app[q]
      BY <3>1, <1>t
    <3>5. /\ req'[r].pc = "wait" /\ req'[r].answer = Asked(r, want).answer
          /\ req'[r].names = Asked(r, want).names /\ req'[r].ttl = Asked(r, want).ttl
          /\ req'[r].extend = Asked(r, want).extend
      BY <3>2, <3>3 DEF Requests
    <3>6. /\ app'[r].pc = "start" /\ app'[r].missing = MissingNow(want)
          /\ app'[r].given = app[r].given
      BY <3>2, <3>4 DEF Approvers
    <3>7. /\ req'[r].names = want.names /\ req'[r].ttl = want.ttl /\ req'[r].extend = want.extend
          /\ req'[r].answer = req[r].answer
      BY <3>5, <1>t, AskedSets
    <3>8. want.names \ MissingNow(want) \subseteq met'[r]
      BY <2>1, <3>7, FoundMet
    <3>9. app[r].pc = "none" /\ app[r].given = {} /\ req[r].answer = None
      BY <2>1, <1>l DEF IdleOK, GivenOK
    <3> QED
      BY <3>3, <3>4, <3>5, <3>6, <3>7, <3>8, <3>9
  <2>3. OthersAlone(r)
    BY <2>1, <2>2, <1>n DEF OthersAlone
  <2>4. app'[r].pc \in InWindow <=> lock' = r
    BY <2>1, <2>2, <1>w DEF InWindow
  <2>5. IdleOK(r)'
    BY <2>1, <2>2, <1>l DEF IdleOK
  <2>6. LoggedOK(r)'
    BY <2>1, <2>2, <1>l DEF LoggedOK, Said
  <2>7. HeardOK(r)'
    BY <2>1, <2>2, <1>l, <1>n DEF HeardOK
  <2>8. GivenOK(r)'
    BY <2>1, <2>2, <1>l DEF GivenOK
  <2>9. PickedOK(r)'
    BY <2>1, <2>2, <1>l DEF PickedOK
  <2>10. LateOK(r)'
    BY <2>1, <2>2, <1>l, <1>n DEF LateOK, Unanswered, OutOfTime
  <2>11. MetOK(r)'
    BY <2>1, <2>2, <1>l, <1>n, <1>m DEF MetOK
  <2>12. UnaskedFor(r)'
    BY <2>1, <2>2, <1>l DEF UnaskedFor
  <2>13. LinesOK(r)'
    BY <2>1, <2>2, <1>l, <1>m DEF LinesOK, IdleOK
  <2> QED
    BY <2>3, <2>4, <2>5, <2>6, <2>7, <2>8, <2>9, <2>10, <2>11, <2>12, <2>13 DEF Local
<1>3. CASE Approved(r)
  <2>1. /\ app[r].pc = "window"
        /\ \E picked \in TTLs :
             app' = [app EXCEPT ![r] = [app[r] EXCEPT !.pc = "grant", !.picked = picked]]
        /\ UNCHANGED <<clock, grant, req, lock, log, events>>
    BY <1>3 DEF Approved
  <2>2. /\ req'[r] = req[r] /\ app'[r].pc = "grant" /\ app'[r].picked \in TTLs
        /\ app'[r].shown = app[r].shown /\ app'[r].given = app[r].given
        /\ app'[r].result = app[r].result
        /\ \A q \in Requesters \ {r} : app'[q] = app[q]
    <3>1. PICK picked \in TTLs :
            app' = [app EXCEPT ![r] = [app[r] EXCEPT !.pc = "grant", !.picked = picked]]
      BY <2>1
    <3>2. app[r] \in Approvers
      BY <1>t
    <3>3. app'[r] = [app[r] EXCEPT !.pc = "grant", !.picked = picked]
      BY <3>1, <1>t
    <3>4. \A q \in Requesters \ {r} : app'[q] = app[q]
      BY <3>1, <1>t
    <3>5. /\ app'[r].pc = "grant" /\ app'[r].picked = picked
          /\ app'[r].shown = app[r].shown /\ app'[r].given = app[r].given
          /\ app'[r].result = app[r].result
      BY <3>2, <3>3 DEF Approvers
    <3>6. req'[r] = req[r]
      BY <2>1
    <3> QED
      BY <3>4, <3>5, <3>6
  <2>3. OthersAlone(r)
    BY <2>1, <2>2, <1>n DEF OthersAlone
  <2>4. app'[r].pc \in InWindow <=> lock' = r
    BY <2>1, <2>2, <1>w DEF InWindow
  <2>5. IdleOK(r)'
    BY <2>1, <2>2, <1>l DEF IdleOK
  <2>6. LoggedOK(r)'
    BY <2>1, <2>2, <1>l DEF LoggedOK, Said
  <2>7. HeardOK(r)'
    BY <2>1, <2>2, <1>l DEF HeardOK
  <2>8. GivenOK(r)'
    BY <2>1, <2>2, <1>l DEF GivenOK
  <2>9. PickedOK(r)'
    BY <2>1, <2>2, <1>l DEF PickedOK
  <2>10. LateOK(r)'
    BY <2>1, <2>2, <1>l DEF LateOK, Unanswered, OutOfTime
  <2>11. MetOK(r)'
    BY <2>1, <2>2, <1>l, <1>m DEF MetOK
  <2>12. UnaskedFor(r)'
    BY <2>1, <2>2, <1>l DEF UnaskedFor
  <2>13. LinesOK(r)'
    BY <2>1, <2>2, <1>l, <1>m DEF LinesOK, IdleOK
  <2> QED
    BY <2>3, <2>4, <2>5, <2>6, <2>7, <2>8, <2>9, <2>10, <2>11, <2>12, <2>13 DEF Local
<1>4. CASE Denied(r)
  <2>1. /\ app[r].pc = "window"
        /\ Return(r, "denied")
        /\ UNCHANGED <<clock, grant, req, log, events>>
    BY <1>4 DEF Denied
  <2>2. /\ req'[r] = req[r] /\ log'[r] = log[r]
        /\ app'[r].pc = "record" /\ app'[r].result = "denied" /\ app'[r].given = app[r].given
        /\ \A q \in Requesters \ {r} : app'[q] = app[q]
        /\ lock' = IF lock = r THEN None ELSE lock
    <3>1. /\ app'[r].pc = "record" /\ app'[r].result = "denied" /\ app'[r].given = app[r].given
          /\ \A q \in Requesters \ {r} : app'[q] = app[q]
          /\ lock' = IF lock = r THEN None ELSE lock
      BY <2>1, <1>t, ReturnSets
    <3>2. req'[r] = req[r] /\ log'[r] = log[r]
      BY <2>1
    <3> QED
      BY <3>1, <3>2
  <2>3. OthersAlone(r)
    BY <2>1, <2>2, <1>n DEF OthersAlone
  <2>4. app'[r].pc \in InWindow <=> lock' = r
    BY <2>1, <2>2, <1>w DEF InWindow
  <2>5. IdleOK(r)'
    BY <2>1, <2>2, <1>l DEF IdleOK
  <2>6. LoggedOK(r)'
    BY <2>1, <2>2, <1>l DEF LoggedOK, Said
  <2>7. HeardOK(r)'
    BY <2>1, <2>2, <1>l DEF HeardOK
  <2>8. GivenOK(r)'
    BY <2>1, <2>2, <1>l DEF GivenOK
  <2>9. PickedOK(r)'
    BY <2>1, <2>2, <1>l DEF PickedOK
  <2>10. LateOK(r)'
    BY <2>1, <2>2, <1>l DEF LateOK, Unanswered, OutOfTime
  <2>11. MetOK(r)'
    BY <2>1, <2>2, <1>l, <1>m DEF MetOK
  <2>12. UnaskedFor(r)'
    BY <2>1, <2>2, <1>l DEF UnaskedFor
  <2>13. LinesOK(r)'
    BY <2>1, <2>2, <1>l, <1>m DEF LinesOK, IdleOK
  <2> QED
    BY <2>3, <2>4, <2>5, <2>6, <2>7, <2>8, <2>9, <2>10, <2>11, <2>12, <2>13 DEF Local
<1> QED
  BY <1>1, <1>2, <1>3, <1>4 DEF People

\* A fault leaves what is said of its request true.
LEMMA FaultKeeps ==
  ASSUME TypeOK, OneWindow, NEW r \in Requesters, Local(r), UnaskedFor(r), Noted, Fault(r)
  PROVE  OthersAlone(r) /\ (app'[r].pc \in InWindow <=> lock' = r)
         /\ Local(r)' /\ UnaskedFor(r)'
<1>t. /\ clock \in Nat /\ grant \in [Names -> Grants]
      /\ req \in [Requesters -> Requests] /\ app \in [Requesters -> Approvers]
      /\ lock \in Requesters \cup {None} /\ log \in [Requesters -> SUBSET Lines]
  BY Typed
<1>l. /\ IdleOK(r) /\ LoggedOK(r) /\ HeardOK(r) /\ LinesOK(r)
      /\ GivenOK(r) /\ PickedOK(r)
      /\ LateOK(r) /\ MetOK(r) /\ UnaskedFor(r)
  BY DEF Local
<1>w. /\ app[r].pc \in InWindow <=> lock = r
      /\ r # None
  BY QueueAssumption DEF OneWindow, InWindow, QueueAssumption
<1>n. /\ \A q \in Requesters : q # None
      /\ None \notin {"ok", "no_grant", "request_timeout", "denied", "error"}
  BY QueueAssumption DEF QueueAssumption
<1>m. /\ met[r] \subseteq met'[r]
      /\ UnderWay(r) => Meets(r)' \subseteq met'[r]
  BY NotedSets
<1>1. CASE NoScreen(r)
  <2>1. /\ req[r].pc = "idle"
        /\ \E line \in {"no_grant", "unwritten"} : log' = [log EXCEPT ![r] = log[r] \cup {line}]
        /\ \E want \in Wants[r] :
             /\ MissingNow(want) # {}
             /\ req' = [req EXCEPT ![r] = [Asked(r, want) EXCEPT !.pc = "done", !.answer = "no_grant"]]
        /\ UNCHANGED <<clock, grant, app, lock>>
    BY <1>1 DEF NoScreen
  <2>2. /\ req'[r].pc = "done" /\ req'[r].answer = "no_grant"
        /\ \E line \in {"no_grant", "unwritten"} : log'[r] = log[r] \cup {line}
        /\ app[r].pc = "none" /\ app[r].given = {}
        /\ \A q \in Requesters \ {r} : req'[q] = req[q] /\ log'[q] = log[q]
    <3>1. PICK want \in Wants[r] :
            /\ MissingNow(want) # {}
            /\ req' = [req EXCEPT ![r] = [Asked(r, want) EXCEPT !.pc = "done", !.answer = "no_grant"]]
      BY <2>1
    <3>2. Asked(r, want) \in Requests
      BY <1>t, AskedSets
    <3>3. req'[r] = [Asked(r, want) EXCEPT !.pc = "done", !.answer = "no_grant"]
      BY <3>1, <1>t
    <3>4. \A q \in Requesters \ {r} : req'[q] = req[q]
      BY <3>1, <1>t
    <3>5. /\ req'[r].pc = "done" /\ req'[r].answer = "no_grant"
          /\ req'[r].names = Asked(r, want).names /\ req'[r].ttl = Asked(r, want).ttl
          /\ req'[r].extend = Asked(r, want).extend
      BY <3>2, <3>3 DEF Requests
    <3>6. /\ req'[r].names = want.names /\ req'[r].ttl = want.ttl /\ req'[r].extend = want.extend
      BY <3>5, <1>t, AskedSets
    <3>7. /\ \E line \in {"no_grant", "unwritten"} : log'[r] = log[r] \cup {line}
          /\ \A q \in Requesters \ {r} : log'[q] = log[q]
      BY <2>1, <1>t
    <3>8. app[r].pc = "none" /\ app[r].given = {}
      BY <2>1, <1>l DEF IdleOK, GivenOK
    <3> QED
      BY <3>4, <3>5, <3>7, <3>8
  <2>3. OthersAlone(r)
    BY <2>1, <2>2, <1>n DEF OthersAlone
  <2>4. app'[r].pc \in InWindow <=> lock' = r
    BY <2>1, <2>2, <1>w DEF InWindow
  <2>5. IdleOK(r)'
    BY <2>1, <2>2, <1>l DEF IdleOK
  <2>6. LoggedOK(r)'
    BY <2>1, <2>2, <1>l DEF LoggedOK, Said
  <2>7. HeardOK(r)'
    BY <2>1, <2>2, <1>l DEF HeardOK
  <2>8. GivenOK(r)'
    BY <2>1, <2>2, <1>l DEF GivenOK
  <2>9. PickedOK(r)'
    BY <2>1, <2>2, <1>l DEF PickedOK
  <2>10. LateOK(r)'
    BY <2>1, <2>2, <1>l DEF LateOK, Unanswered, OutOfTime
  <2>11. MetOK(r)'
    BY <2>1, <2>2, <1>l, <1>m DEF MetOK
  <2>12. UnaskedFor(r)'
    BY <2>1, <2>2, <1>l DEF UnaskedFor
  <2>13. LinesOK(r)'
    BY <2>1, <2>2, <1>l, <1>m DEF LinesOK, IdleOK
  <2> QED
    BY <2>3, <2>4, <2>5, <2>6, <2>7, <2>8, <2>9, <2>10, <2>11, <2>12, <2>13 DEF Local
<1>2. CASE OpenFails(r)
  <2>1. /\ app[r].pc = "open"
        /\ Return(r, "error")
        /\ UNCHANGED <<clock, grant, req, log>>
    BY <1>2 DEF OpenFails
  <2>2. /\ req'[r] = req[r] /\ log'[r] = log[r]
        /\ app'[r].pc = "record" /\ app'[r].result = "error" /\ app'[r].given = app[r].given
        /\ \A q \in Requesters \ {r} : app'[q] = app[q]
        /\ lock' = IF lock = r THEN None ELSE lock
    <3>1. /\ app'[r].pc = "record" /\ app'[r].result = "error" /\ app'[r].given = app[r].given
          /\ \A q \in Requesters \ {r} : app'[q] = app[q]
          /\ lock' = IF lock = r THEN None ELSE lock
      BY <2>1, <1>t, ReturnSets
    <3>2. req'[r] = req[r] /\ log'[r] = log[r]
      BY <2>1
    <3> QED
      BY <3>1, <3>2
  <2>3. OthersAlone(r)
    BY <2>1, <2>2, <1>n DEF OthersAlone
  <2>4. app'[r].pc \in InWindow <=> lock' = r
    BY <2>1, <2>2, <1>w DEF InWindow
  <2>5. IdleOK(r)'
    BY <2>1, <2>2, <1>l DEF IdleOK
  <2>6. LoggedOK(r)'
    BY <2>1, <2>2, <1>l DEF LoggedOK, Said
  <2>7. HeardOK(r)'
    BY <2>1, <2>2, <1>l DEF HeardOK
  <2>8. GivenOK(r)'
    BY <2>1, <2>2, <1>l DEF GivenOK
  <2>9. PickedOK(r)'
    BY <2>1, <2>2, <1>l DEF PickedOK
  <2>10. LateOK(r)'
    BY <2>1, <2>2, <1>l DEF LateOK, Unanswered, OutOfTime
  <2>11. MetOK(r)'
    BY <2>1, <2>2, <1>l, <1>m DEF MetOK
  <2>12. UnaskedFor(r)'
    BY <2>1, <2>2, <1>l DEF UnaskedFor
  <2>13. LinesOK(r)'
    BY <2>1, <2>2, <1>l, <1>m DEF LinesOK, IdleOK
  <2> QED
    BY <2>3, <2>4, <2>5, <2>6, <2>7, <2>8, <2>9, <2>10, <2>11, <2>12, <2>13 DEF Local
<1>3. CASE UnlockFails(r)
  <2>1. /\ app[r].pc = "window"
        /\ Return(r, "error")
        /\ UNCHANGED <<clock, grant, req, log, events>>
    BY <1>3 DEF UnlockFails
  <2>2. /\ req'[r] = req[r] /\ log'[r] = log[r]
        /\ app'[r].pc = "record" /\ app'[r].result = "error" /\ app'[r].given = app[r].given
        /\ \A q \in Requesters \ {r} : app'[q] = app[q]
        /\ lock' = IF lock = r THEN None ELSE lock
    <3>1. /\ app'[r].pc = "record" /\ app'[r].result = "error" /\ app'[r].given = app[r].given
          /\ \A q \in Requesters \ {r} : app'[q] = app[q]
          /\ lock' = IF lock = r THEN None ELSE lock
      BY <2>1, <1>t, ReturnSets
    <3>2. req'[r] = req[r] /\ log'[r] = log[r]
      BY <2>1
    <3> QED
      BY <3>1, <3>2
  <2>3. OthersAlone(r)
    BY <2>1, <2>2, <1>n DEF OthersAlone
  <2>4. app'[r].pc \in InWindow <=> lock' = r
    BY <2>1, <2>2, <1>w DEF InWindow
  <2>5. IdleOK(r)'
    BY <2>1, <2>2, <1>l DEF IdleOK
  <2>6. LoggedOK(r)'
    BY <2>1, <2>2, <1>l DEF LoggedOK, Said
  <2>7. HeardOK(r)'
    BY <2>1, <2>2, <1>l DEF HeardOK
  <2>8. GivenOK(r)'
    BY <2>1, <2>2, <1>l DEF GivenOK
  <2>9. PickedOK(r)'
    BY <2>1, <2>2, <1>l DEF PickedOK
  <2>10. LateOK(r)'
    BY <2>1, <2>2, <1>l DEF LateOK, Unanswered, OutOfTime
  <2>11. MetOK(r)'
    BY <2>1, <2>2, <1>l, <1>m DEF MetOK
  <2>12. UnaskedFor(r)'
    BY <2>1, <2>2, <1>l DEF UnaskedFor
  <2>13. LinesOK(r)'
    BY <2>1, <2>2, <1>l, <1>m DEF LinesOK, IdleOK
  <2> QED
    BY <2>3, <2>4, <2>5, <2>6, <2>7, <2>8, <2>9, <2>10, <2>11, <2>12, <2>13 DEF Local
<1>4. CASE GrantFails(r)
  <2>1. /\ app[r].pc = "grant"
        /\ Return(r, "error")
        /\ UNCHANGED <<clock, grant, req, log>>
    BY <1>4 DEF GrantFails
  <2>2. /\ req'[r] = req[r] /\ log'[r] = log[r]
        /\ app'[r].pc = "record" /\ app'[r].result = "error" /\ app'[r].given = app[r].given
        /\ \A q \in Requesters \ {r} : app'[q] = app[q]
        /\ lock' = IF lock = r THEN None ELSE lock
    <3>1. /\ app'[r].pc = "record" /\ app'[r].result = "error" /\ app'[r].given = app[r].given
          /\ \A q \in Requesters \ {r} : app'[q] = app[q]
          /\ lock' = IF lock = r THEN None ELSE lock
      BY <2>1, <1>t, ReturnSets
    <3>2. req'[r] = req[r] /\ log'[r] = log[r]
      BY <2>1
    <3> QED
      BY <3>1, <3>2
  <2>3. OthersAlone(r)
    BY <2>1, <2>2, <1>n DEF OthersAlone
  <2>4. app'[r].pc \in InWindow <=> lock' = r
    BY <2>1, <2>2, <1>w DEF InWindow
  <2>5. IdleOK(r)'
    BY <2>1, <2>2, <1>l DEF IdleOK
  <2>6. LoggedOK(r)'
    BY <2>1, <2>2, <1>l DEF LoggedOK, Said
  <2>7. HeardOK(r)'
    BY <2>1, <2>2, <1>l DEF HeardOK
  <2>8. GivenOK(r)'
    BY <2>1, <2>2, <1>l DEF GivenOK
  <2>9. PickedOK(r)'
    BY <2>1, <2>2, <1>l DEF PickedOK
  <2>10. LateOK(r)'
    BY <2>1, <2>2, <1>l DEF LateOK, Unanswered, OutOfTime
  <2>11. MetOK(r)'
    BY <2>1, <2>2, <1>l, <1>m DEF MetOK
  <2>12. UnaskedFor(r)'
    BY <2>1, <2>2, <1>l DEF UnaskedFor
  <2>13. LinesOK(r)'
    BY <2>1, <2>2, <1>l, <1>m DEF LinesOK, IdleOK
  <2> QED
    BY <2>3, <2>4, <2>5, <2>6, <2>7, <2>8, <2>9, <2>10, <2>11, <2>12, <2>13 DEF Local
<1>5. CASE KillRequester(r)
  <2>1. /\ req[r].pc = "wait"
        /\ req' = [req EXCEPT ![r].pc = "killed"]
        /\ UNCHANGED <<clock, grant, app, lock, log>>
    BY <1>5 DEF KillRequester
  <2>2. /\ req'[r].pc = "killed" /\ req'[r].answer = None
        /\ req'[r].ttl = req[r].ttl /\ req'[r].extend = req[r].extend
        /\ \A q \in Requesters \ {r} : req'[q] = req[q]
    <3>1. req[r] \in Requests /\ req[r].answer = None
      BY <2>1, <1>t, <1>l DEF IdleOK
    <3>2. /\ req'[r] = [req[r] EXCEPT !.pc = "killed"]
          /\ \A q \in Requesters \ {r} : req'[q] = req[q]
      BY <2>1, <1>t
    <3>3. /\ req'[r].pc = "killed" /\ req'[r].answer = req[r].answer
          /\ req'[r].ttl = req[r].ttl /\ req'[r].extend = req[r].extend
      BY <3>1, <3>2 DEF Requests
    <3> QED
      BY <3>1, <3>2, <3>3
  <2>3. OthersAlone(r)
    BY <2>1, <2>2, <1>n DEF OthersAlone
  <2>4. app'[r].pc \in InWindow <=> lock' = r
    BY <2>1, <2>2, <1>w DEF InWindow
  <2>5. IdleOK(r)'
    BY <2>1, <2>2, <1>l DEF IdleOK
  <2>6. LoggedOK(r)'
    BY <2>1, <2>2, <1>l DEF LoggedOK, Said
  <2>7. HeardOK(r)'
    BY <2>1, <2>2, <1>l, <1>n DEF HeardOK
  <2>8. GivenOK(r)'
    BY <2>1, <2>2, <1>l DEF GivenOK
  <2>9. PickedOK(r)'
    BY <2>1, <2>2, <1>l DEF PickedOK
  <2>10. LateOK(r)'
    BY <2>1, <2>2, <1>l, <1>n DEF LateOK, Unanswered, OutOfTime
  <2>11. MetOK(r)'
    BY <2>1, <2>2, <1>l, <1>n, <1>m DEF MetOK
  <2>12. UnaskedFor(r)'
    BY <2>1, <2>2, <1>l, UnaskedSame
  <2>13. LinesOK(r)'
    BY <2>1, <2>2, <1>l, <1>m DEF LinesOK, IdleOK
  <2> QED
    BY <2>3, <2>4, <2>5, <2>6, <2>7, <2>8, <2>9, <2>10, <2>11, <2>12, <2>13 DEF Local
<1>6. CASE CrashApprover(r)
  <2>1. /\ app[r].pc \notin {"none", "done", "dead"}
        /\ Dies(r)
        /\ UNCHANGED <<clock, grant, req, log>>
    BY <1>6 DEF CrashApprover
  <2>2. /\ req'[r] = req[r] /\ log'[r] = log[r] /\ app'[r].pc = "dead"
        /\ app'[r].given = app[r].given /\ app'[r].result = app[r].result
        /\ \A q \in Requesters \ {r} : app'[q] = app[q]
        /\ lock' = IF lock = r THEN None ELSE lock
    <3>1. /\ app'[r].pc = "dead" /\ app'[r].result = app[r].result
          /\ app'[r].given = app[r].given
          /\ \A q \in Requesters \ {r} : app'[q] = app[q]
          /\ lock' = IF lock = r THEN None ELSE lock
      BY <2>1, <1>t, DiesSets
    <3>2. req'[r] = req[r] /\ log'[r] = log[r]
      BY <2>1
    <3> QED
      BY <3>1, <3>2
  <2>3. OthersAlone(r)
    BY <2>1, <2>2, <1>n DEF OthersAlone
  <2>4. app'[r].pc \in InWindow <=> lock' = r
    BY <2>1, <2>2, <1>w DEF InWindow
  <2>5. IdleOK(r)'
    BY <2>1, <2>2, <1>l DEF IdleOK
  <2>6. LoggedOK(r)'
    BY <2>1, <2>2, <1>l DEF LoggedOK, Said
  <2>7. HeardOK(r)'
    BY <2>1, <2>2, <1>l DEF HeardOK
  <2>8. GivenOK(r)'
    BY <2>1, <2>2, <1>l DEF GivenOK
  <2>9. PickedOK(r)'
    BY <2>1, <2>2, <1>l DEF PickedOK
  <2>10. LateOK(r)'
    BY <2>1, <2>2, <1>l DEF LateOK, Unanswered, OutOfTime
  <2>11. MetOK(r)'
    BY <2>1, <2>2, <1>l, <1>m DEF MetOK
  <2>12. UnaskedFor(r)'
    BY <2>1, <2>2, <1>l DEF UnaskedFor
  <2>13. LinesOK(r)'
    BY <2>1, <2>2, <1>l, <1>m DEF LinesOK, IdleOK
  <2> QED
    BY <2>3, <2>4, <2>5, <2>6, <2>7, <2>8, <2>9, <2>10, <2>11, <2>12, <2>13 DEF Local
<1> QED
  BY <1>1, <1>2, <1>3, <1>4, <1>5, <1>6 DEF Fault

-----------------------------------------------------------------------------
(* The invariant.                                                          *)

\* Anyone's step leaves the others what it does not touch, in the time and
\* with the grants there are: they only meet more.
LEMMA LocalKept ==
  ASSUME TypeOK, NEW q \in Requesters, Local(q), Noted,
         req'[q] = req[q], app'[q] = app[q], log'[q] = log[q],
         OutOfTime(q) => OutOfTime(q)'
  PROVE  Local(q)'
<1>l. /\ IdleOK(q) /\ LoggedOK(q) /\ HeardOK(q) /\ LinesOK(q)
      /\ GivenOK(q) /\ PickedOK(q)
      /\ LateOK(q) /\ MetOK(q)
  BY DEF Local
<1>m. met[q] \subseteq met'[q]
  BY NotedSets
<1>1. IdleOK(q)'
  BY <1>l DEF IdleOK
<1>2. LoggedOK(q)'
  BY <1>l DEF LoggedOK
<1>3. HeardOK(q)'
  BY <1>l DEF HeardOK
<1>4. GivenOK(q)'
  BY <1>l DEF GivenOK
<1>5. PickedOK(q)'
  BY <1>l DEF PickedOK
<1>6. LateOK(q)'
  BY <1>l DEF LateOK, Unanswered
<1>7. MetOK(q)'
  BY <1>l, <1>m DEF MetOK
<1>8. LinesOK(q)'
  BY <1>l, <1>m DEF LinesOK
<1> QED
  BY <1>1, <1>2, <1>3, <1>4, <1>5, <1>6, <1>7, <1>8 DEF Local

\* Time goes on, and stops at the bound.
LEMMA TimeGoesOn ==
  ASSUME TypeOK, Step PROVE clock' \in Nat /\ clock <= clock'
<1>1. clock \in Nat
  BY Typed
<1>2. CASE \E r \in Requesters : Requester(r) \/ Approver(r) \/ People(r) \/ Fault(r)
  <2>1. clock' = clock
    BY <1>2, RequesterType, ApproverType, PeopleType, FaultType
  <2> QED
    BY <2>1, <1>1
<1>3. CASE \E n \in Names : TerminalGrants(n) \/ Ungrant(n)
  BY <1>1, <1>3 DEF TerminalGrants, Ungrant
<1>4. CASE Tick
  BY <1>1, <1>4 DEF Tick
<1> QED
  BY <1>2, <1>3, <1>4 DEF Step

\* Who is out of time stays so.
LEMMA StaysOut ==
  ASSUME TypeOK, NEW q \in Requesters, clock' \in Nat, clock <= clock', req'[q] = req[q]
  PROVE  OutOfTime(q) => OutOfTime(q)'
<1>1. req \in [Requesters -> Requests] /\ clock \in Nat
  BY Typed
<1>2. req[q].deadline + Grace \in Nat
  BY <1>1, QueueAssumption DEF Requests, QueueAssumption
<1> DEFINE d == req[q].deadline + Grace
<1>3. ASSUME clock >= d PROVE clock' >= d
  BY <1>1, <1>2, <1>3
<1>4. req'[q].deadline + Grace = d
  OBVIOUS
<1> QED
  BY <1>3, <1>4 DEF OutOfTime

\* The slack is a number of minutes.
LEMMA SlackType ==
  ASSUME NEW t \in Nat PROVE Slack(t) \in Nat
BY DEF Slack, Minute

\* What is long enough at a later time was long enough before.
LEMMA EnoughEarlier ==
  ASSUME NEW a \in Nat, NEW b \in Nat, a <= b, NEW n \in Names, NEW ttl \in Nat, NEW ext,
         grant \in [Names -> Grants], Enough(n, b, ttl, ext)
  PROVE  Enough(n, a, ttl, ext)
<1>1. grant[n].ends \in Nat /\ Slack(ttl) \in Nat
  BY SlackType DEF Grants
<1> QED
  BY <1>1 DEF Enough, LiveAt

\* A step of r leaves another's window as it was: only one with the lock
\* grants, and then no other is about to open.
LEMMA UnaskedKept ==
  ASSUME TypeOK, OneWindow, NEW q \in Requesters, UnaskedFor(q),
         req'[q] = req[q], app'[q] = app[q], clock' = clock,
         grant' = grant \/ \E r \in Requesters \ {q} : GrantNext(r)
  PROVE  UnaskedFor(q)'
<1>1. CASE grant' = grant
  BY <1>1, UnaskedSame
<1>2. CASE \E r \in Requesters \ {q} : GrantNext(r)
  <2>1. PICK r \in Requesters \ {q} : GrantNext(r)
    BY <1>2
  <2>2. lock = r
    BY <2>1 DEF GrantNext, OneWindow
  <2>3. app[q].pc # "open"
    BY <2>1, <2>2 DEF OneWindow
  <2> QED
    BY <2>3 DEF UnaskedFor
<1> QED
  BY <1>1, <1>2

\* What people outside grant does not count, and time only runs out.
LEMMA UnaskedOutside ==
  ASSUME TypeOK, NEW q \in Requesters, UnaskedFor(q),
         Tick \/ \E n \in Names : TerminalGrants(n) \/ Ungrant(n)
  PROVE  UnaskedFor(q)'
<1>t. /\ clock \in Nat /\ grant \in [Names -> Grants]
      /\ req \in [Requesters -> Requests] /\ app \in [Requesters -> Approvers]
  BY Typed
<1>s. req[q].ttl \in Nat /\ app[q].shown \subseteq Names
  BY <1>t DEF Requests, Approvers
<1>1. CASE Tick
  <2>1. UNCHANGED <<grant, req, app>> /\ clock' = clock + 1
    BY <1>1 DEF Tick
  <2>2. clock + 1 \in Nat /\ clock <= clock + 1
    BY <1>t
  <2>3. ASSUME NEW n \in app[q].shown, Enough(n, clock, req[q].ttl, req[q].extend)'
        PROVE  Enough(n, clock, req[q].ttl, req[q].extend)
    <3>1. Enough(n, clock + 1, req[q].ttl, req[q].extend)
      BY <2>1, <2>3, Zenon DEF Enough, LiveAt
    <3> QED
      BY <3>1, <2>2, <1>t, <1>s, EnoughEarlier
  <2> QED
    BY <2>1, <2>3 DEF UnaskedFor
<1>2. ASSUME NEW n \in Names, TerminalGrants(n) \/ Ungrant(n) PROVE UnaskedFor(q)'
  <2>1. UNCHANGED <<clock, req, app>>
    BY <1>2 DEF TerminalGrants, Ungrant
  <2>2. \E g \in Grants : g.by \notin Requesters /\ grant' = [grant EXCEPT ![n] = g]
    <3>1. CASE TerminalGrants(n)
      <4>1. PICK t \in TTLs : grant' = [grant EXCEPT ![n] = [ends |-> clock + t, by |-> "terminal"]]
        BY <3>1 DEF TerminalGrants
      <4>2. clock + t \in Nat /\ "terminal" \notin Requesters
        BY <1>t, QueueAssumption DEF QueueAssumption
      <4> QED
        BY <4>1, <4>2 DEF Grants
    <3>2. CASE Ungrant(n)
      <4>1. grant' = [grant EXCEPT ![n] = [ends |-> 0, by |-> None]]
        BY <3>2 DEF Ungrant
      <4>2. None \notin Requesters
        BY QueueAssumption DEF QueueAssumption
      <4> QED
        BY <4>1, <4>2 DEF Grants
    <3> QED
      BY <1>2, <3>1, <3>2
  <2>3. \A m \in Names : grant'[m] = grant[m] \/ grant'[m].by \notin Requesters
    BY <2>2, <1>t
  <2>4. ASSUME NEW m \in Names, grant'[m] = grant[m],
               Enough(m, clock, req[q].ttl, req[q].extend)'
        PROVE  Enough(m, clock, req[q].ttl, req[q].extend)
    BY <2>1, <2>4, Zenon DEF Enough, LiveAt
  <2> QED
    BY <2>1, <2>3, <2>4, <1>s DEF UnaskedFor
<1> QED
  BY <1>1, <1>2

\* The invariant holds at first.
LEMMA InvInit == Init => QueueInv
<1> SUFFICES ASSUME Init PROVE QueueInv
  OBVIOUS
<1>1. TypeOK
  BY InitType
<1>2. /\ \A r \in Requesters : /\ req[r].pc = "idle" /\ req[r].answer = None
                               /\ app[r].pc = "none" /\ app[r].given = {}
                               /\ log[r] = {}
                               /\ log[r] = {} /\ req[r].names = {}
      /\ lock = None
      /\ None \notin Requesters
      /\ None \notin {"ok", "no_grant", "request_timeout", "denied", "error"}
  BY QueueAssumption DEF Init, QueueAssumption
<1>3. OneWindow
  BY <1>2 DEF OneWindow
<1>4. ASSUME NEW r \in Requesters PROVE Local(r) /\ UnaskedFor(r)
  <2>1. IdleOK(r) /\ LoggedOK(r) /\ HeardOK(r)
    BY <1>2 DEF IdleOK, LoggedOK, HeardOK
  <2>2. GivenOK(r) /\ PickedOK(r) /\ LateOK(r)
    BY <1>2 DEF GivenOK, PickedOK, LateOK, Unanswered
  <2>3. MetOK(r) /\ LinesOK(r) /\ UnaskedFor(r)
    BY <1>2 DEF MetOK, LinesOK, UnaskedFor
  <2> QED
    BY <2>1, <2>2, <2>3 DEF Local
<1> QED
  BY <1>1, <1>3, <1>4 DEF QueueInv

\* Of an approver's steps, only GrantNext grants.
LEMMA ApproverGrants ==
  ASSUME NEW r \in Requesters, Approver(r) PROVE grant' = grant \/ GrantNext(r)
<1>1. Start(r) \/ TakeLock(r) \/ LockTimesOut(r) \/ GrantedMeanwhile(r) \/ Resolve(r) => grant' = grant
  BY DEF Start, TakeLock, LockTimesOut, GrantedMeanwhile, Resolve
<1>2. Open(r) \/ WindowTimesOut(r) \/ Granted(r) \/ Record(r) \/ Tell(r) \/ UnitExpires(r) => grant' = grant
  BY DEF Open, WindowTimesOut, Granted, Record, Tell, UnitExpires
<1> QED
  BY <1>1, <1>2 DEF Approver

\* A step of a request, its approver, its human or a fault of theirs.
LEMMA InvOne ==
  ASSUME QueueInv, Noted, NEW r \in Requesters,
         Requester(r) \/ Approver(r) \/ People(r) \/ Fault(r)
  PROVE  OneWindow' /\ \A q \in Requesters : Local(q)' /\ UnaskedFor(q)'
<1>i. /\ TypeOK /\ OneWindow
      /\ \A q \in Requesters : Local(q) /\ UnaskedFor(q)
  BY DEF QueueInv
<1>1. /\ OthersAlone(r) /\ (app'[r].pc \in InWindow <=> lock' = r)
      /\ Local(r)' /\ UnaskedFor(r)'
  <2>1. Local(r) /\ UnaskedFor(r)
    BY <1>i
  <2> QED
    BY <1>i, <2>1, RequesterKeeps, ApproverKeeps, PeopleKeep, FaultKeeps
<1>2. OneWindow'
  BY <1>i, <1>1, OneWindowKept
<1>3. clock' = clock
  BY <1>i, RequesterType, ApproverType, PeopleType, FaultType
<1>4. grant' = grant \/ GrantNext(r)
  BY <1>i, ApproverGrants, RequesterType, PeopleType, FaultType
<1>5. ASSUME NEW q \in Requesters \ {r} PROVE Local(q)' /\ UnaskedFor(q)'
  <2>1. req'[q] = req[q] /\ app'[q] = app[q] /\ log'[q] = log[q]
    BY <1>1 DEF OthersAlone
  <2>2. clock \in Nat
    BY <1>i, Typed
  <2>3. clock' \in Nat /\ clock <= clock'
    BY <1>3, <2>2
  <2>4. OutOfTime(q) => OutOfTime(q)'
    BY <1>i, <2>1, <2>3, StaysOut
  <2>5. Local(q)'
    BY <1>i, <2>1, <2>4, LocalKept
  <2>6. UnaskedFor(q)'
    BY <1>i, <2>1, <1>3, <1>4, UnaskedKept
  <2> QED
    BY <2>5, <2>6
<1> QED
  BY <1>1, <1>2, <1>5

\* A step of people outside, or of time.
LEMMA InvOutside ==
  ASSUME QueueInv, Noted, Tick \/ \E n \in Names : TerminalGrants(n) \/ Ungrant(n)
  PROVE  OneWindow' /\ \A q \in Requesters : Local(q)' /\ UnaskedFor(q)'
<1>i. /\ TypeOK /\ OneWindow
      /\ \A q \in Requesters : Local(q) /\ UnaskedFor(q)
  BY DEF QueueInv
<1>1. req' = req /\ app' = app /\ log' = log /\ lock' = lock
  BY DEF Tick, TerminalGrants, Ungrant
<1>2. OneWindow'
  BY <1>i, <1>1 DEF OneWindow
<1>3. clock' \in Nat /\ clock <= clock'
  BY <1>i, TimeGoesOn DEF Step
<1>4. ASSUME NEW q \in Requesters PROVE Local(q)' /\ UnaskedFor(q)'
  <2>1. req'[q] = req[q] /\ app'[q] = app[q] /\ log'[q] = log[q]
    BY <1>1
  <2>2. OutOfTime(q) => OutOfTime(q)'
    BY <1>i, <1>3, <2>1, StaysOut
  <2>3. Local(q)'
    BY <1>i, <2>1, <2>2, LocalKept
  <2>4. UnaskedFor(q)'
    BY <1>i, UnaskedOutside
  <2> QED
    BY <2>3, <2>4
<1> QED
  BY <1>2, <1>4

\* Nothing is said of a state that a stutter would change.
LEMMA InvStutter ==
  ASSUME QueueInv, UNCHANGED vars PROVE QueueInv'
<1>1. /\ clock' = clock /\ grant' = grant /\ req' = req /\ app' = app /\ lock' = lock
      /\ log' = log /\ events' = events /\ met' = met
  BY DEF vars, state
<1>2. TypeOK'
  BY StepType DEF QueueInv
<1>3. OneWindow'
  BY <1>1 DEF QueueInv, OneWindow
<1>4. ASSUME NEW q \in Requesters PROVE Local(q)' /\ UnaskedFor(q)'
  <2>1. Local(q) /\ UnaskedFor(q)
    BY DEF QueueInv
  <2>2. OutOfTime(q)' <=> OutOfTime(q)
    BY <1>1, Zenon DEF OutOfTime
  <2>3. /\ IdleOK(q)' /\ LoggedOK(q)' /\ HeardOK(q)' /\ LinesOK(q)'
        /\ GivenOK(q)' /\ PickedOK(q)' /\ MetOK(q)'
    BY <1>1, <2>1 DEF Local, IdleOK, LoggedOK, HeardOK, LinesOK, GivenOK, PickedOK, MetOK
  <2>4. LateOK(q)'
    BY <1>1, <2>1, <2>2 DEF Local, LateOK, Unanswered
  <2>5. UnaskedFor(q)'
    BY <1>1, <2>1, UnaskedSame
  <2> QED
    BY <2>3, <2>4, <2>5 DEF Local
<1> QED
  BY <1>2, <1>3, <1>4 DEF QueueInv

\* The invariant is inductive.
LEMMA InvStep == QueueInv /\ [Next]_vars => QueueInv'
<1> SUFFICES ASSUME QueueInv, [Next]_vars PROVE QueueInv'
  OBVIOUS
<1>1. CASE Next
  <2>1. Step /\ Noted
    BY <1>1 DEF Next
  <2>2. TypeOK'
    BY StepType DEF QueueInv
  <2>3. OneWindow' /\ \A q \in Requesters : Local(q)' /\ UnaskedFor(q)'
    <3>1. CASE \E r \in Requesters : Requester(r) \/ Approver(r) \/ People(r) \/ Fault(r)
      BY <2>1, <3>1, InvOne
    <3>2. CASE Tick \/ \E n \in Names : TerminalGrants(n) \/ Ungrant(n)
      BY <2>1, <3>2, InvOutside
    <3> QED
      BY <2>1, <3>1, <3>2 DEF Step
  <2> QED
    BY <2>2, <2>3 DEF QueueInv
<1>2. CASE UNCHANGED vars
  BY <1>2, InvStutter
<1> QED
  BY <1>1, <1>2

LEMMA Invariant == Spec => []QueueInv
<1>1. Init => QueueInv
  BY InvInit
<1>2. QueueInv /\ [Next]_vars => QueueInv'
  BY InvStep
<1> QED
  BY <1>1, <1>2, PTL DEF Spec

-----------------------------------------------------------------------------
(* What it is for.                                                         *)

\* One window at a time, whoever is killed or times out (lockRequests).
THEOREM OneWindowHolds == Spec => []OneWindow
<1>1. QueueInv => OneWindow
  BY DEF QueueInv
<1> QED
  BY <1>1, Invariant, PTL

\* What a request was told is in the audit log, unless that line could not
\* be written; and what the log says of its window is so, whoever was there
\* to be told.
THEOREM HeardIsLoggedHolds == Spec => []HeardIsLogged
<1>1. QueueInv => HeardIsLogged
  <2>1. ASSUME QueueInv, NEW r \in Requesters PROVE HeardOK(r) /\ LinesOK(r)
    BY <2>1 DEF QueueInv, Local
  <2> QED
    BY <2>1 DEF HeardIsLogged, HeardOK, LinesOK
<1> QED
  BY <1>1, Invariant, PTL

\* Who is told there was no answer was given nothing, unless its approver
\* was killed or ran past the grace period.
THEOREM NoAnswerIsTrueHolds == Spec => []NoAnswerIsTrue
<1>1. QueueInv => NoAnswerIsTrue
  <2>1. ASSUME QueueInv, NEW r \in Requesters PROVE LateOK(r)
    BY <2>1 DEF QueueInv, Local
  <2> QED
    BY <2>1 DEF NoAnswerIsTrue, LateOK, Unanswered
<1> QED
  BY <1>1, Invariant, PTL

\* Who is told its names are granted has had a good grant of each.
THEOREM OkIsTrueHolds == Spec => []OkIsTrue
<1>1. QueueInv => OkIsTrue
  <2>1. ASSUME QueueInv, NEW r \in Requesters PROVE MetOK(r)
    BY <2>1 DEF QueueInv, Local
  <2> QED
    BY <2>1 DEF OkIsTrue, MetOK
<1> QED
  BY <1>1, Invariant, PTL

\* No window opens on a name another request has just been granted.
THEOREM NotAskedAgainHolds == Spec => NotAskedAgain
<1> DEFINE A == \A r \in Requesters :
                  app[r].pc = "open" /\ app'[r].pc = "window" =>
                    \A n \in app[r].shown :
                      ~(grant[n].by \in Requesters
                        /\ Enough(n, clock, req[r].ttl, req[r].extend))
<1>1. QueueInv => A
  <2>1. ASSUME QueueInv, NEW r \in Requesters PROVE UnaskedFor(r)
    BY <2>1 DEF QueueInv
  <2> QED
    BY <2>1 DEF UnaskedFor
<1>2. QueueInv /\ [Next]_vars => [A]_vars
  BY <1>1
<1> QED
  BY <1>2, Invariant, PTL DEF Spec, NotAskedAgain

=============================================================================
