---------------------------- MODULE RequestQueue ----------------------------
(***************************************************************************)
(* Requests that meet: broker request and broker exec --request each look  *)
(* for the names that have no grant, launch an approver for those, and     *)
(* wait for its answer.  The approvers of all of them take turns on one    *)
(* lock file (cmd/request.go lockRequests), look again at what is still    *)
(* missing, and only then open a window.  What happens in the window is    *)
(* module Approval; here it is approved, denied, failed or timed out.      *)
(*                                                                         *)
(* A requester and its approver are two processes and share a name here.   *)
(* The requester may be killed, which leaves its approver, and so may the  *)
(* approver, which frees the lock.  Time is counted in minutes: what the   *)
(* code does after a moment it may do at that moment of the clock.  A      *)
(* secret's grant is the time it ends and who made it; when the vault      *)
(* changes under it, it is not live either (cmd/grant.go lookupGrant).     *)
(***************************************************************************)
EXTENDS Integers, FiniteSets

CONSTANTS Requesters, \* requests, each with the approver it launches
          InUnits,    \* those whose PATH has systemd-run
          Names,      \* private secrets
          TTLs,       \* grant durations
          Wants,      \* what each may ask for: names, ttl, extend
          Timeout,    \* how long a request waits for the human
          Grace,      \* how long past its deadline it waits for its approver
          MaxClock,   \* bound: where the clock stops
          MaxEvents,  \* bound: faults, and grants and revokes outside the queue
          None        \* no holder, no answer, no granter

ASSUME QueueAssumption ==
  /\ None \notin Requesters /\ "terminal" \notin Requesters
  /\ None \notin {"ok", "no_grant", "request_timeout", "denied", "error", "unwritten"}
  /\ InUnits \subseteq Requesters
  /\ TTLs \subseteq Nat \ {0}
  /\ Wants \in [Requesters ->
       SUBSET [names : (SUBSET Names) \ {{}}, ttl : TTLs, extend : BOOLEAN]]
  /\ Timeout \in Nat /\ Grace \in Nat /\ MaxClock \in Nat /\ MaxEvents \in Nat

Answers == {"ok", "no_grant", "request_timeout", "denied", "error", None}

\* What the audit log may have about a request; "unwritten" is a line the
\* log was to have and does not, as writing it failed.
Lines == Answers \cup {"unwritten"}

VARIABLES clock,
          grant,   \* each name's grant: when it ends, and who made it
          req,     \* each requester
          app,     \* each approver
          lock,    \* the approver that holds the request lock
          log,     \* the audit log's lines about each request
          events,  \* how many faults and changes from outside there were
          met      \* history: names a request has had a good grant of

state == <<clock, grant, req, app, lock, log, events>>
vars == <<state, met>>

Minute == 1

\* extendUntil: a grant that has all but a tenth of what is asked for, or
\* all but a minute, is left as it is.
Slack(ttl) == IF ttl \div 10 > Minute THEN ttl \div 10 ELSE Minute

LiveAt(n, now) == grant[n].ends > now

\* What ungranted leaves out: live, and when extending, for long enough.
Enough(n, now, ttl, extend) ==
  /\ LiveAt(n, now)
  /\ extend => grant[n].ends >= now + ttl - Slack(ttl)

Ungranted(names, ttl, extend) == {n \in names : ~Enough(n, clock, ttl, extend)}

Happens == events < MaxEvents /\ events' = events + 1

Init ==
  /\ clock = 0
  /\ grant = [n \in Names |-> [ends |-> 0, by |-> None]]
  /\ req = [r \in Requesters |->
       [pc |-> "idle", names |-> {}, ttl |-> 0, extend |-> FALSE,
        deadline |-> 0, answer |-> None]]
  /\ app = [r \in Requesters |->
       [pc |-> "none", missing |-> {}, shown |-> {}, given |-> {},
        picked |-> 0, result |-> None]]
  /\ lock = None
  /\ log = [r \in Requesters |-> {}]
  /\ events = 0
  /\ met = [r \in Requesters |-> {}]

-----------------------------------------------------------------------------
(* The requester.                                                          *)

\* record: when the line cannot be written, a warning, and on it goes.
Appends(r, line) ==
  \/ log' = [log EXCEPT ![r] = @ \cup {line}] /\ UNCHANGED events
  \/ Happens /\ log' = [log EXCEPT ![r] = @ \cup {"unwritten"}]

Asked(r, want) ==
  [req[r] EXCEPT !.names = want.names, !.ttl = want.ttl, !.extend = want.extend]

MissingNow(want) == Ungranted(want.names, want.ttl, want.extend)

\* Nothing is missing: there is nobody to ask, and nothing to log.
NothingMissing(r) ==
  /\ req[r].pc = "idle"
  /\ \E want \in Wants[r] :
       /\ MissingNow(want) = {}
       /\ req' = [req EXCEPT ![r] = [Asked(r, want) EXCEPT
                                       !.pc = "done", !.answer = "ok"]]
  /\ UNCHANGED <<clock, grant, app, lock, log, events>>

\* requestWindow: no desktop and no phone.
NoScreen(r) ==
  /\ Happens /\ req[r].pc = "idle"
  /\ \E want \in Wants[r] :
       /\ MissingNow(want) # {}
       /\ req' = [req EXCEPT ![r] = [Asked(r, want) EXCEPT
                                       !.pc = "done", !.answer = "no_grant"]]
  /\ \E line \in {"no_grant", "unwritten"} : log' = [log EXCEPT ![r] = @ \cup {line}]
  /\ UNCHANGED <<clock, grant, app, lock>>

\* launchApprover: a unit of the user's service manager where there is one,
\* else a process in a session of its own.
Launch(r) ==
  /\ req[r].pc = "idle"
  /\ clock + Timeout + Grace <= MaxClock
  /\ \E want \in Wants[r] :
       /\ MissingNow(want) # {}
       /\ req' = [req EXCEPT ![r] = [Asked(r, want) EXCEPT
                                       !.pc = "wait", !.deadline = clock + Timeout]]
       /\ app' = [app EXCEPT ![r] = [@ EXCEPT !.pc = "start",
                                               !.missing = MissingNow(want)]]
  /\ UNCHANGED <<clock, grant, lock, log, events>>

Answered(r, answer) ==
  req' = [req EXCEPT ![r].pc = "done", ![r].answer = answer]

\* The approver's result is on its stdout.
Hear(r) ==
  /\ req[r].pc = "wait" /\ app[r].pc = "done"
  /\ Answered(r, app[r].result)
  /\ UNCHANGED <<clock, grant, app, lock, log, events>>

OutOfTime(r) == clock >= req[r].deadline + Grace

\* The approver is dead and printed nothing: noWindow, unless the context
\* has expired, which at its very moment it may or may not have.
HearNothing(r) ==
  /\ req[r].pc = "wait" /\ app[r].pc = "dead"
  /\ \/ OutOfTime(r) /\ Answered(r, "request_timeout") /\ UNCHANGED <<log, events>>
     \/ /\ clock <= req[r].deadline + Grace
        /\ Answered(r, "no_grant")
        /\ Appends(r, "no_grant")
  /\ UNCHANGED <<clock, grant, app, lock>>

\* What an approver knew is gone with it; what it granted and printed is not.
Exits(r, pc) ==
  app' = [app EXCEPT ![r] = [@ EXCEPT !.pc = pc, !.missing = {},
                                      !.shown = {}, !.picked = 0]]

\* Killed, and the lock is free when it was the one that had it.
Dies(r) ==
  /\ Exits(r, "dead")
  /\ lock' = IF lock = r THEN None ELSE lock

\* The context expires: what it launched is killed, the approver itself or
\* the systemd-run that waits for it.  With a unit the answer may come
\* later than here, as cmd.Run waits for the pipe: then it is Hear's or
\* HearNothing's, and this only allows more.
GiveUp(r) ==
  /\ req[r].pc = "wait" /\ OutOfTime(r) /\ app[r].pc \notin {"done", "dead"}
  /\ Answered(r, "request_timeout")
  /\ IF r \in InUnits THEN UNCHANGED <<app, lock>> ELSE Dies(r)
  /\ UNCHANGED <<clock, grant, log, events>>

\* RuntimeMaxSec.
UnitExpires(r) ==
  /\ r \in InUnits /\ app[r].pc \notin {"none", "done", "dead"} /\ OutOfTime(r)
  /\ Dies(r)
  /\ UNCHANGED <<clock, grant, req, log, events>>

-----------------------------------------------------------------------------
(* The approver.                                                           *)

BugPrintFirst(r) == "print"

\* newApproveCmd logs what approve returned before it prints it.
AfterApprove(r) == "record"

\* approve returns: its window is gone and the lock with it.
Return(r, result) ==
  /\ app' = [app EXCEPT ![r].pc = AfterApprove(r), ![r].result = result]
  /\ lock' = IF lock = r THEN None ELSE lock

\* requester: a request whose process is gone is not shown, nor logged.  One
\* that gave up is on its way out and may be there still.
Start(r) ==
  /\ app[r].pc = "start"
  /\ \/ /\ req[r].pc \in {"done", "killed"}
        /\ app' = [app EXCEPT ![r].pc = "print", ![r].result = "error"]
     \/ /\ req[r].pc # "killed"
        /\ app' = [app EXCEPT ![r].pc = "queue"]
  /\ UNCHANGED <<clock, grant, req, lock, log, events>>

BugNoLock(r) == TRUE

\* flock: free again once its holder let go of it or died.
LockIsFree(r) == lock = None

\* The lock is tried before the deadline is looked at.
TakeLock(r) ==
  /\ app[r].pc = "queue" /\ LockIsFree(r)
  /\ lock' = r
  /\ app' = [app EXCEPT ![r].pc = "resolve"]
  /\ UNCHANGED <<clock, grant, req, log, events>>

LockTimesOut(r) ==
  /\ app[r].pc = "queue" /\ ~LockIsFree(r) /\ clock >= req[r].deadline
  /\ Return(r, "request_timeout")
  /\ UNCHANGED <<clock, grant, req, log, events>>

BugFirstLook(r) == app[r].missing
BugNoExtend(r) == Ungranted(app[r].missing, req[r].ttl, FALSE)

\* The names to show: what is missing now, not when the request was made.
StillMissing(r) == Ungranted(app[r].missing, req[r].ttl, req[r].extend)

GrantedMeanwhile(r) ==
  /\ app[r].pc = "resolve" /\ StillMissing(r) = {}
  /\ Return(r, "ok")
  /\ UNCHANGED <<clock, grant, req, log, events>>

Resolve(r) ==
  /\ app[r].pc = "resolve" /\ StillMissing(r) # {}
  /\ app' = [app EXCEPT ![r].pc = "open", ![r].shown = StillMissing(r)]
  /\ UNCHANGED <<clock, grant, req, lock, log, events>>

\* The page, the dialog and the session.
Open(r) ==
  /\ app[r].pc = "open"
  /\ app' = [app EXCEPT ![r].pc = "window"]
  /\ UNCHANGED <<clock, grant, req, lock, log, events>>

\* The desktop went away since, or the dialog does not start.
OpenFails(r) ==
  /\ Happens /\ app[r].pc = "open"
  /\ Return(r, "error")
  /\ UNCHANGED <<clock, grant, req, log>>

\* The vault is unlocked; the duration is the one asked for or less.
Approved(r) ==
  /\ app[r].pc = "window"
  /\ \E picked \in {t \in TTLs : t <= req[r].ttl} :
       app' = [app EXCEPT ![r].pc = "grant", ![r].picked = picked]
  /\ UNCHANGED <<clock, grant, req, lock, log, events>>

Denied(r) ==
  /\ app[r].pc = "window"
  /\ Return(r, "denied")
  /\ UNCHANGED <<clock, grant, req, log, events>>

\* The last attempt to unlock.
UnlockFails(r) ==
  /\ app[r].pc = "window"
  /\ Return(r, "error")
  /\ UNCHANGED <<clock, grant, req, log, events>>

BugAnytime(r) == app[r].pc \in {"window", "grant"}
BugNoDeadline(r) == FALSE

\* The deadline ends the session, not the grants it has been approved for.
DeadlineEnds(r) == app[r].pc = "window"

WindowTimesOut(r) ==
  /\ DeadlineEnds(r) /\ clock >= req[r].deadline
  /\ Return(r, "request_timeout")
  /\ UNCHANGED <<clock, grant, req, log, events>>

ToGrant(r) == app[r].shown \ app[r].given

GrantNext(r) ==
  /\ app[r].pc = "grant"
  /\ \E n \in ToGrant(r) :
       /\ grant' = [grant EXCEPT ![n] = [ends |-> clock + app[r].picked, by |-> r]]
       /\ app' = [app EXCEPT ![r].given = @ \cup {n}]
  /\ UNCHANGED <<clock, req, lock, log, events>>

\* The ones granted before it stay granted.
GrantFails(r) ==
  /\ Happens /\ app[r].pc = "grant" /\ ToGrant(r) # {}
  /\ Return(r, "error")
  /\ UNCHANGED <<clock, grant, req, log>>

Granted(r) ==
  /\ app[r].pc = "grant" /\ ToGrant(r) = {}
  /\ Return(r, "ok")
  /\ UNCHANGED <<clock, grant, req, log, events>>

Record(r) ==
  /\ app[r].pc = "record"
  /\ app' = [app EXCEPT ![r].pc = "print"]
  /\ Appends(r, app[r].result)
  /\ UNCHANGED <<clock, grant, req, lock>>

Tell(r) ==
  /\ app[r].pc = "print"
  /\ Exits(r, "done")
  /\ UNCHANGED <<clock, grant, req, lock, log, events>>

-----------------------------------------------------------------------------
(* Faults, the human elsewhere, and time.                                  *)

KillRequester(r) ==
  /\ Happens /\ req[r].pc = "wait"
  /\ req' = [req EXCEPT ![r].pc = "killed"]
  /\ UNCHANGED <<clock, grant, app, lock, log>>

CrashApprover(r) ==
  /\ Happens /\ app[r].pc \notin {"none", "done", "dead"}
  /\ Dies(r)
  /\ UNCHANGED <<clock, grant, req, log>>

\* broker grant at a terminal, which takes no lock.
TerminalGrants(n) ==
  /\ Happens
  /\ \E t \in TTLs : grant' = [grant EXCEPT ![n] = [ends |-> clock + t, by |-> "terminal"]]
  /\ UNCHANGED <<clock, req, app, lock, log>>

\* broker revoke, or a new value in the vault.
Ungrant(n) ==
  /\ Happens
  /\ grant' = [grant EXCEPT ![n] = [ends |-> 0, by |-> None]]
  /\ UNCHANGED <<clock, req, app, lock, log>>

Tick ==
  /\ clock < MaxClock
  /\ clock' = clock + 1
  /\ UNCHANGED <<grant, req, app, lock, log, events>>

Requester(r) == Hear(r) \/ HearNothing(r) \/ GiveUp(r)

Approver(r) ==
  \/ Start(r) \/ TakeLock(r) \/ LockTimesOut(r) \/ GrantedMeanwhile(r)
  \/ Resolve(r) \/ Open(r) \/ WindowTimesOut(r) \/ GrantNext(r) \/ Granted(r)
  \/ Record(r) \/ Tell(r) \/ UnitExpires(r)

People(r) == NothingMissing(r) \/ Launch(r) \/ Approved(r) \/ Denied(r)

Fault(r) ==
  \/ NoScreen(r) \/ OpenFails(r) \/ UnlockFails(r) \/ GrantFails(r)
  \/ KillRequester(r) \/ CrashApprover(r)

\* A grant that is live, and either for long enough or this request's own.
Meets(r) ==
  {n \in req[r].names :
     /\ LiveAt(n, clock)
     /\ grant[n].by = r \/ Enough(n, clock, req[r].ttl, req[r].extend)}

\* Someone still works on the request: who made it, or its approver.
UnderWay(r) == req[r].pc \in {"idle", "wait"} \/ app[r].pc \notin {"none", "done", "dead"}

Noted ==
  met' = [r \in Requesters |->
            IF UnderWay(r) THEN met[r] \cup Meets(r)' ELSE met[r]]

Step ==
  \/ \E r \in Requesters : Requester(r) \/ Approver(r) \/ People(r) \/ Fault(r)
  \/ \E n \in Names : TerminalGrants(n) \/ Ungrant(n)
  \/ Tick

Next == Step /\ Noted

Spec == Init /\ [][Next]_vars

\* The clock goes on, and as long as some process can run, one does; people
\* answer or do not.  An approver left to itself ends by its own timeouts.
FairSpec ==
  /\ Spec
  /\ WF_vars(Tick /\ Noted)
  /\ WF_vars((\E r \in Requesters : Requester(r) \/ Approver(r)) /\ Noted)

-----------------------------------------------------------------------------

TypeOK ==
  /\ clock \in 0..MaxClock /\ events \in 0..MaxEvents
  /\ grant \in [Names -> [ends : Nat, by : Requesters \cup {"terminal", None}]]
  /\ req \in [Requesters ->
       [pc : {"idle", "wait", "done", "killed"}, names : SUBSET Names,
        ttl : Nat, extend : BOOLEAN, deadline : Nat, answer : Answers]]
  /\ app \in [Requesters ->
       [pc : {"none", "start", "queue", "resolve", "open", "window", "grant",
              "record", "print", "done", "dead"},
        missing : SUBSET Names, shown : SUBSET Names,
        given : SUBSET Names, picked : Nat, result : Answers]]
  /\ lock \in Requesters \cup {None}
  /\ log \in [Requesters -> SUBSET Lines]
  /\ met \in [Requesters -> SUBSET Names]

\* One window at a time, whoever is killed: an approver past the queue has
\* the lock, and the lock never stays with one that is gone
\* (cmd/request.go approve, lockRequests).
OneWindow ==
  \A r \in Requesters :
    app[r].pc \in {"resolve", "open", "window", "grant"} <=> lock = r

\* Nobody is asked again for what another request has just been granted: a
\* window never opens on a name whose grant, made by another request, is
\* live and lasts as long as this one needs (approve's second ungranted).
NotAskedAgain ==
  [][\A r \in Requesters :
       app[r].pc = "open" /\ app'[r].pc = "window" =>
         \A n \in app[r].shown : ~(grant[n].by \in Requesters /\ Enough(n, clock, req[r].ttl, req[r].extend))]_vars

\* A request that is told its names are granted has had a live grant of
\* each since it was made, from its own window, another's or a terminal:
\* long enough when it asked to extend, unless the human picked less in its
\* own window.  It may have ended since.
OkIsTrue ==
  \A r \in Requesters : req[r].answer = "ok" => req[r].names \subseteq met[r]

\* A request is told nobody answered, or that there was no window to ask
\* in, only when its window granted nothing, unless its approver was killed
\* or ran past the grace period.
NoAnswerIsTrue ==
  \A r \in Requesters :
    req[r].answer \in {"request_timeout", "no_grant", "denied"} /\ app[r].given # {} =>
      app[r].pc = "dead" \/ OutOfTime(r)

\* The audit log tells what the request was told, and the truth.  A denial,
\* an ok of its approver's and a refusal for want of a window are written
\* by the time they are heard, unless the very line could not be (the log
\* is best effort, cmd/audit.go record).  And whoever was killed since and
\* whether or not anyone was left to hear it: a request the log has as
\* denied or timed out was granted nothing in its window, and one it has as
\* ok was for names that have each had a good grant since it was made.
HeardIsLogged ==
  \A r \in Requesters :
    /\ req[r].answer \in {"denied", "no_grant"} \/ (req[r].answer = "ok" /\ app[r].pc # "none") =>
         {req[r].answer, "unwritten"} \cap log[r] # {}
    /\ {"denied", "request_timeout"} \cap log[r] # {} => app[r].given = {}
    /\ "ok" \in log[r] => req[r].names \subseteq met[r]

\* Every request gets an answer, and every approver ends and frees the lock,
\* also one nobody waits for any more, whether or not a human comes: sooner
\* or later it is quiet.
EveryoneEnds ==
  []<>(\A r \in Requesters : req[r].pc # "wait" /\ app[r].pc \in {"none", "done", "dead"})
=============================================================================
