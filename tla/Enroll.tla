-------------------------------- MODULE Enroll --------------------------------
(***************************************************************************)
(* Enrolling a phone: the command on the PC (cmd/phone.go enrollPhone),    *)
(* the server it opens for one link (phone/server.go StartEnroll and its   *)
(* handlers), and whoever has opened the link: pages (assets/app.js        *)
(* enroll) and the Android app (BrokerModel.enroll).  The phone's half     *)
(* comes first; then the PC unlocks the vault and adds the phone's key,    *)
(* and the phone asks how that went.                                       *)
(***************************************************************************)
EXTENDS Naturals, FiniteSets

CONSTANTS Pages,          \* phones that open the link in a browser
          Apps,           \* phones whose app scans it
          UnlockAttempts, \* as in cmd/request.go
          MaxTries,       \* bound: times a phone's key is asked
          MaxFaults,      \* bound: calls lost, writes failed, kills
          None

Phones == Pages \cup Apps

ASSUME EnrollAssumption ==
  /\ UnlockAttempts \in Nat \ {0} /\ MaxTries \in Nat /\ MaxFaults \in Nat
  /\ Pages \cap Apps = {} /\ None \notin Phones

VARIABLES cmd,    \* the command: where it is, and the enrollment it got
          srv,    \* the server
          vault,  \* the phone and key the vault has been wrapped to
          phone,  \* each phone: its screen, its call and its key
          used    \* how much of the bounds is used

vars == <<cmd, srv, vault, phone, used>>

\* got is the enrollment: whose it is and the key's identity.
Init ==
  /\ cmd = [pc |-> "wait", got |-> None, attempts |-> 0, failed |-> FALSE]
  /\ srv = [st |-> "open", done |-> None, phone |-> None, finished |-> FALSE,
            told |-> FALSE, polled |-> FALSE, expired |-> FALSE]
  /\ vault = None
  /\ phone = [p \in Phones |-> [step |-> "start", call |-> "none", opts |-> FALSE, key |-> 0]]
  /\ used = [tries |-> 0, faults |-> 0]

Fault == used.faults < MaxFaults /\ used' = [used EXCEPT !.faults = @ + 1]

-----------------------------------------------------------------------------
(* The command.                                                            *)

TakesEnrollment ==
  /\ cmd.pc = "wait" /\ srv.done # None
  /\ cmd' = [cmd EXCEPT !.pc = "unlock", !.got = srv.done]
  /\ srv' = [srv EXCEPT !.done = None]
  /\ UNCHANGED <<vault, phone, used>>

\* enrollTimeout or Ctrl-C: nothing is finished, the server just closes.
GivesUp ==
  /\ cmd.pc = "wait"
  /\ cmd' = [cmd EXCEPT !.pc = "close", !.failed = TRUE]
  /\ UNCHANGED <<srv, vault, phone, used>>

\* Enter, then the key or passphrase of this machine.
Unlocks ==
  /\ cmd.pc = "unlock"
  /\ cmd' = [cmd EXCEPT !.pc = "write"]
  /\ UNCHANGED <<srv, vault, phone, used>>

UnlockFails ==
  /\ cmd.pc = "unlock"
  /\ cmd' = IF cmd.attempts + 1 = UnlockAttempts
            THEN [cmd EXCEPT !.pc = "finish", !.failed = TRUE]
            ELSE [cmd EXCEPT !.attempts = @ + 1]
  /\ UNCHANGED <<srv, vault, phone, used>>

\* Ctrl-C at the prompt for Enter.
Stops ==
  /\ cmd.pc = "unlock"
  /\ cmd' = [cmd EXCEPT !.pc = "finish", !.failed = TRUE]
  /\ UNCHANGED <<srv, vault, phone, used>>

\* SetUnlocks; its own writes are in module Vault.
Writes ==
  /\ cmd.pc = "write"
  /\ vault' = cmd.got /\ cmd' = [cmd EXCEPT !.pc = "verify"]
  /\ UNCHANGED <<srv, phone, used>>

WriteFails ==
  /\ cmd.pc = "write" /\ Fault
  /\ cmd' = [cmd EXCEPT !.pc = "finish", !.failed = TRUE]
  /\ UNCHANGED <<srv, vault, phone>>

\* UnlockWith, and the test notification.
Verifies ==
  /\ cmd.pc = "verify"
  /\ cmd' = [cmd EXCEPT !.pc = "finish"]
  /\ UNCHANGED <<srv, vault, phone, used>>

\* The vault does not open; it lists the phone all the same.
VerifyFails ==
  /\ cmd.pc = "verify" /\ Fault
  /\ cmd' = [cmd EXCEPT !.pc = "finish", !.failed = TRUE]
  /\ UNCHANGED <<srv, vault, phone>>

Finish ==
  /\ cmd.pc = "finish"
  /\ cmd' = [cmd EXCEPT !.pc = "close"]
  /\ srv' = [srv EXCEPT !.finished = TRUE]
  /\ UNCHANGED <<vault, phone, used>>

\* Close: whether anyone has asked is looked at once.
Close ==
  /\ cmd.pc = "close"
  /\ cmd' = [cmd EXCEPT !.pc = IF srv.polled THEN "drain" ELSE "shutdown"]
  /\ UNCHANGED <<srv, vault, phone, used>>

BugAsked == srv.polled

Caught == srv.finished => srv.told

Drained ==
  /\ cmd.pc = "drain" /\ Caught
  /\ cmd' = [cmd EXCEPT !.pc = "shutdown"]
  /\ UNCHANGED <<srv, vault, phone, used>>

\* drainWait.
DrainExpires ==
  /\ cmd.pc = "drain" /\ ~Caught
  /\ cmd' = [cmd EXCEPT !.pc = "shutdown"]
  /\ srv' = [srv EXCEPT !.expired = TRUE]
  /\ UNCHANGED <<vault, phone, used>>

\* No new calls.
Shutdown ==
  /\ cmd.pc = "shutdown" /\ srv.st = "open"
  /\ srv' = [srv EXCEPT !.st = "shutdown"]
  /\ UNCHANGED <<cmd, vault, phone, used>>

\* A handler with its answer at hand gets it out in the second it is given.
Down ==
  /\ cmd.pc = "shutdown" /\ srv.st = "shutdown"
  /\ srv.finished => \A p \in Phones : phone[p].call # "waiting"
  /\ srv' = [srv EXCEPT !.st = "down"] /\ cmd' = [cmd EXCEPT !.pc = "ended"]
  /\ UNCHANGED <<vault, phone, used>>

Killed ==
  /\ cmd.pc # "ended" /\ Fault
  /\ srv' = [srv EXCEPT !.st = "down"] /\ cmd' = [cmd EXCEPT !.pc = "ended", !.failed = TRUE]
  /\ UNCHANGED <<vault, phone>>

-----------------------------------------------------------------------------
(* A phone's calls.  call is where the call it waits for is: "checked" is  *)
(* a post whose token was good and whose body is being read, "posted" and  *)
(* the two results are answers on their way.                               *)

Set(p, w) == phone' = [phone EXCEPT ![p] = w]

BugAsksAgain(p) ==
  [phone[p] EXCEPT !.call = IF phone[p].step = "pc" THEN "result" ELSE "none",
                   !.step = IF @ = "pc" THEN "pc" ELSE IF p \in Apps THEN "failed" ELSE "start"]

\* A page shows its error and lets one try again; the app has to scan again.
Failed(p) == IF phone[p].step = "pc" \/ p \in Apps
             THEN [phone[p] EXCEPT !.step = "failed", !.call = "none"]
             ELSE [phone[p] EXCEPT !.step = "start", !.call = "none"]

\* Use security key, or the link scanned; the page keeps its options.
UseKey(p) ==
  /\ phone[p].step = "start" /\ used.tries < MaxTries
  /\ used' = [used EXCEPT !.tries = @ + 1]
  /\ Set(p, [phone[p] EXCEPT !.step = "key", !.call = IF phone[p].opts THEN "none" ELSE "options"])
  /\ UNCHANGED <<cmd, srv, vault>>

LinkIsGood == srv.phone = None

Options(p) ==
  /\ phone[p].call = "options" /\ srv.st = "open"
  /\ Set(p, IF LinkIsGood THEN [phone[p] EXCEPT !.call = "none", !.opts = TRUE] ELSE Failed(p))
  /\ UNCHANGED <<cmd, srv, vault, used>>

\* A new credential, and what its PRF derives.
KeyAnswers(p) ==
  /\ phone[p].step = "key" /\ phone[p].call = "none"
  /\ Set(p, [phone[p] EXCEPT !.key = used.tries,
                             !.step = IF p \in Apps THEN "sending" ELSE "push",
                             !.call = IF p \in Apps THEN "post" ELSE "none"])
  /\ UNCHANGED <<cmd, srv, vault, used>>

KeyFails(p) ==
  /\ phone[p].step = "key" /\ phone[p].call = "none"
  /\ Set(p, Failed(p))
  /\ UNCHANGED <<cmd, srv, vault, used>>

\* Notifications allowed, refused or skipped.
Send(p) ==
  /\ phone[p].step = "push"
  /\ Set(p, [phone[p] EXCEPT !.step = "sending", !.call = "post"])
  /\ UNCHANGED <<cmd, srv, vault, used>>

\* The link opened or scanned anew.
Again(p) ==
  /\ phone[p].step = "failed"
  /\ Set(p, [phone[p] EXCEPT !.step = "start", !.opts = FALSE])
  /\ UNCHANGED <<cmd, srv, vault, used>>

PostArrives(p) ==
  /\ phone[p].call = "post" /\ srv.st = "open"
  /\ Set(p, IF LinkIsGood THEN [phone[p] EXCEPT !.call = "checked"] ELSE Failed(p))
  /\ UNCHANGED <<cmd, srv, vault, used>>

BugCheckedIsGood(p) ==
  /\ phone[p].call = "checked" /\ srv.st # "down"
  /\ Set(p, [phone[p] EXCEPT !.call = "posted"])
  /\ srv' = [srv EXCEPT !.phone = p, !.done = [phone |-> p, key |-> phone[p].key]]
  /\ UNCHANGED <<cmd, vault, used>>

\* The link may have been used since the token was checked.
Enrolls(p) ==
  /\ phone[p].call = "checked" /\ srv.st # "down"
  /\ IF LinkIsGood
     THEN /\ Set(p, [phone[p] EXCEPT !.call = "posted"])
          /\ srv' = [srv EXCEPT !.phone = p, !.done = [phone |-> p, key |-> phone[p].key]]
     ELSE Set(p, Failed(p)) /\ UNCHANGED srv
  /\ UNCHANGED <<cmd, vault, used>>

GetsToken(p) ==
  /\ phone[p].call = "posted"
  /\ Set(p, [phone[p] EXCEPT !.step = "pc", !.call = "result"])
  /\ UNCHANGED <<cmd, srv, vault, used>>

\* enrollResult, for the phone that has enrolled only.
ResultArrives(p) ==
  /\ phone[p].call = "result" /\ srv.st = "open"
  /\ IF srv.phone = p
     THEN Set(p, [phone[p] EXCEPT !.call = "waiting"]) /\ srv' = [srv EXCEPT !.polled = TRUE]
     ELSE Set(p, Failed(p)) /\ UNCHANGED srv
  /\ UNCHANGED <<cmd, vault, used>>

ResultIs(p) ==
  /\ phone[p].call = "waiting" /\ srv.st # "down" /\ srv.finished
  /\ Set(p, [phone[p] EXCEPT !.call = IF cmd.failed THEN "bad" ELSE "good"])
  /\ srv' = [srv EXCEPT !.told = TRUE]
  /\ UNCHANGED <<cmd, vault, used>>

\* pollWait.
TimesOut(p) ==
  /\ phone[p].call = "waiting" /\ srv.st # "down" /\ ~srv.finished
  /\ Set(p, [phone[p] EXCEPT !.call = "result"])
  /\ UNCHANGED <<cmd, srv, vault, used>>

\* Only now is the token kept.
HearsGood(p) ==
  /\ phone[p].call = "good"
  /\ Set(p, [phone[p] EXCEPT !.step = "done", !.call = "none"])
  /\ UNCHANGED <<cmd, srv, vault, used>>

HearsBad(p) ==
  /\ phone[p].call = "bad"
  /\ Set(p, Failed(p))
  /\ UNCHANGED <<cmd, srv, vault, used>>

\* Nobody listens, or the handler is gone.
Unanswered(p) ==
  /\ \/ phone[p].call \in {"options", "post", "result"} /\ srv.st # "open"
     \/ phone[p].call \in {"checked", "waiting"} /\ srv.st = "down"
  /\ Set(p, Failed(p))
  /\ UNCHANGED <<cmd, srv, vault, used>>

\* The answer is lost, or the call with it.
CallLost(p) ==
  /\ phone[p].call # "none" /\ Fault
  /\ Set(p, Failed(p))
  /\ UNCHANGED <<cmd, srv, vault>>

-----------------------------------------------------------------------------
Working ==
  \/ TakesEnrollment \/ Writes \/ Verifies \/ Finish \/ Close \/ Drained
  \/ DrainExpires \/ Shutdown \/ Down

Calling(p) ==
  \/ Options(p) \/ PostArrives(p) \/ Enrolls(p) \/ GetsToken(p) \/ ResultArrives(p)
  \/ ResultIs(p) \/ TimesOut(p) \/ HearsGood(p) \/ HearsBad(p) \/ Unanswered(p)

People ==
  \/ Unlocks \/ UnlockFails \/ Stops
  \/ \E p \in Phones : UseKey(p) \/ KeyAnswers(p) \/ KeyFails(p) \/ Send(p) \/ Again(p)

Next ==
  \/ Working \/ People \/ GivesUp \/ WriteFails \/ VerifyFails \/ Killed
  \/ \E p \in Phones : Calling(p) \/ CallLost(p)

Spec == Init /\ [][Next]_vars

\* The command and the calls go on, and enrollTimeout passes.  Nobody has to
\* press Enter, which the command waits for as long as it takes.
Fairness ==
  /\ WF_vars(Working) /\ WF_vars(GivesUp)
  /\ \A p \in Phones : WF_vars(Calling(p))

FairSpec == Spec /\ Fairness

-----------------------------------------------------------------------------
Enrollments == [phone : Phones, key : 1..MaxTries]

TypeOK ==
  /\ cmd.pc \in {"wait", "unlock", "write", "verify", "finish", "close", "drain", "shutdown", "ended"}
  /\ {cmd.got, vault, srv.done} \subseteq Enrollments \cup {None}
  /\ srv.st \in {"open", "shutdown", "down"} /\ srv.phone \in Phones \cup {None}
  /\ \A p \in Phones : phone[p].step \in {"start", "key", "push", "sending", "pc", "done", "failed"}

(* A phone that says it is enrolled is the one the vault was wrapped to,   *)
(* with the key it sent, however many opened the link: the token is used   *)
(* once, though it is checked before the body is read (server.go           *)
(* enrollFinish).                                                          *)
DoneIsEnrolled ==
  \A p \in Phones : phone[p].step = "done" => vault = [phone |-> p, key |-> phone[p].key]

(* A phone that says enrolling failed is not in the vault, unless          *)
(* something was lost or failed, the drain ran out, or the PC was through  *)
(* before the phone had asked once (server.go Close, app.js waitForPC).    *)
FailureIsTrue ==
  used.faults = 0 /\ ~srv.expired /\ srv.polled =>
    \A p \in Phones : phone[p].step = "failed" => vault = None \/ vault.phone # p

(* Once the command is past waiting for people it ends, and no phone is    *)
(* left waiting for it.                                                    *)
AllEnd ==
  cmd.pc \notin {"wait", "unlock"} ~> cmd.pc = "ended" /\ \A p \in Phones : phone[p].call = "none"

=============================================================================
