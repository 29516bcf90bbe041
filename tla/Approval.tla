------------------------------ MODULE Approval ------------------------------
(***************************************************************************)
(* One open request, from the moment it shows until broker approve exits:  *)
(*   - the session (internal/approval): its channels, its end, the         *)
(*     duration, and the goroutines reading the window and the phones;     *)
(*   - the approver's main goroutine (cmd/request.go: unlockApproved and   *)
(*     the grants after it) and the unlock it runs for the window;         *)
(*   - the request window (broker-dialog) with the human at it;            *)
(*   - the phone page's server (internal/phone) and the phones posting.    *)
(* A Go select that finds several cases ready takes any of them: the       *)
(* approver may be starting, writing a status or trying a phone's key      *)
(* while they become ready, so the later one may be taken first.  Writes   *)
(* to the window never block: its pipe holds far more than one request's   *)
(* messages.  An operator named Bug... is a plausible mistake in the       *)
(* definition after it; no specification uses it.                          *)
(***************************************************************************)
EXTENDS Naturals, Sequences

CONSTANTS Phones,         \* enrolled phones, {} when no page is served
          Window,         \* the desktop window, as one who can answer
          None,           \* nobody, nothing
          HasWindow,      \* FALSE with no desktop session
          By,             \* approveBy: "click", "touch" or "passphrase"
          Choices,        \* durationChoices
          Asked,          \* the duration asked for
          NumSecrets,     \* ungranted names the request is for
          UnlockAttempts, \* unlockAttempts: 3
          Confirms,       \* a plugin may ask a yes or no question
          KeyRefused,     \* the vault may no longer unwrap with a phone's key
          MaxPrompts,     \* bound: prompts one unlock shows
          MaxPicks,       \* bound: durations picked in the window
          MaxPosts        \* bound: what the phones post in all

ASSUME ApprovalAssumption ==
  /\ Window \notin Phones /\ None \notin Phones \cup {Window}
  /\ HasWindow \in BOOLEAN /\ (HasWindow \/ Phones # {})
  /\ By \in {"click", "touch", "passphrase"}
  /\ Choices \subseteq Nat /\ Asked \in Choices /\ None \notin Choices
  /\ NumSecrets \in Nat \ {0} /\ UnlockAttempts \in Nat \ {0}
  /\ Confirms \in BOOLEAN /\ KeyRefused \in BOOLEAN
  /\ MaxPrompts \in Nat /\ MaxPicks \in Nat /\ MaxPosts \in Nat

VARIABLES
  sess,     \* the session's channels and fields
  main,     \* the approver's main goroutine
  local,    \* the unlock goroutine behind the window
  win,      \* the window's page
  toWin,    \* messages on their way to the window
  fromWin,  \* replies on their way from it
  reading,  \* the goroutine reading the window runs
  phone,    \* each phone's page
  posts,    \* what the phones posted and the server has not handled
  replies,  \* the page server's replies channel
  unlocks,  \* the page server's unlocks channel
  polling,  \* the goroutine reading the page server's replies runs
  said      \* history: who said yes and who said no

winVars == <<win, toWin, fromWin, reading>>
phoneVars == <<phone, posts, replies, unlocks, polling>>
vars == <<sess, main, local, winVars, phoneVars, said>>

Actors == Phones \cup {Window}
ReplyRoom == 8  \* make(chan approval.Reply, 8)

\* What the window and the phones send.  seen (history) is how many failed
\* unlocks the window had shown when it sent an approve.
Reply(type) ==
  [type |-> type, id |-> 0, right |-> FALSE, for |-> Asked, seen |-> 0]
Message(type) == [type |-> type, id |-> 0, confirm |-> FALSE, retry |-> FALSE]

NoUnlock == [st |-> "none", id |-> 0, answer |-> "none", touched |-> FALSE,
             asked |-> 0]
Running == [NoUnlock EXCEPT !.st = "run"]

Init ==
  /\ sess = [ended |-> "open", forSecs |-> Asked, promptID |-> 0,
             approve |-> <<>>, values |-> <<>>]
  /\ main = [pc |-> "select", wait |-> HasWindow /\ By = "click",
             attempt |-> 0, fails |-> 0, pu |-> None, puFor |-> Asked,
             via |-> None, ttl |-> None, held |-> 0, outcome |-> "none",
             starts |-> IF HasWindow /\ By # "click" THEN 1 ELSE 0]
  /\ local = IF HasWindow /\ By # "click" THEN Running ELSE NoUnlock
  /\ win = [up |-> HasWindow, prompt |-> 0, confirm |-> FALSE, retry |-> FALSE,
            busy |-> FALSE, done |-> FALSE, picked |-> Asked,
            picks |-> 0, seen |-> 0, presses |-> 0, typed |-> 0]
  /\ toWin = <<>> /\ fromWin = <<>> /\ reading = HasWindow
  /\ phone = [p \in Phones |-> [phase |-> "request", picked |-> Asked, sent |-> 0]]
  /\ posts = {} /\ replies = <<>> /\ unlocks = <<>> /\ polling = (Phones # {})
  /\ said = [yes |-> {}, no |-> {}]

-----------------------------------------------------------------------------
(* The session.                                                            *)

Live == main.pc # "exited"

\* end: only the first call counts.
End(s, err) == IF s.ended = "open" THEN [s EXCEPT !.ended = err] ELSE s

\* Pick: a duration that is not one of the choices is ignored.
Pick(s, d) == IF d \in Choices THEN [s EXCEPT !.forSecs = d] ELSE s

BugDenyIgnored(s, rep) == IF rep.type = "for" THEN Pick(s, rep.for) ELSE s

\* handle: the session after one reply.  approve and values hold one item,
\* and what does not fit is dropped; a value must answer the prompt showing.
Handled(s, rep) ==
  IF rep.type = "approve" THEN
    IF s.approve = <<>> THEN [s EXCEPT !.approve = <<rep.seen>>] ELSE s
  ELSE IF rep.type = "deny" THEN End(s, "denied")
  ELSE IF rep.type = "for" THEN Pick(s, rep.for)
  ELSE IF rep.id = s.promptID /\ s.values = <<>>
       THEN [s EXCEPT !.values = <<[id |-> rep.id, right |-> rep.right]>>]
       ELSE s

\* read: the window's replies in order; a deny is the last one read.
ReadWindow ==
  /\ Live /\ reading /\ fromWin # <<>>
  /\ sess' = Handled(sess, Head(fromWin))
  /\ fromWin' = Tail(fromWin)
  /\ reading' = (Head(fromWin).type # "deny")
  /\ UNCHANGED <<main, local, win, toWin, phoneVars, said>>

\* read: the window closing without a word is a deny.
WindowGone ==
  /\ Live /\ reading /\ fromWin = <<>> /\ ~win.up
  /\ sess' = End(sess, "denied")
  /\ reading' = FALSE
  /\ UNCHANGED <<main, local, win, toWin, fromWin, phoneVars, said>>

\* readRemote: the phones' replies, until a deny or the request's end.
ReadPhone ==
  /\ Live /\ polling /\ replies # <<>>
  /\ sess' = Handled(sess, Head(replies))
  /\ replies' = Tail(replies)
  /\ polling' = (Head(replies).type # "deny")
  /\ UNCHANGED <<main, local, winVars, phone, posts, unlocks, said>>

StopPolling ==
  /\ Live /\ polling /\ sess.ended # "open"
  /\ polling' = FALSE
  /\ UNCHANGED <<sess, main, local, winVars, phone, posts, replies, unlocks, said>>

\* The deadline's timer.
DeadlinePasses ==
  /\ Live /\ sess.ended = "open"
  /\ sess' = End(sess, "timeout")
  /\ UNCHANGED <<main, local, winVars, phoneVars, said>>

\* write: a window that is gone takes nothing.
Shown(msg) == IF win.up THEN Append(toWin, msg) ELSE toWin

-----------------------------------------------------------------------------
(* The unlock behind the window: vault.UnlockPrivate with the session's UI *)

\* ask: a new prompt ID, and the prompt to the window.  A passphrase is asked
\* for once in an unlock; a plugin may ask again.
UnlockAsks ==
  /\ Live /\ local.st = "run"
  /\ By = "passphrase" => local.answer = "none"
  /\ local.asked < MaxPrompts
  /\ sess' = [sess EXCEPT !.promptID = @ + 1]
  /\ \E confirm \in {FALSE, Confirms} :
       toWin' = Shown([Message("prompt") EXCEPT !.id = sess.promptID + 1,
                                                !.confirm = confirm])
  /\ local' = [local EXCEPT !.st = IF win.up THEN "ask" ELSE "failed",
                            !.id = sess.promptID + 1,
                            !.asked = @ + 1]
  /\ UNCHANGED <<main, win, fromWin, reading, phoneVars, said>>

\* ask: answers to other prompts are thrown away.
UnlockHears ==
  /\ Live /\ local.st = "ask" /\ sess.values # <<>>
  /\ sess' = [sess EXCEPT !.values = <<>>]
  /\ local' = IF Head(sess.values).id = local.id
              THEN [local EXCEPT !.st = "run",
                      !.answer = IF Head(sess.values).right THEN "right" ELSE "wrong"]
              ELSE local
  /\ UNCHANGED <<main, winVars, phoneVars, said>>

\* ask: the request ended while the prompt was showing.
UnlockAborts ==
  /\ Live /\ local.st = "ask" /\ sess.ended # "open"
  /\ local' = [local EXCEPT !.st = "aborted"]
  /\ UNCHANGED <<sess, main, winVars, phoneVars, said>>

BugAnyAnswerOpens == By # "passphrase" \/ local.answer # "none"

\* What it takes to open private.key.age from the desktop.
Proven ==
  /\ local.answer # "wrong"
  /\ \/ By = "click"
     \/ local.answer = "right"
     \/ By = "touch" /\ local.touched

UnlockOpens ==
  /\ Live /\ local.st = "run" /\ Proven
  /\ local' = [local EXCEPT !.st = "ok"]
  /\ UNCHANGED <<sess, main, winVars, phoneVars, said>>

\* A wrong passphrase, or anything else: no key plugged in, a lost file.
UnlockFails ==
  /\ Live /\ local.st = "run"
  /\ \E st \in {"failed", "wrong"} :
       /\ st = "wrong" => local.answer = "wrong"
       /\ By = "passphrase" /\ local.answer = "wrong" => st = "wrong"
       /\ local' = [local EXCEPT !.st = st]
  /\ UNCHANGED <<sess, main, winVars, phoneVars, said>>

-----------------------------------------------------------------------------
(* The approver: unlockApproved, then the grants.                          *)

Selecting == main.pc = "select"

\* case u := <-local: the desktop's unlock worked.
TakeDesktop ==
  /\ Selecting /\ local.st = "ok"
  /\ main' = [main EXCEPT !.pc = "approved", !.via = Window]
  /\ local' = NoUnlock
  /\ UNCHANGED <<sess, winVars, phoneVars, said>>

\* How requestErr reads an unlock's error: one that wraps the session's own
\* end is that end.  A plugin's error may lose it.
LastError ==
  IF local.st # "aborted" THEN {"failed"}
  ELSE IF By = "passphrase" THEN {sess.ended} ELSE {sess.ended, "failed"}

Failures == {"wrong", "failed", "aborted"}

BugNoLastAttempt == FALSE

\* attempt++; attempt == unlockAttempts
LastAttempt == main.attempt + 1 = UnlockAttempts

GiveUp ==
  /\ Selecting /\ local.st \in Failures /\ LastAttempt
  /\ \E o \in LastError :
       main' = [main EXCEPT !.pc = "finish", !.attempt = @ + 1, !.outcome = o]
  /\ local' = NoUnlock
  /\ UNCHANGED <<sess, winVars, phoneVars, said>>

\* A mistyped passphrase is asked for again at once.
AskAgain ==
  /\ Selecting /\ local.st = "wrong" /\ ~LastAttempt
  /\ main' = [main EXCEPT !.attempt = @ + 1, !.starts = @ + 1]
  /\ toWin' = Shown(Message("status"))
  /\ local' = Running
  /\ UNCHANGED <<sess, win, fromWin, reading, phoneVars, said>>

BugNoRetryFlag == Message("status")

\* Status with retry set: the window offers Approve again.
RetryStatus == [Message("status") EXCEPT !.retry = TRUE]

\* Any other failure waits for the human to press Try again.
OfferRetry ==
  /\ Selecting /\ local.st \in {"failed", "aborted"} /\ ~LastAttempt
  /\ main' = [main EXCEPT !.attempt = @ + 1, !.fails = @ + 1, !.wait = TRUE]
  /\ toWin' = Shown(RetryStatus)
  /\ local' = NoUnlock
  /\ UNCHANGED <<sess, win, fromWin, reading, phoneVars, said>>

BugApproveKept == sess

ApproveTaken == [sess EXCEPT !.approve = <<>>]

\* case <-approved, listened to only while waiting for it.
TakeApprove ==
  /\ Selecting /\ main.wait /\ sess.approve # <<>>
  /\ sess' = ApproveTaken
  /\ main' = [main EXCEPT !.wait = FALSE, !.starts = @ + 1]
  /\ local' = Running
  /\ UNCHANGED <<winVars, phoneVars, said>>

\* case pu := <-fromPhone: its duration, then (in another step, since the
\* vault is read and unwrapped) its key.
TakePhone ==
  /\ Selecting /\ unlocks # <<>>
  /\ sess' = Pick(sess, Head(unlocks).for)
  /\ main' = [main EXCEPT !.pc = "unlockWith", !.pu = Head(unlocks).from,
                          !.puFor = Head(unlocks).for]
  /\ unlocks' = Tail(unlocks)
  /\ UNCHANGED <<local, winVars, phone, posts, replies, polling, said>>

PhoneOpens ==
  /\ main.pc = "unlockWith"
  /\ main' = [main EXCEPT !.pc = "approved", !.via = main.pu]
  /\ UNCHANGED <<sess, local, winVars, phoneVars, said>>

\* Another broker wrapped private.key.age anew, without this phone.
PhoneRefused ==
  /\ main.pc = "unlockWith" /\ KeyRefused
  /\ main' = [main EXCEPT !.pc = "select"]
  /\ toWin' = Shown(Message("status"))
  /\ UNCHANGED <<sess, local, win, fromWin, reading, phoneVars, said>>

\* case <-sess.Done().
TakeEnd ==
  /\ Selecting /\ sess.ended # "open"
  /\ main' = [main EXCEPT !.pc = "finish", !.outcome = sess.ended]
  /\ UNCHANGED <<sess, local, winVars, phoneVars, said>>

\* ttl = sess.For(): what is picked from here on changes nothing.
ReadDuration ==
  /\ main.pc = "approved"
  /\ main' = [main EXCEPT !.pc = "granting", !.ttl = sess.forSecs]
  /\ UNCHANGED <<sess, local, winVars, phoneVars, said>>

BugDurationReread ==
  /\ main.pc = "granting" /\ main.held < NumSecrets
  /\ main' = [main EXCEPT !.held = @ + 1, !.ttl = sess.forSecs]
  /\ UNCHANGED <<sess, local, winVars, phoneVars, said>>

\* grantSecret for the next name.
GrantNext ==
  /\ main.pc = "granting" /\ main.held < NumSecrets
  /\ main' = [main EXCEPT !.held = @ + 1]
  /\ UNCHANGED <<sess, local, winVars, phoneVars, said>>

\* It failed, or there is no keyring: the names before it stay granted.
GrantFails ==
  /\ main.pc = "granting" /\ main.held < NumSecrets
  /\ main' = [main EXCEPT !.pc = "finish", !.outcome = "failed"]
  /\ UNCHANGED <<sess, local, winVars, phoneVars, said>>

AllGranted ==
  /\ main.pc = "granting" /\ main.held = NumSecrets
  /\ main' = [main EXCEPT !.pc = "finish", !.outcome = "granted"]
  /\ UNCHANGED <<sess, local, winVars, phoneVars, said>>

\* Finish, and the approver's exit: a window still up is killed.
Finish ==
  /\ main.pc = "finish"
  /\ main' = [main EXCEPT !.pc = "exited"]
  /\ sess' = End(sess, "finished")
  /\ toWin' = Shown(Message("done"))
  /\ UNCHANGED <<local, win, fromWin, reading, phoneVars, said>>

Approver ==
  \/ TakeDesktop \/ GiveUp \/ AskAgain \/ OfferRetry \/ TakeApprove
  \/ TakePhone \/ PhoneOpens \/ PhoneRefused \/ TakeEnd
  \/ ReadDuration \/ GrantNext \/ GrantFails \/ AllGranted \/ Finish

Sessions ==
  \/ ReadWindow \/ WindowGone \/ ReadPhone \/ StopPolling \/ DeadlinePasses

Unlocking ==
  \/ UnlockAsks \/ UnlockHears \/ UnlockAborts \/ UnlockOpens \/ UnlockFails

-----------------------------------------------------------------------------
(* The window: what the page shows, and what the human does in it.         *)

SaysYes(a) == said' = [said EXCEPT !.yes = @ \cup {a}]
SaysNo(a) == said' = [said EXCEPT !.no = @ \cup {a}]

\* broker.receive.
WindowShows ==
  /\ win.up /\ toWin # <<>>
  /\ LET m == Head(toWin) IN
       win' = IF m.type = "prompt"
                THEN [win EXCEPT !.prompt = m.id, !.confirm = m.confirm, !.busy = FALSE]
              ELSE IF m.type = "status"
                THEN [win EXCEPT !.retry = m.retry,
                                 !.busy = IF m.retry THEN FALSE ELSE @,
                                 !.seen = IF m.retry THEN @ + 1 ELSE @]
              ELSE [win EXCEPT !.prompt = 0, !.done = TRUE]
  /\ toWin' = Tail(toWin)
  /\ UNCHANGED <<sess, main, local, fromWin, reading, phoneVars, said>>

\* The page is up and takes what the human does.
Usable == win.up /\ ~win.done

\* action(): Approve or Try again is there to press.
CanApprove ==
  /\ Usable /\ win.prompt = 0
  /\ win.retry \/ (By = "click" /\ ~win.busy)

BugNotBusy(w) == [w EXCEPT !.retry = FALSE]

\* The page is busy from an answer until broker has something new to show.
Busy(w) == [w EXCEPT !.busy = TRUE, !.retry = FALSE]

PressApprove ==
  /\ CanApprove
  /\ fromWin' = Append(fromWin, [Reply("approve") EXCEPT !.seen = win.seen])
  /\ win' = [Busy(win) EXCEPT !.presses = @ + 1]
  /\ IF By = "click" THEN SaysYes(Window) ELSE UNCHANGED said
  /\ UNCHANGED <<sess, main, local, toWin, reading, phoneVars>>

\* submit: the typed value.  Only the right one is a yes.
AnswerPrompt ==
  /\ Usable /\ win.prompt # 0 /\ ~win.confirm /\ ~win.busy
  /\ \E right \in BOOLEAN :
       /\ fromWin' = Append(fromWin, [Reply("value") EXCEPT !.id = win.prompt,
                                                            !.right = right])
       /\ IF right THEN SaysYes(Window) ELSE UNCHANGED said
  /\ win' = [Busy(win) EXCEPT !.prompt = 0, !.typed = @ + 1]
  /\ UNCHANGED <<sess, main, local, toWin, reading, phoneVars>>

\* answer: a plugin's question, which leaves busy and the status alone.
AnswerConfirm ==
  /\ Usable /\ win.prompt # 0 /\ win.confirm
  /\ \E right \in BOOLEAN :
       /\ fromWin' = Append(fromWin, [Reply("value") EXCEPT !.id = win.prompt,
                                                            !.right = right])
       /\ IF right THEN SaysYes(Window) ELSE UNCHANGED said
  /\ win' = [win EXCEPT !.prompt = 0, !.typed = @ + 1]
  /\ UNCHANGED <<sess, main, local, toWin, reading, phoneVars>>

\* The duration's select, which is not there while the page is busy.
PickInWindow(d) ==
  /\ Usable /\ ~win.busy /\ win.picks < MaxPicks /\ d # win.picked
  /\ fromWin' = Append(fromWin, [Reply("for") EXCEPT !.for = d])
  /\ win' = [win EXCEPT !.picked = d, !.picks = @ + 1]
  /\ UNCHANGED <<sess, main, local, toWin, reading, phoneVars, said>>

\* deny: the Deny button or Escape; the page closes itself a moment later.
DenyInWindow ==
  /\ Usable
  /\ fromWin' = Append(fromWin, Reply("deny"))
  /\ win' = [win EXCEPT !.done = TRUE]
  /\ SaysNo(Window)
  /\ UNCHANGED <<sess, main, local, toWin, reading, phoneVars>>

\* onClosed: the human closes the window.
CloseWindow ==
  /\ Usable
  /\ fromWin' = Append(fromWin, Reply("deny"))
  /\ win' = [win EXCEPT !.up = FALSE]
  /\ SaysNo(Window)
  /\ UNCHANGED <<sess, main, local, toWin, reading, phoneVars>>

\* The window is killed or crashes; the session takes that for a no too.
WindowDies ==
  /\ Usable
  /\ win' = [win EXCEPT !.up = FALSE]
  /\ SaysNo(Window)
  /\ UNCHANGED <<sess, main, local, toWin, fromWin, reading, phoneVars>>

\* finish: the page, denied or done, exits a moment later.
PageExits ==
  /\ win.up /\ win.done
  /\ win' = [win EXCEPT !.up = FALSE]
  /\ UNCHANGED <<sess, main, local, toWin, fromWin, reading, phoneVars, said>>

\* The human touches the key the unlock waits on.
Touch ==
  /\ Live /\ local.st = "run" /\ By = "touch" /\ ~local.touched
  /\ local' = [local EXCEPT !.touched = TRUE]
  /\ SaysYes(Window)
  /\ UNCHANGED <<sess, main, winVars, phoneVars>>

-----------------------------------------------------------------------------
(* The phones and the page's server.                                       *)

CanPost(p) == Live /\ phone[p].phase = "request" /\ phone[p].sent < MaxPosts

\* What the page or the app posts: each post is a request of its own, and
\* nothing orders two of them.
Post(p, type, d) ==
  posts' = posts \cup {[from |-> p, type |-> type, for |-> d, n |-> phone[p].sent]}

PickOnPhone(p, d) ==
  /\ CanPost(p) /\ d # phone[p].picked
  /\ Post(p, "for", d)
  /\ phone' = [phone EXCEPT ![p].picked = d, ![p].sent = @ + 1]
  /\ UNCHANGED <<sess, main, local, winVars, replies, unlocks, polling, said>>

DenyOnPhone(p) ==
  /\ CanPost(p)
  /\ Post(p, "deny", Asked)
  /\ phone' = [phone EXCEPT ![p].phase = "denying", ![p].sent = @ + 1]
  /\ SaysNo(p)
  /\ UNCHANGED <<sess, main, local, winVars, replies, unlocks, polling>>

\* approve: the key on the phone was touched, and its output goes out with
\* the duration the phone shows.
ApproveOnPhone(p) ==
  /\ CanPost(p)
  /\ Post(p, "unlock", phone[p].picked)
  /\ phone' = [phone EXCEPT ![p].phase = "unlocking", ![p].sent = @ + 1]
  /\ SaysYes(p)
  /\ UNCHANGED <<sess, main, local, winVars, replies, unlocks, polling>>

\* reply: waits for room in the channel.
ReplyArrives(post) ==
  /\ Live /\ post.type \in {"for", "deny"} /\ Len(replies) < ReplyRoom
  /\ replies' = Append(replies, [Reply(post.type) EXCEPT !.for = post.for])
  /\ posts' = posts \ {post}
  /\ UNCHANGED <<sess, main, local, winVars, phone, unlocks, polling, said>>

\* unlock: one waits for the approver, and another is refused meanwhile.  If
\* the server's answer is lost, the phone shows an error and may try again.
UnlockArrives(post) ==
  /\ Live /\ post.type = "unlock" /\ unlocks = <<>>
  /\ unlocks' = <<[from |-> post.from, for |-> post.for]>>
  /\ posts' = posts \ {post}
  /\ \E phase \in {"unlocking", "request"} :
       phone' = [phone EXCEPT ![post.from].phase = phase]
  /\ UNCHANGED <<sess, main, local, winVars, replies, polling, said>>

\* An unlock the server refuses (another waits, or it is not this phone's
\* key) or that is lost on the way: the phone may try again.
UnlockFailsToPost(post) ==
  /\ post.type = "unlock"
  /\ posts' = posts \ {post}
  /\ phone' = [phone EXCEPT ![post.from].phase = "request"]
  /\ UNCHANGED <<sess, main, local, winVars, replies, unlocks, polling, said>>

\* A reply lost on the way; the page never learns it was.
ReplyLost(post) ==
  /\ post.type \in {"for", "deny"}
  /\ posts' = posts \ {post}
  /\ UNCHANGED <<sess, main, local, winVars, phone, replies, unlocks, polling, said>>

Human ==
  \/ PressApprove \/ AnswerPrompt \/ AnswerConfirm \/ DenyInWindow
  \/ CloseWindow \/ WindowDies \/ Touch
  \/ \E d \in Choices : PickInWindow(d)
  \/ \E p \in Phones : DenyOnPhone(p) \/ ApproveOnPhone(p)
  \/ \E p \in Phones, d \in Choices : PickOnPhone(p, d)

Server ==
  \E post \in posts : \/ ReplyArrives(post) \/ UnlockArrives(post)
                      \/ UnlockFailsToPost(post) \/ ReplyLost(post)

Next ==
  \/ Approver \/ Sessions \/ Unlocking \/ WindowShows \/ PageExits
  \/ Human \/ Server

Spec == Init /\ [][Next]_vars

\* The Go scheduler runs every goroutine that can go on, and the window's
\* page takes what it is sent. People, phones and the network owe nothing,
\* and neither does the deadline in what is checked below.
Fairness ==
  /\ WF_vars(Approver)
  /\ WF_vars(ReadWindow) /\ WF_vars(WindowGone) /\ WF_vars(ReadPhone)

FairSpec == Spec /\ Fairness

-----------------------------------------------------------------------------
(* Properties.                                                             *)

\* A queue carries a reply, or a message, of a type; or a right value.
Carries(q, type) == \E i \in DOMAIN q : q[i].type = type
CarriesRight(q) == \E i \in DOMAIN q : q[i].right

Replies == [type : {"approve", "deny", "value", "for"}, id : Nat,
            right : BOOLEAN, for : Choices, seen : Nat]
Messages == [type : {"prompt", "status", "done"}, id : Nat,
             confirm : BOOLEAN, retry : BOOLEAN]
Posts == [from : Phones, type : {"for", "deny", "unlock"}, for : Choices, n : Nat]

SessType ==
  [ended : {"open", "denied", "timeout", "finished"}, forSecs : Choices,
   promptID : Nat, approve : Seq(Nat),
   values : Seq([id : Nat, right : BOOLEAN])]
MainType ==
  [pc : {"select", "unlockWith", "approved", "granting", "finish", "exited"},
   wait : BOOLEAN, attempt : 0..UnlockAttempts, fails : Nat,
   pu : Phones \cup {None}, puFor : Choices, via : Actors \cup {None},
   ttl : Choices \cup {None}, held : 0..NumSecrets,
   outcome : {"none", "granted", "denied", "timeout", "failed"}, starts : Nat]
LocalType ==
  [st : {"none", "run", "ask", "ok", "wrong", "failed", "aborted"}, id : Nat,
   answer : {"none", "right", "wrong"}, touched : BOOLEAN, asked : Nat]
WinType ==
  [up : BOOLEAN, prompt : Nat, confirm : BOOLEAN, retry : BOOLEAN,
   busy : BOOLEAN, done : BOOLEAN, picked : Choices, picks : Nat,
   seen : Nat, presses : Nat, typed : Nat]
PhoneType ==
  [phase : {"request", "unlocking", "denying"}, picked : Choices, sent : Nat]
UnlockType == [from : Phones, for : Choices]
SaidType == [yes : SUBSET Actors, no : SUBSET Actors]

\* Every variable has its type; in particular the failed attempts never
\* pass unlockAttempts, nor the grants the secrets asked for.
TypeOK ==
  /\ sess \in SessType /\ main \in MainType /\ local \in LocalType
  /\ win \in WinType /\ toWin \in Seq(Messages) /\ fromWin \in Seq(Replies)
  /\ reading \in BOOLEAN
  /\ phone \in [Phones -> PhoneType] /\ posts \subseteq Posts
  /\ replies \in Seq(Replies) /\ unlocks \in Seq(UnlockType)
  /\ polling \in BOOLEAN /\ said \in SaidType

\* The outcome is there exactly when the approver is through with the
\* request, and the session's end backs it.
EndsOK ==
  /\ main.outcome = "none" => main.attempt < UnlockAttempts
  /\ main.outcome # "none" <=> main.pc \in {"finish", "exited"}
  /\ sess.ended = "finished" => ~Live
  /\ local.st = "aborted" => sess.ended # "open"
  /\ Carries(toWin, "done") => ~Live

\* The signs of a yes, wherever they are on their way to the approver.
YesByMain == main.pc \in {"unlockWith", "approved"}
YesByLocal ==
  \/ local.st = "ok"
  \/ local.answer = "right"
  \/ local.touched
  \/ By = "click" /\ local.st # "none"
YesBySess ==
  \/ By = "click" /\ sess.approve # <<>>
  \/ sess.values # <<>> /\ Head(sess.values).right
YesByWindow == CarriesRight(fromWin) \/ (By = "click" /\ Carries(fromWin, "approve"))
YesByPhones ==
  \/ unlocks # <<>>
  \/ \E post \in posts : post.type = "unlock"
  \/ CarriesRight(replies) \/ Carries(replies, "approve")

\* Behind every one of them someone has said yes.
YesOK ==
  YesByMain \/ YesByLocal \/ YesBySess \/ YesByWindow \/ YesByPhones
    => said.yes # {}

\* The signs of a no: a session ends denied, or a window goes while the
\* request lives, only because someone denied.
NoBySess == sess.ended = "denied"
NoByWindow ==
  \/ Carries(fromWin, "deny")
  \/ Live /\ win.done
  \/ Live /\ reading /\ ~win.up
NoByPhones ==
  Carries(replies, "deny") \/ \E post \in posts : post.type = "deny"
NoOK == NoBySess \/ NoByWindow \/ NoByPhones => said.no # {}

\* What holds of every reachable state and carries the proofs: a yes or a no
\* is traceable from the channels it travels through back to who said it.
RequestInv == TypeOK /\ EndsOK /\ YesOK /\ NoOK

\* What the request promises, as RequestOutcome states it: nothing is
\* granted without someone's yes, nothing is denied without someone's no, a
\* request that ended denied or timed out granted nothing, and all grants
\* get one duration.  The actors' answers are what they did; the outcome
\* and the grants are the approver's.
Outcome == INSTANCE RequestOutcome WITH
  Durations <- Choices,
  Actors <- Actors,
  state <- IF main.outcome # "none" THEN main.outcome
           ELSE IF main.pc = "granting" THEN "approved" ELSE "asking",
  yes <- said.yes,
  no <- said.no,
  ttl <- main.ttl,
  held <- main.held
OutcomeSpec == Outcome!Spec

\* In a click vault every unlock is one the human paid for: as many unlocks
\* have started as Approve or Try again was pressed, or a prompt answered
\* (a plain vault unlocks with nobody there, unlockApproved waits first).
EveryUnlockIsAskedFor ==
  By = "click" => main.starts <= win.presses + win.typed

\* A press of Approve the approver is about to act on was made with every
\* failure so far on the screen, so no retry starts behind the human's back
\* (a failure waits for the human to fix it and press Try again).
PressesAreFresh ==
  main.wait /\ sess.ended = "open" /\ sess.approve # <<>>
    => Head(sess.approve) = main.fails

\* While the approver waits for a press, a window that has caught up offers
\* one: the request is never stuck until its deadline (Status: the window
\* offers Approve again).
RetryIsOffered ==
  (/\ Selecting /\ main.wait /\ HasWindow /\ sess.ended = "open"
   /\ sess.approve = <<>> /\ toWin = <<>> /\ fromWin = <<>> /\ Usable)
    => CanApprove

\* What the window showed when it approved is what was granted, unless a
\* phone spoke of a duration too. By touch the pick may still be on its way.
GrantedAsShown ==
  (/\ main.via = Window /\ main.held > 0 /\ By # "touch"
   /\ \A p \in Phones : phone[p].sent = 0) => main.ttl = win.picked

\* A no from anyone ends the request without waiting for its deadline.
NoEndsRequest ==
  /\ reading /\ Carries(fromWin, "deny") ~> ~Live
  /\ polling /\ Carries(replies, "deny") ~> ~Live
=============================================================================
