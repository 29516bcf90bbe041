------------------------------ MODULE PhonePage ------------------------------
(***************************************************************************)
(* The phone page over several requests: the server an approver opens on   *)
(* the configured address for as long as its request is (phone/server.go   *)
(* Server), one after another as the request queue lets them, and the      *)
(* phones that fetch its messages by long polls and post their answers     *)
(* (assets/app.js Watch).  What a session does with an answer is module    *)
(* Approval; here a request is decided by a phone's unlock or deny, or by  *)
(* something else (the window, the deadline).                              *)
(*                                                                         *)
(* Nothing a phone sends says which request it is for: a fetch or a post   *)
(* reaches whichever server listens when it gets there.                    *)
(***************************************************************************)
EXTENDS Naturals, Sequences, SequencesExt

CONSTANTS Phones,      \* phones that have been enrolled
          NumRequests, \* bound: requests, one after another
          MaxActs,     \* bound: status messages, pages opened, buttons pressed, and at most
                       \* one answer or post lost, session not started or approver killed
          Listed,      \* the phones enrolled when each request comes
          None

ASSUME PageAssumption ==
  /\ NumRequests \in Nat /\ MaxActs \in Nat
  /\ Listed \in [1..NumRequests -> (SUBSET Phones) \ {{}}]

VARIABLES srv,     \* the server, of the latest request; excused is history
          ended,   \* how each request ended, and by which post if by one
          page,    \* each phone's page: its latest Watch
          fetches, \* fetches of messages, from Watches stopped too
          posts,   \* unlocks, from the wait for the key on, and denies
          used,    \* how much of the bounds is used
          seen,    \* history: the messages each page has received
          told     \* history: the phones told how each request ended

vars == <<srv, ended, page, fetches, posts, used, seen, told>>

Requests == 1..NumRequests

\* A Watch: n tells it from the phone's others, shows is the request on it;
\* late, which is history, that its approve went on after the page was done.
Watch(n) == [n |-> n, poll |-> "none", next |-> 0, shows |-> 0, phase |-> "loading",
             late |-> FALSE]

Init ==
  /\ srv = [k |-> 0, st |-> "down", phones |-> {}, msgs |-> <<>>, unlocks |-> {},
            polled |-> FALSE, delivered |-> 0, excused |-> FALSE]
  /\ ended = [k \in Requests |-> [over |-> FALSE, by |-> None]]
  /\ page = [p \in Phones |-> [Watch(0) EXCEPT !.poll = "over", !.phase = "idle"]]
  /\ fetches = {} /\ posts = {}
  /\ used = [acts |-> 0, faulty |-> FALSE]
  /\ seen = [p \in Phones |-> <<>>]
  /\ told = [k \in Requests |-> {}]

Act == used.acts < MaxActs /\ used' = [used EXCEPT !.acts = @ + 1]
Fault == used.acts < MaxActs /\ ~used.faulty /\ used' = [acts |-> used.acts + 1, faulty |-> TRUE]

-----------------------------------------------------------------------------
(* The session, as the server sees it.                                     *)

\* StartRequest, for the phones enrolled by now.
OpenServer ==
  /\ srv.st = "down" /\ srv.k < NumRequests
  /\ srv' = [k |-> srv.k + 1, st |-> "open", phones |-> Listed[srv.k + 1], unlocks |-> {},
             polled |-> FALSE, delivered |-> 0, excused |-> FALSE, msgs |-> <<>>]
  /\ UNCHANGED <<ended, page, fetches, posts, used, seen, told>>

Write(type) ==
  srv' = [srv EXCEPT !.msgs = Append(@, [k |-> srv.k, i |-> Len(@) + 1, type |-> type])]

Finished == srv.msgs # <<>> /\ Last(srv.msgs).type = "done"
Undecided == srv.st = "open" /\ srv.msgs # <<>> /\ ~ended[srv.k].over

\* The session begins with its request.
StartSession ==
  /\ srv.st = "open" /\ srv.msgs = <<>>
  /\ Write("request")
  /\ UNCHANGED <<ended, page, fetches, posts, used, seen, told>>

\* Its window does not start, or not take the request, which the page has
\* by then: approve fails, and closes the page with no word of it.
StartFails ==
  /\ srv.st = "open" /\ Len(srv.msgs) < 2 /\ ~ended[srv.k].over /\ Fault
  /\ srv' = [srv EXCEPT !.st = "closing"]
  /\ UNCHANGED <<ended, page, fetches, posts, seen, told>>

Status ==
  /\ Undecided /\ Act
  /\ Write("status")
  /\ UNCHANGED <<ended, page, fetches, posts, seen, told>>

Decide(by) == ended' = [ended EXCEPT ![srv.k] = [over |-> TRUE, by |-> by]]

\* The window, or the deadline.
DecidedElsewhere ==
  /\ Undecided
  /\ Decide(None)
  /\ UNCHANGED <<srv, page, fetches, posts, used, seen, told>>

\* The approver takes the unlock that waits; the key opens the vault.
TakeUnlock ==
  /\ Undecided
  /\ \E u \in srv.unlocks : Decide(u)
  /\ srv' = [srv EXCEPT !.unlocks = {}]
  /\ UNCHANGED <<page, fetches, posts, used, seen, told>>

\* Session.Finish.
Finish ==
  /\ srv.st = "open" /\ ended[srv.k].over /\ ~Finished
  /\ Write("done")
  /\ UNCHANGED <<ended, page, fetches, posts, used, seen, told>>

-----------------------------------------------------------------------------
(* Close and Shutdown.                                                     *)

Closed == srv.st \in {"closing", "shutdown"}
Listening == srv.st \in {"open", "closing"}

BeginClose ==
  /\ srv.st = "open" /\ Finished
  /\ srv' = [srv EXCEPT !.st = "closing"]
  /\ UNCHANGED <<ended, page, fetches, posts, used, seen, told>>

BugNearlyCaught == srv.delivered + 1 >= Len(srv.msgs)

Caught == srv.delivered >= Len(srv.msgs)

\* Close goes on when nobody has polled or someone has everything.
Drained ==
  /\ srv.st = "closing" /\ (~srv.polled \/ Caught)
  /\ srv' = [srv EXCEPT !.st = "shutdown"]
  /\ UNCHANGED <<ended, page, fetches, posts, used, seen, told>>

\* Or after drainWait.
DrainExpires ==
  /\ srv.st = "closing" /\ srv.polled /\ ~Caught
  /\ srv' = [srv EXCEPT !.st = "shutdown", !.excused = TRUE]
  /\ UNCHANGED <<ended, page, fetches, posts, used, seen, told>>

\* Shutdown no longer listens; closed woke the handlers, and those it does
\* not see end within a second are cut off.
Down ==
  /\ srv.st = "shutdown"
  /\ srv' = [srv EXCEPT !.st = "down"]
  /\ UNCHANGED <<ended, page, fetches, posts, used, seen, told>>

\* The approver is killed.
Killed ==
  /\ srv.st # "down" /\ Fault
  /\ srv' = [srv EXCEPT !.st = "down", !.excused = TRUE]
  /\ UNCHANGED <<ended, page, fetches, posts, seen, told>>

-----------------------------------------------------------------------------
(* Fetching messages: Watch.loop and Server.poll.                          *)

\* A page load, or watch() on a notification or when the page is looked at
\* again.  It stops the Watch before it, but not what that has on its way.
Open(p) ==
  /\ Act
  /\ page' = [page EXCEPT ![p] = Watch(@.n + 1)]
  /\ seen' = [seen EXCEPT ![p] = <<>>]
  /\ UNCHANGED <<srv, ended, fetches, posts, told>>

Send(p) ==
  /\ page[p].poll = "none"
  /\ fetches' = fetches \cup {[from |-> p, n |-> page[p].n, st |-> "sent", k |-> 0,
                               after |-> page[p].next, ans |-> None]}
  /\ page' = [page EXCEPT ![p].poll = "out"]
  /\ UNCHANGED <<srv, ended, posts, used, seen, told>>

Change(f, g) == fetches' = (fetches \ {f}) \cup {g}

\* A page that outlived its request, and asks the next one's server for what
\* comes after as many messages as it has.
Strays(f) == f.after > 0 /\ (seen[f.from] # <<>> => Last(seen[f.from]).k # srv.k)

\* The page's count of messages is cut to what this server has.
Arrive(f) ==
  /\ f.st = "sent" /\ Listening /\ f.from \in srv.phones
  /\ Change(f, [f EXCEPT !.st = "waiting", !.k = srv.k, !.after = Min({@, Len(srv.msgs)})])
  /\ srv' = [srv EXCEPT !.polled = TRUE, !.excused = @ \/ Strays(f)]
  /\ UNCHANGED <<ended, page, posts, used, seen, told>>

At(f) == f.st = "waiting" /\ f.k = srv.k /\ srv.st # "down"

Answer(f) ==
  /\ At(f) /\ (f.after < Len(srv.msgs) \/ Closed)
  /\ Change(f, [f EXCEPT !.st = "answered", !.after = Len(srv.msgs),
                         !.ans = [msgs |-> SubSeq(srv.msgs, f.after + 1, Len(srv.msgs)),
                                  closed |-> Closed]])
  /\ srv' = [srv EXCEPT !.delivered = Max({@, Len(srv.msgs)})]
  /\ UNCHANGED <<ended, page, posts, used, seen, told>>

BugTimesOutLate(f) ==
  /\ At(f) /\ ~Closed
  /\ Change(f, [f EXCEPT !.st = "answered", !.after = Len(srv.msgs),
                         !.ans = [msgs |-> <<>>, closed |-> FALSE]])
  /\ UNCHANGED <<srv, ended, page, posts, used, seen, told>>

\* pollWait, which may be over just as there is a message or a close.
TimesOut(f) ==
  /\ At(f)
  /\ Change(f, [f EXCEPT !.st = "answered", !.ans = [msgs |-> <<>>, closed |-> FALSE]])
  /\ UNCHANGED <<srv, ended, page, posts, used, seen, told>>

Carries(msgs, type) == \E i \in DOMAIN msgs : msgs[i].type = type

\* receive, for each message of an answer: they are one request's, which is
\* the first of them if it is there, and how it ended the last.
Received(w, msgs) ==
  [w EXCEPT !.shows = IF Carries(msgs, "request") THEN msgs[1].k ELSE @,
            !.phase = IF Carries(msgs, "done") THEN "done"
                      ELSE IF Carries(msgs, "request") /\ @ \in {"loading", "idle"} THEN "request"
                      ELSE @]

\* The page after an answer: fetching again, or over.
After(w, f) ==
  LET got == [Received(w, f.ans.msgs) EXCEPT !.next = f.after]
  IN  IF got.phase = "done" \/ f.ans.closed
      THEN [got EXCEPT !.phase = "done", !.poll = "over"]
      ELSE [got EXCEPT !.poll = "none"]

Receive(f) ==
  /\ f.st = "answered" /\ f.n = page[f.from].n
  /\ fetches' = fetches \ {f}
  /\ page' = [page EXCEPT ![f.from] = After(@, f)]
  /\ seen' = [seen EXCEPT ![f.from] = @ \o f.ans.msgs]
  /\ told' = [k \in Requests |->
               IF \E i \in DOMAIN f.ans.msgs : f.ans.msgs[i].k = k /\ f.ans.msgs[i].type = "done"
               THEN told[k] \cup {f.from} ELSE told[k]]
  /\ UNCHANGED <<srv, ended, posts, used>>

BugKeepsDenying(w) ==
  [w EXCEPT !.poll = "over",
            !.phase = IF w.phase = "request" THEN "done" ELSE IF w.shows = 0 THEN "idle" ELSE @]

\* broker only listens while it is asking.
Unreachable(w) ==
  [w EXCEPT !.poll = "over",
            !.phase = IF w.phase = "done" \/ w.shows # 0 THEN "done" ELSE "idle"]

Gives(f, w) ==
  /\ f.n = page[f.from].n
  /\ fetches' = fetches \ {f}
  /\ page' = [page EXCEPT ![f.from] = w]
  /\ UNCHANGED <<ended, posts, seen, told>>

\* No server, or not the one that had it.
Fails(f) ==
  /\ (f.st = "sent" /\ ~Listening) \/ (f.st = "waiting" /\ ~At(f))
  /\ Gives(f, Unreachable(page[f.from]))
  /\ UNCHANGED <<srv, used>>

\* The answer an approver that is done waits to see delivered: its handler
\* has it, or is about to.
LastWord(f) == f.st # "sent" /\ f.k = srv.k /\ (f.st = "answered" => f.after = Len(srv.msgs))

\* The connection breaks; the handler may not notice.
AnswerLost(f) ==
  /\ Fault /\ Gives(f, Unreachable(page[f.from]))
  /\ srv' = [srv EXCEPT !.excused = @ \/ LastWord(f)]

\* The phone is not among the server's.
Unenrolled(f) ==
  /\ f.st = "sent" /\ Listening /\ f.from \notin srv.phones
  /\ Gives(f, [page[f.from] EXCEPT !.poll = "over", !.phase = "unenrolled"])
  /\ UNCHANGED <<srv, used>>

\* Nobody looks at the answer to a stopped Watch; a reload drops its fetch.
Abandoned(f) ==
  /\ f.n # page[f.from].n
  /\ fetches' = fetches \ {f}
  /\ srv' = [srv EXCEPT !.excused = @ \/ LastWord(f)]
  /\ UNCHANGED <<ended, page, posts, used, seen, told>>

-----------------------------------------------------------------------------
(* Approving and denying: Watch.approve, Watch.reply, Server.unlock and    *)
(* Server.reply.                                                           *)

Post(p, what, st) == [from |-> p, n |-> page[p].n, what |-> what, st |-> st, shows |-> page[p].shows]

Press(p, what, st, phase) ==
  /\ page[p].phase = "request" /\ Act
  /\ posts' = posts \cup {Post(p, what, st)}
  /\ page' = [page EXCEPT ![p].phase = phase]
  /\ UNCHANGED <<srv, ended, fetches, seen, told>>

PressApprove(p) == Press(p, "unlock", "key", "key")
PressDeny(p) == Press(p, "deny", "sent", "denying")

\* What a page's own await does to it once it is back; of a stopped Watch
\* nothing shows.
Goes(q, phase) ==
  page' = IF q.n = page[q.from].n
          THEN [page EXCEPT ![q.from].phase = phase,
                            ![q.from].late = @ \/ (page[q.from].poll = "over" /\ phase # "done")]
          ELSE page

\* The key answers.  Whatever the poll has shown since, the page goes on.
Touched(q) ==
  /\ q.st = "key"
  /\ posts' = (posts \ {q}) \cup {[q EXCEPT !.st = "sent"]}
  /\ Goes(q, "unlocking")
  /\ UNCHANGED <<srv, ended, fetches, used, seen, told>>

\* approve's catch.
Back(q) ==
  /\ posts' = posts \ {q}
  /\ Goes(q, IF page[q.from].phase = "done" THEN "done" ELSE "request")

\* The key is cancelled, or times out.
KeyFails(q) ==
  /\ q.st = "key" /\ Back(q)
  /\ UNCHANGED <<srv, ended, fetches, used, seen, told>>

Heard(q) == q.st = "sent" /\ Listening /\ q.from \in srv.phones

\* One unlock waits for the approver at a time.
UnlockArrives(q) ==
  /\ q.what = "unlock" /\ Heard(q) /\ srv.unlocks = {}
  /\ srv' = [srv EXCEPT !.unlocks = {q}]
  /\ posts' = posts \ {q}
  /\ UNCHANGED <<ended, page, fetches, used, seen, told>>

\* Conflict, unauthorized or nobody there.
UnlockRefused(q) ==
  /\ q.what = "unlock" /\ q.st = "sent" /\ (Heard(q) => srv.unlocks # {})
  /\ Back(q)
  /\ UNCHANGED <<srv, ended, fetches, used, seen, told>>

\* The post is lost, or its answer is after it was taken.
UnlockLost(q) ==
  /\ q.what = "unlock" /\ q.st = "sent" /\ Fault
  /\ Back(q)
  /\ \/ UNCHANGED srv
     \/ Heard(q) /\ srv.unlocks = {} /\ srv' = [srv EXCEPT !.unlocks = {q}]
  /\ UNCHANGED <<ended, fetches, seen, told>>

\* The session takes a deny if it still can; the page does not look at what
\* became of its post.
DenyArrives(q) ==
  /\ q.what = "deny" /\ Heard(q)
  /\ posts' = posts \ {q}
  /\ IF Undecided THEN Decide(q) ELSE UNCHANGED ended
  /\ UNCHANGED <<srv, page, fetches, used, seen, told>>

DenyFails(q) ==
  /\ q.what = "deny" /\ q.st = "sent"
  /\ (~Heard(q) /\ UNCHANGED used) \/ Fault
  /\ posts' = posts \ {q}
  /\ UNCHANGED <<srv, ended, page, fetches, seen, told>>

-----------------------------------------------------------------------------
Fetching(f) ==
  \/ Arrive(f) \/ Answer(f) \/ TimesOut(f) \/ Receive(f) \/ Fails(f) \/ Unenrolled(f)

Posting(q) ==
  \/ Touched(q) \/ KeyFails(q) \/ UnlockArrives(q) \/ UnlockRefused(q)
  \/ DenyArrives(q) \/ DenyFails(q)

Serving ==
  \/ StartSession \/ Finish \/ BeginClose \/ Drained \/ DrainExpires \/ Down \/ DecidedElsewhere

Next ==
  \/ OpenServer \/ StartFails \/ Status \/ TakeUnlock \/ Killed \/ Serving
  \/ \E p \in Phones : Open(p) \/ Send(p) \/ PressApprove(p) \/ PressDeny(p)
  \/ \E f \in fetches : Fetching(f) \/ AnswerLost(f) \/ Abandoned(f)
  \/ \E q \in posts : Posting(q) \/ UnlockLost(q)

Spec == Init /\ [][Next]_vars

Polling ==
  \/ \E p \in Phones : Send(p)
  \/ \E f \in fetches : f.n = page[f.from].n /\ Fetching(f)

\* An approver goes on, and its deadline comes; fetches are sent, answered
\* or fail.  People and their keys owe nothing, nor does one page wait for
\* another: a server that ends ends the fetches of all.
Fairness ==
  /\ WF_vars(Serving)
  /\ WF_vars(Polling)

FairSpec == Spec /\ Fairness

-----------------------------------------------------------------------------
States == {"down", "open", "closing", "shutdown"}
Phases == {"loading", "idle", "request", "key", "unlocking", "denying", "done", "unenrolled"}
Messages == [k : Requests, i : Nat, type : {"request", "status", "done"}]
Answers == [msgs : Seq(Messages), closed : BOOLEAN]

Watches ==
  [n : Nat, poll : {"none", "out", "over"}, next : Nat, shows : 0..NumRequests,
   phase : Phases, late : BOOLEAN]
FetchType ==
  [from : Phones, n : Nat, st : {"sent", "waiting", "answered"}, k : 0..NumRequests,
   after : Nat, ans : Answers \cup {None}]
PostType ==
  [from : Phones, n : Nat, what : {"unlock", "deny"}, st : {"key", "sent"},
   shows : 0..NumRequests]
ServerType ==
  [k : 0..NumRequests, st : States, phones : SUBSET Phones, msgs : Seq(Messages),
   unlocks : SUBSET PostType, polled : BOOLEAN, delivered : Nat, excused : BOOLEAN]

TypeOK ==
  /\ srv \in ServerType
  /\ ended \in [Requests -> [over : BOOLEAN, by : PostType \cup {None}]]
  /\ page \in [Phones -> Watches] /\ fetches \subseteq FetchType /\ posts \subseteq PostType
  /\ used \in [acts : Nat, faulty : BOOLEAN]
  /\ seen \in [Phones -> Seq(Messages)] /\ told \in [Requests -> SUBSET Phones]

(* Whatever timeouts, stopped pages and other phones do to the long polls, *)
(* a page gets the messages of the request it opened on from the first,    *)
(* each once and none left out.  One that outlives its approver goes on    *)
(* with a later request, never back, and misses no more messages of it     *)
(* than it has had of the one before (server.go poll cuts its count, app.js*)
(* loop).                                                                  *)
NothingSkipped ==
  \A p \in Phones :
    LET s == seen[p]
    IN  /\ s # <<>> => s[1].type = "request" /\ s[1].i = 1
        /\ \A i \in 1..(Len(s) - 1) :
             IF s[i].k = s[i + 1].k THEN s[i + 1].i = s[i].i + 1
             ELSE s[i + 1].k > s[i].k /\ s[i + 1].i <= s[i].i + 1

(* If a phone polled while a request was there to be answered, and it got  *)
(* an answer, a phone's page has been told how it ended or its answer is on*)
(* the way when the server is gone.  Excused is an approver killed or done *)
(* waiting, a page that asked for what it had of an earlier request, and   *)
(* one that was left, or cut off, with the last word on its way            *)
(* (server.go Close, delivered).                                           *)
SomeoneHears ==
  srv.st = "down" /\ Finished /\ srv.polled /\ ~srv.excused =>
    \/ told[srv.k] # {}
    \/ \E f \in fetches : f.st = "answered" /\ f.k = srv.k /\ f.after = Len(srv.msgs)

(* What a phone's answer decides is the request its page showed            *)
(* (src/README.md:163).                                                    *)
DecidedAsShown ==
  \A k \in Requests : ended[k].by # None => ended[k].by.shows = k

(* A page comes to rest, over and over: it no longer polls and says its    *)
(* request is over, that there is nothing to approve or that it is not     *)
(* enrolled, even if its deny was lost.  Only an approve that goes on after*)
(* that, once the key answers or fails, puts something else on it (app.js  *)
(* loop, approve).                                                         *)
PageEnds ==
  []<>(\A p \in Phones :
         page[p].poll = "over" /\ (page[p].phase \in {"done", "idle", "unenrolled"} \/ page[p].late))

=============================================================================
