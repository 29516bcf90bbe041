-------------------------- MODULE PhonePageProofs --------------------------
(***************************************************************************)
(* The theorems of PhonePage, for every number of phones, requests, pages  *)
(* and messages.  What a page has is followed from the server's messages,  *)
(* through the one fetch its Watch has on its way, to the page: a fetch    *)
(* asks for what comes after the last message the page has (AsksOK), so    *)
(* the answer goes on where the page is.  That somebody hears follows the  *)
(* furthest answer (delivered) to the page or to the phone that left it.   *)
(***************************************************************************)
EXTENDS PhonePage, TLAPS

-----------------------------------------------------------------------------
(* What carries the proofs.                                                *)

\* A server that is up has a request.
Opened == srv.st # "down" => srv.k # 0

\* The server's messages are numbered as they come, its request first.
MsgsOK ==
  /\ \A i \in DOMAIN srv.msgs :
       /\ srv.msgs[i].k = srv.k /\ srv.msgs[i].i = i
       /\ i = 1 => srv.msgs[i].type = "request"
  /\ srv.delivered <= Len(srv.msgs)

\* Only a request that has come, and is on the page, ends.
EndedOK ==
  \A k \in Requests : ended[k].over => k <= srv.k /\ (k = srv.k => srv.msgs # <<>>)

\* A fetch of the page's own Watch; how many messages an answer comes after.
Live(f) == f.n = page[f.from].n
Base(f) == IF f.st = "answered" THEN f.after - Len(f.ans.msgs) ELSE f.after

\* An answer has one server's messages, none left out.
AnswerOK(f) ==
  /\ f.ans \in Answers /\ Len(f.ans.msgs) <= f.after
  /\ \A i \in DOMAIN f.ans.msgs :
       LET m == f.ans.msgs[i]
       IN  /\ m.k = f.k /\ m.i = Base(f) + i
           /\ m.i = 1 => m.type = "request"
           /\ f.k = srv.k => m.i \in DOMAIN srv.msgs /\ m = srv.msgs[m.i]

\* A Watch has one fetch on its way at most.
FetchesOK ==
  /\ \A f \in fetches :
       /\ f.n # 0 /\ f.n <= page[f.from].n
       /\ f.st # "sent" => /\ f.k # 0 /\ f.k <= srv.k
                           /\ f.k = srv.k => f.after <= Len(srv.msgs)
       /\ f.st = "answered" => AnswerOK(f)
       /\ Live(f) => page[f.from].poll = "out"
  /\ \A f, g \in fetches : f.from = g.from /\ f.n = g.n => f = g
  /\ \A p \in Phones : page[p].poll = "none" => page[p].n # 0

\* A page has messages in order; the last of them is its server's, and if it
\* is how a request ended, the phone has been told.
InOrder(s) ==
  /\ s # <<>> => s[1].type = "request" /\ s[1].i = 1
  /\ \A i \in 1..(Len(s) - 1) :
       IF s[i].k = s[i + 1].k THEN s[i + 1].i = s[i].i + 1
       ELSE s[i + 1].k > s[i].k /\ s[i + 1].i <= s[i].i + 1
LastOK(p, m) ==
  /\ m.k <= srv.k
  /\ m.k = srv.k => m.i \in DOMAIN srv.msgs /\ m = srv.msgs[m.i]
  /\ m.type = "done" => p \in told[m.k]
PagesOK ==
  \A p \in Phones :
    InOrder(seen[p]) /\ (seen[p] # <<>> => LastOK(p, Last(seen[p])))

\* What comes after n messages of request k is what page p has not seen; of a
\* later request than the page's last, n are no more than it has of that.
Follows(p, k, n) ==
  IF seen[p] = <<>> THEN n = 0
  ELSE LET m == Last(seen[p]) IN m.k <= k /\ n <= m.i /\ (m.k = k => m.i = n)

\* A page asks for what it has not seen, and gets it.
AsksOK ==
  /\ \A p \in Phones : page[p].poll = "none" => Follows(p, srv.k, page[p].next)
  /\ \A f \in fetches :
       Live(f) => Follows(f.from, IF f.st = "sent" THEN srv.k ELSE f.k, Base(f))

\* The request's end has been heard or is on its way, if to a page that still
\* looks, then in so many words.
Hears ==
  \/ told[srv.k] # {}
  \/ \E f \in fetches :
       /\ f.st = "answered" /\ f.k = srv.k /\ f.after = Len(srv.msgs)
       /\ Live(f) => f.ans.msgs # <<>>

\* No page asks a server for what comes after messages of another's.
Straight ==
  \A f \in fetches :
    f.st = "waiting" /\ f.k = srv.k /\ f.after # 0 /\ Live(f)
      => seen[f.from] # <<>> /\ Last(seen[f.from]).k = srv.k

HearOK ==
  /\ srv.st \in {"shutdown", "down"} /\ srv.polled /\ ~srv.excused
       => srv.delivered = Len(srv.msgs)
  /\ ~srv.excused => Straight /\ (Finished /\ srv.delivered = Len(srv.msgs) => Hears)

\* What a page has does not depend on who is listening.
Core == MsgsOK /\ FetchesOK /\ PagesOK /\ AsksOK

PageInv == TypeOK /\ Opened /\ EndedOK /\ Core /\ HearOK

-----------------------------------------------------------------------------
(* What the operators return.                                              *)

LEMMA Furthest ==
  ASSUME NEW a \in Nat, NEW b \in Nat
  PROVE  /\ Max({a, b}) \in Nat /\ Max({a, b}) = (IF a >= b THEN a ELSE b)
         /\ Min({a, b}) \in Nat /\ Min({a, b}) = (IF a <= b THEN a ELSE b)
  <1>1. \E x \in {a, b} : \A y \in {a, b} : x >= y
    OBVIOUS
  <1>2. \E x \in {a, b} : \A y \in {a, b} : x =< y
    OBVIOUS
  <1>3. Max({a, b}) \in {a, b} /\ \A y \in {a, b} : Max({a, b}) >= y
    BY <1>1 DEF Max
  <1>4. Min({a, b}) \in {a, b} /\ \A y \in {a, b} : Min({a, b}) =< y
    BY <1>2 DEF Min
  <1> QED
    BY <1>3, <1>4

LEMMA WatchType ==
  ASSUME NEW n \in Nat
  PROVE  Watch(n) \in Watches /\ Watch(n).n = n /\ Watch(n).poll = "none"
         /\ Watch(n).next = 0
  <1>1. 0 \in 0..NumRequests
    BY PageAssumption
  <1> QED
    BY <1>1 DEF Watch, Watches, Phases

LEMMA UnreachableType ==
  ASSUME NEW w \in Watches
  PROVE  /\ Unreachable(w) \in Watches /\ Unreachable(w).n = w.n
         /\ Unreachable(w).poll = "over"
  BY DEF Unreachable, Watches, Phases

LEMMA ReceivedType ==
  ASSUME NEW w \in Watches, NEW msgs \in Seq(Messages)
  PROVE  /\ Received(w, msgs) \in Watches
         /\ Received(w, msgs).n = w.n
  <1>1. Carries(msgs, "request") => msgs[1].k \in 0..NumRequests
    <2> SUFFICES ASSUME Carries(msgs, "request") PROVE msgs[1].k \in 0..NumRequests
      OBVIOUS
    <2>1. 1 \in DOMAIN msgs
      BY DEF Carries
    <2>2. msgs[1] \in Messages
      BY <2>1
    <2> QED
      BY <2>2, PageAssumption DEF Messages, Requests
  <1> DEFINE shows == IF Carries(msgs, "request") THEN msgs[1].k ELSE w.shows
             phase == IF Carries(msgs, "done") THEN "done"
                      ELSE IF Carries(msgs, "request") /\ w.phase \in {"loading", "idle"} THEN "request"
                      ELSE w.phase
  <1>2. shows \in 0..NumRequests /\ phase \in Phases
    BY <1>1 DEF Watches, Phases
  <1>3. Received(w, msgs) = [w EXCEPT !.shows = shows, !.phase = phase]
    BY DEF Received, Watches
  <1> HIDE DEF shows, phase
  <1> QED
    BY <1>2, <1>3 DEF Watches

LEMMA AfterType ==
  ASSUME NEW w \in Watches, NEW f, f.after \in Nat, f.ans \in Answers
  PROVE  /\ After(w, f) \in Watches
         /\ After(w, f).n = w.n /\ After(w, f).next = f.after
  <1> DEFINE got == [Received(w, f.ans.msgs) EXCEPT !.next = f.after]
  <1>1. Received(w, f.ans.msgs) \in Watches /\ Received(w, f.ans.msgs).n = w.n
    BY ReceivedType DEF Answers
  <1>2. got \in Watches /\ got.n = w.n /\ got.next = f.after
    BY <1>1 DEF Watches
  <1>3. After(w, f) = IF got.phase = "done" \/ f.ans.closed
                      THEN [got EXCEPT !.phase = "done", !.poll = "over"]
                      ELSE [got EXCEPT !.poll = "none"]
    BY DEF After
  <1> HIDE DEF got
  <1> QED
    BY <1>2, <1>3 DEF Watches, Phases

-----------------------------------------------------------------------------
(* Types, an action or a few at a time.                                    *)

LEMMA TypeInit == Init => TypeOK
  <1> SUFFICES ASSUME Init PROVE TypeOK
    OBVIOUS
  <1>1. srv \in ServerType
    <2>1. 0 \in 0..NumRequests
      BY PageAssumption
    <2> QED
      BY <2>1 DEF Init, ServerType, States
  <1>2. page \in [Phones -> Watches]
    <2>1. [Watch(0) EXCEPT !.poll = "over", !.phase = "idle"] \in Watches
      <3>1. Watch(0) \in Watches
        BY WatchType
      <3> QED
        BY <3>1 DEF Watches, Phases
    <2> QED
      BY <2>1 DEF Init
  <1>3. ended \in [Requests -> [over : BOOLEAN, by : PostType \cup {None}]]
    BY DEF Init
  <1>4. /\ used \in [acts : Nat, faulty : BOOLEAN]
        /\ seen \in [Phones -> Seq(Messages)] /\ told \in [Requests -> SUBSET Phones]
        /\ fetches \subseteq FetchType /\ posts \subseteq PostType
    BY DEF Init
  <1> QED
    BY <1>1, <1>2, <1>3, <1>4 DEF TypeOK

LEMMA ActType ==
  ASSUME used \in [acts : Nat, faulty : BOOLEAN], Act \/ Fault
  PROVE  used' \in [acts : Nat, faulty : BOOLEAN]
  <1>1. used.acts + 1 \in Nat /\ used.faulty \in BOOLEAN
    OBVIOUS
  <1>2. CASE Act
    <2>1. used' = [used EXCEPT !.acts = used.acts + 1]
      BY <1>2 DEF Act
    <2> QED
      BY <1>1, <2>1
  <1>3. CASE Fault
    <2>1. used' = [acts |-> used.acts + 1, faulty |-> TRUE]
      BY <1>3 DEF Fault
    <2> QED
      BY <1>1, <2>1
  <1> QED
    BY <1>2, <1>3

LEMMA DecideType ==
  ASSUME TypeOK, srv.st = "open", NEW by \in PostType \cup {None}, Decide(by)
  PROVE  ended' \in [Requests -> [over : BOOLEAN, by : PostType \cup {None}]]
  <1>1. [over |-> TRUE, by |-> by] \in [over : BOOLEAN, by : PostType \cup {None}]
    OBVIOUS
  <1> QED
    BY <1>1 DEF TypeOK, Decide

\* A message of the server's.
LEMMA WriteType ==
  ASSUME TypeOK, srv.k # 0, NEW type \in {"request", "status", "done"}, Write(type)
  PROVE  /\ srv' \in ServerType
         /\ srv'.msgs = Append(srv.msgs, [k |-> srv.k, i |-> Len(srv.msgs) + 1, type |-> type])
         /\ srv'.k = srv.k /\ srv'.st = srv.st /\ srv'.polled = srv.polled
         /\ srv'.delivered = srv.delivered /\ srv'.excused = srv.excused
         /\ srv'.phones = srv.phones /\ srv'.unlocks = srv.unlocks
  <1> DEFINE m == [k |-> srv.k, i |-> Len(srv.msgs) + 1, type |-> type]
  <1>1. srv \in ServerType /\ srv.k \in Requests /\ srv.msgs \in Seq(Messages)
    BY PageAssumption DEF TypeOK, ServerType, Requests
  <1>2. m \in Messages
    BY <1>1 DEF Messages
  <1>3. srv' = [srv EXCEPT !.msgs = Append(srv.msgs, m)]
    BY DEF Write
  <1>4. Append(srv.msgs, m) \in Seq(Messages)
    BY <1>1, <1>2
  <1> HIDE DEF m
  <1>5. srv' \in ServerType /\ srv'.msgs = Append(srv.msgs, m)
    BY <1>1, <1>3, <1>4 DEF ServerType
  <1>6. /\ srv'.k = srv.k /\ srv'.st = srv.st /\ srv'.polled = srv.polled
        /\ srv'.delivered = srv.delivered /\ srv'.excused = srv.excused
        /\ srv'.phones = srv.phones /\ srv'.unlocks = srv.unlocks
    BY <1>1, <1>3 DEF ServerType
  <1> QED
    BY <1>5, <1>6 DEF m

LEMMA TypeServer ==
  TypeOK /\ Opened /\ (OpenServer \/ StartFails \/ Serving \/ TakeUnlock \/ Killed)
    => TypeOK'
  <1> SUFFICES ASSUME TypeOK, Opened, OpenServer \/ StartFails \/ Serving \/ TakeUnlock \/ Killed
               PROVE  TypeOK'
    OBVIOUS
  <1>0. srv \in ServerType /\ used \in [acts : Nat, faulty : BOOLEAN]
    BY DEF TypeOK
  <1>1. UNCHANGED <<page, fetches, posts, seen, told>>
    BY DEF OpenServer, StartFails, Serving, TakeUnlock, Killed, StartSession, Finish,
       BeginClose, Drained, DrainExpires, Down, DecidedElsewhere
  <1>2. used' \in [acts : Nat, faulty : BOOLEAN]
    BY <1>0, ActType
    DEF OpenServer, StartFails, Serving, TakeUnlock, Killed, StartSession, Finish,
        BeginClose, Drained, DrainExpires, Down, DecidedElsewhere
  <1>3. ended' \in [Requests -> [over : BOOLEAN, by : PostType \cup {None}]]
    <2>1. CASE TakeUnlock
      <3>1. PICK u \in srv.unlocks : Decide(u)
        BY <2>1 DEF TakeUnlock
      <3>2. u \in PostType /\ srv.st = "open"
        BY <1>0, <2>1 DEF ServerType, TakeUnlock, Undecided
      <3> QED
        BY <3>1, <3>2, DecideType
    <2>2. CASE DecidedElsewhere
      BY <2>2, DecideType DEF DecidedElsewhere, Undecided
    <2>3. CASE UNCHANGED ended
      BY <2>3 DEF TypeOK
    <2> QED
      BY <2>1, <2>2, <2>3
      DEF OpenServer, StartFails, Serving, Killed, StartSession, Finish, BeginClose, Drained,
          DrainExpires, Down
  <1>4. srv' \in ServerType
    <2>1. CASE OpenServer
      <3>1. srv.k + 1 \in Requests /\ srv.k + 1 \in 0..NumRequests /\ srv.k < NumRequests
        BY <1>0, <2>1, PageAssumption DEF ServerType, OpenServer, Requests
      <3>2. Listed[srv.k + 1] \subseteq Phones
        BY <3>1, PageAssumption DEF Requests
      <3>3. srv' = [k |-> srv.k + 1, st |-> "open", phones |-> Listed[srv.k + 1], unlocks |-> {},
                    polled |-> FALSE, delivered |-> 0, excused |-> FALSE, msgs |-> <<>>]
        BY <2>1 DEF OpenServer
      <3> QED
        BY <3>1, <3>2, <3>3 DEF ServerType, States
    <2>2. CASE StartSession \/ Finish
      BY <2>2, WriteType DEF StartSession, Finish, Opened
    <2>3. CASE TakeUnlock
      BY <1>0, <2>3 DEF TakeUnlock, ServerType
    <2>4. CASE StartFails \/ BeginClose \/ Drained \/ DrainExpires \/ Down \/ Killed
      BY <1>0, <2>4
      DEF StartFails, BeginClose, Drained, DrainExpires, Down, Killed, ServerType, States
    <2>5. CASE DecidedElsewhere
      BY <1>0, <2>5 DEF DecidedElsewhere
    <2> QED
      BY <2>1, <2>2, <2>3, <2>4, <2>5 DEF Serving
  <1> QED
    BY <1>1, <1>2, <1>3, <1>4 DEF TypeOK

LEMMA TypeStatus == TypeOK /\ Opened /\ Status => TypeOK'
  BY WriteType, ActType DEF TypeOK, Status, Undecided, Opened

LEMMA TypePages ==
  ASSUME TypeOK, NEW p \in Phones, Open(p) \/ Send(p) \/ PressApprove(p) \/ PressDeny(p)
  PROVE  TypeOK'
  <1>0. /\ page \in [Phones -> Watches] /\ page[p] \in Watches /\ posts \subseteq PostType
        /\ fetches \subseteq FetchType /\ used \in [acts : Nat, faulty : BOOLEAN]
        /\ seen \in [Phones -> Seq(Messages)]
    BY DEF TypeOK
  <1>1. UNCHANGED <<srv, ended, told>>
    BY DEF Open, Send, PressApprove, PressDeny, Press
  <1>2. CASE Open(p)
    <2>1. page[p].n + 1 \in Nat
      BY <1>0 DEF Watches
    <2>2. page' = [page EXCEPT ![p] = Watch(page[p].n + 1)]
      BY <1>2 DEF Open
    <2>3. page' \in [Phones -> Watches]
      BY <1>0, <2>1, <2>2, WatchType
    <2>4. seen' \in [Phones -> Seq(Messages)]
      BY <1>0, <1>2 DEF Open
    <2> QED
      BY <1>0, <1>1, <1>2, <2>3, <2>4, ActType DEF TypeOK, Open
  <1>3. CASE Send(p)
    <2>1. page' \in [Phones -> Watches]
      BY <1>0, <1>3 DEF Send, Watches
    <2>2. [from |-> p, n |-> page[p].n, st |-> "sent", k |-> 0,
           after |-> page[p].next, ans |-> None] \in FetchType
      BY <1>0, PageAssumption DEF Watches, FetchType
    <2> QED
      BY <1>0, <1>1, <1>3, <2>1, <2>2 DEF TypeOK, Send
  <1>4. ASSUME NEW what \in {"unlock", "deny"}, NEW st \in {"key", "sent"},
               NEW phase \in Phases, Press(p, what, st, phase)
        PROVE  TypeOK'
    <2>1. page' \in [Phones -> Watches]
      BY <1>0, <1>4 DEF Press, Watches
    <2>2. Post(p, what, st) \in PostType
      BY <1>0 DEF Post, PostType, Watches
    <2>3. /\ posts' = posts \cup {Post(p, what, st)} /\ Act
          /\ UNCHANGED <<fetches, seen>>
      BY <1>4 DEF Press
    <2>4. used' \in [acts : Nat, faulty : BOOLEAN]
      BY <1>0, <2>3, ActType
    <2> QED
      BY <1>0, <1>1, <2>1, <2>2, <2>3, <2>4 DEF TypeOK
  <1> QED
    BY <1>2, <1>3, <1>4 DEF PressApprove, PressDeny, Phases

\* What a page's own steps with its key do to it: its phase, and when.
LEMMA GoesType ==
  ASSUME page \in [Phones -> Watches], NEW q \in PostType, NEW phase \in Phases,
         Goes(q, phase)
  PROVE  /\ page' \in [Phones -> Watches]
         /\ \A p \in Phones : /\ page'[p].n = page[p].n /\ page'[p].poll = page[p].poll
                              /\ page'[p].next = page[p].next
  <1>1. q.from \in Phones /\ page[q.from] \in Watches
    BY DEF PostType
  <1>2. CASE page' = page
    BY <1>2
  <1>3. CASE page' # page
    <2> DEFINE l == page[q.from].late \/ (page[q.from].poll = "over" /\ phase # "done")
               w == [page[q.from] EXCEPT !.phase = phase, !.late = l]
    <2>1. page' = [page EXCEPT ![q.from] = w]
      BY <1>1, <1>3 DEF Goes
    <2>2. l \in BOOLEAN
      BY <1>1 DEF Watches
    <2> HIDE DEF l
    <2>3. w \in Watches /\ w.n = page[q.from].n /\ w.poll = page[q.from].poll
          /\ w.next = page[q.from].next
      BY <1>1, <2>2 DEF Watches
    <2> HIDE DEF w
    <2> QED
      BY <1>1, <2>1, <2>3
  <1> QED
    BY <1>2, <1>3

\* So does a post, and what becomes of one.
LEMMA PostSteps ==
  ASSUME TypeOK, NEW q \in posts, Posting(q) \/ UnlockLost(q)
  PROVE  /\ UNCHANGED <<fetches, seen, told>>
         /\ page' \in [Phones -> Watches]
         /\ \A p \in Phones : /\ page'[p].n = page[p].n /\ page'[p].poll = page[p].poll
                              /\ page'[p].next = page[p].next
         /\ posts' \subseteq PostType
         /\ srv' \in ServerType
         /\ /\ srv'.k = srv.k /\ srv'.st = srv.st /\ srv'.polled = srv.polled
            /\ srv'.delivered = srv.delivered /\ srv'.excused = srv.excused
            /\ srv'.msgs = srv.msgs
         /\ ended' \in [Requests -> [over : BOOLEAN, by : PostType \cup {None}]]
         /\ used' \in [acts : Nat, faulty : BOOLEAN]
  <1>0. /\ q \in PostType /\ page \in [Phones -> Watches] /\ posts \subseteq PostType
        /\ srv \in ServerType /\ used \in [acts : Nat, faulty : BOOLEAN]
    BY DEF TypeOK
  <1>1. UNCHANGED <<fetches, seen, told>>
    BY DEF Posting, Touched, KeyFails, UnlockArrives, UnlockRefused, UnlockLost,
       DenyArrives, DenyFails
  <1>2. page' = page \/ \E phase \in Phases : Goes(q, phase)
    <2>1. Back(q) => \E phase \in Phases : Goes(q, phase)
      BY DEF Back, Phases
    <2>2. Touched(q) => \E phase \in Phases : Goes(q, phase)
      BY DEF Touched, Phases
    <2> QED
      BY <2>1, <2>2 DEF Posting, KeyFails, UnlockArrives, UnlockRefused, UnlockLost,
         DenyArrives, DenyFails
  <1>3. /\ page' \in [Phones -> Watches]
        /\ \A p \in Phones : /\ page'[p].n = page[p].n /\ page'[p].poll = page[p].poll
                             /\ page'[p].next = page[p].next
    BY <1>0, <1>2, GoesType
  <1>4. posts' \subseteq PostType
    <2>1. [q EXCEPT !.st = "sent"] \in PostType
      BY <1>0 DEF PostType
    <2>2. posts' = posts \ {q} \/ posts' = (posts \ {q}) \cup {[q EXCEPT !.st = "sent"]}
      BY DEF Posting, Touched, KeyFails, UnlockArrives, UnlockRefused, UnlockLost,
         DenyArrives, DenyFails, Back
    <2> QED
      BY <1>0, <2>1, <2>2
  <1>5. srv' = srv \/ srv' = [srv EXCEPT !.unlocks = {q}]
    BY DEF Posting, Touched, KeyFails, UnlockArrives, UnlockRefused, UnlockLost,
       DenyArrives, DenyFails
  <1>6. /\ srv' \in ServerType
        /\ srv'.k = srv.k /\ srv'.st = srv.st /\ srv'.polled = srv.polled
        /\ srv'.delivered = srv.delivered /\ srv'.excused = srv.excused
        /\ srv'.msgs = srv.msgs
    BY <1>0, <1>5 DEF ServerType
  <1>7. ended' \in [Requests -> [over : BOOLEAN, by : PostType \cup {None}]]
    <2>1. CASE ended' = ended
      BY <2>1 DEF TypeOK
    <2>2. CASE Undecided /\ Decide(q)
      BY <1>0, <2>2, DecideType DEF Undecided
    <2> QED
      BY <2>1, <2>2 DEF Posting, Touched, KeyFails, UnlockArrives, UnlockRefused, UnlockLost,
         DenyArrives, DenyFails
  <1>8. used' \in [acts : Nat, faulty : BOOLEAN]
    <2>1. used' = used \/ Fault
      BY DEF Posting, Touched, KeyFails, UnlockArrives, UnlockRefused, UnlockLost,
         DenyArrives, DenyFails
    <2> QED
      BY <1>0, <2>1, ActType
  <1> QED
    BY <1>1, <1>3, <1>4, <1>6, <1>7, <1>8

\* What a fetch becomes.
LEMMA FetchSteps ==
  ASSUME TypeOK, NEW f \in fetches
  PROVE  /\ f \in FetchType /\ f.from \in Phones /\ page[f.from] \in Watches
         /\ f.after \in Nat /\ f.n \in Nat /\ f.k \in 0..NumRequests
         /\ page \in [Phones -> Watches] /\ fetches \subseteq FetchType
         /\ seen \in [Phones -> Seq(Messages)] /\ told \in [Requests -> SUBSET Phones]
         /\ srv \in ServerType /\ srv.msgs \in Seq(Messages) /\ Len(srv.msgs) \in Nat
         /\ srv.delivered \in Nat /\ srv.k \in 0..NumRequests
         /\ used \in [acts : Nat, faulty : BOOLEAN]
  BY DEF TypeOK, FetchType, ServerType

LEMMA Arrived ==
  ASSUME TypeOK, NEW f \in fetches, Arrive(f)
  PROVE  \E g \in FetchType :
           /\ fetches' = (fetches \ {f}) \cup {g}
           /\ g.from = f.from /\ g.n = f.n /\ g.st = "waiting" /\ g.k = srv.k
           /\ g.after = (IF f.after <= Len(srv.msgs) THEN f.after ELSE Len(srv.msgs))
           /\ srv' \in ServerType
           /\ srv'.k = srv.k /\ srv'.st = srv.st /\ srv'.msgs = srv.msgs
           /\ srv'.delivered = srv.delivered /\ srv'.excused = (srv.excused \/ Strays(f))
  <1>0. /\ f \in FetchType /\ srv \in ServerType /\ f.after \in Nat /\ Len(srv.msgs) \in Nat
        /\ srv.k \in 0..NumRequests
    BY FetchSteps
  <1> DEFINE a == Min({f.after, Len(srv.msgs)})
             g == [f EXCEPT !.st = "waiting", !.k = srv.k, !.after = a]
  <1>1. a \in Nat /\ a = (IF f.after <= Len(srv.msgs) THEN f.after ELSE Len(srv.msgs))
    BY <1>0, Furthest
  <1>2. fetches' = (fetches \ {f}) \cup {g}
    BY DEF Arrive, Change
  <1> HIDE DEF a
  <1>3. /\ g \in FetchType /\ g.from = f.from /\ g.n = f.n /\ g.st = "waiting"
        /\ g.k = srv.k /\ g.after = a
    BY <1>0, <1>1 DEF FetchType
  <1> DEFINE e == srv.excused \/ Strays(f)
  <1>4. srv' = [srv EXCEPT !.polled = TRUE, !.excused = e]
    BY DEF Arrive
  <1>5. e \in BOOLEAN
    BY <1>0 DEF ServerType
  <1> HIDE DEF g, e
  <1>6. /\ srv' \in ServerType
        /\ srv'.k = srv.k /\ srv'.st = srv.st /\ srv'.msgs = srv.msgs
        /\ srv'.delivered = srv.delivered /\ srv'.excused = e
    BY <1>0, <1>4, <1>5 DEF ServerType
  <1> QED
    BY <1>1, <1>2, <1>3, <1>6 DEF e

LEMMA Answered ==
  ASSUME TypeOK, MsgsOK, NEW f \in fetches, Answer(f), f.after <= Len(srv.msgs)
  PROVE  \E g \in FetchType :
           /\ fetches' = (fetches \ {f}) \cup {g}
           /\ g.from = f.from /\ g.n = f.n /\ g.st = "answered" /\ g.k = f.k
           /\ g.after = Len(srv.msgs) /\ g.ans \in Answers
           /\ Len(g.ans.msgs) = Len(srv.msgs) - f.after
           /\ \A i \in DOMAIN g.ans.msgs : g.ans.msgs[i] = srv.msgs[f.after + i]
           /\ srv' \in ServerType
           /\ srv'.k = srv.k /\ srv'.st = srv.st /\ srv'.msgs = srv.msgs
           /\ srv'.polled = srv.polled /\ srv'.delivered = Len(srv.msgs)
           /\ srv'.excused = srv.excused
  <1>0. /\ f \in FetchType /\ srv \in ServerType /\ f.after \in Nat /\ Len(srv.msgs) \in Nat
        /\ srv.delivered \in Nat /\ srv.msgs \in Seq(Messages)
    BY FetchSteps
  <1> DEFINE t == SubSeq(srv.msgs, f.after + 1, Len(srv.msgs))
             ans == [msgs |-> t, closed |-> Closed]
             g == [f EXCEPT !.st = "answered", !.after = Len(srv.msgs), !.ans = ans]
  <1>1. /\ t \in Seq(Messages) /\ Len(t) = Len(srv.msgs) - f.after
        /\ \A i \in DOMAIN t : t[i] = srv.msgs[f.after + i]
    BY <1>0
  <1>2. fetches' = (fetches \ {f}) \cup {g}
    BY DEF Answer, Change
  <1> HIDE DEF t
  <1>3. ans \in Answers /\ ans.msgs = t
    BY <1>1 DEF Answers, Closed
  <1> HIDE DEF ans
  <1>4. /\ g \in FetchType /\ g.from = f.from /\ g.n = f.n /\ g.st = "answered"
        /\ g.k = f.k /\ g.after = Len(srv.msgs) /\ g.ans = ans
    BY <1>0, <1>3 DEF FetchType
  <1>5. srv.delivered <= Len(srv.msgs)
    BY DEF MsgsOK
  <1> DEFINE d == Max({srv.delivered, Len(srv.msgs)})
  <1>6. d = Len(srv.msgs) /\ d \in Nat
    BY <1>0, <1>5, Furthest
  <1>7. srv' = [srv EXCEPT !.delivered = d]
    BY DEF Answer
  <1> HIDE DEF g, d
  <1>8. /\ srv' \in ServerType
        /\ srv'.k = srv.k /\ srv'.st = srv.st /\ srv'.msgs = srv.msgs
        /\ srv'.polled = srv.polled /\ srv'.delivered = d /\ srv'.excused = srv.excused
    BY <1>0, <1>6, <1>7 DEF ServerType
  <1> QED
    BY <1>1, <1>2, <1>3, <1>4, <1>6, <1>8

LEMMA TimedOut ==
  ASSUME TypeOK, NEW f \in fetches, TimesOut(f)
  PROVE  \E g \in FetchType :
           /\ fetches' = (fetches \ {f}) \cup {g}
           /\ g.from = f.from /\ g.n = f.n /\ g.st = "answered" /\ g.k = f.k
           /\ g.after = f.after /\ g.ans \in Answers /\ g.ans.msgs = <<>>
  <1>0. f \in FetchType
    BY FetchSteps
  <1> DEFINE ans == [msgs |-> <<>>, closed |-> FALSE]
             g == [f EXCEPT !.st = "answered", !.ans = ans]
  <1>1. fetches' = (fetches \ {f}) \cup {g}
    BY DEF TimesOut, Change
  <1>2. ans \in Answers /\ ans.msgs = <<>>
    BY DEF Answers
  <1> HIDE DEF ans
  <1>3. /\ g \in FetchType /\ g.from = f.from /\ g.n = f.n /\ g.st = "answered"
        /\ g.k = f.k /\ g.after = f.after /\ g.ans = ans
    BY <1>0, <1>2 DEF FetchType
  <1> HIDE DEF g
  <1> QED
    BY <1>1, <1>2, <1>3

\* A page that takes an answer, or gives its fetch up.
LEMMA Received1 ==
  ASSUME TypeOK, NEW f \in fetches, f.ans \in Answers, Receive(f)
  PROVE  /\ page' \in [Phones -> Watches]
         /\ \A p \in Phones \ {f.from} : page'[p] = page[p]
         /\ page'[f.from].n = page[f.from].n /\ page'[f.from].next = f.after
         /\ seen' = [seen EXCEPT ![f.from] = seen[f.from] \o f.ans.msgs]
         /\ seen' \in [Phones -> Seq(Messages)]
         /\ told' \in [Requests -> SUBSET Phones]
         /\ \A k \in Requests : told[k] \subseteq told'[k]
         /\ \A i \in DOMAIN f.ans.msgs :
              f.ans.msgs[i].type = "done" => f.from \in told'[f.ans.msgs[i].k]
  <1>0. /\ f.after \in Nat /\ f.from \in Phones /\ page[f.from] \in Watches
        /\ page \in [Phones -> Watches] /\ seen \in [Phones -> Seq(Messages)]
        /\ told \in [Requests -> SUBSET Phones]
    BY FetchSteps
  <1> DEFINE w == After(page[f.from], f)
  <1>1. w \in Watches /\ w.n = page[f.from].n /\ w.next = f.after
    BY <1>0, AfterType
  <1>2. page' = [page EXCEPT ![f.from] = w]
    BY DEF Receive
  <1> HIDE DEF w
  <1>3. f.ans.msgs \in Seq(Messages)
    BY DEF Answers
  <1>4. /\ seen' = [seen EXCEPT ![f.from] = seen[f.from] \o f.ans.msgs]
        /\ seen' \in [Phones -> Seq(Messages)]
    BY <1>0, <1>3 DEF Receive
  <1>5. /\ told' \in [Requests -> SUBSET Phones]
        /\ \A k \in Requests : told[k] \subseteq told'[k]
    BY <1>0 DEF Receive
  <1>6. ASSUME NEW i \in DOMAIN f.ans.msgs, f.ans.msgs[i].type = "done"
        PROVE  f.from \in told'[f.ans.msgs[i].k]
    <2>1. f.ans.msgs[i] \in Messages
      BY <1>3
    <2>2. f.ans.msgs[i].k \in Requests
      BY <2>1 DEF Messages
    <2> QED
      BY <1>6, <2>2 DEF Receive
  <1> QED
    BY <1>0, <1>1, <1>2, <1>4, <1>5, <1>6

\* The server, when a fetch that has come to it is given up: nothing of it but
\* the excuse.
Kept ==
  /\ srv' \in ServerType
  /\ srv'.k = srv.k /\ srv'.st = srv.st /\ srv'.msgs = srv.msgs /\ srv'.polled = srv.polled
  /\ srv'.delivered = srv.delivered /\ (srv.excused => srv'.excused)

LEMMA ExcusedOnly ==
  ASSUME TypeOK, NEW f \in fetches,
         srv' = [srv EXCEPT !.excused = @ \/ LastWord(f)]
  PROVE  Kept /\ (LastWord(f) => srv'.excused)
  <1>1. srv \in ServerType
    BY FetchSteps
  <1> DEFINE e == srv.excused \/ LastWord(f)
  <1>2. srv' = [srv EXCEPT !.excused = e]
    OBVIOUS
  <1>3. e \in BOOLEAN
    BY <1>1 DEF ServerType
  <1> HIDE DEF e
  <1>4. /\ srv' \in ServerType /\ srv'.excused = e
        /\ srv'.k = srv.k /\ srv'.st = srv.st /\ srv'.msgs = srv.msgs
        /\ srv'.polled = srv.polled /\ srv'.delivered = srv.delivered
    BY <1>1, <1>2, <1>3 DEF ServerType
  <1> QED
    BY <1>4 DEF Kept, e

LEMMA Given ==
  ASSUME TypeOK, NEW f \in fetches, Fails(f) \/ Unenrolled(f) \/ AnswerLost(f)
  PROVE  /\ f.n = page[f.from].n /\ fetches' = fetches \ {f}
         /\ UNCHANGED <<ended, posts, seen, told>>
         /\ page' \in [Phones -> Watches]
         /\ \A p \in Phones \ {f.from} : page'[p] = page[p]
         /\ page'[f.from].n = page[f.from].n /\ page'[f.from].poll = "over"
         /\ used' \in [acts : Nat, faulty : BOOLEAN]
         /\ Kept
         /\ f.st = "answered" /\ LastWord(f) => srv'.excused
  <1>0. /\ f.from \in Phones /\ page[f.from] \in Watches /\ page \in [Phones -> Watches]
        /\ used \in [acts : Nat, faulty : BOOLEAN] /\ srv \in ServerType
    BY FetchSteps
  <1>1. \E w \in Watches : Gives(f, w) /\ w.n = page[f.from].n /\ w.poll = "over"
    <2>1. CASE Unenrolled(f)
      <3> DEFINE w == [page[f.from] EXCEPT !.poll = "over", !.phase = "unenrolled"]
      <3>1. w \in Watches /\ w.n = page[f.from].n /\ w.poll = "over"
        BY <1>0 DEF Watches, Phases
      <3>2. Gives(f, w)
        BY <2>1 DEF Unenrolled
      <3> HIDE DEF w
      <3> QED
        BY <3>1, <3>2
    <2>2. CASE Fails(f) \/ AnswerLost(f)
      <3> DEFINE w == Unreachable(page[f.from])
      <3>1. w \in Watches /\ w.n = page[f.from].n /\ w.poll = "over"
        BY <1>0, UnreachableType
      <3>2. Gives(f, w)
        BY <2>2 DEF Fails, AnswerLost
      <3> HIDE DEF w
      <3> QED
        BY <3>1, <3>2
    <2> QED
      BY <2>1, <2>2
  <1>2. PICK w \in Watches : Gives(f, w) /\ w.n = page[f.from].n /\ w.poll = "over"
    BY <1>1
  <1>3. used' \in [acts : Nat, faulty : BOOLEAN]
    BY <1>0, ActType DEF Fails, Unenrolled, AnswerLost
  <1>4. Kept /\ (f.st = "answered" /\ LastWord(f) => srv'.excused)
    <2>1. CASE AnswerLost(f)
      BY <2>1, ExcusedOnly DEF AnswerLost
    <2>2. CASE Fails(f) \/ Unenrolled(f)
      <3>1. srv' = srv /\ f.st # "answered"
        BY <2>2 DEF Fails, Unenrolled
      <3> QED
        BY <1>0, <3>1 DEF Kept
    <2> QED
      BY <2>1, <2>2
  <1> QED
    BY <1>0, <1>2, <1>3, <1>4 DEF Gives

\* What is left of TypeOK for a fetch's steps.
LEMMA TypeFetching ==
  ASSUME TypeOK, MsgsOK, FetchesOK, NEW f \in fetches,
         Fetching(f) \/ AnswerLost(f) \/ Abandoned(f)
  PROVE  TypeOK'
  <1>0. /\ page \in [Phones -> Watches] /\ fetches \subseteq FetchType
        /\ f.after \in Nat /\ f \in FetchType
    BY FetchSteps
  <1>1. CASE Arrive(f)
    BY <1>0, <1>1, Arrived DEF TypeOK, Arrive
  <1>2. CASE Answer(f)
    <2>1. f.after <= Len(srv.msgs)
      BY <1>2 DEF FetchesOK, Answer, At
    <2> QED
      BY <1>0, <1>2, <2>1, Answered DEF TypeOK, Answer
  <1>3. CASE TimesOut(f)
    BY <1>0, <1>3, TimedOut DEF TypeOK, TimesOut
  <1>4. CASE Receive(f)
    <2>1. f.ans \in Answers
      BY <1>4 DEF FetchesOK, AnswerOK, Receive
    <2>2. fetches' \subseteq FetchType /\ UNCHANGED <<srv, ended, posts, used>>
      BY <1>0, <1>4 DEF Receive
    <2>3. /\ page' \in [Phones -> Watches] /\ seen' \in [Phones -> Seq(Messages)]
          /\ told' \in [Requests -> SUBSET Phones]
      BY <1>4, <2>1, Received1
    <2> QED
      BY <2>2, <2>3 DEF TypeOK
  <1>5. CASE Fails(f) \/ Unenrolled(f) \/ AnswerLost(f)
    <2>1. /\ fetches' = fetches \ {f} /\ UNCHANGED <<ended, posts, seen, told>>
          /\ page' \in [Phones -> Watches] /\ used' \in [acts : Nat, faulty : BOOLEAN]
          /\ srv' \in ServerType
      BY <1>5, Given DEF Kept
    <2>2. fetches' \subseteq FetchType
      BY <1>0, <2>1
    <2> QED
      BY <2>1, <2>2 DEF TypeOK
  <1>6. CASE Abandoned(f)
    <2>1. srv' \in ServerType
      BY <1>6, ExcusedOnly DEF Abandoned, Kept
    <2> QED
      BY <1>0, <1>6, <2>1 DEF TypeOK, Abandoned
  <1> QED
    BY <1>1, <1>2, <1>3, <1>4, <1>5, <1>6 DEF Fetching

-----------------------------------------------------------------------------
(* The steps that leave the messages, the fetches and what pages have.     *)

Calm ==
  /\ UNCHANGED <<fetches, seen, told>>
  /\ srv'.k = srv.k /\ srv'.msgs = srv.msgs /\ srv'.delivered = srv.delivered
  /\ \A p \in Phones : /\ page'[p].n = page[p].n /\ page'[p].poll = page[p].poll
                       /\ page'[p].next = page[p].next

LEMMA CalmCore ==
  ASSUME TypeOK, Core, Calm
  PROVE  /\ Core' /\ (Finished' <=> Finished) /\ (Straight => Straight')
         /\ (Hears => Hears')
  <1>0. \A f \in fetches : f.from \in Phones
    BY FetchSteps
  <1>1. MsgsOK'
    BY DEF Core, MsgsOK, Calm
  <1>2. \A f \in fetches : (Live(f) <=> Live(f)') /\ Base(f)' = Base(f)
    BY <1>0 DEF Calm, Live, Base
  <1>3. FetchesOK'
    <2>1. \A f \in fetches : AnswerOK(f) => AnswerOK(f)'
      BY <1>2 DEF AnswerOK, Calm
    <2> QED
      BY <1>0, <1>2, <2>1 DEF Core, FetchesOK, Calm
  <1>4. PagesOK'
    BY DEF Core, PagesOK, InOrder, LastOK, Calm
  <1>5. AsksOK'
    <2>1. \A p, k, n : Follows(p, k, n) <=> Follows(p, k, n)'
      BY DEF Follows, Calm
    <2> QED
      BY <1>2, <2>1 DEF Core, AsksOK, Calm
  <1>6. Finished' <=> Finished
    BY DEF Finished, Calm
  <1>7. Straight => Straight'
    BY <1>2 DEF Straight, Calm
  <1>8. Hears => Hears'
    BY <1>2 DEF Hears, Calm
  <1> QED
    BY <1>1, <1>3, <1>4, <1>5, <1>6, <1>7, <1>8 DEF Core

LEMMA StepsAreCalm ==
  ASSUME TypeOK,
         \/ DecidedElsewhere \/ TakeUnlock \/ StartFails \/ BeginClose \/ Drained
         \/ DrainExpires \/ Down \/ Killed
         \/ \E p \in Phones : PressApprove(p) \/ PressDeny(p)
         \/ \E q \in posts : Posting(q) \/ UnlockLost(q)
  PROVE  /\ Calm /\ srv'.polled = srv.polled /\ (srv.excused => srv'.excused)
         /\ \/ srv'.st = srv.st
            \/ srv.st = "open" /\ srv'.st = "closing"
            \/ srv.st = "closing" /\ srv'.st = "shutdown"
               /\ (~srv.polled \/ Caught \/ srv'.excused)
            \/ srv.st = "shutdown" /\ srv'.st = "down"
            \/ srv'.st = "down" /\ srv'.excused
  <1>0. srv \in ServerType /\ page \in [Phones -> Watches]
    BY DEF TypeOK
  <1>1. CASE \/ DecidedElsewhere \/ TakeUnlock \/ StartFails \/ BeginClose \/ Drained
             \/ DrainExpires \/ Down \/ Killed
    BY <1>0, <1>1
    DEF DecidedElsewhere, TakeUnlock, StartFails, BeginClose, Drained, DrainExpires, Down, Killed,
        Calm, ServerType
  <1>2. ASSUME NEW p \in Phones, PressApprove(p) \/ PressDeny(p)
        PROVE  Calm /\ srv' = srv
    <2>1. /\ UNCHANGED <<srv, fetches, seen, told>>
          /\ \E phase \in Phases : page' = [page EXCEPT ![p].phase = phase]
      BY <1>2 DEF PressApprove, PressDeny, Press, Phases
    <2>2. \A r \in Phones : /\ page'[r].n = page[r].n /\ page'[r].poll = page[r].poll
                            /\ page'[r].next = page[r].next
      BY <1>0, <2>1 DEF Watches
    <2> QED
      BY <2>1, <2>2 DEF Calm
  <1>3. ASSUME NEW q \in posts, Posting(q) \/ UnlockLost(q)
        PROVE  /\ Calm /\ srv'.st = srv.st /\ srv'.polled = srv.polled
               /\ srv'.excused = srv.excused
    BY <1>3, PostSteps DEF Calm
  <1> QED
    BY <1>1, <1>2, <1>3

LEMMA CalmInv ==
  ASSUME TypeOK, Opened, Core, HearOK,
         \/ DecidedElsewhere \/ TakeUnlock \/ StartFails \/ BeginClose \/ Drained
         \/ DrainExpires \/ Down \/ Killed
         \/ \E p \in Phones : PressApprove(p) \/ PressDeny(p)
         \/ \E q \in posts : Posting(q) \/ UnlockLost(q)
  PROVE  Opened' /\ Core' /\ HearOK'
  <1>1. /\ Calm /\ srv'.polled = srv.polled /\ (srv.excused => srv'.excused)
        /\ \/ srv'.st = srv.st
           \/ srv.st = "open" /\ srv'.st = "closing"
           \/ srv.st = "closing" /\ srv'.st = "shutdown"
              /\ (~srv.polled \/ Caught \/ srv'.excused)
           \/ srv.st = "shutdown" /\ srv'.st = "down"
           \/ srv'.st = "down" /\ srv'.excused
    BY StepsAreCalm
  <1>2. /\ Core' /\ (Finished' <=> Finished) /\ (Straight => Straight')
        /\ (Hears => Hears')
    BY <1>1, CalmCore
  <1>3. Opened'
    BY <1>1 DEF Opened, Calm
  <1>4. Caught => srv.delivered = Len(srv.msgs)
    <2>1. srv.delivered <= Len(srv.msgs) /\ srv.delivered \in Nat /\ Len(srv.msgs) \in Nat
      BY DEF Core, MsgsOK, TypeOK, ServerType
    <2> QED
      BY <2>1 DEF Caught
  <1>5. HearOK'
    <2>1. srv'.st \in {"shutdown", "down"} /\ srv'.polled /\ ~srv'.excused
            => srv'.delivered = Len(srv'.msgs)
      BY <1>1, <1>4 DEF HearOK, Calm
    <2>2. ~srv'.excused => Straight' /\ (Finished' /\ srv'.delivered = Len(srv'.msgs) => Hears')
      BY <1>1, <1>2 DEF HearOK, Calm
    <2> QED
      BY <2>1, <2>2 DEF HearOK
  <1> QED
    BY <1>2, <1>3, <1>5

-----------------------------------------------------------------------------
(* The server's messages, and pages opened and asking.                     *)

LEMMA WriteInv ==
  ASSUME TypeOK, Opened, EndedOK, Core, HearOK, StartSession \/ Status \/ Finish
  PROVE  Opened' /\ Core' /\ HearOK'
  <1>0. srv.st = "open" /\ srv.k # 0
    BY DEF StartSession, Status, Finish, Undecided, Opened
  <1>1. PICK type \in {"request", "status", "done"} :
          Write(type) /\ (srv.msgs = <<>> => type = "request")
    <2>1. srv.k \in Requests
      BY <1>0 DEF TypeOK, ServerType, Requests
    <2>2. Finish => srv.msgs # <<>>
      BY <2>1 DEF Finish, EndedOK
    <2> QED
      BY <2>2 DEF StartSession, Status, Finish, Undecided
  <1> DEFINE m == [k |-> srv.k, i |-> Len(srv.msgs) + 1, type |-> type]
  <1>2. /\ srv'.msgs = Append(srv.msgs, m)
        /\ srv'.k = srv.k /\ srv'.st = srv.st /\ srv'.polled = srv.polled
        /\ srv'.delivered = srv.delivered /\ srv'.excused = srv.excused
    BY <1>0, <1>1, WriteType
  <1>3. UNCHANGED <<page, fetches, seen, told>>
    BY DEF StartSession, Status, Finish
  <1>4. srv.msgs \in Seq(Messages) /\ srv.delivered \in Nat /\ srv.k \in Requests
    BY <1>0 DEF TypeOK, ServerType, Requests
  <1>5. /\ m \in Messages /\ m.k = srv.k /\ m.i = Len(srv.msgs) + 1
        /\ Len(srv.msgs) = 0 => m.type = "request"
    BY <1>1, <1>4 DEF Messages
  <1> HIDE DEF m
  <1>6. /\ Len(srv'.msgs) = Len(srv.msgs) + 1 /\ Len(srv.msgs) \in Nat
        /\ DOMAIN srv.msgs = 1..Len(srv.msgs) /\ DOMAIN srv'.msgs = 1..(Len(srv.msgs) + 1)
        /\ \A i \in DOMAIN srv.msgs : srv'.msgs[i] = srv.msgs[i]
        /\ srv'.msgs[Len(srv.msgs) + 1] = m
    BY <1>2, <1>4, <1>5
  <1>7. MsgsOK'
    <2>1. ASSUME NEW i \in DOMAIN srv'.msgs
          PROVE  /\ srv'.msgs[i].k = srv.k /\ srv'.msgs[i].i = i
                 /\ i = 1 => srv'.msgs[i].type = "request"
      <3>1. CASE i \in DOMAIN srv.msgs
        BY <1>6, <3>1 DEF Core, MsgsOK
      <3>2. CASE i = Len(srv.msgs) + 1
        <4>1. i = 1 => Len(srv.msgs) = 0
          BY <1>6, <3>2
        <4> QED
          BY <1>5, <1>6, <3>2, <4>1
      <3> QED
        BY <1>6, <2>1, <3>1, <3>2
    <2>2. srv'.delivered <= Len(srv'.msgs)
      BY <1>2, <1>4, <1>6 DEF Core, MsgsOK
    <2> QED
      BY <1>2, <2>1, <2>2 DEF MsgsOK
  <1>8. FetchesOK'
    <2>1. \A f \in fetches : Base(f)' = Base(f) /\ (Live(f)' <=> Live(f))
      BY <1>3 DEF Base, Live
    <2>2. ASSUME NEW f \in fetches, AnswerOK(f)
          PROVE  AnswerOK(f)'
      BY <1>2, <1>6, <2>1, <2>2 DEF AnswerOK
    <2>3. \A f \in fetches : f.after \in Nat
      BY FetchSteps
    <2>4. \A f \in fetches : f.after <= Len(srv.msgs) => f.after <= Len(srv'.msgs)
      BY <1>6, <2>3
    <2> QED
      BY <1>2, <1>3, <2>1, <2>2, <2>4 DEF Core, FetchesOK
  <1>9. PagesOK'
    <2>1. \A p \in Phones : \A x : LastOK(p, x) => LastOK(p, x)'
      BY <1>2, <1>3, <1>6 DEF LastOK
    <2> QED
      BY <1>3, <2>1 DEF Core, PagesOK, InOrder
  <1>10. AsksOK'
    BY <1>2, <1>3 DEF Core, AsksOK, Follows, Base, Live
  <1>11. Straight => Straight'
    BY <1>2, <1>3 DEF Straight, Live
  <1>12. srv'.delivered # Len(srv'.msgs)
    BY <1>2, <1>4, <1>6 DEF Core, MsgsOK
  <1>13. HearOK'
    BY <1>0, <1>2, <1>11, <1>12 DEF HearOK
  <1>14. Opened'
    BY <1>0, <1>2 DEF Opened
  <1> QED
    BY <1>7, <1>8, <1>9, <1>10, <1>13, <1>14 DEF Core

LEMMA OpenServerInv ==
  ASSUME TypeOK, Core, OpenServer
  PROVE  Opened' /\ Core' /\ HearOK'
  <1>1. /\ srv'.k = srv.k + 1 /\ srv'.st = "open" /\ srv'.msgs = <<>>
        /\ srv'.delivered = 0
    BY DEF OpenServer
  <1>2. UNCHANGED <<page, fetches, seen, told, used>>
    BY DEF OpenServer
  <1>3. srv.k \in Nat
    BY DEF TypeOK, ServerType
  <1>4. MsgsOK'
    BY <1>1, <1>3 DEF MsgsOK
  <1>5. \A f \in fetches : /\ f.k \in Nat /\ Base(f)' = Base(f) /\ (Live(f)' <=> Live(f))
                           /\ f.from \in Phones
    BY <1>2, FetchSteps DEF Base, Live
  <1>6. FetchesOK'
    <2>1. ASSUME NEW f \in fetches, f.st # "sent"
          PROVE  f.k <= srv'.k /\ f.k # srv'.k
      BY <1>1, <1>3, <1>5, <2>1 DEF Core, FetchesOK
    <2>2. ASSUME NEW f \in fetches, f.st = "answered"
          PROVE  AnswerOK(f)'
      BY <1>5, <2>1, <2>2 DEF Core, FetchesOK, AnswerOK
    <2> QED
      BY <1>2, <1>5, <2>1, <2>2 DEF Core, FetchesOK
  <1>7. ASSUME NEW p \in Phones, seen[p] # <<>>
        PROVE  Last(seen[p]).k \in Nat /\ Last(seen[p]).k < srv'.k
    <2>1. seen[p] \in Seq(Messages)
      BY DEF TypeOK
    <2>2. Last(seen[p]) \in Messages
      BY <1>7, <2>1 DEF Last
    <2>3. Last(seen[p]).k <= srv.k
      BY <1>7 DEF Core, PagesOK, LastOK
    <2> QED
      BY <1>1, <1>3, <2>2, <2>3 DEF Messages, Requests
  <1>8. PagesOK'
    <2>1. ASSUME NEW p \in Phones, seen[p] # <<>>
          PROVE  LastOK(p, Last(seen[p]))'
      BY <1>2, <1>7, <1>1, <1>3, <2>1 DEF Core, PagesOK, LastOK
    <2> QED
      BY <1>2, <2>1 DEF Core, PagesOK, InOrder
  <1>9. AsksOK'
    <2>1. ASSUME NEW p \in Phones, NEW n, Follows(p, srv.k, n)
          PROVE  Follows(p, srv.k, n)'
      BY <1>2, <1>7, <2>1, <1>1, <1>3 DEF Follows
    <2>2. \A p \in Phones : \A k, n : Follows(p, k, n) => Follows(p, k, n)'
      BY <1>2 DEF Follows
    <2> QED
      BY <1>2, <1>5, <2>1, <2>2 DEF Core, AsksOK
  <1>10. Straight'
    BY <1>1, <1>2, <1>3, <1>5 DEF Straight, Core, FetchesOK
  <1>11. HearOK'
    BY <1>1, <1>10 DEF HearOK, Finished
  <1> QED
    BY <1>1, <1>3, <1>4, <1>6, <1>8, <1>9, <1>11 DEF Core, Opened

LEMMA OpenInv ==
  ASSUME TypeOK, Opened, Core, HearOK, NEW p \in Phones, Open(p)
  PROVE  Opened' /\ Core' /\ HearOK'
  <1>0. page \in [Phones -> Watches] /\ page[p].n \in Nat /\ seen \in [Phones -> Seq(Messages)]
    BY DEF TypeOK, Watches
  <1>1. UNCHANGED <<srv, fetches, told>>
    BY DEF Open
  <1>2. /\ page'[p].n = page[p].n + 1 /\ page'[p].poll = "none" /\ page'[p].next = 0
        /\ \A r \in Phones \ {p} : page'[r] = page[r]
        /\ seen'[p] = <<>> /\ \A r \in Phones \ {p} : seen'[r] = seen[r]
    <2>1. page' = [page EXCEPT ![p] = Watch(page[p].n + 1)] /\ seen' = [seen EXCEPT ![p] = <<>>]
      BY DEF Open
    <2> QED
      BY <1>0, <2>1, WatchType
  <1>3. MsgsOK'
    BY <1>1 DEF Core, MsgsOK
  <1>4. \A f \in fetches : f.from \in Phones /\ f.n \in Nat /\ Base(f)' = Base(f)
    BY <1>1, FetchSteps DEF Base
  <1>5. ASSUME NEW f \in fetches
        PROVE  /\ f.n <= page'[f.from].n
               /\ Live(f)' => f.from # p /\ Live(f)
    BY <1>0, <1>2, <1>4 DEF Core, FetchesOK, Live
  <1>6. FetchesOK'
    <2>1. \A f \in fetches : AnswerOK(f) => AnswerOK(f)'
      BY <1>1, <1>4 DEF AnswerOK
    <2>2. \A r \in Phones : page'[r].poll = "none" => page'[r].n # 0
      BY <1>0, <1>2 DEF Core, FetchesOK
    <2>3. ASSUME NEW f \in fetches, Live(f)'
          PROVE  page'[f.from].poll = "out"
      BY <1>2, <1>4, <1>5, <2>3 DEF Core, FetchesOK
    <2> QED
      BY <1>1, <1>5, <2>1, <2>2, <2>3 DEF Core, FetchesOK
  <1>7. PagesOK'
    <2>1. InOrder(<<>>)
      BY DEF InOrder
    <2>2. ASSUME NEW r \in Phones
          PROVE  InOrder(seen'[r]) /\ (seen'[r] # <<>> => LastOK(r, Last(seen[r]))')
      BY <1>1, <1>2, <2>1 DEF Core, PagesOK, LastOK
    <2> QED
      BY <2>2 DEF PagesOK, InOrder
  <1>8. AsksOK'
    <2>1. \A r \in Phones \ {p} : \A k, n : Follows(r, k, n) => Follows(r, k, n)'
      BY <1>2 DEF Follows
    <2>2. \A k : Follows(p, k, 0)'
      BY <1>2 DEF Follows
    <2> QED
      BY <1>1, <1>2, <1>4, <1>5, <2>1, <2>2 DEF Core, AsksOK
  <1>9. Straight => Straight'
    BY <1>1, <1>2, <1>4, <1>5 DEF Straight
  <1>10. Hears => Hears'
    BY <1>1, <1>5 DEF Hears
  <1>11. Finished' <=> Finished
    BY <1>1 DEF Finished
  <1>12. HearOK' /\ Opened'
    BY <1>1, <1>9, <1>10, <1>11 DEF HearOK, Opened
  <1> QED
    BY <1>3, <1>6, <1>7, <1>8, <1>12 DEF Core

LEMMA SendInv ==
  ASSUME TypeOK, Opened, Core, HearOK, NEW p \in Phones, Send(p)
  PROVE  Opened' /\ Core' /\ HearOK'
  <1>0. page \in [Phones -> Watches] /\ page[p].n \in Nat /\ page[p].poll = "none"
    BY DEF TypeOK, Watches, Send
  <1>1. UNCHANGED <<srv, seen, told, used>>
    BY DEF Send
  <1>2. /\ \A r \in Phones : page'[r].n = page[r].n /\ page'[r].next = page[r].next
        /\ page'[p].poll = "out" /\ \A r \in Phones \ {p} : page'[r] = page[r]
    BY <1>0 DEF Send, Watches
  <1>3. PICK g : /\ fetches' = fetches \cup {g}
                 /\ g.from = p /\ g.n = page[p].n /\ g.st = "sent" /\ g.after = page[p].next
    <2> DEFINE h == [from |-> p, n |-> page[p].n, st |-> "sent", k |-> 0,
                     after |-> page[p].next, ans |-> None]
    <2>1. fetches' = fetches \cup {h}
      BY DEF Send
    <2>2. h.from = p /\ h.n = page[p].n /\ h.st = "sent" /\ h.after = page[p].next
      OBVIOUS
    <2> HIDE DEF h
    <2> QED
      BY <2>1, <2>2
  <1>4. g.from = p /\ g.n = page[p].n /\ g.st = "sent" /\ g.after = page[p].next
    BY <1>3
  <1>5. \A f \in fetches : f.from \in Phones
    BY FetchSteps
  <1>6. ASSUME NEW f \in fetches
        PROVE  /\ Base(f)' = Base(f) /\ (Live(f)' <=> Live(f))
               /\ ~(f.from = p /\ f.n = page[p].n)
    <2>1. Base(f)' = Base(f) /\ (Live(f)' <=> Live(f))
      BY <1>2, <1>5 DEF Base, Live
    <2>2. Live(f) => page[f.from].poll = "out"
      BY DEF Core, FetchesOK
    <2> QED
      BY <1>0, <2>1, <2>2 DEF Live
  <1>7. Base(g)' = page[p].next /\ Live(g)' /\ page[p].n # 0
    BY <1>0, <1>2, <1>4 DEF Base, Live, Core, FetchesOK
  <1>8. MsgsOK'
    BY <1>1 DEF Core, MsgsOK
  <1>9. FetchesOK'
    <2>1. \A f \in fetches : AnswerOK(f) => AnswerOK(f)'
      BY <1>1, <1>6 DEF AnswerOK
    <2>2. ASSUME NEW f \in fetches'
          PROVE  /\ f.n # 0 /\ f.n <= page'[f.from].n
                 /\ f.st # "sent" => /\ f.k # 0 /\ f.k <= srv.k
                                     /\ f.k = srv.k => f.after <= Len(srv.msgs)
                 /\ f.st = "answered" => AnswerOK(f)'
                 /\ Live(f)' => page'[f.from].poll = "out"
      <3>1. CASE f = g
        BY <1>0, <1>2, <1>4, <1>7, <3>1
      <3>2. CASE f \in fetches
        BY <1>2, <1>5, <1>6, <2>1, <3>2 DEF Core, FetchesOK
      <3> QED
        BY <1>3, <3>1, <3>2
    <2>3. \A f, h \in fetches' : f.from = h.from /\ f.n = h.n => f = h
      BY <1>3, <1>4, <1>6 DEF Core, FetchesOK
    <2>4. \A r \in Phones : page'[r].poll = "none" => page'[r].n # 0
      BY <1>2 DEF Core, FetchesOK
    <2> QED
      BY <1>1, <2>2, <2>3, <2>4 DEF FetchesOK
  <1>10. PagesOK'
    BY <1>1 DEF Core, PagesOK, LastOK, InOrder
  <1>11. AsksOK'
    <2>1. Follows(p, srv.k, page[p].next)
      BY <1>0 DEF Core, AsksOK
    <2>3. ASSUME NEW f \in fetches', Live(f)'
          PROVE  Follows(f.from, IF f.st = "sent" THEN srv.k ELSE f.k, Base(f))'
      <3>1. CASE f = g
        BY <1>1, <1>4, <1>7, <2>1, <3>1 DEF Follows
      <3>2. CASE f \in fetches
        BY <1>1, <1>6, <2>3, <3>2 DEF Core, AsksOK, Follows
      <3> QED
        BY <1>3, <3>1, <3>2
    <2>4. \A r \in Phones : page'[r].poll = "none" => Follows(r, srv.k, page[r].next)'
      BY <1>1, <1>2 DEF Core, AsksOK, Follows
    <2> QED
      BY <1>1, <2>3, <2>4 DEF AsksOK
  <1>12. Straight => Straight'
    BY <1>1, <1>3, <1>4, <1>6 DEF Straight
  <1>13. Hears => Hears'
    BY <1>1, <1>3, <1>6 DEF Hears
  <1>14. HearOK' /\ Opened'
    BY <1>1, <1>12, <1>13 DEF HearOK, Opened, Finished
  <1> QED
    BY <1>8, <1>9, <1>10, <1>11, <1>14 DEF Core

-----------------------------------------------------------------------------
(* A fetch at the server.                                                  *)

LEMMA ChangedCore ==
  ASSUME TypeOK, Core, NEW f \in fetches, NEW g,
         fetches' = (fetches \ {f}) \cup {g}, UNCHANGED <<page, seen, told>>,
         srv'.k = srv.k, srv'.msgs = srv.msgs, srv'.delivered <= Len(srv.msgs),
         g.from = f.from, g.n = f.n, g.st # "sent", g.k = srv.k, srv.k # 0,
         g.after <= Len(srv.msgs), g.st = "answered" => AnswerOK(g),
         Live(f) => Follows(f.from, srv.k, Base(g))
  PROVE  Core'
  <1>1. srv.k \in Nat
    BY FetchSteps
  <1>2. \A h : Base(h)' = Base(h) /\ (Live(h)' <=> Live(h)) /\ (AnswerOK(h) => AnswerOK(h)')
    BY DEF Base, Live, AnswerOK
  <1>3. MsgsOK'
    BY DEF Core, MsgsOK
  <1>4. Live(g) <=> Live(f)
    BY DEF Live
  <1>5. FetchesOK'
    <2>1. ASSUME NEW h \in fetches'
          PROVE  /\ h.n # 0 /\ h.n <= page[h.from].n
                 /\ h.st # "sent" => /\ h.k # 0 /\ h.k <= srv.k
                                     /\ h.k = srv.k => h.after <= Len(srv.msgs)
                 /\ h.st = "answered" => AnswerOK(h)
                 /\ Live(h) => page[h.from].poll = "out"
      <3>1. CASE h = g
        BY <1>1, <1>4, <3>1 DEF Core, FetchesOK
      <3>2. CASE h \in fetches
        BY <3>2 DEF Core, FetchesOK
      <3> QED
        BY <2>1, <3>1, <3>2
    <2>2. ASSUME NEW h \in fetches', NEW e \in fetches', h.from = e.from, h.n = e.n
          PROVE  h = e
      <3>1. \A d \in fetches : d.from = f.from /\ d.n = f.n => d = f
        BY DEF Core, FetchesOK
      <3> QED
        BY <2>2, <3>1 DEF Core, FetchesOK
    <2> QED
      BY <1>2, <2>1, <2>2 DEF Core, FetchesOK
  <1>6. PagesOK'
    BY DEF Core, PagesOK, LastOK, InOrder
  <1>7. AsksOK'
    <2>1. ASSUME NEW h \in fetches', Live(h)
          PROVE  Follows(h.from, IF h.st = "sent" THEN srv.k ELSE h.k, Base(h))
      <3>1. CASE h = g
        BY <1>4, <2>1, <3>1
      <3>2. CASE h \in fetches
        BY <2>1, <3>2 DEF Core, AsksOK
      <3> QED
        BY <2>1, <3>1, <3>2
    <2> QED
      BY <1>2, <2>1 DEF Core, AsksOK, Follows
  <1> QED
    BY <1>3, <1>5, <1>6, <1>7 DEF Core

\* The last message of a page, and of the server.
LEMMA LastOf ==
  ASSUME NEW s \in Seq(Messages), s # <<>>
  PROVE  /\ Len(s) \in Nat \ {0} /\ Last(s) = s[Len(s)] /\ Last(s) \in Messages
         /\ Last(s).k \in Requests /\ Last(s).i \in Nat
  <1>1. Len(s) \in Nat \ {0} /\ Last(s) = s[Len(s)] /\ s[Len(s)] \in Messages
    BY DEF Last
  <1> QED
    BY <1>1 DEF Messages

LEMMA ArriveInv ==
  ASSUME TypeOK, Opened, Core, HearOK, NEW f \in fetches, Arrive(f)
  PROVE  Opened' /\ Core' /\ HearOK'
  <1>1. PICK g \in FetchType :
           /\ fetches' = (fetches \ {f}) \cup {g}
           /\ g.from = f.from /\ g.n = f.n /\ g.st = "waiting" /\ g.k = srv.k
           /\ g.after = (IF f.after <= Len(srv.msgs) THEN f.after ELSE Len(srv.msgs))
           /\ srv' \in ServerType
           /\ srv'.k = srv.k /\ srv'.st = srv.st /\ srv'.msgs = srv.msgs
           /\ srv'.delivered = srv.delivered /\ srv'.excused = (srv.excused \/ Strays(f))
    BY Arrived
  <1>2. /\ UNCHANGED <<page, seen, told, used>> /\ f.st = "sent" /\ Listening
        /\ srv.k # 0
    BY DEF Arrive, Opened, Listening
  <1>3. /\ f.after \in Nat /\ Len(srv.msgs) \in Nat /\ f.from \in Phones
        /\ seen[f.from] \in Seq(Messages) /\ srv.k \in Nat
    BY FetchSteps
  <1>4. Base(g) = g.after /\ (Live(f) => Follows(f.from, srv.k, f.after))
    BY <1>1, <1>2 DEF Base, Core, AsksOK
  <1>5. ASSUME Live(f)
        PROVE  Follows(f.from, srv.k, g.after)
    <2>1. CASE seen[f.from] = <<>>
      <3>1. f.after = 0
        BY <1>4, <1>5, <2>1 DEF Follows
      <3>2. g.after = 0
        BY <1>1, <1>3, <3>1
      <3> QED
        BY <2>1, <3>2 DEF Follows
    <2>2. CASE seen[f.from] # <<>>
      <3>1. /\ Last(seen[f.from]).k <= srv.k /\ f.after <= Last(seen[f.from]).i
            /\ Last(seen[f.from]).k = srv.k => Last(seen[f.from]).i = f.after
        BY <1>4, <1>5, <2>2 DEF Follows
      <3>2. Last(seen[f.from]).k = srv.k => f.after <= Len(srv.msgs)
        <4>1. Last(seen[f.from]).k = srv.k => Last(seen[f.from]).i \in DOMAIN srv.msgs
          BY <1>3, <2>2 DEF Core, PagesOK, LastOK
        <4>2. DOMAIN srv.msgs = 1..Len(srv.msgs)
          BY FetchSteps
        <4> QED
          BY <1>3, <3>1, <4>1, <4>2
      <3>3. Last(seen[f.from]).k = srv.k => g.after = f.after
        BY <1>1, <3>2
      <3>4. g.after <= Last(seen[f.from]).i
        BY <1>1, <1>3, <2>2, <3>1, LastOf
      <3> QED
        BY <2>2, <3>1, <3>3, <3>4 DEF Follows
    <2> QED
      BY <2>1, <2>2
  <1>6. Core'
    <2>1. srv'.delivered <= Len(srv.msgs) /\ g.after <= Len(srv.msgs)
      BY <1>1, <1>3 DEF Core, MsgsOK
    <2> QED
      BY <1>1, <1>2, <1>4, <1>5, <2>1, ChangedCore
  <1>7. ~srv'.excused /\ Straight => Straight'
    <2> SUFFICES ASSUME ~srv'.excused, Straight, NEW h \in fetches',
                        h.st = "waiting", h.k = srv.k, h.after # 0, Live(h)
                 PROVE  seen[h.from] # <<>> /\ Last(seen[h.from]).k = srv.k
      BY <1>1, <1>2 DEF Straight, Live
    <2>1. CASE h = g
      <3>1. f.after > 0
        BY <1>1, <1>3, <2>1
      <3>2. ~Strays(f)
        BY <1>1
      <3> QED
        BY <1>1, <2>1, <3>1, <3>2 DEF Strays
    <2>2. CASE h \in fetches
      BY <2>2 DEF Straight
    <2> QED
      BY <1>1, <2>1, <2>2
  <1>8. Hears => Hears'
    <2>1. \A h \in fetches : h.st = "answered" => h \in fetches'
      BY <1>1, <1>2
    <2> QED
      BY <1>1, <1>2, <2>1 DEF Hears, Live
  <1>9. HearOK' /\ Opened'
    BY <1>1, <1>2, <1>7, <1>8 DEF HearOK, Finished, Opened, Listening
  <1> QED
    BY <1>6, <1>9

LEMMA AnswerInv ==
  ASSUME TypeOK, Opened, Core, HearOK, NEW f \in fetches, Answer(f)
  PROVE  Opened' /\ Core' /\ HearOK'
  <1>0. f.st = "waiting" /\ f.k = srv.k /\ srv.st # "down" /\ srv.k # 0
    BY DEF Answer, At, Opened
  <1>1. f.after <= Len(srv.msgs)
    BY <1>0 DEF Core, FetchesOK
  <1>2. PICK g \in FetchType :
           /\ fetches' = (fetches \ {f}) \cup {g}
           /\ g.from = f.from /\ g.n = f.n /\ g.st = "answered" /\ g.k = f.k
           /\ g.after = Len(srv.msgs) /\ g.ans \in Answers
           /\ Len(g.ans.msgs) = Len(srv.msgs) - f.after
           /\ \A i \in DOMAIN g.ans.msgs : g.ans.msgs[i] = srv.msgs[f.after + i]
           /\ srv' \in ServerType
           /\ srv'.k = srv.k /\ srv'.st = srv.st /\ srv'.msgs = srv.msgs
           /\ srv'.polled = srv.polled /\ srv'.delivered = Len(srv.msgs)
           /\ srv'.excused = srv.excused
    BY <1>1, Answered DEF Core
  <1>3. /\ f.after \in Nat /\ f.n \in Nat /\ Len(srv.msgs) \in Nat /\ f.from \in Phones
        /\ seen[f.from] \in Seq(Messages) /\ srv.k \in Nat /\ srv.msgs \in Seq(Messages)
        /\ page[f.from].n \in Nat
    BY FetchSteps DEF Watches
  <1>4. UNCHANGED <<page, seen, told, used>>
    BY DEF Answer
  <1>5. Base(g) = f.after /\ Base(f) = f.after
    BY <1>0, <1>2, <1>3 DEF Base
  <1>6. AnswerOK(g)
    <2>1. ASSUME NEW i \in DOMAIN g.ans.msgs
          PROVE  LET m == g.ans.msgs[i]
                 IN  /\ m.k = g.k /\ m.i = Base(g) + i
                     /\ m.i = 1 => m.type = "request"
                     /\ g.k = srv.k => m.i \in DOMAIN srv.msgs /\ m = srv.msgs[m.i]
      <3>1. DOMAIN g.ans.msgs = 1..Len(g.ans.msgs)
        BY <1>2 DEF Answers
      <3>2. f.after + i \in DOMAIN srv.msgs
        BY <1>1, <1>2, <1>3, <3>1
      <3>3. /\ srv.msgs[f.after + i].k = srv.k /\ srv.msgs[f.after + i].i = f.after + i
            /\ f.after + i = 1 => srv.msgs[f.after + i].type = "request"
        BY <3>2 DEF Core, MsgsOK
      <3> QED
        BY <1>0, <1>2, <1>5, <3>2, <3>3
    <2>2. Len(g.ans.msgs) <= g.after
      BY <1>1, <1>2, <1>3
    <2> QED
      BY <1>2, <2>1, <2>2 DEF AnswerOK
  <1>7. Core'
    <2>1. Live(f) => Follows(f.from, srv.k, Base(g))
      BY <1>0, <1>5 DEF Core, AsksOK
    <2>2. srv'.delivered <= Len(srv.msgs) /\ g.after <= Len(srv.msgs)
      BY <1>2, <1>3
    <2> QED
      BY <1>0, <1>2, <1>4, <1>6, <2>1, <2>2, ChangedCore
  <1>8. Straight => Straight'
    BY <1>2, <1>4 DEF Straight, Live
  <1>9. ASSUME Straight, Finished
         PROVE  Hears'
    <2>1. CASE g.ans.msgs # <<>>
      BY <1>0, <1>2, <2>1 DEF Hears
    <2>2. CASE ~Live(f)
      BY <1>0, <1>2, <1>4, <2>2 DEF Hears, Live
    <2>3. CASE Live(f) /\ g.ans.msgs = <<>>
      <3> DEFINE m == Last(seen[f.from])
      <3>1. f.after = Len(srv.msgs) /\ f.after # 0
        <4>1. Len(g.ans.msgs) = 0
          BY <2>3
        <4>2. Len(srv.msgs) # 0
          BY <1>3, <1>9 DEF Finished
        <4> QED
          BY <1>2, <1>3, <4>1, <4>2
      <3>2. seen[f.from] # <<>> /\ m.k = srv.k
        BY <1>0, <1>9, <2>3, <3>1 DEF Straight
      <3>3. m.i = Len(srv.msgs)
        <4>1. Follows(f.from, srv.k, f.after)
          BY <1>0, <1>5, <2>3 DEF Core, AsksOK
        <4> QED
          BY <3>1, <3>2, <4>1 DEF Follows
      <3>4. m = srv.msgs[m.i] /\ (m.type = "done" => f.from \in told[m.k])
        BY <1>3, <3>2 DEF Core, PagesOK, LastOK
      <3>5. srv.msgs # <<>> /\ Last(srv.msgs).type = "done"
        BY <1>9 DEF Finished
      <3>6. m.type = "done"
        <4>1. Last(srv.msgs) = srv.msgs[Len(srv.msgs)]
          BY <1>3, <3>5, LastOf
        <4> HIDE DEF m
        <4> QED
          BY <3>3, <3>4, <3>5, <4>1
      <3>7. f.from \in told[srv.k]
        BY <3>2, <3>4, <3>6
      <3> QED
        BY <1>2, <1>4, <3>7 DEF Hears
    <2> QED
      BY <2>1, <2>2, <2>3
  <1>10. HearOK' /\ Opened'
    BY <1>2, <1>4, <1>8, <1>9 DEF HearOK, Finished, Opened
  <1> QED
    BY <1>7, <1>10

LEMMA TimesOutInv ==
  ASSUME TypeOK, Opened, Core, HearOK, NEW f \in fetches, TimesOut(f)
  PROVE  Opened' /\ Core' /\ HearOK'
  <1>0. /\ f.st = "waiting" /\ f.k = srv.k /\ srv.st # "down" /\ srv.k # 0
        /\ f.after <= Len(srv.msgs)
    BY DEF TimesOut, At, Opened, Core, FetchesOK
  <1>1. PICK g \in FetchType :
           /\ fetches' = (fetches \ {f}) \cup {g}
           /\ g.from = f.from /\ g.n = f.n /\ g.st = "answered" /\ g.k = f.k
           /\ g.after = f.after /\ g.ans \in Answers /\ g.ans.msgs = <<>>
    BY TimedOut
  <1>2. UNCHANGED <<srv, page, seen, told, used>>
    BY DEF TimesOut
  <1>3. f.after \in Nat /\ Len(srv.msgs) \in Nat
    BY FetchSteps
  <1>4. Base(g) = f.after /\ Base(f) = f.after
    BY <1>0, <1>1, <1>3 DEF Base
  <1>5. AnswerOK(g)
    BY <1>1, <1>3 DEF AnswerOK
  <1>6. Core'
    <2>1. Live(f) => Follows(f.from, srv.k, Base(g))
      BY <1>0, <1>4 DEF Core, AsksOK
    <2>2. srv'.delivered <= Len(srv.msgs) /\ g.after <= Len(srv.msgs)
      BY <1>0, <1>1, <1>2, <1>3 DEF Core, MsgsOK
    <2> QED
      BY <1>0, <1>1, <1>2, <1>5, <2>1, <2>2, ChangedCore
  <1>7. Straight => Straight'
    BY <1>1, <1>2 DEF Straight, Live
  <1>8. Hears => Hears'
    <2>1. \A h \in fetches : h.st = "answered" => h \in fetches'
      BY <1>0, <1>1
    <2> QED
      BY <1>2, <2>1 DEF Hears, Live
  <1>9. HearOK' /\ Opened'
    BY <1>2, <1>7, <1>8 DEF HearOK, Finished, Opened
  <1> QED
    BY <1>6, <1>9

-----------------------------------------------------------------------------
(* A fetch that ends.                                                      *)

\* Messages of request k, in order, that come after b others.
Numbered(t, k, b) ==
  \A i \in DOMAIN t : /\ t[i].k = k /\ t[i].i = b + i
                      /\ t[i].i = 1 => t[i].type = "request"

\* What a page has goes on with what it gets.
LEMMA Joined ==
  ASSUME NEW s \in Seq(Messages), NEW t \in Seq(Messages), NEW k \in Nat, NEW b \in Nat,
         InOrder(s),
         Numbered(t, k, b),
         s = <<>> => b = 0,
         s # <<>> => Last(s).k <= k /\ b <= Last(s).i /\ (Last(s).k = k => Last(s).i = b)
  PROVE  InOrder(s \o t)
  <1> DEFINE j == s \o t
  <1>1. /\ j \in Seq(Messages) /\ Len(s) \in Nat /\ Len(t) \in Nat /\ Len(j) = Len(s) + Len(t)
        /\ \A i \in 1..Len(s) : j[i] = s[i]
        /\ \A i \in 1..Len(t) : j[Len(s) + i] = t[i]
    OBVIOUS
  <1> HIDE DEF j
  <1>2. \A i \in 1..Len(t) : /\ t[i].k = k /\ t[i].i = b + i
                             /\ t[i].i = 1 => t[i].type = "request"
    <2>1. DOMAIN t = 1..Len(t)
      OBVIOUS
    <2>2. Numbered(t, k, b)
      OBVIOUS
    <2> QED
      BY <2>1, <2>2 DEF Numbered
  <1>3. ASSUME j # <<>>
        PROVE  j[1].type = "request" /\ j[1].i = 1
    <2>1. CASE s = <<>>
      <3>1. Len(s) = 0 /\ b = 0
        BY <2>1
      <3>2. 1 \in 1..Len(t)
        BY <1>1, <1>3, <3>1
      <3>3. j[1] = t[1]
        BY <1>1, <3>1, <3>2
      <3>4. t[1].i = 1
        BY <1>2, <3>1, <3>2
      <3> QED
        BY <1>2, <3>2, <3>3, <3>4
    <2>2. CASE s # <<>>
      <3>1. 1 \in 1..Len(s)
        BY <1>1, <2>2
      <3> QED
        BY <1>1, <2>2, <3>1 DEF InOrder
    <2> QED
      BY <2>1, <2>2
  <1>4. ASSUME NEW i \in 1..(Len(j) - 1)
        PROVE  IF j[i].k = j[i + 1].k THEN j[i + 1].i = j[i].i + 1
               ELSE j[i + 1].k > j[i].k /\ j[i + 1].i <= j[i].i + 1
    <2>1. CASE i < Len(s)
      <3>1. i \in 1..Len(s) /\ i + 1 \in 1..Len(s) /\ i \in 1..(Len(s) - 1)
        BY <1>1, <2>1
      <3>2. j[i] = s[i] /\ j[i + 1] = s[i + 1]
        BY <1>1, <3>1
      <3> QED
        BY <3>1, <3>2 DEF InOrder
    <2>2. CASE i = Len(s)
      <3>1. i \in 1..Len(s) /\ 1 \in 1..Len(t) /\ s # <<>>
        BY <1>1, <2>2
      <3>2. j[i] = s[Len(s)] /\ j[i + 1] = t[1]
        BY <1>1, <2>2, <3>1
      <3>3. s[Len(s)] = Last(s) /\ Last(s).k \in Nat /\ Last(s).i \in Nat
        BY <3>1, LastOf DEF Requests
      <3>4. t[1].k = k /\ t[1].i = b + 1
        BY <1>2, <3>1
      <3>5. Last(s).k <= k /\ b <= Last(s).i /\ (Last(s).k = k => Last(s).i = b)
        BY <3>1
      <3> QED
        BY <3>2, <3>3, <3>4, <3>5
    <2>3. CASE i > Len(s)
      <3> DEFINE n == i - Len(s)
      <3>1. n \in 1..Len(t) /\ n + 1 \in 1..Len(t) /\ i = Len(s) + n /\ i + 1 = Len(s) + (n + 1)
        <4>1. i \in Nat /\ i + 1 <= Len(s) + Len(t)
          BY <1>1
        <4> QED
          BY <1>1, <2>3, <4>1
      <3> HIDE DEF n
      <3>2. j[i] = t[n] /\ j[i + 1] = t[n + 1]
        BY <1>1, <3>1
      <3>3. t[n].k = k /\ t[n].i = b + n /\ t[n + 1].k = k /\ t[n + 1].i = b + (n + 1)
        BY <1>2, <3>1
      <3> QED
        BY <3>1, <3>2, <3>3
    <2> QED
      BY <1>1, <1>4, <2>1, <2>2, <2>3
  <1> QED
    BY <1>3, <1>4 DEF InOrder, j

LEMMA LastJoined ==
  ASSUME NEW s \in Seq(Messages), NEW t \in Seq(Messages)
  PROVE  /\ s \o t \in Seq(Messages)
         /\ t = <<>> => s \o t = s
         /\ t # <<>> => /\ s \o t # <<>> /\ Last(s \o t) = t[Len(t)]
                        /\ Len(t) \in DOMAIN t
  <1> DEFINE j == s \o t
  <1>1. /\ j \in Seq(Messages) /\ Len(s) \in Nat /\ Len(t) \in Nat /\ Len(j) = Len(s) + Len(t)
        /\ \A i \in 1..Len(t) : j[Len(s) + i] = t[i]
        /\ (t = <<>> => j = s)
    OBVIOUS
  <1> HIDE DEF j
  <1>2. ASSUME t # <<>>
        PROVE  j # <<>> /\ Last(j) = t[Len(t)] /\ Len(t) \in DOMAIN t
    <2>1. Len(t) \in 1..Len(t) /\ Len(j) # 0
      BY <1>1, <1>2
    <2> QED
      BY <1>1, <2>1 DEF Last
  <1> QED
    BY <1>1, <1>2 DEF j

\* A Watch whose fetch has ended has none left.
LEMMA EndedFetches ==
  ASSUME TypeOK, Core, NEW f \in fetches, fetches' = fetches \ {f},
         srv'.k = srv.k, srv'.msgs = srv.msgs, srv'.delivered = srv.delivered, page' \in [Phones -> Watches],
         \A p \in Phones \ {f.from} : page'[p] = page[p],
         page'[f.from].n = page[f.from].n, Live(f)
  PROVE  /\ MsgsOK' /\ FetchesOK'
         /\ \A h \in fetches' : (Live(h)' <=> Live(h)) /\ Base(h)' = Base(h) /\ (AnswerOK(h)' <=> AnswerOK(h))
         /\ \A h \in fetches' : Live(h) => h.from # f.from
  <1>1. \A h \in fetches : h.from \in Phones
    BY FetchSteps
  <1>2. \A h \in fetches' : (Live(h)' <=> Live(h)) /\ Base(h)' = Base(h)
    BY <1>1 DEF Live, Base
  <1>3. \A h \in fetches' : AnswerOK(h)' <=> AnswerOK(h)
    BY <1>2 DEF AnswerOK
  <1>4. \A h \in fetches' : Live(h) => h.from # f.from
    BY DEF Core, FetchesOK, Live
  <1>5. MsgsOK'
    BY DEF Core, MsgsOK
  <1>6. FetchesOK'
    <2>1. ASSUME NEW h \in fetches'
          PROVE  /\ h.n # 0 /\ h.n <= page'[h.from].n
                 /\ h.st # "sent" => /\ h.k # 0 /\ h.k <= srv.k
                                     /\ h.k = srv.k => h.after <= Len(srv.msgs)
                 /\ h.st = "answered" => AnswerOK(h)
                 /\ Live(h) => page'[h.from].poll = "out"
      BY <1>1, <1>4 DEF Core, FetchesOK
    <2>2. \A h, e \in fetches' : h.from = e.from /\ h.n = e.n => h = e
      BY DEF Core, FetchesOK
    <2>3. page[f.from].n # 0
      BY DEF Core, FetchesOK, Live
    <2>4. \A p \in Phones : page'[p].poll = "none" => page'[p].n # 0
      BY <2>3 DEF Core, FetchesOK
    <2> QED
      BY <1>2, <1>3, <2>1, <2>2, <2>4 DEF FetchesOK
  <1> QED
    BY <1>2, <1>3, <1>4, <1>5, <1>6

LEMMA ReceiveInv ==
  ASSUME TypeOK, Opened, Core, HearOK, NEW f \in fetches, Receive(f)
  PROVE  Opened' /\ Core' /\ HearOK'
  <1> DEFINE p == f.from
             t == f.ans.msgs
             s == seen[p]
  <1>0. /\ f.st = "answered" /\ Live(f) /\ AnswerOK(f) /\ f.ans \in Answers
        /\ f.k # 0 /\ f.k <= srv.k /\ (f.k = srv.k => f.after <= Len(srv.msgs))
    BY DEF Receive, Live, Core, FetchesOK, AnswerOK
  <1>1. /\ page' \in [Phones -> Watches]
        /\ \A r \in Phones \ {p} : page'[r] = page[r]
        /\ page'[p].n = page[p].n /\ page'[p].next = f.after
        /\ seen' = [seen EXCEPT ![p] = seen[p] \o t]
        /\ told' \in [Requests -> SUBSET Phones]
        /\ \A k \in Requests : told[k] \subseteq told'[k]
        /\ \A i \in DOMAIN t : t[i].type = "done" => p \in told'[t[i].k]
    BY <1>0, Received1
  <1>2. UNCHANGED <<srv, used>> /\ fetches' = fetches \ {f}
    BY DEF Receive
  <1>3. /\ p \in Phones /\ f.after \in Nat /\ s \in Seq(Messages) /\ t \in Seq(Messages)
        /\ f.k \in Nat /\ srv.k \in Nat /\ Len(t) \in Nat /\ srv.msgs \in Seq(Messages)
        /\ Len(srv.msgs) \in Nat /\ seen \in [Phones -> Seq(Messages)]
    BY <1>0, FetchSteps DEF Answers
  <1>4. PICK b \in Nat : /\ b = Base(f) /\ b + Len(t) = f.after
                         /\ \A i \in DOMAIN t :
                              /\ t[i].k = f.k /\ t[i].i = b + i
                              /\ t[i].i = 1 => t[i].type = "request"
                              /\ f.k = srv.k => t[i].i \in DOMAIN srv.msgs
                                                /\ t[i] = srv.msgs[t[i].i]
    <2>1. Len(t) <= f.after /\ Base(f) = f.after - Len(t)
      BY <1>0 DEF AnswerOK, Base
    <2>2. Base(f) \in Nat /\ Base(f) + Len(t) = f.after
      BY <1>3, <2>1
    <2>3. \A i \in DOMAIN t :
             /\ t[i].k = f.k /\ t[i].i = Base(f) + i
             /\ t[i].i = 1 => t[i].type = "request"
             /\ f.k = srv.k => t[i].i \in DOMAIN srv.msgs /\ t[i] = srv.msgs[t[i].i]
      BY <1>0 DEF AnswerOK
    <2> QED
      BY <2>2, <2>3
  <1>5. /\ s = <<>> => b = 0
        /\ s # <<>> => Last(s).k <= f.k /\ b <= Last(s).i /\ (Last(s).k = f.k => Last(s).i = b)
    <2>1. Follows(p, f.k, b)
      BY <1>0, <1>4 DEF Core, AsksOK
    <2> QED
      BY <2>1 DEF Follows
  <1>6. /\ MsgsOK' /\ FetchesOK'
        /\ \A h \in fetches' : (Live(h)' <=> Live(h)) /\ Base(h)' = Base(h)
        /\ \A h \in fetches' : Live(h) => h.from # p
    BY <1>0, <1>1, <1>2, EndedFetches
  <1>7. seen'[p] = s \o t /\ \A r \in Phones \ {p} : seen'[r] = seen[r]
    BY <1>1, <1>3
  <1>8. /\ s \o t \in Seq(Messages)
        /\ t = <<>> => s \o t = s
        /\ t # <<>> => /\ s \o t # <<>> /\ Last(s \o t) = t[Len(t)] /\ Len(t) \in DOMAIN t
    BY <1>3, LastJoined
  <1>9. PagesOK'
    <2>1. InOrder(s \o t)
      <3>1. InOrder(s)
        BY <1>3 DEF Core, PagesOK
      <3>2. Numbered(t, f.k, b)
        BY <1>4 DEF Numbered
      <3> HIDE DEF s, t
      <3> QED
        BY <1>3, <1>5, <3>1, <3>2, Joined
    <2>2. \A r \in Phones : \A m \in Messages : LastOK(r, m) => LastOK(r, m)'
      BY <1>1, <1>2 DEF LastOK, Messages
    <2>3. ASSUME t # <<>>
          PROVE  LastOK(p, t[Len(t)])'
      <3>1. Len(t) \in DOMAIN t
        BY <1>8, <2>3
      <3> QED
        BY <1>0, <1>1, <1>2, <1>4, <3>1 DEF LastOK
    <2>4. ASSUME NEW r \in Phones, seen[r] # <<>>
          PROVE  LastOK(r, Last(seen[r])) /\ Last(seen[r]) \in Messages
      BY <1>3, <2>4, LastOf DEF Core, PagesOK
    <2>5. ASSUME NEW r \in Phones
          PROVE  InOrder(seen'[r]) /\ (seen'[r] # <<>> => LastOK(r, Last(seen[r]))')
      <3>1. CASE r # p
        BY <1>7, <2>2, <2>4, <3>1 DEF Core, PagesOK
      <3>2. CASE r = p /\ t # <<>>
        BY <1>7, <1>8, <2>1, <2>3, <3>2 DEF LastOK
      <3>3. CASE r = p /\ t = <<>>
        <4>1. seen'[p] = seen[p]
          BY <1>7, <1>8, <3>3
        <4> QED
          BY <2>1, <2>2, <2>4, <3>3, <4>1, <1>8 DEF LastOK
      <3> QED
        BY <3>1, <3>2, <3>3
    <2> QED
      BY <2>5 DEF PagesOK, InOrder
  <1>10. AsksOK'
    <2>1. \A r \in Phones \ {p} : \A k, n : Follows(r, k, n) => Follows(r, k, n)'
      BY <1>7 DEF Follows
    <2>2. Follows(p, srv.k, f.after)'
      <3>1. CASE t # <<>>
        <4>1. Len(t) \in DOMAIN t /\ seen'[p] # <<>> /\ Last(seen'[p]) = t[Len(t)]
          BY <1>7, <1>8, <3>1
        <4>2. t[Len(t)].k = f.k /\ t[Len(t)].i = f.after
          BY <1>4, <4>1
        <4> QED
          BY <1>0, <1>2, <1>3, <4>1, <4>2 DEF Follows
      <3>2. CASE t = <<>>
        <4>1. seen'[p] = s /\ b = f.after
          BY <1>3, <1>4, <1>7, <1>8, <3>2
        <4>2. CASE s = <<>>
          BY <1>5, <4>1, <4>2 DEF Follows
        <4>3. CASE s # <<>>
          <5>1. /\ Last(s).k \in Nat /\ Last(s).k <= f.k /\ b <= Last(s).i
                /\ Last(s).k = f.k => Last(s).i = b
            BY <1>3, <1>5, <4>3, LastOf DEF Requests
          <5> HIDE DEF s
          <5>2. Last(s).k <= srv.k /\ b <= Last(s).i /\ (Last(s).k = srv.k => Last(s).i = b)
            BY <1>0, <1>3, <5>1
          <5> QED
            BY <1>2, <4>1, <4>3, <5>2 DEF Follows
        <4> QED
          BY <4>2, <4>3
      <3> QED
        BY <3>1, <3>2
    <2>3. ASSUME NEW r \in Phones, page'[r].poll = "none"
          PROVE  Follows(r, srv.k, page[r].next)'
      <3>1. CASE r = p
        BY <1>1, <2>2, <3>1
      <3>2. CASE r # p
        BY <1>1, <1>2, <2>1, <2>3, <3>2 DEF Core, AsksOK
      <3> QED
        BY <3>1, <3>2
    <2>4. ASSUME NEW h \in fetches', Live(h)
          PROVE  Follows(h.from, IF h.st = "sent" THEN srv.k ELSE h.k, Base(h))'
      <3>1. h \in fetches /\ h.from \in Phones \ {p}
        BY <1>2, <1>6, <2>4, FetchSteps
      <3> QED
        BY <1>2, <1>6, <2>1, <2>4, <3>1 DEF Core, AsksOK
    <2> QED
      BY <1>6, <2>3, <2>4 DEF AsksOK
  <1>11. Straight => Straight'
    <2>1. ASSUME NEW h \in fetches', Live(h)
          PROVE  seen'[h.from] = seen[h.from]
      BY <1>2, <1>6, <1>7, <2>1, FetchSteps
    <2> QED
      BY <1>2, <1>6, <2>1 DEF Straight
  <1>12. Finished /\ Hears => Hears'
    <2> SUFFICES ASSUME Finished, Hears PROVE Hears'
      OBVIOUS
    <2>0. srv.k \in Requests
      BY <1>0, <1>3 DEF TypeOK, ServerType, Requests
    <2>1. CASE told[srv.k] # {}
      BY <1>1, <1>2, <2>0, <2>1 DEF Hears
    <2>2. ASSUME NEW h \in fetches,
                 h.st = "answered" /\ h.k = srv.k /\ h.after = Len(srv.msgs),
                 Live(h) => h.ans.msgs # <<>>
          PROVE  Hears'
      <3>1. CASE h # f
        BY <1>2, <1>6, <2>2, <3>1 DEF Hears
      <3>2. CASE h = f
        <4>1. Len(t) \in DOMAIN t /\ f.k = srv.k /\ f.after = Len(srv.msgs)
          BY <1>0, <1>8, <2>2, <3>2
        <4>2. t[Len(t)].i = Len(srv.msgs) /\ t[Len(t)] = srv.msgs[Len(srv.msgs)] /\ t[Len(t)].k = srv.k
          BY <1>4, <4>1
        <4>3. srv.msgs[Len(srv.msgs)].type = "done"
          BY <1>3, LastOf DEF Finished
        <4>4. p \in told'[srv.k]
          BY <1>1, <4>1, <4>2, <4>3
        <4> QED
          BY <1>2, <4>4 DEF Hears
      <3> QED
        BY <3>1, <3>2
    <2> QED
      BY <2>1, <2>2 DEF Hears
  <1>13. HearOK' /\ Opened'
    BY <1>2, <1>11, <1>12 DEF HearOK, Finished, Opened
  <1> QED
    BY <1>6, <1>9, <1>10, <1>13 DEF Core

LEMMA GivenInv ==
  ASSUME TypeOK, Opened, Core, HearOK, NEW f \in fetches,
         Fails(f) \/ Unenrolled(f) \/ AnswerLost(f)
  PROVE  Opened' /\ Core' /\ HearOK'
  <1>1. /\ f.n = page[f.from].n /\ fetches' = fetches \ {f}
        /\ UNCHANGED <<seen, told>>
        /\ page' \in [Phones -> Watches]
        /\ \A p \in Phones \ {f.from} : page'[p] = page[p]
        /\ page'[f.from].n = page[f.from].n /\ page'[f.from].poll = "over"
        /\ f.st = "answered" /\ LastWord(f) => srv'.excused
    BY Given
  <1>2. /\ srv'.k = srv.k /\ srv'.st = srv.st /\ srv'.msgs = srv.msgs /\ srv'.polled = srv.polled
        /\ srv'.delivered = srv.delivered /\ (srv.excused => srv'.excused)
    BY Given DEF Kept
  <1>3. Live(f) /\ f.from \in Phones
    BY <1>1, FetchSteps DEF Live
  <1>4. /\ MsgsOK' /\ FetchesOK'
        /\ \A h \in fetches' : (Live(h)' <=> Live(h)) /\ Base(h)' = Base(h)
        /\ \A h \in fetches' : Live(h) => h.from # f.from
    BY <1>1, <1>2, <1>3, EndedFetches
  <1>5. PagesOK'
    BY <1>1, <1>2 DEF Core, PagesOK, LastOK, InOrder
  <1>6. AsksOK'
    <2>1. ASSUME NEW p \in Phones, page'[p].poll = "none"
          PROVE  page[p].poll = "none" /\ page'[p].next = page[p].next
      BY <1>1, <2>1
    <2>2. \A h \in fetches' : h \in fetches
      BY <1>1
    <2> QED
      BY <1>1, <1>2, <1>4, <2>1, <2>2 DEF Core, AsksOK, Follows
  <1>7. Straight => Straight'
    BY <1>1, <1>2, <1>4 DEF Straight
  <1>8. Hears /\ ~srv'.excused => Hears'
    BY <1>1, <1>2, <1>4 DEF Hears, LastWord
  <1>9. HearOK' /\ Opened'
    BY <1>2, <1>7, <1>8 DEF HearOK, Finished, Opened
  <1> QED
    BY <1>4, <1>5, <1>6, <1>9 DEF Core

LEMMA AbandonedInv ==
  ASSUME TypeOK, Opened, Core, HearOK, NEW f \in fetches, Abandoned(f)
  PROVE  Opened' /\ Core' /\ HearOK'
  <1>1. UNCHANGED <<page, seen, told>> /\ fetches' = fetches \ {f} /\ ~Live(f)
    BY DEF Abandoned, Live
  <1>2. /\ srv'.k = srv.k /\ srv'.st = srv.st /\ srv'.msgs = srv.msgs /\ srv'.polled = srv.polled
        /\ srv'.delivered = srv.delivered /\ (srv.excused \/ LastWord(f) => srv'.excused)
    BY ExcusedOnly DEF Abandoned, Kept
  <1>3. MsgsOK' /\ PagesOK'
    BY <1>1, <1>2 DEF Core, MsgsOK, PagesOK, LastOK, InOrder
  <1>4. FetchesOK'
    BY <1>1, <1>2 DEF Core, FetchesOK, Live, AnswerOK, Base
  <1>5. AsksOK'
    BY <1>1, <1>2 DEF Core, AsksOK, Follows, Live, Base
  <1>6. Straight => Straight'
    BY <1>1, <1>2 DEF Straight, Live
  <1>7. Hears /\ ~srv'.excused => Hears'
    BY <1>1, <1>2 DEF Hears, Live, LastWord
  <1>8. HearOK' /\ Opened'
    BY <1>2, <1>6, <1>7 DEF HearOK, Finished, Opened
  <1> QED
    BY <1>3, <1>4, <1>5, <1>8 DEF Core

-----------------------------------------------------------------------------
(* Requests that have ended.                                               *)

LEMMA DecidedInv ==
  ASSUME TypeOK, EndedOK, srv'.k = srv.k, srv.msgs # <<>> => srv'.msgs # <<>>,
         UNCHANGED ended \/ (Undecided /\ \E by : Decide(by))
  PROVE  EndedOK'
  <1> SUFFICES ASSUME NEW k \in Requests, ended'[k].over
               PROVE  k <= srv.k /\ (k = srv.k => srv'.msgs # <<>>)
    BY DEF EndedOK
  <1>1. CASE ended[k].over
    BY <1>1 DEF EndedOK
  <1>2. CASE ~ended[k].over
    <2>1. Undecided /\ k = srv.k
      BY <1>2 DEF Decide, TypeOK
    <2> QED
      BY <2>1 DEF Undecided, Requests
  <1> QED
    BY <1>1, <1>2

LEMMA EndedInv ==
  ASSUME TypeOK, Opened, EndedOK, MsgsOK, FetchesOK, Next
  PROVE  EndedOK'
  <1>0. srv \in ServerType /\ srv.k \in Nat /\ srv.msgs \in Seq(Messages)
    BY DEF TypeOK, ServerType
  <1>1. CASE OpenServer
    BY <1>0, <1>1 DEF OpenServer, EndedOK, Requests
  <1>2. CASE StartSession \/ Status \/ Finish
    <2>1. UNCHANGED ended /\ \E type \in {"request", "status", "done"} : Write(type)
      BY <1>2 DEF StartSession, Status, Finish
    <2>2. srv.k # 0
      BY <1>2 DEF StartSession, Status, Finish, Undecided, Opened
    <2>3. srv'.k = srv.k /\ srv'.msgs # <<>>
      BY <1>0, <2>1, <2>2, WriteType
    <2> QED
      BY <2>1, <2>3, DecidedInv
  <1>3. CASE \/ DecidedElsewhere \/ TakeUnlock \/ StartFails \/ BeginClose \/ Drained
             \/ DrainExpires \/ Down \/ Killed
    <2>1. UNCHANGED ended \/ (Undecided /\ \E by : Decide(by))
      BY <1>3 DEF DecidedElsewhere, TakeUnlock, StartFails, BeginClose, Drained, DrainExpires,
         Down, Killed
    <2>2. srv'.k = srv.k /\ srv'.msgs = srv.msgs
      BY <1>3, StepsAreCalm DEF Calm
    <2> QED
      BY <2>1, <2>2, DecidedInv
  <1>4. CASE \E p \in Phones : Open(p) \/ Send(p) \/ PressApprove(p) \/ PressDeny(p)
    <2>1. UNCHANGED <<srv, ended>>
      BY <1>4 DEF Open, Send, PressApprove, PressDeny, Press
    <2> QED
      BY <2>1, DecidedInv
  <1>5. ASSUME NEW f \in fetches, Fetching(f) \/ AnswerLost(f) \/ Abandoned(f)
        PROVE  EndedOK'
    <2>1. UNCHANGED ended
      BY <1>5 DEF Fetching, Arrive, Answer, TimesOut, Receive, Fails, Unenrolled, AnswerLost,
         Abandoned, Gives
    <2>2. srv'.k = srv.k /\ srv'.msgs = srv.msgs
      BY <1>0, <1>5 DEF Fetching, Arrive, Answer, TimesOut, Receive, Fails, Unenrolled, AnswerLost,
         Abandoned, ServerType
    <2> QED
      BY <2>1, <2>2, DecidedInv
  <1>6. ASSUME NEW q \in posts, Posting(q) \/ UnlockLost(q)
        PROVE  EndedOK'
    <2>1. UNCHANGED ended \/ (Undecided /\ Decide(q))
      BY <1>6 DEF Posting, Touched, KeyFails, UnlockArrives, UnlockRefused, UnlockLost, DenyArrives,
         DenyFails, Back
    <2>2. srv'.k = srv.k /\ srv'.msgs = srv.msgs
      BY <1>6, PostSteps
    <2> QED
      BY <2>1, <2>2, DecidedInv
  <1> QED
    BY <1>1, <1>2, <1>3, <1>4, <1>5, <1>6 DEF Next, Serving

-----------------------------------------------------------------------------
(* The theorems.                                                           *)

LEMMA InitInv == Init => PageInv
  <1> SUFFICES ASSUME Init PROVE PageInv
    OBVIOUS
  <1>1. TypeOK
    BY TypeInit
  <1>2. /\ srv.k = 0 /\ srv.st = "down" /\ srv.msgs = <<>> /\ ~srv.polled /\ srv.delivered = 0
        /\ fetches = {} /\ \A p \in Phones : seen[p] = <<>> /\ page[p].poll = "over"
    <2>1. Watch(0) \in Watches
      BY WatchType
    <2>2. [Watch(0) EXCEPT !.poll = "over", !.phase = "idle"].poll = "over"
      BY <2>1 DEF Watches
    <2> QED
      BY <2>2 DEF Init
  <1>3. Opened /\ MsgsOK /\ EndedOK
    BY <1>2 DEF Opened, MsgsOK, EndedOK, Init
  <1>4. FetchesOK /\ AsksOK
    BY <1>2 DEF FetchesOK, AsksOK
  <1>5. PagesOK
    BY <1>2 DEF PagesOK, InOrder
  <1>6. HearOK
    BY <1>2 DEF HearOK, Straight, Finished
  <1> QED
    BY <1>1, <1>3, <1>4, <1>5, <1>6 DEF PageInv, Core

LEMMA NextInv == PageInv /\ [Next]_vars => PageInv'
  <1> SUFFICES ASSUME PageInv, [Next]_vars PROVE PageInv'
    OBVIOUS
  <1>0. TypeOK /\ Opened /\ EndedOK /\ Core /\ HearOK /\ MsgsOK /\ FetchesOK
    BY DEF PageInv, Core
  <1>1. CASE UNCHANGED vars
    BY <1>1 DEF vars, PageInv, TypeOK, Opened, EndedOK, Core, MsgsOK, FetchesOK, AnswerOK, Base,
       Live, PagesOK, InOrder, LastOK, AsksOK, Follows, HearOK, Finished, Straight, Hears
  <1>2. Next => EndedOK'
    BY <1>0, EndedInv
  <1> SUFFICES ASSUME Next PROVE TypeOK' /\ Opened' /\ Core' /\ HearOK'
    BY <1>1, <1>2 DEF PageInv
  <1>3. CASE OpenServer
    BY <1>0, <1>3, TypeServer, OpenServerInv
  <1>4. CASE Status
    BY <1>0, <1>4, TypeStatus, WriteInv
  <1>5. CASE TakeUnlock \/ StartFails \/ Killed
    BY <1>0, <1>5, TypeServer, CalmInv
  <1>6. CASE Serving
    <2>1. TypeOK'
      BY <1>0, <1>6, TypeServer
    <2>2. CASE StartSession \/ Finish
      BY <1>0, <2>1, <2>2, WriteInv
    <2>3. CASE BeginClose \/ Drained \/ DrainExpires \/ Down \/ DecidedElsewhere
      BY <1>0, <2>1, <2>3, CalmInv
    <2> QED
      BY <1>6, <2>2, <2>3 DEF Serving
  <1>7. ASSUME NEW p \in Phones, Open(p) \/ Send(p) \/ PressApprove(p) \/ PressDeny(p)
        PROVE  TypeOK' /\ Opened' /\ Core' /\ HearOK'
    <2>1. TypeOK'
      BY <1>0, <1>7, TypePages
    <2>2. CASE Open(p)
      BY <1>0, <2>1, <2>2, OpenInv
    <2>3. CASE Send(p)
      BY <1>0, <2>1, <2>3, SendInv
    <2>4. CASE PressApprove(p) \/ PressDeny(p)
      BY <1>0, <2>1, <2>4, CalmInv
    <2> QED
      BY <1>7, <2>2, <2>3, <2>4
  <1>8. ASSUME NEW f \in fetches, Fetching(f) \/ AnswerLost(f) \/ Abandoned(f)
        PROVE  TypeOK' /\ Opened' /\ Core' /\ HearOK'
    <2>1. TypeOK'
      BY <1>0, <1>8, TypeFetching
    <2>2. Opened' /\ Core' /\ HearOK'
      BY <1>0, <1>8, ArriveInv, AnswerInv, TimesOutInv, ReceiveInv, GivenInv, AbandonedInv
      DEF Fetching
    <2> QED
      BY <2>1, <2>2
  <1>9. ASSUME NEW q \in posts, Posting(q) \/ UnlockLost(q)
        PROVE  TypeOK' /\ Opened' /\ Core' /\ HearOK'
    <2>1. TypeOK'
      BY <1>0, <1>9, PostSteps DEF TypeOK
    <2> QED
      BY <1>0, <1>9, <2>1, CalmInv
  <1> QED
    BY <1>3, <1>4, <1>5, <1>6, <1>7, <1>8, <1>9 DEF Next

(* What is true of servers, fetches and pages through every interleaving   *)
(* of requests, long polls, pages opened, buttons pressed and a fault, for *)
(* every number of each (server.go, app.js Watch).                         *)
THEOREM PageInvariant == Spec => []PageInv
  BY InitInv, NextInv, PTL DEF Spec

(* A page gets the messages of the request it opened on from the first,    *)
(* each once and none left out, and only then those of a later one, missing*)
(* no more of them than it has had of the one before (server.go poll,      *)
(* app.js loop).                                                           *)
THEOREM NothingSkippedHolds == Spec => []NothingSkipped
  <1>1. PageInv => NothingSkipped
    BY DEF PageInv, Core, PagesOK, InOrder, NothingSkipped
  <1> QED
    BY <1>1, PageInvariant, PTL

(* How a request ended that a phone polled for has been told a page when   *)
(* the server is gone, or is on its way, unless the approver gave up       *)
(* waiting or was killed, a page left over from an earlier request asked   *)
(* it, or the page with the last word on its way was left or cut off       *)
(* (server.go Close).                                                      *)
THEOREM SomeoneHearsHolds == Spec => []SomeoneHears
  <1>1. HearOK => SomeoneHears
    BY DEF HearOK, Hears, SomeoneHears
  <1> QED
    BY <1>1, PageInvariant, PTL DEF PageInv
=============================================================================
