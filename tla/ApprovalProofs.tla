--------------------------- MODULE ApprovalProofs ---------------------------
(***************************************************************************)
(* Approval's inductive invariant, and that it implements RequestOutcome,  *)
(* for every number of phones, secrets, durations, prompts and attempts.   *)
(* TypeOK alone is not inductive (the attempts stay below the limit only   *)
(* while the request is open), so its proof carries EndsOK along; a yes or *)
(* a no is then followed from who said it, channel by channel, to the      *)
(* approver (YesOK, NoOK).  The window's promises have invariants of their *)
(* own at the end: whose turn it is (TurnInv), that a button is offered    *)
(* (OfferInv), what the presses have paid for (PaidInv) and that nothing   *)
(* is picked behind an approval's back (ShownInv).                         *)
(***************************************************************************)
EXTENDS Approval, FiniteSets, FiniteSetTheorems, TLAPS

-----------------------------------------------------------------------------
(* Types of what the operators return.                                     *)

LEMMA RunningType == Running \in LocalType /\ NoUnlock \in LocalType
  <1>1. NoUnlock \in LocalType
    BY DEF NoUnlock, LocalType
  <1> QED
    BY <1>1 DEF Running, LocalType

LEMMA ReplyType ==
  ASSUME NEW type \in {"approve", "deny", "value", "for"}
  PROVE  Reply(type) \in Replies
  BY ApprovalAssumption DEF Reply, Replies

LEMMA MessageType ==
  /\ \A type \in {"prompt", "status", "done"} : Message(type) \in Messages
  /\ RetryStatus \in Messages
  /\ \A n \in Nat, c \in BOOLEAN :
       [Message("prompt") EXCEPT !.id = n, !.confirm = c] \in Messages
  BY DEF Message, Messages, RetryStatus

LEMMA EndType ==
  ASSUME NEW s \in SessType, NEW err \in {"denied", "timeout", "finished"}
  PROVE  End(s, err) \in SessType
  BY DEF End, SessType

LEMMA PickType ==
  ASSUME NEW s \in SessType, NEW d
  PROVE  Pick(s, d) \in SessType
  BY DEF Pick, SessType

LEMMA HandledType ==
  ASSUME NEW s \in SessType, NEW rep \in Replies
  PROVE  Handled(s, rep) \in SessType
  <1>1. CASE rep.type = "approve"
    <2>1. <<rep.seen>> \in Seq(Nat)
      BY DEF Replies
    <2> QED
      BY <1>1, <2>1 DEF Handled, SessType
  <1>2. CASE rep.type = "deny"
    BY <1>2, EndType DEF Handled
  <1>3. CASE rep.type = "for"
    BY <1>3, PickType DEF Handled
  <1>4. CASE rep.type = "value"
    <2>1. rep.id \in Nat /\ rep.right \in BOOLEAN
      BY DEF Replies
    <2>2. <<[id |-> rep.id, right |-> rep.right]>>
             \in Seq([id : Nat, right : BOOLEAN])
      BY <2>1
    <2> QED
      BY <1>4, <2>2 DEF Handled, SessType
  <1> QED
    BY <1>1, <1>2, <1>3, <1>4 DEF Replies

LEMMA SayType ==
  ASSUME said \in SaidType, NEW a \in Actors
  PROVE  /\ SaysYes(a) => said' \in SaidType
         /\ SaysNo(a) => said' \in SaidType
  BY DEF SaysYes, SaysNo, SaidType

LEMMA ShownType ==
  ASSUME toWin \in Seq(Messages), NEW msg \in Messages
  PROVE  Shown(msg) \in Seq(Messages)
  BY DEF Shown

-----------------------------------------------------------------------------
(* Type correctness, a group of actions at a time.                         *)

LEMMA TypeInit == Init => TypeOK
  <1> SUFFICES ASSUME Init PROVE TypeOK
    OBVIOUS
  <1>1. sess \in SessType
    BY ApprovalAssumption DEF Init, SessType
  <1>2. main \in MainType
    BY ApprovalAssumption DEF Init, MainType
  <1>3. local \in LocalType
    BY RunningType DEF Init
  <1>4. win \in WinType
    BY ApprovalAssumption DEF Init, WinType
  <1>5. phone \in [Phones -> PhoneType]
    BY ApprovalAssumption DEF Init, PhoneType
  <1>6. said \in SaidType
    BY DEF Init, SaidType
  <1> QED
    BY <1>1, <1>2, <1>3, <1>4, <1>5, <1>6, ApprovalAssumption DEF Init, TypeOK

LEMMA TypeSessions == TypeOK /\ Sessions => TypeOK'
  <1> SUFFICES ASSUME TypeOK, Sessions PROVE TypeOK'
    OBVIOUS
  <1> USE DEF TypeOK
  <1>1. CASE ReadWindow
    <2>1. Head(fromWin) \in Replies /\ Tail(fromWin) \in Seq(Replies)
      BY <1>1 DEF ReadWindow
    <2>2. sess' \in SessType
      BY <1>1, <2>1, HandledType DEF ReadWindow
    <2> QED
      BY <1>1, <2>1, <2>2 DEF ReadWindow, phoneVars
  <1>2. CASE WindowGone
    <2>1. sess' \in SessType
      BY <1>2, EndType DEF WindowGone
    <2> QED
      BY <1>2, <2>1 DEF WindowGone, phoneVars
  <1>3. CASE ReadPhone
    <2>1. Head(replies) \in Replies /\ Tail(replies) \in Seq(Replies)
      BY <1>3 DEF ReadPhone
    <2>2. sess' \in SessType
      BY <1>3, <2>1, HandledType DEF ReadPhone
    <2> QED
      BY <1>3, <2>1, <2>2 DEF ReadPhone, winVars
  <1>4. CASE StopPolling
    BY <1>4 DEF StopPolling, winVars
  <1>5. CASE DeadlinePasses
    <2>1. sess' \in SessType
      BY <1>5, EndType DEF DeadlinePasses
    <2> QED
      BY <1>5, <2>1 DEF DeadlinePasses, winVars, phoneVars
  <1> QED
    BY <1>1, <1>2, <1>3, <1>4, <1>5 DEF Sessions

LEMMA TypeUnlocking == TypeOK /\ Unlocking => TypeOK'
  <1> SUFFICES ASSUME TypeOK, Unlocking PROVE TypeOK'
    OBVIOUS
  <1> USE DEF TypeOK
  <1>1. CASE UnlockAsks
    <2>1. sess.promptID + 1 \in Nat /\ local.asked + 1 \in Nat
      BY DEF SessType, LocalType
    <2>2. toWin' \in Seq(Messages)
      <3>1. PICK c \in {FALSE, Confirms} :
              toWin' = Shown([Message("prompt") EXCEPT !.id = sess.promptID + 1,
                                                       !.confirm = c])
        BY <1>1 DEF UnlockAsks
      <3>2. c \in BOOLEAN
        BY ApprovalAssumption
      <3> QED
        BY <2>1, <3>1, <3>2, MessageType, ShownType
    <2>3. sess' \in SessType
      BY <1>1, <2>1 DEF UnlockAsks, SessType
    <2>4. local' \in LocalType
      BY <1>1, <2>1 DEF UnlockAsks, LocalType
    <2> QED
      BY <1>1, <2>2, <2>3, <2>4 DEF UnlockAsks, phoneVars
  <1>2. CASE UnlockHears
    <2>1. sess' = [sess EXCEPT !.values = <<>>]
      BY <1>2 DEF UnlockHears
    <2>2. <<>> \in Seq([id : Nat, right : BOOLEAN])
      OBVIOUS
    <2>3. sess' \in SessType
      BY <2>1, <2>2 DEF SessType
    <2>4. local' \in LocalType
      BY <1>2 DEF UnlockHears, LocalType
    <2> QED
      BY <1>2, <2>3, <2>4 DEF UnlockHears, winVars, phoneVars
  <1>3. CASE UnlockAborts \/ UnlockOpens \/ UnlockFails
    <2>1. local' \in LocalType
      BY <1>3 DEF UnlockAborts, UnlockOpens, UnlockFails, LocalType
    <2> QED
      BY <1>3, <2>1 DEF UnlockAborts, UnlockOpens, UnlockFails, winVars, phoneVars
  <1> QED
    BY <1>1, <1>2, <1>3 DEF Unlocking

\* The approver's counters: an attempt is only counted while one is left.
LEMMA NextAttempt ==
  ASSUME main \in MainType, EndsOK, Selecting
  PROVE  main.attempt + 1 \in 0..UnlockAttempts
  <1>1. main.outcome = "none"
    BY DEF EndsOK, Selecting
  <1>2. main.attempt \in Nat /\ main.attempt < UnlockAttempts
    BY <1>1 DEF EndsOK, MainType
  <1> QED
    BY <1>2, ApprovalAssumption

LEMMA TypeApprover == TypeOK /\ EndsOK /\ Approver => TypeOK'
  <1> SUFFICES ASSUME TypeOK, EndsOK, Approver PROVE TypeOK'
    OBVIOUS
  <1> USE DEF TypeOK
  <1>0. main.fails + 1 \in Nat /\ main.starts + 1 \in Nat
    BY DEF MainType
  <1>1. CASE TakeDesktop
    <2>1. main' \in MainType
      BY <1>1 DEF TakeDesktop, MainType, Actors
    <2> QED
      BY <1>1, <2>1, RunningType DEF TakeDesktop, winVars, phoneVars
  <1>2. CASE GiveUp
    <2>1. PICK o \in LastError :
            main' = [main EXCEPT !.pc = "finish", !.attempt = @ + 1, !.outcome = o]
      BY <1>2 DEF GiveUp
    <2>2. o \in {"denied", "timeout", "failed"}
      <3>1. main.pc = "select" /\ sess.ended # "finished"
        BY <1>2 DEF GiveUp, Selecting, EndsOK, Live
      <3>2. local.st = "aborted" => sess.ended \in {"denied", "timeout"}
        BY <3>1 DEF EndsOK, SessType
      <3> QED
        BY <2>1, <3>2 DEF LastError
    <2>3. main' \in MainType
      BY <1>2, <2>1, <2>2, NextAttempt DEF GiveUp, MainType
    <2> QED
      BY <1>2, <2>3, RunningType DEF GiveUp, winVars, phoneVars
  <1>3. CASE AskAgain
    <2>1. toWin' \in Seq(Messages)
      BY <1>3, MessageType, ShownType DEF AskAgain
    <2>2. main' = [main EXCEPT !.attempt = @ + 1, !.starts = @ + 1]
      BY <1>3 DEF AskAgain
    <2>3. main' \in MainType
      BY <1>0, <1>3, <2>2, NextAttempt DEF AskAgain, MainType
    <2> QED
      BY <1>3, <2>1, <2>3, RunningType DEF AskAgain, phoneVars
  <1>4. CASE OfferRetry
    <2>1. toWin' \in Seq(Messages)
      BY <1>4, MessageType, ShownType DEF OfferRetry
    <2>2. main' = [main EXCEPT !.attempt = @ + 1, !.fails = @ + 1, !.wait = TRUE]
      BY <1>4 DEF OfferRetry
    <2>3. main' \in MainType
      BY <1>0, <1>4, <2>2, NextAttempt DEF OfferRetry, MainType
    <2> QED
      BY <1>4, <2>1, <2>3, RunningType DEF OfferRetry, phoneVars
  <1>5. CASE TakeApprove
    <2>1. sess' \in SessType
      <3>1. sess' = [sess EXCEPT !.approve = <<>>] /\ <<>> \in Seq(Nat)
        BY <1>5 DEF TakeApprove, ApproveTaken
      <3> QED
        BY <3>1 DEF SessType
    <2>2. main' \in MainType
      BY <1>0, <1>5 DEF TakeApprove, MainType
    <2> QED
      BY <1>5, <2>1, <2>2, RunningType DEF TakeApprove, winVars, phoneVars
  <1>6. CASE TakePhone
    <2>1. Head(unlocks) \in UnlockType /\ Tail(unlocks) \in Seq(UnlockType)
      BY <1>6 DEF TakePhone
    <2>2. sess' \in SessType
      BY <1>6, PickType DEF TakePhone
    <2>3. main' \in MainType
      BY <1>6, <2>1 DEF TakePhone, MainType, UnlockType
    <2> QED
      BY <1>6, <2>1, <2>2, <2>3 DEF TakePhone, winVars
  <1>7. CASE PhoneOpens
    <2>1. main' \in MainType
      BY <1>7 DEF PhoneOpens, MainType, Actors
    <2> QED
      BY <1>7, <2>1 DEF PhoneOpens, winVars, phoneVars
  <1>8. CASE PhoneRefused
    <2>1. toWin' \in Seq(Messages)
      BY <1>8, MessageType, ShownType DEF PhoneRefused
    <2>2. main' \in MainType
      BY <1>8 DEF PhoneRefused, MainType
    <2> QED
      BY <1>8, <2>1, <2>2 DEF PhoneRefused, phoneVars
  <1>9. CASE TakeEnd
    <2>1. sess.ended \in {"denied", "timeout"}
      BY <1>9 DEF TakeEnd, Selecting, EndsOK, Live, SessType
    <2>2. main' \in MainType
      BY <1>9, <2>1 DEF TakeEnd, MainType
    <2> QED
      BY <1>9, <2>2 DEF TakeEnd, winVars, phoneVars
  <1>10. CASE ReadDuration
    <2>1. main' \in MainType
      BY <1>10 DEF ReadDuration, MainType, SessType
    <2> QED
      BY <1>10, <2>1 DEF ReadDuration, winVars, phoneVars
  <1>11. CASE GrantNext
    <2>1. main.held + 1 \in 0..NumSecrets
      <3>1. main.held \in 0..NumSecrets /\ main.held < NumSecrets
        BY <1>11 DEF GrantNext, MainType
      <3> QED
        BY <3>1, ApprovalAssumption
    <2>2. main' \in MainType
      BY <1>11, <2>1 DEF GrantNext, MainType
    <2> QED
      BY <1>11, <2>2 DEF GrantNext, winVars, phoneVars
  <1>12. CASE GrantFails \/ AllGranted
    <2>1. PICK o \in {"failed", "granted"} :
            main' = [main EXCEPT !.pc = "finish", !.outcome = o]
      BY <1>12 DEF GrantFails, AllGranted
    <2>2. main' \in MainType
      BY <2>1 DEF MainType
    <2> QED
      BY <1>12, <2>2 DEF GrantFails, AllGranted, winVars, phoneVars
  <1>13. CASE Finish
    <2>1. toWin' \in Seq(Messages)
      BY <1>13, MessageType, ShownType DEF Finish
    <2>2. main' \in MainType /\ sess' \in SessType
      BY <1>13, EndType DEF Finish, MainType
    <2> QED
      BY <1>13, <2>1, <2>2 DEF Finish, phoneVars
  <1> QED
    BY <1>1, <1>2, <1>3, <1>4, <1>5, <1>6, <1>7, <1>8, <1>9, <1>10, <1>11, <1>12,
       <1>13
    DEF Approver

LEMMA TypeWindow == TypeOK /\ (WindowShows \/ PageExits) => TypeOK'
  <1> SUFFICES ASSUME TypeOK, WindowShows \/ PageExits PROVE TypeOK'
    OBVIOUS
  <1> USE DEF TypeOK
  <1>1. CASE WindowShows
    <2>1. Head(toWin) \in Messages /\ Tail(toWin) \in Seq(Messages)
      BY <1>1 DEF WindowShows
    <2>2. win' \in WinType
      <3> DEFINE m == Head(toWin)
      <3>1. m.id \in Nat /\ m.confirm \in BOOLEAN /\ m.retry \in BOOLEAN
        BY <2>1 DEF Messages
      <3>2. win.seen + 1 \in Nat
        BY DEF WinType
      <3> HIDE DEF m
      <3>3. CASE m.type = "prompt"
        BY <1>1, <3>1, <3>3 DEF WindowShows, WinType, m
      <3>4. CASE m.type = "status"
        BY <1>1, <3>1, <3>2, <3>4 DEF WindowShows, WinType, m
      <3>5. CASE m.type \notin {"prompt", "status"}
        BY <1>1, <3>5 DEF WindowShows, WinType, m
      <3> QED
        BY <3>3, <3>4, <3>5
    <2> QED
      BY <1>1, <2>1, <2>2 DEF WindowShows, phoneVars
  <1>2. CASE PageExits
    <2>1. win' \in WinType
      BY <1>2 DEF PageExits, WinType
    <2> QED
      BY <1>2, <2>1 DEF PageExits, phoneVars
  <1> QED
    BY <1>1, <1>2

LEMMA TypeHuman == TypeOK /\ Human => TypeOK'
  <1> SUFFICES ASSUME TypeOK, Human PROVE TypeOK'
    OBVIOUS
  <1> USE DEF TypeOK
  <1>0. Window \in Actors /\ Phones \subseteq Actors
    BY DEF Actors
  <1>a. win.seen \in Nat /\ win.prompt \in Nat /\ win.presses + 1 \in Nat
        /\ win.typed + 1 \in Nat /\ win.picks + 1 \in Nat
    BY DEF WinType
  <1>1. CASE PressApprove
    <2>1. [Reply("approve") EXCEPT !.seen = win.seen] \in Replies
      BY <1>a, ApprovalAssumption DEF Reply, Replies
    <2>2. said' \in SaidType
      BY <1>0, <1>1, SayType DEF PressApprove
    <2>3. win' \in WinType
      BY <1>a, <1>1 DEF PressApprove, Busy, WinType
    <2> QED
      BY <1>1, <2>1, <2>2, <2>3 DEF PressApprove, phoneVars
  <1>2. CASE AnswerPrompt \/ AnswerConfirm
    <2>1. PICK right \in BOOLEAN :
            /\ fromWin' = Append(fromWin, [Reply("value") EXCEPT !.id = win.prompt,
                                                                 !.right = right])
            /\ IF right THEN SaysYes(Window) ELSE UNCHANGED said
      BY <1>2 DEF AnswerPrompt, AnswerConfirm
    <2>2. [Reply("value") EXCEPT !.id = win.prompt, !.right = right] \in Replies
      BY <1>a, ApprovalAssumption DEF Reply, Replies
    <2>3. said' \in SaidType
      BY <1>0, <2>1, SayType
    <2>4. win' \in WinType
      <3>1. CASE AnswerPrompt
        BY <1>a, <3>1 DEF AnswerPrompt, Busy, WinType
      <3>2. CASE AnswerConfirm
        BY <1>a, <3>2 DEF AnswerConfirm, WinType
      <3> QED
        BY <1>2, <3>1, <3>2
    <2>5. fromWin' \in Seq(Replies)
      BY <2>1, <2>2
    <2> QED
      BY <1>2, <2>3, <2>4, <2>5 DEF AnswerPrompt, AnswerConfirm, phoneVars
  <1>3. CASE DenyInWindow \/ CloseWindow
    <2>1. said' \in SaidType
      BY <1>0, <1>3, SayType DEF DenyInWindow, CloseWindow
    <2>2. win' \in WinType
      BY <1>3 DEF DenyInWindow, CloseWindow, WinType
    <2>3. fromWin' = Append(fromWin, Reply("deny"))
      BY <1>3 DEF DenyInWindow, CloseWindow
    <2>4. fromWin' \in Seq(Replies)
      <3>1. Reply("deny") \in Replies
        BY ReplyType
      <3> QED
        BY <2>3, <3>1
    <2> QED
      BY <1>3, <2>1, <2>2, <2>4 DEF DenyInWindow, CloseWindow, phoneVars
  <1>4. CASE Touch
    <2>1. said' \in SaidType
      BY <1>0, <1>4, SayType DEF Touch
    <2>2. local' \in LocalType
      BY <1>4 DEF Touch, LocalType
    <2> QED
      BY <1>4, <2>1, <2>2 DEF Touch, winVars, phoneVars
  <1>5. ASSUME NEW d \in Choices, PickInWindow(d) PROVE TypeOK'
    <2>1. [Reply("for") EXCEPT !.for = d] \in Replies
      BY DEF Reply, Replies
    <2>2. win' \in WinType
      BY <1>a, <1>5 DEF PickInWindow, WinType
    <2> QED
      BY <1>5, <2>1, <2>2 DEF PickInWindow, phoneVars
  <1>6. ASSUME NEW p \in Phones, DenyOnPhone(p) \/ ApproveOnPhone(p) PROVE TypeOK'
    <2>1. phone[p].sent \in Nat /\ phone[p].picked \in Choices
      BY DEF PhoneType
    <2>2. said' \in SaidType
      BY <1>0, <1>6, SayType DEF DenyOnPhone, ApproveOnPhone
    <2>3. posts' \subseteq Posts
      BY <1>6, <2>1, ApprovalAssumption DEF DenyOnPhone, ApproveOnPhone, Post, Posts
    <2>4. phone' \in [Phones -> PhoneType]
      BY <1>6, <2>1 DEF DenyOnPhone, ApproveOnPhone, PhoneType
    <2> QED
      BY <1>6, <2>2, <2>3, <2>4 DEF DenyOnPhone, ApproveOnPhone, winVars
  <1>7. ASSUME NEW p \in Phones, NEW d \in Choices, PickOnPhone(p, d) PROVE TypeOK'
    <2>1. phone[p].sent \in Nat /\ phone[p].picked \in Choices
      BY DEF PhoneType
    <2>2. posts' \subseteq Posts
      BY <1>7, <2>1 DEF PickOnPhone, Post, Posts
    <2>3. phone' \in [Phones -> PhoneType]
      BY <1>7, <2>1 DEF PickOnPhone, PhoneType
    <2> QED
      BY <1>7, <2>2, <2>3 DEF PickOnPhone, winVars
  <1>8. CASE WindowDies
    <2>1. said' \in SaidType
      BY <1>0, <1>8, SayType DEF WindowDies
    <2>2. win' \in WinType
      BY <1>8 DEF WindowDies, WinType
    <2> QED
      BY <1>8, <2>1, <2>2 DEF WindowDies, phoneVars
  <1> QED
    BY <1>1, <1>2, <1>3, <1>4, <1>5, <1>6, <1>7, <1>8 DEF Human

LEMMA TypeServer == TypeOK /\ Server => TypeOK'
  <1> SUFFICES ASSUME TypeOK, NEW post \in posts,
                      \/ ReplyArrives(post) \/ UnlockArrives(post)
                      \/ UnlockFailsToPost(post) \/ ReplyLost(post)
               PROVE  TypeOK'
    BY DEF Server
  <1> USE DEF TypeOK
  <1>0. post \in Posts
    OBVIOUS
  <1>1. CASE ReplyArrives(post)
    <2>1. [Reply(post.type) EXCEPT !.for = post.for] \in Replies
      BY <1>0, <1>1 DEF ReplyArrives, Reply, Replies, Posts
    <2> QED
      BY <1>1, <2>1 DEF ReplyArrives, winVars
  <1>2. CASE UnlockArrives(post)
    <2>1. [from |-> post.from, for |-> post.for] \in UnlockType
      BY <1>0 DEF Posts, UnlockType
    <2>2. unlocks' \in Seq(UnlockType)
      BY <1>2, <2>1 DEF UnlockArrives
    <2>3. phone' \in [Phones -> PhoneType]
      <3>1. PICK phase \in {"unlocking", "request"} :
              phone' = [phone EXCEPT ![post.from].phase = phase]
        BY <1>2 DEF UnlockArrives
      <3>2. post.from \in Phones /\ phone \in [Phones -> PhoneType]
        BY <1>0 DEF Posts
      <3>3. [phone[post.from] EXCEPT !.phase = phase] \in PhoneType
        BY <3>2 DEF PhoneType
      <3> QED
        BY <3>1, <3>2, <3>3
    <2> QED
      BY <1>2, <2>2, <2>3 DEF UnlockArrives, winVars
  <1>3. CASE UnlockFailsToPost(post)
    <2>1. phone' \in [Phones -> PhoneType]
      BY <1>0, <1>3 DEF UnlockFailsToPost, PhoneType, Posts
    <2> QED
      BY <1>3, <2>1 DEF UnlockFailsToPost, winVars
  <1>4. CASE ReplyLost(post)
    BY <1>4 DEF ReplyLost, winVars
  <1> QED
    BY <1>1, <1>2, <1>3, <1>4

LEMMA TypeNext == TypeOK /\ EndsOK /\ [Next]_vars => TypeOK'
  <1>1. TypeOK /\ UNCHANGED vars => TypeOK'
    BY DEF TypeOK, vars, winVars, phoneVars
  <1> QED
    BY <1>1, TypeSessions, TypeUnlocking, TypeApprover, TypeWindow, TypeHuman,
       TypeServer
    DEF Next

-----------------------------------------------------------------------------
(* The queues.                                                             *)

LEMMA CarriesHead ==
  ASSUME NEW S, NEW q \in Seq(S), q # <<>>
  PROVE  /\ \A type : Head(q).type = type => Carries(q, type)
         /\ Head(q).right => CarriesRight(q)
  <1>1. 1 \in DOMAIN q /\ Head(q) = q[1]
    OBVIOUS
  <1> QED
    BY <1>1 DEF Carries, CarriesRight

LEMMA CarriesTail ==
  ASSUME NEW S, NEW q \in Seq(S), q # <<>>
  PROVE  /\ \A type : Carries(Tail(q), type) => Carries(q, type)
         /\ CarriesRight(Tail(q)) => CarriesRight(q)
  <1>1. \A i \in DOMAIN Tail(q) : i + 1 \in DOMAIN q /\ Tail(q)[i] = q[i + 1]
    OBVIOUS
  <1> QED
    BY <1>1 DEF Carries, CarriesRight

LEMMA CarriesAppend ==
  ASSUME NEW S, NEW q \in Seq(S), NEW m \in S
  PROVE  /\ \A type : Carries(Append(q, m), type)
                        => Carries(q, type) \/ m.type = type
         /\ CarriesRight(Append(q, m)) => CarriesRight(q) \/ m.right
  <1>1. \A i \in DOMAIN Append(q, m) :
          \/ i \in DOMAIN q /\ Append(q, m)[i] = q[i]
          \/ Append(q, m)[i] = m
    OBVIOUS
  <1> QED
    BY <1>1 DEF Carries, CarriesRight

\* What Shown adds to the window's messages.
LEMMA CarriesShown ==
  ASSUME toWin \in Seq(Messages), NEW msg \in Messages, msg.type # "done",
         Carries(Shown(msg), "done")
  PROVE  Carries(toWin, "done")
  BY CarriesAppend DEF Shown

\* What one reply can change of the session.
LEMMA HandledSays ==
  ASSUME NEW s \in SessType, NEW rep \in Replies
  PROVE  /\ Handled(s, rep).ended \in {s.ended, "denied"}
         /\ Handled(s, rep).ended # s.ended => s.ended = "open" /\ rep.type = "deny"
         /\ Handled(s, rep).approve # <<>> => s.approve # <<>> \/ rep.type = "approve"
         /\ Handled(s, rep).values # <<>> /\ Head(Handled(s, rep).values).right
              => \/ s.values # <<>> /\ Head(s.values).right
                 \/ rep.right
  <1>1. CASE rep.type = "approve"
    BY <1>1 DEF Handled, SessType
  <1>2. CASE rep.type = "deny"
    BY <1>2 DEF Handled, End, SessType
  <1>3. CASE rep.type = "for"
    BY <1>3 DEF Handled, Pick, SessType
  <1>4. CASE rep.type = "value" /\ rep.id = s.promptID /\ s.values = <<>>
    <2>1. Handled(s, rep) = [s EXCEPT !.values = <<[id |-> rep.id, right |-> rep.right]>>]
      BY <1>4 DEF Handled
    <2>2. /\ Handled(s, rep).values = <<[id |-> rep.id, right |-> rep.right]>>
          /\ Handled(s, rep).ended = s.ended /\ Handled(s, rep).approve = s.approve
      BY <2>1 DEF SessType
    <2> QED
      BY <1>4, <2>2
  <1>5. CASE rep.type = "value" /\ ~(rep.id = s.promptID /\ s.values = <<>>)
    BY <1>5 DEF Handled
  <1> QED
    BY <1>1, <1>2, <1>3, <1>4, <1>5 DEF Replies

-----------------------------------------------------------------------------
(* How a request ends.                                                     *)

\* A step that leaves the approver alone, aborts no unlock but one whose
\* request has ended, and sends no "done", keeps EndsOK.
LEMMA EndsKept ==
  ASSUME EndsOK, main' = main,
         local'.st = "aborted" => local.st = "aborted" \/ sess.ended # "open",
         sess'.ended = "open" => sess.ended = "open",
         sess'.ended = "finished" => sess.ended = "finished",
         Carries(toWin', "done") => Carries(toWin, "done")
  PROVE  EndsOK'
  BY DEF EndsOK, Live

LEMMA EndsSessions == TypeOK /\ EndsOK /\ Sessions => EndsOK'
  <1> SUFFICES ASSUME TypeOK, EndsOK, Sessions PROVE EndsOK'
    OBVIOUS
  <1>1. CASE ReadWindow
    <2>1. Head(fromWin) \in Replies
      BY <1>1 DEF ReadWindow, TypeOK
    <2>2. \/ sess'.ended = sess.ended
          \/ sess.ended = "open" /\ sess'.ended = "denied"
      BY <1>1, <2>1, HandledSays DEF ReadWindow, TypeOK
    <2> QED
      BY <1>1, <2>2, EndsKept DEF ReadWindow
  <1>2. CASE ReadPhone
    <2>1. Head(replies) \in Replies
      BY <1>2 DEF ReadPhone, TypeOK
    <2>2. \/ sess'.ended = sess.ended
          \/ sess.ended = "open" /\ sess'.ended = "denied"
      BY <1>2, <2>1, HandledSays DEF ReadPhone, TypeOK
    <2> QED
      BY <1>2, <2>2, EndsKept DEF ReadPhone, winVars
  <1>3. CASE WindowGone
    <2>1. \/ sess'.ended = sess.ended
          \/ sess.ended = "open" /\ sess'.ended = "denied"
      BY <1>3 DEF WindowGone, End, TypeOK, SessType
    <2> QED
      BY <1>3, <2>1, EndsKept DEF WindowGone
  <1>4. CASE StopPolling
    BY <1>4, EndsKept DEF StopPolling, winVars
  <1>5. CASE DeadlinePasses
    <2>1. sess.ended = "open" /\ sess'.ended = "timeout"
      BY <1>5 DEF DeadlinePasses, End, TypeOK, SessType
    <2> QED
      BY <1>5, <2>1, EndsKept DEF DeadlinePasses, winVars
  <1> QED
    BY <1>1, <1>2, <1>3, <1>4, <1>5 DEF Sessions

LEMMA EndsUnlocking == TypeOK /\ EndsOK /\ Unlocking => EndsOK'
  <1> SUFFICES ASSUME TypeOK, EndsOK, Unlocking PROVE EndsOK'
    OBVIOUS
  <1>1. CASE UnlockAsks
    <2>1. PICK c \in {FALSE, Confirms} :
            toWin' = Shown([Message("prompt") EXCEPT !.id = sess.promptID + 1,
                                                     !.confirm = c])
      BY <1>1 DEF UnlockAsks
    <2>2. c \in BOOLEAN /\ sess.promptID + 1 \in Nat
      <3>1. c \in BOOLEAN
        BY ApprovalAssumption
      <3> QED
        BY <3>1 DEF TypeOK, SessType
    <2> DEFINE m == [Message("prompt") EXCEPT !.id = sess.promptID + 1, !.confirm = c]
    <2>3. m \in Messages
      BY <2>2, MessageType
    <2>4. m.type = "prompt"
      BY DEF Message
    <2> HIDE DEF m
    <2>5. Carries(toWin', "done") => Carries(toWin, "done")
      BY <2>1, <2>3, <2>4, CarriesShown DEF TypeOK, m
    <2>6. sess'.ended = sess.ended /\ local'.st # "aborted"
      BY <1>1 DEF UnlockAsks, TypeOK, SessType, LocalType
    <2> QED
      BY <1>1, <2>5, <2>6, EndsKept DEF UnlockAsks
  <1>2. CASE UnlockHears
    <2>1. sess'.ended = sess.ended /\ local'.st # "aborted"
      BY <1>2 DEF UnlockHears, TypeOK, SessType, LocalType
    <2> QED
      BY <1>2, <2>1, EndsKept DEF UnlockHears, winVars
  <1>3. CASE UnlockAborts
    BY <1>3, EndsKept DEF UnlockAborts, winVars
  <1>4. CASE UnlockOpens \/ UnlockFails
    <2>1. local'.st # "aborted"
      BY <1>4 DEF UnlockOpens, UnlockFails, TypeOK, LocalType
    <2> QED
      BY <1>4, <2>1, EndsKept DEF UnlockOpens, UnlockFails, winVars
  <1> QED
    BY <1>1, <1>2, <1>3, <1>4 DEF Unlocking

LEMMA EndsApprover == TypeOK /\ EndsOK /\ Approver => EndsOK'
  <1> SUFFICES ASSUME TypeOK, EndsOK, Approver PROVE EndsOK'
    OBVIOUS
  <1>0. Running.st = "run" /\ NoUnlock.st = "none"
    BY DEF Running, NoUnlock
  <1>a. Selecting => main.outcome = "none" /\ main.attempt < UnlockAttempts
    BY DEF EndsOK, Selecting
  <1>b. main.attempt \in Nat /\ UnlockAttempts \in Nat
    BY ApprovalAssumption DEF TypeOK, MainType
  <1>d. \A msg \in {Message("status"), RetryStatus} :
          msg \in Messages /\ msg.type = "status"
    <2>1. Message("status").type = "status" /\ RetryStatus.type = "status"
      BY DEF Message, RetryStatus
    <2> QED
      BY <2>1, MessageType
  <1>c. \A msg \in {Message("status"), RetryStatus} :
          toWin' = Shown(msg) => (Carries(toWin', "done") => Carries(toWin, "done"))
    BY <1>d, CarriesShown DEF TypeOK
  <1>1. CASE TakeDesktop
    <2>1. /\ main'.pc = "approved" /\ main'.outcome = main.outcome
          /\ main'.attempt = main.attempt
      BY <1>1 DEF TakeDesktop, TypeOK, MainType
    <2> QED
      BY <1>0, <1>1, <1>a, <2>1 DEF TakeDesktop, EndsOK, Live, Selecting, winVars
  <1>2. CASE GiveUp
    <2>1. /\ main'.pc = "finish" /\ main'.outcome \in LastError
      BY <1>2 DEF GiveUp, TypeOK, MainType
    <2>2. main'.outcome # "none"
      BY <2>1 DEF LastError, TypeOK, SessType
    <2>3. sess.ended # "finished" /\ ~Carries(toWin, "done")
      BY <1>2 DEF GiveUp, Selecting, EndsOK, Live
    <2> QED
      BY <1>0, <1>2, <2>1, <2>2, <2>3 DEF GiveUp, EndsOK, Live, winVars
  <1>3. CASE AskAgain \/ OfferRetry
    <2>1. /\ main'.pc = main.pc /\ main'.outcome = main.outcome
          /\ main'.attempt = main.attempt + 1
      BY <1>3 DEF AskAgain, OfferRetry, TypeOK, MainType
    <2>2. main.attempt + 1 < UnlockAttempts
      BY <1>3, <1>a, <1>b DEF AskAgain, OfferRetry, LastAttempt
    <2>3. (Carries(toWin', "done") => Carries(toWin, "done"))
          /\ local'.st # "aborted"
      BY <1>0, <1>3, <1>c DEF AskAgain, OfferRetry
    <2> QED
      BY <1>3, <2>1, <2>2, <2>3 DEF AskAgain, OfferRetry, EndsOK, Live
  <1>4. CASE TakeApprove
    <2>1. /\ main'.pc = main.pc /\ main'.outcome = main.outcome
          /\ main'.attempt = main.attempt /\ sess'.ended = sess.ended
      BY <1>4 DEF TakeApprove, ApproveTaken, TypeOK, MainType, SessType
    <2> QED
      BY <1>0, <1>4, <2>1 DEF TakeApprove, EndsOK, Live, winVars
  <1>5. CASE TakePhone
    <2>1. /\ main'.pc = "unlockWith" /\ main'.outcome = main.outcome
          /\ main'.attempt = main.attempt /\ sess'.ended = sess.ended
      BY <1>5 DEF TakePhone, Pick, TypeOK, MainType, SessType
    <2> QED
      BY <1>5, <1>a, <2>1 DEF TakePhone, EndsOK, Live, Selecting, winVars
  <1>6. CASE PhoneOpens
    <2>1. /\ main'.pc = "approved" /\ main'.outcome = main.outcome
          /\ main'.attempt = main.attempt
      BY <1>6 DEF PhoneOpens, TypeOK, MainType
    <2> QED
      BY <1>6, <2>1 DEF PhoneOpens, EndsOK, Live, winVars
  <1>7. CASE PhoneRefused
    <2>1. /\ main'.pc = "select" /\ main'.outcome = main.outcome
          /\ main'.attempt = main.attempt
      BY <1>7 DEF PhoneRefused, TypeOK, MainType
    <2>2. Carries(toWin', "done") => Carries(toWin, "done")
      BY <1>7, <1>c DEF PhoneRefused
    <2> QED
      BY <1>7, <2>1, <2>2 DEF PhoneRefused, EndsOK, Live
  <1>8. CASE TakeEnd
    <2>1. main'.pc = "finish" /\ main'.outcome = sess.ended /\ sess.ended # "none"
      BY <1>8 DEF TakeEnd, TypeOK, MainType, SessType
    <2>2. sess.ended # "finished" /\ ~Carries(toWin, "done")
      BY <1>8 DEF TakeEnd, Selecting, EndsOK, Live
    <2> QED
      BY <1>8, <2>1, <2>2 DEF TakeEnd, EndsOK, Live, winVars
  <1>9. CASE ReadDuration \/ GrantNext
    <2>1. /\ main'.pc = "granting" /\ main'.outcome = main.outcome
          /\ main'.attempt = main.attempt
      BY <1>9 DEF ReadDuration, GrantNext, TypeOK, MainType
    <2> QED
      BY <1>9, <2>1 DEF ReadDuration, GrantNext, EndsOK, Live, winVars
  <1>10. CASE GrantFails \/ AllGranted
    <2>1. /\ main'.pc = "finish" /\ main'.outcome \in {"failed", "granted"}
      BY <1>10 DEF GrantFails, AllGranted, TypeOK, MainType
    <2> QED
      BY <1>10, <2>1 DEF GrantFails, AllGranted, EndsOK, Live, winVars
  <1>11. CASE Finish
    <2>1. main'.pc = "exited" /\ main'.outcome = main.outcome
      BY <1>11 DEF Finish, TypeOK, MainType
    <2>2. sess'.ended # "open"
      BY <1>11 DEF Finish, End, TypeOK, SessType
    <2> QED
      BY <1>11, <2>1, <2>2 DEF Finish, EndsOK, Live
  <1> QED
    BY <1>1, <1>2, <1>3, <1>4, <1>5, <1>6, <1>7, <1>8, <1>9, <1>10, <1>11
    DEF Approver

LEMMA EndsNext == TypeOK /\ EndsOK /\ [Next]_vars => EndsOK'
  <1> SUFFICES ASSUME TypeOK, EndsOK, [Next]_vars PROVE EndsOK'
    OBVIOUS
  <1>1. CASE WindowShows
    <2>1. Carries(toWin', "done") => Carries(toWin, "done")
      BY <1>1, CarriesTail DEF WindowShows, TypeOK
    <2> QED
      BY <1>1, <2>1, EndsKept DEF WindowShows
  <1>2. CASE PageExits
    BY <1>2, EndsKept DEF PageExits
  <1>3. CASE Human
    <2>1. CASE Touch
      <3>1. local'.st = local.st
        BY <2>1 DEF Touch, TypeOK, LocalType
      <3> QED
        BY <2>1, <3>1, EndsKept DEF Touch, winVars
    <2>2. CASE ~Touch
      <3>1. UNCHANGED <<sess, main, local, toWin>>
        BY <1>3, <2>2
        DEF Human, PressApprove, AnswerPrompt, AnswerConfirm, PickInWindow,
            DenyInWindow, CloseWindow, WindowDies, PickOnPhone, DenyOnPhone, ApproveOnPhone,
            winVars
      <3> QED
        BY <3>1, EndsKept
    <2> QED
      BY <2>1, <2>2
  <1>4. CASE Server
    <2>1. UNCHANGED <<sess, main, local, toWin>>
      BY <1>4
      DEF Server, ReplyArrives, UnlockArrives, UnlockFailsToPost, ReplyLost, winVars
    <2> QED
      BY <2>1, EndsKept
  <1>5. CASE UNCHANGED vars
    BY <1>5, EndsKept DEF vars, winVars
  <1> QED
    BY <1>1, <1>2, <1>3, <1>4, <1>5, EndsSessions, EndsUnlocking, EndsApprover
    DEF Next

LEMMA EndsInit == Init => EndsOK
  BY ApprovalAssumption DEF Init, EndsOK, Live, Running, NoUnlock, Carries

\* Every variable keeps its type: the attempts counted never pass the limit,
\* and a request never grants more than it was asked for.
THEOREM TypeCorrect == Spec => []TypeOK
  <1>1. Init => TypeOK /\ EndsOK
    BY TypeInit, EndsInit
  <1>2. TypeOK /\ EndsOK /\ [Next]_vars => (TypeOK /\ EndsOK)'
    BY TypeNext, EndsNext
  <1> QED
    BY <1>1, <1>2, PTL DEF Spec

-----------------------------------------------------------------------------
(* A yes behind every sign of one.                                         *)

LEMMA SaidGrows == 
  ASSUME TypeOK, [Next]_vars
  PROVE  said.yes \subseteq said'.yes /\ said.no \subseteq said'.no
  <1>1. \A a : SaysYes(a) \/ SaysNo(a) \/ UNCHANGED said
                 => said.yes \subseteq said'.yes /\ said.no \subseteq said'.no
    BY DEF SaysYes, SaysNo, TypeOK, SaidType
  <1>2. CASE Human
    BY <1>1, <1>2
    DEF Human, PressApprove, AnswerPrompt, AnswerConfirm, PickInWindow, DenyInWindow,
        CloseWindow, WindowDies, Touch, PickOnPhone, DenyOnPhone, ApproveOnPhone
  <1>3. CASE Approver
    BY <1>3
    DEF Approver, TakeDesktop, GiveUp, AskAgain, OfferRetry, TakeApprove, TakePhone,
        PhoneOpens, PhoneRefused, TakeEnd, ReadDuration, GrantNext, GrantFails,
        AllGranted, Finish
  <1>4. CASE Sessions \/ Unlocking \/ WindowShows \/ PageExits \/ Server
    BY <1>4
    DEF Sessions, ReadWindow, WindowGone, ReadPhone, StopPolling, DeadlinePasses,
        Unlocking, UnlockAsks, UnlockHears, UnlockAborts, UnlockOpens, UnlockFails,
        WindowShows, PageExits, Server, ReplyArrives, UnlockArrives,
        UnlockFailsToPost, ReplyLost
  <1> QED
    BY <1>2, <1>3, <1>4 DEF Next, vars

LEMMA YesSessions ==
  TypeOK /\ YesOK /\ Sessions
    => ((YesByMain \/ YesByLocal \/ YesBySess \/ YesByWindow \/ YesByPhones)'
         => said.yes # {})
  <1> SUFFICES ASSUME TypeOK, YesOK, Sessions,
                      (YesByMain \/ YesByLocal \/ YesBySess \/ YesByWindow
                         \/ YesByPhones)'
               PROVE  said.yes # {}
    OBVIOUS
  <1>1. CASE ReadWindow
    <2> DEFINE rep == Head(fromWin)
    <2>1. rep \in Replies /\ fromWin \in Seq(Replies) /\ fromWin # <<>>
      BY <1>1 DEF ReadWindow, TypeOK
    <2>2. /\ rep.type = "approve" => Carries(fromWin, "approve")
          /\ rep.right => CarriesRight(fromWin)
      BY <2>1, CarriesHead
    <2>3. sess' = Handled(sess, rep) /\ sess \in SessType
      BY <1>1 DEF ReadWindow, TypeOK
    <2> HIDE DEF rep
    <2>4. YesBySess' => YesBySess \/ YesByWindow
      BY <2>1, <2>2, <2>3, HandledSays DEF YesBySess, YesByWindow
    <2>5. YesByWindow' => YesByWindow
      BY <1>1, <2>1, CarriesTail DEF ReadWindow, YesByWindow
    <2>6. (YesByMain \/ YesByLocal \/ YesByPhones)' => YesByMain \/ YesByLocal \/ YesByPhones
      BY <1>1 DEF ReadWindow, YesByMain, YesByLocal, YesByPhones, phoneVars
    <2> QED
      BY <2>4, <2>5, <2>6 DEF YesOK
  <1>2. CASE ReadPhone
    <2> DEFINE rep == Head(replies)
    <2>1. rep \in Replies /\ replies \in Seq(Replies) /\ replies # <<>>
      BY <1>2 DEF ReadPhone, TypeOK
    <2>2. /\ rep.type = "approve" => Carries(replies, "approve")
          /\ rep.right => CarriesRight(replies)
      BY <2>1, CarriesHead
    <2>3. sess' = Handled(sess, rep) /\ sess \in SessType
      BY <1>2 DEF ReadPhone, TypeOK
    <2> HIDE DEF rep
    <2>4. YesBySess' => YesBySess \/ YesByPhones
      BY <2>1, <2>2, <2>3, HandledSays DEF YesBySess, YesByPhones
    <2>5. YesByPhones' => YesByPhones
      BY <1>2, <2>1, CarriesTail DEF ReadPhone, YesByPhones
    <2>6. (YesByMain \/ YesByLocal \/ YesByWindow)' => YesByMain \/ YesByLocal \/ YesByWindow
      BY <1>2 DEF ReadPhone, YesByMain, YesByLocal, YesByWindow, winVars
    <2> QED
      BY <2>4, <2>5, <2>6 DEF YesOK
  <1>3. CASE WindowGone \/ StopPolling \/ DeadlinePasses
    <2>1. sess'.approve = sess.approve /\ sess'.values = sess.values
      BY <1>3 DEF WindowGone, StopPolling, DeadlinePasses, End, TypeOK, SessType
    <2>2. YesBySess' => YesBySess
      BY <2>1 DEF YesBySess
    <2>3. UNCHANGED <<main, local, fromWin, unlocks, posts, replies>>
      BY <1>3 DEF WindowGone, StopPolling, DeadlinePasses, winVars, phoneVars
    <2>4. (YesByMain \/ YesByLocal \/ YesByWindow \/ YesByPhones)'
            => YesByMain \/ YesByLocal \/ YesByWindow \/ YesByPhones
      BY <2>3 DEF YesByMain, YesByLocal, YesByWindow, YesByPhones
    <2> QED
      BY <2>2, <2>4 DEF YesOK
  <1> QED
    BY <1>1, <1>2, <1>3 DEF Sessions

LEMMA YesUnlocking ==
  TypeOK /\ YesOK /\ Unlocking
    => ((YesByMain \/ YesByLocal \/ YesBySess \/ YesByWindow \/ YesByPhones)'
         => said.yes # {})
  <1> SUFFICES ASSUME TypeOK, YesOK, Unlocking,
                      (YesByMain \/ YesByLocal \/ YesBySess \/ YesByWindow
                         \/ YesByPhones)'
               PROVE  said.yes # {}
    OBVIOUS
  <1>1. UNCHANGED <<main, fromWin, unlocks, posts, replies>>
    BY DEF Unlocking, UnlockAsks, UnlockHears, UnlockAborts, UnlockOpens, UnlockFails,
           winVars, phoneVars
  <1>2. (YesByMain \/ YesByWindow \/ YesByPhones)'
          => YesByMain \/ YesByWindow \/ YesByPhones
    BY <1>1 DEF YesByMain, YesByWindow, YesByPhones
  <1>3. YesBySess' => YesBySess
    <2>1. /\ sess'.approve = sess.approve
          /\ sess'.values \in {sess.values, <<>>}
      BY DEF Unlocking, UnlockAsks, UnlockHears, UnlockAborts, UnlockOpens,
             UnlockFails, TypeOK, SessType
    <2> QED
      BY <2>1 DEF YesBySess
  <1>4. YesByLocal' => YesByLocal \/ YesBySess
    <2>1. CASE UnlockAsks
      <3>1. /\ local'.st \in {"ask", "failed"} /\ local.st # "none"
            /\ local'.answer = local.answer /\ local'.touched = local.touched
        BY <2>1 DEF UnlockAsks, TypeOK, LocalType
      <3> QED
        BY <3>1 DEF YesByLocal
    <2>2. CASE UnlockHears
      <3>1. /\ local'.st \in {"ask", "run"} /\ local.st # "none"
            /\ local'.touched = local.touched
            /\ \/ local'.answer = local.answer
               \/ local'.answer = "right" /\ Head(sess.values).right
               \/ local'.answer = "wrong"
        BY <2>2 DEF UnlockHears, TypeOK, LocalType
      <3>2. sess.values # <<>>
        BY <2>2 DEF UnlockHears
      <3> QED
        BY <3>1, <3>2 DEF YesByLocal, YesBySess
    <2>3. CASE UnlockAborts \/ UnlockFails
      <3>1. /\ local'.st \in {"aborted", "failed", "wrong"} /\ local.st # "none"
            /\ local'.answer = local.answer /\ local'.touched = local.touched
        BY <2>3 DEF UnlockAborts, UnlockFails, TypeOK, LocalType
      <3> QED
        BY <3>1 DEF YesByLocal
    <2>4. CASE UnlockOpens
      BY <2>4 DEF UnlockOpens, Proven, YesByLocal
    <2> QED
      BY <2>1, <2>2, <2>3, <2>4 DEF Unlocking
  <1> QED
    BY <1>2, <1>3, <1>4 DEF YesOK

LEMMA YesApprover ==
  TypeOK /\ YesOK /\ Approver
    => ((YesByMain \/ YesByLocal \/ YesBySess \/ YesByWindow \/ YesByPhones)'
         => said.yes # {})
  <1> SUFFICES ASSUME TypeOK, YesOK, Approver,
                      (YesByMain \/ YesByLocal \/ YesBySess \/ YesByWindow
                         \/ YesByPhones)'
               PROVE  said.yes # {}
    OBVIOUS
  <1>0. /\ NoUnlock.st = "none" /\ NoUnlock.answer = "none" /\ ~NoUnlock.touched
        /\ Running.st = "run" /\ Running.answer = "none" /\ ~Running.touched
    BY DEF Running, NoUnlock
  <1>1. UNCHANGED <<fromWin, posts, replies>> /\ (unlocks' = unlocks \/ unlocks # <<>>)
    BY DEF Approver, TakeDesktop, GiveUp, AskAgain, OfferRetry, TakeApprove, TakePhone,
           PhoneOpens, PhoneRefused, TakeEnd, ReadDuration, GrantNext, GrantFails,
           AllGranted, Finish, winVars, phoneVars
  <1>2. (YesByWindow \/ YesByPhones)' => YesByWindow \/ YesByPhones
    BY <1>1 DEF YesByWindow, YesByPhones
  <1>3. YesBySess' => YesBySess
    <2>1. CASE TakeApprove
      <3>1. sess'.approve = <<>> /\ sess'.values = sess.values
        BY <2>1 DEF TakeApprove, ApproveTaken, TypeOK, SessType
      <3> QED
        BY <3>1 DEF YesBySess
    <2>2. CASE TakePhone \/ Finish
      <3>1. sess'.approve = sess.approve /\ sess'.values = sess.values
        BY <2>2 DEF TakePhone, Pick, Finish, End, TypeOK, SessType
      <3> QED
        BY <3>1 DEF YesBySess
    <2>3. CASE sess' = sess
      BY <2>3 DEF YesBySess
    <2> QED
      BY <2>1, <2>2, <2>3
      DEF Approver, TakeDesktop, GiveUp, AskAgain, OfferRetry, PhoneOpens,
          PhoneRefused, TakeEnd, ReadDuration, GrantNext, GrantFails, AllGranted
  <1>4. YesByLocal' => YesByLocal \/ YesBySess
    <2>1. CASE AskAgain
      BY <1>0, <2>1 DEF AskAgain, YesByLocal
    <2>2. CASE TakeApprove
      BY <1>0, <2>2 DEF TakeApprove, YesByLocal, YesBySess
    <2>3. CASE local' = local
      BY <2>3 DEF YesByLocal
    <2>4. CASE local' = NoUnlock
      BY <1>0, <2>4 DEF YesByLocal
    <2> QED
      BY <2>1, <2>2, <2>3, <2>4
      DEF Approver, TakeDesktop, GiveUp, OfferRetry, TakePhone, PhoneOpens,
          PhoneRefused, TakeEnd, ReadDuration, GrantNext, GrantFails, AllGranted,
          Finish
  <1>5. YesByMain' => YesByMain \/ YesByLocal \/ YesByPhones
    <2>1. CASE TakeDesktop
      BY <2>1 DEF TakeDesktop, YesByLocal
    <2>2. CASE TakePhone
      BY <2>2 DEF TakePhone, YesByPhones
    <2>3. CASE PhoneOpens
      BY <2>3 DEF PhoneOpens, YesByMain
    <2>4. CASE AskAgain \/ OfferRetry \/ TakeApprove
      <3>1. main'.pc = main.pc
        BY <2>4 DEF AskAgain, OfferRetry, TakeApprove, TypeOK, MainType
      <3> QED
        BY <3>1 DEF YesByMain
    <2>5. CASE GiveUp \/ PhoneRefused \/ TakeEnd \/ ReadDuration \/ GrantNext
               \/ GrantFails \/ AllGranted \/ Finish
      <3>1. main'.pc \in {"finish", "select", "granting", "exited"}
        BY <2>5
        DEF GiveUp, PhoneRefused, TakeEnd, ReadDuration, GrantNext, GrantFails,
            AllGranted, Finish, TypeOK, MainType
      <3> QED
        BY <3>1 DEF YesByMain
    <2> QED
      BY <2>1, <2>2, <2>3, <2>4, <2>5 DEF Approver
  <1> QED
    BY <1>2, <1>3, <1>4, <1>5 DEF YesOK

LEMMA YesHuman ==
  TypeOK /\ YesOK /\ Human
    => ((YesByMain \/ YesByLocal \/ YesBySess \/ YesByWindow \/ YesByPhones)'
         => said'.yes # {})
  <1> SUFFICES ASSUME TypeOK, YesOK, Human,
                      (YesByMain \/ YesByLocal \/ YesBySess \/ YesByWindow
                         \/ YesByPhones)',
                      said'.yes = {}
               PROVE  FALSE
    OBVIOUS
  <1>1. \A a : ~SaysYes(a)
    BY DEF SaysYes, TypeOK, SaidType
  <1>2. said.yes = {}
    BY SaidGrows DEF Next
  <1>3. ~YesByMain' /\ ~YesBySess'
    <2>1. UNCHANGED <<main, sess>>
      BY DEF Human, PressApprove, AnswerPrompt, AnswerConfirm, PickInWindow,
             DenyInWindow, CloseWindow, WindowDies, Touch, PickOnPhone, DenyOnPhone,
             ApproveOnPhone
    <2> QED
      BY <1>2, <2>1 DEF YesOK, YesByMain, YesBySess
  <1>4. ~YesByLocal'
    <2>1. UNCHANGED local
      BY <1>1
      DEF Human, PressApprove, AnswerPrompt, AnswerConfirm, PickInWindow,
          DenyInWindow, CloseWindow, WindowDies, Touch, PickOnPhone, DenyOnPhone, ApproveOnPhone
    <2> QED
      BY <1>2, <2>1 DEF YesOK, YesByLocal
  <1>5. ~YesByPhones'
    <2>1. UNCHANGED <<replies, unlocks>>
      BY DEF Human, PressApprove, AnswerPrompt, AnswerConfirm, PickInWindow,
             DenyInWindow, CloseWindow, WindowDies, Touch, PickOnPhone, DenyOnPhone,
             ApproveOnPhone, phoneVars
    <2>2. \A post \in posts' : post \in posts \/ post.type # "unlock"
      <3>1. CASE posts' = posts
        BY <3>1
      <3>2. ASSUME NEW p \in Phones, NEW d \in Choices, PickOnPhone(p, d)
            PROVE  \A post \in posts' : post \in posts \/ post.type # "unlock"
        BY <3>2 DEF PickOnPhone, Post
      <3>3. ASSUME NEW p \in Phones, DenyOnPhone(p)
            PROVE  \A post \in posts' : post \in posts \/ post.type # "unlock"
        BY <3>3 DEF DenyOnPhone, Post
      <3>4. \A p \in Phones : ~ApproveOnPhone(p)
        BY <1>1 DEF ApproveOnPhone
      <3> QED
        BY <3>1, <3>2, <3>3, <3>4
        DEF Human, PressApprove, AnswerPrompt, AnswerConfirm, PickInWindow,
            DenyInWindow, CloseWindow, WindowDies, Touch, phoneVars
    <2> QED
      BY <1>2, <2>1, <2>2 DEF YesOK, YesByPhones
  <1>6. ~YesByWindow'
    <2>1. fromWin \in Seq(Replies) /\ ~YesByWindow
      BY <1>2 DEF TypeOK, YesOK
    <2>2. CASE fromWin' = fromWin
      BY <2>1, <2>2 DEF YesByWindow
    <2>3. ASSUME NEW m \in Replies, fromWin' = Append(fromWin, m), ~m.right,
                 By = "click" => m.type # "approve"
          PROVE  ~YesByWindow'
      BY <2>1, <2>3, CarriesAppend DEF YesByWindow
    <2>4. CASE PressApprove
      <3> DEFINE m == [Reply("approve") EXCEPT !.seen = win.seen]
      <3>1. m \in Replies
        BY ApprovalAssumption DEF TypeOK, WinType, Reply, Replies
      <3>2. ~m.right /\ fromWin' = Append(fromWin, m) /\ By # "click"
        BY <1>1, <2>4 DEF PressApprove, Reply
      <3> HIDE DEF m
      <3> QED
        BY <2>3, <3>1, <3>2
    <2>5. CASE AnswerPrompt \/ AnswerConfirm
      <3>1. PICK right \in BOOLEAN :
              /\ fromWin' = Append(fromWin, [Reply("value") EXCEPT !.id = win.prompt,
                                                                   !.right = right])
              /\ IF right THEN SaysYes(Window) ELSE UNCHANGED said
        BY <2>5 DEF AnswerPrompt, AnswerConfirm
      <3> DEFINE m == [Reply("value") EXCEPT !.id = win.prompt, !.right = right]
      <3>2. m \in Replies
        BY ApprovalAssumption DEF TypeOK, WinType, Reply, Replies
      <3>3. ~m.right /\ m.type = "value" /\ fromWin' = Append(fromWin, m)
        BY <1>1, <3>1 DEF Reply
      <3> HIDE DEF m
      <3> QED
        BY <2>3, <3>2, <3>3
    <2>6. CASE DenyInWindow \/ CloseWindow
      <3>1. Reply("deny") \in Replies
        BY ReplyType
      <3>2. Reply("deny").type = "deny" /\ ~Reply("deny").right
        BY DEF Reply
      <3>3. fromWin' = Append(fromWin, Reply("deny"))
        BY <2>6 DEF DenyInWindow, CloseWindow
      <3> QED
        BY <2>3, <3>1, <3>2, <3>3
    <2>7. ASSUME NEW d \in Choices, PickInWindow(d) PROVE ~YesByWindow'
      <3> DEFINE m == [Reply("for") EXCEPT !.for = d]
      <3>1. m \in Replies
        BY DEF Reply, Replies
      <3>2. ~m.right /\ m.type = "for" /\ fromWin' = Append(fromWin, m)
        BY <2>7 DEF Reply, PickInWindow
      <3> HIDE DEF m
      <3> QED
        BY <2>3, <3>1, <3>2
    <2> QED
      BY <2>2, <2>4, <2>5, <2>6, <2>7
      DEF Human, Touch, WindowDies, PickOnPhone, DenyOnPhone, ApproveOnPhone, winVars
  <1> QED
    BY <1>3, <1>4, <1>5, <1>6

LEMMA YesServer ==
  TypeOK /\ YesOK /\ Server
    => ((YesByMain \/ YesByLocal \/ YesBySess \/ YesByWindow \/ YesByPhones)'
         => said.yes # {})
  <1> SUFFICES ASSUME TypeOK, YesOK, NEW post \in posts,
                      \/ ReplyArrives(post) \/ UnlockArrives(post)
                      \/ UnlockFailsToPost(post) \/ ReplyLost(post),
                      (YesByMain \/ YesByLocal \/ YesBySess \/ YesByWindow
                         \/ YesByPhones)'
               PROVE  said.yes # {}
    BY DEF Server
  <1>1. UNCHANGED <<main, local, sess, fromWin>> /\ posts' \subseteq posts
    BY DEF ReplyArrives, UnlockArrives, UnlockFailsToPost, ReplyLost, winVars
  <1>2. (YesByMain \/ YesByLocal \/ YesBySess \/ YesByWindow)'
           => YesByMain \/ YesByLocal \/ YesBySess \/ YesByWindow
    BY <1>1 DEF YesByMain, YesByLocal, YesBySess, YesByWindow
  <1>3. YesByPhones' => YesByPhones
    <2>1. CASE ReplyArrives(post)
      <3> DEFINE m == [Reply(post.type) EXCEPT !.for = post.for]
      <3>1. post.type \in {"for", "deny"} /\ post.for \in Choices
        BY <2>1 DEF ReplyArrives, TypeOK, Posts
      <3>2. m \in Replies /\ ~m.right /\ m.type # "approve"
        BY <3>1, ApprovalAssumption DEF Reply, Replies
      <3>3. replies' = Append(replies, m) /\ replies \in Seq(Replies)
        BY <2>1 DEF ReplyArrives, TypeOK
      <3>4. unlocks' = unlocks
        BY <2>1 DEF ReplyArrives
      <3> HIDE DEF m
      <3>5. Carries(replies', "approve") => Carries(replies, "approve")
        BY <3>2, <3>3, CarriesAppend
      <3>6. CarriesRight(replies') => CarriesRight(replies)
        BY <3>2, <3>3, CarriesAppend
      <3> QED
        BY <1>1, <3>4, <3>5, <3>6 DEF YesByPhones
    <2>2. CASE UnlockArrives(post)
      BY <2>2 DEF UnlockArrives, YesByPhones
    <2>3. CASE UnlockFailsToPost(post) \/ ReplyLost(post)
      BY <1>1, <2>3 DEF UnlockFailsToPost, ReplyLost, YesByPhones
    <2> QED
      BY <2>1, <2>2, <2>3
  <1> QED
    BY <1>2, <1>3 DEF YesOK

LEMMA YesNext == TypeOK /\ YesOK /\ [Next]_vars => YesOK'
  <1> SUFFICES ASSUME TypeOK, YesOK, [Next]_vars,
                      (YesByMain \/ YesByLocal \/ YesBySess \/ YesByWindow
                         \/ YesByPhones)'
               PROVE  said'.yes # {}
    BY DEF YesOK
  <1>1. said.yes # {} => said'.yes # {}
    BY SaidGrows
  <1>2. CASE WindowShows \/ PageExits \/ UNCHANGED vars
    <2>1. UNCHANGED <<main, local, sess, fromWin, unlocks, posts, replies>>
      BY <1>2 DEF WindowShows, PageExits, vars, winVars, phoneVars
    <2>2. YesByMain \/ YesByLocal \/ YesBySess \/ YesByWindow \/ YesByPhones
      BY <2>1 DEF YesByMain, YesByLocal, YesBySess, YesByWindow, YesByPhones
    <2> QED
      BY <1>1, <2>2 DEF YesOK
  <1> QED
    BY <1>1, <1>2, YesSessions, YesUnlocking, YesApprover, YesHuman, YesServer
    DEF Next

LEMMA YesInit == Init => YesOK
  <1>1. Init => ~YesByMain /\ ~YesByWindow /\ ~YesByPhones
    BY DEF Init, YesByMain, YesByWindow, YesByPhones, Carries, CarriesRight
  <1>2. Init => ~YesBySess /\ ~YesByLocal
    BY DEF Init, YesByLocal, YesBySess, Running, NoUnlock
  <1> QED
    BY <1>1, <1>2 DEF YesOK

-----------------------------------------------------------------------------
(* A no behind every sign of one.                                          *)

LEMMA NoSessions ==
  TypeOK /\ EndsOK /\ NoOK /\ Sessions
    => ((NoBySess \/ NoByWindow \/ NoByPhones)'
         => said.no # {})
  <1> SUFFICES ASSUME TypeOK, EndsOK, NoOK, Sessions,
                      (NoBySess \/ NoByWindow \/ NoByPhones)'
               PROVE  said.no # {}
    OBVIOUS
  <1>1. CASE ReadWindow
    <2> DEFINE rep == Head(fromWin)
    <2>1. rep \in Replies /\ fromWin \in Seq(Replies) /\ fromWin # <<>>
      BY <1>1 DEF ReadWindow, TypeOK
    <2>2. rep.type = "deny" => Carries(fromWin, "deny")
      BY <2>1, CarriesHead
    <2>3. sess' = Handled(sess, rep) /\ sess \in SessType
      BY <1>1 DEF ReadWindow, TypeOK
    <2> HIDE DEF rep
    <2>4. NoBySess' => NoBySess \/ NoByWindow
      BY <2>1, <2>2, <2>3, HandledSays DEF NoBySess, NoByWindow
    <2>5. NoByWindow' => NoByWindow
      BY <1>1, <2>1, CarriesTail DEF ReadWindow, NoByWindow, Live
    <2>6. NoByPhones' => NoByPhones
      BY <1>1 DEF ReadWindow, NoByPhones, phoneVars
    <2> QED
      BY <2>4, <2>5, <2>6 DEF NoOK
  <1>2. CASE ReadPhone
    <2> DEFINE rep == Head(replies)
    <2>1. rep \in Replies /\ replies \in Seq(Replies) /\ replies # <<>>
      BY <1>2 DEF ReadPhone, TypeOK
    <2>2. rep.type = "deny" => Carries(replies, "deny")
      BY <2>1, CarriesHead
    <2>3. sess' = Handled(sess, rep) /\ sess \in SessType
      BY <1>2 DEF ReadPhone, TypeOK
    <2> HIDE DEF rep
    <2>4. NoBySess' => NoBySess \/ NoByPhones
      BY <2>1, <2>2, <2>3, HandledSays DEF NoBySess, NoByPhones
    <2>5. NoByPhones' => NoByPhones
      BY <1>2, <2>1, CarriesTail DEF ReadPhone, NoByPhones
    <2>6. NoByWindow' => NoByWindow
      BY <1>2 DEF ReadPhone, NoByWindow, winVars, Live
    <2> QED
      BY <2>4, <2>5, <2>6 DEF NoOK
  <1>3. CASE WindowGone
    BY <1>3 DEF WindowGone, NoOK, NoByWindow
  <1>4. CASE StopPolling
    <2>1. UNCHANGED <<sess, main, win, fromWin, reading, posts, replies>>
      BY <1>4 DEF StopPolling, winVars
    <2> QED
      BY <2>1 DEF NoOK, NoBySess, NoByWindow, NoByPhones, Live
  <1>5. CASE DeadlinePasses
    <2>1. sess'.ended = "timeout"
      BY <1>5 DEF DeadlinePasses, End, TypeOK, SessType
    <2>2. UNCHANGED <<main, win, fromWin, reading, posts, replies>>
      BY <1>5 DEF DeadlinePasses, winVars, phoneVars
    <2> QED
      BY <2>1, <2>2 DEF NoOK, NoBySess, NoByWindow, NoByPhones, Live
  <1> QED
    BY <1>1, <1>2, <1>3, <1>4, <1>5 DEF Sessions

\* The approver and its unlock only ever bring a request closer to its end.
LEMMA NoApprover ==
  TypeOK /\ EndsOK /\ NoOK /\ (Approver \/ Unlocking)
    => ((NoBySess \/ NoByWindow \/ NoByPhones)'
         => said.no # {})
  <1> SUFFICES ASSUME TypeOK, EndsOK, NoOK, Approver \/ Unlocking,
                      (NoBySess \/ NoByWindow \/ NoByPhones)'
               PROVE  said.no # {}
    OBVIOUS
  <1>1. CASE Approver
    <2>1. UNCHANGED <<win, fromWin, reading, posts, replies>> /\ Live
      <3>1. UNCHANGED <<win, fromWin, reading, posts, replies>>
        BY <1>1
        DEF Approver, TakeDesktop, GiveUp, AskAgain, OfferRetry, TakeApprove,
            TakePhone, PhoneOpens, PhoneRefused, TakeEnd, ReadDuration, GrantNext,
            GrantFails, AllGranted, Finish, winVars, phoneVars
      <3>2. Live
        BY <1>1
        DEF Approver, TakeDesktop, GiveUp, AskAgain, OfferRetry, TakeApprove,
            TakePhone, PhoneOpens, PhoneRefused, TakeEnd, ReadDuration, GrantNext,
            GrantFails, AllGranted, Finish, Selecting, Live
      <3> QED
        BY <3>1, <3>2
    <2>2. NoBySess' => NoBySess
      <3>1. CASE TakeApprove \/ TakePhone \/ Finish
        <4>1. sess'.ended \in {sess.ended, "finished"}
          BY <3>1
          DEF TakeApprove, ApproveTaken, TakePhone, Pick, Finish, End, TypeOK, SessType
        <4> QED
          BY <4>1 DEF NoBySess
      <3>2. CASE sess' = sess
        BY <3>2 DEF NoBySess
      <3> QED
        BY <1>1, <3>1, <3>2
        DEF Approver, TakeDesktop, GiveUp, AskAgain, OfferRetry, PhoneOpens,
            PhoneRefused, TakeEnd, ReadDuration, GrantNext, GrantFails, AllGranted
    <2> QED
      BY <2>1, <2>2 DEF NoOK, NoByWindow, NoByPhones
  <1>2. CASE Unlocking
    <2>1. UNCHANGED <<main, win, fromWin, reading, posts, replies>>
      BY <1>2
      DEF Unlocking, UnlockAsks, UnlockHears, UnlockAborts, UnlockOpens, UnlockFails,
          winVars, phoneVars
    <2>2. sess'.ended = sess.ended
      BY <1>2
      DEF Unlocking, UnlockAsks, UnlockHears, UnlockAborts, UnlockOpens, UnlockFails,
          TypeOK, SessType
    <2> QED
      BY <2>1, <2>2 DEF NoOK, NoBySess, NoByWindow, NoByPhones, Live
  <1> QED
    BY <1>1, <1>2

LEMMA NoWindow ==
  TypeOK /\ EndsOK /\ NoOK /\ (WindowShows \/ PageExits)
    => ((NoBySess \/ NoByWindow \/ NoByPhones)'
         => said.no # {})
  <1> SUFFICES ASSUME TypeOK, EndsOK, NoOK, WindowShows \/ PageExits,
                      (NoBySess \/ NoByWindow \/ NoByPhones)'
               PROVE  said.no # {}
    OBVIOUS
  <1>1. UNCHANGED <<sess, main, fromWin, reading, posts, replies>>
    BY DEF WindowShows, PageExits, phoneVars
  <1>2. CASE WindowShows
    <2>1. Head(toWin) \in Messages /\ toWin \in Seq(Messages) /\ toWin # <<>>
      BY <1>2 DEF WindowShows, TypeOK
    <2>2. win'.up = win.up
      BY <1>2 DEF WindowShows, TypeOK, WinType
    <2>3. win'.done => win.done \/ Head(toWin).type = "done"
      BY <1>2, <2>1 DEF WindowShows, TypeOK, WinType, Messages
    <2>4. Head(toWin).type = "done" => ~Live
      BY <2>1, CarriesHead DEF EndsOK
    <2> QED
      BY <1>1, <2>2, <2>3, <2>4 DEF NoOK, NoBySess, NoByWindow, NoByPhones, Live
  <1>3. CASE PageExits
    <2>1. win.done
      BY <1>3 DEF PageExits
    <2> QED
      BY <1>1, <2>1 DEF NoOK, NoBySess, NoByWindow, NoByPhones, Live
  <1> QED
    BY <1>2, <1>3

LEMMA NoHuman ==
  TypeOK /\ NoOK /\ Human
    => ((NoBySess \/ NoByWindow \/ NoByPhones)'
         => said'.no # {})
  <1> SUFFICES ASSUME TypeOK, NoOK, Human,
                      (NoBySess \/ NoByWindow \/ NoByPhones)', said'.no = {}
               PROVE  FALSE
    OBVIOUS
  <1>1. \A a : ~SaysNo(a)
    BY DEF SaysNo, TypeOK, SaidType
  <1>2. ~NoBySess /\ ~NoByWindow /\ ~NoByPhones
    BY SaidGrows DEF Next, NoOK
  <1>3. ~NoBySess'
    <2>1. UNCHANGED sess
      BY DEF Human, PressApprove, AnswerPrompt, AnswerConfirm, PickInWindow,
             DenyInWindow, CloseWindow, WindowDies, Touch, PickOnPhone, DenyOnPhone,
             ApproveOnPhone
    <2> QED
      BY <1>2, <2>1 DEF NoBySess
  <1>4. ~NoByPhones'
    <2>1. UNCHANGED replies
      BY DEF Human, PressApprove, AnswerPrompt, AnswerConfirm, PickInWindow,
             DenyInWindow, CloseWindow, WindowDies, Touch, PickOnPhone, DenyOnPhone,
             ApproveOnPhone, phoneVars
    <2>2. \A post \in posts' : post \in posts \/ post.type # "deny"
      <3>1. CASE posts' = posts
        BY <3>1
      <3>2. ASSUME NEW p \in Phones, NEW d \in Choices, PickOnPhone(p, d)
            PROVE  \A post \in posts' : post \in posts \/ post.type # "deny"
        BY <3>2 DEF PickOnPhone, Post
      <3>3. ASSUME NEW p \in Phones, ApproveOnPhone(p)
            PROVE  \A post \in posts' : post \in posts \/ post.type # "deny"
        BY <3>3 DEF ApproveOnPhone, Post
      <3>4. \A p \in Phones : ~DenyOnPhone(p)
        BY <1>1 DEF DenyOnPhone
      <3> QED
        BY <3>1, <3>2, <3>3, <3>4
        DEF Human, PressApprove, AnswerPrompt, AnswerConfirm, PickInWindow,
            DenyInWindow, CloseWindow, WindowDies, Touch, phoneVars
    <2> QED
      BY <1>2, <2>1, <2>2 DEF NoByPhones
  <1>5. ~NoByWindow'
    <2>1. fromWin \in Seq(Replies)
      BY DEF TypeOK
    <2>2. CASE UNCHANGED <<main, win, fromWin, reading>>
      BY <1>2, <2>2 DEF NoByWindow, Live
    <2>3. ASSUME NEW m \in Replies, fromWin' = Append(fromWin, m), m.type # "deny",
                 win'.up = win.up, win'.done = win.done, main' = main,
                 reading' = reading
          PROVE  ~NoByWindow'
      BY <1>2, <2>1, <2>3, CarriesAppend DEF NoByWindow, Live
    <2>4. CASE PressApprove
      <3> DEFINE m == [Reply("approve") EXCEPT !.seen = win.seen]
      <3>1. m \in Replies
        BY ApprovalAssumption DEF TypeOK, WinType, Reply, Replies
      <3>2. m.type = "approve" /\ fromWin' = Append(fromWin, m)
        BY <2>4 DEF PressApprove, Reply
      <3>3. win'.up = win.up /\ win'.done = win.done
        BY <2>4 DEF PressApprove, Busy, TypeOK, WinType
      <3>4. main' = main /\ reading' = reading
        BY <2>4 DEF PressApprove
      <3> HIDE DEF m
      <3> QED
        BY <2>3, <3>1, <3>2, <3>3, <3>4
    <2>5. CASE AnswerPrompt \/ AnswerConfirm
      <3>1. PICK right \in BOOLEAN :
              fromWin' = Append(fromWin, [Reply("value") EXCEPT !.id = win.prompt,
                                                                !.right = right])
        BY <2>5 DEF AnswerPrompt, AnswerConfirm
      <3> DEFINE m == [Reply("value") EXCEPT !.id = win.prompt, !.right = right]
      <3>2. m \in Replies
        BY ApprovalAssumption DEF TypeOK, WinType, Reply, Replies
      <3>3. m.type = "value" /\ fromWin' = Append(fromWin, m)
        BY <3>1 DEF Reply
      <3>4. win'.up = win.up /\ win'.done = win.done
        <4>1. CASE AnswerPrompt
          BY <4>1 DEF AnswerPrompt, Busy, TypeOK, WinType
        <4>2. CASE AnswerConfirm
          BY <4>2 DEF AnswerConfirm, TypeOK, WinType
        <4> QED
          BY <2>5, <4>1, <4>2
      <3>5. main' = main /\ reading' = reading
        BY <2>5 DEF AnswerPrompt, AnswerConfirm
      <3> HIDE DEF m
      <3> QED
        BY <2>3, <3>2, <3>3, <3>4, <3>5
    <2>6. ASSUME NEW d \in Choices, PickInWindow(d) PROVE ~NoByWindow'
      <3> DEFINE m == [Reply("for") EXCEPT !.for = d]
      <3>1. m \in Replies
        BY DEF Reply, Replies
      <3>2. m.type = "for" /\ fromWin' = Append(fromWin, m)
        BY <2>6 DEF Reply, PickInWindow
      <3>3. win'.up = win.up /\ win'.done = win.done
        BY <2>6 DEF PickInWindow, TypeOK, WinType
      <3>4. main' = main /\ reading' = reading
        BY <2>6 DEF PickInWindow
      <3> HIDE DEF m
      <3> QED
        BY <2>3, <3>1, <3>2, <3>3, <3>4
    <2>7. ~DenyInWindow /\ ~CloseWindow /\ ~WindowDies
      BY <1>1 DEF DenyInWindow, CloseWindow, WindowDies
    <2> QED
      BY <2>2, <2>4, <2>5, <2>6, <2>7
      DEF Human, Touch, WindowDies, PickOnPhone, DenyOnPhone, ApproveOnPhone, winVars
  <1> QED
    BY <1>3, <1>4, <1>5

LEMMA NoServer ==
  TypeOK /\ NoOK /\ Server
    => ((NoBySess \/ NoByWindow \/ NoByPhones)'
         => said.no # {})
  <1> SUFFICES ASSUME TypeOK, NoOK, NEW post \in posts,
                      \/ ReplyArrives(post) \/ UnlockArrives(post)
                      \/ UnlockFailsToPost(post) \/ ReplyLost(post),
                      (NoBySess \/ NoByWindow \/ NoByPhones)'
               PROVE  said.no # {}
    BY DEF Server
  <1>1. UNCHANGED <<sess, main, win, fromWin, reading>> /\ posts' \subseteq posts
    BY DEF ReplyArrives, UnlockArrives, UnlockFailsToPost, ReplyLost, winVars
  <1>2. (NoBySess \/ NoByWindow)' => NoBySess \/ NoByWindow
    BY <1>1 DEF NoBySess, NoByWindow, Live
  <1>3. NoByPhones' => NoByPhones
    <2>1. CASE ReplyArrives(post)
      <3> DEFINE m == [Reply(post.type) EXCEPT !.for = post.for]
      <3>1. post.type \in {"for", "deny"} /\ post.for \in Choices
        BY <2>1 DEF ReplyArrives, TypeOK, Posts
      <3>2. m \in Replies /\ m.type = post.type
        BY <3>1, ApprovalAssumption DEF Reply, Replies
      <3>3. replies' = Append(replies, m) /\ replies \in Seq(Replies)
        BY <2>1 DEF ReplyArrives, TypeOK
      <3> HIDE DEF m
      <3>4. Carries(replies', "deny") => Carries(replies, "deny") \/ post.type = "deny"
        BY <3>2, <3>3, CarriesAppend
      <3> QED
        BY <1>1, <3>4 DEF NoByPhones
    <2>2. CASE UnlockArrives(post) \/ UnlockFailsToPost(post) \/ ReplyLost(post)
      BY <1>1, <2>2 DEF UnlockArrives, UnlockFailsToPost, ReplyLost, NoByPhones
    <2> QED
      BY <2>1, <2>2
  <1> QED
    BY <1>2, <1>3 DEF NoOK

LEMMA NoNext == TypeOK /\ EndsOK /\ NoOK /\ [Next]_vars => NoOK'
  <1> SUFFICES ASSUME TypeOK, EndsOK, NoOK, [Next]_vars,
                      (NoBySess \/ NoByWindow \/ NoByPhones)'
               PROVE  said'.no # {}
    BY DEF NoOK
  <1>1. said.no # {} => said'.no # {}
    BY SaidGrows
  <1>2. CASE UNCHANGED vars
    BY <1>2 DEF vars, winVars, phoneVars, NoOK, NoBySess, NoByWindow, NoByPhones, Live
  <1> QED
    BY <1>1, <1>2, NoSessions, NoApprover, NoWindow, NoHuman, NoServer DEF Next

LEMMA NoInit == Init => NoOK
  <1>1. Init => ~NoBySess /\ ~NoByPhones
    BY DEF Init, NoBySess, NoByPhones, Carries
  <1>2. Init => ~NoByWindow
    BY DEF Init, NoByWindow, Carries
  <1> QED
    BY <1>1, <1>2 DEF NoOK

-----------------------------------------------------------------------------
(* The theorems.                                                           *)

\* In every reachable state, whatever the number of phones and secrets, the
\* yes behind an unlock and the no behind a denial can be traced to someone.
THEOREM RequestInvariant == Spec => []RequestInv
  <1>1. Init => RequestInv
    BY TypeInit, EndsInit, YesInit, NoInit DEF RequestInv
  <1>2. RequestInv /\ [Next]_vars => RequestInv'
    BY TypeNext, EndsNext, YesNext, NoNext DEF RequestInv
  <1> QED
    BY <1>1, <1>2, PTL DEF Spec

LEMMA OutcomeInit == Init => Outcome!Init
  BY DEF Init, Outcome!Init

\* Someone's answer is a yes, or a no, of the abstract request and leaves the
\* rest of it alone.
LEMMA OutcomeHuman == RequestInv /\ Human => [Outcome!Next]_Outcome!vars
  <1> SUFFICES ASSUME TypeOK, Human PROVE [Outcome!Next]_Outcome!vars
    BY DEF RequestInv
  <1>1. UNCHANGED main
    BY DEF Human, PressApprove, AnswerPrompt, AnswerConfirm, PickInWindow,
           DenyInWindow, CloseWindow, WindowDies, Touch, PickOnPhone, DenyOnPhone, ApproveOnPhone
  <1>2. \/ UNCHANGED said
        \/ \E a \in Actors : SaysYes(a) \/ SaysNo(a)
    BY DEF Human, PressApprove, AnswerPrompt, AnswerConfirm, PickInWindow,
           DenyInWindow, CloseWindow, WindowDies, Touch, PickOnPhone, DenyOnPhone,
           ApproveOnPhone, Actors
  <1>3. CASE UNCHANGED said
    BY <1>1, <1>3 DEF Outcome!vars
  <1>4. ASSUME NEW a \in Actors, SaysYes(a) PROVE Outcome!Next
    <2>1. said'.yes = said.yes \cup {a} /\ said'.no = said.no
      BY <1>4 DEF SaysYes, TypeOK, SaidType
    <2> QED
      BY <1>1, <2>1 DEF Outcome!Next, Outcome!SayYes
  <1>5. ASSUME NEW a \in Actors, SaysNo(a) PROVE Outcome!Next
    <2>1. said'.no = said.no \cup {a} /\ said'.yes = said.yes
      BY <1>5 DEF SaysNo, TypeOK, SaidType
    <2> QED
      BY <1>1, <2>1 DEF Outcome!Next, Outcome!SayNo
  <1> QED
    BY <1>2, <1>3, <1>4, <1>5

LEMMA OutcomeApprover == RequestInv /\ Approver => [Outcome!Next]_Outcome!vars
  <1> SUFFICES ASSUME TypeOK, EndsOK, YesOK, NoOK, Approver
               PROVE  [Outcome!Next]_Outcome!vars
    BY DEF RequestInv
  <1>1. UNCHANGED said
    BY DEF Approver, TakeDesktop, GiveUp, AskAgain, OfferRetry, TakeApprove,
           TakePhone, PhoneOpens, PhoneRefused, TakeEnd, ReadDuration, GrantNext,
           GrantFails, AllGranted, Finish
  <1>2. CASE TakeDesktop \/ AskAgain \/ OfferRetry \/ TakeApprove \/ TakePhone
             \/ PhoneOpens \/ PhoneRefused
    <2>1. /\ main'.outcome = main.outcome /\ main'.ttl = main.ttl
          /\ main'.held = main.held /\ main.pc # "granting" /\ main'.pc # "granting"
      <3>1. CASE TakeDesktop \/ TakePhone \/ PhoneOpens \/ PhoneRefused
        BY <3>1
        DEF TakeDesktop, TakePhone, PhoneOpens, PhoneRefused, Selecting, TypeOK, MainType
      <3>2. CASE AskAgain \/ OfferRetry \/ TakeApprove
        BY <3>2 DEF AskAgain, OfferRetry, TakeApprove, Selecting, TypeOK, MainType
      <3> QED
        BY <1>2, <3>1, <3>2
    <2> QED
      BY <1>1, <2>1 DEF Outcome!vars
  <1>3. CASE GiveUp \/ TakeEnd
    <2>1. main.pc = "select" /\ main.outcome = "none" /\ sess.ended # "finished"
      BY <1>3 DEF GiveUp, TakeEnd, Selecting, EndsOK, Live
    <2>2. /\ main'.outcome \in {"failed", "timeout", "denied"}
          /\ main'.outcome = "denied" => sess.ended = "denied"
          /\ main'.ttl = main.ttl /\ main'.held = main.held
      <3>1. CASE GiveUp
        <4>1. PICK o \in LastError :
                main' = [main EXCEPT !.pc = "finish", !.attempt = @ + 1, !.outcome = o]
          BY <3>1 DEF GiveUp
        <4>2. local.st = "aborted" => sess.ended \in {"denied", "timeout"}
          BY <2>1 DEF EndsOK, TypeOK, SessType
        <4>3. /\ o \in {"failed", "timeout", "denied"}
              /\ o = "denied" => sess.ended = "denied"
          BY <4>1, <4>2 DEF LastError
        <4> QED
          BY <4>1, <4>3 DEF TypeOK, MainType
      <3>2. CASE TakeEnd
        <4>1. sess.ended \in {"denied", "timeout"}
          BY <2>1, <3>2 DEF TakeEnd, TypeOK, SessType
        <4> QED
          BY <3>2, <4>1 DEF TakeEnd, TypeOK, MainType
      <3> QED
        BY <1>3, <3>1, <3>2
    <2>3. main'.outcome = "denied" => said.no # {}
      BY <2>2 DEF NoOK, NoBySess
    <2>4. CASE main'.outcome = "denied"
      BY <1>1, <2>1, <2>2, <2>3, <2>4 DEF Outcome!Next, Outcome!Deny
    <2>5. CASE main'.outcome = "timeout"
      BY <1>1, <2>1, <2>2, <2>5 DEF Outcome!Next, Outcome!TimeOut
    <2>6. CASE main'.outcome = "failed"
      BY <1>1, <2>1, <2>2, <2>6 DEF Outcome!Next, Outcome!Fail
    <2> QED
      BY <2>2, <2>4, <2>5, <2>6
  <1>4. CASE ReadDuration
    <2>1. main.outcome = "none" /\ main.pc = "approved" /\ said.yes # {}
      BY <1>4 DEF ReadDuration, EndsOK, YesOK, YesByMain
    <2>2. /\ main'.outcome = main.outcome /\ main'.pc = "granting"
          /\ main'.ttl = sess.forSecs /\ main'.held = main.held
      BY <1>4 DEF ReadDuration, TypeOK, MainType
    <2>3. sess.forSecs \in Choices
      BY DEF TypeOK, SessType
    <2> QED
      BY <1>1, <2>1, <2>2, <2>3 DEF Outcome!Next, Outcome!Approve
  <1>5. CASE GrantNext
    <2>1. main.outcome = "none" /\ main.pc = "granting" /\ main.held < NumSecrets
      BY <1>5 DEF GrantNext, EndsOK
    <2>2. /\ main'.outcome = main.outcome /\ main'.pc = "granting"
          /\ main'.ttl = main.ttl /\ main'.held = main.held + 1
      BY <1>5 DEF GrantNext, TypeOK, MainType
    <2> QED
      BY <1>1, <2>1, <2>2 DEF Outcome!Next, Outcome!GrantOne
  <1>6. CASE GrantFails
    <2>1. main.outcome = "none" /\ main.pc = "granting"
      BY <1>6 DEF GrantFails, EndsOK
    <2>2. /\ main'.outcome = "failed" /\ main'.ttl = main.ttl
          /\ main'.held = main.held
      BY <1>6 DEF GrantFails, TypeOK, MainType
    <2> QED
      BY <1>1, <2>1, <2>2 DEF Outcome!Next, Outcome!Fail
  <1>7. CASE AllGranted
    <2>1. main.outcome = "none" /\ main.pc = "granting" /\ main.held = NumSecrets
      BY <1>7 DEF AllGranted, EndsOK
    <2>2. /\ main'.outcome = "granted" /\ main'.ttl = main.ttl
          /\ main'.held = main.held
      BY <1>7 DEF AllGranted, TypeOK, MainType
    <2> QED
      BY <1>1, <2>1, <2>2 DEF Outcome!Next, Outcome!Complete
  <1>8. CASE Finish
    <2>1. main.outcome # "none"
      BY <1>8 DEF Finish, EndsOK
    <2>2. /\ main'.outcome = main.outcome /\ main'.ttl = main.ttl
          /\ main'.held = main.held
      BY <1>8 DEF Finish, TypeOK, MainType
    <2> QED
      BY <1>1, <2>1, <2>2 DEF Outcome!vars
  <1> QED
    BY <1>2, <1>3, <1>4, <1>5, <1>6, <1>7, <1>8 DEF Approver

LEMMA OutcomeNext == RequestInv /\ [Next]_vars => [Outcome!Next]_Outcome!vars
  <1> SUFFICES ASSUME RequestInv, [Next]_vars PROVE [Outcome!Next]_Outcome!vars
    OBVIOUS
  <1>1. CASE Sessions \/ Unlocking \/ WindowShows \/ PageExits \/ Server
             \/ UNCHANGED vars
    <2>1. UNCHANGED <<main, said>>
      BY <1>1
      DEF Sessions, ReadWindow, WindowGone, ReadPhone, StopPolling, DeadlinePasses,
          Unlocking, UnlockAsks, UnlockHears, UnlockAborts, UnlockOpens, UnlockFails,
          WindowShows, PageExits, Server, ReplyArrives, UnlockArrives,
          UnlockFailsToPost, ReplyLost, vars
    <2> QED
      BY <2>1 DEF Outcome!vars
  <1> QED
    BY <1>1, OutcomeHuman, OutcomeApprover DEF Next

\* Whatever the window, the phones and the network do, a request keeps the
\* promise of RequestOutcome: no grant without a yes, no "denied" without a
\* no, nothing granted by a request that was denied or timed out, and one
\* duration for all its grants.
THEOREM OutcomeCorrect == Spec => OutcomeSpec
  <1>1. Init => Outcome!Init
    BY OutcomeInit
  <1>2. RequestInv /\ [Next]_vars => [Outcome!Next]_Outcome!vars
    BY OutcomeNext
  <1> QED
    BY <1>1, <1>2, RequestInvariant, PTL DEF Spec, OutcomeSpec, Outcome!Spec

-----------------------------------------------------------------------------
(* Whose turn it is.  While the request is open, at most one prompt is on  *)
(* its way (to the window, on its page, or back as a value), and at most   *)
(* one press; the button is there to press only while the approver waits   *)
(* for it, and with every failure shown.                                   *)

\* At most one message, or reply, of a type in a queue.
Once(q, type) ==
  \A i, j \in DOMAIN q : q[i].type = type /\ q[j].type = type => i = j

\* The messages that offer Try again, and those that take it away.
RetryIn(q) == \E i \in DOMAIN q : q[i].retry
RetryOnce(q) == \A i, j \in DOMAIN q : q[i].retry /\ q[j].retry => i = j
Takes(m) == m.type = "status" /\ ~m.retry
TakesIn(q) == \E i \in DOMAIN q : Takes(q[i])
TakenFirst(q) == \A i, j \in DOMAIN q : q[i].retry /\ Takes(q[j]) => j < i

\* What every message to the window is like.
GoodMessage(m) ==
  /\ m.confirm => Confirms
  /\ m.type = "prompt" => m.id # 0
  /\ m.retry => m.type = "status"

\* Plugins ask no question in a plain vault: there one would bring Approve
\* back while its unlock runs.
Quiet == Confirms => By # "click"

\* Nothing the phones post is a press or a value.
PhonesOK == \A i \in DOMAIN replies : replies[i].type \in {"for", "deny"}

\* No unlock runs while the approver waits for a press.
WaitOK ==
  /\ Live /\ (main.wait => local.st = "none")
  /\ win.confirm => Confirms
  /\ \A i \in DOMAIN toWin : GoodMessage(toWin[i])

\* A prompt's value on its way back, and a prompt wherever it is.
Answered == sess.values # <<>> \/ Carries(fromWin, "value")
Prompted == Answered \/ win.prompt # 0 \/ Carries(toWin, "prompt")

\* One prompt at a time, and only while the unlock asks.
PromptOK ==
  /\ Once(toWin, "prompt") /\ Once(fromWin, "value")
  /\ sess.values # <<>> => ~Carries(fromWin, "value")
  /\ Answered => win.prompt = 0 /\ ~Carries(toWin, "prompt")
  /\ win.prompt # 0 => ~Carries(toWin, "prompt")
  /\ Prompted => local.st = "ask"

\* Something to press on the page, and a press on its way.
Ready ==
  win.up /\ (win.retry \/ (By = "click" /\ ~win.busy /\ win.prompt = 0))
Pressed == sess.approve # <<>> \/ Carries(fromWin, "approve")

\* One press at a time, made while the approver waits and with every failure
\* shown, and no button to make another of until its unlock has failed.
PressOK ==
  /\ Once(fromWin, "approve") /\ RetryOnce(toWin)
  /\ sess.approve # <<>> => Head(sess.approve) = main.fails /\ ~Carries(fromWin, "approve")
  /\ \A i \in DOMAIN fromWin :
       fromWin[i].type = "approve" => fromWin[i].seen = main.fails
  /\ Pressed \/ Ready \/ RetryIn(toWin) => main.wait
  /\ Pressed => ~Ready /\ ~RetryIn(toWin)
  /\ Ready => ~RetryIn(toWin)
  /\ win.up => main.fails = win.seen + (IF RetryIn(toWin) THEN 1 ELSE 0)

\* The open request.
TurnInv ==
  PhonesOK /\ (sess.ended = "open" => WaitOK /\ PromptOK /\ PressOK)

\* A status for another reason does not take Try again away: it is a phone's
\* refused key, which a plain vault's page gets over (Approve is still there).
NoneRefused == KeyRefused => By = "click"

\* No status takes Try again away once it is offered, and while the approver
\* waits a page that can be used offers it, or will.
OfferOK ==
  /\ win.retry => ~win.busy
  /\ By # "click" => TakenFirst(toWin) /\ (win.retry => ~TakesIn(toWin))
  /\ main.wait /\ Usable => Ready \/ Pressed \/ RetryIn(toWin)
OfferInv == sess.ended = "open" => OfferOK

\* What the window has paid for and no unlock has used: presses and values on
\* their way, and the answer the running unlock has.
AsksIn(q) == {i \in DOMAIN q : q[i].type \in {"approve", "value"}}
Unused ==
  Cardinality(AsksIn(fromWin)) + Len(sess.approve) + Len(sess.values)
    + (IF local.answer = "none" THEN 0 ELSE 1)

\* An unlock the approver starts anew by itself has used up an answer.
PaidInv ==
  /\ PhonesOK
  /\ local.st = "wrong" => local.answer = "wrong"
  /\ By = "click" => main.starts + Unused <= win.presses + win.typed

-----------------------------------------------------------------------------
(* The queues, one message more or one less.                               *)

LEMMA GrownQueue ==
  ASSUME NEW S, NEW q \in Seq(S), NEW m \in S
  PROVE  /\ \A i \in DOMAIN Append(q, m) :
              (i \in DOMAIN q /\ Append(q, m)[i] = q[i])
                \/ (i = Len(q) + 1 /\ Append(q, m)[i] = m)
         /\ \A i \in DOMAIN q : i \in DOMAIN Append(q, m) /\ Append(q, m)[i] = q[i]
         /\ Len(q) + 1 \in DOMAIN Append(q, m) /\ Append(q, m)[Len(q) + 1] = m
         /\ DOMAIN q = 1..Len(q) /\ Len(q) \in Nat
  OBVIOUS

LEMMA TakenQueue ==
  ASSUME NEW S, NEW q \in Seq(S), q # <<>>
  PROVE  /\ \A i \in DOMAIN Tail(q) :
              i \in Nat \ {0} /\ i + 1 \in DOMAIN q /\ Tail(q)[i] = q[i + 1]
         /\ \A i \in DOMAIN q :
              \/ i = 1
              \/ i - 1 \in DOMAIN Tail(q) /\ Tail(q)[i - 1] = q[i] /\ i \in Nat
         /\ 1 \in DOMAIN q /\ Head(q) = q[1]
  OBVIOUS

LEMMA GrownTypes ==
  ASSUME NEW S, NEW q \in Seq(S), NEW m \in S, NEW type
  PROVE  /\ Carries(Append(q, m), type) <=> Carries(q, type) \/ m.type = type
         /\ Once(q, type) /\ (m.type = type => ~Carries(q, type))
              => Once(Append(q, m), type)
  <1>1. Carries(Append(q, m), type) <=> Carries(q, type) \/ m.type = type
    BY GrownQueue DEF Carries
  <1>2. ASSUME Once(q, type), m.type = type => ~Carries(q, type),
               NEW i \in DOMAIN Append(q, m), NEW j \in DOMAIN Append(q, m),
               Append(q, m)[i].type = type, Append(q, m)[j].type = type
        PROVE  i = j
    <2>1. CASE i \in DOMAIN q /\ Append(q, m)[i] = q[i]
               /\ j \in DOMAIN q /\ Append(q, m)[j] = q[j]
      BY <1>2, <2>1 DEF Once
    <2>2. CASE m.type # type
      BY <1>2, <2>1, <2>2, GrownQueue
    <2>3. CASE m.type = type
      <3>1. \A k \in DOMAIN q : q[k].type # type
        BY <1>2, <2>3 DEF Carries
      <3>2. i = Len(q) + 1 /\ j = Len(q) + 1
        BY <1>2, <3>1, GrownQueue
      <3> QED
        BY <3>2
    <2> QED
      BY <2>2, <2>3
  <1> QED
    BY <1>1, <1>2 DEF Once

LEMMA TakenTypes ==
  ASSUME NEW S, NEW q \in Seq(S), q # <<>>, NEW type
  PROVE  /\ Carries(q, type) <=> Head(q).type = type \/ Carries(Tail(q), type)
         /\ Once(q, type) => Once(Tail(q), type)
         /\ Once(q, type) /\ Head(q).type = type => ~Carries(Tail(q), type)
  <1>1. Carries(q, type) <=> Head(q).type = type \/ Carries(Tail(q), type)
    <2>1. ASSUME NEW i \in DOMAIN q, q[i].type = type
          PROVE  Head(q).type = type \/ Carries(Tail(q), type)
      <3>1. CASE i = 1
        BY <2>1, <3>1, TakenQueue
      <3>2. CASE i - 1 \in DOMAIN Tail(q) /\ Tail(q)[i - 1] = q[i]
        BY <2>1, <3>2 DEF Carries
      <3> QED
        BY <3>1, <3>2, TakenQueue
    <2>2. Head(q).type = type \/ Carries(Tail(q), type) => Carries(q, type)
      BY TakenQueue DEF Carries
    <2> QED
      BY <2>1, <2>2 DEF Carries
  <1>2. ASSUME Once(q, type), NEW i \in DOMAIN Tail(q), NEW j \in DOMAIN Tail(q),
               Tail(q)[i].type = type, Tail(q)[j].type = type
        PROVE  i = j
    <2>1. i \in Nat /\ j \in Nat /\ i + 1 = j + 1
      BY <1>2, TakenQueue DEF Once
    <2> QED
      BY <2>1
  <1>3. ASSUME Once(q, type), Head(q).type = type, NEW i \in DOMAIN Tail(q),
               Tail(q)[i].type = type
        PROVE  FALSE
    <2>1. i \in Nat \ {0} /\ i + 1 = 1
      BY <1>3, TakenQueue DEF Once
    <2> QED
      BY <2>1
  <1> QED
    BY <1>1, <1>2, <1>3 DEF Once, Carries

LEMMA GrownRetry ==
  ASSUME NEW S, NEW q \in Seq(S), NEW m \in S
  PROVE  /\ RetryIn(Append(q, m)) <=> RetryIn(q) \/ m.retry
         /\ RetryOnce(q) /\ (m.retry => ~RetryIn(q)) => RetryOnce(Append(q, m))
         /\ TakesIn(Append(q, m)) => TakesIn(q) \/ Takes(m)
         /\ TakenFirst(q) /\ (Takes(m) => ~RetryIn(q)) => TakenFirst(Append(q, m))
  <1>1. RetryIn(Append(q, m)) <=> RetryIn(q) \/ m.retry
    BY GrownQueue DEF RetryIn
  <1>2. ASSUME RetryOnce(q), m.retry => ~RetryIn(q),
               NEW i \in DOMAIN Append(q, m), NEW j \in DOMAIN Append(q, m),
               Append(q, m)[i].retry, Append(q, m)[j].retry
        PROVE  i = j
    <2>1. CASE ~m.retry
      BY <1>2, <2>1, GrownQueue DEF RetryOnce
    <2>2. CASE m.retry
      <3>1. \A k \in DOMAIN q : ~q[k].retry
        BY <1>2, <2>2 DEF RetryIn
      <3>2. i = Len(q) + 1 /\ j = Len(q) + 1
        BY <1>2, <3>1, GrownQueue
      <3> QED
        BY <3>2
    <2> QED
      BY <2>1, <2>2
  <1>3. TakesIn(Append(q, m)) => TakesIn(q) \/ Takes(m)
    BY GrownQueue DEF TakesIn
  <1>4. ASSUME TakenFirst(q), Takes(m) => ~RetryIn(q),
               NEW i \in DOMAIN Append(q, m), NEW j \in DOMAIN Append(q, m),
               Append(q, m)[i].retry, Takes(Append(q, m)[j])
        PROVE  j < i
    <2>1. CASE i \in DOMAIN q /\ Append(q, m)[i] = q[i]
      <3>1. j \in DOMAIN q /\ Append(q, m)[j] = q[j]
        <4>1. RetryIn(q)
          BY <1>4, <2>1 DEF RetryIn
        <4> QED
          BY <1>4, <4>1, GrownQueue
      <3> QED
        BY <1>4, <2>1, <3>1 DEF TakenFirst
    <2>2. CASE i = Len(q) + 1 /\ Append(q, m)[i] = m
      <3>1. ~Takes(m)
        BY <1>4, <2>2 DEF Takes
      <3>2. j \in 1..Len(q) /\ Len(q) \in Nat
        BY <1>4, <3>1, GrownQueue
      <3> QED
        BY <2>2, <3>2
    <2> QED
      BY <2>1, <2>2, GrownQueue
  <1> QED
    BY <1>1, <1>2, <1>3, <1>4 DEF RetryOnce, TakenFirst

LEMMA TakenRetry ==
  ASSUME NEW S, NEW q \in Seq(S), q # <<>>
  PROVE  /\ RetryIn(q) <=> Head(q).retry \/ RetryIn(Tail(q))
         /\ RetryOnce(q) => RetryOnce(Tail(q))
         /\ RetryOnce(q) /\ Head(q).retry => ~RetryIn(Tail(q))
         /\ TakesIn(Tail(q)) => TakesIn(q)
         /\ Takes(Head(q)) => TakesIn(q)
         /\ TakenFirst(q) => TakenFirst(Tail(q))
         /\ TakenFirst(q) /\ Head(q).retry => ~TakesIn(Tail(q))
  <1>1. RetryIn(q) => Head(q).retry \/ RetryIn(Tail(q))
    BY TakenQueue DEF RetryIn
  <1>2. Head(q).retry \/ RetryIn(Tail(q)) => RetryIn(q)
    BY TakenQueue DEF RetryIn
  <1>3. ASSUME RetryOnce(q), NEW i \in DOMAIN Tail(q), NEW j \in DOMAIN Tail(q),
               Tail(q)[i].retry, Tail(q)[j].retry
        PROVE  i = j
    <2>1. i \in Nat /\ j \in Nat /\ i + 1 = j + 1
      BY <1>3, TakenQueue DEF RetryOnce
    <2> QED
      BY <2>1
  <1>4. ASSUME RetryOnce(q), Head(q).retry, NEW i \in DOMAIN Tail(q), Tail(q)[i].retry
        PROVE  FALSE
    <2>1. i \in Nat \ {0} /\ i + 1 = 1
      BY <1>4, TakenQueue DEF RetryOnce
    <2> QED
      BY <2>1
  <1>5. (TakesIn(Tail(q)) => TakesIn(q)) /\ (Takes(Head(q)) => TakesIn(q))
    BY TakenQueue DEF TakesIn
  <1>6. ASSUME TakenFirst(q), NEW i \in DOMAIN Tail(q), NEW j \in DOMAIN Tail(q),
               Tail(q)[i].retry, Takes(Tail(q)[j])
        PROVE  j < i
    <2>1. i \in Nat /\ j \in Nat /\ j + 1 < i + 1
      BY <1>6, TakenQueue DEF TakenFirst
    <2> QED
      BY <2>1
  <1>7. ASSUME TakenFirst(q), Head(q).retry, NEW j \in DOMAIN Tail(q), Takes(Tail(q)[j])
        PROVE  FALSE
    <2>1. j \in Nat \ {0} /\ j + 1 < 1
      BY <1>7, TakenQueue DEF TakenFirst
    <2> QED
      BY <2>1
  <1> QED
    BY <1>1, <1>2, <1>3, <1>4, <1>5, <1>6, <1>7 DEF RetryIn, RetryOnce, TakesIn, TakenFirst

-----------------------------------------------------------------------------
(* The steps that move the turn, and those that leave it where it is.      *)

\* A step that passes no press or prompt on: the session's slots and the
\* page keep what they hold, the window hears at most a pick or a deny, and
\* the page at most a status that takes Try again away.
Calm ==
  /\ sess'.approve = sess.approve /\ sess'.values = sess.values
  /\ main'.wait = main.wait /\ main'.fails = main.fails
  /\ main'.pc = "exited" => main.pc = "exited"
  /\ win'.prompt = win.prompt /\ win'.confirm = win.confirm
  /\ win'.retry = win.retry /\ win'.busy = win.busy /\ win'.seen = win.seen
  /\ (Usable' => Usable) /\ (win'.up => win.up)
  /\ local.st = "ask" => local'.st = "ask"
  /\ local.st = "none" => local'.st = "none"
  /\ \/ fromWin' = fromWin
     \/ \E m \in Replies : m.type \in {"for", "deny"} /\ fromWin' = Append(fromWin, m)
  /\ \/ toWin' = toWin
     \/ /\ win.up /\ toWin' = Append(toWin, Message("status"))
        /\ KeyRefused \/ local.st = "wrong"

Answers == AnswerPrompt \/ AnswerConfirm
Moves == 
  \/ ReadWindow \/ UnlockAsks \/ UnlockHears \/ OfferRetry \/ TakeApprove
  \/ WindowShows \/ PressApprove \/ Answers

LEMMA StaysEnded ==
  TypeOK /\ [Next]_vars /\ sess'.ended = "open" => sess.ended = "open"
  <1> SUFFICES ASSUME TypeOK, [Next]_vars, sess'.ended = "open"
               PROVE  sess.ended = "open"
    OBVIOUS
  <1>0. sess \in SessType
    BY DEF TypeOK
  <1>1. CASE ReadWindow
    <2>1. Head(fromWin) \in Replies
      BY <1>1 DEF ReadWindow, TypeOK
    <2> QED
      BY <1>0, <1>1, <2>1, HandledSays DEF ReadWindow
  <1>2. CASE ReadPhone
    <2>1. Head(replies) \in Replies
      BY <1>2 DEF ReadPhone, TypeOK
    <2> QED
      BY <1>0, <1>2, <2>1, HandledSays DEF ReadPhone
  <1>3. CASE WindowGone \/ DeadlinePasses \/ Finish
    BY <1>0, <1>3 DEF WindowGone, DeadlinePasses, Finish, End, SessType
  <1>4. CASE UnlockAsks
    BY <1>0, <1>4 DEF UnlockAsks, SessType
  <1>5. CASE UnlockHears
    BY <1>0, <1>5 DEF UnlockHears, SessType
  <1>6. CASE TakeApprove
    BY <1>0, <1>6 DEF TakeApprove, ApproveTaken, SessType
  <1>7. CASE TakePhone
    BY <1>0, <1>7 DEF TakePhone, Pick, SessType
  <1>8. CASE sess' = sess
    BY <1>8
  <1> QED
    BY <1>1, <1>2, <1>3, <1>4, <1>5, <1>6, <1>7, <1>8
    DEF Next, Approver, Sessions, Unlocking, Human, Server, TakeDesktop, GiveUp,
        AskAgain, OfferRetry, PhoneOpens, PhoneRefused, TakeEnd, ReadDuration,
        GrantNext, GrantFails, AllGranted, StopPolling, UnlockAborts, UnlockOpens,
        UnlockFails, WindowShows, PageExits, PressApprove, AnswerPrompt,
        AnswerConfirm, PickInWindow, DenyInWindow, CloseWindow, WindowDies, Touch,
        PickOnPhone, DenyOnPhone, ApproveOnPhone, ReplyArrives, UnlockArrives,
        UnlockFailsToPost, ReplyLost, vars

LEMMA CalmSessions ==
  TypeOK /\ PhonesOK /\ Sessions /\ sess'.ended = "open" => Calm \/ ReadWindow
  <1> SUFFICES ASSUME TypeOK, PhonesOK, Sessions, sess'.ended = "open", ~ReadWindow
               PROVE  Calm
    OBVIOUS
  <1>0. sess \in SessType
    BY DEF TypeOK
  <1>1. CASE WindowGone \/ DeadlinePasses
    BY <1>0, <1>1 DEF WindowGone, DeadlinePasses, End, SessType
  <1>2. CASE ReadPhone
    <2>1. Head(replies).type \in {"for", "deny"}
      <3>1. 1 \in DOMAIN replies /\ Head(replies) = replies[1]
        BY <1>2 DEF ReadPhone, TypeOK
      <3> QED
        BY <3>1 DEF PhonesOK
    <2>2. sess'.approve = sess.approve /\ sess'.values = sess.values
      BY <1>0, <1>2, <2>1 DEF ReadPhone, Handled, End, Pick, SessType
    <2> QED
      BY <1>2, <2>2 DEF ReadPhone, winVars, Calm, Usable
  <1>3. CASE StopPolling
    BY <1>3 DEF StopPolling, winVars, Calm, Usable
  <1> QED
    BY <1>1, <1>2, <1>3 DEF Sessions

LEMMA CalmUnlocking ==
  TypeOK /\ EndsOK /\ Unlocking /\ sess.ended = "open"
    => Calm \/ UnlockAsks \/ UnlockHears
  <1> SUFFICES ASSUME TypeOK, EndsOK, Unlocking, sess.ended = "open",
                      ~UnlockAsks, ~UnlockHears
               PROVE  Calm
    OBVIOUS
  <1>1. CASE UnlockAborts
    BY <1>1 DEF UnlockAborts
  <1>2. CASE UnlockOpens \/ UnlockFails
    <2>1. local.st = "run"
      BY <1>2 DEF UnlockOpens, UnlockFails
    <2>2. UNCHANGED <<sess, main, winVars>>
      BY <1>2 DEF UnlockOpens, UnlockFails
    <2> QED
      BY <2>1, <2>2 DEF winVars, Calm, Usable
  <1> QED
    BY <1>1, <1>2 DEF Unlocking

LEMMA CalmApprover ==
  TypeOK /\ Approver /\ sess'.ended = "open" => Calm \/ OfferRetry \/ TakeApprove
  <1> SUFFICES ASSUME TypeOK, Approver, sess'.ended = "open", ~OfferRetry, ~TakeApprove
               PROVE  Calm
    OBVIOUS
  <1>0. sess \in SessType /\ main \in MainType /\ NoUnlock.st = "none"
    BY DEF TypeOK, NoUnlock
  <1>1. CASE TakeDesktop \/ GiveUp
    <2>1. local.st \notin {"ask"} /\ local' = NoUnlock
      BY <1>1 DEF TakeDesktop, GiveUp, Failures
    <2>2. UNCHANGED <<sess, winVars>>
      BY <1>1 DEF TakeDesktop, GiveUp
    <2>3. main'.wait = main.wait /\ main'.fails = main.fails /\ main'.pc # "exited"
      BY <1>0, <1>1 DEF TakeDesktop, GiveUp, MainType
    <2> QED
      BY <1>0, <2>1, <2>2, <2>3 DEF winVars, Calm, Usable
  <1>2. CASE AskAgain
    <2>1. main'.wait = main.wait /\ main'.fails = main.fails /\ main'.pc = main.pc
      BY <1>0, <1>2 DEF AskAgain, MainType
    <2>2. local.st = "wrong" /\ UNCHANGED <<sess, win, fromWin>>
      BY <1>2 DEF AskAgain
    <2>3. toWin' = toWin \/ (win.up /\ toWin' = Append(toWin, Message("status")))
      BY <1>2 DEF AskAgain, Shown
    <2> QED
      BY <2>1, <2>2, <2>3 DEF Calm, Usable
  <1>3. CASE TakePhone
    <2>1. sess'.approve = sess.approve /\ sess'.values = sess.values
      BY <1>0, <1>3 DEF TakePhone, Pick, SessType
    <2>2. main'.wait = main.wait /\ main'.fails = main.fails /\ main'.pc # "exited"
      BY <1>0, <1>3 DEF TakePhone, MainType
    <2> QED
      BY <1>3, <2>1, <2>2 DEF TakePhone, winVars, Calm, Usable
  <1>4. CASE PhoneRefused
    <2>1. main'.wait = main.wait /\ main'.fails = main.fails /\ main'.pc # "exited"
      BY <1>0, <1>4 DEF PhoneRefused, MainType
    <2>2. KeyRefused /\ UNCHANGED <<sess, local, win, fromWin>>
      BY <1>4 DEF PhoneRefused
    <2>3. toWin' = toWin \/ (win.up /\ toWin' = Append(toWin, Message("status")))
      BY <1>4 DEF PhoneRefused, Shown
    <2> QED
      BY <2>1, <2>2, <2>3 DEF Calm, Usable
  <1>5. CASE PhoneOpens \/ TakeEnd \/ ReadDuration \/ GrantNext \/ GrantFails \/ AllGranted
    <2>1. main'.wait = main.wait /\ main'.fails = main.fails
          /\ (main'.pc = "exited" => main.pc = "exited")
      BY <1>0, <1>5
      DEF PhoneOpens, TakeEnd, ReadDuration, GrantNext, GrantFails, AllGranted, MainType
    <2>2. UNCHANGED <<sess, local, winVars>>
      BY <1>5 DEF PhoneOpens, TakeEnd, ReadDuration, GrantNext, GrantFails, AllGranted
    <2> QED
      BY <2>1, <2>2 DEF winVars, Calm, Usable
  <1>6. CASE Finish
    BY <1>0, <1>6 DEF Finish, End, SessType
  <1> QED
    BY <1>1, <1>2, <1>3, <1>4, <1>5, <1>6 DEF Approver

LEMMA CalmHuman ==
  TypeOK /\ Human => Calm \/ PressApprove \/ Answers
  <1> SUFFICES ASSUME TypeOK, Human, ~PressApprove, ~Answers
               PROVE  Calm
    OBVIOUS
  <1>0. win \in WinType /\ local \in LocalType
    BY DEF TypeOK
  <1>1. CASE \E d \in Choices : PickInWindow(d)
    <2> PICK d \in Choices : PickInWindow(d)
      BY <1>1
    <2>1. [Reply("for") EXCEPT !.for = d] \in Replies
          /\ [Reply("for") EXCEPT !.for = d].type = "for"
      BY ApprovalAssumption DEF Reply, Replies
    <2>2. /\ win'.prompt = win.prompt /\ win'.confirm = win.confirm
          /\ win'.retry = win.retry /\ win'.busy = win.busy /\ win'.seen = win.seen
          /\ win'.up = win.up /\ win'.done = win.done
      BY <1>0 DEF PickInWindow, WinType
    <2>3. UNCHANGED <<sess, main, local, toWin>>
          /\ fromWin' = Append(fromWin, [Reply("for") EXCEPT !.for = d])
      BY DEF PickInWindow
    <2> QED
      BY <2>1, <2>2, <2>3 DEF Calm, Usable
  <1>2. CASE DenyInWindow \/ CloseWindow
    <2>1. Reply("deny") \in Replies /\ Reply("deny").type = "deny"
      BY ReplyType DEF Reply
    <2>2. /\ win'.prompt = win.prompt /\ win'.confirm = win.confirm
          /\ win'.retry = win.retry /\ win'.busy = win.busy /\ win'.seen = win.seen
      BY <1>0, <1>2 DEF DenyInWindow, CloseWindow, WinType
    <2>3. UNCHANGED <<sess, main, local, toWin>> /\ Usable /\ win.up
          /\ fromWin' = Append(fromWin, Reply("deny"))
      BY <1>2 DEF DenyInWindow, CloseWindow, Usable
    <2> QED
      BY <2>1, <2>2, <2>3 DEF Calm
  <1>3. CASE WindowDies
    <2>1. /\ win'.prompt = win.prompt /\ win'.confirm = win.confirm
          /\ win'.retry = win.retry /\ win'.busy = win.busy /\ win'.seen = win.seen
      BY <1>0, <1>3 DEF WindowDies, WinType
    <2> QED
      BY <1>3, <2>1 DEF WindowDies, Calm
  <1>4. CASE Touch
    <2>1. local'.st = local.st
      BY <1>0, <1>4 DEF Touch, LocalType
    <2> QED
      BY <1>4, <2>1 DEF Touch, winVars, Calm, Usable
  <1>5. CASE UNCHANGED <<sess, main, local, winVars>>
    BY <1>5 DEF winVars, Calm, Usable
  <1> QED
    BY <1>1, <1>2, <1>3, <1>4, <1>5
    DEF Human, Answers, PickOnPhone, DenyOnPhone, ApproveOnPhone

LEMMA CalmSteps ==
  TypeOK /\ EndsOK /\ PhonesOK /\ [Next]_vars /\ sess'.ended = "open" => Calm \/ Moves
  <1> SUFFICES ASSUME TypeOK, EndsOK, PhonesOK, [Next]_vars, sess'.ended = "open",
                      ~Moves
               PROVE  Calm
    OBVIOUS
  <1>0. sess.ended = "open"
    BY StaysEnded
  <1>1. CASE Approver
    BY <1>1, CalmApprover DEF Moves
  <1>2. CASE Sessions
    BY <1>2, CalmSessions DEF Moves
  <1>3. CASE Unlocking
    BY <1>0, <1>3, CalmUnlocking DEF Moves
  <1>4. CASE Human
    BY <1>4, CalmHuman DEF Moves
  <1>5. CASE PageExits
    <2>1. /\ win'.prompt = win.prompt /\ win'.confirm = win.confirm
          /\ win'.retry = win.retry /\ win'.busy = win.busy /\ win'.seen = win.seen
          /\ win'.up = FALSE
      BY <1>5 DEF PageExits, TypeOK, WinType
    <2> QED
      BY <1>5, <2>1 DEF PageExits, Calm, Usable
  <1>6. CASE Server
    <2>1. UNCHANGED <<sess, main, local, winVars>>
      BY <1>6 DEF Server, ReplyArrives, UnlockArrives, UnlockFailsToPost, ReplyLost
    <2> QED
      BY <2>1 DEF winVars, Calm, Usable
  <1>7. CASE UNCHANGED vars
    BY <1>7 DEF vars, winVars, Calm, Usable
  <1> QED
    BY <1>1, <1>2, <1>3, <1>4, <1>5, <1>6, <1>7 DEF Next, Moves

LEMMA GoodMessages ==
  ASSUME NEW q \in Seq(Messages), \A i \in DOMAIN q : GoodMessage(q[i])
  PROVE  /\ \A m \in Messages : GoodMessage(m)
              => \A i \in DOMAIN Append(q, m) : GoodMessage(Append(q, m)[i])
         /\ q # <<>> => GoodMessage(Head(q))
                        /\ \A i \in DOMAIN Tail(q) : GoodMessage(Tail(q)[i])
  <1>1. ASSUME NEW m \in Messages, GoodMessage(m), NEW i \in DOMAIN Append(q, m)
        PROVE  GoodMessage(Append(q, m)[i])
    BY <1>1, GrownQueue
  <1>2. ASSUME q # <<>>, NEW i \in DOMAIN Tail(q)
        PROVE  GoodMessage(Tail(q)[i])
    BY <1>2, TakenQueue
  <1>3. ASSUME q # <<>> PROVE GoodMessage(Head(q))
    BY <1>3, TakenQueue
  <1> QED
    BY <1>1, <1>2, <1>3

\* A step that puts out no prompt and no value, and leaves an unlock that
\* asks asking, keeps PromptOK.
LEMMA PromptKept ==
  ASSUME PromptOK, sess'.values = sess.values, win'.prompt = win.prompt,
         Once(fromWin', "value"), Once(toWin', "prompt"),
         Carries(fromWin', "value") => Carries(fromWin, "value"),
         Carries(toWin', "prompt") => Carries(toWin, "prompt"),
         local.st = "ask" => local'.st = "ask"
  PROVE  PromptOK'
  BY DEF PromptOK, Answered, Prompted

\* A step that puts out no press and no button keeps PressOK.
LEMMA PressKept ==
  ASSUME PressOK, sess'.approve = sess.approve, main'.wait = main.wait,
         main'.fails = main.fails, win'.seen = win.seen, win'.up => win.up,
         Ready' => Ready, Once(fromWin', "approve"),
         Carries(fromWin', "approve") => Carries(fromWin, "approve"),
         \A i \in DOMAIN fromWin' :
           fromWin'[i].type = "approve" => fromWin'[i].seen = main.fails,
         RetryOnce(toWin'), RetryIn(toWin') <=> RetryIn(toWin)
  PROVE  PressOK'
  BY DEF PressOK, Pressed

LEMMA StatusSays ==
  /\ Message("status").type = "status" /\ ~Message("status").retry
  /\ Message("status") \in Messages /\ GoodMessage(Message("status"))
  /\ RetryStatus.type = "status" /\ RetryStatus.retry
  /\ RetryStatus \in Messages /\ GoodMessage(RetryStatus)
  BY DEF Message, Messages, RetryStatus, GoodMessage

\* The window's replies when one that is no press and no value is added.
LEMMA OtherReply ==
  ASSUME TypeOK, NEW m \in Replies, m.type \in {"for", "deny"}, fromWin' = Append(fromWin, m)
  PROVE  /\ Once(fromWin, "value") => Once(fromWin', "value")
         /\ Once(fromWin, "approve") => Once(fromWin', "approve")
         /\ Carries(fromWin', "value") <=> Carries(fromWin, "value")
         /\ Carries(fromWin', "approve") <=> Carries(fromWin, "approve")
         /\ (\A i \in DOMAIN fromWin :
               fromWin[i].type = "approve" => fromWin[i].seen = main.fails)
              => \A i \in DOMAIN fromWin' :
                   fromWin'[i].type = "approve" => fromWin'[i].seen = main.fails
  <1>0. fromWin \in Seq(Replies)
    BY DEF TypeOK
  <1>1. /\ Once(fromWin, "value") => Once(fromWin', "value")
        /\ Carries(fromWin', "value") <=> Carries(fromWin, "value")
    BY <1>0, GrownTypes
  <1>2. /\ Once(fromWin, "approve") => Once(fromWin', "approve")
        /\ Carries(fromWin', "approve") <=> Carries(fromWin, "approve")
    BY <1>0, GrownTypes
  <1>3. \A i \in DOMAIN fromWin' : fromWin'[i].type = "approve"
          => i \in DOMAIN fromWin /\ fromWin'[i] = fromWin[i]
    BY <1>0, GrownQueue
  <1> QED
    BY <1>1, <1>2, <1>3

LEMMA TurnCalm ==
  TypeOK /\ Calm /\ WaitOK /\ PromptOK /\ PressOK => WaitOK' /\ PromptOK' /\ PressOK'
  <1> SUFFICES ASSUME TypeOK, Calm, WaitOK, PromptOK, PressOK
               PROVE  WaitOK' /\ PromptOK' /\ PressOK'
    OBVIOUS
  <1>0. toWin \in Seq(Messages) /\ fromWin \in Seq(Replies)
    BY DEF TypeOK
  <1>1. /\ Once(toWin', "prompt") /\ (Carries(toWin', "prompt") => Carries(toWin, "prompt"))
        /\ RetryOnce(toWin') /\ (RetryIn(toWin') <=> RetryIn(toWin))
        /\ \A i \in DOMAIN toWin' : GoodMessage(toWin'[i])
    <2>1. CASE toWin' = toWin
      BY <2>1 DEF PromptOK, PressOK, WaitOK
    <2>2. CASE toWin' = Append(toWin, Message("status"))
      <3>1. Once(toWin', "prompt") /\ (Carries(toWin', "prompt") => Carries(toWin, "prompt"))
        BY <1>0, <2>2, StatusSays, GrownTypes DEF PromptOK
      <3>2. RetryOnce(toWin') /\ (RetryIn(toWin') <=> RetryIn(toWin))
        BY <1>0, <2>2, StatusSays, GrownRetry DEF PressOK
      <3>3. \A i \in DOMAIN toWin' : GoodMessage(toWin'[i])
        BY <1>0, <2>2, StatusSays, GoodMessages DEF WaitOK
      <3> QED
        BY <3>1, <3>2, <3>3
    <2> QED
      BY <2>1, <2>2 DEF Calm
  <1>2. /\ Once(fromWin', "value") /\ Once(fromWin', "approve")
        /\ Carries(fromWin', "value") => Carries(fromWin, "value")
        /\ Carries(fromWin', "approve") => Carries(fromWin, "approve")
        /\ \A i \in DOMAIN fromWin' :
             fromWin'[i].type = "approve" => fromWin'[i].seen = main.fails
    <2>1. CASE fromWin' = fromWin
      BY <2>1 DEF PromptOK, PressOK
    <2>2. CASE \E m \in Replies : m.type \in {"for", "deny"} /\ fromWin' = Append(fromWin, m)
      BY <2>2, OtherReply DEF PromptOK, PressOK
    <2> QED
      BY <2>1, <2>2 DEF Calm
  <1>3. WaitOK'
    BY <1>1 DEF WaitOK, Calm, Live
  <1>4. PromptOK'
    <2>1. sess'.values = sess.values /\ win'.prompt = win.prompt
          /\ (local.st = "ask" => local'.st = "ask")
      BY DEF Calm
    <2> QED
      BY <1>1, <1>2, <2>1, PromptKept
  <1>5. PressOK'
    <2>1. /\ sess'.approve = sess.approve /\ main'.wait = main.wait
          /\ main'.fails = main.fails /\ win'.seen = win.seen
          /\ (win'.up => win.up)
      BY DEF Calm
    <2>2. Ready' => Ready
      BY DEF Calm, Ready
    <2> QED
      BY <1>1, <1>2, <2>1, <2>2, PressKept
  <1> QED
    BY <1>3, <1>4, <1>5

LEMMA TurnReadWindow ==
  TypeOK /\ ReadWindow /\ sess.ended = "open" /\ sess'.ended = "open" /\ WaitOK /\ PromptOK /\ PressOK
    => WaitOK' /\ PromptOK' /\ PressOK'
  <1> SUFFICES ASSUME TypeOK, ReadWindow, sess.ended = "open", sess'.ended = "open",
                      WaitOK, PromptOK, PressOK
               PROVE  WaitOK' /\ PromptOK' /\ PressOK'
    OBVIOUS
  <1> DEFINE r == Head(fromWin)
  <1>0. /\ fromWin \in Seq(Replies) /\ fromWin # <<>> /\ fromWin' = Tail(fromWin)
        /\ sess \in SessType /\ sess' = Handled(sess, r)
        /\ UNCHANGED <<main, local, win, toWin>>
    BY DEF TypeOK, ReadWindow
  <1>1. r \in Replies /\ r = fromWin[1] /\ 1 \in DOMAIN fromWin
    BY <1>0
  <1>2. /\ Once(fromWin', "value") /\ Once(fromWin', "approve")
        /\ Carries(fromWin, "value") <=> r.type = "value" \/ Carries(fromWin', "value")
        /\ Carries(fromWin, "approve") <=> r.type = "approve" \/ Carries(fromWin', "approve")
        /\ r.type = "value" => ~Carries(fromWin', "value")
        /\ r.type = "approve" => ~Carries(fromWin', "approve")
    BY <1>0, TakenTypes DEF PromptOK, PressOK
  <1>3. \A i \in DOMAIN fromWin' :
          fromWin'[i].type = "approve" => fromWin'[i].seen = main.fails
    BY <1>0, TakenQueue DEF PressOK
  <1>4. /\ r.type # "approve" => sess'.approve = sess.approve
        /\ r.type # "value" => sess'.values = sess.values
        /\ r.type = "approve" => sess'.approve = IF sess.approve = <<>> THEN <<r.seen>>
                                                 ELSE sess.approve
    BY <1>0, <1>1 DEF Handled, End, Pick, SessType, Replies
  <1> HIDE DEF r
  <1>5. WaitOK'
    BY <1>0 DEF WaitOK, Live
  <1>6. PromptOK'
    <2>1. CASE r.type = "value"
      BY <1>0, <1>2, <2>1 DEF PromptOK, Answered, Prompted
    <2>2. CASE r.type # "value"
      BY <1>0, <1>2, <1>4, <2>2, PromptKept DEF PromptOK
    <2> QED
      BY <2>1, <2>2
  <1>7. PressOK'
    <2>1. CASE r.type = "approve"
      <3>1. sess.approve = <<>> /\ r.seen = main.fails /\ Pressed
        BY <1>1, <1>2, <2>1 DEF PressOK, Pressed
      <3>2. sess'.approve = <<main.fails>> /\ Head(sess'.approve) = main.fails
        BY <1>4, <2>1, <3>1
      <3>3. ~Carries(fromWin', "approve")
        BY <1>2, <2>1
      <3>4. (Ready' <=> Ready) /\ main' = main /\ toWin' = toWin /\ win' = win
        BY <1>0 DEF Ready
      <3> QED
        BY <1>2, <1>3, <3>1, <3>2, <3>3, <3>4 DEF PressOK, Pressed
    <2>2. CASE r.type # "approve"
      <3>1. Ready' => Ready
        BY <1>0 DEF Ready
      <3>2. RetryOnce(toWin')
        BY <1>0 DEF PressOK
      <3> QED
        BY <1>0, <1>2, <1>3, <1>4, <2>2, <3>1, <3>2, PressKept
    <2> QED
      BY <2>1, <2>2
  <1> QED
    BY <1>5, <1>6, <1>7

LEMMA PromptSays ==
  ASSUME NEW n \in Nat, NEW c \in BOOLEAN
  PROVE  LET m == [Message("prompt") EXCEPT !.id = n, !.confirm = c]
         IN  /\ m \in Messages /\ m.type = "prompt" /\ ~m.retry
             /\ m.id = n /\ m.confirm = c
  BY MessageType DEF Message

LEMMA TurnUnlockAsks ==
  TypeOK /\ UnlockAsks /\ WaitOK /\ PromptOK /\ PressOK => WaitOK' /\ PromptOK' /\ PressOK'
  <1> SUFFICES ASSUME TypeOK, UnlockAsks, WaitOK, PromptOK, PressOK
               PROVE  WaitOK' /\ PromptOK' /\ PressOK'
    OBVIOUS
  <1>0. /\ toWin \in Seq(Messages) /\ fromWin \in Seq(Replies)
        /\ sess \in SessType /\ local \in LocalType /\ Live /\ local.st = "run"
    BY DEF TypeOK, UnlockAsks
  <1>1. ~main.wait /\ ~Prompted /\ ~Ready /\ ~Pressed /\ ~RetryIn(toWin)
    BY <1>0 DEF WaitOK, PromptOK, PressOK
  <1>2. /\ sess'.approve = sess.approve /\ sess'.values = sess.values
        /\ local'.st = IF win.up THEN "ask" ELSE "failed"
        /\ UNCHANGED <<main, win, fromWin>>
    BY <1>0 DEF UnlockAsks, SessType, LocalType
  <1>3. PICK confirm \in {FALSE, Confirms} :
          toWin' = Shown([Message("prompt") EXCEPT !.id = sess.promptID + 1,
                                                   !.confirm = confirm])
    BY DEF UnlockAsks
  <1> DEFINE m == [Message("prompt") EXCEPT !.id = sess.promptID + 1, !.confirm = confirm]
  <1>4. sess.promptID + 1 \in Nat \ {0} /\ confirm \in BOOLEAN
    <2>1. sess.promptID \in Nat
      BY <1>0 DEF SessType
    <2>2. sess.promptID + 1 \in Nat \ {0}
      BY <2>1
    <2>3. confirm \in BOOLEAN
      BY <1>3, ApprovalAssumption
    <2> QED
      BY <2>2, <2>3
  <1>5. /\ m \in Messages /\ m.type = "prompt" /\ ~m.retry
        /\ m.id = sess.promptID + 1 /\ m.confirm = confirm
    BY <1>4, PromptSays
  <1>6. m \in Messages /\ m.type = "prompt" /\ ~m.retry /\ GoodMessage(m)
    <2> HIDE DEF m
    <2> QED
      BY <1>3, <1>4, <1>5 DEF GoodMessage
  <1>7. toWin' = IF win.up THEN Append(toWin, m) ELSE toWin
    BY <1>3 DEF Shown
  <1> HIDE DEF m
  <1>8. ~Carries(toWin, "prompt")
    BY <1>1 DEF Prompted
  <1>9. Once(toWin', "prompt") /\ (Carries(toWin', "prompt") => win.up)
    BY <1>0, <1>6, <1>7, <1>8, GrownTypes DEF PromptOK
  <1>10. RetryOnce(toWin') /\ ~RetryIn(toWin')
    BY <1>0, <1>1, <1>6, <1>7, GrownRetry DEF PressOK
  <1>11. WaitOK'
    <2>1. \A i \in DOMAIN toWin' : GoodMessage(toWin'[i])
      BY <1>0, <1>6, <1>7, GoodMessages DEF WaitOK
    <2> QED
      BY <1>1, <1>2, <2>1 DEF WaitOK, Live
  <1>12. PromptOK'
    BY <1>1, <1>2, <1>9 DEF PromptOK, Answered, Prompted
  <1>13. PressOK'
    <2>1. Ready' => Ready
      BY <1>2 DEF Ready
    <2> QED
      BY <1>1, <1>2, <1>10, <2>1 DEF PressOK, Pressed
  <1> QED
    BY <1>11, <1>12, <1>13

LEMMA TurnUnlockHears ==
  TypeOK /\ UnlockHears /\ WaitOK /\ PromptOK /\ PressOK => WaitOK' /\ PromptOK' /\ PressOK'
  <1> SUFFICES ASSUME TypeOK, UnlockHears, WaitOK, PromptOK, PressOK
               PROVE  WaitOK' /\ PromptOK' /\ PressOK'
    OBVIOUS
  <1>0. /\ sess \in SessType /\ local \in LocalType
        /\ local.st = "ask" /\ sess.values # <<>>
    BY DEF TypeOK, UnlockHears
  <1>1. ~main.wait /\ win.prompt = 0 /\ ~Carries(toWin, "prompt") /\ ~Carries(fromWin, "value")
    BY <1>0 DEF WaitOK, PromptOK, Answered
  <1>2. /\ sess'.approve = sess.approve /\ sess'.values = <<>>
        /\ UNCHANGED <<main, win, toWin, fromWin>>
    BY <1>0 DEF UnlockHears, SessType, winVars
  <1>3. WaitOK'
    BY <1>1, <1>2 DEF WaitOK, Live
  <1>4. PromptOK'
    BY <1>1, <1>2 DEF PromptOK, Answered, Prompted
  <1>5. PressOK'
    BY <1>2 DEF PressOK, Pressed, Ready
  <1> QED
    BY <1>3, <1>4, <1>5

LEMMA TurnOfferRetry ==
  TypeOK /\ OfferRetry /\ WaitOK /\ PromptOK /\ PressOK => WaitOK' /\ PromptOK' /\ PressOK'
  <1> SUFFICES ASSUME TypeOK, OfferRetry, WaitOK, PromptOK, PressOK
               PROVE  WaitOK' /\ PromptOK' /\ PressOK'
    OBVIOUS
  <1>0. /\ toWin \in Seq(Messages) /\ main \in MainType
        /\ local.st \in {"failed", "aborted"}
    BY DEF TypeOK, OfferRetry
  <1>1. ~main.wait /\ ~Prompted /\ ~Ready /\ ~Pressed /\ ~RetryIn(toWin)
    BY <1>0 DEF WaitOK, PromptOK, PressOK
  <1>2. /\ main'.wait = TRUE /\ main'.fails = main.fails + 1 /\ main'.pc = main.pc
        /\ local'.st = "none" /\ UNCHANGED <<sess, win, fromWin>>
        /\ toWin' = Shown(RetryStatus)
    BY <1>0 DEF OfferRetry, MainType, NoUnlock
  <1>3. /\ Once(toWin', "prompt") /\ ~Carries(toWin', "prompt")
        /\ RetryOnce(toWin')
        /\ \A i \in DOMAIN toWin' : GoodMessage(toWin'[i])
    <2>1. CASE win.up
      <3>1. toWin' = Append(toWin, RetryStatus)
        BY <1>2, <2>1 DEF Shown
      <3>2. ~Carries(toWin, "prompt")
        BY <1>1 DEF Prompted
      <3>3. Once(toWin', "prompt") /\ ~Carries(toWin', "prompt")
        BY <1>0, <3>1, <3>2, StatusSays, GrownTypes DEF PromptOK
      <3>4. RetryOnce(toWin')
        BY <1>0, <1>1, <3>1, StatusSays, GrownRetry DEF PressOK
      <3>5. \A i \in DOMAIN toWin' : GoodMessage(toWin'[i])
        BY <1>0, <3>1, StatusSays, GoodMessages DEF WaitOK
      <3> QED
        BY <3>3, <3>4, <3>5
    <2>2. CASE ~win.up
      <3>1. toWin' = toWin
        BY <1>2, <2>2 DEF Shown
      <3> QED
        BY <1>1, <3>1 DEF Prompted, PromptOK, PressOK, WaitOK
    <2> QED
      BY <2>1, <2>2
  <1>4. WaitOK'
    BY <1>2, <1>3 DEF WaitOK, Live
  <1>5. PromptOK'
    BY <1>1, <1>2, <1>3 DEF PromptOK, Answered, Prompted
  <1>6. PressOK'
    <2>1. ~Ready' /\ ~Pressed'
      BY <1>1, <1>2 DEF Ready, Pressed
    <2>2. /\ Once(fromWin', "approve") /\ sess'.approve = <<>> 
          /\ ~Carries(fromWin', "approve")
      BY <1>1, <1>2 DEF PressOK, Pressed
    <2>3. \A i \in DOMAIN fromWin' : fromWin'[i].type # "approve"
      BY <2>2 DEF Carries
    <2>4. win'.up => main'.fails = win'.seen + 1 /\ RetryIn(toWin')
      <3>1. ASSUME win.up PROVE RetryIn(toWin') /\ main.fails = win.seen
        <4>1. toWin' = Append(toWin, RetryStatus)
          BY <1>2, <3>1 DEF Shown
        <4>2. RetryIn(toWin')
          BY <1>0, <4>1, StatusSays, GrownRetry
        <4>3. win.seen \in Nat
          BY DEF TypeOK, WinType
        <4> QED
          BY <1>1, <3>1, <4>2, <4>3 DEF PressOK
      <3> QED
        BY <1>2, <3>1
    <2> QED
      BY <1>2, <1>3, <2>1, <2>2, <2>3, <2>4 DEF PressOK
  <1> QED
    BY <1>4, <1>5, <1>6

LEMMA TurnTakeApprove ==
  TypeOK /\ TakeApprove /\ WaitOK /\ PromptOK /\ PressOK => WaitOK' /\ PromptOK' /\ PressOK'
  <1> SUFFICES ASSUME TypeOK, TakeApprove, WaitOK, PromptOK, PressOK
               PROVE  WaitOK' /\ PromptOK' /\ PressOK'
    OBVIOUS
  <1>0. /\ sess \in SessType /\ main \in MainType
        /\ main.wait /\ sess.approve # <<>> /\ local.st = "none"
    BY DEF TypeOK, TakeApprove, WaitOK
  <1>1. ~Prompted /\ ~Ready /\ ~RetryIn(toWin) /\ ~Carries(fromWin, "approve")
    BY <1>0 DEF PromptOK, PressOK, Pressed
  <1>2. /\ sess'.approve = <<>> /\ sess'.values = sess.values
        /\ main'.wait = FALSE /\ main'.fails = main.fails /\ main'.pc = main.pc
        /\ local'.st = "run" /\ UNCHANGED <<win, toWin, fromWin>>
    BY <1>0 DEF TakeApprove, ApproveTaken, SessType, MainType, Running, NoUnlock, winVars
  <1>3. WaitOK'
    BY <1>2 DEF WaitOK, Live
  <1>4. PromptOK'
    BY <1>1, <1>2 DEF PromptOK, Answered, Prompted
  <1>5. PressOK'
    BY <1>1, <1>2 DEF PressOK, Pressed, Ready
  <1> QED
    BY <1>3, <1>4, <1>5

LEMMA TurnPressApprove ==
  TypeOK /\ PressApprove /\ WaitOK /\ PromptOK /\ PressOK => WaitOK' /\ PromptOK' /\ PressOK'
  <1> SUFFICES ASSUME TypeOK, PressApprove, WaitOK, PromptOK, PressOK
               PROVE  WaitOK' /\ PromptOK' /\ PressOK'
    OBVIOUS
  <1> DEFINE r == [Reply("approve") EXCEPT !.seen = win.seen]
  <1>0. /\ fromWin \in Seq(Replies) /\ win \in WinType
        /\ win.up /\ fromWin' = Append(fromWin, r) /\ UNCHANGED <<sess, main, local, toWin>>
    BY DEF TypeOK, PressApprove, CanApprove, Usable
  <1>1. Ready
    BY DEF PressApprove, CanApprove, Usable, Ready
  <1>2. /\ win'.prompt = win.prompt /\ win'.confirm = win.confirm /\ win'.seen = win.seen
        /\ ~win'.retry /\ win'.busy /\ win'.up
    BY <1>0 DEF PressApprove, Busy, WinType
  <1>3. r \in Replies /\ r.type = "approve" /\ r.seen = win.seen
    BY <1>0, ApprovalAssumption DEF Reply, Replies, WinType
  <1> HIDE DEF r
  <1>4. main.wait /\ ~Pressed /\ ~RetryIn(toWin) /\ main.fails = win.seen
    BY <1>0, <1>1 DEF PressOK, WinType
  <1>5. sess.approve = <<>> /\ ~Carries(fromWin, "approve")
    BY <1>4 DEF Pressed
  <1>6. Once(fromWin', "approve")
    BY <1>0, <1>3, <1>5, GrownTypes DEF PressOK
  <1>7. Once(fromWin', "value") /\ (Carries(fromWin', "value") => Carries(fromWin, "value"))
    BY <1>0, <1>3, GrownTypes DEF PromptOK
  <1>8. \A i \in DOMAIN fromWin' :
          fromWin'[i].type = "approve" => fromWin'[i].seen = main.fails
    <2>1. \A i \in DOMAIN fromWin : fromWin[i].type # "approve"
      BY <1>5 DEF Carries
    <2> QED
      BY <1>0, <1>3, <1>4, <2>1, GrownQueue
  <1>9. WaitOK'
    BY <1>0, <1>2 DEF WaitOK, Live
  <1>10. PromptOK'
    BY <1>0, <1>2, <1>7, PromptKept DEF PromptOK
  <1>11. PressOK'
    <2>1. ~Ready'
      BY <1>2 DEF Ready
    <2> QED
      BY <1>0, <1>2, <1>4, <1>5, <1>6, <1>8, <2>1 DEF PressOK
  <1> QED
    BY <1>9, <1>10, <1>11

LEMMA TurnAnswers ==
  TypeOK /\ Answers /\ Quiet /\ WaitOK /\ PromptOK /\ PressOK
    => WaitOK' /\ PromptOK' /\ PressOK'
  <1> SUFFICES ASSUME TypeOK, Answers, Quiet, WaitOK, PromptOK, PressOK
               PROVE  WaitOK' /\ PromptOK' /\ PressOK'
    OBVIOUS
  <1>0. /\ fromWin \in Seq(Replies) /\ win \in WinType
        /\ win.prompt # 0 /\ UNCHANGED <<sess, main, local, toWin>>
    BY DEF TypeOK, Answers, AnswerPrompt, AnswerConfirm
  <1>1. PICK right \in BOOLEAN :
          fromWin' = Append(fromWin, [Reply("value") EXCEPT !.id = win.prompt,
                                                            !.right = right])
    BY DEF Answers, AnswerPrompt, AnswerConfirm
  <1> DEFINE r == [Reply("value") EXCEPT !.id = win.prompt, !.right = right]
  <1>2. r \in Replies /\ r.type = "value"
    BY <1>0, <1>1, ApprovalAssumption DEF Reply, Replies, WinType
  <1>3. fromWin' = Append(fromWin, r)
    BY <1>1
  <1> HIDE DEF r
  <1>4. local.st = "ask" /\ ~main.wait /\ ~Answered /\ ~Carries(toWin, "prompt")
    BY <1>0 DEF PromptOK, Prompted, WaitOK
  <1>5. ~Ready /\ ~Pressed /\ ~RetryIn(toWin)
    BY <1>4 DEF PressOK
  <1>6. /\ win'.prompt = 0 /\ win'.confirm = win.confirm /\ win'.seen = win.seen
        /\ win'.up = win.up /\ ~Ready'
    <2>1. CASE AnswerPrompt
      BY <1>0, <2>1 DEF AnswerPrompt, Busy, WinType, Ready
    <2>2. CASE AnswerConfirm
      <3>1. /\ win'.prompt = 0 /\ win'.confirm = win.confirm /\ win'.seen = win.seen
            /\ win'.up = win.up /\ win'.retry = win.retry
        BY <1>0, <2>2 DEF AnswerConfirm, WinType
      <3>2. By # "click" /\ ~win.retry
        BY <1>5, <2>2 DEF AnswerConfirm, Usable, WaitOK, Quiet, Ready
      <3> QED
        BY <3>1, <3>2 DEF Ready
    <2> QED
      BY <2>1, <2>2 DEF Answers
  <1>7. Once(fromWin', "value")
    BY <1>0, <1>2, <1>3, <1>4, GrownTypes DEF PromptOK, Answered
  <1>8. Once(fromWin', "approve") /\ ~Carries(fromWin', "approve")
    BY <1>0, <1>2, <1>3, <1>5, GrownTypes DEF PressOK, Pressed
  <1>9. WaitOK'
    BY <1>0, <1>6 DEF WaitOK, Live
  <1>10. PromptOK'
    BY <1>0, <1>4, <1>6, <1>7 DEF PromptOK, Answered, Prompted
  <1>11. PressOK'
    <2>1. \A i \in DOMAIN fromWin' : fromWin'[i].type # "approve"
      BY <1>8 DEF Carries
    <2>2. ~Pressed'
      BY <1>0, <1>5, <1>8 DEF Pressed
    <2> QED
      BY <1>0, <1>5, <1>6, <1>8, <2>1, <2>2 DEF PressOK, Pressed
  <1> QED
    BY <1>9, <1>10, <1>11

LEMMA TurnWindowShows ==
  TypeOK /\ EndsOK /\ WindowShows /\ WaitOK /\ PromptOK /\ PressOK
    => WaitOK' /\ PromptOK' /\ PressOK'
  <1> SUFFICES ASSUME TypeOK, EndsOK, WindowShows, WaitOK, PromptOK, PressOK
               PROVE  WaitOK' /\ PromptOK' /\ PressOK'
    OBVIOUS
  <1> DEFINE m == Head(toWin)
  <1>0. /\ toWin \in Seq(Messages) /\ toWin # <<>> /\ toWin' = Tail(toWin)
        /\ win \in WinType /\ win.up /\ UNCHANGED <<sess, main, local, fromWin>>
    BY DEF TypeOK, WindowShows
  <1>1. m \in Messages /\ GoodMessage(m) /\ \A i \in DOMAIN toWin' : GoodMessage(toWin'[i])
    BY <1>0, GoodMessages DEF WaitOK
  <1>2. /\ Once(toWin', "prompt")
        /\ Carries(toWin, "prompt") <=> m.type = "prompt" \/ Carries(toWin', "prompt")
        /\ m.type = "prompt" => ~Carries(toWin', "prompt")
    BY <1>0, TakenTypes DEF PromptOK
  <1>3. /\ RetryOnce(toWin') /\ (RetryIn(toWin) <=> m.retry \/ RetryIn(toWin'))
        /\ m.retry => ~RetryIn(toWin')
    BY <1>0, TakenRetry DEF PressOK
  <1>4. m.type # "done"
    <2>1. ~Carries(toWin, "done")
      BY DEF EndsOK, WaitOK
    <2> QED
      BY <1>0, <2>1, CarriesHead
  <1>5. CASE m.type = "prompt"
    <2>1. ~m.retry /\ m.id # 0 /\ (m.confirm => Confirms)
      BY <1>1, <1>5 DEF GoodMessage
    <2>2. /\ win'.prompt = m.id /\ win'.confirm = m.confirm /\ win'.seen = win.seen
          /\ win'.retry = win.retry /\ win'.up
      BY <1>0, <1>5 DEF WindowShows, WinType
    <2> HIDE DEF m
    <2>3. local.st = "ask" /\ ~main.wait /\ ~Answered /\ win.prompt = 0
      BY <1>2, <1>5 DEF PromptOK, Prompted, WaitOK
    <2>4. ~Ready /\ ~Pressed /\ ~RetryIn(toWin)
      BY <2>3 DEF PressOK
    <2>5. ~Ready'
      BY <1>0, <2>1, <2>2, <2>4 DEF Ready
    <2>6. WaitOK'
      BY <1>0, <1>1, <2>1, <2>2 DEF WaitOK, Live
    <2>7. PromptOK'
      BY <1>0, <1>2, <1>5, <2>1, <2>2, <2>3 DEF PromptOK, Answered, Prompted
    <2>8. PressOK'
      BY <1>0, <1>3, <2>2, <2>4, <2>5 DEF PressOK, Pressed
    <2> QED
      BY <2>6, <2>7, <2>8
  <1>6. CASE m.type = "status" /\ m.retry
    <2>2. /\ win'.prompt = win.prompt /\ win'.confirm = win.confirm /\ win'.seen = win.seen + 1
          /\ win'.up
      BY <1>0, <1>6 DEF WindowShows, WinType
    <2> HIDE DEF m
    <2>3. main.wait /\ ~Pressed /\ ~RetryIn(toWin') /\ main.fails = win.seen + 1
      BY <1>0, <1>3, <1>6 DEF PressOK
    <2>6. WaitOK'
      BY <1>0, <1>1, <2>2 DEF WaitOK, Live
    <2>7. PromptOK'
      BY <1>0, <1>2, <1>6, <2>2, PromptKept DEF PromptOK
    <2>8. PressOK'
      <3>1. main'.fails = win'.seen + (IF RetryIn(toWin') THEN 1 ELSE 0)
        BY <1>0, <2>2, <2>3 DEF WinType
      <3> QED
        BY <1>0, <1>3, <2>2, <2>3, <3>1 DEF PressOK, Pressed
    <2> QED
      BY <2>6, <2>7, <2>8
  <1>7. CASE m.type = "status" /\ ~m.retry
    <2>2. /\ win'.prompt = win.prompt /\ win'.confirm = win.confirm /\ win'.seen = win.seen
          /\ win'.busy = win.busy /\ win'.retry = m.retry /\ win'.up
      BY <1>0, <1>7 DEF WindowShows, WinType
    <2> HIDE DEF m
    <2>3. Ready' => Ready
      BY <1>0, <1>7, <2>2 DEF Ready
    <2>6. WaitOK'
      BY <1>0, <1>1, <2>2 DEF WaitOK, Live
    <2>7. PromptOK'
      BY <1>0, <1>2, <1>7, <2>2, PromptKept DEF PromptOK
    <2>8. PressOK'
      BY <1>0, <1>3, <1>7, <2>2, <2>3, PressKept DEF PressOK
    <2> QED
      BY <2>6, <2>7, <2>8
  <1> QED
    BY <1>1, <1>4, <1>5, <1>6, <1>7 DEF Messages

LEMMA PhonesInit == Init => PhonesOK
  BY DEF Init, PhonesOK

LEMMA PhonesNext == TypeOK /\ PhonesOK /\ [Next]_vars => PhonesOK'
  <1> SUFFICES ASSUME TypeOK, PhonesOK, [Next]_vars PROVE PhonesOK'
    OBVIOUS
  <1>0. replies \in Seq(Replies)
    BY DEF TypeOK
  <1>1. CASE ReadPhone
    <2>1. replies # <<>> /\ replies' = Tail(replies)
      BY <1>1 DEF ReadPhone
    <2> QED
      BY <1>0, <2>1, TakenQueue DEF PhonesOK
  <1>2. CASE \E post \in posts : ReplyArrives(post)
    <2> PICK post \in posts : ReplyArrives(post)
      BY <1>2
    <2>1. post.for \in Choices /\ post.type \in {"for", "deny"}
      BY DEF TypeOK, Posts, ReplyArrives
    <2> DEFINE r == [Reply(post.type) EXCEPT !.for = post.for]
    <2>2. r \in Replies /\ r.type \in {"for", "deny"} /\ replies' = Append(replies, r)
      BY <2>1 DEF Reply, Replies, ReplyArrives
    <2> HIDE DEF r
    <2> QED
      BY <1>0, <2>2, GrownQueue DEF PhonesOK
  <1>3. CASE replies' = replies
    BY <1>3 DEF PhonesOK
  <1> QED
    BY <1>1, <1>2, <1>3
    DEF Next, Approver, Sessions, Unlocking, Human, Server, TakeDesktop, GiveUp,
        AskAgain, OfferRetry, TakeApprove, TakePhone, PhoneOpens, PhoneRefused,
        TakeEnd, ReadDuration, GrantNext, GrantFails, AllGranted, Finish, ReadWindow,
        WindowGone, StopPolling, DeadlinePasses, UnlockAsks, UnlockHears,
        UnlockAborts, UnlockOpens, UnlockFails, WindowShows, PageExits,
        PressApprove, AnswerPrompt, AnswerConfirm, PickInWindow, DenyInWindow,
        CloseWindow, WindowDies, Touch, PickOnPhone, DenyOnPhone, ApproveOnPhone,
        UnlockArrives, UnlockFailsToPost, ReplyLost, vars, phoneVars

LEMMA TurnInit == Init => TurnInv
  <1> SUFFICES ASSUME Init PROVE TurnInv
    OBVIOUS
  <1>1. toWin = <<>> /\ fromWin = <<>> /\ sess.approve = <<>> /\ sess.values = <<>>
        /\ win.prompt = 0 /\ win.retry = FALSE /\ win.confirm = FALSE /\ win.seen = 0
        /\ win.busy = FALSE /\ win.up = HasWindow
        /\ main.fails = 0 /\ main.pc = "select" /\ main.wait = (HasWindow /\ By = "click")
        /\ local = IF HasWindow /\ By # "click" THEN Running ELSE NoUnlock
    BY DEF Init
  <1>2. ~Carries(toWin, "prompt") /\ ~Carries(fromWin, "value")
        /\ ~Carries(fromWin, "approve") /\ ~RetryIn(toWin)
    BY <1>1 DEF Carries, RetryIn
  <1>3. WaitOK
    <2>1. main.wait => local.st = "none"
      BY <1>1 DEF NoUnlock
    <2>2. \A i \in DOMAIN toWin : FALSE
      BY <1>1
    <2> QED
      BY <1>1, <2>1, <2>2 DEF WaitOK, Live
  <1>4. PromptOK
    <2>1. Once(toWin, "prompt") /\ Once(fromWin, "value")
      BY <1>1 DEF Once
    <2> QED
      BY <1>1, <1>2, <2>1 DEF PromptOK, Answered, Prompted
  <1>5. PressOK
    <2>1. Once(fromWin, "approve") /\ RetryOnce(toWin) /\ ~Pressed
      BY <1>1, <1>2 DEF Once, RetryOnce, Pressed
    <2>2. \A i \in DOMAIN fromWin : FALSE
      BY <1>1
    <2>3. Ready => main.wait
      BY <1>1 DEF Ready
    <2>4. main.fails = win.seen + (IF RetryIn(toWin) THEN 1 ELSE 0)
      BY <1>1, <1>2
    <2> QED
      BY <1>1, <1>2, <2>1, <2>2, <2>3, <2>4 DEF PressOK
  <1> QED
    BY <1>3, <1>4, <1>5, PhonesInit DEF TurnInv

LEMMA TurnNext ==
  TypeOK /\ EndsOK /\ Quiet /\ TurnInv /\ [Next]_vars => TurnInv'
  <1> SUFFICES ASSUME TypeOK, EndsOK, Quiet, TurnInv, [Next]_vars PROVE TurnInv'
    OBVIOUS
  <1>1. PhonesOK /\ PhonesOK'
    BY PhonesNext DEF TurnInv
  <1>2. ASSUME sess'.ended = "open" PROVE WaitOK' /\ PromptOK' /\ PressOK'
    <2>1. sess.ended = "open"
      BY <1>2, StaysEnded
    <2>2. WaitOK /\ PromptOK /\ PressOK
      BY <2>1 DEF TurnInv
    <2>3. Calm \/ Moves
      BY <1>1, <1>2, CalmSteps
    <2> QED
      BY <1>2, <2>1, <2>2, <2>3, TurnCalm, TurnReadWindow, TurnUnlockAsks,
         TurnUnlockHears, TurnOfferRetry, TurnTakeApprove, TurnPressApprove,
         TurnAnswers, TurnWindowShows DEF Moves
  <1> QED
    BY <1>1, <1>2 DEF TurnInv

-----------------------------------------------------------------------------
(* The button: once the approver waits for a press, the page has one or is *)
(* about to.                                                               *)

LEMMA OfferCalm ==
  TypeOK /\ Calm /\ WaitOK /\ PressOK /\ NoneRefused /\ OfferOK => OfferOK'
  <1> SUFFICES ASSUME TypeOK, Calm, WaitOK, PressOK, NoneRefused, OfferOK
               PROVE  OfferOK'
    OBVIOUS
  <1>0. toWin \in Seq(Messages)
    BY DEF TypeOK
  <1>1. /\ win'.retry = win.retry /\ win'.busy = win.busy /\ win'.prompt = win.prompt
        /\ main'.wait = main.wait /\ sess'.approve = sess.approve
        /\ Usable' => Usable
    BY DEF Calm
  <1>2. By # "click" => TakenFirst(toWin') /\ (win'.retry => ~TakesIn(toWin'))
    <2> SUFFICES ASSUME By # "click"
                 PROVE  TakenFirst(toWin') /\ (win'.retry => ~TakesIn(toWin'))
      OBVIOUS
    <2>1. CASE toWin' = toWin
      BY <1>1, <2>1 DEF OfferOK
    <2>2. CASE win.up /\ toWin' = Append(toWin, Message("status")) /\ local.st = "wrong"
      <3>1. ~RetryIn(toWin) /\ ~win.retry
        BY <2>2 DEF WaitOK, PressOK, Ready
      <3>2. TakenFirst(toWin')
        BY <1>0, <2>2, <3>1, StatusSays, GrownRetry DEF OfferOK
      <3> QED
        BY <1>1, <3>1, <3>2
    <2> QED
      BY <2>1, <2>2 DEF Calm, NoneRefused
  <1>3. RetryIn(toWin) => RetryIn(toWin')
    <2>1. CASE toWin' = toWin
      BY <2>1
    <2>2. CASE toWin' = Append(toWin, Message("status"))
      BY <1>0, <2>2, StatusSays, GrownRetry
    <2> QED
      BY <2>1, <2>2 DEF Calm
  <1>4. Pressed => Pressed'
    <2>1. CASE fromWin' = fromWin
      BY <1>1, <2>1 DEF Pressed
    <2>2. CASE \E m \in Replies : m.type \in {"for", "deny"} /\ fromWin' = Append(fromWin, m)
      BY <1>1, <2>2, OtherReply DEF Pressed
    <2> QED
      BY <2>1, <2>2 DEF Calm
  <1>5. Ready /\ Usable' => Ready'
    BY <1>1 DEF Ready, Usable
  <1> QED
    BY <1>1, <1>2, <1>3, <1>4, <1>5 DEF OfferOK

LEMMA OfferSession ==
  /\ TypeOK /\ WaitOK /\ PromptOK /\ PressOK /\ sess.ended = "open" /\ sess'.ended = "open"
  /\ ReadWindow \/ UnlockAsks \/ UnlockHears \/ TakeApprove
  /\ OfferOK
  => OfferOK'
  <1> SUFFICES ASSUME TypeOK, WaitOK, PromptOK, PressOK, sess.ended = "open",
                      sess'.ended = "open",
                      ReadWindow \/ UnlockAsks \/ UnlockHears \/ TakeApprove, OfferOK
               PROVE  OfferOK'
    OBVIOUS
  <1>0. /\ toWin \in Seq(Messages) /\ fromWin \in Seq(Replies) /\ sess \in SessType
        /\ main \in MainType
    BY DEF TypeOK
  <1>1. win' = win
    BY DEF ReadWindow, UnlockAsks, UnlockHears, TakeApprove, winVars
  <1>2. CASE ReadWindow
    <2> DEFINE r == Head(fromWin)
    <2>1. r \in Replies /\ fromWin # <<>> /\ fromWin' = Tail(fromWin)
          /\ sess' = Handled(sess, r) /\ UNCHANGED <<main, toWin>>
      BY <1>0, <1>2 DEF ReadWindow
    <2>2. Carries(fromWin, "approve") => r.type = "approve" \/ Carries(fromWin', "approve")
      BY <1>0, <2>1, TakenTypes
    <2>3. sess.approve # <<>> \/ r.type = "approve" => sess'.approve # <<>>
      BY <1>0, <2>1 DEF Handled, End, Pick, SessType, Replies
    <2> HIDE DEF r
    <2>4. Pressed => Pressed'
      BY <2>2, <2>3 DEF Pressed
    <2>5. (Ready => Ready') /\ (Usable' => Usable)
      BY <1>1 DEF Ready, Usable
    <2> QED
      BY <1>1, <2>1, <2>4, <2>5 DEF OfferOK
  <1>3. CASE UnlockAsks
    <2>1. ~main.wait /\ main' = main
      BY <1>3 DEF UnlockAsks, WaitOK
    <2>2. PICK confirm \in {FALSE, Confirms} :
            toWin' = Shown([Message("prompt") EXCEPT !.id = sess.promptID + 1,
                                                     !.confirm = confirm])
      BY <1>3 DEF UnlockAsks
    <2> DEFINE m == [Message("prompt") EXCEPT !.id = sess.promptID + 1, !.confirm = confirm]
    <2>3. sess.promptID + 1 \in Nat
      BY <1>0 DEF SessType
    <2>4. confirm \in BOOLEAN
      BY <2>2, ApprovalAssumption
    <2>5. m \in Messages /\ m.type = "prompt" /\ ~m.retry
      BY <2>3, <2>4, PromptSays
    <2>6. toWin' = IF win.up THEN Append(toWin, m) ELSE toWin
      BY <2>2 DEF Shown
    <2> HIDE DEF m
    <2>7. (TakesIn(toWin') => TakesIn(toWin)) /\ (TakenFirst(toWin) => TakenFirst(toWin'))
      BY <1>0, <2>5, <2>6, GrownRetry DEF Takes
    <2> QED
      BY <1>1, <2>1, <2>7 DEF OfferOK
  <1>4. CASE UnlockHears
    <2>1. ~main.wait /\ main' = main /\ toWin' = toWin
      BY <1>4 DEF UnlockHears, WaitOK, winVars
    <2> QED
      BY <1>1, <2>1 DEF OfferOK
  <1>5. CASE TakeApprove
    <2>1. ~main'.wait /\ toWin' = toWin
      BY <1>0, <1>5 DEF TakeApprove, MainType, winVars
    <2> QED
      BY <1>1, <2>1 DEF OfferOK
  <1> QED
    BY <1>2, <1>3, <1>4, <1>5

LEMMA OfferRetries == TypeOK /\ OfferRetry /\ OfferOK => OfferOK'
  <1> SUFFICES ASSUME TypeOK, OfferRetry, OfferOK PROVE OfferOK'
    OBVIOUS
  <1>1. toWin \in Seq(Messages) /\ win' = win /\ toWin' = Shown(RetryStatus)
    BY DEF TypeOK, OfferRetry
  <1>2. /\ TakesIn(toWin') => TakesIn(toWin)
        /\ TakenFirst(toWin) => TakenFirst(toWin')
        /\ win.up => RetryIn(toWin')
    <2>1. CASE win.up
      <3>1. toWin' = Append(toWin, RetryStatus)
        BY <1>1, <2>1 DEF Shown
      <3> QED
        BY <1>1, <3>1, StatusSays, GrownRetry DEF Takes
    <2>2. CASE ~win.up
      BY <1>1, <2>2 DEF Shown
    <2> QED
      BY <2>1, <2>2
  <1> QED
    BY <1>1, <1>2 DEF OfferOK, Usable

LEMMA OfferWindow ==
  /\ TypeOK /\ EndsOK /\ WaitOK /\ PromptOK /\ PressOK /\ OfferOK
  /\ WindowShows \/ PressApprove \/ Answers
  => OfferOK'
  <1> SUFFICES ASSUME TypeOK, EndsOK, WaitOK, PromptOK, PressOK, OfferOK,
                      WindowShows \/ PressApprove \/ Answers
               PROVE  OfferOK'
    OBVIOUS
  <1>0. toWin \in Seq(Messages) /\ fromWin \in Seq(Replies) /\ win \in WinType
    BY DEF TypeOK
  <1>1. CASE PressApprove
    <2> DEFINE r == [Reply("approve") EXCEPT !.seen = win.seen]
    <2>1. r \in Replies /\ r.type = "approve"
      BY <1>0, ApprovalAssumption DEF Reply, Replies, WinType
    <2>2. fromWin' = Append(fromWin, r) /\ toWin' = toWin
      BY <1>1 DEF PressApprove
    <2> HIDE DEF r
    <2>3. Pressed'
      BY <1>0, <2>1, <2>2, GrownTypes DEF Pressed
    <2>4. ~win'.retry
      BY <1>0, <1>1 DEF PressApprove, Busy, WinType
    <2> QED
      BY <2>2, <2>3, <2>4 DEF OfferOK
  <1>2. CASE Answers
    <2>1. win.prompt # 0 /\ main' = main /\ toWin' = toWin
      BY <1>2 DEF Answers, AnswerPrompt, AnswerConfirm
    <2>2. ~main.wait
      BY <2>1 DEF PromptOK, Prompted, WaitOK
    <2>3. ~win'.retry \/ (win'.retry = win.retry /\ win'.busy = win.busy)
      BY <1>0, <1>2 DEF Answers, AnswerPrompt, AnswerConfirm, Busy, WinType
    <2> QED
      BY <2>1, <2>2, <2>3 DEF OfferOK
  <1>3. CASE WindowShows
    <2> DEFINE m == Head(toWin)
    <2>0. /\ toWin # <<>> /\ toWin' = Tail(toWin) /\ win.up
          /\ UNCHANGED <<sess, main, fromWin>>
      BY <1>3 DEF WindowShows
    <2>1. m \in Messages /\ GoodMessage(m)
      BY <1>0, <2>0, GoodMessages DEF WaitOK
    <2>2. /\ TakesIn(toWin') => TakesIn(toWin)
          /\ Takes(m) => TakesIn(toWin)
          /\ TakenFirst(toWin) => TakenFirst(toWin')
          /\ TakenFirst(toWin) /\ m.retry => ~TakesIn(toWin')
          /\ RetryIn(toWin) <=> m.retry \/ RetryIn(toWin')
      BY <1>0, <2>0, TakenRetry
    <2>3. m.type # "done"
      <3>1. ~Carries(toWin, "done")
        BY DEF EndsOK, WaitOK
      <3> QED
        BY <1>0, <2>0, <3>1, CarriesHead
    <2>4. CASE m.type = "prompt"
      <3>1. Carries(toWin, "prompt")
        BY <1>0, <2>0, <2>4, CarriesHead
      <3>2. ~main.wait
        BY <3>1 DEF PromptOK, Prompted, WaitOK
      <3>3. win'.retry = win.retry /\ ~win'.busy
        BY <1>0, <1>3, <2>4 DEF WindowShows, WinType
      <3> QED
        BY <2>0, <2>2, <3>2, <3>3 DEF OfferOK
    <2>5. CASE m.type = "status" /\ m.retry
      <3>1. win'.retry /\ ~win'.busy /\ win'.up
        BY <1>0, <1>3, <2>0, <2>5 DEF WindowShows, WinType
      <3>2. Ready'
        BY <3>1 DEF Ready
      <3> QED
        BY <2>0, <2>2, <2>5, <3>1, <3>2 DEF OfferOK
    <2>6. CASE m.type = "status" /\ ~m.retry
      <3>1. /\ ~win'.retry /\ win'.busy = win.busy /\ win'.prompt = win.prompt
            /\ win'.up = win.up /\ win'.done = win.done
        BY <1>0, <1>3, <2>6 DEF WindowShows, WinType
      <3> HIDE DEF m
      <3>2. TakesIn(toWin)
        BY <2>2, <2>6 DEF Takes
      <3>3. main.wait => win.prompt = 0
        BY DEF PromptOK, Prompted, WaitOK
      <3>4. main.wait /\ Ready => Ready'
        BY <3>1, <3>2, <3>3 DEF OfferOK, Ready
      <3>5. Pressed => Pressed'
        BY <2>0 DEF Pressed
      <3>6. Usable' => Usable
        BY <3>1 DEF Usable
      <3> QED
        BY <2>0, <2>2, <2>6, <3>1, <3>4, <3>5, <3>6 DEF OfferOK
    <2> QED
      BY <2>1, <2>3, <2>4, <2>5, <2>6 DEF Messages
  <1> QED
    BY <1>1, <1>2, <1>3

LEMMA OfferInit == Init => OfferInv
  <1> SUFFICES ASSUME Init PROVE OfferOK
    BY DEF OfferInv
  <1>1. toWin = <<>> /\ win.retry = FALSE /\ win.busy = FALSE /\ win.prompt = 0
        /\ win.up = HasWindow /\ main.wait = (HasWindow /\ By = "click")
    BY DEF Init
  <1>2. TakenFirst(toWin)
    BY <1>1 DEF TakenFirst
  <1>3. main.wait => Ready
    BY <1>1 DEF Ready
  <1> QED
    BY <1>1, <1>2, <1>3 DEF OfferOK

LEMMA OfferNext ==
  TypeOK /\ EndsOK /\ NoneRefused /\ TurnInv /\ OfferInv /\ [Next]_vars => OfferInv'
  <1> SUFFICES ASSUME TypeOK, EndsOK, NoneRefused, TurnInv, OfferInv, [Next]_vars,
                      sess'.ended = "open"
               PROVE  OfferOK'
    BY DEF OfferInv
  <1>1. sess.ended = "open"
    BY StaysEnded
  <1>2. PhonesOK /\ WaitOK /\ PromptOK /\ PressOK /\ OfferOK
    BY <1>1 DEF TurnInv, OfferInv
  <1>3. Calm \/ Moves
    BY <1>2, CalmSteps
  <1> QED
    BY <1>1, <1>2, <1>3, OfferCalm, OfferSession, OfferRetries, OfferWindow DEF Moves

-----------------------------------------------------------------------------
(* What the window pays for.                                               *)

Asking(m) == m.type \in {"approve", "value"}

LEMMA AsksGrown ==
  ASSUME NEW q \in Seq(Replies), IsFiniteSet(AsksIn(q)), NEW m \in Replies
  PROVE  /\ IsFiniteSet(AsksIn(Append(q, m)))
         /\ Cardinality(AsksIn(Append(q, m)))
              = Cardinality(AsksIn(q)) + (IF Asking(m) THEN 1 ELSE 0)
  <1>1. CASE Asking(m)
    <2>1. AsksIn(Append(q, m)) = AsksIn(q) \cup {Len(q) + 1}
      BY <1>1, GrownQueue DEF AsksIn, Asking
    <2>2. Len(q) + 1 \notin AsksIn(q)
      BY DEF AsksIn
    <2> QED
      BY <1>1, <2>1, <2>2, FS_AddElement
  <1>2. CASE ~Asking(m)
    <2>1. AsksIn(Append(q, m)) = AsksIn(q)
      BY <1>2, GrownQueue DEF AsksIn, Asking
    <2>2. Cardinality(AsksIn(q)) \in Nat
      BY FS_CardinalityType
    <2> QED
      BY <1>2, <2>1, <2>2
  <1> QED
    BY <1>1, <1>2

LEMMA AsksTaken ==
  ASSUME NEW q \in Seq(Replies), IsFiniteSet(AsksIn(q)), q # <<>>
  PROVE  /\ IsFiniteSet(AsksIn(Tail(q)))
         /\ Cardinality(AsksIn(Tail(q))) + (IF Asking(Head(q)) THEN 1 ELSE 0)
              <= Cardinality(AsksIn(q))
  <1> DEFINE S == AsksIn(Tail(q))
             T == AsksIn(q) \ {1}
             f == [i \in S |-> i + 1]
  <1>1. \A i \in S : i \in Nat /\ i # 0 /\ i + 1 \in AsksIn(q)
    BY TakenQueue DEF AsksIn
  <1>2. \A i \in S : i + 1 \in T
    BY <1>1
  <1>3. f \in Injection(S, T)
    <2>1. f \in [S -> T]
      BY <1>2
    <2>2. \A i, j \in S : f[i] = f[j] => i = j
      BY <1>1
    <2> QED
      BY <2>1, <2>2 DEF Injection, IsInjective
  <1>4. /\ IsFiniteSet(T)
        /\ Cardinality(T) = IF 1 \in AsksIn(q) THEN Cardinality(AsksIn(q)) - 1
                            ELSE Cardinality(AsksIn(q))
    BY FS_RemoveElement
  <1> HIDE DEF S, T, f
  <1>5. IsFiniteSet(S) /\ Cardinality(S) <= Cardinality(T)
    BY <1>3, <1>4, FS_Injection
  <1>6. Asking(Head(q)) => 1 \in AsksIn(q)
    BY TakenQueue DEF AsksIn, Asking
  <1>7. Cardinality(S) \in Nat /\ Cardinality(T) \in Nat /\ Cardinality(AsksIn(q)) \in Nat
    BY <1>4, <1>5, FS_CardinalityType
  <1>8. Cardinality(S) + (IF Asking(Head(q)) THEN 1 ELSE 0) <= Cardinality(AsksIn(q))
    BY <1>4, <1>5, <1>6, <1>7
  <1> QED
    BY <1>5, <1>8 DEF S

Finite == IsFiniteSet(AsksIn(fromWin))

LEMMA UnusedType ==
  ASSUME TypeOK, Finite
  PROVE  /\ Cardinality(AsksIn(fromWin)) \in Nat
         /\ Len(sess.approve) \in Nat /\ Len(sess.values) \in Nat
         /\ main.starts \in Nat /\ win.presses \in Nat /\ win.typed \in Nat
  BY FS_CardinalityType DEF TypeOK, Finite, SessType, MainType, WinType

\* What is unused before and after a step, as sums of four numbers.
Sums(c, a, v, n, c2, a2, v2, n2) ==
  /\ c = Cardinality(AsksIn(fromWin)) /\ c2 = Cardinality(AsksIn(fromWin'))
  /\ a = Len(sess.approve) /\ a2 = Len(sess'.approve)
  /\ v = Len(sess.values) /\ v2 = Len(sess'.values)
  /\ n = (IF local.answer = "none" THEN 0 ELSE 1)
  /\ n2 = (IF local'.answer = "none" THEN 0 ELSE 1)
  /\ Unused = c + a + v + n /\ Unused' = c2 + a2 + v2 + n2

LEMMA UnusedSums ==
  ASSUME TypeOK, Finite, Cardinality(AsksIn(fromWin')) \in Nat,
         Len(sess'.approve) \in Nat, Len(sess'.values) \in Nat
  PROVE  /\ Unused \in Nat /\ Unused' \in Nat
         /\ \E c, a, v, c2, a2, v2, n, n2 \in Nat :
              Sums(c, a, v, n, c2, a2, v2, n2)
  <1> DEFINE c == Cardinality(AsksIn(fromWin))
             c2 == Cardinality(AsksIn(fromWin'))
             a == Len(sess.approve)
             a2 == Len(sess'.approve)
             v == Len(sess.values)
             v2 == Len(sess'.values)
             n == IF local.answer = "none" THEN 0 ELSE 1
             n2 == IF local'.answer = "none" THEN 0 ELSE 1
  <1>1. c \in Nat /\ c2 \in Nat /\ a \in Nat /\ a2 \in Nat /\ v \in Nat /\ v2 \in Nat
        /\ n \in Nat /\ n2 \in Nat
    BY UnusedType
  <1>2. Unused = c + a + v + n /\ Unused' = c2 + a2 + v2 + n2
    BY DEF Unused
  <1>3. Sums(c, a, v, n, c2, a2, v2, n2)
    BY <1>2 DEF Sums
  <1> HIDE DEF c, c2, a, a2, v, v2, n, n2
  <1>4. c + a + v + n \in Nat /\ c2 + a2 + v2 + n2 \in Nat
    BY <1>1
  <1>5. Unused \in Nat /\ Unused' \in Nat
    BY <1>2, <1>4
  <1>6. \E cc, aa, vv, cc2, aa2, vv2, nn, nn2 \in Nat :
          Sums(cc, aa, vv, nn, cc2, aa2, vv2, nn2)
    <2> USE <1>1
    <2> WITNESS c \in Nat, a \in Nat, v \in Nat, c2 \in Nat, a2 \in Nat, v2 \in Nat,
                n \in Nat, n2 \in Nat
    <2> QED
      BY <1>3
  <1> QED
    BY <1>5, <1>6

\* A step that puts nothing new to use and pays for nothing.
LEMMA PaidKept ==
  ASSUME TypeOK, Finite, PaidInv, PhonesOK',
         fromWin' = fromWin
           \/ \E m \in Replies : ~Asking(m) /\ fromWin' = Append(fromWin, m),
         sess'.approve = sess.approve, sess'.values = sess.values,
         local'.answer = local.answer \/ local'.answer = "none",
         local'.st = "wrong" => local'.answer = "wrong",
         main'.starts = main.starts,
         win'.presses = win.presses, win'.typed = win.typed
  PROVE  Finite' /\ PaidInv'
  <1>0. fromWin \in Seq(Replies)
    BY DEF TypeOK
  <1>1. /\ IsFiniteSet(AsksIn(fromWin'))
        /\ Cardinality(AsksIn(fromWin')) = Cardinality(AsksIn(fromWin))
    <2>1. CASE fromWin' = fromWin
      BY <2>1 DEF Finite
    <2>2. ASSUME NEW m \in Replies, ~Asking(m), fromWin' = Append(fromWin, m)
          PROVE  /\ IsFiniteSet(AsksIn(fromWin'))
                 /\ Cardinality(AsksIn(fromWin')) = Cardinality(AsksIn(fromWin))
      BY <1>0, <2>2, AsksGrown, UnusedType DEF Finite
    <2> QED
      BY <2>1, <2>2
  <1>2. Unused' <= Unused /\ Unused' \in Nat /\ Unused \in Nat
    <2>1. /\ Cardinality(AsksIn(fromWin')) \in Nat
          /\ Len(sess'.approve) \in Nat /\ Len(sess'.values) \in Nat
      BY <1>1, UnusedType
    <2>2. PICK c, a, v, c2, a2, v2, n, n2 \in Nat :
              Sums(c, a, v, n, c2, a2, v2, n2)
      BY <2>1, UnusedSums
    <2>3. c2 = c /\ a2 = a /\ v2 = v /\ n2 <= n
      BY <1>1, <2>2 DEF Sums
    <2>4. c2 + a2 + v2 + n2 <= c + a + v + n
      BY <2>3
    <2> QED
      BY <2>1, <2>2, <2>4, UnusedSums DEF Sums
  <1> QED
    BY <1>1, <1>2, UnusedType DEF Finite, PaidInv

LEMMA PaidSessions ==
  TypeOK /\ Finite /\ PaidInv /\ PhonesOK' /\ Sessions => Finite' /\ PaidInv'
  <1> SUFFICES ASSUME TypeOK, Finite, PaidInv, PhonesOK', Sessions
               PROVE  Finite' /\ PaidInv'
    OBVIOUS
  <1>0. sess \in SessType /\ fromWin \in Seq(Replies) /\ replies \in Seq(Replies)
    BY DEF TypeOK
  <1>1. CASE ReadWindow
    <2> DEFINE r == Head(fromWin)
    <2>1. /\ fromWin # <<>> /\ fromWin' = Tail(fromWin) /\ sess' = Handled(sess, r)
          /\ UNCHANGED <<main, local, win>> /\ r \in Replies
      BY <1>0, <1>1 DEF ReadWindow
    <2>2. /\ IsFiniteSet(AsksIn(fromWin'))
          /\ Cardinality(AsksIn(fromWin')) + (IF Asking(r) THEN 1 ELSE 0)
               <= Cardinality(AsksIn(fromWin))
      BY <1>0, <2>1, AsksTaken DEF Finite
    <2>3. Cardinality(AsksIn(fromWin')) \in Nat
      BY <2>2, FS_CardinalityType
    <2>4. /\ Len(sess'.approve) \in Nat /\ Len(sess'.values) \in Nat
          /\ Len(sess'.approve) + Len(sess'.values)
               <= Len(sess.approve) + Len(sess.values) + (IF Asking(r) THEN 1 ELSE 0)
      <3>1. CASE r.type = "approve"
        BY <1>0, <2>1, <3>1 DEF Handled, Asking, SessType
      <3>2. CASE r.type = "deny" \/ r.type = "for"
        BY <1>0, <2>1, <3>2 DEF Handled, End, Pick, Asking, SessType
      <3>3. CASE r.type = "value" /\ sess.values = <<>> /\ r.id = sess.promptID
        <4>1. sess'.approve = sess.approve
              /\ sess'.values = <<[id |-> r.id, right |-> r.right]>>
          BY <1>0, <2>1, <3>3 DEF Handled, SessType
        <4>2. Len(sess'.values) = 1 /\ Len(sess.values) = 0 /\ Len(sess.approve) \in Nat
          BY <1>0, <3>3, <4>1 DEF SessType
        <4>3. Asking(r)
          BY <3>3 DEF Asking
        <4> HIDE DEF r
        <4> QED
          BY <4>1, <4>2, <4>3
      <3>4. CASE r.type = "value" /\ ~(sess.values = <<>> /\ r.id = sess.promptID)
        <4>1. sess' = sess
          BY <2>1, <3>4 DEF Handled
        <4>2. Asking(r)
          BY <3>4 DEF Asking
        <4> DEFINE a == Len(sess.approve)
                   v == Len(sess.values)
        <4>3. a \in Nat /\ v \in Nat /\ Len(sess'.approve) = a /\ Len(sess'.values) = v
          BY <4>1, UnusedType
        <4> HIDE DEF r, a, v
        <4>4. a + v <= a + v + 1
          BY <4>3
        <4> QED
          BY <4>2, <4>3, <4>4 DEF a, v
      <3> QED
        BY <2>1, <3>1, <3>2, <3>3, <3>4 DEF Replies
    <2> HIDE DEF r
    <2>5. Unused' <= Unused /\ Unused' \in Nat /\ Unused \in Nat
      <3>1. /\ Cardinality(AsksIn(fromWin')) \in Nat
            /\ Len(sess'.approve) \in Nat /\ Len(sess'.values) \in Nat
        BY <2>3, <2>4, UnusedType
      <3>2. PICK c, a, v, c2, a2, v2, n, n2 \in Nat :
                Sums(c, a, v, n, c2, a2, v2, n2)
        BY <3>1, UnusedSums
      <3>3. /\ n2 = n
            /\ c2 + (IF Asking(r) THEN 1 ELSE 0) <= c
            /\ a2 + v2 <= a + v + (IF Asking(r) THEN 1 ELSE 0)
        BY <2>1, <2>2, <2>4, <3>2 DEF Sums
      <3>4. c2 + a2 + v2 + n2 <= c + a + v + n
        BY <3>3
      <3> QED
        BY <3>1, <3>2, <3>4, UnusedSums DEF Sums
    <2> QED
      BY <2>1, <2>2, <2>5, UnusedType DEF Finite, PaidInv
  <1>2. CASE ReadPhone
    <2>1. Head(replies).type \in {"for", "deny"}
      <3>1. 1 \in DOMAIN replies /\ Head(replies) = replies[1]
        BY <1>0, <1>2 DEF ReadPhone
      <3> QED
        BY <3>1 DEF PhonesOK, PaidInv
    <2>2. sess'.approve = sess.approve /\ sess'.values = sess.values
      BY <1>0, <1>2, <2>1 DEF ReadPhone, Handled, End, Pick, SessType
    <2>3. UNCHANGED <<main, local, win, fromWin>>
      BY <1>2 DEF ReadPhone, winVars
    <2>4. local.st = "wrong" => local.answer = "wrong"
      BY DEF PaidInv
    <2> QED
      BY <2>2, <2>3, <2>4, PaidKept
  <1>3. CASE WindowGone \/ StopPolling \/ DeadlinePasses
    <2>1. sess'.approve = sess.approve /\ sess'.values = sess.values
      BY <1>0, <1>3 DEF WindowGone, StopPolling, DeadlinePasses, End, SessType
    <2>2. UNCHANGED <<main, local, win, fromWin>>
      BY <1>3 DEF WindowGone, StopPolling, DeadlinePasses, winVars
    <2>3. local.st = "wrong" => local.answer = "wrong"
      BY DEF PaidInv
    <2> QED
      BY <2>1, <2>2, <2>3, PaidKept
  <1> QED
    BY <1>1, <1>2, <1>3 DEF Sessions

LEMMA PaidUnlocking ==
  TypeOK /\ Finite /\ PaidInv /\ PhonesOK' /\ Unlocking => Finite' /\ PaidInv'
  <1> SUFFICES ASSUME TypeOK, Finite, PaidInv, PhonesOK', Unlocking
               PROVE  Finite' /\ PaidInv'
    OBVIOUS
  <1>0. sess \in SessType /\ local \in LocalType
    BY DEF TypeOK
  <1>1. CASE UnlockHears
    <2>1. /\ sess'.approve = sess.approve /\ sess'.values = <<>>
          /\ sess.values # <<>> /\ local'.st \in {"run", "ask"}
          /\ UNCHANGED <<main, win, fromWin>>
      BY <1>0, <1>1 DEF UnlockHears, SessType, LocalType, winVars
    <2>2. Len(sess.values) >= 1 /\ Len(sess'.values) = 0
      BY <1>0, <2>1 DEF SessType
    <2>3. Unused' <= Unused /\ Unused' \in Nat /\ Unused \in Nat
      <3>1. /\ Cardinality(AsksIn(fromWin')) \in Nat
            /\ Len(sess'.approve) \in Nat /\ Len(sess'.values) \in Nat
        BY <2>1, <2>2, UnusedType
      <3>2. PICK c, a, v, c2, a2, v2, n, n2 \in Nat :
                Sums(c, a, v, n, c2, a2, v2, n2)
        BY <3>1, UnusedSums
      <3>3. c2 = c /\ a2 = a /\ v >= 1 /\ v2 = 0 /\ n2 <= 1
        BY <2>1, <2>2, <3>2 DEF Sums
      <3>4. c2 + a2 + v2 + n2 <= c + a + v + n
        BY <3>3
      <3> QED
        BY <3>1, <3>2, <3>4, UnusedSums DEF Sums
    <2> QED
      BY <2>1, <2>3, UnusedType DEF Finite, PaidInv
  <1>2. CASE UnlockAsks \/ UnlockAborts \/ UnlockOpens \/ UnlockFails
    <2>1. sess'.approve = sess.approve /\ sess'.values = sess.values
      BY <1>0, <1>2 DEF UnlockAsks, UnlockAborts, UnlockOpens, UnlockFails, SessType
    <2>2. local'.answer = local.answer
      BY <1>0, <1>2 DEF UnlockAsks, UnlockAborts, UnlockOpens, UnlockFails, LocalType
    <2>3. local'.st = "wrong" => local.answer = "wrong"
      <3>1. CASE UnlockFails
        <4>1. PICK st \in {"failed", "wrong"} :
                /\ st = "wrong" => local.answer = "wrong"
                /\ local' = [local EXCEPT !.st = st]
          BY <3>1 DEF UnlockFails
        <4> QED
          BY <1>0, <4>1 DEF LocalType
      <3>2. CASE UnlockAsks \/ UnlockAborts \/ UnlockOpens
        <4>1. local'.st # "wrong"
          BY <1>0, <3>2 DEF UnlockAsks, UnlockAborts, UnlockOpens, LocalType
        <4> QED
          BY <4>1
      <3> QED
        BY <1>2, <3>1, <3>2
    <2>4. UNCHANGED <<main, win, fromWin>>
      BY <1>2 DEF UnlockAsks, UnlockAborts, UnlockOpens, UnlockFails, winVars
    <2> QED
      BY <2>1, <2>2, <2>3, <2>4, PaidKept
  <1> QED
    BY <1>1, <1>2 DEF Unlocking

LEMMA PaidApprover ==
  TypeOK /\ Finite /\ PaidInv /\ PhonesOK' /\ Approver => Finite' /\ PaidInv'
  <1> SUFFICES ASSUME TypeOK, Finite, PaidInv, PhonesOK', Approver
               PROVE  Finite' /\ PaidInv'
    OBVIOUS
  <1>0. /\ sess \in SessType /\ main \in MainType /\ local \in LocalType
        /\ NoUnlock.answer = "none" /\ NoUnlock.st = "none"
        /\ Running.answer = "none" /\ Running.st = "run"
    BY DEF TypeOK, NoUnlock, Running
  <1>1. CASE AskAgain
    <2>1. local.answer # "none" /\ local' = Running /\ UNCHANGED <<sess, win, fromWin>>
      BY <1>1 DEF AskAgain, PaidInv
    <2>2. main'.starts = main.starts + 1
      BY <1>0, <1>1 DEF AskAgain, MainType
    <2>3. Unused' + 1 <= Unused /\ Unused' \in Nat /\ Unused \in Nat
      <3>1. /\ Cardinality(AsksIn(fromWin')) \in Nat
            /\ Len(sess'.approve) \in Nat /\ Len(sess'.values) \in Nat
        BY <2>1, UnusedType
      <3>2. PICK c, a, v, c2, a2, v2, n, n2 \in Nat :
                Sums(c, a, v, n, c2, a2, v2, n2)
        BY <3>1, UnusedSums
      <3>3. c2 = c /\ a2 = a /\ v2 = v /\ n2 = 0 /\ n = 1
        BY <1>0, <2>1, <3>2 DEF Sums
      <3>4. c2 + a2 + v2 + n2 + 1 <= c + a + v + n
        BY <3>3
      <3> QED
        BY <3>1, <3>2, <3>4, UnusedSums DEF Sums
    <2>4. By = "click" => main'.starts + Unused' <= win'.presses + win'.typed
      <3> SUFFICES ASSUME By = "click"
                   PROVE  main'.starts + Unused' <= win'.presses + win'.typed
        OBVIOUS
      <3> DEFINE u == Unused
                 u2 == Unused'
                 paid == win.presses + win.typed
                 starts == main.starts
      <3>1. u \in Nat /\ u2 \in Nat /\ u2 + 1 <= u /\ paid \in Nat /\ starts \in Nat
        <4>1. main.starts \in Nat /\ win.presses \in Nat /\ win.typed \in Nat
          BY UnusedType
        <4>2. Unused \in Nat /\ Unused' \in Nat /\ Unused' + 1 <= Unused
          BY <2>3
        <4>3. win.presses + win.typed \in Nat
          BY <4>1
        <4> QED
          BY <4>1, <4>2, <4>3
      <3>2. starts + u <= paid
        BY DEF PaidInv
      <3> HIDE DEF u, u2, paid, starts
      <3>3. starts + 1 + u2 <= paid
        BY <3>1, <3>2
      <3>4. win'.presses + win'.typed = paid
        BY <2>1 DEF paid
      <3> QED
        BY <2>2, <3>3, <3>4 DEF u2, starts
    <2>5. local'.st = "run" /\ Finite'
      BY <1>0, <2>1 DEF Finite
    <2> QED
      BY <2>4, <2>5 DEF PaidInv
  <1>2. CASE TakeApprove
    <2>1. /\ sess'.approve = <<>> /\ sess.approve # <<>> /\ sess'.values = sess.values
          /\ local' = Running /\ UNCHANGED <<win, fromWin>>
      BY <1>0, <1>2 DEF TakeApprove, ApproveTaken, SessType, winVars
    <2>2. main'.starts = main.starts + 1
      BY <1>0, <1>2 DEF TakeApprove, MainType
    <2>3. Len(sess.approve) >= 1 /\ Len(sess'.approve) = 0
      BY <1>0, <2>1 DEF SessType
    <2>4. Unused' + 1 <= Unused /\ Unused' \in Nat /\ Unused \in Nat
      <3>1. /\ Cardinality(AsksIn(fromWin')) \in Nat
            /\ Len(sess'.approve) \in Nat /\ Len(sess'.values) \in Nat
        BY <2>1, <2>3, UnusedType
      <3>2. PICK c, a, v, c2, a2, v2, n, n2 \in Nat :
                Sums(c, a, v, n, c2, a2, v2, n2)
        BY <3>1, UnusedSums
      <3>3. c2 = c /\ a2 = 0 /\ a >= 1 /\ v2 = v /\ n2 = 0
        BY <1>0, <2>1, <2>3, <3>2 DEF Sums
      <3>4. c2 + a2 + v2 + n2 + 1 <= c + a + v + n
        BY <3>3
      <3> QED
        BY <3>1, <3>2, <3>4, UnusedSums DEF Sums
    <2>5. By = "click" => main'.starts + Unused' <= win'.presses + win'.typed
      <3> SUFFICES ASSUME By = "click"
                   PROVE  main'.starts + Unused' <= win'.presses + win'.typed
        OBVIOUS
      <3> DEFINE u == Unused
                 u2 == Unused'
                 paid == win.presses + win.typed
                 starts == main.starts
      <3>1. u \in Nat /\ u2 \in Nat /\ u2 + 1 <= u /\ paid \in Nat /\ starts \in Nat
        <4>1. main.starts \in Nat /\ win.presses \in Nat /\ win.typed \in Nat
          BY UnusedType
        <4>2. Unused \in Nat /\ Unused' \in Nat /\ Unused' + 1 <= Unused
          BY <2>4
        <4>3. win.presses + win.typed \in Nat
          BY <4>1
        <4> QED
          BY <4>1, <4>2, <4>3
      <3>2. starts + u <= paid
        BY DEF PaidInv
      <3> HIDE DEF u, u2, paid, starts
      <3>3. starts + 1 + u2 <= paid
        BY <3>1, <3>2
      <3>4. win'.presses + win'.typed = paid
        BY <2>1 DEF paid
      <3> QED
        BY <2>2, <3>3, <3>4 DEF u2, starts
    <2>6. local'.st = "run" /\ Finite'
      BY <1>0, <2>1 DEF Finite
    <2> QED
      BY <2>5, <2>6 DEF PaidInv
  <1>3. CASE ~AskAgain /\ ~TakeApprove
    <2>1. main'.starts = main.starts
      BY <1>0, <1>3
      DEF Approver, TakeDesktop, GiveUp, OfferRetry, TakePhone, PhoneOpens,
          PhoneRefused, TakeEnd, ReadDuration, GrantNext, GrantFails, AllGranted,
          Finish, MainType
    <2>2. sess'.approve = sess.approve /\ sess'.values = sess.values
      <3>1. CASE TakePhone \/ Finish
        BY <1>0, <3>1 DEF TakePhone, Finish, Pick, End, SessType
      <3>2. CASE sess' = sess
        BY <3>2
      <3> QED
        BY <1>3, <3>1, <3>2
        DEF Approver, TakeDesktop, GiveUp, OfferRetry, PhoneOpens, PhoneRefused,
            TakeEnd, ReadDuration, GrantNext, GrantFails, AllGranted
    <2>3. (local' = local \/ local' = NoUnlock) /\ UNCHANGED <<win, fromWin>>
      BY <1>3
      DEF Approver, TakeDesktop, GiveUp, OfferRetry, TakePhone, PhoneOpens,
          PhoneRefused, TakeEnd, ReadDuration, GrantNext, GrantFails, AllGranted,
          Finish, winVars
    <2>4. local'.st = "wrong" => local'.answer = "wrong"
      BY <1>0, <2>3 DEF PaidInv
    <2> QED
      BY <1>0, <2>1, <2>2, <2>3, <2>4, PaidKept
  <1> QED
    BY <1>1, <1>2, <1>3

LEMMA PaidPress ==
  TypeOK /\ Finite /\ PaidInv /\ PhonesOK' /\ (PressApprove \/ Answers) => Finite' /\ PaidInv'
  <1> SUFFICES ASSUME TypeOK, Finite, PaidInv, PhonesOK', PressApprove \/ Answers
               PROVE  Finite' /\ PaidInv'
    OBVIOUS
  <1>0. win \in WinType /\ fromWin \in Seq(Replies) /\ UNCHANGED <<sess, main, local>>
    BY DEF TypeOK, PressApprove, Answers, AnswerPrompt, AnswerConfirm
  <1>1. \E m \in Replies : Asking(m) /\ fromWin' = Append(fromWin, m)
    <2>1. CASE PressApprove
      <3> DEFINE r == [Reply("approve") EXCEPT !.seen = win.seen]
      <3>1. r \in Replies /\ r.type = "approve" /\ fromWin' = Append(fromWin, r)
        BY <1>0, <2>1, ApprovalAssumption DEF PressApprove, Reply, Replies, WinType
      <3> HIDE DEF r
      <3> QED
        BY <3>1 DEF Asking
    <2>2. CASE Answers
      <3>1. PICK right \in BOOLEAN :
              fromWin' = Append(fromWin, [Reply("value") EXCEPT !.id = win.prompt,
                                                                !.right = right])
        BY <2>2 DEF Answers, AnswerPrompt, AnswerConfirm
      <3> DEFINE r == [Reply("value") EXCEPT !.id = win.prompt, !.right = right]
      <3>2. r \in Replies /\ r.type = "value"
        BY <1>0, <3>1, ApprovalAssumption DEF Reply, Replies, WinType
      <3>3. fromWin' = Append(fromWin, r)
        BY <3>1
      <3> HIDE DEF r
      <3> QED
        BY <3>2, <3>3 DEF Asking
    <2> QED
      BY <2>1, <2>2
  <1>2. PICK m \in Replies : Asking(m) /\ fromWin' = Append(fromWin, m)
    BY <1>1
  <1>3. /\ IsFiniteSet(AsksIn(fromWin'))
        /\ Cardinality(AsksIn(fromWin')) = Cardinality(AsksIn(fromWin)) + 1
    BY <1>0, <1>2, AsksGrown DEF Finite
  <1>4. /\ win'.presses \in Nat /\ win'.typed \in Nat
        /\ win'.presses + win'.typed = win.presses + win.typed + 1
    <2>1. CASE PressApprove
      BY <1>0, <2>1 DEF PressApprove, Busy, WinType
    <2>2. CASE AnswerPrompt
      BY <1>0, <2>2 DEF AnswerPrompt, Busy, WinType
    <2>3. CASE AnswerConfirm
      BY <1>0, <2>3 DEF AnswerConfirm, WinType
    <2> QED
      BY <2>1, <2>2, <2>3 DEF Answers
  <1>5. Unused' = Unused + 1 /\ Unused \in Nat
    <2>1. /\ Cardinality(AsksIn(fromWin')) \in Nat
          /\ Len(sess'.approve) \in Nat /\ Len(sess'.values) \in Nat
      BY <1>0, <1>3, UnusedType
    <2>2. PICK c, a, v, c2, a2, v2, n, n2 \in Nat :
              Sums(c, a, v, n, c2, a2, v2, n2)
      BY <2>1, UnusedSums
    <2>3. c2 = c + 1 /\ a2 = a /\ v2 = v /\ n2 = n
      BY <1>0, <1>3, <2>2 DEF Sums
    <2>4. c2 + a2 + v2 + n2 = c + a + v + n + 1
      BY <2>3
    <2> QED
      BY <2>1, <2>2, <2>4, UnusedSums DEF Sums
  <1> QED
    BY <1>0, <1>3, <1>4, <1>5, UnusedType DEF Finite, PaidInv

LEMMA PaidRest ==
  /\ TypeOK /\ Finite /\ PaidInv /\ PhonesOK'
  /\ (Human /\ ~PressApprove /\ ~Answers) \/ Server \/ WindowShows \/ PageExits
       \/ UNCHANGED vars
  => Finite' /\ PaidInv'
  <1> SUFFICES ASSUME TypeOK, Finite, PaidInv, PhonesOK',
                      (Human /\ ~PressApprove /\ ~Answers) \/ Server \/ WindowShows
                        \/ PageExits \/ UNCHANGED vars
               PROVE  Finite' /\ PaidInv'
    OBVIOUS
  <1>0. win \in WinType /\ local \in LocalType /\ UNCHANGED <<sess, main>>
    BY DEF TypeOK, Human, Server, WindowShows, PageExits, PickInWindow, DenyInWindow,
           CloseWindow, WindowDies, Touch, PickOnPhone, DenyOnPhone, ApproveOnPhone,
           Answers, ReplyArrives, UnlockArrives, UnlockFailsToPost, ReplyLost, vars
  <1>1. local'.answer = local.answer /\ local'.st = local.st
    BY <1>0 DEF Human, Server, WindowShows, PageExits, PickInWindow, DenyInWindow,
           CloseWindow, WindowDies, Touch, PickOnPhone, DenyOnPhone, ApproveOnPhone,
           Answers, ReplyArrives, UnlockArrives, UnlockFailsToPost, ReplyLost, vars, LocalType
  <1>2. win'.presses = win.presses /\ win'.typed = win.typed
    <2>1. CASE WindowShows
      BY <1>0, <2>1 DEF WindowShows, WinType
    <2>2. CASE \E d \in Choices : PickInWindow(d)
      BY <1>0, <2>2 DEF PickInWindow, WinType
    <2>3. CASE PageExits \/ DenyInWindow \/ CloseWindow \/ WindowDies
      BY <1>0, <2>3 DEF PageExits, DenyInWindow, CloseWindow, WindowDies, WinType
    <2>4. CASE win' = win
      BY <2>4
    <2> QED
      BY <2>1, <2>2, <2>3, <2>4
      DEF Human, Server, Touch, PickOnPhone, DenyOnPhone, ApproveOnPhone, Answers,
          ReplyArrives, UnlockArrives, UnlockFailsToPost, ReplyLost, vars, winVars
  <1>3. fromWin' = fromWin
          \/ \E m \in Replies : ~Asking(m) /\ fromWin' = Append(fromWin, m)
    <2>1. CASE \E d \in Choices : PickInWindow(d)
      <3> PICK d \in Choices : PickInWindow(d)
        BY <2>1
      <3> DEFINE r == [Reply("for") EXCEPT !.for = d]
      <3>1. r \in Replies /\ r.type = "for" /\ fromWin' = Append(fromWin, r)
        BY ApprovalAssumption DEF PickInWindow, Reply, Replies
      <3> HIDE DEF r
      <3> QED
        BY <3>1 DEF Asking
    <2>2. CASE DenyInWindow \/ CloseWindow
      <3>1. Reply("deny") \in Replies /\ ~Asking(Reply("deny"))
        BY ReplyType DEF Reply, Asking
      <3> QED
        BY <2>2, <3>1 DEF DenyInWindow, CloseWindow
    <2>3. CASE fromWin' = fromWin
      BY <2>3
    <2> QED
      BY <2>1, <2>2, <2>3
      DEF Human, Server, Touch, PickOnPhone, DenyOnPhone, ApproveOnPhone, Answers,
          WindowDies, WindowShows, PageExits,
          ReplyArrives, UnlockArrives, UnlockFailsToPost, ReplyLost, vars, winVars
  <1>4. local'.st = "wrong" => local'.answer = "wrong"
    BY <1>1 DEF PaidInv
  <1> QED
    BY <1>0, <1>1, <1>2, <1>3, <1>4, PaidKept

LEMMA PaidInit == Init => Finite /\ PaidInv
  <1> SUFFICES ASSUME Init PROVE Finite /\ PaidInv
    OBVIOUS
  <1>1. /\ fromWin = <<>> /\ sess.approve = <<>> /\ sess.values = <<>>
        /\ win.presses = 0 /\ win.typed = 0 /\ (By = "click" => main.starts = 0)
        /\ local.answer = "none" /\ local.st # "wrong"
    BY DEF Init, Running, NoUnlock
  <1>2. AsksIn(fromWin) = {}
    BY <1>1 DEF AsksIn
  <1>3. IsFiniteSet(AsksIn(fromWin)) /\ Cardinality(AsksIn(fromWin)) = 0
    BY <1>2, FS_EmptySet
  <1>4. Unused = 0
    BY <1>1, <1>3 DEF Unused
  <1> QED
    BY <1>1, <1>3, <1>4, PhonesInit DEF Finite, PaidInv

LEMMA PaidNext ==
  TypeOK /\ Finite /\ PaidInv /\ [Next]_vars => Finite' /\ PaidInv'
  <1> SUFFICES ASSUME TypeOK, Finite, PaidInv, [Next]_vars PROVE Finite' /\ PaidInv'
    OBVIOUS
  <1>1. PhonesOK'
    BY PhonesNext DEF PaidInv
  <1> QED
    BY <1>1, PaidSessions, PaidUnlocking, PaidApprover, PaidPress, PaidRest DEF Next

-----------------------------------------------------------------------------
(* The theorems about the window's button.                                 *)

LEMMA TurnInvariant ==
  ASSUME Quiet
  PROVE  Spec => [](RequestInv /\ TurnInv)
  <1>1. Init => TurnInv
    BY TurnInit
  <1>2. RequestInv /\ TurnInv /\ [Next]_vars => TurnInv'
    BY Quiet, TurnNext DEF RequestInv
  <1> QED
    BY <1>1, <1>2, RequestInvariant, PTL DEF Spec

\* A press of Approve the approver is about to act on was made with every
\* failure so far on the screen, whatever the number of attempts, phones and
\* prompts, unless a plugin asks questions in a plain vault.
THEOREM PressesAreFreshHolds ==
  ASSUME Quiet
  PROVE  Spec => []PressesAreFresh
  <1>1. TurnInv => PressesAreFresh
    BY DEF TurnInv, PressOK, PressesAreFresh
  <1> QED
    BY <1>1, TurnInvariant, Quiet, PTL

\* While the approver waits for a press, a window that has caught up offers
\* one, unless a phone's key can be refused by a vault with a desktop key
\* (the status that says so takes Try again away) or a plugin asks questions
\* in a plain vault.
THEOREM RetryIsOfferedHolds ==
  ASSUME Quiet, NoneRefused
  PROVE  Spec => []RetryIsOffered
  <1>1. Init => OfferInv
    BY OfferInit
  <1>2. (RequestInv /\ TurnInv) /\ OfferInv /\ [Next]_vars => OfferInv'
    BY NoneRefused, OfferNext DEF RequestInv
  <1>3. TurnInv /\ OfferInv => RetryIsOffered
    <2> SUFFICES ASSUME TurnInv, OfferInv, main.wait, sess.ended = "open",
                        sess.approve = <<>>, toWin = <<>>, fromWin = <<>>, Usable
                 PROVE  CanApprove
      BY DEF RetryIsOffered
    <2>1. ~Pressed /\ ~RetryIn(toWin)
      BY DEF Pressed, Carries, RetryIn
    <2>2. Ready
      BY <2>1 DEF OfferInv, OfferOK
    <2>3. win.prompt = 0
      BY DEF TurnInv, WaitOK, PromptOK, Prompted
    <2> QED
      BY <2>2, <2>3 DEF Ready, CanApprove
  <1> QED
    BY <1>1, <1>2, <1>3, TurnInvariant, Quiet, PTL DEF Spec

\* In a plain vault as many unlocks have started as Approve or Try again was
\* pressed, or a prompt answered: every press and every value is used for
\* one unlock at most, whatever the phones do.
THEOREM EveryUnlockIsAskedForHolds == Spec => []EveryUnlockIsAskedFor
  <1>1. Init => Finite /\ PaidInv
    BY PaidInit
  <1>2. RequestInv /\ (Finite /\ PaidInv) /\ [Next]_vars => (Finite /\ PaidInv)'
    BY PaidNext DEF RequestInv
  <1>3. RequestInv /\ Finite /\ PaidInv => EveryUnlockIsAskedFor
    <2> SUFFICES ASSUME TypeOK, Finite, PaidInv, By = "click"
                 PROVE  main.starts <= win.presses + win.typed
      BY DEF EveryUnlockIsAskedFor, RequestInv
    <2>1. Unused \in Nat
      BY UnusedType DEF Unused
    <2> QED
      BY <2>1, UnusedType DEF PaidInv
  <1> QED
    BY <1>1, <1>2, <1>3, RequestInvariant, PTL DEF Spec

-----------------------------------------------------------------------------
(* What the window showed when it approved.  From a press, or a prompt's   *)
(* answer, the page stays busy until the approver's end or a message that  *)
(* lets go of it, so nothing is picked behind the approval's back; none is *)
(* sent between the answer that opens the key and the duration's reading.  *)

\* A message after which the page is not busy.
Loud(m) == m.type = "prompt" \/ m.retry
LoudIn(q) == \E i \in DOMAIN q : Loud(q[i])

\* A queue's last pick, if it has one, is of duration d.
LastPick(q, d) ==
  \A i \in DOMAIN q :
    /\ q[i].type = "for"
    /\ \A j \in DOMAIN q : q[j].type = "for" => j <= i
    => q[i].for = d

\* A prompt, or the value that answers it; and a queue that has one.
Is(m, type, n) == m.type = type /\ m.id = n
Has(q, type, n) == \E i \in DOMAIN q : Is(q[i], type, n)

\* The prompts, or values, in a queue have numbers up to n.
UpTo(q, type, n) == \A i \in DOMAIN q : q[i].type = type => q[i].id <= n

\* Nothing loud comes after an offer to try again, and prompt n comes alone.
RetryLast(q) == \A i, j \in DOMAIN q : q[i].retry /\ Loud(q[j]) => j <= i
AloneIn(q, n) ==
  \A i, j \in DOMAIN q : Is(q[i], "prompt", n) /\ Loud(q[j]) => i = j

\* No pick comes after an approve, or after the value that answers prompt n.
ApproveLast(q) ==
  \A i, j \in DOMAIN q : q[i].type = "approve" /\ q[j].type = "for" => j < i
ValueLast(q, n) ==
  \A i, j \in DOMAIN q : Is(q[i], "value", n) /\ q[j].type = "for" => j < i

\* The page cannot be picked in, nor will be for anything on its way to it.
Kept == Usable => win.busy /\ ~LoudIn(toWin)
Settled == Kept /\ ~Carries(fromWin, "for")

\* The phones said nothing.
Silent == \A p \in Phones : phone[p].sent = 0
SilentOK == posts = {} /\ replies = <<>> /\ unlocks = <<>>

\* A button on the page is there for an approver that waits, a press holds
\* the page, and an approval by the window is the end of its unlocks.
ButtonOK ==
  /\ win.confirm => Confirms
  /\ \A i \in DOMAIN toWin : GoodMessage(toWin[i])
  /\ main.wait => local.st = "none"
  /\ Pressed \/ (Usable /\ (Ready \/ RetryIn(toWin))) => main.wait
  /\ Usable /\ Ready => ~LoudIn(toWin)
  /\ Usable /\ Pressed => win.busy /\ ~win.retry /\ win.prompt = 0 /\ ~LoudIn(toWin)
  /\ Usable => RetryLast(toWin)
  /\ Once(fromWin, "approve") /\ (sess.approve # <<>> => ~Carries(fromWin, "approve"))
  /\ main.via = Window
       => main.pc \in {"approved", "granting", "finish", "exited"} /\ local.st = "none"

\* An unlock that asks nothing has a page with nothing to answer.
Unlocked == local.st \in {"run", "ok", "wrong", "failed"}
Clear == Usable => win.prompt = 0 /\ ~win.retry /\ ~LoudIn(toWin)

\* The session has the value that answers its prompt.
Heard == sess.values # <<>> /\ Head(sess.values).id = sess.promptID

\* One that asks has a page with its prompt to come, its prompt, or nothing;
\* older prompts and values are told by their number.
AskOK ==
  /\ UpTo(toWin, "prompt", sess.promptID) /\ win.prompt <= sess.promptID
  /\ UpTo(fromWin, "value", sess.promptID)
  /\ sess.values # <<>> => Head(sess.values).id <= sess.promptID
  /\ Unlocked => Clear /\ (Usable /\ By = "click" => win.busy)
  /\ local.st = "ask" =>
       /\ local.id = sess.promptID
       /\ Usable /\ Has(toWin, "prompt", sess.promptID)
            => win.prompt = 0 /\ ~win.retry /\ AloneIn(toWin, sess.promptID)
       /\ Usable /\ win.prompt = sess.promptID => ~win.retry /\ ~LoudIn(toWin)
       /\ Has(fromWin, "value", sess.promptID) \/ Heard => Clear /\ Kept

\* The session's duration is the page's but for picks still on their way,
\* and none is once the approval is.
PickOK ==
  /\ ~Carries(fromWin, "for") => sess.forSecs = win.picked
  /\ LastPick(fromWin, win.picked)
  /\ ApproveLast(fromWin)
  /\ local.st = "ask" => ValueLast(fromWin, sess.promptID)
  /\ local.st = "ok" => By = "click" \/ local.answer # "none"
  /\ \/ sess.approve # <<>>
     \/ Unlocked /\ (By = "click" \/ local.answer # "none")
     \/ local.st = "ask" /\ Heard
     \/ main.via = Window /\ main.pc = "approved"
     => Settled
  /\ main.via = Window /\ main.pc # "approved" => Kept /\ main.ttl = win.picked
  /\ main.pc \in {"select", "unlockWith", "approved"} => main.held = 0

\* By touch the key may be touched while the page is still being picked in.
ShownInv ==
  Silent /\ By # "touch" => SilentOK /\ ButtonOK /\ AskOK /\ PickOK

LEMMA GrownPicks ==
  ASSUME NEW S, NEW q \in Seq(S), NEW m \in S
  PROVE  /\ LoudIn(Append(q, m)) <=> LoudIn(q) \/ Loud(m)
         /\ \A d : LastPick(q, d) /\ m.type # "for" => LastPick(Append(q, m), d)
         /\ m.type = "for" => LastPick(Append(q, m), m.for)
  <1>1. LoudIn(Append(q, m)) <=> LoudIn(q) \/ Loud(m)
    <2>1. LoudIn(Append(q, m)) => LoudIn(q) \/ Loud(m)
      BY GrownQueue DEF LoudIn
    <2>2. LoudIn(q) \/ Loud(m) => LoudIn(Append(q, m))
      BY GrownQueue DEF LoudIn
    <2> QED
      BY <2>1, <2>2
  <1>2. ASSUME NEW d, LastPick(q, d), m.type # "for", NEW i \in DOMAIN Append(q, m),
               Append(q, m)[i].type = "for",
               \A j \in DOMAIN Append(q, m) : Append(q, m)[j].type = "for" => j <= i
        PROVE  Append(q, m)[i].for = d
    <2>1. i \in DOMAIN q /\ Append(q, m)[i] = q[i]
      BY <1>2, GrownQueue
    <2>2. \A j \in DOMAIN q : q[j].type = "for" => j <= i
      BY <1>2, GrownQueue
    <2> QED
      BY <1>2, <2>1, <2>2 DEF LastPick
  <1>3. ASSUME m.type = "for", NEW i \in DOMAIN Append(q, m),
               Append(q, m)[i].type = "for",
               \A j \in DOMAIN Append(q, m) : Append(q, m)[j].type = "for" => j <= i
        PROVE  Append(q, m)[i].for = m.for
    <2>1. Len(q) + 1 <= i
      BY <1>3, GrownQueue
    <2>2. i \in 1..Len(q) \/ (i = Len(q) + 1 /\ Append(q, m)[i] = m)
      BY GrownQueue
    <2> QED
      BY <2>1, <2>2
  <1> QED
    BY <1>1, <1>2, <1>3 DEF LastPick

LEMMA TakenPicks ==
  ASSUME NEW S, NEW q \in Seq(S), q # <<>>
  PROVE  /\ LoudIn(Tail(q)) => LoudIn(q)
         /\ Loud(Head(q)) => LoudIn(q)
         /\ \A d : LastPick(q, d) => LastPick(Tail(q), d)
         /\ \A d : /\ LastPick(q, d) /\ Head(q).type = "for"
                   /\ ~Carries(Tail(q), "for")
                   => Head(q).for = d
  <1>1. LoudIn(Tail(q)) => LoudIn(q)
    BY TakenQueue DEF LoudIn
  <1>2. Loud(Head(q)) => LoudIn(q)
    BY TakenQueue DEF LoudIn
  <1>3. ASSUME NEW d, LastPick(q, d), NEW i \in DOMAIN Tail(q), Tail(q)[i].type = "for",
               \A j \in DOMAIN Tail(q) : Tail(q)[j].type = "for" => j <= i
        PROVE  Tail(q)[i].for = d
    <2>1. i \in Nat /\ i + 1 \in DOMAIN q /\ Tail(q)[i] = q[i + 1]
      BY TakenQueue
    <2>2. ASSUME NEW j \in DOMAIN q, q[j].type = "for" PROVE j <= i + 1
      <3>1. CASE j = 1
        BY <2>1, <3>1
      <3>2. CASE j - 1 \in DOMAIN Tail(q) /\ Tail(q)[j - 1] = q[j] /\ j \in Nat
        <4>1. j - 1 <= i
          BY <1>3, <2>2, <3>2
        <4> QED
          BY <2>1, <3>2, <4>1
      <3> QED
        BY <3>1, <3>2, TakenQueue
    <2> QED
      BY <1>3, <2>1, <2>2 DEF LastPick
  <1>4. ASSUME NEW d, LastPick(q, d), Head(q).type = "for", ~Carries(Tail(q), "for")
        PROVE  Head(q).for = d
    <2>1. 1 \in DOMAIN q /\ Head(q) = q[1]
      BY TakenQueue
    <2>2. ASSUME NEW j \in DOMAIN q, q[j].type = "for" PROVE j <= 1
      <3>1. ~(j - 1 \in DOMAIN Tail(q) /\ Tail(q)[j - 1] = q[j])
        BY <1>4, <2>2 DEF Carries
      <3>2. j = 1
        BY <3>1, TakenQueue
      <3> QED
        BY <3>2
    <2> QED
      BY <1>4, <2>1, <2>2 DEF LastPick
  <1> QED
    BY <1>1, <1>2, <1>3, <1>4 DEF LastPick

LEMMA GrownTold ==
  ASSUME NEW S, NEW q \in Seq(S), NEW m \in S
  PROVE  /\ \A type, n : Has(Append(q, m), type, n) <=> Has(q, type, n) \/ Is(m, type, n)
         /\ \A type, n : UpTo(q, type, n) /\ (m.type = type => m.id <= n)
                           => UpTo(Append(q, m), type, n)
         /\ RetryLast(q) /\ (Loud(m) => ~RetryIn(q)) => RetryLast(Append(q, m))
         /\ \A n : AloneIn(q, n) /\ ~Loud(m) => AloneIn(Append(q, m), n)
         /\ \A n : ~LoudIn(q) => AloneIn(Append(q, m), n)
         /\ ApproveLast(q) /\ (m.type = "for" => ~Carries(q, "approve"))
              => ApproveLast(Append(q, m))
         /\ \A n : ValueLast(q, n) /\ (m.type = "for" => ~Has(q, "value", n))
                     => ValueLast(Append(q, m), n)
  <1>1. ASSUME NEW type, NEW n
        PROVE  Has(Append(q, m), type, n) <=> Has(q, type, n) \/ Is(m, type, n)
    <2>1. Has(Append(q, m), type, n) => Has(q, type, n) \/ Is(m, type, n)
      BY GrownQueue DEF Has
    <2>2. Has(q, type, n) \/ Is(m, type, n) => Has(Append(q, m), type, n)
      BY GrownQueue DEF Has
    <2> QED
      BY <2>1, <2>2
  <1>2. ASSUME NEW type, NEW n, UpTo(q, type, n), m.type = type => m.id <= n
        PROVE  UpTo(Append(q, m), type, n)
    BY <1>2, GrownQueue DEF UpTo
  <1>3. ASSUME RetryLast(q), Loud(m) => ~RetryIn(q),
               NEW i \in DOMAIN Append(q, m), NEW j \in DOMAIN Append(q, m),
               Append(q, m)[i].retry, Loud(Append(q, m)[j])
        PROVE  j <= i
    <2>1. CASE i \in DOMAIN q /\ Append(q, m)[i] = q[i]
      <3>1. ~Loud(m)
        BY <1>3, <2>1 DEF RetryIn
      <3>2. j \in DOMAIN q /\ Append(q, m)[j] = q[j]
        BY <1>3, <3>1, GrownQueue
      <3> QED
        BY <1>3, <2>1, <3>2 DEF RetryLast
    <2>2. CASE i = Len(q) + 1
      <3>1. j \in 1..(Len(q) + 1) /\ Len(q) \in Nat
        BY GrownQueue
      <3> QED
        BY <2>2, <3>1
    <2> QED
      BY <2>1, <2>2, GrownQueue
  <1>4. ASSUME NEW n, AloneIn(q, n), ~Loud(m),
               NEW i \in DOMAIN Append(q, m), NEW j \in DOMAIN Append(q, m),
               Is(Append(q, m)[i], "prompt", n), Loud(Append(q, m)[j])
        PROVE  i = j
    <2>1. Loud(Append(q, m)[i])
      BY <1>4 DEF Is, Loud
    <2>2. i \in DOMAIN q /\ Append(q, m)[i] = q[i] /\ j \in DOMAIN q /\ Append(q, m)[j] = q[j]
      BY <1>4, <2>1, GrownQueue
    <2> QED
      BY <1>4, <2>2 DEF AloneIn
  <1>5. ASSUME NEW n, ~LoudIn(q),
               NEW i \in DOMAIN Append(q, m), NEW j \in DOMAIN Append(q, m),
               Is(Append(q, m)[i], "prompt", n), Loud(Append(q, m)[j])
        PROVE  i = j
    <2>1. Loud(Append(q, m)[i])
      BY <1>5 DEF Is, Loud
    <2>2. i = Len(q) + 1 /\ j = Len(q) + 1
      BY <1>5, <2>1, GrownQueue DEF LoudIn
    <2> QED
      BY <2>2
  <1>6. ASSUME ApproveLast(q), m.type = "for" => ~Carries(q, "approve"),
               NEW i \in DOMAIN Append(q, m), NEW j \in DOMAIN Append(q, m),
               Append(q, m)[i].type = "approve", Append(q, m)[j].type = "for"
        PROVE  j < i
    <2>1. CASE i \in DOMAIN q /\ Append(q, m)[i] = q[i]
      <3>1. m.type # "for"
        BY <1>6, <2>1 DEF Carries
      <3>2. j \in DOMAIN q /\ Append(q, m)[j] = q[j]
        BY <1>6, <3>1, GrownQueue
      <3> QED
        BY <1>6, <2>1, <3>2 DEF ApproveLast
    <2>2. CASE i = Len(q) + 1 /\ Append(q, m)[i] = m
      <3>1. j \in 1..Len(q) /\ Len(q) \in Nat
        BY <1>6, <2>2, GrownQueue
      <3> QED
        BY <2>2, <3>1
    <2> QED
      BY <2>1, <2>2, GrownQueue
  <1>7. ASSUME NEW n, ValueLast(q, n), m.type = "for" => ~Has(q, "value", n),
               NEW i \in DOMAIN Append(q, m), NEW j \in DOMAIN Append(q, m),
               Is(Append(q, m)[i], "value", n), Append(q, m)[j].type = "for"
        PROVE  j < i
    <2>1. CASE i \in DOMAIN q /\ Append(q, m)[i] = q[i]
      <3>1. m.type # "for"
        BY <1>7, <2>1 DEF Has
      <3>2. j \in DOMAIN q /\ Append(q, m)[j] = q[j]
        BY <1>7, <3>1, GrownQueue
      <3> QED
        BY <1>7, <2>1, <3>2 DEF ValueLast
    <2>2. CASE i = Len(q) + 1 /\ Append(q, m)[i] = m
      <3>1. m.type # "for"
        BY <1>7, <2>2 DEF Is
      <3>2. j \in 1..Len(q) /\ Len(q) \in Nat
        BY <1>7, <3>1, GrownQueue
      <3> QED
        BY <2>2, <3>2
    <2> QED
      BY <2>1, <2>2, GrownQueue
  <1> QED
    BY <1>1, <1>2, <1>3, <1>4, <1>5, <1>6, <1>7
    DEF RetryLast, AloneIn, ApproveLast, ValueLast

LEMMA TakenTold ==
  ASSUME NEW S, NEW q \in Seq(S), q # <<>>
  PROVE  /\ \A type, n : Has(q, type, n) <=> Is(Head(q), type, n) \/ Has(Tail(q), type, n)
         /\ \A type, n : UpTo(q, type, n)
              => UpTo(Tail(q), type, n) /\ (Head(q).type = type => Head(q).id <= n)
         /\ RetryLast(q) => RetryLast(Tail(q)) /\ (Head(q).retry => ~LoudIn(Tail(q)))
         /\ \A n : AloneIn(q, n)
              => AloneIn(Tail(q), n) /\ (Is(Head(q), "prompt", n) => ~LoudIn(Tail(q)))
         /\ \A n : AloneIn(q, n) /\ Has(Tail(q), "prompt", n) => ~Loud(Head(q))
         /\ ApproveLast(q) => /\ ApproveLast(Tail(q))
                              /\ Head(q).type = "approve" => ~Carries(Tail(q), "for")
         /\ \A n : ValueLast(q, n)
              => /\ ValueLast(Tail(q), n)
                 /\ Is(Head(q), "value", n) => ~Carries(Tail(q), "for")
  <1>0. /\ \A i \in DOMAIN Tail(q) :
             i \in Nat \ {0} /\ i + 1 \in DOMAIN q /\ Tail(q)[i] = q[i + 1]
        /\ 1 \in DOMAIN q /\ Head(q) = q[1]
    BY TakenQueue
  <1>1. ASSUME NEW type, NEW n
        PROVE  Has(q, type, n) <=> Is(Head(q), type, n) \/ Has(Tail(q), type, n)
    <2>1. ASSUME NEW i \in DOMAIN q, Is(q[i], type, n)
          PROVE  Is(Head(q), type, n) \/ Has(Tail(q), type, n)
      <3>1. CASE i = 1
        BY <2>1, <3>1, <1>0
      <3>2. CASE i - 1 \in DOMAIN Tail(q) /\ Tail(q)[i - 1] = q[i]
        BY <2>1, <3>2 DEF Has
      <3> QED
        BY <3>1, <3>2, TakenQueue
    <2>2. Is(Head(q), type, n) \/ Has(Tail(q), type, n) => Has(q, type, n)
      BY <1>0 DEF Has
    <2> QED
      BY <2>1, <2>2 DEF Has
  <1>2. ASSUME NEW type, NEW n, UpTo(q, type, n)
        PROVE  UpTo(Tail(q), type, n) /\ (Head(q).type = type => Head(q).id <= n)
    BY <1>2, <1>0 DEF UpTo
  <1>3. ASSUME RetryLast(q)
        PROVE  RetryLast(Tail(q)) /\ (Head(q).retry => ~LoudIn(Tail(q)))
    <2>1. ASSUME NEW i \in DOMAIN Tail(q), NEW j \in DOMAIN Tail(q),
                 Tail(q)[i].retry, Loud(Tail(q)[j])
          PROVE  j <= i
      <3>1. i \in Nat /\ j \in Nat /\ j + 1 <= i + 1
        BY <1>3, <2>1, <1>0 DEF RetryLast
      <3> QED
        BY <3>1
    <2>2. ASSUME Head(q).retry, NEW j \in DOMAIN Tail(q), Loud(Tail(q)[j])
          PROVE  FALSE
      <3>1. j \in Nat \ {0} /\ j + 1 <= 1
        BY <1>3, <2>2, <1>0 DEF RetryLast
      <3> QED
        BY <3>1
    <2> QED
      BY <2>1, <2>2 DEF RetryLast, LoudIn
  <1>4. ASSUME NEW n, AloneIn(q, n)
        PROVE  AloneIn(Tail(q), n) /\ (Is(Head(q), "prompt", n) => ~LoudIn(Tail(q)))
    <2>1. ASSUME NEW i \in DOMAIN Tail(q), NEW j \in DOMAIN Tail(q),
                 Is(Tail(q)[i], "prompt", n), Loud(Tail(q)[j])
          PROVE  i = j
      <3>1. i \in Nat /\ j \in Nat /\ j + 1 = i + 1
        BY <1>4, <2>1, <1>0 DEF AloneIn
      <3> QED
        BY <3>1
    <2>2. ASSUME Is(Head(q), "prompt", n), NEW j \in DOMAIN Tail(q), Loud(Tail(q)[j])
          PROVE  FALSE
      <3>1. j \in Nat \ {0} /\ j + 1 = 1
        BY <1>4, <2>2, <1>0 DEF AloneIn
      <3> QED
        BY <3>1
    <2> QED
      BY <2>1, <2>2 DEF AloneIn, LoudIn
  <1>5. ASSUME NEW n, AloneIn(q, n), Has(Tail(q), "prompt", n), Loud(Head(q))
        PROVE  FALSE
    <2>1. PICK i \in DOMAIN Tail(q) : Is(Tail(q)[i], "prompt", n)
      BY <1>5 DEF Has
    <2>2. i \in Nat \ {0} /\ i + 1 = 1
      BY <1>5, <2>1, <1>0 DEF AloneIn
    <2> QED
      BY <2>2
  <1>6. ASSUME ApproveLast(q)
        PROVE  ApproveLast(Tail(q)) /\ (Head(q).type = "approve" => ~Carries(Tail(q), "for"))
    <2>1. ASSUME NEW i \in DOMAIN Tail(q), NEW j \in DOMAIN Tail(q),
                 Tail(q)[i].type = "approve", Tail(q)[j].type = "for"
          PROVE  j < i
      <3>1. i \in Nat /\ j \in Nat /\ j + 1 < i + 1
        BY <1>6, <2>1, <1>0 DEF ApproveLast
      <3> QED
        BY <3>1
    <2>2. ASSUME Head(q).type = "approve", NEW j \in DOMAIN Tail(q), Tail(q)[j].type = "for"
          PROVE  FALSE
      <3>1. j \in Nat \ {0} /\ j + 1 < 1
        BY <1>6, <2>2, <1>0 DEF ApproveLast
      <3> QED
        BY <3>1
    <2> QED
      BY <2>1, <2>2 DEF ApproveLast, Carries
  <1>7. ASSUME NEW n, ValueLast(q, n)
        PROVE  ValueLast(Tail(q), n) /\ (Is(Head(q), "value", n) => ~Carries(Tail(q), "for"))
    <2>1. ASSUME NEW i \in DOMAIN Tail(q), NEW j \in DOMAIN Tail(q),
                 Is(Tail(q)[i], "value", n), Tail(q)[j].type = "for"
          PROVE  j < i
      <3>1. i \in Nat /\ j \in Nat /\ j + 1 < i + 1
        BY <1>7, <2>1, <1>0 DEF ValueLast
      <3> QED
        BY <3>1
    <2>2. ASSUME Is(Head(q), "value", n), NEW j \in DOMAIN Tail(q), Tail(q)[j].type = "for"
          PROVE  FALSE
      <3>1. j \in Nat \ {0} /\ j + 1 < 1
        BY <1>7, <2>2, <1>0 DEF ValueLast
      <3> QED
        BY <3>1
    <2> QED
      BY <2>1, <2>2 DEF ValueLast, Carries
  <1> QED
    BY <1>1, <1>2, <1>3, <1>4, <1>5, <1>6, <1>7

\* A step that shows the page nothing new to answer or press, takes no reply
\* and starts no unlock.
Still ==
  /\ sess'.approve = sess.approve /\ sess'.values = sess.values
  /\ sess'.promptID = sess.promptID /\ sess'.forSecs = sess.forSecs
  /\ win'.prompt = win.prompt /\ win'.retry = win.retry /\ win'.busy = win.busy
  /\ win'.picked = win.picked /\ win'.confirm = win.confirm
  /\ (Usable' => Usable) /\ (win'.up => win.up)
  /\ fromWin' = fromWin \/ fromWin' = Append(fromWin, Reply("deny"))
  /\ \/ toWin' = toWin
     \/ \E m \in Messages : GoodMessage(m) /\ ~Loud(m) /\ toWin' = Append(toWin, m)
  /\ main'.wait = main.wait
  /\ local.st = "none" => local'.st = "none"
  /\ Unlocked' => Unlocked /\ local'.answer \in {local.answer, "none"}
  /\ local'.st = "ok" => By \in {"click", "touch"} \/ local'.answer # "none"
  /\ local'.st = "ask" => local.st = "ask" /\ local'.id = local.id
  /\ main'.pc \in {"select", "unlockWith", "approved"} => main'.held = 0
  /\ main'.via = Window =>
       /\ main.via = Window /\ main'.ttl = main.ttl
       /\ main'.pc = "approved" <=> main.pc = "approved"
       /\ main'.pc \in {"approved", "granting", "finish", "exited"}

\* The other steps.
Turns ==
  \/ ReadWindow \/ UnlockAsks \/ UnlockHears \/ TakeDesktop \/ OfferRetry
  \/ TakeApprove \/ ReadDuration \/ WindowShows \/ PressApprove \/ AnswerPrompt
  \/ \E d \in Choices : PickInWindow(d)

LEMMA StillSessions ==
  TypeOK /\ SilentOK /\ ButtonOK /\ PickOK /\ Sessions => Still \/ ReadWindow
  <1> SUFFICES ASSUME TypeOK, SilentOK, ButtonOK, PickOK, Sessions, ~ReadWindow
               PROVE  Still
    OBVIOUS
  <1>1. ~ReadPhone
    BY DEF SilentOK, ReadPhone
  <1>2. /\ sess'.approve = sess.approve /\ sess'.values = sess.values
        /\ sess'.promptID = sess.promptID /\ sess'.forSecs = sess.forSecs
    BY <1>1 DEF Sessions, WindowGone, StopPolling, DeadlinePasses, End, TypeOK, SessType
  <1>3. UNCHANGED <<main, local, win, toWin, fromWin>>
    BY <1>1 DEF Sessions, WindowGone, StopPolling, DeadlinePasses, winVars
  <1> QED
    BY <1>2, <1>3 DEF Still, Usable, Unlocked, ButtonOK, PickOK

LEMMA StillUnlocking ==
  TypeOK /\ ButtonOK /\ PickOK /\ Unlocking => Still \/ UnlockAsks \/ UnlockHears
  <1> SUFFICES ASSUME TypeOK, ButtonOK, PickOK, Unlocking, ~UnlockAsks, ~UnlockHears
               PROVE  Still
    OBVIOUS
  <1>0. local \in LocalType
    BY DEF TypeOK
  <1>1. UNCHANGED <<sess, main, win, toWin, fromWin>>
    BY DEF Unlocking, UnlockAborts, UnlockOpens, UnlockFails, winVars
  <1>2. local'.answer = local.answer /\ local'.id = local.id
    BY <1>0 DEF Unlocking, UnlockAborts, UnlockOpens, UnlockFails, LocalType
  <1>3. CASE UnlockAborts
    <2>1. local.st = "ask" /\ local'.st = "aborted"
      BY <1>0, <1>3 DEF UnlockAborts, LocalType
    <2> QED
      BY <1>1, <1>2, <2>1 DEF Still, Usable, Unlocked, ButtonOK, PickOK
  <1>4. CASE UnlockOpens
    <2>1. local.st = "run" /\ local'.st = "ok" /\ Proven
      BY <1>0, <1>4 DEF UnlockOpens, LocalType
    <2>2. By \in {"click", "touch"} \/ local'.answer # "none"
      BY <1>2, <2>1 DEF Proven
    <2> QED
      BY <1>1, <1>2, <2>1, <2>2 DEF Still, Usable, Unlocked, ButtonOK, PickOK
  <1>5. CASE UnlockFails
    <2>1. local.st = "run" /\ local'.st \in {"failed", "wrong"}
      BY <1>0, <1>5 DEF UnlockFails, LocalType
    <2> QED
      BY <1>1, <1>2, <2>1 DEF Still, Usable, Unlocked, ButtonOK, PickOK
  <1> QED
    BY <1>3, <1>4, <1>5 DEF Unlocking

LEMMA DoneSays ==
  Message("done") \in Messages /\ GoodMessage(Message("done")) /\ ~Loud(Message("done"))
    /\ ~Loud(Message("status"))
  BY MessageType DEF Message, GoodMessage, Loud

LEMMA StillApprover ==
  TypeOK /\ SilentOK /\ ButtonOK /\ PickOK /\ Approver
    => Still \/ TakeDesktop \/ OfferRetry \/ TakeApprove \/ ReadDuration
  <1> SUFFICES ASSUME TypeOK, SilentOK, ButtonOK, PickOK, Approver, ~TakeDesktop,
                      ~OfferRetry, ~TakeApprove, ~ReadDuration
               PROVE  Still
    OBVIOUS
  <1>0. /\ main \in MainType /\ local \in LocalType /\ ~TakePhone
        /\ NoUnlock.st = "none" /\ Running.st = "run" /\ Running.answer = "none"
    BY DEF TypeOK, SilentOK, TakePhone, NoUnlock, Running
  <1>1. /\ sess'.approve = sess.approve /\ sess'.values = sess.values
        /\ sess'.promptID = sess.promptID /\ sess'.forSecs = sess.forSecs
    <2>1. CASE Finish
      BY <2>1 DEF Finish, End, TypeOK, SessType
    <2>2. CASE sess' = sess
      BY <2>2
    <2> QED
      BY <1>0, <2>1, <2>2
      DEF Approver, GiveUp, AskAgain, PhoneOpens, PhoneRefused, TakeEnd, GrantNext,
          GrantFails, AllGranted
  <1>2. win' = win /\ fromWin' = fromWin
    BY <1>0 DEF Approver, GiveUp, AskAgain, PhoneOpens, PhoneRefused, TakeEnd, GrantNext,
          GrantFails, AllGranted, Finish, winVars
  <1>3. \/ toWin' = toWin
        \/ \E m \in Messages : GoodMessage(m) /\ ~Loud(m) /\ toWin' = Append(toWin, m)
    <2>1. CASE AskAgain \/ PhoneRefused
      BY <2>1, StatusSays, DoneSays DEF AskAgain, PhoneRefused, Shown
    <2>2. CASE Finish
      BY <2>2, DoneSays DEF Finish, Shown
    <2>3. CASE toWin' = toWin
      BY <2>3
    <2> QED
      BY <1>0, <2>1, <2>2, <2>3
      DEF Approver, GiveUp, PhoneOpens, TakeEnd, GrantNext, GrantFails, AllGranted, winVars
  <1>4. /\ local.st = "none" => local'.st = "none"
        /\ Unlocked' => Unlocked /\ local'.answer \in {local.answer, "none"}
        /\ local'.st = "ok" => By \in {"click", "touch"} \/ local'.answer # "none"
        /\ local'.st = "ask" => local.st = "ask" /\ local'.id = local.id
    <2>1. CASE GiveUp
      BY <1>0, <2>1 DEF GiveUp, Unlocked
    <2>2. CASE AskAgain
      BY <1>0, <2>2 DEF AskAgain, Unlocked
    <2>3. CASE local' = local
      BY <2>3 DEF Unlocked, PickOK
    <2> QED
      BY <1>0, <2>1, <2>2, <2>3
      DEF Approver, PhoneOpens, PhoneRefused, TakeEnd, GrantNext, GrantFails, AllGranted,
          Finish
  <1>5. /\ main'.wait = main.wait
        /\ main'.pc \in {"select", "unlockWith", "approved"} => main'.held = 0
        /\ main'.via = Window =>
             /\ main.via = Window /\ main'.ttl = main.ttl
             /\ main'.pc = "approved" <=> main.pc = "approved"
             /\ main'.pc \in {"approved", "granting", "finish", "exited"}
    <2>0. main.pu # Window
      BY <1>0, ApprovalAssumption DEF MainType
    <2>1. CASE GiveUp \/ AskAgain \/ TakeEnd
      <3>1. Selecting /\ main'.wait = main.wait /\ main'.via = main.via /\ main'.held = main.held
        BY <1>0, <2>1 DEF GiveUp, AskAgain, TakeEnd, MainType
      <3> QED
        BY <3>1 DEF Selecting, ButtonOK, PickOK
    <2>2. CASE PhoneOpens
      <3>1. main'.wait = main.wait /\ main'.via = main.pu /\ main'.held = main.held
            /\ main.pc = "unlockWith"
        BY <1>0, <2>2 DEF PhoneOpens, MainType
      <3> QED
        BY <2>0, <3>1 DEF PickOK
    <2>3. CASE PhoneRefused
      <3>1. main'.wait = main.wait /\ main'.via = main.via /\ main'.held = main.held
            /\ main.pc = "unlockWith"
        BY <1>0, <2>3 DEF PhoneRefused, MainType
      <3> QED
        BY <3>1 DEF ButtonOK, PickOK
    <2>4. CASE GrantNext \/ GrantFails \/ AllGranted \/ Finish
      <3>1. /\ main'.wait = main.wait /\ main'.via = main.via /\ main'.ttl = main.ttl
            /\ main.pc # "approved" /\ main'.pc \in {"granting", "finish", "exited"}
        BY <1>0, <2>4 DEF GrantNext, GrantFails, AllGranted, Finish, MainType
      <3> QED
        BY <3>1
    <2> QED
      BY <1>0, <2>1, <2>2, <2>3, <2>4 DEF Approver
  <1> QED
    BY <1>1, <1>2, <1>3, <1>4, <1>5 DEF Still, Usable

\* A post counts.
LEMMA PhonesSpeak ==
  ASSUME TypeOK,
         \E p \in Phones :
           DenyOnPhone(p) \/ ApproveOnPhone(p) \/ \E d \in Choices : PickOnPhone(p, d)
  PROVE  ~Silent'
  <1>0. phone \in [Phones -> PhoneType]
    BY DEF TypeOK
  <1>1. PICK p \in Phones :
          DenyOnPhone(p) \/ ApproveOnPhone(p) \/ \E d \in Choices : PickOnPhone(p, d)
    OBVIOUS
  <1>2. phone[p] \in PhoneType
    BY <1>0
  <1>3. phone'[p].sent = phone[p].sent + 1
    <2>1. CASE DenyOnPhone(p)
      BY <1>0, <1>2, <2>1 DEF DenyOnPhone, PhoneType
    <2>2. CASE ApproveOnPhone(p)
      BY <1>0, <1>2, <2>2 DEF ApproveOnPhone, PhoneType
    <2>3. CASE \E d \in Choices : PickOnPhone(p, d)
      <3>1. PICK d \in Choices :
              phone' = [phone EXCEPT ![p].picked = d, ![p].sent = @ + 1]
        BY <2>3 DEF PickOnPhone
      <3> QED
        BY <1>0, <1>2, <3>1 DEF PhoneType
    <2> QED
      BY <1>1, <2>1, <2>2, <2>3
  <1>4. phone[p].sent \in Nat
    BY <1>2 DEF PhoneType
  <1> QED
    BY <1>3, <1>4 DEF Silent

LEMMA StillHuman ==
  TypeOK /\ ButtonOK /\ PickOK /\ ~Confirms /\ Silent' /\ Human => Still \/ Turns
  <1> SUFFICES ASSUME TypeOK, ButtonOK, PickOK, ~Confirms, Silent', Human, ~Turns
               PROVE  Still
    OBVIOUS
  <1>0. win \in WinType /\ local \in LocalType
    BY DEF TypeOK
  <1>1. ~AnswerConfirm
    BY DEF AnswerConfirm, ButtonOK
  <1>2. ASSUME \E p \in Phones :
                 DenyOnPhone(p) \/ ApproveOnPhone(p) \/ \E d \in Choices : PickOnPhone(p, d)
        PROVE  FALSE
    BY <1>2, PhonesSpeak
  <1>a. DenyInWindow \/ CloseWindow \/ WindowDies \/ Touch
    BY <1>1, <1>2 DEF Human, Turns
  <1>3. UNCHANGED <<sess, main, toWin>>
    BY <1>a DEF DenyInWindow, CloseWindow, WindowDies, Touch, winVars
  <1>4. /\ win'.prompt = win.prompt /\ win'.retry = win.retry /\ win'.busy = win.busy
        /\ win'.picked = win.picked /\ win'.confirm = win.confirm
        /\ (Usable' => Usable) /\ (win'.up => win.up)
    <2>1. CASE DenyInWindow
      BY <1>0, <2>1 DEF DenyInWindow, WinType, Usable
    <2>2. CASE CloseWindow
      BY <1>0, <2>2 DEF CloseWindow, WinType, Usable
    <2>3. CASE WindowDies
      BY <1>0, <2>3 DEF WindowDies, WinType, Usable
    <2>4. CASE Touch
      BY <2>4 DEF Touch, winVars, Usable
    <2> QED
      BY <1>a, <2>1, <2>2, <2>3, <2>4
  <1>5. fromWin' = fromWin \/ fromWin' = Append(fromWin, Reply("deny"))
    BY <1>a DEF DenyInWindow, CloseWindow, WindowDies, Touch, winVars
  <1>6. local'.st = local.st /\ local'.answer = local.answer /\ local'.id = local.id
    BY <1>0, <1>a DEF DenyInWindow, CloseWindow, WindowDies, Touch, LocalType
  <1> QED
    BY <1>3, <1>4, <1>5, <1>6 DEF Still, Unlocked, ButtonOK, PickOK

LEMMA StillSteps ==
  TypeOK /\ SilentOK /\ ButtonOK /\ PickOK /\ ~Confirms /\ Silent' /\ [Next]_vars
    => Still \/ Turns
  <1> SUFFICES ASSUME TypeOK, SilentOK, ButtonOK, PickOK, ~Confirms, Silent', [Next]_vars,
                      ~Turns
               PROVE  Still
    OBVIOUS
  <1>1. CASE PageExits
    <2>1. /\ win'.prompt = win.prompt /\ win'.retry = win.retry /\ win'.busy = win.busy
          /\ win'.picked = win.picked /\ win'.confirm = win.confirm /\ win'.up = FALSE
      BY <1>1 DEF PageExits, TypeOK, WinType
    <2>2. UNCHANGED <<sess, main, local, toWin, fromWin>>
      BY <1>1 DEF PageExits
    <2> QED
      BY <2>1, <2>2 DEF Still, Usable, Unlocked, ButtonOK, PickOK
  <1>2. CASE UNCHANGED vars
    BY <1>2 DEF vars, winVars, Still, Usable, Unlocked, ButtonOK, PickOK
  <1>3. ~Server
    BY DEF Server, SilentOK
  <1> QED
    BY <1>1, <1>2, <1>3, StillSessions, StillUnlocking, StillApprover, StillHuman
    DEF Next, Turns


\* The window's messages and replies after such a step.
LEMMA StillMessages ==
  TypeOK /\ Still =>
    /\ LoudIn(toWin') => LoudIn(toWin)
    /\ RetryIn(toWin') <=> RetryIn(toWin)
    /\ (\A i \in DOMAIN toWin : GoodMessage(toWin[i]))
         => \A i \in DOMAIN toWin' : GoodMessage(toWin'[i])
    /\ RetryLast(toWin) => RetryLast(toWin')
    /\ \A n : /\ Has(toWin', "prompt", n) => Has(toWin, "prompt", n)
              /\ UpTo(toWin, "prompt", n) => UpTo(toWin', "prompt", n)
              /\ AloneIn(toWin, n) => AloneIn(toWin', n)
  <1> SUFFICES ASSUME TypeOK, NEW m \in Messages, GoodMessage(m), ~Loud(m),
                      toWin' = Append(toWin, m)
               PROVE
    /\ LoudIn(toWin') => LoudIn(toWin)
    /\ RetryIn(toWin') <=> RetryIn(toWin)
    /\ (\A i \in DOMAIN toWin : GoodMessage(toWin[i]))
         => \A i \in DOMAIN toWin' : GoodMessage(toWin'[i])
    /\ RetryLast(toWin) => RetryLast(toWin')
    /\ \A n : /\ Has(toWin', "prompt", n) => Has(toWin, "prompt", n)
              /\ UpTo(toWin, "prompt", n) => UpTo(toWin', "prompt", n)
              /\ AloneIn(toWin, n) => AloneIn(toWin', n)
    BY DEF Still
  <1>1. toWin \in Seq(Messages) /\ ~m.retry /\ m.type # "prompt"
    BY DEF TypeOK, Loud
  <1>2. (LoudIn(toWin') => LoudIn(toWin)) /\ (RetryIn(toWin') <=> RetryIn(toWin))
    BY <1>1, GrownPicks, GrownRetry
  <1>3. (\A i \in DOMAIN toWin : GoodMessage(toWin[i]))
          => \A i \in DOMAIN toWin' : GoodMessage(toWin'[i])
    BY <1>1, GoodMessages
  <1>4. RetryLast(toWin) => RetryLast(toWin')
    BY <1>1, GrownTold
  <1>5. ASSUME NEW n
        PROVE  /\ Has(toWin', "prompt", n) => Has(toWin, "prompt", n)
               /\ UpTo(toWin, "prompt", n) => UpTo(toWin', "prompt", n)
               /\ AloneIn(toWin, n) => AloneIn(toWin', n)
    <2>1. ~Is(m, "prompt", n)
      BY <1>1 DEF Is
    <2> QED
      BY <1>1, <2>1, GrownTold
  <1> QED
    BY <1>2, <1>3, <1>4, <1>5

LEMMA StillReplies ==
  TypeOK /\ Still =>
    /\ Carries(fromWin', "approve") <=> Carries(fromWin, "approve")
    /\ Carries(fromWin', "for") <=> Carries(fromWin, "for")
    /\ Once(fromWin, "approve") => Once(fromWin', "approve")
    /\ ApproveLast(fromWin) => ApproveLast(fromWin')
    /\ \A d : LastPick(fromWin, d) => LastPick(fromWin', d)
    /\ \A n : /\ Has(fromWin', "value", n) => Has(fromWin, "value", n)
              /\ UpTo(fromWin, "value", n) => UpTo(fromWin', "value", n)
              /\ ValueLast(fromWin, n) => ValueLast(fromWin', n)
  <1> SUFFICES ASSUME TypeOK, NEW m \in Replies, m.type = "deny", fromWin' = Append(fromWin, m)
               PROVE
    /\ Carries(fromWin', "approve") <=> Carries(fromWin, "approve")
    /\ Carries(fromWin', "for") <=> Carries(fromWin, "for")
    /\ Once(fromWin, "approve") => Once(fromWin', "approve")
    /\ ApproveLast(fromWin) => ApproveLast(fromWin')
    /\ \A d : LastPick(fromWin, d) => LastPick(fromWin', d)
    /\ \A n : /\ Has(fromWin', "value", n) => Has(fromWin, "value", n)
              /\ UpTo(fromWin, "value", n) => UpTo(fromWin', "value", n)
              /\ ValueLast(fromWin, n) => ValueLast(fromWin', n)
    <2>1. Reply("deny") \in Replies /\ Reply("deny").type = "deny"
      BY ReplyType DEF Reply
    <2> QED
      BY <2>1 DEF Still
  <1>1. fromWin \in Seq(Replies) /\ m.type \notin {"approve", "for", "value"}
    BY DEF TypeOK
  <1>2. /\ Carries(fromWin', "approve") <=> Carries(fromWin, "approve")
        /\ Carries(fromWin', "for") <=> Carries(fromWin, "for")
        /\ Once(fromWin, "approve") => Once(fromWin', "approve")
    BY <1>1, GrownTypes
  <1>3. ApproveLast(fromWin) => ApproveLast(fromWin')
    BY <1>1, GrownTold
  <1>4. \A d : LastPick(fromWin, d) => LastPick(fromWin', d)
    BY <1>1, GrownPicks
  <1>5. ASSUME NEW n
        PROVE  /\ Has(fromWin', "value", n) => Has(fromWin, "value", n)
               /\ UpTo(fromWin, "value", n) => UpTo(fromWin', "value", n)
               /\ ValueLast(fromWin, n) => ValueLast(fromWin', n)
    <2>1. ~Is(m, "value", n)
      BY <1>1 DEF Is
    <2> QED
      BY <1>1, <2>1, GrownTold
  <1> QED
    BY <1>2, <1>3, <1>4, <1>5

\* A step after which the page is no freer keeps what was settled.
LEMMA StillSettled ==
  TypeOK /\ Still => /\ Kept => Kept'
                     /\ Settled => Settled'
                     /\ Clear => Clear'
  <1> SUFFICES ASSUME TypeOK, Still
               PROVE  (Kept => Kept') /\ (Settled => Settled') /\ (Clear => Clear')
    OBVIOUS
  <1>1. /\ win'.busy = win.busy /\ win'.prompt = win.prompt /\ win'.retry = win.retry
        /\ (Usable' => Usable)
    BY DEF Still
  <1>2. LoudIn(toWin') => LoudIn(toWin)
    BY StillMessages
  <1>3. Carries(fromWin', "for") <=> Carries(fromWin, "for")
    BY StillReplies
  <1>4. (Kept => Kept') /\ (Clear => Clear')
    BY <1>1, <1>2 DEF Kept, Clear
  <1> QED
    BY <1>3, <1>4 DEF Settled

LEMMA StillButton == TypeOK /\ Still /\ ButtonOK => ButtonOK'
  <1> SUFFICES ASSUME TypeOK, Still, ButtonOK PROVE ButtonOK'
    OBVIOUS
  <1>1. /\ sess'.approve = sess.approve /\ main'.wait = main.wait
        /\ win'.prompt = win.prompt /\ win'.retry = win.retry /\ win'.busy = win.busy
        /\ win'.confirm = win.confirm /\ (Usable' => Usable) /\ (win'.up => win.up)
        /\ (local.st = "none" => local'.st = "none")
    BY DEF Still
  <1>2. /\ LoudIn(toWin') => LoudIn(toWin)
        /\ RetryIn(toWin') <=> RetryIn(toWin)
        /\ \A i \in DOMAIN toWin' : GoodMessage(toWin'[i])
        /\ RetryLast(toWin) => RetryLast(toWin')
    BY StillMessages DEF ButtonOK
  <1>3. /\ Carries(fromWin', "approve") <=> Carries(fromWin, "approve")
        /\ Once(fromWin', "approve")
    BY StillReplies DEF ButtonOK
  <1>4. (Ready' => Ready) /\ (Pressed' <=> Pressed)
    BY <1>1, <1>3 DEF Ready, Pressed
  <1>5. main'.via = Window
          => main'.pc \in {"approved", "granting", "finish", "exited"} /\ local'.st = "none"
    BY DEF Still, ButtonOK
  <1> QED
    BY <1>1, <1>2, <1>3, <1>4, <1>5 DEF ButtonOK

LEMMA StillAsk == TypeOK /\ Still /\ AskOK => AskOK'
  <1> SUFFICES ASSUME TypeOK, Still, AskOK PROVE AskOK'
    OBVIOUS
  <1>1. /\ sess'.values = sess.values /\ sess'.promptID = sess.promptID
        /\ win'.prompt = win.prompt /\ win'.retry = win.retry /\ win'.busy = win.busy
        /\ (Usable' => Usable) /\ (Unlocked' => Unlocked)
        /\ (local'.st = "ask" => local.st = "ask" /\ local'.id = local.id)
    BY DEF Still
  <1>2. /\ LoudIn(toWin') => LoudIn(toWin)
        /\ Has(toWin', "prompt", sess.promptID) => Has(toWin, "prompt", sess.promptID)
        /\ UpTo(toWin', "prompt", sess.promptID)
        /\ AloneIn(toWin, sess.promptID) => AloneIn(toWin', sess.promptID)
    BY StillMessages DEF AskOK
  <1>3. /\ Has(fromWin', "value", sess.promptID) => Has(fromWin, "value", sess.promptID)
        /\ UpTo(fromWin', "value", sess.promptID)
    BY StillReplies DEF AskOK
  <1>4. (Kept => Kept') /\ (Clear => Clear') /\ (Heard' <=> Heard)
    BY <1>1, StillSettled DEF Heard
  <1>5. ASSUME local'.st = "ask"
        PROVE  /\ local'.id = sess'.promptID
               /\ Usable' /\ Has(toWin', "prompt", sess'.promptID)
                    => win'.prompt = 0 /\ ~win'.retry /\ AloneIn(toWin', sess'.promptID)
               /\ Usable' /\ win'.prompt = sess'.promptID => ~win'.retry /\ ~LoudIn(toWin')
               /\ Has(fromWin', "value", sess'.promptID) \/ Heard' => Clear' /\ Kept'
    BY <1>1, <1>2, <1>3, <1>4, <1>5 DEF AskOK
  <1>6. ASSUME Unlocked'
        PROVE  Clear' /\ (Usable' /\ By = "click" => win'.busy)
    BY <1>1, <1>4, <1>6 DEF AskOK
  <1> QED
    BY <1>1, <1>2, <1>3, <1>5, <1>6 DEF AskOK

LEMMA StillPick == TypeOK /\ Still /\ By # "touch" /\ PickOK => PickOK'
  <1> SUFFICES ASSUME TypeOK, Still, By # "touch", PickOK PROVE PickOK'
    OBVIOUS
  <1>1. /\ sess'.approve = sess.approve /\ sess'.values = sess.values
        /\ sess'.promptID = sess.promptID /\ sess'.forSecs = sess.forSecs
        /\ win'.picked = win.picked
        /\ Unlocked' => Unlocked /\ local'.answer \in {local.answer, "none"}
        /\ local'.st = "ok" => By = "click" \/ local'.answer # "none"
        /\ local'.st = "ask" => local.st = "ask"
        /\ main'.pc \in {"select", "unlockWith", "approved"} => main'.held = 0
    BY DEF Still
  <1>2. main'.via = Window => main.via = Window /\ main'.ttl = main.ttl
                              /\ (main'.pc = "approved" <=> main.pc = "approved")
    BY DEF Still
  <1>3. /\ Carries(fromWin', "for") <=> Carries(fromWin, "for")
        /\ ApproveLast(fromWin')
        /\ LastPick(fromWin', win.picked)
        /\ ValueLast(fromWin, sess.promptID) => ValueLast(fromWin', sess.promptID)
    BY StillReplies DEF PickOK
  <1>4. (Kept => Kept') /\ (Settled => Settled') /\ (Heard' <=> Heard)
    BY <1>1, StillSettled DEF Heard
  <1>5. ASSUME \/ sess'.approve # <<>>
               \/ Unlocked' /\ (By = "click" \/ local'.answer # "none")
               \/ local'.st = "ask" /\ Heard'
               \/ main'.via = Window /\ main'.pc = "approved"
        PROVE  Settled'
    <2>1. Settled
      BY <1>1, <1>2, <1>4, <1>5 DEF PickOK
    <2> QED
      BY <1>4, <2>1
  <1>6. ASSUME main'.via = Window, main'.pc # "approved"
        PROVE  Kept' /\ main'.ttl = win'.picked
    BY <1>1, <1>2, <1>4, <1>6 DEF PickOK
  <1> QED
    BY <1>1, <1>3, <1>5, <1>6 DEF PickOK

-----------------------------------------------------------------------------
(* The session and the unlock take their turns.                            *)

ShownOK == ButtonOK /\ AskOK /\ PickOK

\* An unlock, and the button, exclude each other.
LEMMA Busied ==
  ButtonOK /\ local.st # "none"
    => ~main.wait /\ ~Pressed /\ main.via # Window /\ (Usable => ~Ready /\ ~RetryIn(toWin))
  BY DEF ButtonOK

LEMMA ShownReadWindow == TypeOK /\ ShownOK /\ ReadWindow => ShownOK'
  <1> SUFFICES ASSUME TypeOK, ButtonOK, AskOK, PickOK, ReadWindow
               PROVE  ButtonOK' /\ AskOK' /\ PickOK'
    BY DEF ShownOK
  <1> DEFINE r == Head(fromWin)
  <1>0. /\ fromWin \in Seq(Replies) /\ fromWin # <<>> /\ fromWin' = Tail(fromWin)
        /\ sess \in SessType /\ sess' = Handled(sess, r)
        /\ UNCHANGED <<main, local, win, toWin>>
    BY DEF TypeOK, ReadWindow
  <1>1. r \in Replies /\ r = fromWin[1] /\ 1 \in DOMAIN fromWin
    BY <1>0
  <1>2. /\ sess'.promptID = sess.promptID
        /\ r.type # "approve" => sess'.approve = sess.approve
        /\ r.type # "for" => sess'.forSecs = sess.forSecs
        /\ r.type = "for" => sess'.forSecs = r.for
    BY <1>0, <1>1 DEF Handled, End, Pick, SessType, Replies
  <1>3. \/ sess'.values = sess.values
        \/ /\ Is(r, "value", sess.promptID)
           /\ sess'.values # <<>> /\ Head(sess'.values).id = sess.promptID
    <2>1. CASE r.type = "value" /\ r.id = sess.promptID /\ sess.values = <<>>
      <3>1. sess' = [sess EXCEPT !.values = <<[id |-> r.id, right |-> r.right]>>]
        BY <1>0, <2>1 DEF Handled
      <3>2. sess'.values = <<[id |-> r.id, right |-> r.right]>>
        BY <1>0, <3>1 DEF SessType
      <3> QED
        BY <2>1, <3>2 DEF Is
    <2>2. CASE ~(r.type = "value" /\ r.id = sess.promptID /\ sess.values = <<>>)
      BY <1>0, <1>1, <2>2 DEF Handled, End, Pick, SessType, Replies
    <2> QED
      BY <2>1, <2>2
  <1>4. /\ Once(fromWin', "approve")
        /\ Carries(fromWin, "approve") <=> r.type = "approve" \/ Carries(fromWin', "approve")
        /\ r.type = "approve" => ~Carries(fromWin', "approve")
        /\ Carries(fromWin, "for") <=> r.type = "for" \/ Carries(fromWin', "for")
    BY <1>0, TakenTypes DEF ButtonOK
  <1>5. /\ Has(fromWin, "value", sess.promptID)
             <=> Is(r, "value", sess.promptID) \/ Has(fromWin', "value", sess.promptID)
        /\ UpTo(fromWin', "value", sess.promptID)
        /\ ApproveLast(fromWin') /\ (r.type = "approve" => ~Carries(fromWin', "for"))
        /\ local.st = "ask" => ValueLast(fromWin', sess.promptID)
        /\ local.st = "ask" /\ Is(r, "value", sess.promptID) => ~Carries(fromWin', "for")
    BY <1>0, TakenTold DEF AskOK, PickOK
  <1>6. /\ LastPick(fromWin', win.picked)
        /\ r.type = "for" /\ ~Carries(fromWin', "for") => r.for = win.picked
    BY <1>0, TakenPicks DEF PickOK
  <1> HIDE DEF r
  <1>7. /\ Pressed' => Pressed
        /\ (Usable' <=> Usable) /\ (Ready' <=> Ready) /\ (Kept' <=> Kept) /\ (Clear' <=> Clear)
        /\ (Unlocked' <=> Unlocked) /\ (Heard' => Heard \/ Is(r, "value", sess.promptID))
        /\ (Settled => Settled')
    BY <1>0, <1>2, <1>3, <1>4
    DEF Pressed, Usable, Ready, Kept, Clear, Settled, Unlocked, Heard
  <1>8. ButtonOK'
    <2>1. sess'.approve # <<>> => ~Carries(fromWin', "approve")
      BY <1>2, <1>4 DEF ButtonOK
    <2> QED
      BY <1>0, <1>4, <1>7, <2>1 DEF ButtonOK
  <1>9. AskOK'
    <2>1. sess'.values # <<>> => Head(sess'.values).id <= sess.promptID
      BY <1>0, <1>3 DEF AskOK, SessType
    <2> QED
      BY <1>0, <1>2, <1>5, <1>7, <2>1 DEF AskOK
  <1>10. PickOK'
    <2>1. ~Carries(fromWin', "for") => sess'.forSecs = win.picked
      BY <1>2, <1>4, <1>6 DEF PickOK
    <2>2. ASSUME sess'.approve # <<>> PROVE Settled'
      <3>1. CASE sess.approve # <<>>
        BY <1>7, <3>1 DEF PickOK
      <3>2. CASE sess.approve = <<>>
        <4>1. r.type = "approve" /\ Pressed
          BY <1>2, <1>4, <2>2, <3>2 DEF Pressed
        <4>2. Kept
          BY <4>1 DEF ButtonOK, Kept
        <4> QED
          BY <1>5, <1>7, <4>1, <4>2 DEF Settled
      <3> QED
        BY <3>1, <3>2
    <2>3. ASSUME local'.st = "ask", Heard' PROVE Settled'
      <3>1. CASE Heard
        BY <1>0, <1>7, <2>3, <3>1 DEF PickOK
      <3>2. CASE Is(r, "value", sess.promptID)
        <4>1. Kept
          BY <1>0, <1>5, <2>3, <3>2 DEF AskOK
        <4> QED
          BY <1>0, <1>5, <1>7, <2>3, <3>2, <4>1 DEF Settled
      <3> QED
        BY <1>7, <2>3, <3>1, <3>2
    <2> QED
      BY <1>0, <1>2, <1>5, <1>6, <1>7, <2>1, <2>2, <2>3 DEF PickOK
  <1> QED
    BY <1>8, <1>9, <1>10

LEMMA HeadIn ==
  ASSUME NEW S, NEW q \in Seq(S), q # <<>>
  PROVE  Head(q) \in S
  OBVIOUS

LEMMA MoreTold ==
  ASSUME TypeOK, NEW n \in Nat
  PROVE  /\ UpTo(toWin, "prompt", n) => UpTo(toWin, "prompt", n + 1)
         /\ UpTo(fromWin, "value", n)
              => UpTo(fromWin, "value", n + 1) /\ ~Has(fromWin, "value", n + 1)
  <1>1. /\ \A i \in DOMAIN toWin : toWin[i].id \in Nat
        /\ \A i \in DOMAIN fromWin : fromWin[i].id \in Nat
    <2>1. \A i \in DOMAIN toWin : toWin[i] \in Messages
      BY DEF TypeOK
    <2>2. \A i \in DOMAIN fromWin : fromWin[i] \in Replies
      BY DEF TypeOK
    <2> QED
      BY <2>1, <2>2 DEF Messages, Replies
  <1>2. \A k \in Nat : k <= n => k <= n + 1 /\ k # n + 1
    OBVIOUS
  <1> QED
    BY <1>1, <1>2 DEF UpTo, Has, Is

LEMMA ShownUnlockAsks == TypeOK /\ By # "touch" /\ ShownOK /\ UnlockAsks => ShownOK'
  <1> SUFFICES ASSUME TypeOK, ButtonOK, AskOK, PickOK, UnlockAsks
               PROVE  ButtonOK' /\ AskOK' /\ PickOK'
    BY DEF ShownOK
  <1> DEFINE P == sess.promptID
  <1>0. /\ toWin \in Seq(Messages) /\ fromWin \in Seq(Replies) /\ win \in WinType
        /\ sess \in SessType /\ local \in LocalType /\ local.st = "run" /\ P \in Nat
    BY DEF TypeOK, UnlockAsks, SessType
  <1>1. /\ ~main.wait /\ ~Pressed /\ main.via # Window /\ (Usable => ~Ready /\ ~RetryIn(toWin))
        /\ Clear
    BY <1>0, Busied DEF AskOK, Unlocked
  <1>2. /\ sess'.approve = sess.approve /\ sess'.values = sess.values
        /\ sess'.forSecs = sess.forSecs /\ sess'.promptID = P + 1
        /\ local'.st = IF win.up THEN "ask" ELSE "failed"
        /\ local'.id = P + 1 /\ local'.answer = local.answer
        /\ UNCHANGED <<main, win, fromWin>>
    BY <1>0 DEF UnlockAsks, SessType, LocalType
  <1>3. PICK confirm \in {FALSE, Confirms} :
          toWin' = Shown([Message("prompt") EXCEPT !.id = sess.promptID + 1,
                                                   !.confirm = confirm])
    BY DEF UnlockAsks
  <1> DEFINE m == [Message("prompt") EXCEPT !.id = sess.promptID + 1, !.confirm = confirm]
  <1>4. sess.promptID + 1 \in Nat \ {0} /\ confirm \in BOOLEAN
    <2>1. sess.promptID + 1 \in Nat \ {0}
      BY <1>0
    <2>2. confirm \in BOOLEAN
      BY <1>3, ApprovalAssumption
    <2> QED
      BY <2>1, <2>2
  <1>5. /\ m \in Messages /\ m.type = "prompt" /\ ~m.retry
        /\ m.id = sess.promptID + 1 /\ m.confirm = confirm
    BY <1>4, PromptSays
  <1>6. toWin' = IF win.up THEN Append(toWin, m) ELSE toWin
    BY <1>3 DEF Shown
  <1> HIDE DEF m
  <1>7. GoodMessage(m) /\ m.id <= P + 1
    <2>1. m.id <= P + 1
      BY <1>0, <1>5
    <2> QED
      BY <1>3, <1>4, <1>5, <2>1 DEF GoodMessage
  <1>8. /\ UpTo(toWin, "prompt", P + 1) /\ UpTo(fromWin, "value", P + 1)
        /\ ~Has(fromWin, "value", P + 1)
    BY <1>0, MoreTold DEF AskOK
  <1>9. /\ \A i \in DOMAIN toWin' : GoodMessage(toWin'[i])
        /\ UpTo(toWin', "prompt", P + 1)
        /\ Usable => RetryLast(toWin') /\ ~RetryIn(toWin') /\ AloneIn(toWin', P + 1)
    <2>1. CASE win.up
      <3>0. toWin' = Append(toWin, m)
        BY <1>6, <2>1
      <3>1. \A i \in DOMAIN toWin' : GoodMessage(toWin'[i])
        BY <1>0, <1>5, <1>7, <3>0, GoodMessages DEF ButtonOK
      <3>2. UpTo(toWin', "prompt", P + 1)
        BY <1>0, <1>5, <1>7, <1>8, <3>0, GrownTold
      <3>3. ASSUME Usable PROVE RetryLast(toWin') /\ ~RetryIn(toWin') /\ AloneIn(toWin', P + 1)
        <4>1. ~LoudIn(toWin) /\ ~RetryIn(toWin) /\ RetryLast(toWin)
          BY <1>1, <3>3 DEF Clear, ButtonOK
        <4>2. ~RetryIn(toWin')
          BY <1>0, <1>5, <3>0, <4>1, GrownRetry
        <4> QED
          BY <1>0, <1>5, <3>0, <4>1, <4>2, GrownTold
      <3> QED
        BY <3>1, <3>2, <3>3
    <2>2. CASE ~win.up
      BY <1>6, <1>8, <2>2 DEF ButtonOK, Usable
    <2> QED
      BY <2>1, <2>2
  <1>10. /\ win.prompt <= P + 1 /\ win.prompt # P + 1
         /\ sess.values # <<>> => Head(sess.values).id <= P + 1 /\ Head(sess.values).id # P + 1
    <2>1. \A k \in Nat : k <= P => k <= P + 1 /\ k # P + 1
      BY <1>0
    <2>2. win.prompt \in Nat /\ sess.values \in Seq([id : Nat, right : BOOLEAN])
      BY <1>0 DEF WinType, SessType
    <2>3. sess.values # <<>> => Head(sess.values) \in [id : Nat, right : BOOLEAN]
      BY <2>2, HeadIn
    <2>4. sess.values # <<>> => Head(sess.values).id \in Nat
      BY <2>3
    <2> QED
      BY <2>1, <2>2, <2>4 DEF AskOK
  <1> HIDE DEF P
  <1>11. (Usable' <=> Usable) /\ (Ready' <=> Ready) /\ ~Pressed' /\ ~Heard'
    BY <1>1, <1>2, <1>10 DEF Usable, Ready, Pressed, Heard
  <1>12. ButtonOK'
    BY <1>1, <1>2, <1>9, <1>11 DEF ButtonOK
  <1>13. AskOK'
    <2>1. Unlocked' => ~Usable
      BY <1>2 DEF Unlocked, Usable
    <2>2. Unlocked' => Clear'
      BY <1>11, <2>1 DEF Clear
    <2>3. Usable => win.prompt = 0 /\ ~win.retry
      BY <1>1 DEF Clear
    <2> QED
      BY <1>2, <1>8, <1>9, <1>10, <1>11, <2>1, <2>2, <2>3 DEF AskOK
  <1>14. PickOK'
    <2>1. ValueLast(fromWin, P + 1)
      BY <1>8 DEF ValueLast, Has
    <2>2. ASSUME Unlocked', By = "click" \/ local'.answer # "none" PROVE Settled'
      <3>1. Settled
        BY <1>0, <1>2, <2>2 DEF PickOK, Unlocked
      <3>2. ~Usable'
        BY <1>2, <2>2 DEF Unlocked, Usable
      <3> QED
        BY <1>2, <3>1, <3>2 DEF Settled, Kept
    <2>3. local'.st # "ok" /\ sess'.approve = <<>>
      BY <1>2, <1>11 DEF Pressed
    <2> QED
      BY <1>1, <1>2, <1>11, <2>1, <2>2, <2>3 DEF PickOK
  <1> QED
    BY <1>12, <1>13, <1>14

LEMMA ShownUnlockHears == TypeOK /\ ShownOK /\ UnlockHears => ShownOK'
  <1> SUFFICES ASSUME TypeOK, ButtonOK, AskOK, PickOK, UnlockHears
               PROVE  ButtonOK' /\ AskOK' /\ PickOK'
    BY DEF ShownOK
  <1>0. /\ sess \in SessType /\ local \in LocalType
        /\ local.st = "ask" /\ sess.values # <<>> /\ local.id = sess.promptID
        /\ main.via # Window /\ ~main.wait
    BY Busied DEF TypeOK, UnlockHears, AskOK
  <1>1. /\ sess'.approve = sess.approve /\ sess'.values = <<>>
        /\ sess'.promptID = sess.promptID /\ sess'.forSecs = sess.forSecs
        /\ UNCHANGED <<main, win, toWin, fromWin>>
    BY <1>0 DEF UnlockHears, SessType, winVars
  <1>2. \/ Heard /\ local'.st = "run"
        \/ local' = local
    BY <1>0 DEF UnlockHears, Heard, LocalType
  <1>3. /\ (Usable' <=> Usable) /\ (Ready' <=> Ready) /\ (Pressed' <=> Pressed)
        /\ (Kept' <=> Kept) /\ (Clear' <=> Clear) /\ (Settled' <=> Settled) /\ ~Heard'
    BY <1>1 DEF Usable, Ready, Pressed, Kept, Clear, Settled, Heard
  <1>4. Heard => Clear /\ Settled
    BY <1>0 DEF AskOK, PickOK
  <1>5. ButtonOK'
    BY <1>0, <1>1, <1>3 DEF ButtonOK
  <1>6. AskOK'
    <2>1. CASE Heard /\ local'.st = "run"
      <3>1. Clear' /\ (Usable' /\ By = "click" => win'.busy)
        BY <1>1, <1>3, <1>4, <2>1 DEF Settled, Kept
      <3> QED
        BY <1>1, <2>1, <3>1 DEF AskOK
    <2>2. CASE local' = local
      BY <1>0, <1>1, <1>3, <2>2 DEF AskOK, Unlocked
    <2> QED
      BY <1>2, <2>1, <2>2
  <1>7. PickOK'
    <2>1. CASE Heard /\ local'.st = "run"
      BY <1>0, <1>1, <1>3, <1>4, <2>1 DEF PickOK
    <2>2. CASE local' = local
      BY <1>0, <1>1, <1>3, <2>2 DEF PickOK, Unlocked
    <2> QED
      BY <1>2, <2>1, <2>2
  <1> QED
    BY <1>5, <1>6, <1>7

-----------------------------------------------------------------------------
(* The approver takes its turns.                                           *)

LEMMA ShownTakeDesktop == TypeOK /\ By # "touch" /\ ShownOK /\ TakeDesktop => ShownOK'
  <1> SUFFICES ASSUME TypeOK, ButtonOK, AskOK, PickOK, TakeDesktop
               PROVE  ButtonOK' /\ AskOK' /\ PickOK'
    BY DEF ShownOK
  <1>0. /\ main \in MainType /\ Selecting /\ local.st = "ok"
        /\ UNCHANGED <<sess, win, toWin, fromWin>>
        /\ main' = [main EXCEPT !.pc = "approved", !.via = Window]
        /\ local'.st = "none"
    BY DEF TypeOK, TakeDesktop, winVars, NoUnlock
  <1>1. main'.wait = main.wait /\ main'.held = main.held /\ main'.pc = "approved"
    BY <1>0 DEF MainType
  <1>2. Settled
    BY <1>0 DEF PickOK, Unlocked
  <1>3. /\ (Usable' <=> Usable) /\ (Ready' <=> Ready) /\ (Pressed' <=> Pressed)
        /\ (Settled' <=> Settled) /\ ~Unlocked'
    BY <1>0 DEF Usable, Ready, Pressed, Kept, Settled, Unlocked
  <1>4. ButtonOK'
    BY <1>0, <1>1, <1>3 DEF ButtonOK
  <1>5. AskOK'
    BY <1>0, <1>3 DEF AskOK
  <1>6. PickOK'
    BY <1>0, <1>1, <1>2, <1>3 DEF PickOK, Selecting
  <1> QED
    BY <1>4, <1>5, <1>6

LEMMA ShownOfferRetry == TypeOK /\ ShownOK /\ OfferRetry => ShownOK'
  <1> SUFFICES ASSUME TypeOK, ButtonOK, AskOK, PickOK, OfferRetry
               PROVE  ButtonOK' /\ AskOK' /\ PickOK'
    BY DEF ShownOK
  <1>0. /\ toWin \in Seq(Messages) /\ main \in MainType /\ Selecting
        /\ ~Pressed /\ main.via # Window /\ (Usable => ~Ready /\ ~RetryIn(toWin))
    BY Busied DEF TypeOK, OfferRetry
  <1>1. /\ main'.wait = TRUE /\ main'.pc = main.pc /\ main'.via = main.via
        /\ main'.held = main.held
        /\ local'.st = "none" /\ UNCHANGED <<sess, win, fromWin>>
        /\ toWin' = Shown(RetryStatus)
    BY <1>0 DEF OfferRetry, MainType, NoUnlock
  <1>2. /\ \A i \in DOMAIN toWin' : GoodMessage(toWin'[i])
        /\ UpTo(toWin', "prompt", sess.promptID)
        /\ Usable => RetryLast(toWin')
    <2>1. CASE win.up
      <3>1. toWin' = Append(toWin, RetryStatus)
        BY <1>1, <2>1 DEF Shown
      <3>2. \A i \in DOMAIN toWin' : GoodMessage(toWin'[i])
        BY <1>0, <3>1, StatusSays, GoodMessages DEF ButtonOK
      <3>3. UpTo(toWin', "prompt", sess.promptID)
        BY <1>0, <3>1, StatusSays, GrownTold DEF AskOK
      <3>4. Usable => RetryLast(toWin')
        BY <1>0, <3>1, StatusSays, GrownTold DEF ButtonOK
      <3> QED
        BY <3>2, <3>3, <3>4
    <2>2. CASE ~win.up
      BY <1>1, <2>2 DEF Shown, ButtonOK, AskOK, Usable
    <2> QED
      BY <2>1, <2>2
  <1>3. (Usable' <=> Usable) /\ (Ready' <=> Ready) /\ ~Pressed' /\ ~Unlocked'
    BY <1>0, <1>1 DEF Usable, Ready, Pressed, Unlocked
  <1>4. ButtonOK'
    BY <1>0, <1>1, <1>2, <1>3 DEF ButtonOK
  <1>5. AskOK'
    BY <1>1, <1>2, <1>3 DEF AskOK
  <1>6. PickOK'
    BY <1>0, <1>1, <1>3 DEF PickOK, Pressed
  <1> QED
    BY <1>4, <1>5, <1>6

LEMMA ShownTakeApprove == TypeOK /\ ShownOK /\ TakeApprove => ShownOK'
  <1> SUFFICES ASSUME TypeOK, ButtonOK, AskOK, PickOK, TakeApprove
               PROVE  ButtonOK' /\ AskOK' /\ PickOK'
    BY DEF ShownOK
  <1>0. /\ sess \in SessType /\ main \in MainType
        /\ Selecting /\ sess.approve # <<>> /\ Pressed
        /\ ~Carries(fromWin, "approve")
        /\ main.via # Window
    BY DEF TypeOK, TakeApprove, Pressed, ButtonOK, Selecting
  <1>1. /\ main'.wait = FALSE /\ main'.pc = main.pc /\ main'.via = main.via
        /\ main'.held = main.held
        /\ local'.st = "run" /\ local'.answer = "none"
        /\ sess'.approve = <<>> /\ sess'.values = sess.values
        /\ sess'.promptID = sess.promptID /\ sess'.forSecs = sess.forSecs
        /\ UNCHANGED <<win, toWin, fromWin>>
    BY <1>0 DEF TakeApprove, ApproveTaken, MainType, SessType, Running, NoUnlock, winVars
  <1>2. Settled /\ Clear /\ (Usable => ~Ready /\ ~RetryIn(toWin))
    <2>1. Usable => win.busy /\ ~win.retry /\ win.prompt = 0 /\ ~LoudIn(toWin)
      BY <1>0 DEF ButtonOK
    <2>2. RetryIn(toWin) => LoudIn(toWin)
      BY DEF RetryIn, LoudIn, Loud
    <2>3. Settled
      BY <1>0 DEF PickOK
    <2> QED
      BY <2>1, <2>2, <2>3 DEF Clear, Ready
  <1>3. /\ (Usable' <=> Usable) /\ (Ready' <=> Ready) /\ ~Pressed'
        /\ (Settled' <=> Settled) /\ (Clear' <=> Clear)
    BY <1>0, <1>1 DEF Usable, Ready, Pressed, Kept, Settled, Clear
  <1>4. ButtonOK'
    BY <1>0, <1>1, <1>2, <1>3 DEF ButtonOK
  <1>5. AskOK'
    BY <1>1, <1>2, <1>3 DEF AskOK, Settled, Kept
  <1>6. PickOK'
    BY <1>0, <1>1, <1>2, <1>3 DEF PickOK
  <1> QED
    BY <1>4, <1>5, <1>6

LEMMA ShownReadDuration == TypeOK /\ ShownOK /\ ReadDuration => ShownOK'
  <1> SUFFICES ASSUME TypeOK, ButtonOK, AskOK, PickOK, ReadDuration
               PROVE  ButtonOK' /\ AskOK' /\ PickOK'
    BY DEF ShownOK
  <1>0. /\ main \in MainType /\ main.pc = "approved"
        /\ UNCHANGED <<sess, local, win, toWin, fromWin>>
    BY DEF TypeOK, ReadDuration, winVars
  <1>1. /\ main'.wait = main.wait /\ main'.via = main.via
        /\ main'.pc = "granting" /\ main'.ttl = sess.forSecs
    BY <1>0 DEF ReadDuration, MainType
  <1>2. /\ (Usable' <=> Usable) /\ (Ready' <=> Ready) /\ (Pressed' <=> Pressed)
        /\ (Kept' <=> Kept) /\ (Settled' <=> Settled) /\ (Clear' <=> Clear)
        /\ (Heard' <=> Heard) /\ (Unlocked' <=> Unlocked)
    BY <1>0 DEF Usable, Ready, Pressed, Kept, Settled, Clear, Heard, Unlocked
  <1>3. ButtonOK'
    BY <1>0, <1>1, <1>2 DEF ButtonOK
  <1>4. AskOK'
    BY <1>0, <1>2 DEF AskOK
  <1>5. PickOK'
    <2>1. main.via = Window => Kept /\ sess.forSecs = win.picked
      BY <1>0 DEF PickOK, Settled
    <2> QED
      BY <1>0, <1>1, <1>2, <2>1 DEF PickOK
  <1> QED
    BY <1>3, <1>4, <1>5

-----------------------------------------------------------------------------
(* The page takes its turns, and the human theirs.                         *)

\* What the window shows of a message is less to come.
LEMMA ShownWindowShows == TypeOK /\ ShownOK /\ WindowShows => ShownOK'
  <1> SUFFICES ASSUME TypeOK, ButtonOK, AskOK, PickOK, WindowShows
               PROVE  ButtonOK' /\ AskOK' /\ PickOK'
    BY DEF ShownOK
  <1> DEFINE m == Head(toWin)
             P == sess.promptID
  <1>0. /\ toWin \in Seq(Messages) /\ toWin # <<>> /\ toWin' = Tail(toWin)
        /\ win \in WinType /\ win.up /\ P \in Nat
        /\ UNCHANGED <<sess, main, local, fromWin>>
    BY DEF TypeOK, WindowShows, SessType
  <1>1. m \in Messages /\ GoodMessage(m)
    BY <1>0, TakenQueue DEF ButtonOK
  <1>2. /\ win'.picked = win.picked /\ win'.up
        /\ m.type = "prompt" => /\ win'.prompt = m.id /\ win'.confirm = m.confirm
                                /\ win'.retry = win.retry /\ win'.done = win.done
        /\ m.type = "status" => /\ win'.prompt = win.prompt /\ win'.confirm = win.confirm
                                /\ win'.retry = m.retry /\ win'.done = win.done
                                /\ ~m.retry => win'.busy = win.busy
        /\ m.type = "done" => win'.prompt = 0 /\ win'.done /\ win'.confirm = win.confirm
    BY <1>0 DEF WindowShows, WinType
  <1>3. /\ \A i \in DOMAIN toWin' : GoodMessage(toWin'[i])
        /\ LoudIn(toWin') => LoudIn(toWin)
        /\ Loud(m) => LoudIn(toWin)
    BY <1>0, TakenQueue, TakenPicks DEF ButtonOK
  <1>4. RetryIn(toWin) <=> m.retry \/ RetryIn(toWin')
    BY <1>0, TakenRetry
  <1>5. /\ Has(toWin, "prompt", P) <=> Is(m, "prompt", P) \/ Has(toWin', "prompt", P)
        /\ UpTo(toWin', "prompt", P) /\ (m.type = "prompt" => m.id <= P)
        /\ RetryLast(toWin) => RetryLast(toWin') /\ (m.retry => ~LoudIn(toWin'))
        /\ AloneIn(toWin, P)
             => /\ AloneIn(toWin', P)
                /\ Is(m, "prompt", P) => ~LoudIn(toWin')
                /\ Has(toWin', "prompt", P) => ~Loud(m)
    BY <1>0, TakenTold DEF AskOK
  <1> HIDE DEF m
  <1>6. /\ m.type \in {"prompt", "status", "done"}
        /\ m.type = "prompt" => m.id # 0 /\ ~m.retry /\ Loud(m)
        /\ m.retry => m.type = "status" /\ Loud(m)
        /\ m.confirm => Confirms
        /\ Loud(m) => m.type = "prompt" \/ m.retry
    BY <1>1 DEF Messages, GoodMessage, Loud
  <1>7. Usable' => Usable /\ m.type # "done"
    BY <1>0, <1>2, <1>6 DEF Usable
  <1>8. /\ (Pressed' <=> Pressed) /\ (Heard' <=> Heard) /\ (Unlocked' <=> Unlocked)
        /\ (Usable' /\ ~Loud(m) /\ Ready' => Ready)
    BY <1>0, <1>2, <1>6, <1>7 DEF Pressed, Heard, Unlocked, Ready
  <1>9. /\ Kept => Kept' /\ (Usable' => ~Loud(m))
        /\ Settled => Settled'
        /\ Clear => Clear' /\ (Usable' => ~Loud(m))
    <2>1. Kept => Kept' /\ (Usable' => ~Loud(m))
      BY <1>2, <1>3, <1>6, <1>7 DEF Kept
    <2>2. Settled => Settled'
      BY <1>0, <2>1 DEF Settled
    <2>3. Clear => Clear' /\ (Usable' => ~Loud(m))
      BY <1>2, <1>3, <1>6, <1>7 DEF Clear
    <2> QED
      BY <2>1, <2>2, <2>3
  <1>10. ButtonOK'
    <2>1. win'.confirm => Confirms
      BY <1>2, <1>6 DEF ButtonOK
    <2>2. ASSUME Usable'
          PROVE  Ready' => main.wait /\ ~LoudIn(toWin')
      <3>0. Usable /\ m.type # "done" /\ RetryLast(toWin)
        BY <1>7, <2>2 DEF ButtonOK
      <3>1. CASE ~Loud(m)
        BY <1>3, <1>8, <2>2, <3>0, <3>1 DEF ButtonOK
      <3>2. CASE m.retry
        BY <1>4, <1>5, <3>0, <3>2 DEF ButtonOK
      <3>3. CASE m.type = "prompt"
        <4>1. LoudIn(toWin) /\ win'.prompt # 0 /\ win'.retry = win.retry
          BY <1>2, <1>3, <1>6, <3>3
        <4>2. Ready' => Ready
          BY <1>0, <4>1 DEF Ready
        <4>3. ~Ready
          BY <3>0, <4>1 DEF ButtonOK
        <4> QED
          BY <4>2, <4>3
      <3> QED
        BY <1>6, <3>1, <3>2, <3>3
    <2>3. Usable' /\ RetryIn(toWin') => main.wait
      BY <1>4, <1>7 DEF ButtonOK
    <2>4. ASSUME Usable', Pressed
          PROVE  win'.busy /\ ~win'.retry /\ win'.prompt = 0 /\ ~LoudIn(toWin')
      <3>1. win.busy /\ ~win.retry /\ win.prompt = 0 /\ ~LoudIn(toWin)
        BY <1>7, <2>4 DEF ButtonOK
      <3>2. ~Loud(m) /\ m.type = "status" /\ ~m.retry
        BY <1>3, <1>6, <1>7, <2>4, <3>1
      <3> QED
        BY <1>2, <1>3, <3>1, <3>2
    <2>5. Usable' => RetryLast(toWin')
      BY <1>5, <1>7 DEF ButtonOK
    <2> QED
      BY <1>0, <1>3, <1>8, <2>1, <2>2, <2>3, <2>4, <2>5 DEF ButtonOK
  <1>11. AskOK'
    <2>1. win'.prompt <= P
      <3>1. 0 <= P
        BY <1>0
      <3> QED
        BY <1>2, <1>5, <1>6, <3>1 DEF AskOK
    <2>2. ASSUME Unlocked
          PROVE  Clear' /\ (Usable' /\ By = "click" => win'.busy)
      <3>1. Clear /\ (Usable /\ By = "click" => win.busy)
        BY <2>2 DEF AskOK
      <3>2. Usable' => Usable /\ m.type = "status" /\ ~m.retry
        BY <1>6, <1>7, <1>9, <3>1
      <3> QED
        BY <1>2, <1>9, <3>1, <3>2
    <2>3. ASSUME local.st = "ask", Usable'
          PROVE  /\ Has(toWin', "prompt", P)
                      => win'.prompt = 0 /\ ~win'.retry /\ AloneIn(toWin', P)
                 /\ win'.prompt = P => ~win'.retry /\ ~LoudIn(toWin')
      <3>0. Usable /\ ~m.retry
        BY <1>4, <1>7, <2>3, Busied
      <3>1. ASSUME Has(toWin', "prompt", P)
            PROVE  win'.prompt = 0 /\ ~win'.retry /\ AloneIn(toWin', P)
        <4>1. win.prompt = 0 /\ ~win.retry /\ AloneIn(toWin, P)
          BY <1>5, <2>3, <3>0, <3>1 DEF AskOK
        <4>2. ~Loud(m) /\ m.type = "status"
          BY <1>5, <1>6, <1>7, <2>3, <3>1, <4>1
        <4> QED
          BY <1>2, <1>5, <3>0, <4>1, <4>2
      <3>2. ASSUME win'.prompt = P
            PROVE  ~win'.retry /\ ~LoudIn(toWin')
        <4>1. CASE m.type = "prompt"
          <5>1. Is(m, "prompt", P)
            BY <1>2, <3>2, <4>1 DEF Is
          <5>2. ~win.retry /\ AloneIn(toWin, P)
            BY <1>5, <2>3, <3>0, <5>1 DEF AskOK
          <5> QED
            BY <1>2, <1>5, <4>1, <5>1, <5>2
        <4>2. CASE m.type = "status"
          <5>1. ~win.retry /\ ~LoudIn(toWin)
            BY <1>2, <2>3, <3>0, <3>2, <4>2 DEF AskOK
          <5> QED
            BY <1>2, <1>3, <3>0, <4>2, <5>1
        <4> QED
          BY <1>6, <1>7, <2>3, <4>1, <4>2
      <3> QED
        BY <3>1, <3>2
    <2>4. local.st = "ask" /\ (Has(fromWin, "value", P) \/ Heard) => Clear' /\ Kept'
      BY <1>9 DEF AskOK
    <2>5. local.st = "ask" => local.id = P
      BY DEF AskOK
    <2> QED
      BY <1>0, <1>5, <1>8, <2>1, <2>2, <2>3, <2>4, <2>5 DEF AskOK
  <1>12. PickOK'
    BY <1>0, <1>2, <1>8, <1>9 DEF PickOK
  <1> QED
    BY <1>10, <1>11, <1>12

LEMMA ShownPressApprove == TypeOK /\ ShownOK /\ PressApprove => ShownOK'
  <1> SUFFICES ASSUME TypeOK, ButtonOK, AskOK, PickOK, PressApprove
               PROVE  ButtonOK' /\ AskOK' /\ PickOK'
    BY DEF ShownOK
  <1>0. /\ fromWin \in Seq(Replies) /\ win \in WinType
        /\ Usable /\ win.prompt = 0 /\ Ready
        /\ UNCHANGED <<sess, main, local, toWin>>
    BY DEF TypeOK, PressApprove, CanApprove, Usable, Ready
  <1>1. main.wait /\ local.st = "none" /\ ~LoudIn(toWin) /\ ~Pressed
    BY <1>0 DEF ButtonOK, Ready
  <1>2. /\ win'.busy /\ ~win'.retry /\ win'.prompt = 0 /\ win'.confirm = win.confirm
        /\ win'.picked = win.picked /\ (Usable' <=> Usable)
    BY <1>0 DEF PressApprove, Busy, WinType, Usable
  <1>3. PICK r \in Replies : r.type = "approve" /\ fromWin' = Append(fromWin, r)
    <2>1. win.seen \in Nat /\ Reply("approve") \in Replies /\ Reply("approve").type = "approve"
      BY <1>0, ReplyType DEF WinType, Reply
    <2>2. [Reply("approve") EXCEPT !.seen = win.seen] \in Replies
      BY <2>1 DEF Replies
    <2>3. [Reply("approve") EXCEPT !.seen = win.seen].type = "approve"
      BY <2>1 DEF Replies
    <2> QED
      BY <2>2, <2>3 DEF PressApprove
  <1>4. /\ Once(fromWin', "approve")
        /\ Carries(fromWin', "for") <=> Carries(fromWin, "for")
    BY <1>0, <1>1, <1>3, GrownTypes DEF ButtonOK, Pressed
  <1>5. UpTo(fromWin', "value", sess.promptID) /\ ApproveLast(fromWin')
    BY <1>0, <1>3, GrownTold DEF AskOK, PickOK
  <1>6. LastPick(fromWin', win.picked)
    BY <1>0, <1>3, GrownPicks DEF PickOK
  <1>7. ~Ready' /\ Kept' /\ (Settled => Settled')
    BY <1>0, <1>1, <1>2, <1>4 DEF Ready, Kept, Settled
  <1>8. ButtonOK'
    BY <1>0, <1>1, <1>2, <1>4, <1>7 DEF ButtonOK, Pressed
  <1>9. AskOK'
    <2>1. 0 <= sess.promptID
      BY <1>0 DEF AskOK
    <2> QED
      BY <1>0, <1>1, <1>2, <1>5, <2>1 DEF AskOK, Unlocked
  <1>10. PickOK'
    <2>1. sess.approve = <<>> /\ ~Unlocked' /\ local.st # "ask"
      BY <1>0, <1>1 DEF Pressed, Unlocked
    <2> QED
      BY <1>0, <1>1, <1>2, <1>4, <1>5, <1>6, <1>7, <2>1 DEF PickOK
  <1> QED
    BY <1>8, <1>9, <1>10

LEMMA ShownAnswerPrompt == TypeOK /\ By # "touch" /\ ShownOK /\ AnswerPrompt => ShownOK'
  <1> SUFFICES ASSUME TypeOK, ButtonOK, AskOK, PickOK, AnswerPrompt
               PROVE  ButtonOK' /\ AskOK' /\ PickOK'
    BY DEF ShownOK
  <1> DEFINE P == sess.promptID
  <1>0. /\ fromWin \in Seq(Replies) /\ win \in WinType /\ P \in Nat
        /\ Usable /\ win.prompt # 0 /\ ~win.busy
        /\ UNCHANGED <<sess, main, local, toWin>>
    BY DEF TypeOK, AnswerPrompt, SessType
  <1>1. ~Pressed /\ ~Unlocked /\ main.via # Window
    <2>1. ~Pressed /\ ~Unlocked
      BY <1>0 DEF ButtonOK, AskOK, Clear
    <2>2. ASSUME main.via = Window PROVE FALSE
      <3>1. Kept
        BY <2>2 DEF PickOK, Settled
      <3> QED
        BY <1>0, <3>1 DEF Kept
    <2> QED
      BY <2>1, <2>2
  <1>2. local.st = "ask" => ~Has(fromWin, "value", P) /\ ~Heard
    BY <1>0 DEF AskOK, Clear
  <1>3. /\ win'.busy /\ ~win'.retry /\ win'.prompt = 0 /\ win'.confirm = win.confirm
        /\ win'.picked = win.picked /\ (Usable' <=> Usable)
    BY <1>0 DEF AnswerPrompt, Busy, WinType, Usable
  <1>4. PICK r \in Replies :
          r.type = "value" /\ r.id = win.prompt /\ fromWin' = Append(fromWin, r)
    <2>1. PICK right \in BOOLEAN :
            fromWin' = Append(fromWin, [Reply("value") EXCEPT !.id = win.prompt, !.right = right])
      BY DEF AnswerPrompt
    <2>2. win.prompt \in Nat /\ Reply("value") \in Replies /\ Reply("value").type = "value"
      BY <1>0, ReplyType DEF WinType, Reply
    <2> DEFINE r == [Reply("value") EXCEPT !.id = win.prompt, !.right = right]
    <2>3. r \in Replies /\ r.type = "value" /\ r.id = win.prompt
      BY <2>2 DEF Replies
    <2> QED
      BY <2>1, <2>3
  <1>5. /\ Once(fromWin', "approve")
        /\ Carries(fromWin', "approve") <=> Carries(fromWin, "approve")
        /\ Carries(fromWin', "for") <=> Carries(fromWin, "for")
    BY <1>0, <1>4, GrownTypes DEF ButtonOK
  <1>6. /\ UpTo(fromWin', "value", P) /\ ApproveLast(fromWin')
        /\ ValueLast(fromWin, P) => ValueLast(fromWin', P)
        /\ Has(fromWin', "value", P) => Has(fromWin, "value", P) \/ win.prompt = P
    <2>1. r.id <= P
      BY <1>4 DEF AskOK
    <2> QED
      BY <1>0, <1>4, <2>1, GrownTold DEF AskOK, PickOK, Is
  <1>7. LastPick(fromWin', win.picked)
    BY <1>0, <1>4, GrownPicks DEF PickOK
  <1>8. ~Ready' /\ ~Pressed' /\ ~Unlocked' /\ (Heard' <=> Heard) /\ P # 0
    <2>1. ~Ready' /\ ~Pressed' /\ ~Unlocked' /\ (Heard' <=> Heard)
      BY <1>0, <1>1, <1>3, <1>5 DEF Ready, Pressed, Unlocked, Heard
    <2>2. win.prompt \in Nat /\ win.prompt <= P
      BY <1>0 DEF WinType, AskOK
    <2>3. P # 0
      BY <1>0, <2>2
    <2> QED
      BY <2>1, <2>3
  <1>9. ButtonOK'
    BY <1>0, <1>1, <1>3, <1>5, <1>8 DEF ButtonOK, Pressed
  <1>10. AskOK'
    <2>1. 0 <= P
      BY <1>0
    <2>2. ASSUME local.st = "ask", Has(fromWin', "value", P) \/ Heard'
          PROVE  Clear' /\ Kept'
      <3>1. win.prompt = P
        BY <1>2, <1>6, <1>8, <2>2
      <3>2. ~LoudIn(toWin)
        BY <1>0, <2>2, <3>1 DEF AskOK
      <3> QED
        BY <1>0, <1>3, <3>2 DEF Clear, Kept
    <2>3. ASSUME local.st = "ask", Has(toWin, "prompt", P)
          PROVE  FALSE
      BY <1>0, <2>3 DEF AskOK
    <2> QED
      BY <1>0, <1>3, <1>6, <1>8, <2>1, <2>2, <2>3 DEF AskOK
  <1>11. PickOK'
    <2>1. sess.approve = <<>>
      BY <1>1 DEF Pressed
    <2> QED
      BY <1>0, <1>1, <1>2, <1>3, <1>5, <1>6, <1>7, <1>8, <2>1 DEF PickOK
  <1> QED
    BY <1>9, <1>10, <1>11

LEMMA ShownPickInWindow ==
  ASSUME NEW d \in Choices
  PROVE  TypeOK /\ ShownOK /\ PickInWindow(d) => ShownOK'
  <1> SUFFICES ASSUME TypeOK, ButtonOK, AskOK, PickOK, PickInWindow(d)
               PROVE  ButtonOK' /\ AskOK' /\ PickOK'
    BY DEF ShownOK
  <1> DEFINE P == sess.promptID
  <1>0. /\ fromWin \in Seq(Replies) /\ win \in WinType
        /\ Usable /\ ~win.busy /\ ~Kept
        /\ UNCHANGED <<sess, main, local, toWin>>
    BY DEF TypeOK, PickInWindow, Kept
  <1>1. /\ win'.prompt = win.prompt /\ win'.confirm = win.confirm /\ win'.retry = win.retry
        /\ win'.busy = win.busy /\ win'.picked = d /\ win'.up = win.up
        /\ (Usable' <=> Usable)
    BY <1>0 DEF PickInWindow, WinType, Usable
  <1>2. PICK r \in Replies :
          r.type = "for" /\ r.for = d /\ fromWin' = Append(fromWin, r)
    <2>1. Reply("for") \in Replies /\ Reply("for").type = "for"
      BY ReplyType DEF Reply
    <2> DEFINE r == [Reply("for") EXCEPT !.for = d]
    <2>2. r \in Replies /\ r.type = "for" /\ r.for = d
      BY <2>1 DEF Replies
    <2> QED
      BY <2>2 DEF PickInWindow
  <1>3. /\ Once(fromWin', "approve")
        /\ Carries(fromWin', "approve") <=> Carries(fromWin, "approve")
        /\ Carries(fromWin', "for")
    BY <1>0, <1>2, GrownTypes DEF ButtonOK
  <1>4. ~Pressed /\ (local.st = "ask" => ~Has(fromWin, "value", P))
    BY <1>0 DEF ButtonOK, AskOK
  <1>5. /\ UpTo(fromWin', "value", P) /\ ApproveLast(fromWin')
        /\ local.st = "ask" => ValueLast(fromWin', P)
        /\ Has(fromWin', "value", P) => Has(fromWin, "value", P)
    BY <1>0, <1>2, <1>4, GrownTold DEF AskOK, PickOK, Is, Pressed
  <1>6. LastPick(fromWin', d)
    BY <1>0, <1>2, GrownPicks
  <1>7. /\ (Ready' <=> Ready) /\ (Pressed' <=> Pressed) /\ (Unlocked' <=> Unlocked)
        /\ (Heard' <=> Heard) /\ (Clear' <=> Clear)
    BY <1>0, <1>1, <1>3 DEF Ready, Pressed, Unlocked, Heard, Clear
  <1>8. ButtonOK'
    BY <1>0, <1>1, <1>3, <1>4, <1>7 DEF ButtonOK
  <1>9. AskOK'
    BY <1>0, <1>1, <1>4, <1>5, <1>7 DEF AskOK
  <1>10. PickOK'
    <2>1. ~Settled
      BY <1>0 DEF Settled
    <2> QED
      BY <1>0, <1>1, <1>3, <1>5, <1>6, <1>7, <2>1 DEF PickOK
  <1> QED
    BY <1>8, <1>9, <1>10

-----------------------------------------------------------------------------
(* The theorem about the duration.                                         *)

LEMMA ShownInit == Init => SilentOK /\ ShownOK
  <1> SUFFICES ASSUME Init PROVE SilentOK /\ ShownOK
    OBVIOUS
  <1>1. /\ sess.forSecs = Asked /\ sess.promptID = 0 /\ sess.approve = <<>> /\ sess.values = <<>>
        /\ main.pc = "select" /\ (main.wait <=> HasWindow /\ By = "click")
        /\ main.via = None /\ main.held = 0
        /\ win.prompt = 0 /\ ~win.confirm /\ ~win.retry /\ ~win.busy /\ (win.up <=> HasWindow)
        /\ win.picked = Asked
        /\ toWin = <<>> /\ fromWin = <<>>
    BY DEF Init
  <1>2. /\ local.st \in {"none", "run"} /\ local.answer = "none"
        /\ local.st # "none" <=> HasWindow /\ By # "click"
    BY DEF Init, NoUnlock, Running
  <1>3. /\ ~LoudIn(toWin) /\ ~RetryIn(toWin) /\ ~Pressed /\ ~Heard /\ Clear
    BY <1>1 DEF LoudIn, RetryIn, Pressed, Carries, Heard, Clear
  <1>8. \A type : ~Carries(fromWin, type)
    BY <1>1 DEF Carries
  <1>9. Ready => main.wait
    BY <1>1 DEF Ready
  <1>4. ButtonOK
    <2>1. None # Window
      BY ApprovalAssumption
    <2> QED
      BY <1>1, <1>2, <1>3, <1>8, <1>9, <2>1 DEF ButtonOK, RetryLast, Once
  <1>5. AskOK
    <2>1. ASSUME Unlocked, By = "click" PROVE FALSE
      BY <1>2, <2>1 DEF Unlocked
    <2> QED
      BY <1>1, <1>2, <1>3, <2>1 DEF AskOK, UpTo
  <1>6. PickOK
    <2>1. None # Window
      BY ApprovalAssumption
    <2>2. ~(Unlocked /\ (By = "click" \/ local.answer # "none"))
      BY <1>2 DEF Unlocked
    <2> QED
      BY <1>1, <1>2, <1>3, <1>8, <2>1, <2>2 DEF PickOK, LastPick, ApproveLast
  <1>7. SilentOK
    BY DEF Init, SilentOK
  <1> QED
    BY <1>4, <1>5, <1>6, <1>7 DEF ShownOK

\* The phones are silent after a step only if they were before it, and then
\* nothing of theirs is on its way.
LEMMA SilentSteps ==
  TypeOK /\ [Next]_vars /\ Silent' => Silent /\ (SilentOK => SilentOK')
  <1> SUFFICES ASSUME TypeOK, [Next]_vars, Silent'
               PROVE  Silent /\ (SilentOK => SilentOK')
    OBVIOUS
  <1>0. phone \in [Phones -> PhoneType]
    BY DEF TypeOK
  <1>1. CASE \E p \in Phones :
               DenyOnPhone(p) \/ ApproveOnPhone(p) \/ \E d \in Choices : PickOnPhone(p, d)
    BY <1>1, PhonesSpeak
  <1>2. CASE Server
    <2>1. PICK post \in posts : \/ ReplyArrives(post) \/ UnlockArrives(post)
                                \/ UnlockFailsToPost(post) \/ ReplyLost(post)
      BY <1>2 DEF Server
    <2>2. post.from \in Phones /\ ~SilentOK
      BY DEF TypeOK, Posts, SilentOK
    <2>3. \/ phone' = phone
          \/ \E phase \in {"unlocking", "request"} :
               phone' = [phone EXCEPT ![post.from].phase = phase]
      BY <2>1 DEF ReplyArrives, UnlockArrives, UnlockFailsToPost, ReplyLost
    <2>4. \A p \in Phones : phone'[p].sent = phone[p].sent
      BY <1>0, <2>2, <2>3 DEF PhoneType
    <2> QED
      BY <2>2, <2>4 DEF Silent
  <1>3. CASE TakePhone \/ ReadPhone
    BY <1>3 DEF TakePhone, ReadPhone, SilentOK, Silent
  <1>4. CASE UNCHANGED <<phone, posts, replies, unlocks>>
    BY <1>4 DEF Silent, SilentOK
  <1>5. CASE Approver
    <2>1. TakePhone \/ UNCHANGED <<phone, posts, replies, unlocks>>
      BY <1>5 DEF Approver, TakeDesktop, GiveUp, AskAgain, OfferRetry, TakeApprove,
          PhoneOpens, PhoneRefused, TakeEnd, ReadDuration, GrantNext, GrantFails,
          AllGranted, Finish, phoneVars
    <2> QED
      BY <1>3, <1>4, <2>1
  <1>6. CASE Sessions
    <2>1. ReadPhone \/ UNCHANGED <<phone, posts, replies, unlocks>>
      BY <1>6 DEF Sessions, ReadWindow, WindowGone, StopPolling, DeadlinePasses, phoneVars
    <2> QED
      BY <1>3, <1>4, <2>1
  <1>7. CASE Unlocking \/ WindowShows \/ PageExits \/ UNCHANGED vars
    <2>1. UNCHANGED <<phone, posts, replies, unlocks>>
      BY <1>7 DEF Unlocking, UnlockAsks, UnlockHears, UnlockAborts, UnlockOpens, UnlockFails,
          WindowShows, PageExits, phoneVars, vars
    <2> QED
      BY <1>4, <2>1
  <1>8. CASE \/ PressApprove \/ AnswerPrompt \/ AnswerConfirm \/ DenyInWindow
             \/ CloseWindow \/ WindowDies \/ Touch
             \/ \E d \in Choices : PickInWindow(d)
    <2>1. UNCHANGED <<phone, posts, replies, unlocks>>
      BY <1>8 DEF PressApprove, AnswerPrompt, AnswerConfirm, DenyInWindow, CloseWindow,
          WindowDies, Touch, PickInWindow, phoneVars
    <2> QED
      BY <1>4, <2>1
  <1> QED
    BY <1>1, <1>2, <1>5, <1>6, <1>7, <1>8 DEF Next, Human

LEMMA ShownNext ==
  ASSUME ~Confirms
  PROVE  TypeOK /\ ShownInv /\ [Next]_vars => ShownInv'
  <1> SUFFICES ASSUME TypeOK, ShownInv, [Next]_vars, Silent', By # "touch"
               PROVE  SilentOK' /\ ShownOK'
    BY DEF ShownInv, ShownOK
  <1>1. Silent /\ SilentOK /\ SilentOK' /\ ButtonOK /\ AskOK /\ PickOK
    BY SilentSteps DEF ShownInv
  <1>2. CASE Still
    BY <1>1, <1>2, StillButton, StillAsk, StillPick DEF ShownOK
  <1>3. CASE Turns
    BY <1>1, <1>3, ShownReadWindow, ShownUnlockAsks, ShownUnlockHears, ShownTakeDesktop,
       ShownOfferRetry, ShownTakeApprove, ShownReadDuration, ShownWindowShows,
       ShownPressApprove, ShownAnswerPrompt, ShownPickInWindow
    DEF Turns, ShownOK
  <1> QED
    BY <1>1, <1>2, <1>3, ~Confirms, StillSteps

\* What the window showed when it approved is what was granted, for every
\* number of picks, prompts and attempts, when no phone spoke and no plugin
\* asks questions (one leaves the page free to pick in after its answer).
THEOREM GrantedAsShownHolds ==
  ASSUME ~Confirms
  PROVE  Spec => []GrantedAsShown
  <1>1. Init => ShownInv
    BY ShownInit DEF ShownInv, ShownOK
  <1>2. RequestInv /\ ShownInv /\ [Next]_vars => ShownInv'
    BY ~Confirms, ShownNext DEF RequestInv
  <1>3. ShownInv => GrantedAsShown
    <2> SUFFICES ASSUME ShownInv, main.via = Window, main.held > 0, By # "touch", Silent
                 PROVE  main.ttl = win.picked
      BY DEF GrantedAsShown, Silent
    <2>1. ButtonOK /\ PickOK
      BY DEF ShownInv
    <2>2. main.pc # "approved"
      BY <2>1 DEF PickOK
    <2> QED
      BY <2>1, <2>2 DEF PickOK
  <1> QED
    BY <1>1, <1>2, <1>3, RequestInvariant, PTL DEF Spec
=============================================================================
