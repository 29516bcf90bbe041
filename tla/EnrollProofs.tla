----------------------------- MODULE EnrollProofs -----------------------------
(***************************************************************************)
(* Proofs about Enroll, for any number of phones that open the link, any   *)
(* number of attempts and any faults: a phone that says it is enrolled is  *)
(* the one the vault was wrapped to, with the key it sent, and one that    *)
(* says it failed is not in the vault.                                     *)
(*                                                                         *)
(* The link is used once: a second phone's enrollment is refused because   *)
(* srv.phone is set with the first, in one step.  So there is one          *)
(* enrollment (Enrolled), which the command takes from the server and the  *)
(* vault gets from the command, and whoever is past enrolling has that     *)
(* one (PhoneOK).  A good answer is only given by a command that has       *)
(* finished without failing, and such a one has wrapped the vault (CmdOK). *)
(* For the phone that hears of a failure, CleanCmd and CleanPhone follow   *)
(* it to the end of a run without faults.                                  *)
(***************************************************************************)
EXTENDS Enroll, TLAPS

Steps == {"start", "key", "push", "sending", "pc", "done", "failed"}

CmdRecords ==
  [pc : {"wait", "unlock", "write", "verify", "finish", "close", "drain", "shutdown", "ended"},
   got : [phone : Phones, key : Nat] \cup {None}, attempts : Nat, failed : BOOLEAN]

SrvRecords ==
  [st : {"open", "shutdown", "down"}, done : [phone : Phones, key : Nat] \cup {None},
   phone : Phones \cup {None}, finished : BOOLEAN, told : BOOLEAN,
   polled : BOOLEAN, expired : BOOLEAN]

Calls == {"none", "options", "post", "checked", "posted", "result", "waiting", "good", "bad"}

PhoneRecords == [step : Steps, call : Calls, opts : BOOLEAN, key : Nat]

Typed ==
  /\ cmd \in CmdRecords /\ srv \in SrvRecords /\ phone \in [Phones -> PhoneRecords]
  /\ used \in [tries : Nat, faults : Nat]

\* The one enrollment: the command's once it has taken it.
Enrolled == IF cmd.got # None THEN cmd.got ELSE srv.done

\* The call a screen waits for.
CallOK(w) ==
  /\ w.step \in {"start", "push", "done", "failed"} => w.call = "none"
  /\ w.step = "key" => w.call \in {"none", "options"}
  /\ w.step = "sending" => w.call \in {"post", "checked", "posted"}
  /\ w.step = "pc" => w.call \in {"result", "waiting", "good", "bad"}

PastEnrolling(w) == w.step \in {"pc", "done"} \/ w.call = "posted"
HeardGood(w) == w.call = "good" \/ w.step = "done"

PhoneOK(p) ==
  /\ CallOK(phone[p])
  /\ PastEnrolling(phone[p]) =>
       srv.phone = p /\ Enrolled = [phone |-> p, key |-> phone[p].key]
  /\ HeardGood(phone[p]) => vault # None

CmdOK ==
  /\ cmd.got # None => cmd.got.phone = srv.phone
  /\ srv.done # None => srv.done.phone = srv.phone
  /\ cmd.pc = "wait" => cmd.got = None
  /\ cmd.pc \in {"wait", "unlock", "write"} => vault = None
  /\ cmd.pc \in {"unlock", "write", "verify"} => cmd.got # None
  /\ vault # None => vault = cmd.got
  /\ cmd.pc \in {"wait", "unlock", "write", "verify"} => ~srv.finished
  /\ cmd.pc = "verify" => vault # None
  /\ cmd.pc = "finish" \/ srv.finished => cmd.failed \/ vault # None

\* Without a fault the server is up until the command shuts it down, and a
\* command that has failed has not wrapped the vault.
CleanCmd ==
  /\ srv.told => srv.finished
  /\ used.faults = 0 =>
       /\ cmd.pc \notin {"shutdown", "ended"} => srv.st = "open"
       /\ cmd.pc # "ended" => srv.st # "down"
       /\ cmd.failed => vault = None /\ cmd.pc \notin {"wait", "unlock", "write", "verify"}
       /\ cmd.pc \in {"close", "drain", "shutdown", "ended"} => cmd.failed \/ srv.finished

Over == {"shutdown", "ended"}

\* Without a fault the phone that has enrolled, and has asked, keeps asking
\* until it is told.
CleanPhone(p) ==
  used.faults = 0 /\ srv.phone = p /\ ~cmd.failed =>
    /\ srv.st = "open" => PastEnrolling(phone[p]) /\ phone[p].call # "bad"
    /\ srv.told => HeardGood(phone[p])
    /\ srv.polled /\ ~srv.expired /\ cmd.pc \in Over =>
         HeardGood(phone[p]) \/ (phone[p].call = "waiting" /\ srv.st # "down")

EnrollInv ==
  /\ Typed /\ CmdOK /\ CleanCmd
  /\ \A p \in Phones : PhoneOK(p) /\ CleanPhone(p)

-----------------------------------------------------------------------------
(* Frames.                                                                 *)

\* A phone nothing is done to keeps what is said of it.
LEMMA PhoneKept ==
  ASSUME NEW p \in Phones, PhoneOK(p), phone'[p] = phone[p],
         srv'.phone = srv.phone, Enrolled' = Enrolled, vault # None => vault' # None
  PROVE  PhoneOK(p)'
BY DEF PhoneOK

\* So does the command when nobody enrolls.
LEMMA CmdKept ==
  ASSUME CmdOK, cmd' = cmd, vault' = vault, srv'.phone = srv.phone,
         srv'.done = srv.done, srv'.finished = srv.finished
  PROVE  CmdOK'
BY DEF CmdOK

\* A phone that goes from w0 to w without enrolling.
LEMMA PhoneGoes ==
  ASSUME NEW p \in Phones, PhoneOK(p), NEW w, phone'[p] = w, CallOK(w),
         PastEnrolling(w) => PastEnrolling(phone[p]) /\ w.key = phone[p].key,
         HeardGood(w) => HeardGood(phone[p]),
         srv'.phone = srv.phone, Enrolled' = Enrolled, vault' = vault
  PROVE  PhoneOK(p)'
BY DEF PhoneOK

\* One phone's screen changes.
LEMMA SetType ==
  ASSUME phone \in [Phones -> PhoneRecords], NEW p \in Phones, NEW w \in PhoneRecords, Set(p, w)
  PROVE  /\ phone' \in [Phones -> PhoneRecords] /\ phone'[p] = w
         /\ \A q \in Phones \ {p} : phone'[q] = phone[q]
BY DEF Set

\* A call that fails leaves a screen that waits for nothing.
LEMMA FailedIs ==
  ASSUME NEW p \in Phones, phone[p] \in PhoneRecords
  PROVE  /\ Failed(p) \in PhoneRecords /\ CallOK(Failed(p))
         /\ ~PastEnrolling(Failed(p)) /\ ~HeardGood(Failed(p))
<1>1. CASE phone[p].step = "pc" \/ p \in Apps
  <2>1. Failed(p) = [phone[p] EXCEPT !.step = "failed", !.call = "none"]
    BY <1>1 DEF Failed
  <2> DEFINE w == [phone[p] EXCEPT !.step = "failed", !.call = "none"]
  <2>2. w \in PhoneRecords /\ w.step = "failed" /\ w.call = "none"
    BY DEF PhoneRecords, Steps, Calls
  <2> QED
    BY <2>1, <2>2 DEF CallOK, PastEnrolling, HeardGood
<1>2. CASE ~(phone[p].step = "pc" \/ p \in Apps)
  <2>1. Failed(p) = [phone[p] EXCEPT !.step = "start", !.call = "none"]
    BY <1>2 DEF Failed
  <2> DEFINE w == [phone[p] EXCEPT !.step = "start", !.call = "none"]
  <2>2. w \in PhoneRecords /\ w.step = "start" /\ w.call = "none"
    BY DEF PhoneRecords, Steps, Calls
  <2> QED
    BY <2>1, <2>2 DEF CallOK, PastEnrolling, HeardGood
<1> QED
  BY <1>1, <1>2

LEMMA FaultUses ==
  ASSUME Typed, Fault PROVE used' \in [tries : Nat, faults : Nat] /\ used'.faults # 0
BY DEF Typed, Fault

-----------------------------------------------------------------------------
(* The command's steps.                                                    *)

\* A step of the command keeps all of it.
LEMMA CommandKeeps ==
  ASSUME EnrollInv,
         TakesEnrollment \/ GivesUp \/ Unlocks \/ UnlockFails \/ Stops \/ Writes
         \/ WriteFails \/ Verifies \/ VerifyFails \/ Finish \/ Close \/ Drained
         \/ DrainExpires \/ Shutdown \/ Down \/ Killed
  PROVE  EnrollInv'
<1>t. /\ cmd \in CmdRecords /\ srv \in SrvRecords /\ phone \in [Phones -> PhoneRecords]
      /\ used \in [tries : Nat, faults : Nat] /\ Typed
  BY DEF EnrollInv, Typed
<1>c. CmdOK /\ CleanCmd /\ \A p \in Phones : PhoneOK(p) /\ CleanPhone(p)
  BY DEF EnrollInv
<1>1. CASE TakesEnrollment
  <2>1. /\ cmd.pc = "wait" /\ srv.done # None
        /\ cmd' = [cmd EXCEPT !.pc = "unlock", !.got = srv.done]
        /\ srv' = [srv EXCEPT !.done = None]
        /\ vault' = vault /\ phone' = phone /\ used' = used
    BY <1>1 DEF TakesEnrollment
  <2>2. cmd' \in CmdRecords /\ cmd'.pc = "unlock" /\ cmd'.got = srv.done /\ cmd'.failed = cmd.failed
    BY <2>1, <1>t DEF CmdRecords, SrvRecords
  <2>3. /\ srv' \in SrvRecords /\ srv'.st = srv.st /\ srv'.done = None /\ srv'.phone = srv.phone
        /\ srv'.finished = srv.finished /\ srv'.told = srv.told /\ srv'.polled = srv.polled /\ srv'.expired = srv.expired
    BY <2>1, <1>t DEF SrvRecords
  <2>4. CmdOK'
    BY <2>1, <2>2, <2>3, <1>c DEF CmdOK
  <2>5. Enrolled' = Enrolled /\ srv'.phone = srv.phone /\ (vault # None => vault' # None)
    BY <2>1, <2>2, <2>3, <1>c DEF CmdOK, Enrolled
  <2>6. CleanCmd'
    BY <2>1, <2>2, <2>3, <1>c DEF CleanCmd, CmdOK
  <2>7. \A p \in Phones : CleanPhone(p)'
    BY <2>1, <2>2, <2>3, <1>c DEF CleanPhone, CleanCmd, Over
  <2>8. \A p \in Phones : PhoneOK(p)'
    BY <2>1, <2>5, <1>c, PhoneKept
  <2> QED
    BY <2>1, <2>2, <2>3, <2>4, <2>6, <2>7, <2>8, <1>t DEF EnrollInv, Typed
<1>2. CASE GivesUp
  <2>1. /\ cmd.pc = "wait"
        /\ cmd' = [cmd EXCEPT !.pc = "close", !.failed = TRUE]
        /\ srv' = srv
        /\ vault' = vault /\ phone' = phone /\ used' = used
    BY <1>2 DEF GivesUp
  <2>2. cmd' \in CmdRecords /\ cmd'.pc = "close" /\ cmd'.got = cmd.got /\ cmd'.failed
    BY <2>1, <1>t DEF CmdRecords, SrvRecords
  <2>3. srv' \in SrvRecords /\ srv' = srv
    BY <2>1, <1>t DEF SrvRecords
  <2>4. CmdOK'
    BY <2>1, <2>2, <2>3, <1>c DEF CmdOK
  <2>5. Enrolled' = Enrolled /\ srv'.phone = srv.phone /\ (vault # None => vault' # None)
    BY <2>1, <2>2, <2>3, <1>c DEF CmdOK, Enrolled
  <2>6. CleanCmd'
    BY <2>1, <2>2, <2>3, <1>c DEF CleanCmd, CmdOK
  <2>7. \A p \in Phones : CleanPhone(p)'
    BY <2>1, <2>2, <2>3, <1>c DEF CleanPhone, CleanCmd, Over
  <2>8. \A p \in Phones : PhoneOK(p)'
    BY <2>1, <2>5, <1>c, PhoneKept
  <2> QED
    BY <2>1, <2>2, <2>3, <2>4, <2>6, <2>7, <2>8, <1>t DEF EnrollInv, Typed
<1>3. CASE Unlocks
  <2>1. /\ cmd.pc = "unlock"
        /\ cmd' = [cmd EXCEPT !.pc = "write"]
        /\ srv' = srv
        /\ vault' = vault /\ phone' = phone /\ used' = used
    BY <1>3 DEF Unlocks
  <2>2. cmd' \in CmdRecords /\ cmd'.pc = "write" /\ cmd'.got = cmd.got /\ cmd'.failed = cmd.failed
    BY <2>1, <1>t DEF CmdRecords, SrvRecords
  <2>3. srv' \in SrvRecords /\ srv' = srv
    BY <2>1, <1>t DEF SrvRecords
  <2>4. CmdOK'
    BY <2>1, <2>2, <2>3, <1>c DEF CmdOK
  <2>5. Enrolled' = Enrolled /\ srv'.phone = srv.phone /\ (vault # None => vault' # None)
    BY <2>1, <2>2, <2>3, <1>c DEF CmdOK, Enrolled
  <2>6. CleanCmd'
    BY <2>1, <2>2, <2>3, <1>c DEF CleanCmd
  <2>7. \A p \in Phones : CleanPhone(p)'
    BY <2>1, <2>2, <2>3, <1>c DEF CleanPhone, CleanCmd, Over
  <2>8. \A p \in Phones : PhoneOK(p)'
    BY <2>1, <2>5, <1>c, PhoneKept
  <2> QED
    BY <2>1, <2>2, <2>3, <2>4, <2>6, <2>7, <2>8, <1>t DEF EnrollInv, Typed
<1>4. CASE Stops
  <2>1. /\ cmd.pc = "unlock"
        /\ cmd' = [cmd EXCEPT !.pc = "finish", !.failed = TRUE]
        /\ srv' = srv
        /\ vault' = vault /\ phone' = phone /\ used' = used
    BY <1>4 DEF Stops
  <2>2. cmd' \in CmdRecords /\ cmd'.pc = "finish" /\ cmd'.got = cmd.got /\ cmd'.failed
    BY <2>1, <1>t DEF CmdRecords, SrvRecords
  <2>3. srv' \in SrvRecords /\ srv' = srv
    BY <2>1, <1>t DEF SrvRecords
  <2>4. CmdOK'
    BY <2>1, <2>2, <2>3, <1>c DEF CmdOK
  <2>5. Enrolled' = Enrolled /\ srv'.phone = srv.phone /\ (vault # None => vault' # None)
    BY <2>1, <2>2, <2>3, <1>c DEF CmdOK, Enrolled
  <2>6. CleanCmd'
    BY <2>1, <2>2, <2>3, <1>c DEF CleanCmd, CmdOK
  <2>7. \A p \in Phones : CleanPhone(p)'
    BY <2>1, <2>2, <2>3, <1>c DEF CleanPhone, CleanCmd, Over
  <2>8. \A p \in Phones : PhoneOK(p)'
    BY <2>1, <2>5, <1>c, PhoneKept
  <2> QED
    BY <2>1, <2>2, <2>3, <2>4, <2>6, <2>7, <2>8, <1>t DEF EnrollInv, Typed
<1>5. CASE Writes
  <2>1. /\ cmd.pc = "write"
        /\ cmd' = [cmd EXCEPT !.pc = "verify"]
        /\ srv' = srv
        /\ vault' = cmd.got /\ phone' = phone /\ used' = used
    BY <1>5 DEF Writes
  <2>2. cmd' \in CmdRecords /\ cmd'.pc = "verify" /\ cmd'.got = cmd.got /\ cmd'.failed = cmd.failed
    BY <2>1, <1>t DEF CmdRecords, SrvRecords
  <2>3. srv' \in SrvRecords /\ srv' = srv
    BY <2>1, <1>t DEF SrvRecords
  <2>4. CmdOK'
    BY <2>1, <2>2, <2>3, <1>c DEF CmdOK
  <2>5. Enrolled' = Enrolled /\ srv'.phone = srv.phone /\ (vault # None => vault' # None)
    BY <2>1, <2>2, <2>3, <1>c DEF CmdOK, Enrolled
  <2>6. CleanCmd'
    BY <2>1, <2>2, <2>3, <1>c DEF CleanCmd, CmdOK
  <2>7. \A p \in Phones : CleanPhone(p)'
    BY <2>1, <2>2, <2>3, <1>c DEF CleanPhone, CleanCmd, Over
  <2>8. \A p \in Phones : PhoneOK(p)'
    BY <2>1, <2>5, <1>c, PhoneKept
  <2> QED
    BY <2>1, <2>2, <2>3, <2>4, <2>6, <2>7, <2>8, <1>t DEF EnrollInv, Typed
<1>6. CASE WriteFails
  <2>1. /\ cmd.pc = "write"
        /\ cmd' = [cmd EXCEPT !.pc = "finish", !.failed = TRUE]
        /\ srv' = srv
        /\ vault' = vault /\ phone' = phone /\ used'.faults # 0 /\ used' \in [tries : Nat, faults : Nat]
    BY <1>6, <1>t, FaultUses DEF WriteFails
  <2>2. cmd' \in CmdRecords /\ cmd'.pc = "finish" /\ cmd'.got = cmd.got /\ cmd'.failed
    BY <2>1, <1>t DEF CmdRecords, SrvRecords
  <2>3. srv' \in SrvRecords /\ srv' = srv
    BY <2>1, <1>t DEF SrvRecords
  <2>4. CmdOK'
    BY <2>1, <2>2, <2>3, <1>c DEF CmdOK
  <2>5. Enrolled' = Enrolled /\ srv'.phone = srv.phone /\ (vault # None => vault' # None)
    BY <2>1, <2>2, <2>3, <1>c DEF CmdOK, Enrolled
  <2>6. CleanCmd'
    BY <2>1, <2>2, <2>3, <1>c DEF CleanCmd
  <2>7. \A p \in Phones : CleanPhone(p)'
    BY <2>1, <2>2, <2>3, <1>c DEF CleanPhone, CleanCmd, Over
  <2>8. \A p \in Phones : PhoneOK(p)'
    BY <2>1, <2>5, <1>c, PhoneKept
  <2> QED
    BY <2>1, <2>2, <2>3, <2>4, <2>6, <2>7, <2>8, <1>t DEF EnrollInv, Typed
<1>7. CASE Verifies
  <2>1. /\ cmd.pc = "verify"
        /\ cmd' = [cmd EXCEPT !.pc = "finish"]
        /\ srv' = srv
        /\ vault' = vault /\ phone' = phone /\ used' = used
    BY <1>7 DEF Verifies
  <2>2. cmd' \in CmdRecords /\ cmd'.pc = "finish" /\ cmd'.got = cmd.got /\ cmd'.failed = cmd.failed
    BY <2>1, <1>t DEF CmdRecords, SrvRecords
  <2>3. srv' \in SrvRecords /\ srv' = srv
    BY <2>1, <1>t DEF SrvRecords
  <2>4. CmdOK'
    BY <2>1, <2>2, <2>3, <1>c DEF CmdOK
  <2>5. Enrolled' = Enrolled /\ srv'.phone = srv.phone /\ (vault # None => vault' # None)
    BY <2>1, <2>2, <2>3, <1>c DEF CmdOK, Enrolled
  <2>6. CleanCmd'
    BY <2>1, <2>2, <2>3, <1>c DEF CleanCmd
  <2>7. \A p \in Phones : CleanPhone(p)'
    BY <2>1, <2>2, <2>3, <1>c DEF CleanPhone, CleanCmd, Over
  <2>8. \A p \in Phones : PhoneOK(p)'
    BY <2>1, <2>5, <1>c, PhoneKept
  <2> QED
    BY <2>1, <2>2, <2>3, <2>4, <2>6, <2>7, <2>8, <1>t DEF EnrollInv, Typed
<1>8. CASE VerifyFails
  <2>1. /\ cmd.pc = "verify"
        /\ cmd' = [cmd EXCEPT !.pc = "finish", !.failed = TRUE]
        /\ srv' = srv
        /\ vault' = vault /\ phone' = phone /\ used'.faults # 0 /\ used' \in [tries : Nat, faults : Nat]
    BY <1>8, <1>t, FaultUses DEF VerifyFails
  <2>2. cmd' \in CmdRecords /\ cmd'.pc = "finish" /\ cmd'.got = cmd.got /\ cmd'.failed
    BY <2>1, <1>t DEF CmdRecords, SrvRecords
  <2>3. srv' \in SrvRecords /\ srv' = srv
    BY <2>1, <1>t DEF SrvRecords
  <2>4. CmdOK'
    BY <2>1, <2>2, <2>3, <1>c DEF CmdOK
  <2>5. Enrolled' = Enrolled /\ srv'.phone = srv.phone /\ (vault # None => vault' # None)
    BY <2>1, <2>2, <2>3, <1>c DEF CmdOK, Enrolled
  <2>6. CleanCmd'
    BY <2>1, <2>2, <2>3, <1>c DEF CleanCmd
  <2>7. \A p \in Phones : CleanPhone(p)'
    BY <2>1, <2>2, <2>3, <1>c DEF CleanPhone, CleanCmd, Over
  <2>8. \A p \in Phones : PhoneOK(p)'
    BY <2>1, <2>5, <1>c, PhoneKept
  <2> QED
    BY <2>1, <2>2, <2>3, <2>4, <2>6, <2>7, <2>8, <1>t DEF EnrollInv, Typed
<1>9. CASE Finish
  <2>1. /\ cmd.pc = "finish"
        /\ cmd' = [cmd EXCEPT !.pc = "close"]
        /\ srv' = [srv EXCEPT !.finished = TRUE]
        /\ vault' = vault /\ phone' = phone /\ used' = used
    BY <1>9 DEF Finish
  <2>2. cmd' \in CmdRecords /\ cmd'.pc = "close" /\ cmd'.got = cmd.got /\ cmd'.failed = cmd.failed
    BY <2>1, <1>t DEF CmdRecords, SrvRecords
  <2>3. /\ srv' \in SrvRecords /\ srv'.st = srv.st /\ srv'.done = srv.done /\ srv'.phone = srv.phone
        /\ srv'.finished = TRUE /\ srv'.told = srv.told /\ srv'.polled = srv.polled /\ srv'.expired = srv.expired
    BY <2>1, <1>t DEF SrvRecords
  <2>4. CmdOK'
    BY <2>1, <2>2, <2>3, <1>c DEF CmdOK
  <2>5. Enrolled' = Enrolled /\ srv'.phone = srv.phone /\ (vault # None => vault' # None)
    BY <2>1, <2>2, <2>3, <1>c DEF CmdOK, Enrolled
  <2>6. CleanCmd'
    BY <2>1, <2>2, <2>3, <1>c DEF CleanCmd
  <2>7. \A p \in Phones : CleanPhone(p)'
    BY <2>1, <2>2, <2>3, <1>c DEF CleanPhone, CleanCmd, Over
  <2>8. \A p \in Phones : PhoneOK(p)'
    BY <2>1, <2>5, <1>c, PhoneKept
  <2> QED
    BY <2>1, <2>2, <2>3, <2>4, <2>6, <2>7, <2>8, <1>t DEF EnrollInv, Typed
<1>10. CASE Drained
  <2>1. /\ cmd.pc = "drain" /\ Caught
        /\ cmd' = [cmd EXCEPT !.pc = "shutdown"]
        /\ srv' = srv
        /\ vault' = vault /\ phone' = phone /\ used' = used
    BY <1>10 DEF Drained
  <2>2. cmd' \in CmdRecords /\ cmd'.pc = "shutdown" /\ cmd'.got = cmd.got /\ cmd'.failed = cmd.failed
    BY <2>1, <1>t DEF CmdRecords, SrvRecords
  <2>3. srv' \in SrvRecords /\ srv' = srv
    BY <2>1, <1>t DEF SrvRecords
  <2>4. CmdOK'
    BY <2>1, <2>2, <2>3, <1>c DEF CmdOK
  <2>5. Enrolled' = Enrolled /\ srv'.phone = srv.phone /\ (vault # None => vault' # None)
    BY <2>1, <2>2, <2>3, <1>c DEF CmdOK, Enrolled
  <2>6. CleanCmd'
    BY <2>1, <2>2, <2>3, <1>c DEF CleanCmd, Caught
  <2>7. \A p \in Phones : CleanPhone(p)'
    BY <2>1, <2>2, <2>3, <1>c DEF CleanPhone, CleanCmd, Over, Caught
  <2>8. \A p \in Phones : PhoneOK(p)'
    BY <2>1, <2>5, <1>c, PhoneKept
  <2> QED
    BY <2>1, <2>2, <2>3, <2>4, <2>6, <2>7, <2>8, <1>t DEF EnrollInv, Typed
<1>11. CASE DrainExpires
  <2>1. /\ cmd.pc = "drain"
        /\ cmd' = [cmd EXCEPT !.pc = "shutdown"]
        /\ srv' = [srv EXCEPT !.expired = TRUE]
        /\ vault' = vault /\ phone' = phone /\ used' = used
    BY <1>11 DEF DrainExpires
  <2>2. cmd' \in CmdRecords /\ cmd'.pc = "shutdown" /\ cmd'.got = cmd.got /\ cmd'.failed = cmd.failed
    BY <2>1, <1>t DEF CmdRecords, SrvRecords
  <2>3. /\ srv' \in SrvRecords /\ srv'.st = srv.st /\ srv'.done = srv.done /\ srv'.phone = srv.phone
        /\ srv'.finished = srv.finished /\ srv'.told = srv.told /\ srv'.polled = srv.polled /\ srv'.expired = TRUE
    BY <2>1, <1>t DEF SrvRecords
  <2>4. CmdOK'
    BY <2>1, <2>2, <2>3, <1>c DEF CmdOK
  <2>5. Enrolled' = Enrolled /\ srv'.phone = srv.phone /\ (vault # None => vault' # None)
    BY <2>1, <2>2, <2>3, <1>c DEF CmdOK, Enrolled
  <2>6. CleanCmd'
    BY <2>1, <2>2, <2>3, <1>c DEF CleanCmd
  <2>7. \A p \in Phones : CleanPhone(p)'
    BY <2>1, <2>2, <2>3, <1>c DEF CleanPhone, CleanCmd, Over
  <2>8. \A p \in Phones : PhoneOK(p)'
    BY <2>1, <2>5, <1>c, PhoneKept
  <2> QED
    BY <2>1, <2>2, <2>3, <2>4, <2>6, <2>7, <2>8, <1>t DEF EnrollInv, Typed
<1>12. CASE Shutdown
  <2>1. /\ cmd.pc = "shutdown"
        /\ cmd' = cmd
        /\ srv' = [srv EXCEPT !.st = "shutdown"]
        /\ vault' = vault /\ phone' = phone /\ used' = used
    BY <1>12 DEF Shutdown
  <2>2. cmd' \in CmdRecords /\ cmd' = cmd
    BY <2>1, <1>t DEF CmdRecords, SrvRecords
  <2>3. /\ srv' \in SrvRecords /\ srv'.st = "shutdown" /\ srv'.done = srv.done /\ srv'.phone = srv.phone
        /\ srv'.finished = srv.finished /\ srv'.told = srv.told /\ srv'.polled = srv.polled /\ srv'.expired = srv.expired
    BY <2>1, <1>t DEF SrvRecords
  <2>4. CmdOK'
    BY <2>1, <2>2, <2>3, <1>c DEF CmdOK
  <2>5. Enrolled' = Enrolled /\ srv'.phone = srv.phone /\ (vault # None => vault' # None)
    BY <2>1, <2>2, <2>3, <1>c DEF CmdOK, Enrolled
  <2>6. CleanCmd'
    BY <2>1, <2>2, <2>3, <1>c DEF CleanCmd
  <2>7. \A p \in Phones : CleanPhone(p)'
    BY <2>1, <2>2, <2>3, <1>c DEF CleanPhone, CleanCmd, Over
  <2>8. \A p \in Phones : PhoneOK(p)'
    BY <2>1, <2>5, <1>c, PhoneKept
  <2> QED
    BY <2>1, <2>2, <2>3, <2>4, <2>6, <2>7, <2>8, <1>t DEF EnrollInv, Typed
<1>13. CASE Down
  <2>1. /\ cmd.pc = "shutdown" /\ (srv.finished => \A p \in Phones : phone[p].call # "waiting")
        /\ cmd' = [cmd EXCEPT !.pc = "ended"]
        /\ srv' = [srv EXCEPT !.st = "down"]
        /\ vault' = vault /\ phone' = phone /\ used' = used
    BY <1>13 DEF Down
  <2>2. cmd' \in CmdRecords /\ cmd'.pc = "ended" /\ cmd'.got = cmd.got /\ cmd'.failed = cmd.failed
    BY <2>1, <1>t DEF CmdRecords, SrvRecords
  <2>3. /\ srv' \in SrvRecords /\ srv'.st = "down" /\ srv'.done = srv.done /\ srv'.phone = srv.phone
        /\ srv'.finished = srv.finished /\ srv'.told = srv.told /\ srv'.polled = srv.polled /\ srv'.expired = srv.expired
    BY <2>1, <1>t DEF SrvRecords
  <2>4. CmdOK'
    BY <2>1, <2>2, <2>3, <1>c DEF CmdOK
  <2>5. Enrolled' = Enrolled /\ srv'.phone = srv.phone /\ (vault # None => vault' # None)
    BY <2>1, <2>2, <2>3, <1>c DEF CmdOK, Enrolled
  <2>6. CleanCmd'
    BY <2>1, <2>2, <2>3, <1>c DEF CleanCmd
  <2>7. \A p \in Phones : CleanPhone(p)'
    BY <2>1, <2>2, <2>3, <1>c DEF CleanPhone, CleanCmd, Over
  <2>8. \A p \in Phones : PhoneOK(p)'
    BY <2>1, <2>5, <1>c, PhoneKept
  <2> QED
    BY <2>1, <2>2, <2>3, <2>4, <2>6, <2>7, <2>8, <1>t DEF EnrollInv, Typed
<1>14. CASE Killed
  <2>1. /\ cmd.pc # "ended"
        /\ cmd' = [cmd EXCEPT !.pc = "ended", !.failed = TRUE]
        /\ srv' = [srv EXCEPT !.st = "down"]
        /\ vault' = vault /\ phone' = phone /\ used'.faults # 0 /\ used' \in [tries : Nat, faults : Nat]
    BY <1>14, <1>t, FaultUses DEF Killed
  <2>2. cmd' \in CmdRecords /\ cmd'.pc = "ended" /\ cmd'.got = cmd.got /\ cmd'.failed
    BY <2>1, <1>t DEF CmdRecords, SrvRecords
  <2>3. /\ srv' \in SrvRecords /\ srv'.st = "down" /\ srv'.done = srv.done /\ srv'.phone = srv.phone
        /\ srv'.finished = srv.finished /\ srv'.told = srv.told /\ srv'.polled = srv.polled /\ srv'.expired = srv.expired
    BY <2>1, <1>t DEF SrvRecords
  <2>4. CmdOK'
    BY <2>1, <2>2, <2>3, <1>c DEF CmdOK
  <2>5. Enrolled' = Enrolled /\ srv'.phone = srv.phone /\ (vault # None => vault' # None)
    BY <2>1, <2>2, <2>3, <1>c DEF CmdOK, Enrolled
  <2>6. CleanCmd'
    BY <2>1, <2>2, <2>3, <1>c DEF CleanCmd
  <2>7. \A p \in Phones : CleanPhone(p)'
    BY <2>1, <2>2, <2>3, <1>c DEF CleanPhone, CleanCmd, Over
  <2>8. \A p \in Phones : PhoneOK(p)'
    BY <2>1, <2>5, <1>c, PhoneKept
  <2> QED
    BY <2>1, <2>2, <2>3, <2>4, <2>6, <2>7, <2>8, <1>t DEF EnrollInv, Typed
<1>15. CASE UnlockFails
  <2>1. cmd.pc = "unlock" /\ srv' = srv /\ vault' = vault /\ phone' = phone /\ used' = used
    BY <1>15 DEF UnlockFails
  <2>2. \/ cmd' = [cmd EXCEPT !.pc = "finish", !.failed = TRUE]
        \/ cmd' = [cmd EXCEPT !.attempts = cmd.attempts + 1]
    BY <1>15 DEF UnlockFails
  <2>3. /\ cmd' \in CmdRecords /\ cmd'.got = cmd.got
        /\ (cmd'.pc = "finish" /\ cmd'.failed) \/ (cmd'.pc = "unlock" /\ cmd'.failed = cmd.failed)
    <3>1. CASE cmd' = [cmd EXCEPT !.pc = "finish", !.failed = TRUE]
      BY <3>1, <1>t DEF CmdRecords
    <3>2. CASE cmd' = [cmd EXCEPT !.attempts = cmd.attempts + 1]
      <4>1. cmd.attempts + 1 \in Nat
        BY <1>t DEF CmdRecords
      <4>2. cmd' \in CmdRecords /\ cmd'.got = cmd.got /\ cmd'.pc = cmd.pc /\ cmd'.failed = cmd.failed
        BY <3>2, <4>1, <1>t DEF CmdRecords
      <4> QED
        BY <4>2, <2>1
    <3> QED
      BY <3>1, <3>2, <2>2
  <2>4. CmdOK'
    BY <2>1, <2>3, <1>c DEF CmdOK
  <2>5. Enrolled' = Enrolled
    BY <2>1, <2>3 DEF Enrolled
  <2>6. CleanCmd'
    BY <2>1, <2>3, <1>c DEF CleanCmd, CmdOK
  <2>7. \A p \in Phones : CleanPhone(p)'
    BY <2>1, <2>3, <1>c DEF CleanPhone, CleanCmd, Over
  <2>8. \A p \in Phones : PhoneOK(p)'
    BY <2>1, <2>5, <1>c, PhoneKept
  <2> QED
    BY <2>1, <2>3, <2>4, <2>6, <2>7, <2>8, <1>t DEF EnrollInv, Typed
<1>16. CASE Close
  <2>1. cmd.pc = "close" /\ srv' = srv /\ vault' = vault /\ phone' = phone /\ used' = used
    BY <1>16 DEF Close
  <2>2. \/ srv.polled /\ cmd' = [cmd EXCEPT !.pc = "drain"]
        \/ ~srv.polled /\ cmd' = [cmd EXCEPT !.pc = "shutdown"]
    BY <1>16 DEF Close
  <2>3. /\ cmd' \in CmdRecords /\ cmd'.got = cmd.got
        /\ cmd'.failed = cmd.failed /\ cmd'.pc = IF srv.polled THEN "drain" ELSE "shutdown"
    BY <2>1, <2>2, <1>t DEF CmdRecords
  <2>4. CmdOK'
    BY <2>1, <2>3, <1>c DEF CmdOK
  <2>5. Enrolled' = Enrolled
    BY <2>1, <2>3 DEF Enrolled
  <2>6. CleanCmd'
    BY <2>1, <2>3, <1>c DEF CleanCmd, CmdOK
  <2>7. \A p \in Phones : CleanPhone(p)'
    BY <2>1, <2>3, <1>c DEF CleanPhone, CleanCmd, Over
  <2>8. \A p \in Phones : PhoneOK(p)'
    BY <2>1, <2>5, <1>c, PhoneKept
  <2> QED
    BY <2>1, <2>3, <2>4, <2>6, <2>7, <2>8, <1>t DEF EnrollInv, Typed
<1> QED
  BY <1>1, <1>2, <1>3, <1>4, <1>5, <1>6, <1>7, <1>8, <1>9, <1>10, <1>11, <1>12, <1>13, <1>14, <1>15, <1>16

-----------------------------------------------------------------------------
(* The phones' steps.                                                      *)

\* A phone that goes from its screen to w, when the PC does nothing.
LEMMA PhoneStep ==
  ASSUME EnrollInv, NEW p \in Phones, NEW w \in PhoneRecords, Set(p, w),
         cmd' = cmd, srv' = srv, vault' = vault,
         used' \in [tries : Nat, faults : Nat], used'.faults = 0 => used.faults = 0,
         CallOK(w),
         PastEnrolling(w) => PastEnrolling(phone[p]) /\ w.key = phone[p].key,
         HeardGood(w) => HeardGood(phone[p]),
         phone'[p] = w => CleanPhone(p)'
  PROVE  EnrollInv'
<1>t. /\ cmd \in CmdRecords /\ srv \in SrvRecords /\ phone \in [Phones -> PhoneRecords]
      /\ CmdOK /\ CleanCmd
  BY DEF EnrollInv, Typed
<1>c. \A q \in Phones : PhoneOK(q) /\ CleanPhone(q)
  BY DEF EnrollInv
<1>1. /\ phone' \in [Phones -> PhoneRecords] /\ phone'[p] = w
      /\ \A q \in Phones \ {p} : phone'[q] = phone[q]
  BY <1>t, SetType
<1>2. Enrolled' = Enrolled
  BY DEF Enrolled
<1>3. CmdOK'
  BY <1>t, CmdKept
<1>4. CleanCmd'
  BY <1>t DEF CleanCmd
<1>5. ASSUME NEW q \in Phones PROVE PhoneOK(q)'
  <2>1. CASE q = p
    BY <2>1, <1>1, <1>2, <1>c, PhoneGoes
  <2>2. CASE q # p
    BY <2>2, <1>1, <1>2, <1>c, PhoneKept
  <2> QED
    BY <2>1, <2>2
<1>6. ASSUME NEW q \in Phones PROVE CleanPhone(q)'
  <2>1. CASE q = p
    BY <2>1, <1>1
  <2>2. CASE q # p
    <3>1. phone'[q] = phone[q] /\ CleanPhone(q)
      BY <2>2, <1>1, <1>c
    <3> QED
      BY <3>1 DEF CleanPhone, PastEnrolling, HeardGood
  <2> QED
    BY <2>1, <2>2
<1> QED
  BY <1>t, <1>1, <1>3, <1>4, <1>5, <1>6 DEF EnrollInv, Typed

\* A phone that has not enrolled can do as it likes.
LEMMA EarlyStep ==
  ASSUME EnrollInv, NEW p \in Phones, NEW w \in PhoneRecords, Set(p, w),
         cmd' = cmd, srv' = srv, vault' = vault,
         used' \in [tries : Nat, faults : Nat], used'.faults = used.faults,
         CallOK(w), ~PastEnrolling(phone[p]), ~PastEnrolling(w)
  PROVE  EnrollInv'
<1>1. PhoneOK(p) /\ CleanPhone(p)
  BY DEF EnrollInv
<1>2. ~HeardGood(phone[p]) /\ ~HeardGood(w) /\ phone[p].call # "waiting"
  <2>1. phone[p] \in PhoneRecords
    BY DEF EnrollInv, Typed
  <2> QED
    BY <1>1, <2>1 DEF PhoneOK, CallOK, PastEnrolling, HeardGood, PhoneRecords, Steps
<1>3. phone'[p] = w => CleanPhone(p)'
  BY <1>1, <1>2 DEF CleanPhone
<1> QED
  BY <1>2, <1>3, PhoneStep

\* What a phone's screen says of its call.
LEMMA PhoneFacts ==
  ASSUME EnrollInv, NEW p \in Phones
  PROVE  /\ phone[p] \in PhoneRecords /\ PhoneOK(p) /\ CleanPhone(p)
         /\ used \in [tries : Nat, faults : Nat] /\ srv \in SrvRecords /\ cmd \in CmdRecords
         /\ CmdOK /\ CleanCmd
         /\ phone[p].call \in {"options", "post", "checked", "none"} /\ phone[p].step # "done"
              => ~PastEnrolling(phone[p])
         /\ phone[p].call = "none" => phone[p].step \in {"start", "key", "push", "done", "failed"}
         /\ phone[p].call \in {"posted", "result", "waiting", "good", "bad"} => PastEnrolling(phone[p])
         /\ phone[p].call # "none" => phone[p].step # "done"
         /\ phone[p].call \in {"result", "waiting", "good", "bad"} => phone[p].step = "pc"
<1>1. phone[p] \in PhoneRecords /\ PhoneOK(p)
  BY DEF EnrollInv, Typed
<1>2. CallOK(phone[p])
  BY <1>1 DEF PhoneOK
<1>3. phone[p].step \in Steps
  BY <1>1 DEF PhoneRecords
<1> QED
  BY <1>1, <1>2, <1>3 DEF EnrollInv, Typed, CallOK, PastEnrolling, Steps

\* A call fails before the phone has enrolled, or with a fault, or when the
\* vault or the answer says so.
LEMMA FailStep ==
  ASSUME EnrollInv, NEW p \in Phones, Set(p, Failed(p)),
         cmd' = cmd, srv' = srv, vault' = vault,
         used' \in [tries : Nat, faults : Nat],
         \/ used'.faults # 0
         \/ used' = used /\ ~PastEnrolling(phone[p])
         \/ used' = used /\ phone[p].call = "bad"
         \/ used' = used /\ phone[p].call = "result" /\ srv.st # "open"
         \/ used' = used /\ phone[p].call = "waiting" /\ srv.st = "down"
  PROVE  EnrollInv'
<1>1. /\ Failed(p) \in PhoneRecords /\ CallOK(Failed(p))
      /\ ~PastEnrolling(Failed(p)) /\ ~HeardGood(Failed(p))
  BY PhoneFacts, FailedIs
<1>2. CASE used'.faults # 0
  <2>1. phone'[p] = Failed(p) => CleanPhone(p)'
    BY <1>2 DEF CleanPhone
  <2> QED
    BY <1>1, <1>2, <2>1, PhoneStep
<1>3. CASE used' = used /\ ~PastEnrolling(phone[p])
  BY <1>1, <1>3, EarlyStep
<1>4. CASE /\ used' = used
           /\ \/ phone[p].call = "bad"
              \/ phone[p].call = "result" /\ srv.st # "open"
              \/ phone[p].call = "waiting" /\ srv.st = "down"
  <2>1. /\ CleanPhone(p) /\ CleanCmd /\ phone[p].step = "pc" /\ cmd \in CmdRecords
        /\ srv \in SrvRecords
    BY <1>4, PhoneFacts
  <2>2. ~HeardGood(phone[p])
    BY <2>1, <1>4 DEF HeardGood
  <2>3. used.faults = 0 /\ srv.phone = p /\ ~cmd.failed =>
          srv.st # "open" /\ ~srv.told /\ (srv.polled /\ ~srv.expired => cmd.pc \notin Over)
    BY <2>1, <2>2, <1>4 DEF CleanPhone
  <2>4. CleanPhone(p)'
    BY <2>3, <1>4 DEF CleanPhone
  <2> QED
    BY <1>1, <1>4, <2>4, PhoneStep
<1> QED
  BY <1>2, <1>3, <1>4

\* The person's steps at a phone.
LEMMA PersonKeeps ==
  ASSUME EnrollInv, NEW p \in Phones,
         UseKey(p) \/ KeyAnswers(p) \/ KeyFails(p) \/ Send(p) \/ Again(p)
  PROVE  EnrollInv'
<1>f. /\ phone[p] \in PhoneRecords /\ PhoneOK(p) /\ CleanPhone(p)
      /\ used \in [tries : Nat, faults : Nat] /\ srv \in SrvRecords /\ cmd \in CmdRecords
      /\ CmdOK /\ CleanCmd
      /\ phone[p].call \in {"options", "post", "checked", "none"} /\ phone[p].step # "done"
           => ~PastEnrolling(phone[p])
      /\ phone[p].call = "none" => phone[p].step \in {"start", "key", "push", "done", "failed"}
      /\ phone[p].call \in {"posted", "result", "waiting", "good", "bad"} => PastEnrolling(phone[p])
      /\ phone[p].call # "none" => phone[p].step # "done"
      /\ phone[p].call \in {"result", "waiting", "good", "bad"} => phone[p].step = "pc"
  BY PhoneFacts
<1>n. phone[p].step \in {"start", "push", "failed"} => phone[p].call = "none"
  BY <1>f DEF PhoneOK, CallOK
<1>1. CASE UseKey(p)
  <2> DEFINE w == [phone[p] EXCEPT !.step = "key", !.call = IF phone[p].opts THEN "none" ELSE "options"]
  <2>1. phone[p].step = "start" /\ Set(p, w) /\ cmd' = cmd /\ srv' = srv /\ vault' = vault
        /\ used' = [used EXCEPT !.tries = used.tries + 1]
    BY <1>1 DEF UseKey
  <2>2. w \in PhoneRecords /\ w.step = "key" /\ w.call \in {"none", "options"}
    BY <1>f DEF PhoneRecords, Steps, Calls
  <2>3. CallOK(w) /\ ~PastEnrolling(w)
    BY <2>1, <2>2 DEF CallOK, PastEnrolling
  <2>4. ~PastEnrolling(phone[p])
    BY <2>1, <1>f, <1>n
  <2>5. used' \in [tries : Nat, faults : Nat] /\ used'.faults = used.faults
    BY <2>1, <1>f
  <2> HIDE DEF w
  <2> QED
    BY <2>1, <2>2, <2>3, <2>4, <2>5, EarlyStep
<1>2. CASE KeyAnswers(p)
  <2> DEFINE w == [phone[p] EXCEPT !.key = used.tries, !.step = IF p \in Apps THEN "sending" ELSE "push",
                                !.call = IF p \in Apps THEN "post" ELSE "none"]
  <2>1. phone[p].step = "key" /\ phone[p].call = "none" /\ Set(p, w) /\ cmd' = cmd /\ srv' = srv /\ vault' = vault
        /\ used' = used
    BY <1>2 DEF KeyAnswers
  <2>t. used.tries \in Nat
    BY <1>f
  <2>2. w \in PhoneRecords /\ <<w.step, w.call>> \in {<<"sending", "post">>, <<"push", "none">>}
    BY <1>f, <2>t DEF PhoneRecords, Steps, Calls
  <2>3. CallOK(w) /\ ~PastEnrolling(w)
    BY <2>1, <2>2 DEF CallOK, PastEnrolling
  <2>4. ~PastEnrolling(phone[p])
    BY <2>1, <1>f
  <2>5. used' \in [tries : Nat, faults : Nat] /\ used'.faults = used.faults
    BY <2>1, <1>f
  <2> HIDE DEF w
  <2> QED
    BY <2>1, <2>2, <2>3, <2>4, <2>5, EarlyStep
<1>3. CASE KeyFails(p)
  BY <1>3, <1>f, FailStep DEF KeyFails
<1>4. CASE Send(p)
  <2> DEFINE w == [phone[p] EXCEPT !.step = "sending", !.call = "post"]
  <2>1. phone[p].step = "push" /\ Set(p, w) /\ cmd' = cmd /\ srv' = srv /\ vault' = vault
        /\ used' = used
    BY <1>4 DEF Send
  <2>2. w \in PhoneRecords /\ w.step = "sending" /\ w.call = "post"
    BY <1>f DEF PhoneRecords, Steps, Calls
  <2>3. CallOK(w) /\ ~PastEnrolling(w)
    BY <2>1, <2>2 DEF CallOK, PastEnrolling
  <2>4. ~PastEnrolling(phone[p])
    BY <2>1, <1>f, <1>n
  <2>5. used' \in [tries : Nat, faults : Nat] /\ used'.faults = used.faults
    BY <2>1, <1>f
  <2> HIDE DEF w
  <2> QED
    BY <2>1, <2>2, <2>3, <2>4, <2>5, EarlyStep
<1>5. CASE Again(p)
  <2> DEFINE w == [phone[p] EXCEPT !.step = "start", !.opts = FALSE]
  <2>1. phone[p].step = "failed" /\ Set(p, w) /\ cmd' = cmd /\ srv' = srv /\ vault' = vault
        /\ used' = used
    BY <1>5 DEF Again
  <2>2. w \in PhoneRecords /\ w.step = "start" /\ w.call = phone[p].call
    BY <1>f DEF PhoneRecords, Steps, Calls
  <2>3. CallOK(w) /\ ~PastEnrolling(w)
    BY <2>1, <2>2, <1>n DEF CallOK, PastEnrolling
  <2>4. ~PastEnrolling(phone[p])
    BY <2>1, <1>f, <1>n
  <2>5. used' \in [tries : Nat, faults : Nat] /\ used'.faults = used.faults
    BY <2>1, <1>f
  <2> HIDE DEF w
  <2> QED
    BY <2>1, <2>2, <2>3, <2>4, <2>5, EarlyStep
<1> QED
  BY <1>1, <1>2, <1>3, <1>4, <1>5

\* A call that neither enrolls the phone nor tells the PC anything.
LEMMA CallKeeps ==
  ASSUME EnrollInv, NEW p \in Phones,
         \/ Options(p) \/ PostArrives(p) \/ GetsToken(p) \/ TimesOut(p)
         \/ HearsGood(p) \/ HearsBad(p) \/ Unanswered(p) \/ CallLost(p)
  PROVE  EnrollInv'
<1>f. /\ phone[p] \in PhoneRecords /\ PhoneOK(p) /\ CleanPhone(p)
      /\ used \in [tries : Nat, faults : Nat] /\ srv \in SrvRecords /\ cmd \in CmdRecords
      /\ CmdOK /\ CleanCmd
      /\ phone[p].call \in {"options", "post", "checked", "none"} /\ phone[p].step # "done"
           => ~PastEnrolling(phone[p])
      /\ phone[p].call = "none" => phone[p].step \in {"start", "key", "push", "done", "failed"}
      /\ phone[p].call \in {"posted", "result", "waiting", "good", "bad"} => PastEnrolling(phone[p])
      /\ phone[p].call # "none" => phone[p].step # "done"
      /\ phone[p].call \in {"result", "waiting", "good", "bad"} => phone[p].step = "pc"
  BY PhoneFacts
<1>1. CASE Options(p) /\ LinkIsGood
  <2> DEFINE w == [phone[p] EXCEPT !.call = "none", !.opts = TRUE]
  <2>1. phone[p].call = "options" /\ Set(p, w) /\ cmd' = cmd /\ srv' = srv /\ vault' = vault
        /\ used' = used
    BY <1>1 DEF Options
  <2>2. w \in PhoneRecords /\ w.step = phone[p].step /\ w.call = "none"
    BY <1>f DEF PhoneRecords, Steps, Calls
  <2>3. CallOK(w) /\ ~PastEnrolling(w)
    BY <2>1, <2>2, <1>f DEF PhoneOK, CallOK, PastEnrolling
  <2>4. ~PastEnrolling(phone[p])
    BY <2>1, <1>f
  <2>5. used' \in [tries : Nat, faults : Nat] /\ used'.faults = used.faults
    BY <2>1, <1>f
  <2> HIDE DEF w
  <2> QED
    BY <2>1, <2>2, <2>3, <2>4, <2>5, EarlyStep
<1>2. CASE Options(p) /\ ~LinkIsGood
  BY <1>2, <1>f, FailStep DEF Options
<1>3. CASE PostArrives(p) /\ LinkIsGood
  <2> DEFINE w == [phone[p] EXCEPT !.call = "checked"]
  <2>1. phone[p].call = "post" /\ Set(p, w) /\ cmd' = cmd /\ srv' = srv /\ vault' = vault
        /\ used' = used
    BY <1>3 DEF PostArrives
  <2>2. w \in PhoneRecords /\ w.step = phone[p].step /\ w.call = "checked"
    BY <1>f DEF PhoneRecords, Steps, Calls
  <2>3. CallOK(w) /\ ~PastEnrolling(w)
    BY <2>1, <2>2, <1>f DEF PhoneOK, CallOK, PastEnrolling
  <2>4. ~PastEnrolling(phone[p])
    BY <2>1, <1>f
  <2>5. used' \in [tries : Nat, faults : Nat] /\ used'.faults = used.faults
    BY <2>1, <1>f
  <2> HIDE DEF w
  <2> QED
    BY <2>1, <2>2, <2>3, <2>4, <2>5, EarlyStep
<1>4. CASE PostArrives(p) /\ ~LinkIsGood
  BY <1>4, <1>f, FailStep DEF PostArrives
<1>5. CASE GetsToken(p)
  <2> DEFINE w == [phone[p] EXCEPT !.step = "pc", !.call = "result"]
  <2>1. phone[p].call = "posted" /\ Set(p, w) /\ cmd' = cmd /\ srv' = srv /\ vault' = vault
        /\ used' = used
    BY <1>5 DEF GetsToken
  <2>2. w \in PhoneRecords /\ w.step = "pc" /\ w.call = "result" /\ w.key = phone[p].key
    BY <2>1, <1>f DEF PhoneRecords, Steps, Calls
  <2>3. CallOK(w)
    BY <2>1, <2>2, <1>f DEF CallOK
  <2>4. PastEnrolling(phone[p]) /\ (HeardGood(w) => HeardGood(phone[p]))
    BY <2>1, <2>2, <1>f DEF HeardGood
  <2>5. phone'[p] = w => CleanPhone(p)'
    BY <2>1, <2>2, <1>f DEF CleanPhone, PastEnrolling, HeardGood, CleanCmd, Over
  <2> HIDE DEF w
  <2> QED
    BY <2>1, <2>2, <2>3, <2>4, <2>5, <1>f, PhoneStep
<1>6. CASE TimesOut(p)
  <2> DEFINE w == [phone[p] EXCEPT !.call = "result"]
  <2>1. phone[p].call = "waiting" /\ ~srv.finished /\ Set(p, w) /\ cmd' = cmd /\ srv' = srv /\ vault' = vault
        /\ used' = used
    BY <1>6 DEF TimesOut
  <2>2. w \in PhoneRecords /\ w.step = phone[p].step /\ w.call = "result" /\ w.key = phone[p].key
    BY <2>1, <1>f DEF PhoneRecords, Steps, Calls
  <2>3. CallOK(w)
    BY <2>1, <2>2, <1>f DEF CallOK
  <2>4. PastEnrolling(phone[p]) /\ (HeardGood(w) => HeardGood(phone[p]))
    BY <2>1, <2>2, <1>f DEF HeardGood
  <2>5. phone'[p] = w => CleanPhone(p)'
    BY <2>1, <2>2, <1>f DEF CleanPhone, PastEnrolling, HeardGood, CleanCmd, Over
  <2> HIDE DEF w
  <2> QED
    BY <2>1, <2>2, <2>3, <2>4, <2>5, <1>f, PhoneStep
<1>7. CASE HearsGood(p)
  <2> DEFINE w == [phone[p] EXCEPT !.step = "done", !.call = "none"]
  <2>1. phone[p].call = "good" /\ Set(p, w) /\ cmd' = cmd /\ srv' = srv /\ vault' = vault
        /\ used' = used
    BY <1>7 DEF HearsGood
  <2>2. w \in PhoneRecords /\ w.step = "done" /\ w.call = "none" /\ w.key = phone[p].key
    BY <2>1, <1>f DEF PhoneRecords, Steps, Calls
  <2>3. CallOK(w)
    BY <2>1, <2>2, <1>f DEF CallOK
  <2>4. PastEnrolling(phone[p]) /\ (HeardGood(w) => HeardGood(phone[p]))
    BY <2>1, <2>2, <1>f DEF HeardGood
  <2>5. phone'[p] = w => CleanPhone(p)'
    BY <2>1, <2>2, <1>f DEF CleanPhone, PastEnrolling, HeardGood, CleanCmd, Over
  <2> HIDE DEF w
  <2> QED
    BY <2>1, <2>2, <2>3, <2>4, <2>5, <1>f, PhoneStep
<1>8. CASE HearsBad(p)
  BY <1>8, <1>f, FailStep DEF HearsBad
<1>9. CASE Unanswered(p)
  <2>1. /\ Set(p, Failed(p)) /\ cmd' = cmd /\ srv' = srv /\ vault' = vault /\ used' = used
        /\ \/ phone[p].call \in {"options", "post", "checked"}
           \/ phone[p].call = "result" /\ srv.st # "open"
           \/ phone[p].call = "waiting" /\ srv.st = "down"
    BY <1>9 DEF Unanswered
  <2> QED
    BY <2>1, <1>f, FailStep
<1>10. CASE CallLost(p)
  <2>1. Set(p, Failed(p)) /\ Fault /\ cmd' = cmd /\ srv' = srv /\ vault' = vault
    BY <1>10 DEF CallLost
  <2>2. Typed
    BY DEF EnrollInv
  <2> QED
    BY <2>1, <2>2, FaultUses, FailStep
<1> QED
  BY <1>1, <1>2, <1>3, <1>4, <1>5, <1>6, <1>7, <1>8, <1>9, <1>10

\* The link is used: no phone is past enrolling and the command has nothing.
LEMMA EnrollsKeeps ==
  ASSUME EnrollInv, NEW p \in Phones, Enrolls(p)
  PROVE  EnrollInv'
<1>f. /\ phone[p] \in PhoneRecords /\ PhoneOK(p) /\ CleanPhone(p)
      /\ used \in [tries : Nat, faults : Nat] /\ srv \in SrvRecords /\ cmd \in CmdRecords
      /\ CmdOK /\ CleanCmd
      /\ phone[p].call \in {"options", "post", "checked", "none"} /\ phone[p].step # "done"
           => ~PastEnrolling(phone[p])
      /\ phone[p].call = "none" => phone[p].step \in {"start", "key", "push", "done", "failed"}
      /\ phone[p].call \in {"posted", "result", "waiting", "good", "bad"} => PastEnrolling(phone[p])
      /\ phone[p].call # "none" => phone[p].step # "done"
      /\ phone[p].call \in {"result", "waiting", "good", "bad"} => phone[p].step = "pc"
  BY PhoneFacts
<1>1. phone[p].call = "checked" /\ srv.st # "down" /\ cmd' = cmd /\ vault' = vault /\ used' = used
  BY DEF Enrolls
<1>2. CASE ~LinkIsGood
  <2>1. Set(p, Failed(p)) /\ srv' = srv
    BY <1>2 DEF Enrolls
  <2> QED
    BY <1>1, <2>1, <1>f, FailStep
<1>3. CASE LinkIsGood
  <2> DEFINE w == [phone[p] EXCEPT !.call = "posted"]
             e == [phone |-> p, key |-> phone[p].key]
  <2>1. Set(p, w) /\ srv' = [srv EXCEPT !.phone = p, !.done = e] /\ srv.phone = None
    BY <1>3 DEF Enrolls, LinkIsGood
  <2>2. w \in PhoneRecords /\ w.step = phone[p].step /\ w.call = "posted" /\ w.key = phone[p].key
    BY <1>f DEF PhoneRecords, Calls
  <2>3. phone[p].key \in Nat
    BY <1>f DEF PhoneRecords
  <2>4. e \in [phone : Phones, key : Nat] /\ e.phone = p
    BY <2>3
  <2> HIDE DEF w, e
  <2>5. /\ srv' \in SrvRecords /\ srv'.phone = p /\ srv'.done = e /\ srv'.st = srv.st
        /\ srv'.finished = srv.finished /\ srv'.told = srv.told
        /\ srv'.polled = srv.polled /\ srv'.expired = srv.expired
    BY <2>1, <2>4, <1>f DEF SrvRecords
  <2>6. phone \in [Phones -> PhoneRecords]
    BY DEF EnrollInv, Typed
  <2>7. /\ phone' \in [Phones -> PhoneRecords] /\ phone'[p] = w
        /\ \A q \in Phones \ {p} : phone'[q] = phone[q]
    BY <2>1, <2>2, <2>6, SetType
  <2>p. p # None
    BY EnrollAssumption
  <2>8. cmd.got = None /\ vault = None
    <3>1. cmd.got = None \/ cmd.got \in [phone : Phones, key : Nat]
      BY <1>f DEF CmdRecords
    <3>2. cmd.got # None => cmd.got.phone \in Phones
      BY <3>1
    <3>3. cmd.got = None
      BY <3>2, <2>1, <1>f, EnrollAssumption DEF CmdOK
    <3> QED
      BY <3>3, <1>f DEF CmdOK
  <2>9. Enrolled' = e
    BY <2>8, <2>5, <1>1 DEF Enrolled
  <2>10. CmdOK'
    BY <2>5, <2>8, <2>4, <1>1, <1>f DEF CmdOK
  <2>11. CleanCmd'
    BY <2>5, <1>1, <1>f DEF CleanCmd
  <2>12. ASSUME NEW q \in Phones PROVE ~PastEnrolling(phone[q]) /\ ~HeardGood(phone[q]) /\ CallOK(phone[q])
    <3>1. PhoneOK(q) /\ phone[q] \in PhoneRecords
      BY DEF EnrollInv, Typed
    <3>2. ~PastEnrolling(phone[q]) /\ CallOK(phone[q]) /\ ~HeardGood(phone[q])
      BY <3>1, <2>1, <2>8, EnrollAssumption DEF PhoneOK
    <3> QED
      BY <3>2
  <2>13. ASSUME NEW q \in Phones PROVE PhoneOK(q)'
    <3>1. CASE q = p
      <4>1. CallOK(w) /\ ~HeardGood(w)
        BY <2>2, <2>12, <1>1 DEF CallOK, HeardGood
      <4>2. e = [phone |-> p, key |-> w.key]
        BY <2>2 DEF e
      <4> QED
        BY <4>1, <4>2, <3>1, <2>5, <2>7, <2>9 DEF PhoneOK
    <3>2. CASE q # p
      BY <3>2, <2>7, <2>12 DEF PhoneOK
    <3> QED
      BY <3>1, <3>2
  <2>14. ASSUME NEW q \in Phones PROVE CleanPhone(q)'
    <3>1. CASE q = p
      <4>1. PastEnrolling(w) /\ w.call = "posted"
        BY <2>2 DEF PastEnrolling
      <4>2. srv.told => cmd.failed \/ vault # None
        BY <1>f DEF CleanCmd, CmdOK
      <4>3. used.faults = 0 /\ ~cmd.failed => cmd.pc \notin Over
        BY <1>f, <2>8 DEF CleanCmd, CmdOK, Over
      <4> QED
        BY <4>1, <4>2, <4>3, <3>1, <2>5, <2>7, <2>8, <1>1 DEF CleanPhone
    <3>2. CASE q # p
      BY <3>2, <2>5 DEF CleanPhone
    <3> QED
      BY <3>1, <3>2
  <2> QED
    BY <1>1, <1>f, <2>5, <2>7, <2>10, <2>11, <2>13, <2>14 DEF EnrollInv, Typed
<1> QED
  BY <1>2, <1>3

\* The enrolled phone asks, and is told how it ended: by a command that has
\* finished.
LEMMA ResultKeeps ==
  ASSUME EnrollInv, NEW p \in Phones, ResultArrives(p) \/ ResultIs(p)
  PROVE  EnrollInv'
<1>f. /\ phone[p] \in PhoneRecords /\ PhoneOK(p) /\ CleanPhone(p)
      /\ used \in [tries : Nat, faults : Nat] /\ srv \in SrvRecords /\ cmd \in CmdRecords
      /\ CmdOK /\ CleanCmd
      /\ phone[p].call \in {"options", "post", "checked", "none"} /\ phone[p].step # "done"
           => ~PastEnrolling(phone[p])
      /\ phone[p].call = "none" => phone[p].step \in {"start", "key", "push", "done", "failed"}
      /\ phone[p].call \in {"posted", "result", "waiting", "good", "bad"} => PastEnrolling(phone[p])
      /\ phone[p].call # "none" => phone[p].step # "done"
      /\ phone[p].call \in {"result", "waiting", "good", "bad"} => phone[p].step = "pc"
  BY PhoneFacts
<1>p. phone \in [Phones -> PhoneRecords]
  BY DEF EnrollInv, Typed
<1>1. CASE ResultArrives(p) /\ srv.phone # p
  <2>1. Set(p, Failed(p)) /\ cmd' = cmd /\ srv' = srv /\ vault' = vault /\ used' = used
    BY <1>1 DEF ResultArrives
  <2>2. ~PastEnrolling(phone[p])
    BY <1>1, <1>f DEF PhoneOK
  <2> QED
    BY <2>1, <2>2, <1>f, FailStep
<1>2. CASE (ResultArrives(p) /\ srv.phone = p) \/ ResultIs(p)
  <2> DEFINE c == IF ResultIs(p) THEN IF cmd.failed THEN "bad" ELSE "good" ELSE "waiting"
             w == [phone[p] EXCEPT !.call = c]
  <2>1. /\ phone[p].call \in {"result", "waiting"} /\ cmd' = cmd /\ vault' = vault /\ used' = used
        /\ Set(p, w)
        /\ \/ c = "waiting" /\ srv.st = "open" /\ srv' = [srv EXCEPT !.polled = TRUE]
           \/ c = "bad" /\ srv.finished /\ cmd.failed /\ srv' = [srv EXCEPT !.told = TRUE]
           \/ c = "good" /\ srv.finished /\ ~cmd.failed /\ srv' = [srv EXCEPT !.told = TRUE]
    BY <1>2 DEF ResultArrives, ResultIs
  <2>2. c \in {"waiting", "bad", "good"}
    OBVIOUS
  <2> HIDE DEF c
  <2>3. w \in PhoneRecords /\ w.step = "pc" /\ w.call = c /\ w.key = phone[p].key
    BY <2>1, <2>2, <1>f DEF PhoneRecords, Calls
  <2> HIDE DEF w
  <2>4. /\ phone' \in [Phones -> PhoneRecords] /\ phone'[p] = w
        /\ \A q \in Phones \ {p} : phone'[q] = phone[q]
    BY <2>1, <2>3, <1>p, SetType
  <2>5. /\ srv' \in SrvRecords /\ srv'.phone = srv.phone /\ srv'.done = srv.done /\ srv'.st = srv.st
        /\ srv'.finished = srv.finished /\ srv'.expired = srv.expired
        /\ c = "waiting" => srv.st = "open" /\ srv'.told = srv.told
        /\ c # "waiting" => srv.finished /\ srv'.told /\ srv'.polled = srv.polled
    BY <2>1, <1>f DEF SrvRecords
  <2>6. Enrolled' = Enrolled
    BY <2>1, <2>5 DEF Enrolled
  <2>7. CmdOK' /\ CleanCmd'
    BY <2>1, <2>5, <1>f DEF CmdOK, CleanCmd
  <2>8. srv.phone = p /\ Enrolled = [phone |-> p, key |-> phone[p].key]
    BY <2>1, <1>f DEF PhoneOK
  <2>9. c = "good" => vault # None
    BY <2>1, <1>f DEF CmdOK
  <2>10. ASSUME NEW q \in Phones PROVE PhoneOK(q)'
    <3>1. CASE q = p
      <4>1. CallOK(w)
        BY <2>2, <2>3 DEF CallOK
      <4>2. HeardGood(w) => vault # None
        BY <2>3, <2>9 DEF HeardGood
      <4> QED
        BY <4>1, <4>2, <3>1, <2>1, <2>3, <2>4, <2>5, <2>6, <2>8 DEF PhoneOK
    <3>2. CASE q # p
      <4>1. PhoneOK(q)
        BY DEF EnrollInv
      <4> QED
        BY <4>1, <3>2, <2>1, <2>4, <2>5, <2>6, PhoneKept
    <3> QED
      BY <3>1, <3>2
  <2>11. ASSUME NEW q \in Phones PROVE CleanPhone(q)'
    <3>1. CASE q # p
      BY <3>1, <2>5, <2>8 DEF CleanPhone
    <3>2. CASE q = p
      <4>1. phone'[p].call = c /\ phone'[p].step = "pc"
        BY <2>3, <2>4
      <4>2. used.faults = 0 /\ ~cmd.failed /\ c = "waiting" => ~srv.told
        BY <2>1, <2>8, <1>f DEF CleanPhone, HeardGood
      <4> QED
        BY <4>1, <4>2, <3>2, <2>1, <2>5 DEF CleanPhone, PastEnrolling, HeardGood
    <3> QED
      BY <3>1, <3>2
  <2> QED
    BY <1>f, <2>1, <2>4, <2>5, <2>7, <2>10, <2>11 DEF EnrollInv, Typed
<1> QED
  BY <1>1, <1>2

-----------------------------------------------------------------------------
(* The invariant, and what it gives.                                       *)

LEMMA EnrollInit == Init => EnrollInv
<1> SUFFICES ASSUME Init PROVE EnrollInv
  OBVIOUS
<1>1. cmd \in CmdRecords /\ cmd.pc = "wait" /\ cmd.got = None /\ ~cmd.failed
  BY DEF Init, CmdRecords
<1>2. /\ srv \in SrvRecords /\ srv.st = "open" /\ srv.done = None /\ srv.phone = None
      /\ ~srv.finished /\ ~srv.told /\ ~srv.polled
  BY DEF Init, SrvRecords
<1>3. vault = None /\ used \in [tries : Nat, faults : Nat]
  BY DEF Init
<1>4. /\ phone \in [Phones -> PhoneRecords]
      /\ \A p \in Phones : phone[p].step = "start" /\ phone[p].call = "none"
  BY DEF Init, PhoneRecords, Steps, Calls
<1>5. Typed /\ CmdOK /\ CleanCmd
  BY <1>1, <1>2, <1>3, <1>4 DEF Typed, CmdOK, CleanCmd
<1>6. ASSUME NEW p \in Phones PROVE PhoneOK(p) /\ CleanPhone(p)
  BY <1>1, <1>2, <1>4, EnrollAssumption DEF PhoneOK, CleanPhone, CallOK, PastEnrolling, HeardGood
<1> QED
  BY <1>5, <1>6 DEF EnrollInv

LEMMA EnrollNext == EnrollInv /\ [Next]_vars => EnrollInv'
<1> SUFFICES ASSUME EnrollInv, [Next]_vars PROVE EnrollInv'
  OBVIOUS
<1>1. CASE Working \/ Unlocks \/ UnlockFails \/ Stops \/ GivesUp \/ WriteFails \/ VerifyFails \/ Killed
  BY <1>1, CommandKeeps DEF Working
<1>2. ASSUME NEW p \in Phones,
             UseKey(p) \/ KeyAnswers(p) \/ KeyFails(p) \/ Send(p) \/ Again(p)
      PROVE  EnrollInv'
  BY <1>2, PersonKeeps
<1>3. ASSUME NEW p \in Phones, Calling(p) \/ CallLost(p)
      PROVE  EnrollInv'
  BY <1>3, CallKeeps, EnrollsKeeps, ResultKeeps DEF Calling
<1>4. CASE UNCHANGED vars
  BY <1>4 DEF vars, EnrollInv, Typed, CmdOK, CleanCmd, PhoneOK, CleanPhone, Enrolled, CallOK,
              PastEnrolling, HeardGood
<1> QED
  BY <1>1, <1>2, <1>3, <1>4 DEF Next, People

(* The invariant holds of every behaviour, for any phones and faults.     *)
THEOREM EnrollInvariant == Spec => []EnrollInv
BY EnrollInit, EnrollNext, PTL DEF Spec

(* DoneIsEnrolled: an enrolled phone is past enrolling, so its enrollment  *)
(* is the one there is, and it heard a good answer, so the vault has it.   *)
THEOREM DoneIsEnrolledHolds == Spec => []DoneIsEnrolled
<1>1. EnrollInv => DoneIsEnrolled
  <2> SUFFICES ASSUME EnrollInv, NEW p \in Phones, phone[p].step = "done"
               PROVE  vault = [phone |-> p, key |-> phone[p].key]
    BY DEF DoneIsEnrolled
  <2>1. PhoneOK(p) /\ CmdOK
    BY DEF EnrollInv
  <2>2. vault # None /\ Enrolled = [phone |-> p, key |-> phone[p].key]
    BY <2>1 DEF PhoneOK, PastEnrolling, HeardGood
  <2> QED
    BY <2>1, <2>2 DEF CmdOK, Enrolled
<1> QED
  BY <1>1, EnrollInvariant, PTL

(* FailureIsTrue: without a fault the phone in the vault is the one that   *)
(* enrolled, and CleanPhone says it has not failed.                        *)
THEOREM FailureIsTrueHolds == Spec => []FailureIsTrue
<1>1. EnrollInv => FailureIsTrue
  <2> SUFFICES ASSUME EnrollInv, used.faults = 0, ~srv.expired, srv.polled, NEW p \in Phones,
                      phone[p].step = "failed", vault # None, vault.phone = p
               PROVE  FALSE
    BY DEF FailureIsTrue
  <2>1. /\ CmdOK /\ CleanCmd /\ CleanPhone(p) /\ PhoneOK(p)
    BY DEF EnrollInv
  <2>2. srv.phone = p /\ ~cmd.failed
    BY <2>1 DEF CmdOK, CleanCmd
  <2>3. phone[p].call = "none"
    BY <2>1 DEF PhoneOK, CallOK
  <2>4. ~PastEnrolling(phone[p]) /\ ~HeardGood(phone[p])
    BY <2>3 DEF PastEnrolling, HeardGood
  <2>5. srv.st # "open" /\ cmd.pc \notin Over
    BY <2>1, <2>2, <2>3, <2>4 DEF CleanPhone
  <2> QED
    BY <2>1, <2>5 DEF CleanCmd, Over
<1> QED
  BY <1>1, EnrollInvariant, PTL

=============================================================================
