---------------------------- MODULE GrantsProofs ----------------------------
(***************************************************************************)
(* Proofs about Grants, for any number of granters, readers and revokers:  *)
(*   TypeCorrect     every variable has its type;                          *)
(*   RevokeIsFinal   no exec begun after a revoke returned runs with what  *)
(*                   the revoke was to drop, whatever else is going on;    *)
(*   and, where only approvers grant, one at a time:                       *)
(*   NeverOldSerial  no exec that compared a version runs with an older    *)
(*                   value of the same store;                              *)
(*   AgentNeverOldHolds                                                    *)
(*                   an exec that sees the agent alone runs with no value  *)
(*                   older than the version compared, nor with one the     *)
(*                   vault had replaced when it began, unless a restore    *)
(*                   put the file of the version back;                     *)
(*   UndoneIsGoneHolds                                                     *)
(*                   a grant undone leaves no value in the kernel, or only *)
(*                   one that a revoker is about to unlink.                *)
(***************************************************************************)
EXTENDS Grants, TLAPS

-----------------------------------------------------------------------------
(* Types.                                                                  *)

GrantType == [pc : GrantPcs, ver : Nat, val : Nat]
RevokerType == [pc : RevokerPcs, before : SUBSET Granters]

\* Moving a granter on keeps its type and everybody's versions.
LEMMA GoToType ==
  ASSUME NEW g \in Granters, NEW pc \in GrantPcs,
         grant \in [Granters -> GrantType], GoTo(g, pc)
  PROVE  /\ grant' \in [Granters -> GrantType]
         /\ grant'[g].pc = pc
         /\ \A h \in Granters : /\ grant'[h].ver = grant[h].ver
                                /\ grant'[h].val = grant[h].val
                                /\ h # g => grant'[h] = grant[h]
  BY DEF GoTo, GrantType

\* The same of a revoker, and what it noted.
LEMMA RevokerGoesType ==
  ASSUME NEW r \in Revokers, NEW pc \in RevokerPcs,
         revoker \in [Revokers -> RevokerType], RevokerGoes(r, pc)
  PROVE  /\ revoker' \in [Revokers -> RevokerType]
         /\ revoker'[r].pc = pc
         /\ \A q \in Revokers : /\ revoker'[q].before = revoker[q].before
                                /\ q # r => revoker'[q] = revoker[q]
  BY DEF RevokerGoes, RevokerType

\* What a kernel.Revoke lists are keys of granters.
LEMMA ListedType ==
  ASSUME kernel \in [Kinds -> Marks]
  PROVE  Listed \in SUBSET (Kinds \X Granters)
  BY DEF Listed, Dropped, Marks

\* Unlinking keeps the types, whoever does it.
LEMMA UnlinkType ==
  ASSUME NEW p \in Granters \cup Revokers,
         kernel \in [Kinds -> Marks],
         drop \in [Granters \cup Revokers -> SUBSET (Kinds \X Granters)],
         Unlink(p) \/ UnlinkStops(p)
  PROVE  /\ kernel' \in [Kinds -> Marks]
         /\ drop' \in [Granters \cup Revokers -> SUBSET (Kinds \X Granters)]
         /\ \A q \in Granters \cup Revokers : q # p => drop'[q] = drop[q]
<1>1. CASE UnlinkStops(p)
  BY <1>1 DEF UnlinkStops
<1>2. CASE Unlink(p)
  <2>1. PICK d \in drop[p] :
          /\ drop' = [drop EXCEPT ![p] = @ \ {d}]
          /\ kernel' = IF Linked(d) THEN [kernel EXCEPT ![d[1]] = None] ELSE kernel
    BY <1>2 DEF Unlink
  <2>2. kernel' \in [Kinds -> Marks]
    BY <2>1 DEF Marks
  <2>3. drop' \in [Granters \cup Revokers -> SUBSET (Kinds \X Granters)]
    BY <2>1
  <2>4. \A q \in Granters \cup Revokers : q # p => drop'[q] = drop[q]
    BY <2>1
  <2> QED
    BY <2>2, <2>3, <2>4
<1> QED
  BY <1>1, <1>2

LEMMA InitType ==
  Init => TypeOK
<1> SUFFICES ASSUME Init PROVE TypeOK
  OBVIOUS
<1>1. kernel \in [Kinds -> Marks] /\ agent \in Marks
  BY DEF Init, Marks
<1>2. grant \in [Granters -> [pc : GrantPcs, ver : Nat, val : Nat]]
  BY DEF Init, GrantPcs
<1>3. reader \in [Readers -> ReaderType]
  BY DEF Init, ReaderType, ReaderPcs, Stores, Marks
<1>4. revoker \in [Revokers -> [pc : RevokerPcs, before : SUBSET Granters]]
  BY DEF Init, RevokerPcs
<1>5. vault \in Nat /\ writes \in Seq(Nat) /\ gone \subseteq Granters
  BY DEF Init
<1>6. drop \in [Granters \cup Revokers -> SUBSET (Kinds \X Granters)]
  BY DEF Init
<1> QED
  BY <1>1, <1>2, <1>3, <1>4, <1>5, <1>6 DEF TypeOK

LEMMA GranterType ==
  ASSUME TypeOK, NEW g \in Granters, Granter(g)
  PROVE  TypeOK'
<1> USE DEF GrantType
<1>1. ASSUME ReadVersion(g) PROVE TypeOK'
  BY <1>1 DEF ReadVersion, TypeOK, GrantPcs, Working
<1>2. ASSUME Decrypt(g) PROVE TypeOK'
  <2>1. CASE vault = 0
    BY <1>2, <2>1 DEF Decrypt, TypeOK, GrantPcs
  <2>2. CASE vault # 0
    <3> DEFINE pc == IF HasKernel THEN "value" ELSE "agent"
    <3>1. pc \in GrantPcs
      BY DEF GrantPcs, Working
    <3>2. grant' = [grant EXCEPT ![g].pc = pc, ![g].val = vault]
      BY <1>2, <2>2 DEF Decrypt
    <3> HIDE DEF pc
    <3>3. grant' \in [Granters -> GrantType]
      BY <3>1, <3>2 DEF TypeOK
    <3> QED
      BY <1>2, <3>3 DEF Decrypt, TypeOK
  <2> QED
    BY <2>1, <2>2
<1>3. ASSUME AddKernel(g) PROVE TypeOK'
  <2>1. grant' \in [Granters -> GrantType]
    BY <1>3, GoToType DEF AddKernel, TypeOK, GrantPcs, Working
  <2>2. kernel' \in [Kinds -> Marks]
    BY <1>3 DEF AddKernel, TypeOK, Marks
  <2> QED
    BY <1>3, <2>1, <2>2 DEF AddKernel, TypeOK
<1>4. ASSUME AddKernelFails(g) PROVE TypeOK'
  BY <1>4, GoToType DEF AddKernelFails, TypeOK, GrantPcs
<1>5. ASSUME AddAgent(g) PROVE TypeOK'
  BY <1>5, GoToType DEF AddAgent, TypeOK, GrantPcs, Marks
<1>6. ASSUME AddAgentFails(g) PROVE TypeOK'
  <2>1. grant' \in [Granters -> GrantType]
    BY <1>6, GoToType DEF AddAgentFails, TypeOK, GrantPcs, Working
  <2> QED
    BY <1>6, <2>1 DEF AddAgentFails, TypeOK, Marks
<1>7. ASSUME GranterDies(g) PROVE TypeOK'
  BY <1>7, GoToType DEF GranterDies, TypeOK, GrantPcs
<1>8. ASSUME UndoLists(g) PROVE TypeOK'
  <2>1. grant' \in [Granters -> GrantType]
    BY <1>8, GoToType DEF UndoLists, TypeOK, GrantPcs, Working
  <2>2. Listed \in SUBSET (Kinds \X Granters)
    BY ListedType DEF TypeOK
  <2> QED
    BY <1>8, <2>1, <2>2 DEF UndoLists, TypeOK
<1>9. ASSUME UndoUnlinks(g) PROVE TypeOK'
  <2>1. grant' \in [Granters -> GrantType]
    BY <1>9, GoToType DEF UndoUnlinks, TypeOK, GrantPcs, Working
  <2>2. Unlink(g) \/ UnlinkStops(g)
    BY <1>9 DEF UndoUnlinks
  <2>3. /\ kernel' \in [Kinds -> Marks]
        /\ drop' \in [Granters \cup Revokers -> SUBSET (Kinds \X Granters)]
    BY <2>2, UnlinkType DEF TypeOK
  <2> QED
    BY <1>9, <2>1, <2>3 DEF UndoUnlinks, TypeOK
<1>10. ASSUME Undone(g) PROVE TypeOK'
  BY <1>10, GoToType DEF Undone, TypeOK, GrantPcs
<1> QED
  BY <1>1, <1>2, <1>3, <1>4, <1>5, <1>6, <1>7, <1>8, <1>9, <1>10 DEF Granter

\* A reader changes nothing but itself.
LEMMA ReaderFrame ==
  ASSUME NEW e \in Readers, Reader(e)
  PROVE  UNCHANGED <<vault, writes, kernel, agent, grant, revoker, drop, gone>>
  BY DEF Reader, ExecBegins, FindSecret, FindStamp, ReadStamp, AskAgent, Compare,
         FindValue, ReadValue, ReadAgent, ExecFails

LEMMA ReaderStepType ==
  ASSUME TypeOK, NEW e \in Readers, Reader(e)
  PROVE  TypeOK'
<1>0. /\ kernel["secret"] \in Marks /\ kernel["stamp"] \in Marks /\ agent \in Marks
      /\ "kernel" \in Stores /\ "agent" \in Stores /\ "running" \in ReaderPcs
      /\ reader \in [Readers -> ReaderType] /\ vault \in Nat /\ gone \in SUBSET Granters
  BY DEF TypeOK, Kinds, Stores, ReaderPcs
<1>1. reader' \in [Readers -> ReaderType]
  <2>1. ASSUME ExecBegins(e) PROVE reader' \in [Readers -> ReaderType]
    <3> DEFINE pc == IF SeesKernel(e) THEN "secret" ELSE "ask"
    <3>1. pc \in ReaderPcs
      BY DEF ReaderPcs
    <3>2. reader' = [reader EXCEPT ![e].pc = pc, ![e].begun = vault, ![e].gone = gone]
      BY <2>1 DEF ExecBegins
    <3> HIDE DEF pc
    <3> QED
      BY <1>0, <3>1, <3>2 DEF ReaderType
  <2>2. ASSUME FindSecret(e) PROVE reader' \in [Readers -> ReaderType]
    <3> DEFINE pc == IF kernel["secret"] = None THEN "ask" ELSE "stamp"
    <3>1. pc \in ReaderPcs
      BY DEF ReaderPcs
    <3>2. reader' = [reader EXCEPT ![e].pc = pc]
      BY <2>2 DEF FindSecret
    <3> HIDE DEF pc
    <3> QED
      BY <1>0, <3>1, <3>2 DEF ReaderType
  <2>3. ASSUME FindStamp(e) PROVE reader' \in [Readers -> ReaderType]
    <3> DEFINE pc == IF kernel["stamp"] = None THEN "read" ELSE "readStamp"
    <3>1. pc \in ReaderPcs
      BY DEF ReaderPcs
    <3>2. reader' = [reader EXCEPT ![e].pc = pc, ![e].key = kernel["stamp"]]
      BY <2>3 DEF FindStamp
    <3> HIDE DEF pc
    <3> QED
      BY <1>0, <3>1, <3>2 DEF ReaderType
  <2>4. ASSUME ReadStamp(e) PROVE reader' \in [Readers -> ReaderType]
    <3> DEFINE pc == IF StampRead(e) = None THEN "read" ELSE "compare"
               s == StampRead(e)
    <3>1. pc \in ReaderPcs /\ s \in Marks
      BY <1>0 DEF ReaderPcs, StampRead, Marks
    <3>2. reader' = [reader EXCEPT ![e].pc = pc, ![e].saw = s, ![e].sawAt = "kernel"]
      BY <2>4 DEF ReadStamp
    <3> HIDE DEF pc, s
    <3> QED
      BY <1>0, <3>1, <3>2 DEF ReaderType
  <2>5. ASSUME AskAgent(e) PROVE reader' \in [Readers -> ReaderType]
    <3> DEFINE pc == IF agent = None THEN "refused" ELSE "compare"
    <3>1. pc \in ReaderPcs
      BY DEF ReaderPcs
    <3>2. reader' = [reader EXCEPT ![e].pc = pc, ![e].saw = agent, ![e].sawAt = "agent"]
      BY <2>5 DEF AskAgent
    <3> HIDE DEF pc
    <3> QED
      BY <1>0, <3>1, <3>2 DEF ReaderType
  <2>6. ASSUME Compare(e) PROVE reader' \in [Readers -> ReaderType]
    <3> DEFINE pc == IF ~IsCurrent(e) THEN "refused"
                     ELSE IF SeesKernel(e) THEN "read" ELSE "readAgent"
    <3>1. pc \in ReaderPcs
      BY DEF ReaderPcs
    <3>2. reader' = [reader EXCEPT ![e].pc = pc]
      BY <2>6 DEF Compare
    <3> HIDE DEF pc
    <3> QED
      BY <1>0, <3>1, <3>2 DEF ReaderType
  <2>7. ASSUME FindValue(e) PROVE reader' \in [Readers -> ReaderType]
    <3> DEFINE pc == IF kernel["secret"] = None THEN "readAgent" ELSE "readValue"
    <3>1. pc \in ReaderPcs
      BY DEF ReaderPcs
    <3>2. reader' = [reader EXCEPT ![e].pc = pc, ![e].key = kernel["secret"]]
      BY <2>7 DEF FindValue
    <3> HIDE DEF pc
    <3> QED
      BY <1>0, <3>1, <3>2 DEF ReaderType
  <2>8. ASSUME ReadValue(e) PROVE reader' \in [Readers -> ReaderType]
    <3>1. CASE kernel["secret"] = reader[e].key
      <4>1. reader' = [reader EXCEPT ![e].pc = "running", ![e].got = kernel["secret"],
                                     ![e].gotAt = "kernel"]
        BY <2>8, <3>1 DEF ReadValue
      <4> QED
        BY <1>0, <4>1 DEF ReaderType
    <3>2. CASE kernel["secret"] # reader[e].key
      <4>1. reader' = [reader EXCEPT ![e].pc = "readAgent"]
        BY <2>8, <3>2 DEF ReadValue
      <4> QED
        BY <1>0, <4>1 DEF ReaderType, ReaderPcs
    <3> QED
      BY <3>1, <3>2
  <2>9. ASSUME ReadAgent(e) PROVE reader' \in [Readers -> ReaderType]
    <3>1. CASE agent = None
      BY <1>0, <2>9, <3>1 DEF ReadAgent, ReaderType, ReaderPcs
    <3>2. CASE agent # None
      <4>1. reader' = [reader EXCEPT ![e].pc = "running", ![e].got = agent,
                                     ![e].gotAt = "agent"]
        BY <2>9, <3>2 DEF ReadAgent
      <4> QED
        BY <1>0, <4>1 DEF ReaderType
    <3> QED
      BY <3>1, <3>2
  <2>10. ASSUME ExecFails(e) PROVE reader' \in [Readers -> ReaderType]
    BY <1>0, <2>10 DEF ExecFails, ReaderType, ReaderPcs
  <2> QED
    BY <2>1, <2>2, <2>3, <2>4, <2>5, <2>6, <2>7, <2>8, <2>9, <2>10 DEF Reader
<1> QED
  BY <1>1, ReaderFrame DEF TypeOK

\* A write adds the file it made after all the earlier ones.
LEMMA RewriteStep ==
  ASSUME writes \in Seq(Nat), NEW f \in Nat, Rewrite(f)
  PROVE  /\ writes' \in Seq(Nat) /\ Len(writes) \in Nat
         /\ Len(writes') = Len(writes) + 1 /\ vault' = Len(writes')
         /\ \A w \in 1..Len(writes) : writes'[w] = writes[w]
  BY DEF Rewrite

\* What revoke, rm and restore may do to the vault.
LEMMA ChangesVaultStep ==
  ASSUME vault \in Nat, writes \in Seq(Nat), NEW act, ChangesVault(act)
  PROVE  /\ vault' \in Nat /\ writes' \in Seq(Nat)
         /\ \/ UNCHANGED <<vault, writes>>
            \/ vault' = 0 /\ UNCHANGED writes
            \/ \E f \in Nat : Rewrite(f)
<1>1. Backups \subseteq Nat
  <2>1. \A w \in DOMAIN writes : writes[w] \in Nat
    OBVIOUS
  <2>2. NewFile \in Nat
    BY DEF NewFile
  <2> QED
    BY <2>1, <2>2 DEF Backups
<1>2. CASE \E f \in Backups : Rewrite(f)
  <2>1. PICK f \in Nat : Rewrite(f)
    BY <1>1, <1>2
  <2>2. vault' \in Nat /\ writes' \in Seq(Nat)
    BY <2>1, RewriteStep
  <2> QED
    BY <2>1, <2>2
<1>3. CASE ~\E f \in Backups : Rewrite(f)
  BY <1>3 DEF ChangesVault
<1> QED
  BY <1>2, <1>3

LEMMA RevokerStepType ==
  ASSUME TypeOK, NEW r \in Revokers, Revoker(r)
  PROVE  TypeOK'
<1> USE DEF RevokerType
<1>1. ASSUME RevokeBegins(r) PROVE TypeOK'
  <2>1. PICK act \in {"revoke", "all", "rm", "restore"} :
          /\ ChangesVault(act)
          /\ revoker' = [revoker EXCEPT
               ![r].pc = IF act \in {"revoke", "rm"} THEN KernelNext
                         ELSE IF HasKernel THEN "list" ELSE "listAgent",
               ![r].before = Acknowledged]
    BY <1>1 DEF RevokeBegins
  <2> DEFINE pc == IF act \in {"revoke", "rm"} THEN KernelNext
                   ELSE IF HasKernel THEN "list" ELSE "listAgent"
  <2>2. pc \in RevokerPcs /\ Acknowledged \subseteq Granters
    BY DEF RevokerPcs, KernelNext, Acknowledged
  <2>3. revoker' = [revoker EXCEPT ![r].pc = pc, ![r].before = Acknowledged]
    BY <2>1
  <2> HIDE DEF pc
  <2>4. revoker' \in [Revokers -> RevokerType]
    BY <2>2, <2>3 DEF TypeOK
  <2>5. vault' \in Nat /\ writes' \in Seq(Nat)
    BY <2>1, ChangesVaultStep DEF TypeOK
  <2> QED
    BY <1>1, <2>4, <2>5 DEF RevokeBegins, TypeOK
<1>2. ASSUME ListKernel(r) PROVE TypeOK'
  <2>1. revoker' \in [Revokers -> RevokerType]
    BY <1>2, RevokerGoesType DEF ListKernel, TypeOK, RevokerPcs
  <2> QED
    BY <1>2, <2>1 DEF ListKernel, TypeOK
<1>3. ASSUME ListAgent(r) PROVE TypeOK'
  <2>1. \E pc \in RevokerPcs : RevokerGoes(r, pc)
    BY <1>3 DEF ListAgent, RevokerPcs, KernelNext
  <2>2. revoker' \in [Revokers -> RevokerType]
    BY <2>1, RevokerGoesType DEF TypeOK
  <2>3. gone' \subseteq Granters
    BY <1>3 DEF ListAgent, TypeOK
  <2> QED
    BY <1>3, <2>2, <2>3 DEF ListAgent, TypeOK
<1>4. ASSUME RevokeKernel(r) PROVE TypeOK'
  <2>1. revoker' \in [Revokers -> RevokerType]
    BY <1>4, RevokerGoesType DEF RevokeKernel, TypeOK, RevokerPcs
  <2>2. Listed \in SUBSET (Kinds \X Granters)
    BY ListedType DEF TypeOK
  <2> QED
    BY <1>4, <2>1, <2>2 DEF RevokeKernel, TypeOK
<1>5. ASSUME RevokeUnlinks(r) PROVE TypeOK'
  <2>1. revoker' \in [Revokers -> RevokerType]
    BY <1>5, RevokerGoesType DEF RevokeUnlinks, TypeOK, RevokerPcs
  <2>2. Unlink(r) \/ UnlinkStops(r)
    BY <1>5 DEF RevokeUnlinks
  <2>3. /\ kernel' \in [Kinds -> Marks]
        /\ drop' \in [Granters \cup Revokers -> SUBSET (Kinds \X Granters)]
    BY <2>2, UnlinkType DEF TypeOK
  <2> QED
    BY <1>5, <2>1, <2>3 DEF RevokeUnlinks, TypeOK
<1>6. ASSUME RevokeUnlinked(r) PROVE TypeOK'
  <2>1. revoker' \in [Revokers -> RevokerType]
    BY <1>6, RevokerGoesType DEF RevokeUnlinked, TypeOK, RevokerPcs
  <2> QED
    BY <1>6, <2>1 DEF RevokeUnlinked, TypeOK
<1>7. ASSUME RevokeAgent(r) PROVE TypeOK'
  <2>1. \E pc \in RevokerPcs : RevokerGoes(r, pc)
    BY <1>7 DEF RevokeAgent, RevokerPcs
  <2>2. revoker' \in [Revokers -> RevokerType]
    BY <2>1, RevokerGoesType DEF TypeOK
  <2>3. gone' \subseteq Granters /\ agent' \in Marks
    BY <1>7 DEF RevokeAgent, AfterRevoke, TypeOK, Marks
  <2> QED
    BY <1>7, <2>2, <2>3 DEF RevokeAgent, TypeOK
<1> QED
  BY <1>1, <1>2, <1>3, <1>4, <1>5, <1>6, <1>7 DEF Revoker

LEMMA NextType ==
  ASSUME TypeOK, [Next]_vars
  PROVE  TypeOK'
<1>1. CASE WriteVault
  <2>1. Rewrite(NewFile) /\ NewFile \in Nat
    BY <1>1 DEF WriteVault, NewFile, TypeOK
  <2>2. vault' \in Nat /\ writes' \in Seq(Nat)
    BY <2>1, RewriteStep DEF TypeOK
  <2> QED
    BY <1>1, <2>2 DEF WriteVault, TypeOK
<1>2. CASE Time
  <2>1. kernel' \in [Kinds -> Marks] /\ agent' \in Marks
    BY <1>2 DEF Time, ExpireSecret, ExpireStamp, ExpireAgent, TypeOK, Marks
  <2> QED
    BY <1>2, <2>1 DEF Time, ExpireSecret, ExpireStamp, ExpireAgent, TypeOK
<1>3. CASE \E g \in Granters : Granter(g)
  BY <1>3, GranterType
<1>4. CASE \E e \in Readers : Reader(e)
  BY <1>4, ReaderStepType
<1>5. CASE \E r \in Revokers : Revoker(r)
  BY <1>5, RevokerStepType
<1>6. CASE UNCHANGED vars
  BY <1>6 DEF vars, TypeOK
<1> QED
  BY <1>1, <1>2, <1>3, <1>4, <1>5, <1>6 DEF Next

\* Every variable always has its type, whoever does what (cmd/grant.go,
\* cmd/exec.go, internal/keyring).
THEOREM TypeCorrect == Spec => []TypeOK
<1>1. Init => TypeOK
  BY InitType
<1>2. TypeOK /\ [Next]_vars => TypeOK'
  BY NextType
<1> QED
  BY <1>1, <1>2, PTL DEF Spec

-----------------------------------------------------------------------------
(* A revoke is final.                                                      *)

\* What a revoker noted, or came after, are grants that were done, and an
\* exec knows no more of them than there are.
Promised ==
  /\ \A r \in Revokers : \A g \in revoker[r].before : grant[g].pc = "done"
  /\ \A g \in gone : grant[g].pc = "done"
  /\ \A e \in Readers : reader[e].gone \subseteq gone

\* How far r has got with the kernel.
Cleared(r) ==
  \A g \in revoker[r].before :
    /\ revoker[r].pc = "unlink" /\ kernel["secret"] = g => <<"secret", g>> \in drop[r]
    /\ revoker[r].pc \in {"agent", "listAgent"} => kernel["secret"] # g

NoKernelNoKeys ==
  HasKernel \/ /\ kernel["secret"] = None
               /\ \A g \in Granters : grant[g].pc \notin {"value", "stamp"}

GoneStaysGone == \A g \in gone : kernel["secret"] # g /\ agent # g

RevokeInv ==
  /\ TypeOK
  /\ Promised
  /\ \A r \in Revokers : Cleared(r)
  /\ NoKernelNoKeys
  /\ GoneStaysGone
  /\ RevokedIsGone

\* Unlinking never puts a value in the kernel.
LEMMA UnlinkOnlyDrops ==
  ASSUME TypeOK, NEW p \in Granters \cup Revokers, Unlink(p) \/ UnlinkStops(p)
  PROVE  kernel'["secret"] \in {kernel["secret"], None}
<1>1. CASE UnlinkStops(p)
  BY <1>1 DEF UnlinkStops
<1>2. CASE Unlink(p)
  <2>1. PICK d \in drop[p] :
          kernel' = IF Linked(d) THEN [kernel EXCEPT ![d[1]] = None] ELSE kernel
    BY <1>2 DEF Unlink
  <2>2. kernel \in [Kinds -> Marks] /\ "secret" \in Kinds
    BY DEF TypeOK, Kinds
  <2> QED
    BY <2>1, <2>2
<1> QED
  BY <1>1, <1>2

\* A granter's step moves only its own grant, which was not done, and puts
\* no grant but its own in the stores.
LEMMA GranterStep ==
  ASSUME TypeOK, NEW g \in Granters, Granter(g)
  PROVE  /\ grant[g].pc # "done"
         /\ \A h \in Granters : h # g => grant'[h] = grant[h]
         /\ kernel'["secret"] \in {kernel["secret"], None, g}
         /\ agent' \in {agent, g}
         /\ UNCHANGED <<reader, revoker, gone>>
         /\ \A r \in Revokers : drop'[r] = drop[r]
<1> USE GrantsAssumption DEF GrantsAssumption
<1>0. /\ grant \in [Granters -> GrantType]
      /\ kernel \in [Kinds -> Marks]
      /\ drop \in [Granters \cup Revokers -> SUBSET (Kinds \X Granters)]
      /\ "secret" \in Kinds
  BY DEF TypeOK, GrantType, Kinds
<1>1. grant[g].pc # "done"
  BY DEF Granter, ReadVersion, Decrypt, AddKernel, AddKernelFails, AddAgent,
         AddAgentFails, GranterDies, UndoLists, UndoUnlinks, Undone, Working
<1>2. \A h \in Granters : h # g => grant'[h] = grant[h]
  BY <1>0 DEF Granter, ReadVersion, Decrypt, AddKernel, AddKernelFails, AddAgent,
         AddAgentFails, GranterDies, UndoLists, UndoUnlinks, Undone, GoTo
<1>3. kernel'["secret"] \in {kernel["secret"], None, g}
  <2>1. CASE AddKernel(g)
    BY <1>0, <2>1 DEF AddKernel
  <2>2. CASE UndoUnlinks(g)
    BY <2>2, UnlinkOnlyDrops DEF UndoUnlinks
  <2>3. CASE ~AddKernel(g) /\ ~UndoUnlinks(g)
    BY <2>3 DEF Granter, ReadVersion, Decrypt, AddKernelFails, AddAgent,
         AddAgentFails, GranterDies, UndoLists, Undone
  <2> QED
    BY <2>1, <2>2, <2>3
<1>4. agent' \in {agent, g}
  BY DEF Granter, ReadVersion, Decrypt, AddKernel, AddKernelFails, AddAgent,
         AddAgentFails, GranterDies, UndoLists, UndoUnlinks, Undone
<1>5. UNCHANGED <<reader, revoker, gone>>
  BY DEF Granter, ReadVersion, Decrypt, AddKernel, AddKernelFails, AddAgent,
         AddAgentFails, GranterDies, UndoLists, UndoUnlinks, Undone
<1>6. \A r \in Revokers : drop'[r] = drop[r]
  <2>1. CASE UndoUnlinks(g)
    BY <1>0, <2>1, UnlinkType DEF UndoUnlinks
  <2>2. CASE UndoLists(g)
    BY <1>0, <2>2 DEF UndoLists
  <2>3. CASE ~UndoUnlinks(g) /\ ~UndoLists(g)
    BY <2>3 DEF Granter, ReadVersion, Decrypt, AddKernel, AddKernelFails, AddAgent,
         AddAgentFails, GranterDies, Undone
  <2> QED
    BY <2>1, <2>2, <2>3
<1> QED
  BY <1>1, <1>2, <1>3, <1>4, <1>5, <1>6

\* A revoker's step moves only itself and puts nothing in the stores.
LEMMA RevokerStep ==
  ASSUME TypeOK, NEW r \in Revokers, Revoker(r)
  PROVE  /\ UNCHANGED <<grant, reader>>
         /\ \A q \in Revokers : q # r => revoker'[q] = revoker[q] /\ drop'[q] = drop[q]
         /\ kernel'["secret"] \in {kernel["secret"], None}
         /\ agent' \in {agent, None}
<1>0. /\ revoker \in [Revokers -> RevokerType]
      /\ kernel \in [Kinds -> Marks]
      /\ drop \in [Granters \cup Revokers -> SUBSET (Kinds \X Granters)]
  BY DEF TypeOK, RevokerType
<1>1. UNCHANGED <<grant, reader>>
  BY DEF Revoker, RevokeBegins, ListKernel, ListAgent, RevokeKernel, RevokeUnlinks,
         RevokeUnlinked, RevokeAgent
<1>2. \A q \in Revokers : q # r => revoker'[q] = revoker[q]
  BY <1>0 DEF Revoker, RevokeBegins, ListKernel, ListAgent, RevokeKernel,
         RevokeUnlinks, RevokeUnlinked, RevokeAgent, RevokerGoes
<1>3. \A q \in Revokers : q # r => drop'[q] = drop[q]
  <2>1. CASE RevokeUnlinks(r)
    BY <1>0, <2>1, UnlinkType DEF RevokeUnlinks
  <2>2. CASE ~RevokeUnlinks(r)
    BY <1>0, <2>2 DEF Revoker, RevokeBegins, ListKernel, ListAgent, RevokeKernel,
         RevokeUnlinked, RevokeAgent
  <2> QED
    BY <2>1, <2>2
<1>4. kernel'["secret"] \in {kernel["secret"], None}
  <2>1. CASE RevokeUnlinks(r)
    BY <2>1, UnlinkOnlyDrops DEF RevokeUnlinks
  <2>2. CASE ~RevokeUnlinks(r)
    BY <2>2 DEF Revoker, RevokeBegins, ListKernel, ListAgent, RevokeKernel,
         RevokeUnlinked, RevokeAgent
  <2> QED
    BY <2>1, <2>2
<1>5. agent' \in {agent, None}
  BY DEF Revoker, RevokeBegins, ListKernel, ListAgent, RevokeKernel, RevokeUnlinks,
         RevokeUnlinked, RevokeAgent, AfterRevoke
<1> QED
  BY <1>1, <1>2, <1>3, <1>4, <1>5

\* What is neither a granter's nor a revoker's step touches no grant, and
\* nobody's progress.
LEMMA OtherStep ==
  ASSUME TypeOK, WriteVault \/ Time \/ (\E e \in Readers : Reader(e)) \/ UNCHANGED vars
  PROVE  /\ UNCHANGED <<grant, revoker, drop, gone>>
         /\ kernel'["secret"] \in {kernel["secret"], None}
         /\ agent' \in {agent, None}
<1>0. kernel \in [Kinds -> Marks] /\ "secret" \in Kinds /\ "stamp" # "secret"
  BY DEF TypeOK, Kinds
<1>1. CASE WriteVault
  BY <1>1 DEF WriteVault
<1>2. CASE Time
  BY <1>0, <1>2 DEF Time, ExpireSecret, ExpireStamp, ExpireAgent
<1>3. CASE \E e \in Readers : Reader(e)
  BY <1>3, ReaderFrame
<1>4. CASE UNCHANGED vars
  BY <1>4 DEF vars
<1> QED
  BY <1>1, <1>2, <1>3, <1>4

\* A grant that is done stays done, and is never put back in a store.
LEMMA DoneNeverReturns ==
  ASSUME TypeOK, [Next]_vars, NEW h \in Granters, grant[h].pc = "done"
  PROVE  /\ grant'[h].pc = "done"
         /\ kernel'["secret"] = h => kernel["secret"] = h
         /\ agent' = h => agent = h
<1> USE GrantsAssumption DEF GrantsAssumption
<1>1. CASE \E g \in Granters : Granter(g)
  BY <1>1, GranterStep
<1>2. CASE \E r \in Revokers : Revoker(r)
  BY <1>2, RevokerStep
<1>3. CASE WriteVault \/ Time \/ (\E e \in Readers : Reader(e)) \/ UNCHANGED vars
  BY <1>3, OtherStep
<1> QED
  BY <1>1, <1>2, <1>3 DEF Next

\* What a revoker's step does to what it noted and to what is gone.
LEMMA RevokerNotes ==
  ASSUME TypeOK, NEW r \in Revokers, Revoker(r)
  PROVE  /\ revoker'[r].before \in {revoker[r].before, Acknowledged}
         /\ gone' \in {gone, gone \cup revoker[r].before}
<1>0. revoker \in [Revokers -> RevokerType]
  BY DEF TypeOK, RevokerType
<1>1. CASE RevokeBegins(r)
  BY <1>0, <1>1 DEF RevokeBegins, RevokerType
<1>2. CASE ~RevokeBegins(r)
  <2>1. revoker'[r].before = revoker[r].before
    BY <1>0, <1>2 DEF Revoker, ListKernel, ListAgent, RevokeKernel, RevokeUnlinks,
         RevokeUnlinked, RevokeAgent, RevokerGoes, RevokerType
  <2>2. gone' \in {gone, gone \cup revoker[r].before}
    BY <1>2 DEF Revoker, ListKernel, ListAgent, RevokeKernel, RevokeUnlinks,
         RevokeUnlinked, RevokeAgent
  <2> QED
    BY <2>1, <2>2
<1> QED
  BY <1>1, <1>2

LEMMA PromisedStep ==
  ASSUME TypeOK, Promised, [Next]_vars
  PROVE  Promised'
<1>0. /\ gone \subseteq Granters
      /\ revoker \in [Revokers -> RevokerType]
      /\ reader \in [Readers -> ReaderType]
  BY DEF TypeOK, RevokerType
<1>1. \A h \in Granters : grant[h].pc = "done" => grant'[h].pc = "done"
  BY DoneNeverReturns
<1>2. CASE \E r \in Revokers : Revoker(r)
  <2>1. PICK r \in Revokers : Revoker(r)
    BY <1>2
  <2>2. grant' = grant /\ reader' = reader
    BY <2>1, RevokerStep
  <2>3. \A q \in Revokers : revoker'[q].before \in {revoker[q].before, Acknowledged}
    BY <2>1, RevokerStep, RevokerNotes
  <2>4. gone' \in {gone, gone \cup revoker[r].before}
    BY <2>1, RevokerNotes
  <2> QED
    BY <2>1, <2>2, <2>3, <2>4 DEF Promised, Acknowledged
<1>3. CASE \E e \in Readers : Reader(e)
  <2>1. PICK e \in Readers : Reader(e)
    BY <1>3
  <2>2. UNCHANGED <<grant, revoker, gone>>
    BY <2>1, ReaderFrame
  <2>3. \A d \in Readers : reader'[d].gone \in {reader[d].gone, gone}
    <3>1. CASE ExecBegins(e)
      BY <1>0, <3>1 DEF ExecBegins, ReaderType
    <3>2. CASE ~ExecBegins(e)
      BY <1>0, <2>1, <3>2 DEF Reader, FindSecret, FindStamp, ReadStamp, AskAgent,
           Compare, FindValue, ReadValue, ReadAgent, ExecFails, ReaderType
    <3> QED
      BY <3>1, <3>2
  <2> QED
    BY <2>2, <2>3 DEF Promised
<1>4. CASE \E g \in Granters : Granter(g)
  <2>1. UNCHANGED <<reader, revoker, gone>>
    BY <1>4, GranterStep
  <2>2. \A r \in Revokers : revoker[r].before \subseteq Granters
    BY <1>0 DEF RevokerType
  <2> QED
    BY <1>0, <1>1, <2>1, <2>2 DEF Promised
<1>5. CASE WriteVault \/ Time \/ UNCHANGED vars
  <2>1. UNCHANGED <<grant, reader, revoker, gone>>
    BY <1>5 DEF WriteVault, Time, ExpireSecret, ExpireStamp, ExpireAgent, vars
  <2> QED
    BY <2>1 DEF Promised
<1> QED
  BY <1>2, <1>3, <1>4, <1>5 DEF Next

\* A revoker's own step keeps its account of the kernel.
LEMMA ClearedOwnStep ==
  ASSUME TypeOK, NEW r \in Revokers, NoKernelNoKeys, Cleared(r), Revoker(r)
  PROVE  Cleared(r)'
<1> USE GrantsAssumption DEF GrantsAssumption
<1>0. /\ revoker \in [Revokers -> RevokerType]
      /\ kernel \in [Kinds -> Marks]
      /\ drop \in [Granters \cup Revokers -> SUBSET (Kinds \X Granters)]
      /\ "secret" \in Kinds
      /\ revoker[r].before \subseteq Granters
  BY DEF TypeOK, RevokerType, Kinds
<1>1. CASE RevokeBegins(r)
  <2>1. /\ revoker'[r].pc # "unlink"
        /\ revoker'[r].pc \in {"agent", "listAgent"} => ~HasKernel
    BY <1>0, <1>1 DEF RevokeBegins, KernelNext
  <2>2. kernel' = kernel /\ revoker'[r].before \subseteq Granters
    BY <1>0, <1>1 DEF RevokeBegins, Acknowledged, RevokerType
  <2> QED
    BY <2>1, <2>2 DEF Cleared, NoKernelNoKeys
<1>2. CASE ListKernel(r)
  BY <1>0, <1>2 DEF ListKernel, RevokerGoes, RevokerType, Cleared
<1>3. CASE ListAgent(r)
  <2>1. /\ revoker'[r].pc \in {KernelNext, "done", "failed"}
        /\ revoker'[r].before = revoker[r].before
    BY <1>0, <1>3 DEF ListAgent, RevokerGoes, RevokerType
  <2>2. kernel' = kernel
    BY <1>3 DEF ListAgent
  <2>3. revoker'[r].pc # "unlink" /\ revoker'[r].pc # "listAgent"
    BY <2>1 DEF KernelNext
  <2>4. revoker'[r].pc = "agent" => ~HasKernel
    BY <2>1 DEF KernelNext
  <2> QED
    BY <1>0, <2>1, <2>2, <2>3, <2>4 DEF Cleared, NoKernelNoKeys
<1>4. CASE RevokeKernel(r)
  <2>1. /\ revoker'[r].pc = "unlink" /\ revoker'[r].before = revoker[r].before
        /\ kernel' = kernel /\ drop'[r] = Listed
    BY <1>0, <1>4 DEF RevokeKernel, RevokerGoes, RevokerType
  <2>2. ASSUME NEW g \in Granters, kernel["secret"] = g
        PROVE  <<"secret", g>> \in Listed
    <3>1. "secret" \in {k \in Dropped : kernel[k] # None}
      BY <1>0, <2>2 DEF Dropped
    <3>2. <<"secret", kernel["secret"]>> \in Listed
      BY <3>1 DEF Listed
    <3> QED
      BY <2>2, <3>2
  <2> QED
    BY <1>0, <2>1, <2>2 DEF Cleared
<1>5. CASE RevokeUnlinks(r)
  <2>1. CASE Unlink(r) /\ UNCHANGED revoker
    <3>1. PICK d \in drop[r] :
            /\ drop' = [drop EXCEPT ![r] = @ \ {d}]
            /\ kernel' = IF Linked(d) THEN [kernel EXCEPT ![d[1]] = None] ELSE kernel
      BY <2>1 DEF Unlink
    <3>2. drop'[r] = drop[r] \ {d}
      BY <1>0, <3>1
    <3>3. ASSUME NEW g \in revoker[r].before, kernel'["secret"] = g
          PROVE  <<"secret", g>> \in drop'[r]
      <4>1. kernel["secret"] = g /\ g # None
        BY <1>0, <3>1, <3>3
      <4>2. <<"secret", g>> \in drop[r]
        BY <1>5, <4>1 DEF Cleared, RevokeUnlinks
      <4>3. d # <<"secret", g>>
        <5> SUFFICES ASSUME d = <<"secret", g>> PROVE FALSE
          OBVIOUS
        <5>1. d[1] = "secret" /\ d[2] = g
          OBVIOUS
        <5>2. Linked(d)
          BY <4>1, <5>1 DEF Linked
        <5>3. kernel' = [kernel EXCEPT !["secret"] = None]
          BY <3>1, <5>1, <5>2
        <5> QED
          BY <1>0, <3>3, <4>1, <5>3
      <4> QED
        BY <3>2, <4>2, <4>3
    <3>4. revoker'[r] = revoker[r] /\ revoker[r].pc = "unlink"
      BY <1>5, <2>1 DEF RevokeUnlinks
    <3> QED
      BY <3>3, <3>4 DEF Cleared
  <2>2. CASE UnlinkStops(r) /\ RevokerGoes(r, "failed")
    BY <1>0, <2>2 DEF RevokerGoes, RevokerType, Cleared
  <2> QED
    BY <1>5, <2>1, <2>2 DEF RevokeUnlinks
<1>6. CASE RevokeUnlinked(r)
  <2>1. \A g \in revoker[r].before : kernel["secret"] # g
    BY <1>6 DEF RevokeUnlinked, Cleared
  <2>2. kernel' = kernel /\ revoker'[r].before = revoker[r].before
        /\ revoker'[r].pc = "agent"
    BY <1>0, <1>6 DEF RevokeUnlinked, RevokerGoes, RevokerType
  <2> QED
    BY <2>1, <2>2 DEF Cleared
<1>7. CASE RevokeAgent(r)
  <2>1. revoker'[r].pc \in {"done", "failed"}
    BY <1>0, <1>7 DEF RevokeAgent, RevokerGoes, RevokerType
  <2> QED
    BY <2>1 DEF Cleared
<1> QED
  BY <1>1, <1>2, <1>3, <1>4, <1>5, <1>6, <1>7 DEF Revoker

LEMMA ClearedStep ==
  ASSUME TypeOK, Promised, NoKernelNoKeys, [Next]_vars,
         NEW r \in Revokers, Cleared(r)
  PROVE  Cleared(r)'
<1>0. /\ revoker[r].before \subseteq Granters
      /\ \A g \in revoker[r].before : grant[g].pc = "done"
  BY DEF TypeOK, Promised
<1>1. \A g \in revoker[r].before : kernel'["secret"] = g => kernel["secret"] = g
  BY <1>0, DoneNeverReturns
<1>2. ASSUME UNCHANGED <<revoker[r], drop[r]>> PROVE Cleared(r)'
  BY <1>1, <1>2 DEF Cleared
<1>3. CASE \E g \in Granters : Granter(g)
  BY <1>2, <1>3, GranterStep
<1>4. CASE \E q \in Revokers : Revoker(q)
  <2>1. PICK q \in Revokers : Revoker(q)
    BY <1>4
  <2>2. CASE q = r
    BY <2>1, <2>2, ClearedOwnStep
  <2>3. CASE q # r
    BY <1>2, <2>1, <2>3, RevokerStep
  <2> QED
    BY <2>2, <2>3
<1>5. CASE WriteVault \/ Time \/ (\E e \in Readers : Reader(e)) \/ UNCHANGED vars
  BY <1>2, <1>5, OtherStep
<1> QED
  BY <1>3, <1>4, <1>5 DEF Next

LEMMA NoKernelStep ==
  ASSUME TypeOK, NoKernelNoKeys, [Next]_vars
  PROVE  NoKernelNoKeys'
<1> SUFFICES ASSUME ~HasKernel PROVE NoKernelNoKeys'
  BY DEF NoKernelNoKeys
<1>0. /\ kernel["secret"] = None
      /\ \A g \in Granters : grant[g].pc \notin {"value", "stamp"}
      /\ grant \in [Granters -> GrantType]
  BY DEF NoKernelNoKeys, TypeOK, GrantType
<1>1. CASE \E g \in Granters : Granter(g)
  <2>1. PICK g \in Granters : Granter(g)
    BY <1>1
  <2>2. grant'[g].pc \notin {"value", "stamp"}
    BY <1>0, <2>1 DEF Granter, ReadVersion, Decrypt, AddKernel, AddKernelFails,
       AddAgent, AddAgentFails, GranterDies, UndoLists, UndoUnlinks, Undone, GoTo,
       GrantType
  <2>3. kernel'["secret"] = None
    <3>1. CASE UndoUnlinks(g)
      BY <1>0, <3>1, UnlinkOnlyDrops DEF UndoUnlinks
    <3>2. CASE ~UndoUnlinks(g)
      BY <1>0, <2>1, <3>2 DEF Granter, ReadVersion, Decrypt, AddKernel,
         AddKernelFails, AddAgent, AddAgentFails, GranterDies, UndoLists, Undone
    <3> QED
      BY <3>1, <3>2
  <2>4. \A h \in Granters : h # g => grant'[h] = grant[h]
    BY <2>1, GranterStep
  <2> QED
    BY <1>0, <2>2, <2>3, <2>4 DEF NoKernelNoKeys
<1>2. CASE \E r \in Revokers : Revoker(r)
  BY <1>0, <1>2, RevokerStep DEF NoKernelNoKeys
<1>3. CASE WriteVault \/ Time \/ (\E e \in Readers : Reader(e)) \/ UNCHANGED vars
  BY <1>0, <1>3, OtherStep DEF NoKernelNoKeys
<1> QED
  BY <1>1, <1>2, <1>3 DEF Next

LEMMA GoneStep ==
  ASSUME TypeOK, Promised, NoKernelNoKeys, \A r \in Revokers : Cleared(r),
         GoneStaysGone, [Next]_vars
  PROVE  GoneStaysGone'
<1> USE GrantsAssumption DEF GrantsAssumption
<1>0. gone \subseteq Granters /\ \A g \in gone : grant[g].pc = "done"
  BY DEF TypeOK, Promised
<1>1. \A g \in gone : kernel'["secret"] # g /\ agent' # g
  BY <1>0, DoneNeverReturns DEF GoneStaysGone
<1>2. CASE UNCHANGED gone
  BY <1>1, <1>2 DEF GoneStaysGone
<1>3. ASSUME NEW r \in Revokers, Revoker(r), gone' # gone PROVE GoneStaysGone'
  <2>0. revoker[r].before \subseteq Granters
    BY DEF TypeOK
  <2>1. CASE ListAgent(r)
    <3>1. /\ revoker[r].pc = "listAgent" /\ agent = None
          /\ gone' = gone \cup revoker[r].before
          /\ kernel' = kernel /\ agent' = agent
      BY <1>3, <2>1 DEF ListAgent
    <3>2. \A g \in revoker[r].before : kernel["secret"] # g
      BY <3>1 DEF Cleared
    <3> QED
      BY <1>1, <2>0, <3>1, <3>2 DEF GoneStaysGone
  <2>2. CASE RevokeAgent(r)
    <3>1. /\ revoker[r].pc = "agent" /\ agent' = None
          /\ gone' = gone \cup revoker[r].before /\ kernel' = kernel
      BY <1>3, <2>2 DEF RevokeAgent, AfterRevoke
    <3>2. \A g \in revoker[r].before : kernel["secret"] # g
      BY <3>1 DEF Cleared
    <3> QED
      BY <1>1, <2>0, <3>1, <3>2 DEF GoneStaysGone
  <2> QED
    BY <1>3, <2>1, <2>2 DEF Revoker, RevokeBegins, ListKernel, RevokeKernel,
       RevokeUnlinks, RevokeUnlinked
<1>4. CASE \E g \in Granters : Granter(g)
  BY <1>2, <1>4, GranterStep
<1>5. CASE WriteVault \/ Time \/ (\E e \in Readers : Reader(e)) \/ UNCHANGED vars
  BY <1>2, <1>5, OtherStep
<1> QED
  BY <1>2, <1>3, <1>4, <1>5 DEF Next

LEMMA RevokedStep ==
  ASSUME TypeOK, Promised, GoneStaysGone, RevokedIsGone, [Next]_vars
  PROVE  RevokedIsGone'
<1>0. /\ reader \in [Readers -> ReaderType]
      /\ \A e \in Readers : reader[e].gone \subseteq gone
  BY DEF TypeOK, Promised
<1>1. CASE \E e \in Readers : Reader(e)
  <2>1. PICK e \in Readers : Reader(e)
    BY <1>1
  <2>2. \A d \in Readers : d # e => reader'[d] = reader[d]
    BY <1>0, <2>1 DEF Reader, ExecBegins, FindSecret, FindStamp, ReadStamp, AskAgent,
       Compare, FindValue, ReadValue, ReadAgent, ExecFails
  <2>3. reader'[e].pc = "running"
          => /\ reader'[e].gone = reader[e].gone
             /\ reader'[e].got \in {kernel["secret"], agent}
    <3>1. CASE ReadValue(e)
      BY <1>0, <3>1 DEF ReadValue, ReaderType
    <3>2. CASE ReadAgent(e)
      BY <1>0, <3>2 DEF ReadAgent, ReaderType
    <3>3. CASE ~ReadValue(e) /\ ~ReadAgent(e)
      <4>1. reader'[e].pc # "running"
        BY <1>0, <2>1, <3>3 DEF Reader, ExecBegins, FindSecret, FindStamp, ReadStamp,
           AskAgent, Compare, FindValue, ExecFails, ReaderType
      <4> QED
        BY <4>1
    <3> QED
      BY <3>1, <3>2, <3>3
  <2>4. kernel["secret"] \notin gone /\ agent \notin gone
    BY DEF GoneStaysGone
  <2> QED
    BY <1>0, <2>2, <2>3, <2>4 DEF RevokedIsGone, Ran
<1>2. CASE ~\E e \in Readers : Reader(e)
  <2>1. UNCHANGED reader
    BY <1>2, GranterStep, RevokerStep
       DEF Next, WriteVault, Time, ExpireSecret, ExpireStamp, ExpireAgent, vars
  <2> QED
    BY <2>1 DEF RevokedIsGone, Ran
<1> QED
  BY <1>1, <1>2

LEMMA InitRevokeInv ==
  Init => RevokeInv
<1> SUFFICES ASSUME Init PROVE RevokeInv
  OBVIOUS
<1>1. TypeOK
  BY InitType
<1>2. Promised /\ (\A r \in Revokers : Cleared(r))
  BY DEF Init, Promised, Cleared
<1>3. NoKernelNoKeys /\ GoneStaysGone /\ RevokedIsGone
  BY DEF Init, NoKernelNoKeys, Kinds, GoneStaysGone, RevokedIsGone, Ran
<1> QED
  BY <1>1, <1>2, <1>3 DEF RevokeInv

\* The inductive invariant behind RevokeIsFinal: what every revoker knows of
\* the kernel while it works, and that a done grant is never put back.
THEOREM RevokeInvariant == Spec => []RevokeInv
<1>1. Init => RevokeInv
  BY InitRevokeInv
<1>2. ASSUME RevokeInv, [Next]_vars PROVE RevokeInv'
  <2> USE <1>2 DEF RevokeInv
  <2>1. TypeOK'
    BY NextType
  <2>2. Promised'
    BY PromisedStep
  <2>3. \A r \in Revokers : Cleared(r)'
    BY ClearedStep
  <2>4. NoKernelNoKeys'
    BY NoKernelStep
  <2>5. GoneStaysGone'
    BY GoneStep
  <2>6. RevokedIsGone'
    BY RevokedStep
  <2> QED
    BY <2>1, <2>2, <2>3, <2>4, <2>5, <2>6
<1> QED
  BY <1>1, <1>2, PTL DEF Spec

\* A revoke that has returned is final (cmd/grant.go newRevokeCmd,
\* keyring.Revoke): no exec begun after it runs with a grant acknowledged
\* before it was asked for, on any platform, with any number of granters,
\* terminals included, readers and revokers, and whatever fails.
THEOREM RevokeIsFinal == Spec => []RevokedIsGone
<1>1. RevokeInv => RevokedIsGone
  BY DEF RevokeInv
<1> QED
  BY <1>1, RevokeInvariant, PTL

-----------------------------------------------------------------------------
(* One granter at a time.                                                  *)

Busy == Working \ {"decrypt"}

Made(g) == grant[g].pc \notin {"idle", "decrypt"} /\ grant[g].ver <= grant[g].val

MadeOrNone(s) == s # None => s \in Granters /\ Made(s)

NoOlder(s, c) == s # None /\ c # None => grant[s].ver <= grant[c].val

OneAtATime ==
  \A g, h \in Granters :
    grant[g].pc \in Working /\ grant[h].pc \in Working => g = h

Versions ==
  /\ vault = 0 \/ vault = Len(writes)
  /\ \A g \in Granters :
       /\ grant[g].ver <= Len(writes) /\ grant[g].val <= Len(writes)
       /\ grant[g].pc # "idle" => grant[g].ver # 0

Ordered ==
  \A g, h \in Granters :
    grant[g].pc \in Working => grant[h].ver <= grant[g].ver

Decrypted ==
  \A g \in Granters : grant[g].pc \in Busy => grant[g].ver <= grant[g].val

MarksMade ==
  /\ \A k \in Kinds : MadeOrNone(kernel[k])
  /\ MadeOrNone(agent)
  /\ \A e \in Readers : MadeOrNone(reader[e].saw) /\ MadeOrNone(reader[e].got)

Linking ==
  \A g \in Granters : grant[g].pc = "stamp" => kernel["secret"] \in {g, None}

KernelFresh == NoOlder(kernel["stamp"], kernel["secret"])

ReadersFresh ==
  \A e \in Readers :
    /\ reader[e].sawAt = "kernel" => NoOlder(reader[e].saw, kernel["secret"])
    /\ reader[e].sawAt = "agent" => NoOlder(reader[e].saw, agent)
    /\ reader[e].pc = "readValue" => reader[e].key # None
    /\ reader[e].pc = "running" => reader[e].got # None

SerialInv ==
  /\ TypeOK
  /\ OneAtATime /\ Versions /\ Ordered /\ Decrypted
  /\ MarksMade /\ Linking /\ KernelFresh /\ ReadersFresh
  /\ SameStoreNeverOld

\* What a granter's step does to its own grant.
LEMMA GranterMoves ==
  ASSUME TypeOK, NEW g \in Granters, Granter(g)
  PROVE  /\ grant[g].pc \in Working \cup {"idle"}
         /\ grant[g].pc = "idle" =>
              /\ LockFree(g) /\ vault # 0
              /\ grant'[g].pc = "decrypt" /\ grant'[g].ver = vault
         /\ grant[g].pc # "idle" =>
              /\ grant'[g].ver = grant[g].ver
              /\ grant'[g].pc \notin {"idle", "decrypt"}
         /\ grant[g].pc = "decrypt" =>
              \/ grant'[g].pc \in {"failed", "killed"}
              \/ vault # 0 /\ grant'[g].val = vault /\ grant'[g].pc \in {"value", "agent"}
         /\ grant[g].pc \notin {"idle", "decrypt"} => grant'[g].val = grant[g].val
         /\ grant'[g].val \in {grant[g].val, vault}
         /\ grant'[g].pc = "stamp" => grant[g].pc = "value" /\ AddKernel(g)
         /\ UNCHANGED <<vault, writes>>
<1>0. grant \in [Granters -> GrantType]
  BY DEF TypeOK, GrantType
<1> USE <1>0 DEF GrantType
<1>1. ASSUME ReadVersion(g)
      PROVE  /\ grant[g].pc = "idle" /\ LockFree(g) /\ vault # 0
             /\ grant'[g].pc = "decrypt" /\ grant'[g].ver = vault
             /\ grant'[g].val = grant[g].val
  BY <1>1 DEF ReadVersion
<1>2. ASSUME Decrypt(g)
      PROVE  /\ grant[g].pc = "decrypt" /\ grant'[g].ver = grant[g].ver
             /\ grant'[g].val \in {grant[g].val, vault}
             /\ \/ grant'[g].pc = "failed"
                \/ vault # 0 /\ grant'[g].val = vault /\ grant'[g].pc \in {"value", "agent"}
  <2>1. CASE vault = 0
    BY <1>2, <2>1 DEF Decrypt
  <2>2. CASE vault # 0
    <3> DEFINE pc == IF HasKernel THEN "value" ELSE "agent"
    <3>1. grant' = [grant EXCEPT ![g].pc = pc, ![g].val = vault]
      BY <1>2, <2>2 DEF Decrypt
    <3>2. pc \in {"value", "agent"}
      OBVIOUS
    <3> HIDE DEF pc
    <3>3. grant'[g].pc = pc /\ grant'[g].val = vault /\ grant'[g].ver = grant[g].ver
      BY <3>1
    <3> QED
      BY <1>2, <2>2, <3>2, <3>3 DEF Decrypt
  <2> QED
    BY <2>1, <2>2
<1>3. ASSUME AddKernel(g)
      PROVE  /\ grant[g].pc \in {"value", "stamp"}
             /\ grant'[g].pc = IF grant[g].pc = "value" THEN "stamp" ELSE "agent"
             /\ grant'[g].ver = grant[g].ver /\ grant'[g].val = grant[g].val
  BY <1>3 DEF AddKernel, GoTo
<1>4. ASSUME \/ AddKernelFails(g) \/ AddAgent(g) \/ AddAgentFails(g) \/ GranterDies(g)
             \/ UndoLists(g) \/ Undone(g)
      PROVE  /\ grant[g].pc \in Working
             /\ grant'[g].pc \in {"failed", "done", "undo", "killed", "unlink", "undone"}
             /\ grant[g].pc = "decrypt" => grant'[g].pc = "killed"
             /\ grant'[g].ver = grant[g].ver /\ grant'[g].val = grant[g].val
  BY <1>4 DEF AddKernelFails, AddAgent, AddAgentFails, GranterDies, UndoLists, Undone,
     GoTo, Working
<1>5. ASSUME UndoUnlinks(g)
      PROVE  /\ grant[g].pc = "unlink" /\ grant'[g].pc \in {"unlink", "undone"}
             /\ grant'[g].ver = grant[g].ver /\ grant'[g].val = grant[g].val
  BY <1>5 DEF UndoUnlinks, GoTo
<1>6. UNCHANGED <<vault, writes>>
  BY DEF Granter, ReadVersion, Decrypt, AddKernel, AddKernelFails, AddAgent,
     AddAgentFails, GranterDies, UndoLists, UndoUnlinks, Undone
<1> HIDE <1>0
<1>7. CASE ReadVersion(g)
  BY <1>1, <1>6, <1>7
<1>8. CASE Decrypt(g)
  BY <1>2, <1>6, <1>8 DEF Working
<1>9. CASE AddKernel(g)
  BY <1>3, <1>6, <1>9 DEF Working
<1>10. CASE \/ AddKernelFails(g) \/ AddAgent(g) \/ AddAgentFails(g) \/ GranterDies(g)
            \/ UndoLists(g) \/ Undone(g)
  BY <1>4, <1>6, <1>10 DEF Working
<1>11. CASE UndoUnlinks(g)
  BY <1>5, <1>6, <1>11 DEF Working
<1> QED
  BY <1>7, <1>8, <1>9, <1>10, <1>11 DEF Granter

\* The versions granters read and decrypt at, while the lock keeps them apart.
LEMMA GranterSerial ==
  ASSUME Terminals = {}, TypeOK, OneAtATime, Versions, Ordered, Decrypted,
         NEW g \in Granters, Granter(g)
  PROVE  OneAtATime' /\ Versions' /\ Ordered' /\ Decrypted'
<1>0. /\ vault \in Nat /\ Len(writes) \in Nat /\ vault' = vault /\ Len(writes') = Len(writes)
      /\ \A h \in Granters : grant[h].ver \in Nat /\ grant[h].val \in Nat
      /\ grant'[g].val \in {grant[g].val, vault}
  BY GranterMoves DEF TypeOK
<1>1. \A h \in Granters : h # g => grant'[h] = grant[h]
  BY GranterStep
<1>2. \A h \in Granters : h # g => grant[h].pc \notin Working
  <2>1. CASE grant[g].pc = "idle"
    BY <2>1, GranterMoves DEF LockFree, Granters
  <2>2. CASE grant[g].pc # "idle"
    BY <2>2, GranterMoves DEF OneAtATime
  <2> QED
    BY <2>1, <2>2
<1>3. OneAtATime'
  BY <1>1, <1>2 DEF OneAtATime
<1>4. CASE grant[g].pc = "idle"
  <2>1. vault # 0 /\ grant'[g].pc = "decrypt" /\ grant'[g].ver = vault /\ vault = Len(writes)
    BY <1>4, GranterMoves DEF Versions
  <2>2. Versions' /\ Ordered'
    BY <1>0, <1>1, <1>2, <2>1 DEF Versions, Ordered
  <2>3. Decrypted'
    BY <1>1, <1>2, <2>1 DEF Decrypted, Busy
  <2> QED
    BY <1>3, <2>2, <2>3
<1>5. CASE grant[g].pc # "idle"
  <2>1. grant[g].pc \in Working /\ grant'[g].ver = grant[g].ver
    BY <1>5, GranterMoves
  <2>2. Ordered'
    BY <1>0, <1>1, <1>2, <2>1 DEF Ordered
  <2>5. Versions'
    <3>1. /\ grant'[g].ver <= Len(writes') /\ grant'[g].val <= Len(writes')
          /\ grant'[g].ver # 0
      BY <1>0, <1>5, <2>1 DEF Versions
    <3> QED
      BY <1>0, <1>1, <3>1 DEF Versions
  <2>3. grant'[g].pc \in Busy => grant'[g].ver <= grant'[g].val
    <3>1. CASE grant[g].pc = "decrypt"
      BY <1>0, <2>1, <3>1, GranterMoves DEF Versions, Busy, Working
    <3>2. CASE grant[g].pc # "decrypt"
      BY <1>5, <2>1, <3>2, GranterMoves DEF Decrypted, Busy
    <3> QED
      BY <3>1, <3>2
  <2>4. Decrypted'
    BY <1>1, <1>2, <2>3 DEF Decrypted, Busy
  <2> QED
    BY <1>3, <2>2, <2>4, <2>5
<1> QED
  BY <1>4, <1>5

\* Whoever links or stores a grant has the newest value of all.
LEMMA Newest ==
  ASSUME TypeOK, Ordered, Decrypted, NEW g \in Granters, grant[g].pc \in Busy
  PROVE  Made(g) /\ \A s \in Granters : grant[s].ver <= grant[g].val
<1>1. \A h \in Granters : grant[h].ver \in Nat /\ grant[h].val \in Nat
  BY DEF TypeOK
<1>2. grant[g].ver <= grant[g].val
  BY DEF Decrypted
<1>3. \A s \in Granters : grant[s].ver <= grant[g].ver
  BY DEF Ordered, Busy
<1>4. Made(g)
  BY <1>2 DEF Made, Busy, Working
<1> QED
  BY <1>1, <1>2, <1>3, <1>4

\* A grant that was made keeps its version and its value.
LEMMA MadeStays ==
  ASSUME TypeOK, NEW g \in Granters, Granter(g), NEW s, MadeOrNone(s)
  PROVE  /\ MadeOrNone(s)'
         /\ s # None => grant'[s].ver = grant[s].ver /\ grant'[s].val = grant[s].val
<1>1. CASE s = None
  BY <1>1 DEF MadeOrNone
<1>2. CASE s # None /\ s = g
  BY <1>2, GranterMoves DEF MadeOrNone, Made
<1>3. CASE s # None /\ s # g
  BY <1>3, GranterStep DEF MadeOrNone, Made
<1> QED
  BY <1>1, <1>2, <1>3

\* What a granter puts where.
LEMMA GranterLinks ==
  ASSUME TypeOK, NEW g \in Granters, Granter(g)
  PROVE  /\ \A k \in Kinds :
              \/ kernel'[k] \in {kernel[k], None}
              \/ kernel'[k] = g /\ grant[g].pc = (IF k = "secret" THEN "value" ELSE "stamp")
         /\ agent' = agent \/ (agent' = g /\ grant[g].pc = "agent")
<1>0. kernel \in [Kinds -> Marks]
  BY DEF TypeOK
<1>1. agent' = agent \/ (agent' = g /\ grant[g].pc = "agent")
  <2>1. CASE AddAgent(g) \/ AddAgentFails(g)
    BY <2>1 DEF AddAgent, AddAgentFails
  <2>2. CASE ~AddAgent(g) /\ ~AddAgentFails(g)
    BY <2>2 DEF Granter, ReadVersion, Decrypt, AddKernel, AddKernelFails,
       GranterDies, UndoLists, UndoUnlinks, Undone
  <2> QED
    BY <2>1, <2>2
<1>2. CASE AddKernel(g)
  <2>1. \/ grant[g].pc = "value" /\ kernel' = [kernel EXCEPT !["secret"] = g]
        \/ grant[g].pc = "stamp" /\ kernel' = [kernel EXCEPT !["stamp"] = g]
    BY <1>2 DEF AddKernel, AddsKind
  <2> QED
    BY <1>0, <1>1, <2>1 DEF Kinds
<1>3. CASE UndoUnlinks(g)
  <2>1. \A k \in Kinds : kernel'[k] \in {kernel[k], None}
    <3>1. CASE UnlinkStops(g)
      BY <3>1 DEF UnlinkStops
    <3>2. CASE Unlink(g)
      <4>1. PICK d \in drop[g] :
              kernel' = IF Linked(d) THEN [kernel EXCEPT ![d[1]] = None] ELSE kernel
        BY <3>2 DEF Unlink
      <4> QED
        BY <1>0, <4>1
    <3> QED
      BY <1>3, <3>1, <3>2 DEF UndoUnlinks
  <2> QED
    BY <1>1, <2>1
<1>4. CASE ~AddKernel(g) /\ ~UndoUnlinks(g)
  <2>1. kernel' = kernel
    BY <1>4 DEF Granter, ReadVersion, Decrypt, AddKernelFails, AddAgent,
     AddAgentFails, GranterDies, UndoLists, Undone
  <2> QED
    BY <1>1, <2>1
<1> QED
  BY <1>2, <1>3, <1>4

\* A granter's step keeps the invariant.
LEMMA GranterKeepsSerial ==
  ASSUME Terminals = {}, SerialInv, NEW g \in Granters, Granter(g)
  PROVE  SerialInv'
<1>0. TypeOK /\ OneAtATime /\ Versions /\ Ordered /\ Decrypted
  BY DEF SerialInv
<1>1. TypeOK' /\ OneAtATime' /\ Versions' /\ Ordered' /\ Decrypted'
  BY <1>0, GranterType, GranterSerial
<1>2. reader' = reader /\ "secret" \in Kinds /\ "stamp" \in Kinds /\ "secret" # "stamp"
  BY <1>0, GranterStep DEF Kinds
<1>3. \A s : MadeOrNone(s)
        => /\ MadeOrNone(s)'
           /\ s # None => grant'[s].ver = grant[s].ver /\ grant'[s].val = grant[s].val
  BY <1>0, MadeStays
<1>4. grant[g].pc \in {"value", "stamp", "agent"}
        => /\ MadeOrNone(g)' /\ grant'[g].val = grant[g].val
           /\ \A s \in Granters : grant[s].ver <= grant[g].val
  <2>1. ASSUME grant[g].pc \in {"value", "stamp", "agent"}
        PROVE  Made(g) /\ \A s \in Granters : grant[s].ver <= grant[g].val
    BY <1>0, <2>1, Newest DEF Busy, Working
  <2>2. ASSUME grant[g].pc \in {"value", "stamp", "agent"}
        PROVE  grant'[g].val = grant[g].val
    BY <1>0, <2>2, GranterMoves
  <2> QED
    BY <1>3, <2>1, <2>2 DEF MadeOrNone
<1>5. MarksMade'
  <2>1. (\A k \in Kinds : MadeOrNone(kernel[k])') /\ MadeOrNone(agent)'
    BY <1>0, <1>3, <1>4, GranterLinks DEF SerialInv, MarksMade, MadeOrNone
  <2>2. \A e \in Readers : MadeOrNone(reader[e].saw)' /\ MadeOrNone(reader[e].got)'
    BY <1>2, <1>3 DEF SerialInv, MarksMade, MadeOrNone, Made
  <2> QED
    BY <2>1, <2>2 DEF MarksMade, MadeOrNone, Made
<1>6. Linking'
  <2>1. ASSUME NEW h \in Granters, grant'[h].pc = "stamp"
        PROVE  kernel'["secret"] \in {h, None}
    <3>1. CASE h = g
      BY <1>0, <2>1, <3>1, GranterMoves DEF AddKernel, AddsKind, TypeOK, Kinds
    <3>2. CASE h # g
      <4>1. grant[h].pc = "stamp"
        BY <1>0, <2>1, <3>2, GranterStep
      <4>2. grant[g].pc = "idle"
        BY <1>0, <3>2, <4>1, GranterMoves DEF OneAtATime, Working
      <4>3. g \in Approvers /\ h \in Approvers
        BY DEF Granters
      <4> QED
        BY <1>0, <3>2, <4>1, <4>2, <4>3, GranterMoves DEF LockFree, Working
    <3> QED
      BY <3>1, <3>2
  <2> QED
    BY <2>1 DEF Linking
<1>7. ASSUME NEW s, MadeOrNone(s), NoOlder(s, kernel["secret"])
      PROVE  NoOlder(s, kernel["secret"])'
  <2>1. CASE kernel'["secret"] \in {kernel["secret"], None}
    BY <1>2, <1>3, <1>7, <2>1 DEF NoOlder, SerialInv, MarksMade
  <2>2. CASE kernel'["secret"] = g /\ grant[g].pc = "value"
    BY <1>3, <1>4, <1>7, <2>2 DEF NoOlder, MadeOrNone
  <2> QED
    BY <1>0, <1>2, <2>1, <2>2, GranterLinks
<1>8. ASSUME NEW s, MadeOrNone(s), NoOlder(s, agent)
      PROVE  NoOlder(s, agent)'
  <2>1. CASE agent' = agent
    BY <1>3, <1>8, <2>1 DEF NoOlder, SerialInv, MarksMade
  <2>2. CASE agent' = g /\ grant[g].pc = "agent"
    BY <1>3, <1>4, <1>8, <2>2 DEF NoOlder, MadeOrNone
  <2> QED
    BY <1>0, <2>1, <2>2, GranterLinks
<1>9. KernelFresh'
  <2>1. CASE kernel'["stamp"] = kernel["stamp"]
    BY <1>2, <1>7, <2>1 DEF SerialInv, MarksMade, KernelFresh, NoOlder
  <2>2. CASE kernel'["stamp"] = None
    BY <2>2 DEF KernelFresh, NoOlder
  <2>3. CASE kernel'["stamp"] = g /\ grant[g].pc = "stamp"
    <3>1. kernel'["secret"] \in {g, None}
      BY <1>0, <1>2, <2>3, GranterLinks DEF SerialInv, Linking
    <3>2. grant'[g].ver <= grant'[g].val
      BY <1>4, <2>3, GrantsAssumption DEF MadeOrNone, Made, GrantsAssumption
    <3> QED
      BY <2>3, <3>1, <3>2 DEF KernelFresh, NoOlder
  <2> QED
    BY <1>0, <1>2, <2>1, <2>2, <2>3, GranterLinks
<1>10. ReadersFresh'
  BY <1>2, <1>7, <1>8 DEF SerialInv, MarksMade, ReadersFresh, NoOlder
<1>11. SameStoreNeverOld'
  <2>1. ASSUME NEW e \in Readers, Ran(e), reader[e].saw # None,
               reader[e].sawAt = reader[e].gotAt
        PROVE  grant'[reader[e].saw].ver <= grant'[reader[e].got].val
    <3>1. grant[reader[e].saw].ver <= grant[reader[e].got].val
      BY <2>1 DEF SerialInv, SameStoreNeverOld
    <3>2. reader[e].got # None /\ MadeOrNone(reader[e].saw) /\ MadeOrNone(reader[e].got)
      BY <2>1 DEF SerialInv, ReadersFresh, MarksMade, Ran
    <3> QED
      BY <1>3, <2>1, <3>1, <3>2
  <2> QED
    BY <1>2, <2>1 DEF SameStoreNeverOld, Ran
<1> QED
  BY <1>1, <1>5, <1>6, <1>9, <1>10, <1>11 DEF SerialInv

\* Nobody else makes a grant, or moves a made one anywhere.
LEMMA StoresOnlyLose ==
  ASSUME TypeOK,
         WriteVault \/ Time \/ (\E r \in Revokers : Revoker(r)) \/ UNCHANGED vars
  PROVE  /\ UNCHANGED <<grant, reader>>
         /\ \A k \in Kinds : kernel'[k] \in {kernel[k], None}
         /\ agent' \in {agent, None}
         /\ Versions => Versions'
<1>0. /\ kernel \in [Kinds -> Marks] /\ vault \in Nat /\ writes \in Seq(Nat)
      /\ \A g \in Granters : grant[g].ver \in Nat /\ grant[g].val \in Nat
  BY DEF TypeOK
<1>5. ASSUME NEW f \in Nat, Rewrite(f), Versions, grant' = grant PROVE Versions'
  <2>1. /\ Len(writes) \in Nat /\ Len(writes') = Len(writes) + 1 /\ vault' = Len(writes')
    BY <1>0, <1>5, RewriteStep
  <2> QED
    BY <1>0, <1>5, <2>1 DEF Versions
<1>1. CASE WriteVault
  <2>1. Rewrite(NewFile) /\ NewFile \in Nat
    BY <1>0, <1>1 DEF WriteVault, NewFile
  <2>2. UNCHANGED <<kernel, agent, grant, reader>>
    BY <1>1 DEF WriteVault
  <2> QED
    BY <1>5, <2>1, <2>2
<1>2. CASE Time
  BY <1>0, <1>2 DEF Time, ExpireSecret, ExpireStamp, ExpireAgent, Versions
<1>3. ASSUME NEW r \in Revokers, Revoker(r)
      PROVE  /\ UNCHANGED <<grant, reader>>
             /\ \A k \in Kinds : kernel'[k] \in {kernel[k], None}
             /\ agent' \in {agent, None}
             /\ Versions => Versions'
  <2>1. UNCHANGED <<grant, reader>> /\ agent' \in {agent, None}
    BY <1>3, RevokerStep
  <2>2. \A k \in Kinds : kernel'[k] \in {kernel[k], None}
    <3>1. CASE Unlink(r)
      <4>1. PICK d \in drop[r] :
              kernel' = IF Linked(d) THEN [kernel EXCEPT ![d[1]] = None] ELSE kernel
        BY <3>1 DEF Unlink
      <4> QED
        BY <1>0, <4>1
    <3>2. CASE ~Unlink(r)
      <4>1. kernel' = kernel
        BY <1>3, <3>2 DEF Revoker, RevokeBegins, ListKernel, ListAgent, RevokeKernel,
           RevokeUnlinks, RevokeUnlinked, RevokeAgent, UnlinkStops
      <4> QED
        BY <4>1
    <3> QED
      BY <3>1, <3>2
  <2>3. ASSUME Versions PROVE Versions'
    <3>1. CASE RevokeBegins(r)
      <4>1. \/ UNCHANGED <<vault, writes>>
            \/ vault' = 0 /\ UNCHANGED writes
            \/ \E f \in Nat : Rewrite(f)
        BY <1>0, <3>1, ChangesVaultStep DEF RevokeBegins
      <4>2. CASE \E f \in Nat : Rewrite(f)
        BY <1>5, <2>1, <2>3, <4>2
      <4>3. CASE writes' = writes /\ vault' \in {0, vault}
        BY <2>1, <2>3, <4>3 DEF Versions
      <4> QED
        BY <4>1, <4>2, <4>3
    <3>2. CASE ~RevokeBegins(r)
      <4>1. UNCHANGED <<vault, writes>>
        BY <1>3, <3>2 DEF Revoker, ListKernel, ListAgent, RevokeKernel,
           RevokeUnlinks, RevokeUnlinked, RevokeAgent
      <4> QED
        BY <2>1, <2>3, <4>1 DEF Versions
    <3> QED
      BY <3>1, <3>2
  <2> QED
    BY <2>1, <2>2, <2>3
<1>4. CASE UNCHANGED vars
  BY <1>4 DEF vars, Versions
<1> QED
  BY <1>1, <1>2, <1>3, <1>4

\* Losing keys keeps the invariant.
LEMMA LosingKeepsSerial ==
  ASSUME SerialInv, TypeOK',
         WriteVault \/ Time \/ (\E r \in Revokers : Revoker(r)) \/ UNCHANGED vars
  PROVE  SerialInv'
<1>1. /\ grant' = grant /\ reader' = reader
      /\ kernel'["secret"] \in {kernel["secret"], None}
      /\ kernel'["stamp"] \in {kernel["stamp"], None}
      /\ agent' \in {agent, None}
      /\ Versions'
  BY StoresOnlyLose DEF SerialInv, Kinds
<1>2. OneAtATime' /\ Ordered' /\ Decrypted'
  BY <1>1 DEF SerialInv, OneAtATime, Ordered, Decrypted
<1>3. MarksMade'
  BY <1>1 DEF SerialInv, MarksMade, MadeOrNone, Made, Kinds
<1>4. Linking'
  BY <1>1 DEF SerialInv, Linking
<1>5. KernelFresh'
  BY <1>1 DEF SerialInv, KernelFresh, NoOlder
<1>6. ReadersFresh'
  BY <1>1 DEF SerialInv, ReadersFresh, NoOlder
<1>7. SameStoreNeverOld'
  BY <1>1 DEF SerialInv, SameStoreNeverOld, Ran
<1> QED
  BY <1>1, <1>2, <1>3, <1>4, <1>5, <1>6, <1>7 DEF SerialInv

\* A reader's step keeps the invariant.
LEMMA ReaderKeepsSerial ==
  ASSUME SerialInv, NEW e \in Readers, Reader(e)
  PROVE  SerialInv'
<1>0. /\ TypeOK' /\ reader \in [Readers -> ReaderType]
      /\ UNCHANGED <<vault, writes, kernel, agent, grant>>
      /\ "secret" \in Kinds /\ "stamp" \in Kinds
  BY ReaderStepType, ReaderFrame DEF SerialInv, TypeOK, Kinds
<1>1. \A d \in Readers : d # e => reader'[d] = reader[d]
  BY <1>0 DEF Reader, ExecBegins, FindSecret, FindStamp, ReadStamp, AskAgent,
     Compare, FindValue, ReadValue, ReadAgent, ExecFails
<1> DEFINE old == reader[e]
           new == reader'[e]
<1>2. \/ /\ new.saw = old.saw /\ new.sawAt = old.sawAt
      \/ new.saw \in {kernel["stamp"], None} /\ new.sawAt = "kernel"
      \/ new.saw = agent /\ new.sawAt = "agent"
  <2>1. CASE ReadStamp(e)
    <3>1. StampRead(e) \in {kernel["stamp"], None}
      BY DEF StampRead
    <3>2. new.saw = StampRead(e) /\ new.sawAt = "kernel"
      BY <1>0, <2>1 DEF ReadStamp, ReaderType
    <3> QED
      BY <3>1, <3>2
  <2>2. CASE AskAgent(e)
    BY <1>0, <2>2 DEF AskAgent, ReaderType
  <2>3. CASE ~ReadStamp(e) /\ ~AskAgent(e)
    BY <1>0, <2>3 DEF Reader, ExecBegins, FindSecret, FindStamp, Compare, FindValue,
       ReadValue, ReadAgent, ExecFails, ReaderType
  <2> QED
    BY <2>1, <2>2, <2>3
<1>3. \/ /\ new.pc # "running" /\ new.got = old.got
      \/ /\ new.pc = "running" /\ new.saw = old.saw /\ new.sawAt = old.sawAt
         /\ \/ new.got = kernel["secret"] /\ new.got # None /\ new.gotAt = "kernel"
            \/ new.got = agent /\ new.got # None /\ new.gotAt = "agent"
  <2>1. CASE ReadValue(e)
    <3>1. old.key # None
      BY <2>1 DEF ReadValue, SerialInv, ReadersFresh
    <3> QED
      BY <1>0, <2>1, <3>1 DEF ReadValue, ReaderType
  <2>2. CASE ReadAgent(e)
    BY <1>0, <2>2 DEF ReadAgent, ReaderType
  <2>3. CASE ~ReadValue(e) /\ ~ReadAgent(e)
    <3>1. new.pc # "running" /\ new.got = old.got
      BY <1>0, <2>3 DEF Reader, ExecBegins, FindSecret, FindStamp, ReadStamp, AskAgent,
         Compare, FindValue, ExecFails, ReaderType
    <3> QED
      BY <3>1
  <2> QED
    BY <2>1, <2>2, <2>3
<1>4. new.pc = "readValue" => new.key # None
  <2>1. CASE FindValue(e)
    BY <1>0, <2>1 DEF FindValue, ReaderType
  <2>2. CASE ~FindValue(e)
    <3>1. new.pc # "readValue"
      BY <1>0, <2>2 DEF Reader, ExecBegins, FindSecret, FindStamp, ReadStamp, AskAgent,
         Compare, ReadValue, ReadAgent, ExecFails, ReaderType
    <3> QED
      BY <3>1
  <2> QED
    BY <2>1, <2>2
<1> HIDE DEF old, new
<1>5. /\ MadeOrNone(kernel["stamp"]) /\ MadeOrNone(kernel["secret"]) /\ MadeOrNone(agent)
      /\ MadeOrNone(old.saw) /\ MadeOrNone(old.got) /\ MadeOrNone(None)
  BY <1>0 DEF SerialInv, MarksMade, old, MadeOrNone
<1>6. MadeOrNone(new.saw) /\ MadeOrNone(new.got)
  BY <1>2, <1>3, <1>5
<1>7. MarksMade'
  BY <1>0, <1>1, <1>6 DEF SerialInv, MarksMade, MadeOrNone, Made, new
<1>8. /\ NoOlder(kernel["stamp"], kernel["secret"]) /\ NoOlder(agent, agent)
      /\ NoOlder(None, kernel["secret"])
      /\ old.sawAt = "kernel" => NoOlder(old.saw, kernel["secret"])
      /\ old.sawAt = "agent" => NoOlder(old.saw, agent)
  BY <1>5 DEF SerialInv, KernelFresh, ReadersFresh, NoOlder, MadeOrNone, Made, old
<1>9. /\ new.sawAt = "kernel" => NoOlder(new.saw, kernel["secret"])
      /\ new.sawAt = "agent" => NoOlder(new.saw, agent)
  BY <1>2, <1>8
<1>10. ReadersFresh'
  <2>1. ASSUME NEW d \in Readers, d # e
        PROVE  /\ reader'[d].sawAt = "kernel" => NoOlder(reader'[d].saw, kernel["secret"])
               /\ reader'[d].sawAt = "agent" => NoOlder(reader'[d].saw, agent)
               /\ reader'[d].pc = "readValue" => reader'[d].key # None
               /\ reader'[d].pc = "running" => reader'[d].got # None
    BY <1>1, <2>1 DEF SerialInv, ReadersFresh
  <2>2. /\ reader'[e].sawAt = "kernel" => NoOlder(reader'[e].saw, kernel["secret"])
        /\ reader'[e].sawAt = "agent" => NoOlder(reader'[e].saw, agent)
        /\ reader'[e].pc = "readValue" => reader'[e].key # None
        /\ reader'[e].pc = "running" => reader'[e].got # None
    BY <1>3, <1>4, <1>9 DEF new
  <2> QED
    BY <1>0, <2>1, <2>2 DEF ReadersFresh, NoOlder
<1>11. SameStoreNeverOld'
  <2>1. ASSUME NEW d \in Readers, reader'[d].pc = "running", reader'[d].saw # None,
               reader'[d].sawAt = reader'[d].gotAt
        PROVE  grant[reader'[d].saw].ver <= grant[reader'[d].got].val
    <3>1. CASE d # e
      BY <1>1, <2>1, <3>1 DEF SerialInv, SameStoreNeverOld, Ran
    <3>2. CASE d = e
      <4>1. NoOlder(new.saw, new.got) /\ new.got # None
        BY <1>3, <1>9, <2>1, <3>2 DEF new
      <4> QED
        BY <2>1, <3>2, <4>1 DEF NoOlder, new
    <3> QED
      BY <3>1, <3>2
  <2> QED
    BY <1>0, <2>1 DEF SameStoreNeverOld, Ran
<1>12. OneAtATime' /\ Versions' /\ Ordered' /\ Decrypted' /\ Linking' /\ KernelFresh'
  BY <1>0 DEF SerialInv, OneAtATime, Versions, Ordered, Decrypted, Linking, KernelFresh,
     NoOlder
<1> QED
  BY <1>0, <1>7, <1>10, <1>11, <1>12 DEF SerialInv

LEMMA InitSerialInv ==
  Init => SerialInv
<1> SUFFICES ASSUME Init PROVE SerialInv
  OBVIOUS
<1>1. TypeOK
  BY InitType
<1>2. OneAtATime /\ Versions /\ Ordered /\ Decrypted /\ Linking
  BY DEF Init, OneAtATime, Versions, Ordered, Decrypted, Linking, Working, Busy
<1>3. MarksMade /\ KernelFresh /\ ReadersFresh /\ SameStoreNeverOld
  BY DEF Init, MarksMade, MadeOrNone, KernelFresh, NoOlder, ReadersFresh,
     SameStoreNeverOld, Ran, Kinds
<1> QED
  BY <1>1, <1>2, <1>3 DEF SerialInv

\* The inductive invariant behind NeverOldSerial: what the request lock keeps
\* of versions and values, and what each store and each exec may hold.
THEOREM SerialInvariant ==
  ASSUME Terminals = {}
  PROVE  Spec => []SerialInv
<1>1. Init => SerialInv
  BY InitSerialInv
<1>2. ASSUME SerialInv, [Next]_vars PROVE SerialInv'
  <2>1. TypeOK'
    BY <1>2, NextType DEF SerialInv
  <2>2. CASE \E g \in Granters : Granter(g)
    BY <1>2, <2>2, GranterKeepsSerial
  <2>3. CASE \E e \in Readers : Reader(e)
    BY <1>2, <2>3, ReaderKeepsSerial
  <2>4. CASE WriteVault \/ Time \/ (\E r \in Revokers : Revoker(r)) \/ UNCHANGED vars
    BY <1>2, <2>1, <2>4, LosingKeepsSerial
  <2> QED
    BY <1>2, <2>2, <2>3, <2>4 DEF Next
<1> QED
  BY <1>1, <1>2, PTL DEF Spec

\* keyring.Add's order, value before version, does what its comment says as
\* long as the request lock keeps granters apart: for any number of
\* approvers, readers and revokers, and whatever fails or dies, an exec that
\* compared a version runs with that version's value or a newer one, where
\* both came from the same store.
THEOREM NeverOldSerial ==
  ASSUME Terminals = {}
  PROVE  Spec => []SameStoreNeverOld
<1>1. SerialInv => SameStoreNeverOld
  BY DEF SerialInv
<1> QED
  BY <1>1, SerialInvariant, PTL

-----------------------------------------------------------------------------
(* The agent alone.                                                        *)

\* No exec began at a version yet to be written.
BegunBefore == \A e \in Readers : reader[e].begun <= Len(writes)

\* The version e compared was that of the vault's file at some time since it
\* began: the write w, the grant's own or a later one that put the file back.
Compared(e) ==
  \E w \in 1..Len(writes) :
    /\ reader[e].begun <= w /\ grant[reader[e].saw].ver <= w
    /\ writes[w] = writes[grant[reader[e].saw].ver]

\* An exec that sees the agent alone asks it, compares what it answers, and
\* goes on only with the version of the vault's file then.
AsksAgent ==
  \A e \in Readers :
    ~SeesKernel(e) =>
      /\ reader[e].pc \notin {"secret", "stamp", "readStamp", "read", "readValue"}
      /\ reader[e].pc \in {"compare", "readAgent", "running"}
           => reader[e].saw # None /\ reader[e].sawAt = "agent"
      /\ reader[e].pc \in {"readAgent", "running"} => Compared(e)
      /\ reader[e].pc = "running" => reader[e].gotAt = "agent"

AgentInv == BegunBefore /\ AsksAgent

\* No step takes a write back.
Grown ==
  /\ Len(writes) \in Nat /\ Len(writes') \in Nat /\ Len(writes) <= Len(writes')
  /\ \A w \in 1..Len(writes) : writes'[w] = writes[w]

LEMMA WritesGrow ==
  ASSUME TypeOK, [Next]_vars
  PROVE  Grown
<1>0. vault \in Nat /\ writes \in Seq(Nat) /\ Len(writes) \in Nat
  BY DEF TypeOK
<1>1. ASSUME writes' = writes PROVE Grown
  BY <1>0, <1>1 DEF Grown
<1>2. ASSUME NEW f \in Nat, Rewrite(f) PROVE Grown
  BY <1>0, <1>2, RewriteStep DEF Grown
<1>3. CASE WriteVault
  BY <1>0, <1>2, <1>3 DEF WriteVault, NewFile
<1>4. CASE Time \/ UNCHANGED vars
  BY <1>1, <1>4 DEF Time, ExpireSecret, ExpireStamp, ExpireAgent, vars
<1>5. ASSUME NEW g \in Granters, Granter(g) PROVE Grown
  BY <1>1, <1>5, GranterMoves
<1>6. ASSUME NEW e \in Readers, Reader(e) PROVE Grown
  BY <1>1, <1>6, ReaderFrame
<1>7. ASSUME NEW r \in Revokers, Revoker(r) PROVE Grown
  <2>1. CASE RevokeBegins(r)
    <3>1. writes' = writes \/ \E f \in Nat : Rewrite(f)
      BY <1>0, <2>1, ChangesVaultStep DEF RevokeBegins
    <3> QED
      BY <1>1, <1>2, <3>1
  <2>2. CASE ~RevokeBegins(r)
    <3>1. writes' = writes
      BY <1>7, <2>2 DEF Revoker, ListKernel, ListAgent, RevokeKernel, RevokeUnlinks,
         RevokeUnlinked, RevokeAgent
    <3> QED
      BY <1>1, <3>1
  <2> QED
    BY <2>1, <2>2
<1> QED
  BY <1>3, <1>4, <1>5, <1>6, <1>7 DEF Next

\* Steps that are no exec's leave what an exec saw and got as it was.
LEMMA OthersKeepMade ==
  ASSUME SerialInv, [Next]_vars, ~\E e \in Readers : Reader(e)
  PROVE  /\ reader' = reader
         /\ \A s : s # None /\ MadeOrNone(s)
              => grant'[s].ver = grant[s].ver /\ grant'[s].val = grant[s].val
<1>1. CASE \E g \in Granters : Granter(g)
  BY <1>1, GranterStep, MadeStays DEF SerialInv
<1>2. CASE WriteVault \/ Time \/ (\E r \in Revokers : Revoker(r)) \/ UNCHANGED vars
  BY <1>2, StoresOnlyLose DEF SerialInv
<1> QED
  BY <1>1, <1>2 DEF Next

\* An exec's step keeps what is known of one that sees the agent alone.
LEMMA ReaderKeepsAgent ==
  ASSUME SerialInv, AgentInv, NEW e \in Readers, Reader(e)
  PROVE  AgentInv'
<1>0. /\ reader \in [Readers -> ReaderType]
      /\ UNCHANGED <<vault, writes, kernel, agent, grant>>
      /\ Len(writes) \in Nat /\ vault \in Nat /\ (vault = 0 \/ vault = Len(writes))
      /\ agent \in Marks /\ grant \in [Granters -> GrantType]
  BY ReaderFrame DEF SerialInv, TypeOK, Versions, GrantType
<1>1. \A d \in Readers : d # e => reader'[d] = reader[d]
  BY <1>0 DEF Reader, ExecBegins, FindSecret, FindStamp, ReadStamp, AskAgent,
     Compare, FindValue, ReadValue, ReadAgent, ExecFails
<1> DEFINE old == reader[e]
           new == reader'[e]
           Since(rd) == \E w \in 1..Len(writes) :
                          /\ rd.begun <= w /\ grant[rd.saw].ver <= w
                          /\ writes[w] = writes[grant[rd.saw].ver]
<1>2. old \in ReaderType
  BY <1>0
<1>3. new.begun = old.begun \/ (old.pc = "idle" /\ new.begun = vault)
  BY <1>0 DEF Reader, ExecBegins, FindSecret, FindStamp, ReadStamp, AskAgent,
     Compare, FindValue, ReadValue, ReadAgent, ExecFails, ReaderType
<1>4. BegunBefore'
  <2>1. new.begun <= Len(writes)
    BY <1>0, <1>2, <1>3 DEF AgentInv, BegunBefore, ReaderType
  <2> HIDE DEF old
  <2> QED
    BY <1>0, <1>1, <2>1 DEF AgentInv, BegunBefore
<1>5. ASSUME ~SeesKernel(e)
      PROVE  /\ new.pc \notin {"secret", "stamp", "readStamp", "read", "readValue"}
             /\ new.pc \in {"compare", "readAgent", "running"}
                  => new.saw # None /\ new.sawAt = "agent"
             /\ new.pc \in {"readAgent", "running"} => Since(new)
             /\ new.pc = "running" => new.gotAt = "agent"
  <2>0. /\ old.pc \notin {"secret", "stamp", "readStamp", "read", "readValue"}
        /\ old.pc \in {"compare", "readAgent", "running"}
             => old.saw # None /\ old.sawAt = "agent"
        /\ old.pc \in {"readAgent", "running"} => Since(old)
    BY <1>5 DEF AgentInv, AsksAgent, Compared
  <2>1. CASE ExecBegins(e)
    <3>1. new.pc = "ask"
      BY <1>0, <1>5, <2>1 DEF ExecBegins, ReaderType
    <3> QED
      BY <3>1
  <2>2. CASE AskAgent(e)
    <3>1. /\ new.pc = IF agent = None THEN "refused" ELSE "compare"
          /\ new.saw = agent /\ new.sawAt = "agent"
      BY <1>0, <2>2 DEF AskAgent, ReaderType
    <3> QED
      BY <3>1
  <2>3. CASE Compare(e)
    <3>1. /\ new.pc = IF ~IsCurrent(e) THEN "refused" ELSE "readAgent"
          /\ new.saw = old.saw /\ new.sawAt = old.sawAt /\ new.begun = old.begun
          /\ old.pc = "compare"
      BY <1>0, <1>5, <2>3 DEF Compare, ReaderType
    <3>2. old.begun <= Len(writes)
      BY DEF AgentInv, BegunBefore
    <3>3. ASSUME IsCurrent(e), old.pc = "compare" PROVE Since(old)
      <4>1. old.saw \in Granters
        BY <1>2, <2>0, <3>3 DEF Marks, ReaderType
      <4>2. grant[old.saw].ver <= Len(writes)
        BY <4>1 DEF SerialInv, Versions
      <4>3. vault = Len(writes) /\ vault # 0 /\ writes[vault] = writes[grant[old.saw].ver]
        BY <1>0, <3>3 DEF IsCurrent
      <4>4. vault \in 1..Len(writes)
        BY <1>0, <4>3
      <4> QED
        BY <3>2, <4>2, <4>3, <4>4
    <3>4. Since(old) => Since(new)
      BY <3>1
    <3> HIDE DEF Since, old, new
    <3> QED
      BY <2>0, <3>1, <3>3, <3>4
  <2>4. CASE ReadAgent(e)
    <3>1. old.pc = "readAgent" /\ new.begun = old.begun /\ new.saw = old.saw
          /\ new.sawAt = old.sawAt
      BY <1>0, <2>4 DEF ReadAgent, ReaderType
    <3>2. CASE agent = None
      <4>1. new.pc = "refused"
        BY <1>0, <2>4, <3>2 DEF ReadAgent, ReaderType
      <4> QED
        BY <4>1
    <3>3. CASE agent # None
      <4>1. new.pc = "running" /\ new.got = agent /\ new.gotAt = "agent"
        BY <1>0, <2>4, <3>3 DEF ReadAgent, ReaderType
      <4>2. Since(old) => Since(new)
        BY <3>1
      <4> HIDE DEF Since, old, new
      <4> QED
        BY <2>0, <3>1, <4>1, <4>2
    <3> QED
      BY <3>2, <3>3
  <2>5. CASE ExecFails(e)
    <3>1. new.pc = "failed"
      BY <1>0, <2>5 DEF ExecFails, ReaderType
    <3> QED
      BY <3>1
  <2>6. CASE FindSecret(e) \/ FindStamp(e) \/ ReadStamp(e) \/ FindValue(e) \/ ReadValue(e)
    BY <2>0, <2>6 DEF FindSecret, FindStamp, ReadStamp, FindValue, ReadValue
  <2> QED
    BY <2>1, <2>2, <2>3, <2>4, <2>5, <2>6 DEF Reader
<1> HIDE DEF old
<1>6. AsksAgent'
  <2>1. ASSUME NEW d \in Readers, ~SeesKernel(d), d # e
        PROVE  /\ reader'[d].pc \notin {"secret", "stamp", "readStamp", "read", "readValue"}
               /\ reader'[d].pc \in {"compare", "readAgent", "running"}
                    => reader'[d].saw # None /\ reader'[d].sawAt = "agent"
               /\ reader'[d].pc \in {"readAgent", "running"} => Compared(d)'
               /\ reader'[d].pc = "running" => reader'[d].gotAt = "agent"
    <3>1. reader'[d] = reader[d] /\ (Compared(d) => Compared(d)')
      BY <1>0, <1>1, <2>1 DEF Compared
    <3> QED
      BY <2>1, <3>1 DEF AgentInv, AsksAgent
  <2>2. Since(new) => Compared(e)'
    BY <1>0 DEF Compared
  <2> HIDE DEF Since
  <2> QED
    BY <1>5, <2>1, <2>2 DEF AsksAgent, SeesKernel
<1> QED
  BY <1>4, <1>6 DEF AgentInv

\* Nobody else's step says anything new of it.
LEMMA OthersKeepAgent ==
  ASSUME SerialInv, AgentInv, [Next]_vars, ~\E e \in Readers : Reader(e)
  PROVE  AgentInv'
<1>0. Grown /\ reader' = reader /\ reader \in [Readers -> ReaderType]
  BY WritesGrow, OthersKeepMade DEF SerialInv, TypeOK
<1>1. BegunBefore'
  <2>1. \A e \in Readers : reader[e].begun \in Nat
    BY <1>0 DEF ReaderType
  <2> QED
    BY <1>0, <2>1 DEF AgentInv, BegunBefore, Grown
<1>2. ASSUME NEW e \in Readers, reader[e].saw # None, Compared(e)
      PROVE  Compared(e)'
  <2>1. MadeOrNone(reader[e].saw)
    BY DEF SerialInv, MarksMade
  <2>2. grant'[reader[e].saw].ver = grant[reader[e].saw].ver
    BY <1>2, <2>1, OthersKeepMade
  <2>3. grant[reader[e].saw].ver \in 1..Len(writes)
    <3>1. reader[e].saw \in Granters /\ grant[reader[e].saw].pc # "idle"
      BY <1>2, <2>1 DEF MadeOrNone, Made
    <3>2. /\ grant[reader[e].saw].ver \in Nat /\ grant[reader[e].saw].ver # 0
          /\ grant[reader[e].saw].ver <= Len(writes)
      BY <3>1 DEF SerialInv, TypeOK, Versions
    <3> QED
      BY <1>0, <3>2 DEF Grown
  <2>4. PICK w \in 1..Len(writes) :
          /\ reader[e].begun <= w /\ grant[reader[e].saw].ver <= w
          /\ writes[w] = writes[grant[reader[e].saw].ver]
    BY <1>2 DEF Compared
  <2>5. /\ w \in 1..Len(writes') /\ writes'[w] = writes[w]
        /\ writes'[grant[reader[e].saw].ver] = writes[grant[reader[e].saw].ver]
    BY <1>0, <2>3 DEF Grown
  <2> QED
    BY <1>0, <2>2, <2>4, <2>5 DEF Compared
<1>3. AsksAgent'
  <2>1. ASSUME NEW e \in Readers, ~SeesKernel(e)
        PROVE  /\ reader[e].pc \notin {"secret", "stamp", "readStamp", "read", "readValue"}
               /\ reader[e].pc \in {"compare", "readAgent", "running"}
                    => reader[e].saw # None /\ reader[e].sawAt = "agent"
               /\ reader[e].pc \in {"readAgent", "running"} => Compared(e)'
               /\ reader[e].pc = "running" => reader[e].gotAt = "agent"
    BY <1>2, <2>1 DEF AgentInv, AsksAgent
  <2> QED
    BY <1>0, <2>1 DEF AsksAgent, SeesKernel
<1> QED
  BY <1>1, <1>3 DEF AgentInv

\* What an exec that sees the agent alone knows, while granters take turns.
THEOREM AgentInvariant ==
  ASSUME Terminals = {}
  PROVE  Spec => [](SerialInv /\ AgentInv)
<1>1. Init => AgentInv
  <2> SUFFICES ASSUME Init PROVE AgentInv
    OBVIOUS
  <2>1. BegunBefore
    BY DEF Init, BegunBefore
  <2>2. AsksAgent
    BY DEF Init, AsksAgent
  <2> QED
    BY <2>1, <2>2 DEF AgentInv
<1>2. ASSUME SerialInv, AgentInv, [Next]_vars PROVE AgentInv'
  BY <1>2, ReaderKeepsAgent, OthersKeepAgent
<1> QED
  BY <1>1, <1>2, SerialInvariant, PTL DEF Spec

\* An exec that sees the grant agent alone, on macOS and Windows or in a
\* sandbox on Linux (keyring.Keyring.Lookup, Read), always compared a version
\* and never runs with an older value, nor with one the vault had replaced
\* before that exec began (lookupGrant), unless a write came between version
\* and value and a restore has put the version's file back: for any number of
\* approvers, execs and revokers, while only approvers grant.
THEOREM AgentNeverOldHolds ==
  ASSUME Terminals = {}
  PROVE  Spec => []AgentNeverOld
<1>1. ASSUME SerialInv, AgentInv PROVE AgentNeverOld
  <2>1. ASSUME NEW e \in Readers, Ran(e), ~SeesKernel(e)
        PROVE  /\ reader[e].saw # None
               /\ grant[reader[e].saw].ver <= grant[reader[e].got].val
               /\ Fresh(e) \/ CameBack(e)
    <3>1. /\ reader[e].saw # None /\ reader[e].sawAt = "agent" /\ reader[e].gotAt = "agent"
          /\ Compared(e)
      BY <1>1, <2>1 DEF AgentInv, AsksAgent, Ran
    <3>2. grant[reader[e].saw].ver <= grant[reader[e].got].val
      BY <1>1, <2>1, <3>1 DEF SerialInv, SameStoreNeverOld
    <3>3. reader[e].saw \in Granters /\ reader[e].got \in Granters
      BY <1>1, <2>1, <3>1 DEF SerialInv, MarksMade, ReadersFresh, MadeOrNone, Ran
    <3> DEFINE ver == grant[reader[e].saw].ver
               val == grant[reader[e].got].val
    <3>4. /\ ver \in Nat /\ val \in Nat /\ val <= Len(writes) /\ Len(writes) \in Nat
          /\ reader[e].begun \in Nat
      BY <1>1, <3>3 DEF SerialInv, TypeOK, Versions, ReaderType
    <3>5. PICK w \in 1..Len(writes) :
            reader[e].begun <= w /\ ver <= w /\ writes[w] = writes[ver]
      BY <3>1 DEF Compared
    <3>6. CASE writes[val] = writes[ver]
      <4>1. w \in reader[e].begun..Len(writes) /\ writes[w] = writes[val]
        BY <3>4, <3>5, <3>6
      <4> QED
        BY <3>1, <3>2, <4>1 DEF Fresh
    <3>7. CASE writes[val] # writes[ver] /\ w = ver
      <4>1. val \in reader[e].begun..Len(writes)
        BY <3>2, <3>4, <3>5, <3>7
      <4> QED
        BY <3>1, <3>2, <4>1 DEF Fresh
    <3>8. CASE writes[val] # writes[ver] /\ w # ver
      <4>1. w \in (ver + 1)..Len(writes)
        BY <3>4, <3>5, <3>8
      <4> QED
        BY <3>1, <3>2, <3>5, <3>8, <4>1 DEF CameBack
    <3> QED
      BY <3>6, <3>7, <3>8
  <2> QED
    BY <2>1 DEF AgentNeverOld
<1> QED
  BY <1>1, AgentInvariant, PTL

-----------------------------------------------------------------------------
(* A grant undone.                                                         *)

\* The stamp is put only after the value, and stays put after it.
ValueThenStamp ==
  \A g \in Granters :
    /\ kernel["secret"] = g => grant[g].pc \notin {"idle", "decrypt", "value"}
    /\ kernel["stamp"] = g \/ (\E p \in Granters \cup Revokers : <<"stamp", g>> \in drop[p])
         => grant[g].pc \notin {"idle", "decrypt", "value", "stamp"}

\* A granter past the kernel sees its own keys there, or none.
OwnKeys ==
  \A g \in Granters :
    /\ grant[g].pc \in {"undo", "unlink"} => HasKernel
    /\ HasKernel /\ grant[g].pc \in {"agent", "undo", "unlink"}
         => \A k \in Kinds : kernel[k] \in {g, None}

\* One who undoes its grant lists keys of its own, its value among them.
UndoLeft ==
  \A g \in Granters :
    grant[g].pc = "unlink" =>
      /\ \A d \in drop[g] : d[2] = g
      /\ kernel["secret"] = g => <<"secret", g>> \in drop[g]

Early == {"idle", "list", "listed", "listAgent", "kernel"}

\* A revoker lists once, one key of a kind, and a value with its stamp.
RevokeLeft ==
  \A r \in Revokers :
    /\ revoker[r].pc \in Early => drop[r] = {}
    /\ \A c, d \in drop[r] : c[1] = d[1] => c = d
    /\ \A g \in Granters :
         <<"stamp", g>> \in drop[r] /\ kernel["secret"] = g => <<"secret", g>> \in drop[r]

\* Nothing but g's value is left for p to unlink.
ValueLeft(p, g) == drop[p] = {<<"secret", g>>}

\* A value whose stamp is gone is about to go: whoever unlinked the stamp has
\* nothing else left to do.
Undoing ==
  \A g \in Granters :
    grant[g].pc \in {"agent", "undo", "unlink", "undone"} /\ kernel["secret"] = g =>
      \/ kernel["stamp"] = g /\ grant[g].pc # "undone"
      \/ \E r \in Revokers : ValueLeft(r, g)
      \/ grant[g].pc = "unlink" /\ ValueLeft(g, g)

UndoInv ==
  /\ ValueThenStamp /\ OwnKeys
  /\ UndoLeft /\ RevokeLeft /\ Undoing

\* Losing keys, and listings getting shorter, puts none where it was not.
LEMMA LosingKeepsOrder ==
  ASSUME ValueThenStamp, OwnKeys,
         \A k \in Kinds : kernel'[k] \in {kernel[k], None},
         \A p \in Granters \cup Revokers : drop'[p] \subseteq drop[p],
         \A g \in Granters : \/ grant'[g].pc = grant[g].pc
                             \/ grant[g].pc = "unlink" /\ grant'[g].pc = "undone"
  PROVE  /\ ValueThenStamp' /\ OwnKeys'
         /\ \A g \in Granters, k \in Kinds : kernel'[k] = g => kernel[k] = g
<1>1. None \notin Granters /\ "secret" \in Kinds /\ "stamp" \in Kinds
  BY GrantsAssumption DEF GrantsAssumption, Kinds
<1>2. \A g \in Granters, k \in Kinds : kernel'[k] = g => kernel[k] = g
  BY <1>1
<1>3. ValueThenStamp'
  <2>1. ASSUME NEW g \in Granters, kernel'["secret"] = g
        PROVE  grant'[g].pc \notin {"idle", "decrypt", "value"}
    BY <1>1, <1>2, <2>1 DEF ValueThenStamp
  <2>2. ASSUME NEW g \in Granters,
               kernel'["stamp"] = g
                 \/ (\E p \in Granters \cup Revokers : <<"stamp", g>> \in drop'[p])
        PROVE  grant'[g].pc \notin {"idle", "decrypt", "value", "stamp"}
    <3>1. kernel["stamp"] = g
            \/ (\E p \in Granters \cup Revokers : <<"stamp", g>> \in drop[p])
      BY <1>1, <1>2, <2>2
    <3> QED
      BY <3>1 DEF ValueThenStamp
  <2> QED
    BY <2>1, <2>2 DEF ValueThenStamp
<1>4. OwnKeys'
  <2>1. ASSUME NEW g \in Granters, grant'[g].pc \in {"agent", "undo", "unlink"}
        PROVE  grant[g].pc = grant'[g].pc
    BY <2>1
  <2> QED
    BY <2>1 DEF OwnKeys
<1> QED
  BY <1>2, <1>3, <1>4

\* Steps that touch neither a key nor a listing nor a granter.
LEMMA QuietKeepsUndo ==
  ASSUME UndoInv, UNCHANGED <<kernel, drop, grant>>,
         \A r \in Revokers : revoker'[r].pc \in Early => revoker[r].pc \in Early
  PROVE  UndoInv'
<1>1. ValueThenStamp' /\ OwnKeys'
  BY DEF UndoInv, ValueThenStamp, OwnKeys
<1>2. UndoLeft' /\ RevokeLeft'
  BY DEF UndoInv, UndoLeft, RevokeLeft
<1>3. Undoing'
  BY DEF UndoInv, Undoing, ValueLeft
<1> QED
  BY <1>1, <1>2, <1>3 DEF UndoInv

\* What each step of a granter that touches no key does to its own grant.
LEMMA GranterQuiet ==
  ASSUME TypeOK, NEW g \in Granters,
         \/ ReadVersion(g) \/ Decrypt(g) \/ AddKernelFails(g) \/ AddAgent(g)
         \/ AddAgentFails(g) \/ GranterDies(g) \/ Undone(g)
  PROVE  /\ UNCHANGED <<kernel, drop, revoker>>
         /\ \A h \in Granters : h # g => grant'[h] = grant[h]
         /\ \/ grant[g].pc = "idle" /\ grant'[g].pc = "decrypt"
            \/ grant[g].pc = "decrypt" /\ grant'[g].pc = "value"
            \/ grant[g].pc = "decrypt" /\ grant'[g].pc = "agent" /\ ~HasKernel
            \/ grant[g].pc = "agent" /\ grant'[g].pc = "undo" /\ HasKernel
            \/ grant[g].pc = "unlink" /\ grant'[g].pc = "undone" /\ drop[g] = {}
            \/ grant'[g].pc \in {"failed", "done", "killed"}
<1>0. grant \in [Granters -> GrantType]
  BY DEF TypeOK, GrantType
<1>1. CASE ReadVersion(g)
  BY <1>0, <1>1 DEF ReadVersion, GrantType
<1>2. CASE Decrypt(g)
  <2>1. CASE vault = 0
    BY <1>0, <1>2, <2>1 DEF Decrypt, GrantType
  <2>2. CASE vault # 0
    <3> DEFINE pc == IF HasKernel THEN "value" ELSE "agent"
    <3>1. grant' = [grant EXCEPT ![g].pc = pc, ![g].val = vault]
      BY <1>2, <2>2 DEF Decrypt
    <3>2. pc = "value" \/ (pc = "agent" /\ ~HasKernel)
      OBVIOUS
    <3> HIDE DEF pc
    <3>3. grant'[g].pc = pc /\ \A h \in Granters : h # g => grant'[h] = grant[h]
      BY <1>0, <3>1 DEF GrantType
    <3> QED
      BY <1>2, <3>2, <3>3 DEF Decrypt
  <2> QED
    BY <2>1, <2>2
<1>3. CASE AddKernelFails(g) \/ AddAgent(g) \/ GranterDies(g)
  BY <1>0, <1>3 DEF AddKernelFails, AddAgent, GranterDies, GoTo, GrantType
<1>4. CASE AddAgentFails(g)
  <2>1. CASE HasKernel
    BY <1>0, <1>4, <2>1 DEF AddAgentFails, GoTo, GrantType
  <2>2. CASE ~HasKernel
    BY <1>0, <1>4, <2>2 DEF AddAgentFails, GoTo, GrantType
  <2> QED
    BY <2>1, <2>2
<1>5. CASE Undone(g)
  BY <1>0, <1>5 DEF Undone, GoTo, GrantType
<1> QED
  BY <1>1, <1>2, <1>3, <1>4, <1>5

LEMMA GranterQuietKeepsUndo ==
  ASSUME SerialInv, UndoInv, NEW g \in Granters,
         \/ ReadVersion(g) \/ Decrypt(g) \/ AddKernelFails(g) \/ AddAgent(g)
         \/ AddAgentFails(g) \/ GranterDies(g) \/ Undone(g)
  PROVE  UndoInv'
<1> DEFINE old == grant[g].pc
           new == grant'[g].pc
<1>0. /\ UNCHANGED <<kernel, drop, revoker>>
      /\ \A h \in Granters : h # g => grant'[h] = grant[h]
      /\ \/ old = "idle" /\ new = "decrypt"
         \/ old = "decrypt" /\ new = "value"
         \/ old = "decrypt" /\ new = "agent" /\ ~HasKernel
         \/ old = "agent" /\ new = "undo" /\ HasKernel
         \/ old = "unlink" /\ new = "undone" /\ drop[g] = {}
         \/ new \in {"failed", "done", "killed"}
  BY GranterQuiet DEF SerialInv
<1>1. ValueThenStamp'
  <2>1. /\ kernel["secret"] = g => old \notin {"idle", "decrypt", "value"}
        /\ kernel["stamp"] = g \/ (\E p \in Granters \cup Revokers : <<"stamp", g>> \in drop[p])
             => old \notin {"idle", "decrypt", "value", "stamp"}
    BY DEF UndoInv, ValueThenStamp
  <2>2. /\ kernel["secret"] = g => new \notin {"idle", "decrypt", "value"}
        /\ kernel["stamp"] = g \/ (\E p \in Granters \cup Revokers : <<"stamp", g>> \in drop[p])
             => new \notin {"idle", "decrypt", "value", "stamp"}
    BY <1>0, <2>1
  <2> HIDE DEF old
  <2> QED
    BY <1>0, <2>2 DEF UndoInv, ValueThenStamp
<1>2. OwnKeys'
  <2>1. /\ new \in {"undo", "unlink"} => HasKernel
        /\ HasKernel /\ new \in {"agent", "undo", "unlink"}
             => \A k \in Kinds : kernel[k] \in {g, None}
    BY <1>0 DEF UndoInv, OwnKeys
  <2> HIDE DEF old
  <2> QED
    BY <1>0, <2>1 DEF UndoInv, OwnKeys
<1>3. UndoLeft' /\ RevokeLeft'
  BY <1>0 DEF UndoInv, UndoLeft, RevokeLeft
<1>4. Undoing'
  <2>1. ASSUME new \in {"agent", "undo", "unlink", "undone"}, kernel["secret"] = g
        PROVE  \/ kernel["stamp"] = g /\ new # "undone"
               \/ \E r \in Revokers : ValueLeft(r, g)
               \/ new = "unlink" /\ ValueLeft(g, g)
    <3>1. old # "decrypt"
      BY <2>1 DEF UndoInv, ValueThenStamp
    <3>2. CASE old = "agent" /\ new = "undo"
      BY <2>1, <3>2 DEF UndoInv, Undoing
    <3>3. CASE old = "unlink" /\ new = "undone" /\ drop[g] = {}
      <4>1. <<"secret", g>> \in drop[g]
        BY <2>1, <3>3 DEF UndoInv, UndoLeft
      <4> QED
        BY <3>3, <4>1
    <3> QED
      BY <1>0, <2>1, <3>1, <3>2, <3>3
  <2> HIDE DEF old
  <2> QED
    BY <1>0, <2>1 DEF UndoInv, Undoing, ValueLeft
<1> QED
  BY <1>1, <1>2, <1>3, <1>4 DEF UndoInv

\* A granter linking one of its keys.
LEMMA AddKernelKeepsUndo ==
  ASSUME SerialInv, UndoInv, NEW g \in Granters, AddKernel(g)
  PROVE  UndoInv'
<1>0. /\ kernel \in [Kinds -> Marks] /\ "secret" \in Kinds /\ "stamp" \in Kinds
      /\ grant \in [Granters -> GrantType] /\ None \notin Granters
      /\ UNCHANGED <<drop, revoker>>
  BY GrantsAssumption DEF GrantsAssumption, AddKernel, SerialInv, TypeOK, Kinds, GrantType
<1>1. /\ \A h \in Granters : h # g => grant'[h] = grant[h]
      /\ \/ /\ grant[g].pc = "value" /\ grant'[g].pc = "stamp"
            /\ kernel'["secret"] = g /\ kernel'["stamp"] = kernel["stamp"]
         \/ /\ grant[g].pc = "stamp" /\ grant'[g].pc = "agent"
            /\ kernel'["stamp"] = g /\ kernel'["secret"] = kernel["secret"]
  <2>1. CASE grant[g].pc = "value"
    BY <1>0, <2>1 DEF AddKernel, AddsKind, GoTo, GrantType
  <2>2. CASE grant[g].pc = "stamp"
    BY <1>0, <2>2 DEF AddKernel, AddsKind, GoTo, GrantType
  <2> QED
    BY <2>1, <2>2 DEF AddKernel
<1>2. \A h \in Granters : h # g => grant[h].pc \notin Working
  BY <1>1 DEF SerialInv, OneAtATime, Working
<1>3. grant[g].pc = "stamp" => kernel["secret"] \in {g, None}
  BY DEF SerialInv, Linking
<1>4. /\ kernel["stamp"] # g
      /\ \A p \in Granters \cup Revokers : <<"stamp", g>> \notin drop[p]
  BY <1>1 DEF UndoInv, ValueThenStamp
<1>5. \A h \in Granters : h # g => kernel'["secret"] # h
  <2> SUFFICES ASSUME NEW h \in Granters, h # g PROVE kernel'["secret"] # h
    OBVIOUS
  <2> QED
    BY <1>0, <1>1, <1>3
<1>6. ValueThenStamp'
  <2>1. ASSUME NEW h \in Granters, h # g
        PROVE  kernel'["stamp"] = h \/ (\E p \in Granters \cup Revokers : <<"stamp", h>> \in drop[p])
                 => grant[h].pc \notin {"idle", "decrypt", "value", "stamp"}
    BY <1>1, <2>1 DEF UndoInv, ValueThenStamp
  <2>2. kernel'["stamp"] = g => grant'[g].pc \notin {"idle", "decrypt", "value", "stamp"}
    BY <1>1, <1>4
  <2>3. grant'[g].pc \notin {"idle", "decrypt", "value"}
    BY <1>1
  <2> QED
    BY <1>0, <1>1, <1>4, <1>5, <2>1, <2>2, <2>3 DEF ValueThenStamp
<1>7. OwnKeys'
  <2>1. ASSUME grant'[g].pc = "agent" PROVE \A k \in Kinds : kernel'[k] \in {g, None}
    BY <1>1, <1>3, <2>1 DEF Kinds
  <2>2. grant'[g].pc \notin {"undo", "unlink"}
    BY <1>1
  <2>3. \A h \in Granters : h # g => grant'[h].pc \notin {"agent", "undo", "unlink"}
    BY <1>1, <1>2 DEF Working
  <2> QED
    BY <2>1, <2>2, <2>3 DEF OwnKeys
<1>8. UndoLeft'
  <2>1. \A h \in Granters : grant'[h].pc # "unlink"
    BY <1>1, <1>2 DEF Working
  <2> QED
    BY <2>1 DEF UndoLeft
<1>9. RevokeLeft'
  <2>1. ASSUME NEW r \in Revokers, NEW h \in Granters, <<"stamp", h>> \in drop[r],
               kernel'["secret"] = h
        PROVE  FALSE
    BY <1>4, <1>5, <2>1
  <2> QED
    BY <1>0, <2>1 DEF UndoInv, RevokeLeft
<1>10. Undoing'
  <2>1. grant'[g].pc \in {"agent", "undo", "unlink", "undone"}
          => kernel'["stamp"] = g /\ grant'[g].pc # "undone"
    BY <1>1
  <2> QED
    BY <1>5, <2>1 DEF Undoing
<1> QED
  BY <1>6, <1>7, <1>8, <1>9, <1>10 DEF UndoInv

\* What a kernel.Revoke lists is what is linked.
LEMMA ListedLinked ==
  ASSUME TypeOK
  PROVE  /\ \A d \in Listed : d[1] \in Kinds /\ d = <<d[1], kernel[d[1]]>>
         /\ \A k \in Kinds, g \in Granters : <<k, g>> \in Listed <=> kernel[k] = g
         /\ Listed \in SUBSET (Kinds \X Granters)
<1>1. None \notin Granters
  BY GrantsAssumption DEF GrantsAssumption
<1>2. Listed \in SUBSET (Kinds \X Granters)
  BY ListedType DEF TypeOK
<1> QED
  BY <1>1, <1>2 DEF Listed, Dropped

\* A granter lists the keys it undoes.
LEMMA UndoListsKeepsUndo ==
  ASSUME SerialInv, UndoInv, NEW g \in Granters, UndoLists(g)
  PROVE  UndoInv'
<1>0. /\ grant \in [Granters -> GrantType] /\ "secret" \in Kinds /\ "stamp" \in Kinds
      /\ drop \in [Granters \cup Revokers -> SUBSET (Kinds \X Granters)]
      /\ UNCHANGED <<kernel, revoker>>
      /\ TypeOK
      /\ g \notin Revokers
  BY GrantsAssumption DEF GrantsAssumption, UndoLists, SerialInv, TypeOK, Kinds, GrantType
<1>1. /\ grant[g].pc = "undo" /\ grant'[g].pc = "unlink"
      /\ \A h \in Granters : h # g => grant'[h] = grant[h]
  BY <1>0 DEF UndoLists, GoTo, GrantType
<1>2. /\ drop'[g] = Listed
      /\ \A p \in Granters \cup Revokers : p # g => drop'[p] = drop[p]
  BY <1>0 DEF UndoLists
<1>3. HasKernel /\ \A k \in Kinds : kernel[k] \in {g, None}
  BY <1>1 DEF UndoInv, OwnKeys
<1>4. ValueThenStamp'
  <2>1. ASSUME NEW h \in Granters,
               kernel["stamp"] = h \/ (\E p \in Granters \cup Revokers : <<"stamp", h>> \in drop'[p])
        PROVE  kernel["stamp"] = h \/ (\E p \in Granters \cup Revokers : <<"stamp", h>> \in drop[p])
    BY <1>0, <1>2, <2>1, ListedLinked
  <2>2. \A h \in Granters : grant'[h].pc = grant[h].pc \/ grant'[h].pc = "unlink"
    BY <1>1
  <2> QED
    BY <1>0, <2>1, <2>2 DEF UndoInv, ValueThenStamp
<1>5. OwnKeys'
  BY <1>0, <1>1, <1>3 DEF UndoInv, OwnKeys
<1>6. UndoLeft'
  <2>1. /\ \A d \in drop'[g] : d[2] = g
        /\ kernel["secret"] = g => <<"secret", g>> \in drop'[g]
    <3>1. \A d \in Listed : d[2] \in Granters /\ d[2] = kernel[d[1]] /\ d[1] \in Kinds
      BY <1>0, ListedLinked
    <3>2. None \notin Granters
      BY GrantsAssumption DEF GrantsAssumption
    <3> QED
      BY <1>0, <1>2, <1>3, <3>1, <3>2, ListedLinked
  <2> QED
    BY <1>0, <1>1, <1>2, <2>1 DEF UndoInv, UndoLeft
<1>7. RevokeLeft'
  BY <1>0, <1>2 DEF UndoInv, RevokeLeft
<1>8. Undoing'
  <2>1. ASSUME NEW h \in Granters, kernel["secret"] = h PROVE h = g
    <3>1. None \notin Granters
      BY GrantsAssumption DEF GrantsAssumption
    <3> QED
      BY <1>0, <1>3, <2>1, <3>1
  <2>2. ASSUME kernel["secret"] = g
        PROVE  kernel["stamp"] = g \/ \E r \in Revokers : ValueLeft(r, g)
    BY <1>1, <2>2 DEF UndoInv, Undoing
  <2>3. \A r \in Revokers : drop'[r] = drop[r]
    BY <1>0, <1>2
  <2> QED
    BY <1>0, <1>1, <2>1, <2>2, <2>3 DEF Undoing, ValueLeft
<1> QED
  BY <1>4, <1>5, <1>6, <1>7, <1>8 DEF UndoInv

\* What one unlink does.
LEMMA UnlinkOne ==
  ASSUME TypeOK, NEW p \in Granters \cup Revokers, Unlink(p)
  PROVE  \E d \in drop[p] :
           /\ d \in Kinds \X Granters
           /\ drop'[p] = drop[p] \ {d}
           /\ \A q \in Granters \cup Revokers : q # p => drop'[q] = drop[q]
           /\ \A k \in Kinds : \/ kernel'[k] = kernel[k] /\ d # <<k, kernel[k]>>
                               \/ kernel'[k] = None /\ d = <<k, kernel[k]>>
<1>0. /\ kernel \in [Kinds -> Marks]
      /\ drop \in [Granters \cup Revokers -> SUBSET (Kinds \X Granters)]
  BY DEF TypeOK
<1>1. PICK d \in drop[p] :
        /\ drop' = [drop EXCEPT ![p] = @ \ {d}]
        /\ kernel' = IF Linked(d) THEN [kernel EXCEPT ![d[1]] = None] ELSE kernel
  BY DEF Unlink
<1>2. d \in Kinds \X Granters
  BY <1>0
<1>3. drop'[p] = drop[p] \ {d} /\ \A q \in Granters \cup Revokers : q # p => drop'[q] = drop[q]
  BY <1>0, <1>1
<1>4. \A k \in Kinds : \/ kernel'[k] = kernel[k] /\ d # <<k, kernel[k]>>
                       \/ kernel'[k] = None /\ d = <<k, kernel[k]>>
  <2>1. CASE Linked(d)
    <3>1. kernel' = [kernel EXCEPT ![d[1]] = None] /\ d = <<d[1], kernel[d[1]]>>
      BY <1>1, <1>2, <2>1 DEF Linked
    <3> QED
      BY <1>0, <1>2, <3>1
  <2>2. CASE ~Linked(d)
    BY <1>1, <1>2, <2>2 DEF Linked
  <2> QED
    BY <2>1, <2>2
<1> QED
  BY <1>1, <1>2, <1>3, <1>4

\* Stopping at a key that is gone.
LEMMA UnlinkStopsAt ==
  ASSUME TypeOK, NEW p \in Granters \cup Revokers, UnlinkStops(p)
  PROVE  /\ kernel' = kernel /\ drop'[p] = {}
         /\ \A q \in Granters \cup Revokers : q # p => drop'[q] = drop[q]
         /\ \E d \in drop[p] : d \in Kinds \X Granters /\ kernel[d[1]] # d[2]
  BY DEF UnlinkStops, Linked, TypeOK

\* A granter unlinks one of its keys.
LEMMA UndoUnlinkKeepsUndo ==
  ASSUME SerialInv, UndoInv, NEW g \in Granters, grant[g].pc = "unlink",
         Unlink(g), UNCHANGED <<grant, revoker>>
  PROVE  UndoInv'
<1>0. /\ TypeOK /\ "secret" \in Kinds /\ "stamp" \in Kinds /\ g \notin Revokers
      /\ None \notin Granters
      /\ drop \in [Granters \cup Revokers -> SUBSET (Kinds \X Granters)]
  BY GrantsAssumption DEF GrantsAssumption, SerialInv, TypeOK, Kinds
<1>1. PICK d \in drop[g] :
        /\ d \in Kinds \X Granters
        /\ drop'[g] = drop[g] \ {d}
        /\ \A q \in Granters \cup Revokers : q # g => drop'[q] = drop[q]
        /\ \A k \in Kinds : \/ kernel'[k] = kernel[k] /\ d # <<k, kernel[k]>>
                            \/ kernel'[k] = None /\ d = <<k, kernel[k]>>
  BY <1>0, UnlinkOne
<1>2. \A p \in Granters \cup Revokers : drop'[p] \subseteq drop[p]
  BY <1>1
<1>3. /\ ValueThenStamp' /\ OwnKeys'
      /\ \A h \in Granters, k \in Kinds : kernel'[k] = h => kernel[k] = h
  BY <1>0, <1>1, <1>2, LosingKeepsOrder DEF UndoInv
<1>4. \A h \in Granters : kernel'["secret"] = h => h = g
  BY <1>0, <1>3 DEF UndoInv, OwnKeys
<1>5. ASSUME kernel'["secret"] = g
      PROVE  <<"secret", g>> \in drop'[g] /\ ValueLeft(g, g)'
  <2>1. kernel["secret"] = g /\ d # <<"secret", g>>
    BY <1>0, <1>1, <1>5
  <2>2. <<"secret", g>> \in drop[g] /\ \A c \in drop[g] : c[2] = g
    BY <2>1 DEF UndoInv, UndoLeft
  <2>3. \A c \in drop[g] : c \in {<<"secret", g>>, <<"stamp", g>>}
    BY <1>0, <2>2 DEF Kinds
  <2>4. d = <<"stamp", g>>
    BY <2>1, <2>3
  <2> QED
    BY <1>1, <2>1, <2>2, <2>3, <2>4 DEF ValueLeft
<1>6. UndoLeft'
  <2>1. ASSUME NEW h \in Granters, grant[h].pc = "unlink"
        PROVE  h = g
    BY <2>1 DEF SerialInv, OneAtATime, Working
  <2>2. \A c \in drop'[g] : c[2] = g
    BY <1>2 DEF UndoInv, UndoLeft
  <2> QED
    BY <1>5, <2>1, <2>2 DEF UndoLeft
<1>7. RevokeLeft'
  <2>1. \A r \in Revokers : drop'[r] = drop[r]
    BY <1>0, <1>1
  <2> QED
    BY <1>0, <1>3, <2>1 DEF UndoInv, RevokeLeft
<1>8. Undoing'
  BY <1>4, <1>5 DEF Undoing
<1> QED
  BY <1>3, <1>6, <1>7, <1>8 DEF UndoInv

\* A granter's undo stops at a key that somebody else unlinked.
LEMMA UndoStopKeepsUndo ==
  ASSUME SerialInv, UndoInv, NEW g \in Granters, grant[g].pc = "unlink",
         UnlinkStops(g), GoTo(g, "undone"), UNCHANGED revoker
  PROVE  UndoInv'
<1>0. /\ TypeOK /\ "secret" \in Kinds /\ "stamp" \in Kinds /\ g \notin Revokers
      /\ None \notin Granters /\ grant \in [Granters -> GrantType]
      /\ drop \in [Granters \cup Revokers -> SUBSET (Kinds \X Granters)]
  BY GrantsAssumption DEF GrantsAssumption, SerialInv, TypeOK, Kinds, GrantType
<1>1. /\ kernel' = kernel /\ drop'[g] = {}
      /\ \A q \in Granters \cup Revokers : q # g => drop'[q] = drop[q]
  BY <1>0, UnlinkStopsAt
<1>2. PICK d \in drop[g] : d \in Kinds \X Granters /\ kernel[d[1]] # d[2]
  BY <1>0, UnlinkStopsAt
<1>3. /\ grant'[g].pc = "undone"
      /\ \A h \in Granters : h # g => grant'[h] = grant[h]
  BY <1>0 DEF GoTo, GrantType
<1>4. ValueThenStamp' /\ OwnKeys'
  BY <1>0, <1>1, <1>3, LosingKeepsOrder DEF UndoInv
<1>5. \A h \in Granters : h # g => grant'[h].pc # "unlink"
  BY <1>3 DEF SerialInv, OneAtATime, Working
<1>6. UndoLeft'
  BY <1>3, <1>5 DEF UndoLeft
<1>7. \A r \in Revokers : drop'[r] = drop[r]
  BY <1>0, <1>1
<1>8. RevokeLeft'
  BY <1>1, <1>7 DEF UndoInv, RevokeLeft
<1>9. Undoing'
  <2>1. \A h \in Granters : kernel["secret"] = h => h = g
    BY <1>0 DEF UndoInv, OwnKeys
  <2>2. ASSUME kernel["secret"] = g PROVE \E r \in Revokers : ValueLeft(r, g)
    <3>1. \A c \in drop[g] : c[2] = g
      BY DEF UndoInv, UndoLeft
    <3>2. d = <<"stamp", g>> /\ kernel["stamp"] # g
      BY <1>2, <2>2, <3>1 DEF Kinds
    <3>3. ~ValueLeft(g, g)
      BY <3>2 DEF ValueLeft
    <3> QED
      BY <2>2, <3>2, <3>3 DEF UndoInv, Undoing
  <2> QED
    BY <1>1, <1>7, <2>1, <2>2 DEF Undoing, ValueLeft
<1> QED
  BY <1>4, <1>6, <1>8, <1>9 DEF UndoInv

\* A revoker lists.
LEMMA RevokeKernelKeepsUndo ==
  ASSUME SerialInv, UndoInv, NEW r \in Revokers, RevokeKernel(r)
  PROVE  UndoInv'
<1>0. /\ TypeOK /\ "secret" \in Kinds /\ "stamp" \in Kinds /\ r \notin Granters
      /\ drop \in [Granters \cup Revokers -> SUBSET (Kinds \X Granters)]
      /\ revoker \in [Revokers -> RevokerType]
      /\ UNCHANGED <<kernel, grant>>
  BY GrantsAssumption DEF GrantsAssumption, RevokeKernel, SerialInv, TypeOK, Kinds, RevokerType
<1>1. /\ revoker[r].pc = "kernel" /\ revoker'[r].pc = "unlink"
      /\ \A q \in Revokers : q # r => revoker'[q] = revoker[q]
  BY <1>0 DEF RevokeKernel, RevokerGoes, RevokerType
<1>2. /\ drop[r] = {} /\ drop'[r] = Listed
      /\ \A p \in Granters \cup Revokers : p # r => drop'[p] = drop[p]
  BY <1>0, <1>1 DEF RevokeKernel, UndoInv, RevokeLeft, Early
<1>3. ValueThenStamp'
  <2>1. ASSUME NEW g \in Granters,
               kernel["stamp"] = g \/ (\E p \in Granters \cup Revokers : <<"stamp", g>> \in drop'[p])
        PROVE  kernel["stamp"] = g \/ (\E p \in Granters \cup Revokers : <<"stamp", g>> \in drop[p])
    BY <1>0, <1>2, <2>1, ListedLinked
  <2> QED
    BY <1>0, <2>1 DEF UndoInv, ValueThenStamp
<1>4. OwnKeys'
  BY <1>0 DEF UndoInv, OwnKeys
<1>5. UndoLeft'
  <2>1. \A g \in Granters : drop'[g] = drop[g]
    BY <1>0, <1>2
  <2> QED
    BY <1>0, <2>1 DEF UndoInv, UndoLeft
<1>6. RevokeLeft'
  <2>1. /\ \A c, d \in Listed : c[1] = d[1] => c = d
        /\ \A g \in Granters :
             <<"stamp", g>> \in Listed /\ kernel["secret"] = g => <<"secret", g>> \in Listed
    BY <1>0, ListedLinked
  <2>2. revoker'[r].pc \notin Early
    BY <1>1 DEF Early
  <2> QED
    BY <1>0, <1>1, <1>2, <2>1, <2>2 DEF UndoInv, RevokeLeft
<1>7. Undoing'
  <2>1. \A q \in Revokers, g \in Granters : ValueLeft(q, g) => ValueLeft(q, g)'
    BY <1>2 DEF ValueLeft
  <2>2. \A g \in Granters : ValueLeft(g, g) => ValueLeft(g, g)'
    BY <1>0, <1>2 DEF ValueLeft
  <2> QED
    BY <1>0, <2>1, <2>2 DEF UndoInv, Undoing
<1> QED
  BY <1>3, <1>4, <1>5, <1>6, <1>7 DEF UndoInv

\* A revoker unlinks one of the keys it listed.
LEMMA RevokeUnlinkKeepsUndo ==
  ASSUME SerialInv, UndoInv, NEW r \in Revokers, Unlink(r), UNCHANGED <<grant, revoker>>
  PROVE  UndoInv'
<1>0. /\ TypeOK /\ "secret" \in Kinds /\ "stamp" \in Kinds /\ r \notin Granters
      /\ None \notin Granters
      /\ drop \in [Granters \cup Revokers -> SUBSET (Kinds \X Granters)]
  BY GrantsAssumption DEF GrantsAssumption, SerialInv, TypeOK, Kinds
<1>1. PICK d \in drop[r] :
        /\ d \in Kinds \X Granters
        /\ drop'[r] = drop[r] \ {d}
        /\ \A q \in Granters \cup Revokers : q # r => drop'[q] = drop[q]
        /\ \A k \in Kinds : \/ kernel'[k] = kernel[k] /\ d # <<k, kernel[k]>>
                            \/ kernel'[k] = None /\ d = <<k, kernel[k]>>
  BY <1>0, UnlinkOne
<1>2. \A p \in Granters \cup Revokers : drop'[p] \subseteq drop[p]
  BY <1>1
<1>3. /\ ValueThenStamp' /\ OwnKeys'
      /\ \A g \in Granters, k \in Kinds : kernel'[k] = g => kernel[k] = g
  BY <1>0, <1>1, <1>2, LosingKeepsOrder DEF UndoInv
<1>4. \A g \in Granters : drop'[g] = drop[g]
  BY <1>0, <1>1
<1>5. UndoLeft'
  BY <1>0, <1>3, <1>4 DEF UndoInv, UndoLeft
<1>6. \A g \in Granters :
        kernel'["secret"] = g => kernel["secret"] = g /\ d # <<"secret", g>>
  BY <1>0, <1>1, <1>3
<1>7. RevokeLeft'
  <2>1. ASSUME NEW q \in Revokers, revoker[q].pc \in Early PROVE drop'[q] = {}
    BY <1>2, <2>1 DEF UndoInv, RevokeLeft
  <2>2. ASSUME NEW q \in Revokers, NEW b \in drop'[q], NEW c \in drop'[q], b[1] = c[1]
        PROVE  b = c
    BY <1>2, <2>2 DEF UndoInv, RevokeLeft
  <2>3. ASSUME NEW q \in Revokers, NEW g \in Granters,
               <<"stamp", g>> \in drop'[q], kernel'["secret"] = g
        PROVE  <<"secret", g>> \in drop'[q]
    <3>1. kernel["secret"] = g /\ d # <<"secret", g>>
      BY <1>6, <2>3
    <3>2. <<"secret", g>> \in drop[q]
      BY <1>2, <2>3, <3>1 DEF UndoInv, RevokeLeft
    <3> QED
      BY <1>1, <3>1, <3>2
  <2> QED
    BY <2>1, <2>2, <2>3 DEF RevokeLeft
<1>8. Undoing'
  <2>1. ASSUME NEW g \in Granters, kernel'["secret"] = g,
               grant[g].pc \in {"agent", "undo", "unlink", "undone"}
        PROVE  \/ kernel'["stamp"] = g /\ grant[g].pc # "undone"
               \/ \E q \in Revokers : ValueLeft(q, g)'
               \/ grant[g].pc = "unlink" /\ ValueLeft(g, g)'
    <3>1. kernel["secret"] = g /\ d # <<"secret", g>>
      BY <1>6, <2>1
    <3>2. CASE kernel["stamp"] = g /\ grant[g].pc # "undone"
      <4>1. CASE d = <<"stamp", g>>
        <5>1. <<"secret", g>> \in drop[r]
          BY <3>1, <4>1 DEF UndoInv, RevokeLeft
        <5>2. ASSUME NEW c \in drop[r] PROVE c \in {d, <<"secret", g>>}
          <6>1. c[1] \in {"secret", "stamp"}
            BY <1>0 DEF Kinds
          <6>2. \A b \in drop[r] : b[1] = c[1] => b = c
            BY DEF UndoInv, RevokeLeft
          <6> QED
            BY <4>1, <5>1, <6>1, <6>2
        <5>3. drop'[r] = {<<"secret", g>>}
          BY <1>1, <3>1, <5>1, <5>2
        <5> QED
          BY <5>3 DEF ValueLeft
      <4>2. CASE d # <<"stamp", g>>
        <5>1. kernel'["stamp"] = g
          BY <1>0, <1>1, <3>2, <4>2
        <5> QED
          BY <3>2, <5>1
      <4> QED
        BY <4>1, <4>2
    <3>3. CASE \E q \in Revokers : ValueLeft(q, g)
      <4>1. PICK q \in Revokers : ValueLeft(q, g)
        BY <3>3
      <4>2. q # r
        BY <3>1, <4>1 DEF ValueLeft
      <4> QED
        BY <1>1, <4>1, <4>2 DEF ValueLeft
    <3>4. CASE grant[g].pc = "unlink" /\ ValueLeft(g, g)
      BY <1>4, <3>4 DEF ValueLeft
    <3> QED
      BY <2>1, <3>1, <3>2, <3>3, <3>4 DEF UndoInv, Undoing
  <2> QED
    BY <2>1 DEF Undoing
<1> QED
  BY <1>3, <1>5, <1>7, <1>8 DEF UndoInv

\* A revoker stops at a key that is gone.
LEMMA RevokeStopKeepsUndo ==
  ASSUME SerialInv, UndoInv, NEW r \in Revokers, UnlinkStops(r), UNCHANGED grant,
         RevokerGoes(r, "failed")
  PROVE  UndoInv'
<1>0. /\ TypeOK /\ r \notin Granters /\ revoker \in [Revokers -> RevokerType]
      /\ "failed" \notin Early
  BY GrantsAssumption DEF GrantsAssumption, SerialInv, TypeOK, RevokerType, Early
<1>1. /\ kernel' = kernel /\ drop'[r] = {}
      /\ \A q \in Granters \cup Revokers : q # r => drop'[q] = drop[q]
  BY <1>0, UnlinkStopsAt
<1>2. PICK d \in drop[r] : d \in Kinds \X Granters /\ kernel[d[1]] # d[2]
  BY <1>0, UnlinkStopsAt
<1>3. /\ revoker'[r].pc = "failed"
      /\ \A q \in Revokers : q # r => revoker'[q] = revoker[q]
  BY <1>0 DEF RevokerGoes, RevokerType
<1>4. ValueThenStamp' /\ OwnKeys'
  BY <1>1, LosingKeepsOrder DEF UndoInv
<1>5. \A g \in Granters : drop'[g] = drop[g]
  BY <1>0, <1>1
<1>6. UndoLeft'
  BY <1>1, <1>5 DEF UndoInv, UndoLeft
<1>7. RevokeLeft'
  BY <1>0, <1>1, <1>3 DEF UndoInv, RevokeLeft
<1>8. Undoing'
  <2>1. \A q \in Revokers, g \in Granters :
          kernel["secret"] = g /\ ValueLeft(q, g) => ValueLeft(q, g)'
    <3> SUFFICES ASSUME NEW q \in Revokers, NEW g \in Granters, kernel["secret"] = g,
                        ValueLeft(q, g)
                 PROVE  q # r
      BY <1>1 DEF ValueLeft
    <3> QED
      BY <1>2 DEF ValueLeft
  <2> QED
    BY <1>1, <1>5, <2>1 DEF UndoInv, Undoing, ValueLeft
<1> QED
  BY <1>4, <1>6, <1>7, <1>8 DEF UndoInv

\* A key expires: a value never after its own stamp.
LEMMA TimeKeepsUndo ==
  ASSUME SerialInv, UndoInv, Time
  PROVE  UndoInv'
<1>0. /\ TypeOK /\ UNCHANGED <<grant, revoker, drop>>
      /\ kernel \in [Kinds -> Marks] /\ None \notin Granters
      /\ "secret" \in Kinds /\ "stamp" \in Kinds
  BY GrantsAssumption DEF GrantsAssumption, SerialInv, TypeOK, Time, ExpireSecret, ExpireStamp, ExpireAgent,
     Kinds
<1>1. CASE ExpireAgent
  <2>1. kernel' = kernel
    BY <1>1 DEF ExpireAgent
  <2> QED
    BY <1>0, <2>1, QuietKeepsUndo
<1>2. CASE ExpireSecret \/ ExpireStamp
  <2>1. \/ kernel'["secret"] = None /\ kernel'["stamp"] = kernel["stamp"]
        \/ /\ kernel["stamp"] # kernel["secret"]
           /\ kernel'["stamp"] = None /\ kernel'["secret"] = kernel["secret"]
    BY <1>0, <1>2 DEF ExpireSecret, ExpireStamp, Kinds
  <2>2. \A k \in Kinds : kernel'[k] \in {kernel[k], None}
    BY <2>1 DEF Kinds
  <2>3. /\ ValueThenStamp' /\ OwnKeys'
        /\ \A g \in Granters, k \in Kinds : kernel'[k] = g => kernel[k] = g
    BY <1>0, <2>2, LosingKeepsOrder DEF UndoInv
  <2>4. UndoLeft' /\ RevokeLeft'
    BY <1>0, <2>3 DEF UndoInv, UndoLeft, RevokeLeft
  <2>5. \A g \in Granters : kernel'["secret"] = g => kernel["secret"] = g /\ kernel["stamp"] # g
    BY <1>0, <2>1
  <2>6. Undoing'
    BY <1>0, <2>5 DEF UndoInv, Undoing, ValueLeft
  <2> QED
    BY <2>3, <2>4, <2>6 DEF UndoInv
<1> QED
  BY <1>1, <1>2 DEF Time

LEMMA RevokerKeepsUndo ==
  ASSUME SerialInv, UndoInv, NEW r \in Revokers, Revoker(r)
  PROVE  UndoInv'
<1>0. revoker \in [Revokers -> RevokerType]
  BY DEF SerialInv, TypeOK, RevokerType
<1>1. CASE RevokeKernel(r)
  BY <1>1, RevokeKernelKeepsUndo
<1>2. CASE RevokeUnlinks(r)
  BY <1>2, RevokeUnlinkKeepsUndo, RevokeStopKeepsUndo DEF RevokeUnlinks
<1>3. CASE RevokeBegins(r)
  <2>1. revoker[r].pc \in Early /\ UNCHANGED <<kernel, drop, grant>>
    BY <1>3 DEF RevokeBegins, Early
  <2>2. \A q \in Revokers : q # r => revoker'[q] = revoker[q]
    BY <1>0, <1>3 DEF RevokeBegins
  <2> QED
    BY <2>1, <2>2, QuietKeepsUndo
<1>4. CASE ListKernel(r) \/ ListAgent(r)
  <2>1. revoker[r].pc \in Early /\ UNCHANGED <<kernel, drop, grant>>
    BY <1>4 DEF ListKernel, ListAgent, Early
  <2>2. \A q \in Revokers : q # r => revoker'[q] = revoker[q]
    BY <1>0, <1>4 DEF ListKernel, ListAgent, RevokerGoes
  <2> QED
    BY <2>1, <2>2, QuietKeepsUndo
<1>5. CASE RevokeUnlinked(r) \/ RevokeAgent(r)
  <2>1. UNCHANGED <<kernel, drop, grant>>
    BY <1>5 DEF RevokeUnlinked, RevokeAgent
  <2>2. /\ revoker'[r].pc \in {"agent", "done", "failed"}
        /\ \A q \in Revokers : q # r => revoker'[q] = revoker[q]
    BY <1>0, <1>5 DEF RevokeUnlinked, RevokeAgent, RevokerGoes, RevokerType
  <2>3. revoker'[r].pc \notin Early
    BY <2>2 DEF Early
  <2> QED
    BY <2>1, <2>2, <2>3, QuietKeepsUndo
<1> QED
  BY <1>1, <1>2, <1>3, <1>4, <1>5 DEF Revoker

LEMMA GranterKeepsUndo ==
  ASSUME SerialInv, UndoInv, NEW g \in Granters, Granter(g)
  PROVE  UndoInv'
<1>1. CASE UndoUnlinks(g)
  BY <1>1, UndoUnlinkKeepsUndo, UndoStopKeepsUndo DEF UndoUnlinks
<1>2. CASE AddKernel(g)
  BY <1>2, AddKernelKeepsUndo
<1>3. CASE UndoLists(g)
  BY <1>3, UndoListsKeepsUndo
<1>4. CASE \/ ReadVersion(g) \/ Decrypt(g) \/ AddKernelFails(g) \/ AddAgent(g)
           \/ AddAgentFails(g) \/ GranterDies(g) \/ Undone(g)
  BY <1>4, GranterQuietKeepsUndo
<1> QED
  BY <1>1, <1>2, <1>3, <1>4 DEF Granter

LEMMA InitUndoInv ==
  Init => UndoInv
<1> SUFFICES ASSUME Init PROVE UndoInv
  OBVIOUS
<1>1. ValueThenStamp /\ OwnKeys
  BY GrantsAssumption DEF GrantsAssumption, Init, ValueThenStamp, OwnKeys, Kinds
<1>2. UndoLeft /\ RevokeLeft /\ Undoing
  BY DEF Init, UndoLeft, RevokeLeft, Undoing
<1> QED
  BY <1>1, <1>2 DEF UndoInv

\* The inductive invariant behind UndoneIsGoneHolds: whoever unlinks a stamp
\* has listed its value too, so somebody is always left to unlink the value.
THEOREM UndoInvariant ==
  ASSUME Terminals = {}
  PROVE  Spec => [](SerialInv /\ UndoInv)
<1>1. Init => UndoInv
  BY InitUndoInv
<1>2. ASSUME SerialInv, UndoInv, [Next]_vars PROVE UndoInv'
  <2>1. CASE WriteVault \/ UNCHANGED vars
    <3>1. UNCHANGED <<kernel, drop, grant, revoker>>
      BY <2>1 DEF WriteVault, vars
    <3> QED
      BY <1>2, <3>1, QuietKeepsUndo
  <2>2. CASE Time
    BY <1>2, <2>2, TimeKeepsUndo
  <2>3. CASE \E g \in Granters : Granter(g)
    BY <1>2, <2>3, GranterKeepsUndo
  <2>4. CASE \E e \in Readers : Reader(e)
    <3>1. UNCHANGED <<kernel, drop, grant, revoker>>
      BY <2>4, ReaderFrame
    <3> QED
      BY <1>2, <3>1, QuietKeepsUndo
  <2>5. CASE \E r \in Revokers : Revoker(r)
    BY <1>2, <2>5, RevokerKeepsUndo
  <2> QED
    BY <1>2, <2>1, <2>2, <2>3, <2>4, <2>5 DEF Next
<1> QED
  BY <1>1, <1>2, SerialInvariant, PTL DEF Spec

\* keyring.Add on Linux: once an approver has undone its grant for want of
\* the agent, its value is out of the kernel, or a revoke that unlinked the
\* stamp is about to unlink the value, however many approvers, revokers and
\* execs there are and wherever its own Revoke stopped.  A grant at a
\* terminal is not covered: it can link its stamp between two of another's
\* keys.
THEOREM UndoneIsGoneHolds ==
  ASSUME Terminals = {}
  PROVE  Spec => []UndoneIsGone
<1>1. UndoInv => UndoneIsGone
  BY DEF UndoInv, Undoing, ValueLeft, UndoneIsGone
<1> QED
  BY <1>1, UndoInvariant, PTL

=============================================================================
