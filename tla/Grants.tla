------------------------------- MODULE Grants -------------------------------
(***************************************************************************)
(* The grants of one private secret, and everyone who touches them:        *)
(*   - granters (cmd/grant.go grantSecret): approvers, of which the        *)
(*     request lock lets one run at a time, and broker grant at a          *)
(*     terminal, which takes no lock;                                      *)
(*   - readers (cmd/exec.go resolve): broker exec on the host, and in a    *)
(*     sandbox, which sees the grant agent but not the host's keyring;     *)
(*   - revokers: broker revoke, rm and restore --force;                    *)
(*   - the vault, as far as a grant depends on it.  A version is a hash of *)
(*     the secret's file: every set encrypts afresh, but a restore puts a  *)
(*     backup's file back byte for byte, and its version with it.  The     *)
(*     model counts the writes, and keeps which file each of them made.    *)
(* Every process runs once, so a granter also names the grant it makes:    *)
(* what a kernel key or the agent holds is the granter that put it there,  *)
(* and grant[g] has the write whose file it was made at and the one whose  *)
(* value it holds.  With HasKernel FALSE this is macOS and Windows, where  *)
(* the agent is alone.  An expired key and one never there both read as    *)
(* not granted.                                                            *)
(***************************************************************************)
EXTENDS Naturals, Sequences

CONSTANTS Approvers,  \* granters that hold the request lock
          Terminals,  \* granters at a terminal
          Execs,      \* broker execs on the host
          Sandboxed,  \* broker execs in a sandbox
          Revokers,   \* broker revoke, rm, restore
          HasKernel,  \* the platform has the kernel keyring
          Faults,     \* what may go wrong: "quota", "agent", "crash"
          MaxWrites,  \* bound: writes of the secret's file
          None        \* no grant, no key

Granters == Approvers \cup Terminals
Readers == Execs \cup Sandboxed

ASSUME GrantsAssumption ==
  /\ None \notin Granters
  /\ Granters \cap Revokers = {}
  /\ HasKernel \in BOOLEAN
  /\ MaxWrites \in Nat \ {0}

VARIABLES vault,   \* the write the vault's file is from, 0 when it has none
          writes,  \* the file each write has put there
          kernel,  \* the two keys linked from the user keyring
          agent,   \* what the grant agent holds
          grant,   \* each granter
          reader,  \* each broker exec
          revoker, \* each revoker
          drop,    \* keys a kernel.Revoke has listed and not yet unlinked
          gone     \* history: grants a finished revoke came after

vars == <<vault, writes, kernel, agent, grant, reader, revoker, drop, gone>>

Kinds == {"secret", "stamp"}

Init ==
  /\ vault = 1 /\ writes = <<1>>
  /\ kernel = [kind \in Kinds |-> None]
  /\ agent = None
  /\ grant = [g \in Granters |-> [pc |-> "idle", ver |-> 0, val |-> 0]]
  /\ reader = [e \in Readers |->
       [pc |-> "idle", begun |-> 0, key |-> None, saw |-> None,
        sawAt |-> "none", got |-> None, gotAt |-> "none", gone |-> {}]]
  /\ revoker = [r \in Revokers |-> [pc |-> "idle", before |-> {}]]
  /\ drop = [p \in Granters \cup Revokers |-> {}]
  /\ gone = {}

-----------------------------------------------------------------------------
(* The vault.                                                              *)

\* A file never written before is named for the write that brings it.
NewFile == Len(writes) + 1

Rewrite(f) ==
  /\ Len(writes) < MaxWrites
  /\ writes' = Append(writes, f) /\ vault' = Len(writes) + 1

\* set, import --overwrite: encrypted afresh, so a file that never was.
WriteVault ==
  /\ Rewrite(NewFile)
  /\ UNCHANGED <<kernel, agent, grant, reader, revoker, drop, gone>>

-----------------------------------------------------------------------------
(* grantSecret, and the Add it ends in.                                    *)

Working == {"decrypt", "value", "stamp", "agent", "undo", "unlink"}

BugNoLock(g) == TRUE

\* lockRequests: one approver at a time.
LockFree(g) ==
  g \in Approvers => \A h \in Approvers \ {g} : grant[h].pc \notin Working

GoTo(g, pc) == grant' = [grant EXCEPT ![g].pc = pc]

ReadVersion(g) ==
  /\ grant[g].pc = "idle" /\ LockFree(g) /\ vault # 0
  /\ grant' = [grant EXCEPT ![g].pc = "decrypt", ![g].ver = vault]
  /\ UNCHANGED <<vault, writes, kernel, agent, reader, revoker, drop, gone>>

Decrypt(g) ==
  /\ grant[g].pc = "decrypt"
  /\ grant' = IF vault = 0 THEN [grant EXCEPT ![g].pc = "failed"]
              ELSE [grant EXCEPT ![g].pc = IF HasKernel THEN "value" ELSE "agent",
                                 ![g].val = vault]
  /\ UNCHANGED <<vault, writes, kernel, agent, reader, revoker, drop, gone>>

BugStampFirst(pc) == IF pc = "value" THEN "stamp" ELSE "secret"

\* The value goes in before the version that names it.
AddsKind(pc) == IF pc = "value" THEN "secret" ELSE "stamp"

\* kernel.add: linking displaces the key that was there.
AddKernel(g) ==
  /\ grant[g].pc \in {"value", "stamp"}
  /\ kernel' = [kernel EXCEPT ![AddsKind(grant[g].pc)] = g]
  /\ GoTo(g, IF grant[g].pc = "value" THEN "stamp" ELSE "agent")
  /\ UNCHANGED <<vault, writes, agent, reader, revoker, drop, gone>>

\* kernel.add fails (the key quota), and Add leaves what it linked before.
AddKernelFails(g) ==
  /\ "quota" \in Faults /\ grant[g].pc \in {"value", "stamp"}
  /\ GoTo(g, "failed")
  /\ UNCHANGED <<vault, writes, kernel, agent, reader, revoker, drop, gone>>

AddAgent(g) ==
  /\ grant[g].pc = "agent"
  /\ agent' = g
  /\ GoTo(g, "done")
  /\ UNCHANGED <<vault, writes, kernel, reader, revoker, drop, gone>>

\* The agent does not start, or does not answer in time: it may have taken
\* the grant all the same.
AddAgentFails(g) ==
  /\ "agent" \in Faults /\ grant[g].pc = "agent"
  /\ agent' \in {agent, g}
  /\ GoTo(g, IF HasKernel THEN "undo" ELSE "failed")
  /\ UNCHANGED <<vault, writes, kernel, reader, revoker, drop, gone>>

\* The granter is killed; its lock goes with it.
GranterDies(g) ==
  /\ "crash" \in Faults /\ grant[g].pc \in Working
  /\ GoTo(g, "killed")
  /\ UNCHANGED <<vault, writes, kernel, agent, reader, revoker, drop, gone>>

-----------------------------------------------------------------------------
(* kernel.Revoke: list the links, then unlink by key ID the two that match *)
(* the name, in the order of the ring.  A key that is gone by then is      *)
(* passed over, or, once the kernel has collected it, is an error that     *)
(* leaves the rest linked.                                                 *)

BugStampOnly == {"stamp"}

Dropped == Kinds

BugListsAll == {<<kind, kernel[kind]>> : kind \in Dropped}

Listed == {<<kind, kernel[kind]>> : kind \in {k \in Dropped : kernel[k] # None}}

Linked(d) == kernel[d[1]] = d[2]

Unlink(p) ==
  \E d \in drop[p] :
    /\ drop' = [drop EXCEPT ![p] = @ \ {d}]
    /\ kernel' = IF Linked(d) THEN [kernel EXCEPT ![d[1]] = None] ELSE kernel

UnlinkStops(p) ==
  /\ \E d \in drop[p] : ~Linked(d)
  /\ drop' = [drop EXCEPT ![p] = {}]
  /\ UNCHANGED kernel

\* The agent could not take the grant, so the kernel's goes too.
UndoLists(g) ==
  /\ grant[g].pc = "undo"
  /\ drop' = [drop EXCEPT ![g] = Listed]
  /\ GoTo(g, "unlink")
  /\ UNCHANGED <<vault, writes, kernel, agent, reader, revoker, gone>>

\* Its error is dropped.
UndoUnlinks(g) ==
  /\ grant[g].pc = "unlink"
  /\ \/ Unlink(g) /\ UNCHANGED grant
     \/ UnlinkStops(g) /\ GoTo(g, "undone")
  /\ UNCHANGED <<vault, writes, agent, reader, revoker, gone>>

Undone(g) ==
  /\ grant[g].pc = "unlink" /\ drop[g] = {}
  /\ GoTo(g, "undone")
  /\ UNCHANGED <<vault, writes, kernel, agent, reader, revoker, drop, gone>>

Granter(g) ==
  \/ ReadVersion(g) \/ Decrypt(g) \/ AddKernel(g) \/ AddKernelFails(g)
  \/ AddAgent(g) \/ AddAgentFails(g) \/ GranterDies(g)
  \/ UndoLists(g) \/ UndoUnlinks(g) \/ Undone(g)

-----------------------------------------------------------------------------
(* resolve: look the grant up, compare its version with the vault's, read  *)
(* its value.  The kernel comes first each time and the agent stands in    *)
(* for it; a search and the read of the key it found are two calls.        *)

SeesKernel(e) == HasKernel /\ e \in Execs

ExecBegins(e) ==
  /\ reader[e].pc = "idle" /\ vault # 0
  /\ reader' = [reader EXCEPT ![e].pc = IF SeesKernel(e) THEN "secret" ELSE "ask",
                              ![e].begun = vault, ![e].gone = gone]
  /\ UNCHANGED <<vault, writes, kernel, agent, grant, revoker, drop, gone>>

\* kernel.Lookup: is there a value at all?
FindSecret(e) ==
  /\ reader[e].pc = "secret"
  /\ reader' = [reader EXCEPT ![e].pc = IF kernel["secret"] = None THEN "ask"
                                        ELSE "stamp"]
  /\ UNCHANGED <<vault, writes, kernel, agent, grant, revoker, drop, gone>>

\* kernel.Lookup: the expiry key; without one there is no version to compare.
FindStamp(e) ==
  /\ reader[e].pc = "stamp"
  /\ reader' = [reader EXCEPT ![e].pc = IF kernel["stamp"] = None THEN "read"
                                        ELSE "readStamp",
                              ![e].key = kernel["stamp"]]
  /\ UNCHANGED <<vault, writes, kernel, agent, grant, revoker, drop, gone>>

\* A key unlinked since it was found cannot be read any more.
StampRead(e) == IF kernel["stamp"] = reader[e].key THEN reader[e].key ELSE None

ReadStamp(e) ==
  /\ reader[e].pc = "readStamp"
  /\ reader' = [reader EXCEPT ![e].pc = IF StampRead(e) = None THEN "read"
                                        ELSE "compare",
                              ![e].saw = StampRead(e), ![e].sawAt = "kernel"]
  /\ UNCHANGED <<vault, writes, kernel, agent, grant, revoker, drop, gone>>

\* The agent's lookup; it answers with the version in the same breath.
AskAgent(e) ==
  /\ reader[e].pc = "ask"
  /\ reader' = [reader EXCEPT ![e].pc = IF agent = None THEN "refused" ELSE "compare",
                              ![e].saw = agent, ![e].sawAt = "agent"]
  /\ UNCHANGED <<vault, writes, kernel, agent, grant, revoker, drop, gone>>

\* lookupGrant: a version that is not the vault's now is a changed grant.
\* Versions are hashes: equal when the files are.
IsCurrent(e) ==
  vault # 0 /\ writes[grant[reader[e].saw].ver] = writes[vault]

Compare(e) ==
  /\ reader[e].pc = "compare"
  /\ reader' = [reader EXCEPT ![e].pc = IF ~IsCurrent(e) THEN "refused"
                                        ELSE IF SeesKernel(e) THEN "read"
                                        ELSE "readAgent"]
  /\ UNCHANGED <<vault, writes, kernel, agent, grant, revoker, drop, gone>>

\* kernel.Read: the search.
FindValue(e) ==
  /\ reader[e].pc = "read"
  /\ reader' = [reader EXCEPT ![e].pc = IF kernel["secret"] = None THEN "readAgent"
                                        ELSE "readValue",
                              ![e].key = kernel["secret"]]
  /\ UNCHANGED <<vault, writes, kernel, agent, grant, revoker, drop, gone>>

\* kernel.Read: the payload.
ReadValue(e) ==
  /\ reader[e].pc = "readValue"
  /\ reader' = IF kernel["secret"] = reader[e].key
               THEN [reader EXCEPT ![e].pc = "running", ![e].got = reader[e].key,
                                   ![e].gotAt = "kernel"]
               ELSE [reader EXCEPT ![e].pc = "readAgent"]
  /\ UNCHANGED <<vault, writes, kernel, agent, grant, revoker, drop, gone>>

ReadAgent(e) ==
  /\ reader[e].pc = "readAgent"
  /\ reader' = IF agent = None THEN [reader EXCEPT ![e].pc = "refused"]
               ELSE [reader EXCEPT ![e].pc = "running", ![e].got = agent,
                                   ![e].gotAt = "agent"]
  /\ UNCHANGED <<vault, writes, kernel, agent, grant, revoker, drop, gone>>

\* The agent is there but does not answer in time.
ExecFails(e) ==
  /\ "agent" \in Faults /\ reader[e].pc \in {"ask", "readAgent"}
  /\ reader' = [reader EXCEPT ![e].pc = "failed"]
  /\ UNCHANGED <<vault, writes, kernel, agent, grant, revoker, drop, gone>>

Reader(e) ==
  \/ ExecBegins(e) \/ FindSecret(e) \/ FindStamp(e) \/ ReadStamp(e) \/ AskAgent(e)
  \/ Compare(e) \/ FindValue(e) \/ ReadValue(e) \/ ReadAgent(e) \/ ExecFails(e)

-----------------------------------------------------------------------------
(* revoke, rm and restore: the vault first where it changes, then the      *)
(* kernel, then the agent.                                                 *)

Acknowledged == {g \in Granters : grant[g].pc = "done"}

\* The kernel's half of Revoke comes next, where there is a kernel.
KernelNext == IF HasKernel THEN "kernel" ELSE "agent"

RevokerGoes(r, pc) == revoker' = [revoker EXCEPT ![r].pc = pc]

\* restore --force replaces every secret: the backup's vault has none of
\* this name, an earlier file of it, or one that was never here.
Backups == {writes[w] : w \in DOMAIN writes} \cup {NewFile}

ChangesVault(act) ==
  \/ act \in {"revoke", "all"} /\ UNCHANGED <<vault, writes>>
  \/ act = "rm" /\ vault # 0 /\ vault' = 0 /\ UNCHANGED writes
  \/ act = "restore" /\ vault' = 0 /\ UNCHANGED writes
  \/ act = "restore" /\ \E f \in Backups : Rewrite(f)

RevokeBegins(r) ==
  /\ revoker[r].pc = "idle"
  /\ \E act \in {"revoke", "all", "rm", "restore"} :
       /\ ChangesVault(act)
       /\ revoker' = [revoker EXCEPT
            ![r].pc = IF act \in {"revoke", "rm"} THEN KernelNext
                      ELSE IF HasKernel THEN "list" ELSE "listAgent",
            ![r].before = Acknowledged]
  /\ UNCHANGED <<kernel, agent, grant, reader, drop, gone>>

\* revoke --all and restore revoke what List shows.
ListKernel(r) ==
  /\ revoker[r].pc = "list"
  /\ RevokerGoes(r, IF kernel["secret"] # None THEN "listed" ELSE "listAgent")
  /\ UNCHANGED <<vault, writes, kernel, agent, grant, reader, drop, gone>>

\* List fails with the agent, whatever the kernel had.
ListAgent(r) ==
  /\ revoker[r].pc \in {"listed", "listAgent"}
  /\ \/ /\ revoker[r].pc = "listed" \/ agent # None
        /\ RevokerGoes(r, KernelNext)
        /\ UNCHANGED gone
     \/ /\ revoker[r].pc = "listAgent" /\ agent = None
        /\ RevokerGoes(r, "done")
        /\ gone' = gone \cup revoker[r].before
     \/ /\ "agent" \in Faults
        /\ RevokerGoes(r, "failed")
        /\ UNCHANGED gone
  /\ UNCHANGED <<vault, writes, kernel, agent, grant, reader, drop>>

RevokeKernel(r) ==
  /\ revoker[r].pc = "kernel"
  /\ drop' = [drop EXCEPT ![r] = Listed]
  /\ RevokerGoes(r, "unlink")
  /\ UNCHANGED <<vault, writes, kernel, agent, grant, reader, gone>>

RevokeUnlinks(r) ==
  /\ revoker[r].pc = "unlink"
  /\ \/ Unlink(r) /\ UNCHANGED revoker
     \/ UnlinkStops(r) /\ RevokerGoes(r, "failed")
  /\ UNCHANGED <<vault, writes, agent, grant, reader, gone>>

RevokeUnlinked(r) ==
  /\ revoker[r].pc = "unlink" /\ drop[r] = {}
  /\ RevokerGoes(r, "agent")
  /\ UNCHANGED <<vault, writes, kernel, agent, grant, reader, drop, gone>>

BugAgentKept == agent

\* store.handle revoke: the grant is dropped.
AfterRevoke == None

RevokeAgent(r) ==
  /\ revoker[r].pc = "agent"
  /\ \/ /\ agent' = AfterRevoke
        /\ RevokerGoes(r, "done")
        /\ gone' = gone \cup revoker[r].before
     \/ /\ "agent" \in Faults
        /\ agent' \in {agent, None}
        /\ RevokerGoes(r, "failed")
        /\ UNCHANGED gone
  /\ UNCHANGED <<vault, writes, kernel, grant, reader, drop>>

Revoker(r) ==
  \/ RevokeBegins(r) \/ ListKernel(r) \/ ListAgent(r) \/ RevokeKernel(r)
  \/ RevokeUnlinks(r) \/ RevokeUnlinked(r) \/ RevokeAgent(r)

-----------------------------------------------------------------------------
(* Time.  One grant's expiry key never goes before its value, nor the      *)
(* agent's copy before the kernel's: each was given the same duration,     *)
(* later.                                                                  *)

ExpireSecret ==
  /\ kernel["secret"] # None
  /\ kernel' = [kernel EXCEPT !["secret"] = None]
  /\ UNCHANGED <<vault, writes, agent, grant, reader, revoker, drop, gone>>

ExpireStamp ==
  /\ kernel["stamp"] # None /\ kernel["stamp"] # kernel["secret"]
  /\ kernel' = [kernel EXCEPT !["stamp"] = None]
  /\ UNCHANGED <<vault, writes, agent, grant, reader, revoker, drop, gone>>

\* The agent's timer, or the agent being ended by the user.
ExpireAgent ==
  /\ agent # None /\ (agent # kernel["secret"] \/ "crash" \in Faults)
  /\ agent' = None
  /\ UNCHANGED <<vault, writes, kernel, grant, reader, revoker, drop, gone>>

Time == ExpireSecret \/ ExpireStamp \/ ExpireAgent

Next ==
  \/ WriteVault \/ Time
  \/ \E g \in Granters : Granter(g)
  \/ \E e \in Readers : Reader(e)
  \/ \E r \in Revokers : Revoker(r)

Spec == Init /\ [][Next]_vars

-----------------------------------------------------------------------------
(* Properties.                                                             *)

Marks == Granters \cup {None}
GrantPcs == {"idle", "done", "failed", "undone", "killed"} \cup Working
ReaderPcs == {"idle", "secret", "stamp", "readStamp", "ask", "compare", "read",
              "readValue", "readAgent", "running", "refused", "failed"}
RevokerPcs == {"idle", "list", "listed", "listAgent", "kernel", "unlink", "agent",
               "done", "failed"}
Stores == {"none", "kernel", "agent"}

ReaderType ==
  [pc : ReaderPcs, begun : Nat, key : Marks, saw : Marks, sawAt : Stores,
   got : Marks, gotAt : Stores, gone : SUBSET Granters]

\* Every variable has its type.
TypeOK ==
  /\ vault \in Nat /\ writes \in Seq(Nat)
  /\ kernel \in [Kinds -> Marks]
  /\ agent \in Marks
  /\ grant \in [Granters -> [pc : GrantPcs, ver : Nat, val : Nat]]
  /\ reader \in [Readers -> ReaderType]
  /\ revoker \in [Revokers -> [pc : RevokerPcs, before : SUBSET Granters]]
  /\ drop \in [Granters \cup Revokers -> SUBSET (Kinds \X Granters)]
  /\ gone \subseteq Granters

\* What broker exec runs its command with: the value of the grant it got.
Ran(e) == reader[e].pc = "running"

\* keyring.Add: a reader racing a re-grant may pair an old version with the
\* new value but never the new version with the old value.
NeverOldValue ==
  \A e \in Readers :
    Ran(e) /\ reader[e].saw # None
      => grant[reader[e].saw].ver <= grant[reader[e].got].val

\* The same where version and value came from the same store.
SameStoreNeverOld ==
  \A e \in Readers :
    Ran(e) /\ reader[e].saw # None /\ reader[e].sawAt = reader[e].gotAt
      => grant[reader[e].saw].ver <= grant[reader[e].got].val

\* The value e got is that of a file the vault has had since e began.
Fresh(e) ==
  \E w \in reader[e].begun..Len(writes) : writes[w] = writes[grant[reader[e].got].val]

\* DESIGN, Grants: every race reads as changed, never as current.  No exec
\* runs with a value the vault had replaced before that exec began.
ChangesAreSeen == \A e \in Readers : Ran(e) => Fresh(e)

\* The file of the version e compared was put back by a later write, while
\* the value e got is another file's.
CameBack(e) ==
  LET ver == grant[reader[e].saw].ver IN
  /\ writes[ver] # writes[grant[reader[e].got].val]
  /\ \E w \in (ver + 1)..Len(writes) : writes[w] = writes[ver]

\* An exec that sees the agent alone, on macOS and Windows or in a sandbox,
\* always compared a version, and never runs with a value older than it; nor
\* with one the vault had replaced before that exec began, but for one case:
\* the version compared and the value are of different files, a write having
\* come between them, and a restore has put the version's file back
\* (Vault.Version).
AgentNeverOld ==
  \A e \in Readers :
    Ran(e) /\ ~SeesKernel(e)
      => /\ reader[e].saw # None
         /\ grant[reader[e].saw].ver <= grant[reader[e].got].val
         /\ Fresh(e) \/ CameBack(e)

\* A revoke that has returned is final: an exec begun after it never runs
\* with a grant that was acknowledged before the revoke was asked for.
RevokedIsGone ==
  \A e \in Readers : Ran(e) => reader[e].got \notin reader[e].gone

\* keyring.Add: a grant undone for want of the agent leaves no value in the
\* kernel, even if its own Revoke stopped half-way: whoever unlinked the key
\* it stopped at unlinks the value too.
UndoneIsGone ==
  \A g \in Granters :
    grant[g].pc = "undone" /\ kernel["secret"] = g
      => \E r \in Revokers : <<"secret", g>> \in drop[r]
=============================================================================
