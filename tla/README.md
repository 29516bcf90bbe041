# credential-broker: models, checks and proofs

credential-broker keeps secrets in a vault of age files and lets a coding agent use the
private ones only after a person has granted them, at a window on the desktop, in a
terminal or on a phone. This directory holds TLA+ models of the parts whose
correctness lives in the order things happen in, the TLC configurations that check
them, and proofs that TLAPS checks. Paths are relative to the repository.

To run them: `tlc -config ApprovalTouch.cfg Approval` (each run's module and cfg are in the
table of runs below), `tlapm ApprovalProofs.tla` for the proofs.

1. [The system](#the-system)
2. [Modules and the code](#modules-and-the-code)
3. [Runs and bounds](#runs-and-bounds)
4. [Fairness](#fairness)
5. [Proofs](#proofs)
6. [Where code and comments disagree](#where-code-and-comments-disagree)
   (and the [counterexamples kept](#counterexamples-kept-beside-the-runs))
7. [Assumptions and what is left out](#assumptions-and-what-is-left-out)
8. [Plan](#plan)

## The system

| part | code | state | operations |
|---|---|---|---|
| request session | `internal/approval/approval.go` | how the request ended, the duration, two one-slot channels, the prompt's number | replies of the window and the phones, prompts, statuses, deadline, finish |
| request window | `broker-dialog/` | the page: prompt, status, busy, done | Approve, Try again, answers, Deny, the duration, closing |
| approver | `cmd/request.go` (`approve`, `unlockApproved`) | attempts, whether it waits for a press, the grants made | unlock at the desktop, unlock with a phone's key, retry, grant |
| phone page and its server | `internal/phone/` | the messages of a request, long polls, the phase of each page, two channels | open, poll, unlock, deny, close |
| phone enrollment | `internal/phone/`, `cmd/phone.go`, the app | the link's token, the enrollment and its outcome | open the link, enroll, unlock, wrap the vault, ask how it went |
| request queue | `cmd/request.go` (`requestGrants`, `launchApprover`, `lockRequests`) | the lock file, one approver each | ask, wait behind another, time out |
| grants | `internal/keyring/`, `cmd/grant.go`, `cmd/exec.go` | two kernel keys per grant, the agent's copy | add, look up, read, revoke, expire |
| grant agent | `internal/keyring/agent.go`, `cmd/grantd.go` | grants in memory, timers, socket and lock | start, serve, drop, exit when idle |
| vault | `internal/vault/`, `internal/config/` | two tiers of files, two keys, the config | set, remove, move, rewrap, back up, restore |
| redactor | `internal/redact/` | bytes held back, what they are part of | write, close |
| import | `internal/envfile/`, `cmd/import.go` | an env file, a plan of names | parse, plan, store, report |
| audit log | `internal/audit/`, `cmd/audit.go`, `cmd/log.go` | an append-only file | append under a lock, read |
| push | `internal/webpush/`, `internal/fcm/` | none, beyond tokens in the config | send |
| Android app | `android/` | one screen state, notifications | register, approve, deny |

How they meet. `broker exec --request` and `broker request` start `broker approve` in a
session of its own and wait for its answer on a pipe. The approver takes the request
lock, opens the window (another process, lines of JSON on two pipes) and serves the phone
page (HTTPS); both feed one session, and the approver's main goroutine selects over the
session, the unlock it runs for the window, and the keys phones send. Once the private
tier is open it writes one grant per secret, to the kernel keyring and to the grant agent
(JSON over a socket). `broker exec` reads the grants back, compares the version each was
made at with the vault's, and runs the command with the values, its output through the
redactor. Every command that changes the vault writes the files itself: there is no
server, and the only locks are the request lock, the agent's and the audit log's.

What must be right, and what makes it hard:

- **Request** (session, window, approver, phones): nothing is granted without
  someone's yes, nothing granted once it was denied or timed out, the duration granted is
  the one that was shown, the request ends, and a failure that can be tried again is
  offered again. Five goroutines, two or more processes and several people act at once;
  channels of one slot drop what does not fit; a select takes any case that is ready.
- **Grants**: a revoke is final, an exec never runs with a value older than the
  version it compared, a changed secret reads as changed. Every writer updates two or three
  stores in sequence with no lock over them, while readers read them in sequence.
- **Grant agent**: one serves at a time and no grant is kept where nobody can
  revoke it; grants leave memory for a cause of their own; calls end and so does the
  daemon. Processes start on demand, race for a lock and a path, are signalled and killed.
- **Vault**: it opens whole or not at all, whatever step fails or is cut short; what was
  stored is kept; old and new secrets do not mix; the unlocks in force are the ones listed.
  Commands hold what they loaded while a person types.
- **Redactor**: no byte of a value gets through, however the output is cut into writes and
  however values overlap, and nothing is held back that cannot become one.
- **Request queue**: one window at a time, nobody asked for what was just granted, every
  answer true and in the log if that can be written, and everyone ends. Each request is two processes, either of which may be
  killed, on either side of a lock file and two deadlines.
- **Phone page**: nothing a phone sends names the request it is for, and each approver opens
  a server of its own on one address; polls, timeouts, closes and pages left over meet in any order.
- **Enrollment**: the phone's half comes first and the PC's may fail, be stopped or
  killed; a phone must not keep a token for a vault that does not have it.
- **Import**: what is stored is what a shell would have, and a line called safe to delete is.
- **Audit log, push, Android**: see [what is left out](#assumptions-and-what-is-left-out).

## Modules and the code

| module | what it is |
|---|---|
| `RequestOutcome` | what one request promises: yes, no, one outcome, one duration |
| `Approval` | session, window, approver and phones of one request; refines `RequestOutcome` |
| `ApprovalProofs` | its theorems |
| `RequestQueue`, `MCRequestQueue` | requests, their approvers, the lock between them, the clock |
| `RequestQueueProofs` | its theorems |
| `PhonePage`, `MCPhonePage` | the page's server over several requests, and the phones' pages |
| `PhonePageProofs` | its theorems |
| `Enroll` | one enrollment link: the command, its server, the phones that open it |
| `EnrollProofs` | its theorems |
| `EnvFile` | what the env file parser finds, as operators on bytes |
| `Import`, `MCImport` | planning, storing and reporting; statements with what a shell makes of each |
| `Grants`, `MCGrants` | the grants of one secret in three stores, their writers and readers; both kinds of platform, one exec to a behaviour, interchangeable approvers |
| `GrantsProofs` | its theorems |
| `AgentStore` | what the agent's callers are promised: one store that does each thing at one moment |
| `GrantAgent` | the agent's processes, store and connections, and the calls to it |
| `MCGrantAgent` | which calls are left to make, for the run of liveness |
| `GrantAgentCalls`, `MCGrantAgentCalls` | history of what has taken effect and what reads could find; refines `AgentStore`; interchangeable adders |
| `GrantAgentProofs` | their theorems |
| `Vault`, `MCVault` | the files of the vault and the commands that change them; the backups a restore is given |
| `VaultProofs` | its theorems |
| `Redact`, `MCRedact` | the streaming redactor; every pair of short values |
| `RedactLoop` | the loop of its `flush` as written, which `Redact` is compared with |
| `RedactProofs` | its theorems |

An operator called `Bug...` is a plausible mistake in the definition after it; no
specification uses one. `PROJECT.json` lists, for each definition, the lines it stands for,
and for each property the mistake that breaks it.

**Approval.** The request from the moment it shows until `broker approve` exits. `sess` is
`approval.Session` (`handle`, `Pick`, `end`, the one-slot `approve` and `values`, `promptID`);
`reading` and `polling` are its two goroutines; `main` is `unlockApproved` and the grants
after it, `pc` naming where it is (in the select, trying a phone's key, granting);
`local` is the unlock running behind the window, with the questions a plugin asks;
`win` is the page (`ui.html`), `toWin` and `fromWin` the two pipes; `phone` is each
phone's page (`app.js`), `posts` what is on its way, `replies` and `unlocks` the server's
channels. `said` is history: who has said yes and no. A select that finds several cases
ready may take any, so each case is an action guarded by its channel only. The unlock
attempt, a retry and a phone's key that does not open the vault are modelled with the
counting and resetting of `unlockApproved`.

**RequestQueue.** What `Approval` takes for given: a request and the approver it launches, by
one name (`req[r]`, `app[r]`), both of which may be killed; `lock` is the lock file, which
goes with its holder. `Launch` is `launchApprover` with the names missing then; `TakeLock` to
`Resolve` is `approve` up to the second look at what is missing; `Open` to `Return` is the
window, whose inside is `Approval`; `Record` and `Tell` are what `newApproveCmd` does with the
outcome. `log[r]` is the lines of a request, `"unwritten"` for one that could not be written
(`Appends`): `record` only warns and goes on. With `InUnits` a request's approver is a unit of the service manager, which its
requester's end does not kill but `RuntimeMaxSec` does. Grants have an end and a maker;
`met` is history: the names a request has had a good grant of.

**PhonePage.** One server after another at one address (`srv`, with the messages of its
session), and each phone's page. A page is a Watch of `app.js` with its number, since one that
was stopped may still have a fetch out; `fetches` and `posts` are what is on its way, and reach
whichever server listens. Fetches wait, time out, are answered or fail with the server. The
server listens before the session has written its request (`OpenServer`, `StartSession`), and
closes without a word of the outcome if the session does not start (`StartFails`);
`Finish`, `BeginClose`, `Drained`, `DrainExpires` and `Down` are the approver's end and `Close`
with its wait for delivery. `seen`, `told`, `srv.excused` and a page's `late` are history.

**Enroll.** The command from the link it prints to its end (`cmd`), the server with its one
`done` slot and `finish`, and each phone: a page, or the Android app, which registers for
push before it sends. A call is a value of `phone[p].call` as it goes there and back, so it may be
lost either way. The vault is whom it was last wrapped to; how it is written is in
`Vault`.

**EnvFile, Import.** `Parse` is translated operator by operator from the scanner, on a file
of the bytes it tells apart. `Import` writes a file statement by statement, runs the command,
stores name by name with a failure at any, and reports. Each statement comes with what a POSIX
shell makes of it (value, whether that can be told, names expanded), written down in
`MCImport` piece by piece and not computed by the parser: that is the reference the two
properties compare with. The recursion is TLC's only, so nothing is proved about these two.

**Grants.** One private secret. A granter (`grantSecret` and the `Add` it ends in) reads the
version, decrypts, links the value, links the version, hands the grant to the agent, and
undoes the kernel's half when that fails; an exec looks up the version, compares, reads; a
revoker revokes in the kernel key by key and then in the agent. `kernel` is the two keys
linked from the user keyring, `drop` the keys a revoke has found and not yet unlinked. A
key or grant is named by the granter that made it, so `grant[g].ver` and `grant[g].val` say
which write's version it claims and which write's value it holds. A write is of a new file, or
of one that was there before, which a restore puts back byte for byte; a version is a hash of
the file, so two writes of one file have one version. `HasKernel = FALSE` is macOS and Windows.
`Faults` chooses among a keyring out of quota, an agent that does not answer (having done
what it was asked or not), and killed processes.

**GrantAgent.** What `Grants` takes for one variable: the processes started by `Client.do`,
each going through lock, socket, serving, close, removal and release (`newGrantdCmd`); the
store with its timers and its ticker (`store.handle`, `Serve`); a goroutine per connection
that accepts, handles and responds in three steps; clients that start an agent or take
its absence for no grant. `Faults` chooses among a signal, a kill, an agent that does not
start, and a call that waits past its deadline. `GrantAgentCalls` adds no step, only two
history variables: `took`, the adds and revokes that have taken effect, and `seen`, what each
read under way could have found.

**Vault.** `config`, `data` (both keys, the values and metadata in both tiers), and one
command per process with the config it loaded; a restore's staging directory. Each write,
rename or removal is a step that may fail (`WriteFails`) or be the last (`Dies`). Commands:
init, set (with its two reads, the choice of tier, value, metadata, removal from the other
tier), rm, phone enroll, phone rm, phone fcm (open, rewrap `private.key.age`, save the
config) and restore (`swap` and its rollback). `told` is history: the values a secret may
have after what commands reported, which sets were cut short, which phones were reported
enrolled or removed, which names a restore brought with two copies described differently, and
whether every rollback step worked, until a restore puts a whole vault there.

**Redact.** One `redact.Writer`. A write or a close is one step: nothing else runs in it.
`Flush` does not run the loop of `flush` but says what it has done when it stops: at the
first byte where a value may still come (`Waits`), having covered what its markers stand for
(`Covered`), the same `cover` carried over (`Carried`); `RedactLoop` has the loop turn by turn, and
`FlushIsLoop` compares the two at every step. `stream` is history, and what was
written is kept by its place in it: `shown`, the bytes let through, and `marks`, the
markers.

**What an abstract specification adds.** `RequestOutcome` has seven one-line actions and no
channels. `Approval!OutcomeSpec` is that specification under the mapping written beside it
(the approver's outcome and its grants, and what people did); TLC checks it and
`ApprovalProofs` proves it, so a reader can take the seven actions for the request.
`AgentStore` has six actions and no process, lock or socket: a call is asked for (`Ask`), takes
effect at one moment (`Takes`), and returns or fails; a read gets what the store held at some moment
since it was asked; the store may lose what it holds (`Loses`), and where there is none a read
or a revoke is done at once (`FindsNone`). `GrantAgentCalls!StoreSpec` is that specification under the
mapping beside it, checked and proved likewise: it is what `Grants` takes for one variable.

## Runs and bounds

| run | module, cfg | shows |
|---|---|---|
| ApprovalWindow | `Approval`, `ApprovalWindow.cfg` | a passphrase vault with a window and a phone, two secrets: types, the outcome, the duration shown, Try again, and that a no ends the request |
| ApprovalClick | `Approval`, `ApprovalClick.cfg` | a click vault, which unlocks without a person: every unlock was asked for by a press, and no press is left over from before a failure |
| ApprovalTouch | `Approval`, `ApprovalTouch.cfg` | a touch vault whose plugin asks questions, and a phone whose key may be refused: the invariant the proofs use, and the outcome |
| Grants | `MCGrants`, `Grants.cfg` | two approvers, an exec and a revoke: with kernel and agent, failures of either and the exec outside or in a sandbox; and with the agent alone, kills and one more write. An exec that sees the agent alone is promised more |
| GrantAgentSafe | `MCGrantAgentCalls`, `GrantAgentSafe.cfg` | two agents, a read and a revoke with signals and kills: one server, and to the callers one store |
| GrantAgentEnds | `MCGrantAgent`, `GrantAgentEnds.cfg` | with every fault, calls of each kind end and no agent lingers |
| VaultSafe | `MCVault`, `VaultSafe.cfg` | any four commands in a row, four faults |
| Redact | `MCRedact`, `Redact.cfg` | every chunking of every stream: the output is the redaction of the whole, and each flush writes and keeps what the loop of the code does |
| RequestQueue | `MCRequestQueue`, `RequestQueue.cfg` | two requests for overlapping names, one in a unit, with grants and revokes from outside, kills, an audit line that cannot be written, and the clock |
| PhonePage | `MCPhonePage`, `PhonePage.cfg` | two requests in a row, two phones, one removed in between; pages left over, a lost answer, a window that does not start or a killed approver |
| Enroll | `Enroll`, `Enroll.cfg` | a page and an app open one link; keys fail, calls are lost, the command fails, is stopped or killed |
| Import | `MCImport`, `Import.cfg` | every file of up to four pieces of syntax, three ways to run the command, two vaults, a failure at any store |

Why the bounds are enough to be interesting:

- *Approval.* Two attempts (three in the click vault, the code's number) are what it
  takes for a failure, a retry and a last failure; a phone's refused key counts in the same
  counter. One prompt per unlock still gives stale answers, since each attempt has one
  with a new number. Two durations, asked and another. One phone suffices for the races
  with the window; two phones differ only in the second being refused with a conflict, and
  the proofs are for any number. `MaxPosts` and `MaxPicks` bound what people do.
- *Grants.* Two granters are what it takes for a re-grant; a third version lets both a
  grant and its replacement be stale. With the kernel the run leaves out kills so as to have
  both of the other faults; with the agent alone it has them. A behaviour has one exec and ends with
  it: a reader changes nothing but itself, so what another would read is explored with that one, and
  what would follow with it not begun. With the kernel, execs refused or failed are left out
  (`EndsInRun`: they change nothing, and nothing is said of them), and of the two approvers'
  grants one does not fail (`OneGrantHolds`). A file comes back only where the exec is one that sees the
  agent alone (`AgentSeesBack`): it is the one whose promise the return is an exception to. The
  theorems have every fault and any exec.
- *GrantAgent.* Two adders, so an agent and its successor; a client makes one call. Nothing
  tells the adders apart, which is the symmetry of GrantAgentSafe; its properties are all of
  safety. GrantAgentEnds, of liveness, has no symmetry and fewer calls to make: two adds, an add with a
  read or a revoke, or one of each. The others came before any agent and found none, or could
  not start one.
- *Vault.* Four commands reach a set after a failed or killed restore after a set of a vault
  just made; four faults reach a repair of a repair that was itself cut short, and a rollback
  that fails at each of its steps. One name in two tiers: names do not
  interact, except through the directory and keys they share. Two backups: of this vault
  with a phone enrolled, and of another.
- *RequestQueue.* Two requests are what it takes for one to wait at the lock while the other is
  granted; the second may ask for a name more and for longer, which is where the second look
  must leave some and keep some. A clock of three values puts each deadline and the grace period before,
  at and after every other step. One fault, an unwritten line included, or change from outside.
  The theorems have any number.
- *PhonePage.* A page left over needs two requests, and one phone removed between them is the
  one that finds itself refused. Three acts are a status, a page opened again, a press, and
  at most one loss, kill or session that does not start, of any kinds.
- *Enroll.* Two phones, one of each kind, race for the token; two unlocks give a failure and a
  last one; three tries of the key give each phone one and a second to one.
- *Import.* Four units of syntax are two assignments of two pieces each, or one with an ending and
  three other statements; every pair of pieces is in a word. One more name than the one that varies.
- *Redact.* Two values of up to four bytes over two letters give one inside the other, two that
  overlap, one that overlaps itself, equal ones and one too short; streams of five hold
  three occurrences that overlap in a chain. The theorems have no bound.

Runs have `CHECK_DEADLOCK FALSE` because a request, a call, a command and a stream end, and with
everyone finished nothing more happens.

What each property says, and the code it is about, is in the comment above it. In short:

| property | says |
|---|---|
| `Approval!OutcomeSpec`, `RequestInv` | no grant without a yes, no denial without a no, nothing granted once denied or timed out, one duration; every sign in a channel has a person behind it |
| `Approval!GrantedAsShown` | what the window showed when it approved is what was granted |
| `Approval!RetryIsOffered` | while the approver waits for a press, a window that has caught up offers one |
| `Approval!EveryUnlockIsAskedFor`, `PressesAreFresh` | a click vault unlocks once for each press, and a press is not carried over a failure |
| `Approval!NoEndsRequest` | a no that is on its way ends the request, whatever else goes on |
| `Grants!RevokedIsGone` | an exec begun after a revoke returned does not run with what was revoked |
| `Grants!UndoneIsGone` | a grant undone for want of the agent leaves no value in the kernel |
| `Grants!SameStoreNeverOld` | no value older than the version compared in the same store |
| `Grants!AgentNeverOld` | an exec that sees the agent alone (macOS, Windows, or a Linux sandbox without the kernel's keys) gets no value older than the version compared, nor than the vault's when it began, unless a restore put back the file it compared and the value is of one in between |
| `GrantAgent!OneServer`, `RevokedIsUnreachable` | one agent at the path; a revoke reaches every copy a client can reach |
| `GrantAgentCalls!StoreSpec` | to their callers the agents are one store: each call has its effect at one moment between being made and answered, or the store has lost what it held |
| `GrantAgent!DroppedForCause` | a grant leaves memory for its own expiry or a call, not for another's timer |
| `GrantAgent!CallsEnd`, `NoAgentLingers` | calls and daemons end |
| `Vault!KeysMatch`, `NeverMixed`, `SecretKept` | a vault that opens has the keys its config names, secrets of its own only, and what was stored |
| `Vault!FailedRestoreUndone` | a failed restore left everything as it was |
| `Vault!UnlocksAsTold`, `DescriptionKept` | who was reported enrolled or removed is; a moved secret keeps its description |
| `Redact!OutputIsRedaction` | the bytes let through are those of no occurrence of any value, and each run of occurrences has one marker, named for the longest at its start |
| `RedactLoop!FlushIsLoop` | a write or close writes byte for byte, and keeps, what the loop of `flush` does |
| `RequestQueue!OneWindow`, `NotAskedAgain` | one approver past the lock, and no window opens on what another request was just granted |
| `RequestQueue!OkIsTrue`, `NoAnswerIsTrue`, `HeardIsLogged` | a request told yes has had its grants, one told no was given none; what it heard is in the log unless that line could not be written, and no line says what is not so |
| `RequestQueue!EveryoneEnds` | requests and approvers end by themselves and free the lock |
| `PhonePage!NothingSkipped` | a page gets the messages of the request it opened on from the first, each once and none left out; left over, it never goes back, and misses no more of a later request than it had of the one before |
| `PhonePage!SomeoneHears` | if a phone polled, how a request ended has reached a page or is on its way to one when the server is gone |
| `PhonePage!PageEnds` | a page stops polling, saying that it is over or that there is nothing to approve, until its approve goes on |
| `Enroll!DoneIsEnrolled`, `FailureIsTrue`, `AllEnd` | what a phone says of its enrollment is so, and nobody waits for ever |
| `Import!StoredAsShell`, `DeletableIsSafe` | what is stored is what a shell would have; what may be deleted is whole statements nothing needs any more |

## Fairness

`Approval!Fairness` is weak fairness of the approver's main goroutine and of the three
reading steps: goroutines the Go scheduler runs when they can run. Nobody is required to
press, answer or post, the unlock need not finish, and the deadline need not pass.
`NoEndsRequest` therefore says that a no suffices: the deadline is not what ends the
request.

`GrantAgent!Fairness` is weak fairness of each agent process, of each connection's goroutine
and of a call under way, and that time passes (grants expire, timers fire). Nobody has to
call and nothing has to fail. `CallsEnd` leans on the client's own deadline where an agent
dies between accepting and answering.

`RequestQueue!FairSpec` is weak fairness of the clock and of the requesters and approvers taken
together: some process that can run does. Nobody has to approve or deny; the deadlines, the
grace period and `RuntimeMaxSec` end what people leave.

`PhonePage!Fairness` is weak fairness of the approver's end (its deadline comes, it closes) and of
the polls of current pages; nobody presses anything. `Enroll!Fairness` is weak fairness of the
command where it does not wait for a person, of the enrollment timeout, and of each phone's
calls. `AllEnd` starts once the command is past the prompt for Enter, which it waits at as
long as it takes. No run uses strong fairness.

## Proofs

TLAPS proves the following for every value of the constants that satisfies the module's named
`ASSUME`: any number of phones, attempts, secrets, approvers, readers, revokers, agents,
requests, pages and commands, and any set of faults. A hypothesis a theorem needs besides is in
its row.

| theorem | property | argument |
|---|---|---|
| `ApprovalProofs!TypeCorrect` | `TypeOK` | needs `EndsOK`: without an outcome the failed attempts are below the limit, so the next one stays within it |
| `ApprovalProofs!RequestInvariant` | `RequestInv` | `RequestInv` is inductive |
| `ApprovalProofs!OutcomeCorrect` | `OutcomeSpec` | each step under `RequestInv` is a step of `RequestOutcome` or a stutter |
| `ApprovalProofs!EveryUnlockIsAskedForHolds` | `EveryUnlockIsAskedFor` | `PaidInv`, by counting |
| `ApprovalProofs!PressesAreFreshHolds` | `PressesAreFresh` | `TurnInv`; assuming `Quiet` |
| `ApprovalProofs!RetryIsOfferedHolds` | `RetryIsOffered` | `TurnInv` and `OfferInv`; assuming `Quiet` and `NoneRefused` |
| `ApprovalProofs!GrantedAsShownHolds` | `GrantedAsShown` | `ShownInv`; assuming `~Confirms` |
| `GrantsProofs!TypeCorrect` | `TypeOK` | inductive |
| `GrantsProofs!RevokeIsFinal` | `RevokedIsGone` | `RevokeInv` |
| `GrantsProofs!NeverOldSerial` | `SameStoreNeverOld` | `SerialInv`, assuming `Terminals = {}` |
| `GrantsProofs!AgentNeverOldHolds` | `AgentNeverOld` | `SerialInv` and `AgentInv`, assuming `Terminals = {}` |
| `GrantsProofs!UndoneIsGoneHolds` | `UndoneIsGone` | `SerialInv` and `UndoInv`, assuming `Terminals = {}` |
| `GrantAgentProofs!TypeCorrect`, `OneServerAlways` | `TypeOK`, `OneServer` | `RevokedInv` |
| `GrantAgentProofs!RevokeReachesAll` | `RevokedIsUnreachable` | `RevokedInv` |
| `GrantAgentProofs!DroppedForCauseHolds` | `DroppedForCause`, an action property | each step under `HeldInv` |
| `GrantAgentProofs!StoreImplemented` | `StoreSpec` | each step under `RevokedInv`, `HeldInv` and `CallsInv` is a step of `AgentStore` or a stutter |
| `VaultProofs!VaultTypes` | `TypeOK` | with `ControlInv`, for any number of processes |
| `VaultProofs!VaultInvariant` and `KeysMatchHolds`, `NeverMixedHolds`, `SecretKeptHolds`, `FailedRestoreUndoneHolds`, `UnlocksAsToldHolds` | five of the properties of the run `VaultSafe` | `VaultInv`, assuming `OneProcess` |
| `VaultProofs!DescriptionKeptHolds` | `DescriptionKept` | `DescInv`, assuming `OneProcess` |
| `RequestQueueProofs!TypeCorrect` | `TypeOK` | inductive |
| `RequestQueueProofs!OneWindowHolds`, `NotAskedAgainHolds`, `OkIsTrueHolds`, `NoAnswerIsTrueHolds`, `HeardIsLoggedHolds` | the five safety properties of the run `RequestQueue` | `QueueInv` |
| `PhonePageProofs!PageInvariant` and `NothingSkippedHolds`, `SomeoneHearsHolds` | `TypeOK` among others, `NothingSkipped`, `SomeoneHears` | `PageInv` |
| `EnrollProofs!EnrollInvariant` and `DoneIsEnrolledHolds`, `FailureIsTrueHolds` | `TypeOK` among others, `DoneIsEnrolled`, `FailureIsTrue` | `EnrollInv` |
| `RedactProofs!TypeCorrect`, `RedactionCorrect` | `TypeOK`, `OutputIsRedaction` | `RedactInv` |

*RequestInv.* That a grant needs a yes is not inductive: the approver only sees a
channel. `YesOK` and `NoOK` follow each sign of a yes or a no back through everything that
carries it (the session's channel, the server's, the pipes, the posts, the plugin's answer, a window
that went away) to the person in `said`; `EndsOK` ties the outcome to where the approver is
and to how the session ended. Under it `Approve` and `Deny` of `RequestOutcome` are
enabled when the approver takes them. The proofs are by group of actions (sessions,
unlocking, approver, window, human, server), each conjunct on its own.

*PaidInv, TurnInv, OfferInv* (Approval). That every unlock was asked for is counted: unlocks
begun, and presses, values and an answer not yet used, come to no more than was pressed and
typed, with no hypothesis. The other two are about whose turn it is while the request is open:
at most one prompt (`PromptOK`) and at most one press (`PressOK`) are anywhere between the
page and the approver, a press only while the approver waits, so it was made with every failure
shown; and a page that can be used has its button, has pressed it or is about to be offered it
(`OfferOK`). `Quiet` says that no plugin asks a question in a plain vault: the question brings
Approve back while the unlock runs, and TLC shows the press that is left over. `NoneRefused`
leaves out a phone's key that is refused in a vault with a desktop key, whose status takes Try
again away (`ApprovalRetryLost.cfg` below).

*ShownInv* (Approval). From a press, or from the answer to a prompt, until the approver has
read the duration the page is busy, and nothing on its way lets go of it (`Kept`); no pick
comes after the approve, or after the value that opens the key, in the pipe (`ApproveLast`,
`ValueLast`); so when the queue has no pick left the session's duration is the page's (`PickOK`).
Numbers tell an old prompt's value from the one asked for. The invariant holds while no phone has
posted and the key is not one to touch, which is when the property speaks. It assumes
`~Confirms`: with a plugin's question answered, the page is no longer busy while the unlock goes
on, the duration may be picked anew, and TLC finds the approval that shows another one.

*RevokeInv* (Grants). What a revoker noted when it was asked, and what a finished one leaves
in `gone`, was acknowledged (`Promised`), so its granter never writes again; `Cleared` says
how far each revoker is: past the kernel, the kernel no longer has what it noted, and
half-way it has the value's key on its list. `GoneStaysGone` then says no store has what
is gone, and `RevokedIsGone` is kept because an exec can only read from a store.

*SerialInv* (Grants). With approvers only, the request lock gives one granter at a time
(`OneAtATime`), so versions are granted in order (`Ordered`) and nothing replaces
a value between its two links (`Linking`); so the version in the kernel is never newer than the
value beside it (`KernelFresh`), and what a reader has seen stays no newer than what it
can still read (`ReadersFresh`). The assumption is needed: `broker grant` at a terminal
takes no lock, and two interleaved `Add`s leave a new version beside an old value.

*AgentInv* (Grants). An exec that never asks the kernel takes version and value from one store, in
which grants are replaced by later ones only. What it compared was the version of the vault's file at
some write since it began (`AsksAgent`, `Compared`), its grant's own or one that put that file
back; so the value, of a write no earlier than the grant's, is either of a file the vault has
had since the exec began or of another than the one compared, which came back (`CameBack`).

*UndoInv* (Grants). A grant that is undone unlinks its keys one at a time, in either order,
while a revoke may do the same. The value is linked first (`ValueThenStamp`), so whoever lists the
stamp lists the value with it (`UndoLeft`, `RevokeLeft`), and one that has unlinked the stamp
has nothing but the value left to unlink (`Undoing`). Until it gets there the value is
readable: `UndoneIsGone` allows for a revoke that is at it. `OwnKeys` says that the keys there
are its own, for which no other granter may link. All four assume `Terminals = {}` and
are false without: a terminal that links its stamp between has the undo meet a displaced key that
is collected already, at which it stops, and the value stays.

*RevokedInv* (GrantAgent). `LockOK` gives one server. `ServingFree` says that no agent at the path holds
what is gone, `RevokingOK` that during a revoke the only one which may is the one the
revoke is connected to and has not handled it, `ReadingOK` that a read is at an agent
without it. A revoke that finds no agent is sound since an exiting agent takes no new
connection, and a read begun later goes to its successor, which starts empty (`FreshOK`).

*HeldInv* (GrantAgent). A timer outlives the grant it was set for, so that the timer drops only its
own is a fact about every step before: what an agent holds was added there and not dropped
(`HeldOK`), a timer fires only once its grant is expired or dropped (`TimerOK`), and an add
not yet handled is nowhere (`PendingOK`).

*CallsInv* (GrantAgent). An add or a revoke takes effect when an agent that listens handles
it (`TookOK`). The difficulty is what an agent has accepted when it closes its socket: it goes
on handling those calls in a memory nobody else can reach, in an order not yet settled, while its
successor may be serving others. They take effect at the moment it closes, just before the store
is lost, and a read among them has seen then whatever it may still find (`SeenOK`, `LeftAt`):
nothing, the grant that is held, or what one of the adds among them brings. So what is not settled
yet is a set, and no prophecy variable is needed. Under these each step is one of
`AgentStore`'s: handling is `Takes`, an expiry, a drop, a close or a kill is `Loses` or nothing,
and what a caller does is `Ask`, `FindsNone`, `Returns` or `Fails`. `HeldInv` is used where a timer
or another agent's drop must leave what is held at the socket alone.

*QueueInv* (RequestQueue). `OneWindow` holds by itself: only a free lock is taken and whatever
ends an approver frees it. The rest is one request's own (`Local`) and a step of another leaves
it alone, except through the clock and the grants: `LoggedOK` and `HeardOK` say what has been logged by
when, `LinesOK` that a line which was written stays true whoever is killed after it, `GivenOK` and `LateOK` that only an approved window has granted and that a request
told otherwise has an approver that is through or out of time, `MetOK` that each name which
left `missing` or `shown`, or was given, has been met. `PickedOK` is there because a grant of no
duration would not be met. `UnaskedFor` is kept since only the lock's holder grants
(`OneWindow`), a terminal's grant is not a request's, and a grant that is too short stays so.

*VaultInv* (Vault). `ControlInv` has, for any number of processes, the steps each command takes
and what it knows at them; the types follow. The rest assumes `OneProcess`, one command after
another: the code has no lock, and with two processes TLC finds five of the six properties
violated. `Disk` is what the files promise between any two steps, failed or last: where a
config is, the directory has both its keys, values of its key only, what was stored, and whom
it was to be wrapped to. Each command adds what it has seen or done itself: `EditOK` which
tiers hold the name and what is left to drop, `RewrapOK` that the private key is wrapped
to what the config does not say yet, `InitOK` that there is no secret to find, and
`RestoreOK` where the old directory, the new one and the old config are at each step of swap and of
its rollback, with the promise they kept carried along until they are back. `DescInv` goes on
from there: copies of a name say one thing, except under a set that is between its value and
the copies it drops, which has the description still to be written in hand.

*PageInv* (PhonePage). What a page has is a fact about a past answer of a server that may be
gone, so it is followed from the server to the page. `MsgsOK` numbers a server's messages;
`FetchesOK` gives a Watch one fetch at a time, and its answer one server's messages without a gap
(`AnswerOK`); `AsksOK` says that a current Watch asks for, and a current answer begins with,
what comes after the last message the page has, or belongs to a later request; so what
arrives continues what is there (`Joined`). Arriving at the next request's server cuts the
number asked for, which is why it must be compared with the request it counts in. How much it has of the earlier request bounds what is cut off the later one's beginning
(`Follows`). For `SomeoneHears`, `HearOK` follows the furthest answer: it has been received, or is on its
way, and then to a page that still looks with the messages in it (`Hears`); an answer that carried
nothing went to a page that had the end already (`Straight`), as no page left over has asked.
`EndedOK` is there because a session that ended has written its request, so the end is not its
first message.

*EnrollInv* (Enroll). The link is used once, so there is one enrollment, first the server's
and then the command's (`Enrolled`), and whoever is past enrolling has that one (`PhoneOK`); a good
answer is given by a command that finished without failing, which has wrapped the vault (`CmdOK`).
That a failure is true is only so without a fault, which `CleanCmd` and `CleanPhone` follow to
the end: the server is up until the command is through, and the phone that asks is told.

*RedactInv* (Redact). That the output so far is right says nothing of the next write. What
does is that no value can still be completed from a decided byte (`Settled`), so more input
does not change what occurs there, and that `cover` reaches exactly as far as the occurrences
that began before `buf` (`Reach`). A flush keeps both: `CoveredMeans` says that what the loop
takes for covered is what an earlier occurrence covers.

Only model-checked: liveness (`NoEndsRequest`, `CallsEnd`, `NoAgentLingers`,
`EveryoneEnds`, `PageEnds`, `AllEnd`), which with ENABLED is out of the prover's reach; `Import`, whose
parser is recursive; and `FlushIsLoop`, since what the loop computes for every buffer takes
induction. Every other safety property of the runs is stated by a theorem.

## Where code and comments disagree

### Counterexamples kept beside the runs

Five cfgs that are no part of the runs ask for what a line of the repository says and TLC
finds it violated. Each says one thing:

1. `tlc -config ApprovalRetryLost.cfg Approval`. With retry, a status makes the window offer
   Approve again (`internal/approval/approval.go:332`) and the approver waits for that press; but a phone's key that does not
   open the vault sends a status without retry (`cmd/request.go:589`), and the window takes
   the button away. Only a phone, a no or the deadline ends it.
2. `tlc -config GrantsFirstStamp.cfg Grants`. DESIGN.md:166-169 says that every race reads as
   changed. Between the first grant's two links (`internal/keyring/keyring_linux.go:80`) a
   reader sees a value without a version, which counts as live (`cmd/grant.go:260-271`); if the
   secret was set again since it was decrypted, the exec runs with the old one.
3. `tlc -config GrantAgentTorn.cfg GrantAgent`. Read returns the granted value or
   ErrNotGranted (`internal/keyring/agent.go:267`). The answer is the store's own slice (`:111`), encoded
   after the unlock, and a drop clears it meanwhile.
4. `tlc -config PhonePageMixed.cfg MCPhonePage`. src/README.md:163 has the phone approve the
   request it shows. A post does not name its request (`internal/phone/server.go:504`,
   `assets/app.js:351`): an unlock whose key was asked for under one request, and posted when
   the next one's server listens, decides the next.
5. `tlc -config GrantsBack.cfg Grants`. `internal/vault/vault.go:360-365` says that any change to the value,
   a restore included, changes its version, so that a grant made at an earlier one can tell it is old. A
   restore writes the backup's file as it is (`internal/vault/backup.go:124`, `:498-502`), and the version is a hash of it:
   a grant made at that version compares as current again. Between a granter's reading the version and
   decrypting, a set may have made the value another one, and then the exec runs with a
   value the vault no longer has.

### Seen while modelling, and allowed for in the properties

- A deny and an unlock that are ready in the same select: either is taken
  (`cmd/request.go:559`), where README.md:163 says whichever answers first wins. What the
  properties hold to is that the outcome has that person's word behind it.
- The duration a phone sends with its key is stored in the session
  (`cmd/request.go:582-584`) and read after the vault opened (`:508`); a post from another
  phone in between replaces it, though the comment says it is the one approved.
- In a click vault whose plugin asks a question, Approve pressed while the unlock runs
  stays in the one-slot channel and starts the retry by itself (`cmd/request.go:568`,
  `broker-dialog/ui.html:199`); `PressesAreFresh` is checked for plugins that ask none.
- A pick after the approver read the duration is accepted by the page and ignored
  (`DESIGN.md:352`, `cmd/request.go:508`); `GrantedAsShown` is about the pick shown at approval.
- `Serve` decides that the agent is idle and closes its listener in two steps
  (`internal/keyring/agent.go:155`): a grant acknowledged in between is lost with the
  process, though the comment says it ends only after holding none for that long.
- A revoke that runs during an `Add` may leave the grant in the kernel only, where
  `DESIGN.md:228-231` says a sandbox never misses a grant the host sees.
- A granter at a terminal takes no lock, and between another's links (`internal/keyring/keyring_linux.go:80`)
  leaves a new version beside an old value: with one, TLC finds `SameStoreNeverOld` violated.
- An `Add` at a terminal between another's links (`internal/keyring/store_linux.go:98`) has the undo
  of a grant stop at a key that is no longer there, with the value still in the kernel after the
  command said that nothing was granted. `UndoneIsGone` is checked for approvers, which the
  request lock puts one after another.
- `Lookup` and `Read` choose a store each (`internal/keyring/store_linux.go:98-136`): the kernel's
  new version may be paired with the agent's old value if the kernel's key expires between. Hence
  `SameStoreNeverOld`.
- Commands that overlap save the config whole from what each loaded: a phone removed
  meanwhile comes back, one enrolled is dropped. Two sets that move a name to different
  tiers remove each other's copy and both report success. The vault's promises are
  checked for commands one after the other.
- A set that waits at its prompt while a restore of another vault finishes writes into the
  new directory, to the old vault's key (`internal/vault/vault.go:441`), though
  `internal/vault/backup.go:228` says that old and new secrets never mix. In the same
  overlap a set's `MkdirAll` between swap's two renames makes both the move in and the
  rollback fail, after which `RemoveAll(stage)` deletes the old vault. With two processes
  and the commands set and restore, TLC finds each in `Vault` at once.
- A failure in swap's rollback is ignored and the staging directory, with the old vault,
  removed (`internal/vault/backup.go:381-390`). An `init` that follows may find secrets of the
  vault that was there and start a new one around them. The promises end with the rollback, and
  begin again when a restore has put a whole vault there.
- A set to the private tier that is killed between the value and its metadata: the
  repair reads the private tier's metadata first and finds none, so the description is lost
  (`internal/vault/vault.go:515-530`).

- `broker import`, within the syntax it is for: several assignments on one line
  (`B=1`, then `export A=1 B=2`) store the first B, though `cmd/import.go:115-120` says the last
  wins; `${#A}`, `${!A}` and `$((A))` do not count as uses of A (`cmd/import.go:99-101`); a backslash and
  newline before `~`, `\ #`, and a `#` inside `$( )` are read otherwise than a shell does. Files
  of the run have none of these.
- A unit that is killed just before the context expires makes its request say `no_grant`
  where it would have said that nobody answered (`cmd/request.go:175-184`). Without a
  service manager, an approver whose requester was killed ends by its own deadline only.
- `delivered` counts the furthest poll when its answer is about to be written, also one to a page that
  has been left or whose connection breaks, and one by a page left over from an earlier request that
  never was sent this one's end (`internal/phone/server.go:432`). `excused` marks those, and an
  approver that stopped waiting or was killed.
- A page left over from an earlier request asks the next one's server for what comes after as many
  messages as it has; the server only cuts the number to what there is
  (`internal/phone/server.go:424`), so the first messages of the new request may never be shown there.
  `NothingSkipped` says how many those can be.
- A page that was told its request is over, or that it is not enrolled, still sets Unlocking when its key
  answers (`internal/phone/assets/app.js:351`), and gets its buttons back if its post then fails, or, not
  enrolled or idle, if its key does (`:361`); the app checks its phase first. `PageEnds` excepts these
  (`late`).
- A deny is posted without a look at the answer (`internal/phone/assets/app.js:336`): one that is lost
  leaves the request open, while the page shows Denying until the request ends otherwise.
- The server listens before the session has its request and before the window is known to have
  started (`cmd/request.go:491`); if that fails the page closes without a word of it, and a phone that
  polled sees a request go away.
- The enrolling page says that nothing was added (`internal/phone/assets/app.js:111`) when
  a call was lost, though the PC may have enrolled it; a phone that had not asked how it went
  before Close is not waited for; if the answer to its enrollment is lost, the PC enrolls a phone
  that never got its token. `FailureIsTrue` is checked outside these.

## Assumptions and what is left out

- *Cryptography* is perfect: a value encrypted to a key is read with that key only.
- *Timing.* Durations are choices, not clocks: a deadline or an expiry may come at any step,
  with two exceptions stated in the modules: the agent's copy of a grant does not expire
  before the kernel's, nor the version's key before the value's, because they were given
  the same duration later. The agent's thirty idle seconds outlast the call that
  started it.
- *Pipes.* A write to the window does not block: its pipe holds more than one request's messages.
- *Agent and Grants.* `Grants` changes the agent in one step per call. That the agent's
  processes amount to that is `StoreSpec`, with one difference: an add whose caller gave
  up or was killed may still be handled later (`Takes` after `Fails`), where `Grants` has it
  handled by then or never. Such an add could put an older value over a newer one, so
  `SameStoreNeverOld` and `AgentNeverOld` are about adds that do not outlive their caller.
  `RevokedIsGone` is about grants whose caller was answered, which have nothing left to land.
- *One name.* Grants of different names share no state but the agent's process.
- *Files.* `paths.WriteFile` replaces a file whole. Power loss and the order in which a disk
  makes renames durable are not modelled. A directory that exists refuses a rename onto it.
- *Keys.* One key stands for both tier identities of a vault, which are made and restored
  together. A backup's keys and secrets belong together, which unpacking it checks.
- *Request queue.* A window's inside is `Approval`: here it is approved, denied, failed
  or timed out. A requester that gives up on a unit answers at once (`GiveUp`), where the code first waits
  for the pipe the unit holds; that only adds behaviours. A request is made once; minutes are the clock's unit, so two things in the
  same minute come in any order.
- *Phone page.* HTTP is a call that arrives, is answered, or is lost; a page's origin, cookies
  and tokens are perfect.
- *Import.* A file has one of the bytes of each kind the scanner tells apart. CRLF, a byte order mark, unterminated
  quotes, here documents and `$"..."` are left out.
- *Partly modelled.* The exec wrapper is its reads of the grants (`Grants`) and its redactor
  (`Redact`), not the child's signals and exit code. The audit log is a set of lines per request, each
  written before the answer or not at all (`cmd/audit.go:14-17`, `RequestQueue`); its file and lock are not modelled. The Android app is its
  answers (`Approval`), its enrollment (`Enroll`) and the key it saves for push (`Vault`), not its
  notifications.
- *Not modelled*: formatting, logging, option parsing, what restore does to the audit log, the
  key files written for push, a redactor whose output fails, the window toolkits, process
  inspection, WebAuthn, push encryption and delivery, packaging. These are I/O and
  libraries; what they can do to a request is in the faults of the modules above.

## Plan

Built, in this order, most important first: `RequestOutcome` and `Approval` with its proofs,
`Grants` with its proofs, `AgentStore` and `GrantAgent` with their proofs, `Vault` with its proofs, `Redact` with
its proofs, `RequestQueue` with its proofs, `PhonePage` with its proofs, `Enroll` with its proofs,
`EnvFile` and `Import`.

No proof is left that the prover could reach and that would say more: `RequestQueue` takes a
window's approval for one step, in which `RequestOutcome` has a yes and then the approval, so who
is behind it stays `Approval`'s to show; what remains is liveness and the parser. A grant handled
after its caller gave up, at any later time, is the step `Grants` has yet to take from `AgentStore`.

Next modules, if they earn their place: the audit log's file under its lock when a writer is
killed; the Android app's notifications against messages out of order.
