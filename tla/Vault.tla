-------------------------------- MODULE Vault --------------------------------
(***************************************************************************)
(* The vault on disk (internal/vault, internal/config) and the commands    *)
(* that change it: init, set, rm, phone enroll, phone rm, phone fcm and    *)
(* restore.  A command loads the config when it opens the vault and keeps  *)
(* it; every write or rename is one step, replaces its file whole          *)
(* (paths.WriteFile), and may fail; the command may also die between two.  *)
(* A key stands for both tier identities of one vault, which are made and  *)
(* restored together.  With one process, commands follow one another as a  *)
(* person types them; with more they overlap.                              *)
(***************************************************************************)
EXTENDS Naturals, FiniteSets

CONSTANTS Procs,        \* processes, each running one command at a time
          Commands,     \* the commands they run
          Names, Values, Descs,
          NoDesc,       \* the empty description
          Desktop,      \* the unlock identity in a file, used at the desktop
          Phones,       \* the keys phones enroll
          Backups,      \* backups a restore may be given
          OwnKey,       \* the identities init generates
          Keys,         \* those, and the ones in backups
          MaxCommands, MaxFaults,   \* bounds
          None

Tiers == {"private", "public"}
Unlocks == Phones \cup {Desktop}

NoFile == [key |-> None, val |-> None]
NoConfig == [key |-> None, unlocks |-> {}]
NoPrivateKey == [key |-> None, to |-> {}]
NoDir == [there |-> FALSE, pub |-> None, priv |-> NoPrivateKey,
          value |-> [n \in Names |-> [t \in Tiers |-> NoFile]],
          meta |-> [n \in Names |-> [t \in Tiers |-> None]]]

File == [key : Keys, val : Values] \cup {NoFile}
Config == [key : Keys, unlocks : SUBSET Unlocks] \cup {NoConfig}
Dir == [there : BOOLEAN, pub : Keys \cup {None},
        priv : [key : Keys \cup {None}, to : SUBSET Unlocks],
        value : [Names -> [Tiers -> File]],
        meta : [Names -> [Tiers -> Descs \cup {None}]]]

\* A backup holds one vault: its key, unlocks, values and descriptions.
ASSUME VaultAssumption ==
  /\ NoDesc \in Descs /\ OwnKey \in Keys /\ Desktop \notin Phones
  /\ None \notin Keys \cup Values \cup Descs \cup Names \cup Tiers \cup Unlocks
  /\ \A b \in Backups :
       /\ b.config \in Config \ {NoConfig} /\ Desktop \in b.config.unlocks
       /\ b.data \in Dir /\ b.data.there /\ b.data.pub = b.config.key
       /\ \A n \in Names, t \in Tiers :
            b.data.value[n][t] # NoFile => b.data.value[n][t].key = b.config.key
  /\ MaxCommands \in Nat /\ MaxFaults \in Nat

VARIABLES config,  \* config.json
          data,    \* the data directory: both keys and the secrets
          proc,    \* each process: its command, and the config it loaded
          stage,   \* a restore's staging directory, and what it found
          told,    \* history: what the commands told the person
          count, faults

vars == <<config, data, proc, stage, told, count, faults>>

Idle == [cmd |-> "none", pc |-> "idle", cfg |-> NoConfig, name |-> None,
         tier |-> None, val |-> None, desc |-> None, meta |-> None,
         found |-> {}, phone |-> None]
NoStage == [new |-> NoDir, old |-> NoDir, config |-> NoConfig,
            was |-> NoDir, from |-> NoDir]

Held(d, n) == {d.value[n][t].val : t \in Tiers} \ {None}

First(ts) == IF "private" \in ts THEN "private" ELSE "public"

\* The description a metadata file gives: the empty one where there is no file.
Described(m) == IF m = None THEN NoDesc ELSE m

\* What is so of a vault nobody has changed.  Two copies of a name that differ
\* in their description say no one thing of it.
Fresh(d) ==
  LET in(n) == {t \in Tiers : d.value[n][t] # NoFile} IN
  [may |-> [n \in Names |-> IF Held(d, n) = {} THEN {None} ELSE Held(d, n)],
   desc |-> [n \in Names |-> Described(d.meta[n][First(in(n))])],
   cut |-> {n \in Names : \E t, u \in in(n) :
              Described(d.meta[n][t]) # Described(d.meta[n][u])},
   enrolled |-> {}, removed |-> {}, undone |-> TRUE]

\* Before the first command: no vault, or one that holds each name in a tier.
Init ==
  /\ \/ /\ config = NoConfig /\ data = NoDir
     \/ \E t \in Tiers, v \in Values, d \in Descs :
          /\ config = [key |-> OwnKey, unlocks |-> {Desktop}]
          /\ data = [there |-> TRUE, pub |-> OwnKey,
                     priv |-> [key |-> OwnKey, to |-> {Desktop}],
                     value |-> [n \in Names |-> [NoDir.value[n] EXCEPT
                                  ![t] = [key |-> OwnKey, val |-> v]]],
                     meta |-> [n \in Names |-> [NoDir.meta[n] EXCEPT ![t] = d]]]
  /\ proc = [p \in Procs |-> Idle]
  /\ stage = [p \in Procs |-> NoStage]
  /\ told = Fresh(data)
  /\ count = 0 /\ faults = 0

-----------------------------------------------------------------------------
(* Commands begin and end.                                                 *)

Begin(p, c, start) ==
  /\ proc[p].pc = "idle" /\ c \in Commands /\ count < MaxCommands
  /\ proc' = [proc EXCEPT ![p] = start]
  /\ count' = count + 1
  /\ UNCHANGED <<config, data, told, faults>>

Goes(p, pc) == proc' = [proc EXCEPT ![p].pc = pc]
Ends(p) == proc' = [proc EXCEPT ![p] = Idle]

BugNotLoaded(c, pc) == [Idle EXCEPT !.cmd = c, !.pc = pc]

\* vault.Open
Loaded(c, pc) == [Idle EXCEPT !.cmd = c, !.pc = pc, !.cfg = config]

OpenSet(p) ==
  /\ config # NoConfig
  /\ \E n \in Names, t \in Tiers \cup {None}, v \in Values, d \in Descs \cup {None} :
       Begin(p, "set", [Loaded("set", "look private") EXCEPT
                          !.name = n, !.tier = t, !.val = v, !.desc = d])
  /\ UNCHANGED stage

OpenRemove(p) ==
  /\ config # NoConfig
  /\ \E n \in Names :
       Begin(p, "rm", [Loaded("rm", "look private") EXCEPT !.name = n])
  /\ UNCHANGED stage

OpenPhone(p) ==
  /\ config # NoConfig
  /\ \E u \in Phones :
       \/ /\ u \notin config.unlocks
          /\ Begin(p, "enroll", [Loaded("enroll", "unlock") EXCEPT !.phone = u])
       \/ /\ u \in config.unlocks /\ config.unlocks # {u}
          /\ Begin(p, "phone rm", [Loaded("phone rm", "unlock") EXCEPT !.phone = u])
  /\ UNCHANGED stage

OpenFCM(p) ==
  /\ config # NoConfig
  /\ Begin(p, "fcm", Loaded("fcm", "save"))
  /\ UNCHANGED stage

BugConfigOnly == config # NoConfig

Existing == config # NoConfig \/ data.pub # None \/ data.priv # NoPrivateKey

BeginInit(p) ==
  /\ ~Existing
  /\ Begin(p, "init", [Idle EXCEPT !.cmd = "init", !.pc = "ensure",
                         !.cfg = [key |-> OwnKey, unlocks |-> {Desktop}]])
  /\ UNCHANGED stage

\* The backup, or --identity, says what to wrap the private tier to.  All of
\* it is unpacked, checked and wrapped in the staging directory before the
\* live vault is touched.  --force is given where there is a vault.
BeginRestore(p) ==
  \E b \in Backups : \E to \in {b.config.unlocks, {Desktop}} :
    /\ Begin(p, "restore", [Idle EXCEPT !.cmd = "restore", !.pc = "read",
                              !.cfg = [key |-> b.config.key, unlocks |-> to]])
    /\ stage' = [stage EXCEPT
         ![p].new = [b.data EXCEPT !.priv = [key |-> b.config.key, to |-> to]],
         ![p].from = b.data]

\* A failed or dead command cuts a set short once its value is written.
CutShort(p) ==
  IF proc[p].cmd = "set" /\ proc[p].pc \in {"meta", "drop", "drop meta"}
  THEN told.cut \cup {proc[p].name} ELSE told.cut

Fails(p) ==
  /\ Ends(p)
  /\ told' = [told EXCEPT !.cut = CutShort(p)]
  /\ UNCHANGED <<config, data, stage, count>>

-----------------------------------------------------------------------------
(* Set and Remove.                                                         *)

\* locate, one Lstat after the other.
Look(p, pc, t, next) ==
  /\ proc[p].pc = pc
  /\ proc' = [proc EXCEPT ![p].pc = next,
                ![p].found = IF data.value[proc[p].name][t] = NoFile
                             THEN @ ELSE @ \cup {t}]
  /\ UNCHANGED <<config, data, stage, told, count, faults>>

LookPrivate(p) == Look(p, "look private", "private", "look public")
LookPublic(p) == Look(p, "look public", "public",
                      IF proc[p].cmd = "set" THEN "choose" ELSE "found")

BugMetaOfNewTier(p, t) ==
  data.meta[proc[p].name][IF proc[p].tier = None THEN t ELSE proc[p].tier]

MetaOf(p, t) == data.meta[proc[p].name][t]

\* Which tier, and what of its metadata to keep: the first tier's, private
\* before public.  A name in both tiers needs a tier named.
ChooseTier(p) ==
  LET r == proc[p] IN
  /\ r.pc = "choose"
  /\ r.tier = None => Cardinality(r.found) < 2
  /\ proc' = [proc EXCEPT
       ![p].pc = "mkdir",
       ![p].tier = IF r.tier # None THEN r.tier ELSE First(r.found \cup
                     IF r.found = {} THEN {"private"} ELSE {}),
       ![p].meta = IF r.found = {} THEN NoDesc
                   ELSE Described(MetaOf(p, First(r.found)))]
  /\ UNCHANGED <<config, data, stage, told, count, faults>>

MakeTierDir(p) ==
  /\ proc[p].pc = "mkdir" /\ Goes(p, "value")
  /\ data' = [data EXCEPT !.there = TRUE]
  /\ UNCHANGED <<config, stage, told, count, faults>>

WriteValue(p) ==
  LET r == proc[p] IN
  /\ r.pc = "value" /\ data.there /\ Goes(p, "meta")
  /\ data' = [data EXCEPT !.value[r.name][r.tier] =
                [key |-> r.cfg.key, val |-> r.val]]
  /\ told' = [told EXCEPT !.may[r.name] = @ \cup {r.val},
                !.desc[r.name] = IF r.desc # None THEN r.desc
                                 ELSE IF r.found = {} THEN NoDesc ELSE @]
  /\ UNCHANGED <<config, stage, count, faults>>

BugDropsEveryTier(p, t) == proc[p].found

Others(p, t) == proc[p].found \ {t}

WriteMeta(p) ==
  LET r == proc[p] IN
  /\ r.pc = "meta" /\ data.there
  /\ data' = [data EXCEPT !.meta[r.name][r.tier] =
                IF r.desc # None THEN r.desc ELSE r.meta]
  /\ proc' = [proc EXCEPT ![p].pc = "drop", ![p].found = Others(p, r.tier)]
  /\ UNCHANGED <<config, stage, told, count, faults>>

\* Remove of a name in no tier is an error.
Found(p) ==
  /\ proc[p].pc = "found" /\ proc[p].found # {}
  /\ Goes(p, "drop")
  /\ UNCHANGED <<config, data, stage, told, count, faults>>

DropValue(p) ==
  LET r == proc[p] IN
  /\ r.pc = "drop" /\ r.found # {} /\ Goes(p, "drop meta")
  /\ data' = [data EXCEPT !.value[r.name][First(r.found)] = NoFile]
  /\ told' = IF r.cmd = "rm" THEN [told EXCEPT !.may[r.name] = @ \cup {None}]
             ELSE told
  /\ UNCHANGED <<config, stage, count, faults>>

DropMeta(p) ==
  LET r == proc[p] IN
  /\ r.pc = "drop meta"
  /\ data' = [data EXCEPT !.meta[r.name][First(r.found)] = None]
  /\ proc' = [proc EXCEPT ![p].pc = "drop", ![p].found = @ \ {First(r.found)}]
  /\ UNCHANGED <<config, stage, told, count, faults>>

\* "stored ...", "removed ..."
Stored(p) ==
  LET r == proc[p] IN
  /\ r.pc = "drop" /\ r.found = {} /\ Ends(p)
  /\ told' = [told EXCEPT
       !.may[r.name] = IF r.cmd = "rm" THEN {None} ELSE {r.val},
       !.cut = IF r.cmd = "rm" \/ r.desc # None THEN @ \ {r.name} ELSE @]
  /\ UNCHANGED <<config, data, stage, count, faults>>

-----------------------------------------------------------------------------
(* Init, and SetUnlocks as phone enroll and phone rm call it.              *)

\* UnlockPrivate, at the desktop: the vault's key must be the one the config
\* loaded names.
CanUnlock(p) ==
  data.priv.key = proc[p].cfg.key
    /\ (proc[p].cfg.unlocks \ Phones) \cap data.priv.to # {}

Unlock(p) ==
  /\ proc[p].pc = "unlock" /\ CanUnlock(p) /\ Goes(p, "wrap")
  /\ UNCHANGED <<config, data, stage, told, count, faults>>

BugOnlyThePhone(p) == {proc[p].phone} \cup (proc[p].cfg.unlocks \ {Desktop})

NewUnlocks(p) ==
  CASE proc[p].cmd = "enroll" -> proc[p].cfg.unlocks \cup {proc[p].phone}
    [] proc[p].cmd = "phone rm" -> proc[p].cfg.unlocks \ {proc[p].phone}
    [] OTHER -> proc[p].cfg.unlocks

Wrap(p) ==
  /\ proc[p].pc = "wrap" /\ data.there /\ Goes(p, "save")
  /\ data' = [data EXCEPT !.priv = [key |-> proc[p].cfg.key, to |-> NewUnlocks(p)]]
  /\ told' = [told EXCEPT !.enrolled = @ \ {proc[p].phone},
                          !.removed = @ \ {proc[p].phone}]
  /\ UNCHANGED <<config, stage, count, faults>>

\* Init's directories and keys; the config is the mark of a finished one.
Ensure(p) ==
  /\ proc[p].pc = "ensure" /\ Goes(p, "public key")
  /\ data' = [data EXCEPT !.there = TRUE]
  /\ UNCHANGED <<config, stage, told, count, faults>>

WritePublicKey(p) ==
  /\ proc[p].pc = "public key" /\ data.there /\ Goes(p, "wrap")
  /\ data' = [data EXCEPT !.pub = proc[p].cfg.key]
  /\ UNCHANGED <<config, stage, told, count, faults>>

\* What is so once the config is there.
Told(p, new) ==
  LET r == proc[p] IN
  CASE r.cmd = "phone rm" -> [told EXCEPT !.removed = @ \cup {r.phone}]
    [] r.cmd \in {"init", "restore"} ->
         [Fresh(new) EXCEPT !.undone = told.undone \/ r.cmd = "restore"]
    [] OTHER -> told

Save(p) ==
  LET r == proc[p] IN
  /\ r.pc = "save"
  /\ config' = [key |-> r.cfg.key, unlocks |-> NewUnlocks(p)]
  /\ proc' = [proc EXCEPT ![p] =
       CASE r.cmd = "enroll" -> [r EXCEPT !.pc = "check"]
         [] r.cmd = "restore" -> [r EXCEPT !.pc = "restored"]
         [] OTHER -> Idle]
  /\ told' = Told(p, stage[p].from)
  /\ UNCHANGED <<data, stage, count, faults>>

\* UnlockWith: the vault must now open with the phone's key.
CanOpenWith(p, u) == data.priv.key = proc[p].cfg.key /\ u \in data.priv.to

Enrolled(p) ==
  /\ proc[p].pc = "check" /\ CanOpenWith(p, proc[p].phone)
  /\ Ends(p)
  /\ told' = [told EXCEPT !.enrolled = @ \cup {proc[p].phone}]
  /\ UNCHANGED <<config, data, stage, count, faults>>

-----------------------------------------------------------------------------
(* swap, at the end of Restore.  A directory is renamed only to a path     *)
(* where there is none.                                                    *)

ReadConfig(p) ==
  /\ proc[p].pc = "read" /\ Goes(p, "unset")
  /\ stage' = [stage EXCEPT ![p].config = config, ![p].was = data]
  /\ UNCHANGED <<config, data, told, count, faults>>

BugKeepsConfig(p) ==
  /\ proc[p].pc = "unset" /\ Goes(p, "move out")
  /\ UNCHANGED <<config, data, stage, told, count, faults>>

RemoveConfig(p) ==
  /\ proc[p].pc = "unset" /\ Goes(p, "move out")
  /\ config' = NoConfig
  /\ UNCHANGED <<data, stage, told, count, faults>>

MoveOut(p) ==
  /\ proc[p].pc = "move out" /\ Goes(p, "move in")
  /\ stage' = [stage EXCEPT ![p].old = data]
  /\ data' = NoDir
  /\ UNCHANGED <<config, told, count, faults>>

MoveIn(p) ==
  /\ proc[p].pc = "move in"
  /\ IF data.there   \* another command made it again
     THEN Goes(p, "put aside") /\ UNCHANGED <<data, stage>>
     ELSE /\ Goes(p, "save")
          /\ data' = stage[p].new /\ stage' = [stage EXCEPT ![p].new = NoDir]
  /\ UNCHANGED <<config, told, count, faults>>

\* rollback: three steps, each tried whatever became of the one before.
PutAside(p) ==
  /\ proc[p].pc = "put aside" /\ Goes(p, "put back")
  /\ IF data.there /\ ~stage[p].new.there
     THEN stage' = [stage EXCEPT ![p].new = data] /\ data' = NoDir
     ELSE UNCHANGED <<stage, data>>
  /\ UNCHANGED <<config, told, count, faults>>

PutBack(p) ==
  /\ proc[p].pc = "put back" /\ Goes(p, "put config")
  /\ IF stage[p].old.there /\ ~data.there
     THEN stage' = [stage EXCEPT ![p].old = NoDir] /\ data' = stage[p].old
     ELSE UNCHANGED <<stage, data>>
  /\ UNCHANGED <<config, told, count, faults>>

PutConfig(p) ==
  /\ proc[p].pc = "put config" /\ Goes(p, "failed")
  /\ config' = IF stage[p].config # NoConfig THEN stage[p].config ELSE config
  /\ UNCHANGED <<data, stage, told, count, faults>>

\* The staging directory goes with what is left in it.
EndRestore(p) ==
  /\ proc[p].pc \in {"restored", "failed"} /\ Ends(p)
  /\ stage' = [stage EXCEPT ![p] = NoStage]
  /\ UNCHANGED <<config, data, told, count, faults>>

-----------------------------------------------------------------------------
(* What goes wrong.                                                        *)

\* An error the state of the disk gives: a name in both tiers or in none, a
\* vault that does not unlock, a directory that is not there.
Refused(p) ==
  LET r == proc[p] IN
  /\ \/ r.pc = "choose" /\ r.tier = None /\ Cardinality(r.found) = 2
     \/ r.pc = "found" /\ r.found = {}
     \/ r.pc = "unlock"   \* or the person gives up
     \/ r.pc \in {"value", "meta", "wrap", "public key"} /\ ~data.there
     \/ r.pc = "check" /\ ~CanOpenWith(p, r.phone)
  /\ Fails(p) /\ UNCHANGED faults

Rollback == {"put aside", "put back", "put config"}

BugConfigBackOnly == [pc \in {"unset", "move out", "move in", "save"} \cup Rollback |->
  CASE pc = "unset" -> "failed" [] pc = "put config" -> "failed"
    [] OTHER -> "put config"]

AfterFailed == [pc \in {"unset", "move out", "move in", "save"} \cup Rollback |->
  CASE pc \in {"move in", "save"} -> "put aside"
    [] pc = "put aside" -> "put back"
    [] pc \in {"put back", "move out"} -> "put config"
    [] OTHER -> "failed"]

\* A write or a rename fails: a full disk, a directory without permission.
WriteFails(p) ==
  LET r == proc[p] IN
  /\ faults < MaxFaults /\ faults' = faults + 1
  /\ \/ /\ r.cmd # "restore"
        /\ \/ r.pc \in {"mkdir", "value", "meta", "drop meta", "ensure",
                        "public key", "wrap", "save"}
           \/ r.pc = "drop" /\ r.found # {}
        /\ Fails(p)
     \/ /\ r.cmd = "restore" /\ r.pc \in DOMAIN AfterFailed
        /\ Goes(p, AfterFailed[r.pc])
        /\ told' = [told EXCEPT !.undone = @ /\ r.pc \notin Rollback]
        /\ UNCHANGED <<config, data, stage, count>>

\* The process is killed.  What a restore staged stays on the disk, where
\* nothing looks for it.
Dies(p) ==
  /\ proc[p].pc # "idle" /\ faults < MaxFaults /\ faults' = faults + 1
  /\ Ends(p)
  /\ stage' = [stage EXCEPT ![p] = NoStage]
  /\ told' = [told EXCEPT !.cut = CutShort(p)]
  /\ UNCHANGED <<config, data, count>>

Step(p) ==
  \/ OpenSet(p) \/ OpenRemove(p) \/ OpenPhone(p) \/ OpenFCM(p)
  \/ BeginInit(p) \/ BeginRestore(p)
  \/ LookPrivate(p) \/ LookPublic(p) \/ ChooseTier(p) \/ MakeTierDir(p)
  \/ WriteValue(p) \/ WriteMeta(p) \/ Found(p) \/ DropValue(p)
  \/ DropMeta(p) \/ Stored(p)
  \/ Unlock(p) \/ Wrap(p) \/ Ensure(p) \/ WritePublicKey(p) \/ Save(p)
  \/ Enrolled(p)
  \/ ReadConfig(p) \/ RemoveConfig(p) \/ MoveOut(p) \/ MoveIn(p)
  \/ PutAside(p) \/ PutBack(p) \/ PutConfig(p) \/ EndRestore(p)

Next == \E p \in Procs : Step(p) \/ Refused(p) \/ WriteFails(p) \/ Dies(p)

Spec == Init /\ [][Next]_vars

-----------------------------------------------------------------------------
(* Properties.                                                             *)

TypeOK ==
  /\ config \in Config /\ data \in Dir
  /\ \A p \in Procs :
       /\ proc[p].cfg \in Config /\ proc[p].found \subseteq Tiers
       /\ proc[p].name \in Names \cup {None}
       /\ stage[p].new \in Dir /\ stage[p].old \in Dir
  /\ told.may \in [Names -> SUBSET (Values \cup {None})]
  /\ count \in 0..MaxCommands /\ faults \in 0..MaxFaults

\* A failed rollback says nothing and loses the old vault, or leaves its config
\* over no keys: no promise after it, until a restore puts a whole vault there.
Opens == config # NoConfig /\ told.undone

\* A vault that opens has the keys its config names (vault.go Init, SetUnlocks
\* and swap: each leaves a state that does not open or one that matches).
KeysMatch ==
  Opens => data.there /\ data.pub = config.key /\ data.priv.key = config.key

\* Every secret of a vault that opens is encrypted to that vault's own key:
\* backup.go, "Old and new secrets never mix."
NeverMixed ==
  Opens => \A n \in Names, t \in Tiers :
             data.value[n][t] # NoFile => data.value[n][t].key = config.key

\* A secret that was stored is there, as one of the values it may have after
\* what the commands said, however many of them were cut short: Set drops
\* the old tier's copy last, and Remove and Restore take it on purpose.
SecretKept ==
  Opens => \A n \in Names :
             /\ Held(data, n) \subseteq told.may[n]
             /\ None \notin told.may[n] => Held(data, n) # {}

\* A restore that failed leaves config and data as they were, unless a step
\* of its rollback failed too (swap).
FailedRestoreUndone ==
  \A p \in Procs :
    proc[p].cmd = "restore" /\ proc[p].pc = "failed" /\ told.undone
      => config = stage[p].config /\ data = stage[p].was

\* The desktop's identity always opens the vault; a phone whose enrollment
\* was confirmed opens it and is listed until it is removed, and one whose
\* removal was confirmed does not open it (SetUnlocks).
UnlocksAsTold ==
  Opens => /\ Desktop \in data.priv.to \cap config.unlocks
           /\ told.enrolled \subseteq data.priv.to \cap config.unlocks
           /\ told.removed \cap data.priv.to = {}

\* Moving or replacing a secret keeps its description unless a new one was
\* given (SetOptions.Description), where no set of it was cut short.
DescriptionKept ==
  (Opens /\ \A p \in Procs : proc[p].pc = "idle") =>
    \A n \in Names \ told.cut, t \in Tiers :
      data.value[n][t] # NoFile => Described(data.meta[n][t]) = told.desc[n]
=============================================================================
