----------------------------- MODULE VaultProofs -----------------------------
(***************************************************************************)
(* Proofs about the vault on disk (Vault).  The state is well typed and    *)
(* every command keeps to its own steps however many processes run at      *)
(* once; that the files match, that no secret is lost or mixed and that a  *)
(* failed restore changes nothing is proved where one process runs the     *)
(* commands, one after another, as the module states it: two of them at    *)
(* once do break it, and no lock in the code keeps them apart.             *)
(***************************************************************************)
EXTENDS Vault, TLAPS

OneProcess == \E p \in Procs : \A q \in Procs : q = p

-----------------------------------------------------------------------------
(* The state is well typed, and each command is at one of its steps.       *)

Editing == {"set", "rm"}
Rewrapping == {"enroll", "phone rm", "fcm"}
Cmds == {"none", "init", "restore"} \cup Editing \cup Rewrapping

Writing == {"meta", "drop", "drop meta"}
SetSteps == {"look private", "look public", "choose", "mkdir", "value"} \cup Writing
RemoveSteps == {"look private", "look public", "found", "drop", "drop meta"}
InitSteps == {"ensure", "public key", "wrap", "save"}
SwapSteps == {"read", "unset", "move out", "move in", "save", "restored", "failed"}
               \cup Rollback
Pcs == {"idle", "unlock", "check"}
         \cup SetSteps \cup RemoveSteps \cup InitSteps \cup SwapSteps

ProcType ==
  [cmd : Cmds, pc : Pcs, cfg : Config,
   name : Names \cup {None}, tier : Tiers \cup {None}, val : Values \cup {None},
   desc : Descs \cup {None}, meta : Descs \cup {None}, found : SUBSET Tiers,
   phone : Phones \cup {None}]

StageType == [new : Dir, old : Dir, config : Config, was : Dir, from : Dir]

ToldType ==
  [may : [Names -> SUBSET (Values \cup {None})], cut : SUBSET Names,
   enrolled : SUBSET Phones, removed : SUBSET Phones, undone : BOOLEAN,
   desc : [Names -> Descs]]

Typed ==
  /\ config \in Config /\ data \in Dir
  /\ proc \in [Procs -> ProcType]
  /\ stage \in [Procs -> StageType]
  /\ told \in ToldType
  /\ count \in 0..MaxCommands /\ faults \in 0..MaxFaults

\* Which steps each command takes, and what it knows at them.
ControlOK(r) ==
  /\ r.cmd = "none" => r.pc = "idle"
  /\ r.cmd # "none" => r.cfg # NoConfig
  /\ r.cmd = "set" =>
       /\ r.pc \in SetSteps
       /\ r.name \in Names /\ r.val \in Values
       /\ r.pc \in {"mkdir", "value"} \cup Writing => r.tier \in Tiers /\ r.meta \in Descs
  /\ r.cmd = "rm" => r.pc \in RemoveSteps /\ r.name \in Names /\ r.tier = None
  /\ r.cmd = "enroll" => r.pc \in {"unlock", "wrap", "save", "check"} /\ r.phone \in Phones
  /\ r.cmd = "phone rm" => r.pc \in {"unlock", "wrap", "save"} /\ r.phone \in Phones
  /\ r.cmd = "fcm" => r.pc = "save"
  /\ r.cmd = "init" =>
       r.pc \in InitSteps /\ r.cfg = [key |-> OwnKey, unlocks |-> {Desktop}]
  /\ r.cmd = "restore" => r.pc \in SwapSteps /\ Desktop \in r.cfg.unlocks

ControlInv == Typed /\ \A p \in Procs : ControlOK(proc[p])

-----------------------------------------------------------------------------
(* What the disk is, and what each command knows of it.                    *)

Has(d, n, t) == d.value[n][t] # NoFile

\* A data directory that goes with a config: both keys and every value.
Whole(c, d) ==
  /\ d.there /\ d.pub = c.key /\ d.priv.key = c.key
  /\ \A n \in Names, t \in Tiers : Has(d, n, t) => d.value[n][t].key = c.key

Kept(d, may) ==
  \A n \in Names :
    /\ \A t \in Tiers : Has(d, n, t) => d.value[n][t].val \in may[n]
    /\ None \notin may[n] => \E t \in Tiers : Has(d, n, t)

\* What the copies of a name say of it.
Says(d, n, x) == \A t \in Tiers : Has(d, n, t) => Described(d.meta[n][t]) = x

UnlocksKept(c, d, enrolled, removed) ==
  /\ Desktop \in d.priv.to /\ Desktop \in c.unlocks
  /\ enrolled \subseteq d.priv.to /\ enrolled \subseteq c.unlocks
  /\ removed \cap d.priv.to = {} /\ removed \cap c.unlocks = {}

Promise(c, d, h) ==
  c # NoConfig => /\ Whole(c, d)
                  /\ Kept(d, h.may)
                  /\ UnlocksKept(c, d, h.enrolled, h.removed)

\* Without a public key there is no secret for a later init to find.
NoOrphans(d) == \A n \in Names, t \in Tiers : Has(d, n, t) => d.pub # None

ThereOrNot(d) == d.there \/ d = NoDir

Disk ==
  /\ ThereOrNot(data)
  /\ told.undone => Promise(config, data, told) /\ NoOrphans(data)

\* set and rm: the vault they opened, and the tiers that hold the name.
EditOK(r, c, d) ==
  r.cmd \in Editing =>
    /\ c = r.cfg
    /\ r.found # {} => d.there
    /\ r.pc = "look private" => r.found = {}
    /\ r.pc = "look public" =>
         \A t \in Tiers : t \in r.found <=> t = "private" /\ Has(d, r.name, t)
    /\ r.pc \in {"choose", "found", "mkdir", "value"} =>
         \A t \in Tiers : t \in r.found <=> Has(d, r.name, t)
    /\ r.pc \in {"meta", "drop"} =>
         \A t \in Tiers \ {r.tier} : Has(d, r.name, t) => t \in r.found
    /\ r.pc = "drop meta" =>
         /\ r.found # {}
         /\ \A t \in Tiers \ {r.tier} :
              Has(d, r.name, t) => t \in r.found \ {First(r.found)}
    /\ r.pc \in {"drop", "drop meta"} => r.tier \notin r.found
    /\ r.cmd = "set" /\ r.pc \in Writing =>
         Has(d, r.name, r.tier) /\ d.value[r.name][r.tier].val = r.val

\* phone enroll, phone rm and phone fcm: the vault they opened, and what the
\* private key is wrapped to.
RewrapOK(r, c, d, h) ==
  r.cmd \in Rewrapping =>
    /\ c.key = r.cfg.key
    /\ c.unlocks = IF r.pc = "check" THEN r.cfg.unlocks \cup {r.phone}
                   ELSE r.cfg.unlocks
    /\ h.undone =>
         /\ r.cmd = "enroll" /\ r.pc \in {"save", "check"} =>
              d.priv.to = r.cfg.unlocks \cup {r.phone} /\ r.phone \notin h.removed
         /\ r.cmd = "phone rm" /\ r.pc = "save" =>
              d.priv.to = r.cfg.unlocks \ {r.phone} /\ r.phone \notin h.enrolled

\* init: nothing opens yet, and no secret is there.
InitOK(r, c, d, h) ==
  r.cmd = "init" =>
    /\ c = NoConfig
    /\ h.undone => \A n \in Names, t \in Tiers : ~Has(d, n, t)
    /\ r.pc # "ensure" => d.there
    /\ r.pc \in {"wrap", "save"} => d.pub = OwnKey
    /\ r.pc = "save" => d.priv = [key |-> OwnKey, to |-> {Desktop}]

\* The vault a restore staged.
New(r, s) == [s.from EXCEPT !.priv = [key |-> r.cfg.key, to |-> r.cfg.unlocks]]

\* restore: where the old vault is, where the new one is, and that the old
\* one kept its promises when it was read.
RestoreOK(r, s, c, d, h) ==
  r.cmd = "restore" =>
    /\ s.from.there /\ s.from.pub = r.cfg.key
    /\ \A n \in Names, t \in Tiers :
         Has(s.from, n, t) => s.from.value[n][t].key = r.cfg.key
    /\ r.pc \in {"read", "unset", "move out", "move in"} => s.new = New(r, s)
    /\ r.pc \in {"unset", "move out"} => s.was = d
    /\ r.pc = "unset" => c = s.config
    /\ r.pc = "move in" => d = NoDir
    /\ r.pc \in {"move in", "save", "put aside"} => s.old = s.was
    /\ r.pc \in {"save", "restored"} => d = New(r, s)
    /\ r.pc = "save" => s.new = NoDir
    /\ r.pc = "put aside" => d = NoDir \/ (d = New(r, s) /\ s.new = NoDir)
    /\ r.pc \in {"move out", "move in", "save", "put aside", "put back", "put config"}
         => c = NoConfig
    /\ h.undone =>
         /\ r.pc = "put back" => d = NoDir /\ s.old = s.was
         /\ r.pc \in {"put config", "failed"} => d = s.was
         /\ r.pc = "failed" => c = s.config
         /\ r.pc \notin {"read", "restored"} =>
              /\ Promise(s.config, s.was, h) /\ NoOrphans(s.was)
              /\ ThereOrNot(s.was)

CommandOK(p) ==
  /\ EditOK(proc[p], config, data)
  /\ RewrapOK(proc[p], config, data, told)
  /\ InitOK(proc[p], config, data, told)
  /\ RestoreOK(proc[p], stage[p], config, data, told)
  /\ proc[p].cmd # "restore" => stage[p] = NoStage

VaultInv == ControlInv /\ Disk /\ \A p \in Procs : CommandOK(p)

-----------------------------------------------------------------------------
(* Files, configs and data directories.                                    *)

LEMMA FileFacts ==
  ASSUME NEW f \in File
  PROVE  /\ f # NoFile => f.key \in Keys /\ f.val \in Values
         /\ f = NoFile => f.key = None /\ f.val = None
         /\ f # NoFile <=> f.val # None
BY VaultAssumption DEF File, NoFile

LEMMA FileMade ==
  ASSUME NEW k \in Keys, NEW v \in Values
  PROVE  /\ [key |-> k, val |-> v] \in File
         /\ [key |-> k, val |-> v] # NoFile
BY VaultAssumption DEF File, NoFile

LEMMA ConfigFacts ==
  ASSUME NEW c \in Config
  PROVE  /\ c # NoConfig => c.key \in Keys
         /\ c = NoConfig => c.key = None
         /\ c.unlocks \subseteq Unlocks
         /\ c = [key |-> c.key, unlocks |-> c.unlocks]
BY VaultAssumption DEF Config, NoConfig

LEMMA ConfigMade ==
  ASSUME NEW k \in Keys, NEW us \in SUBSET Unlocks
  PROVE  /\ [key |-> k, unlocks |-> us] \in Config
         /\ [key |-> k, unlocks |-> us] # NoConfig
BY VaultAssumption DEF Config, NoConfig

LEMMA NoneApart ==
  /\ None \notin Keys /\ None \notin Values /\ None \notin Descs
  /\ None \notin Names /\ None \notin Tiers /\ None \notin Unlocks
  /\ OwnKey \in Keys /\ NoDesc \in Descs /\ Desktop \notin Phones
  /\ Phones \subseteq Unlocks /\ Desktop \in Unlocks
BY VaultAssumption DEF Unlocks

LEMMA DirFields ==
  ASSUME NEW d \in Dir
  PROVE  /\ d.there \in BOOLEAN /\ d.pub \in Keys \cup {None}
         /\ d.priv.key \in Keys \cup {None} /\ d.priv.to \in SUBSET Unlocks
         /\ \A n \in Names, t \in Tiers : d.value[n][t] \in File
         /\ \A n \in Names, t \in Tiers : d.meta[n][t] \in Descs \cup {None}
BY DEF Dir

LEMMA NoDirFacts ==
  /\ NoDir \in Dir /\ ~NoDir.there /\ NoDir.pub = None
  /\ NoDir.priv.key = None /\ NoDir.priv.to = {}
  /\ \A n \in Names, t \in Tiers : ~Has(NoDir, n, t) /\ NoDir.value[n][t] = NoFile
<1>1. NoDir.value = [n \in Names |-> [t \in Tiers |-> NoFile]]
  BY DEF NoDir
<1>2. NoDir.value \in [Names -> [Tiers -> File]]
  BY <1>1 DEF File
<1>3. NoDir.meta \in [Names -> [Tiers -> Descs \cup {None}]]
  BY DEF NoDir
<1>4. NoDir \in Dir
  BY <1>2, <1>3 DEF NoDir, NoPrivateKey, Dir
<1> QED
  BY <1>1, <1>4 DEF NoDir, NoPrivateKey, Has

\* What a write of one value changes.
PutValue(d, n, t, f) == [d EXCEPT !.value[n][t] = f]

LEMMA PutValueDoes ==
  ASSUME NEW d \in Dir, NEW n \in Names, NEW t \in Tiers, NEW f \in File
  PROVE  LET e == PutValue(d, n, t, f) IN
         /\ e \in Dir
         /\ e.there = d.there /\ e.pub = d.pub /\ e.priv = d.priv /\ e.meta = d.meta
         /\ e.value[n][t] = f
         /\ \A m \in Names, u \in Tiers :
              m # n \/ u # t => e.value[m][u] = d.value[m][u]
<1> DEFINE e == PutValue(d, n, t, f)
           w == [d.value EXCEPT ![n][t] = f]
<1>1. d.value \in [Names -> [Tiers -> File]]
  BY DEF Dir
<1>2. w \in [Names -> [Tiers -> File]]
  BY <1>1
<1>3. /\ w[n][t] = f
      /\ \A m \in Names, u \in Tiers : m # n \/ u # t => w[m][u] = d.value[m][u]
  BY <1>1
<1>4. e = [d EXCEPT !.value = w]
  BY DEF Dir, PutValue
<1> HIDE DEF w, e
<1>5. /\ e \in Dir /\ e.value = w
      /\ e.there = d.there /\ e.pub = d.pub /\ e.priv = d.priv /\ e.meta = d.meta
  BY <1>2, <1>4 DEF Dir
<1> QED
  BY <1>3, <1>5 DEF e

LEMMA ValueSet ==
  ASSUME NEW d \in Dir, NEW n \in Names, NEW t \in Tiers, NEW f \in File
  PROVE  [d EXCEPT !.value[n][t] = f] \in Dir
BY PutValueDoes DEF PutValue

\* What a write of one metadata file changes.
PutMeta(d, n, t, x) == [d EXCEPT !.meta[n][t] = x]

LEMMA PutMetaDoes ==
  ASSUME NEW d \in Dir, NEW n \in Names, NEW t \in Tiers, NEW x \in Descs \cup {None}
  PROVE  LET e == PutMeta(d, n, t, x) IN
         /\ e \in Dir
         /\ e.there = d.there /\ e.pub = d.pub /\ e.priv = d.priv /\ e.value = d.value
         /\ e.meta[n][t] = x
         /\ \A m \in Names, u \in Tiers :
              m # n \/ u # t => e.meta[m][u] = d.meta[m][u]
<1> DEFINE e == PutMeta(d, n, t, x)
           w == [d.meta EXCEPT ![n][t] = x]
<1>1. d.meta \in [Names -> [Tiers -> Descs \cup {None}]]
  BY DEF Dir
<1>2. w \in [Names -> [Tiers -> Descs \cup {None}]]
  BY <1>1
<1>3. /\ w[n][t] = x
      /\ \A m \in Names, u \in Tiers : m # n \/ u # t => w[m][u] = d.meta[m][u]
  BY <1>1
<1>4. e = [d EXCEPT !.meta = w]
  BY DEF Dir, PutMeta
<1> HIDE DEF w, e
<1>5. /\ e \in Dir /\ e.meta = w
      /\ e.there = d.there /\ e.pub = d.pub /\ e.priv = d.priv /\ e.value = d.value
  BY <1>2, <1>4 DEF Dir
<1> QED
  BY <1>3, <1>5 DEF e

LEMMA MetaSet ==
  ASSUME NEW d \in Dir, NEW n \in Names, NEW t \in Tiers, NEW x \in Descs \cup {None}
  PROVE  [d EXCEPT !.meta[n][t] = x] \in Dir
BY PutMetaDoes DEF PutMeta

LEMMA ThereSet ==
  ASSUME NEW d \in Dir, NEW e, e = [d EXCEPT !.there = TRUE]
  PROVE  /\ e \in Dir /\ e.there
         /\ e.pub = d.pub /\ e.priv = d.priv /\ e.value = d.value /\ e.meta = d.meta
BY DEF Dir

LEMMA PubSet ==
  ASSUME NEW d \in Dir, NEW k \in Keys, NEW e, e = [d EXCEPT !.pub = k]
  PROVE  /\ e \in Dir /\ e.pub = k
         /\ e.there = d.there /\ e.priv = d.priv /\ e.value = d.value /\ e.meta = d.meta
BY DEF Dir

LEMMA PrivSet ==
  ASSUME NEW d \in Dir, NEW k \in Keys, NEW us \in SUBSET Unlocks,
         NEW e, e = [d EXCEPT !.priv = [key |-> k, to |-> us]]
  PROVE  /\ e \in Dir /\ e.priv = [key |-> k, to |-> us]
         /\ e.priv.key = k /\ e.priv.to = us
         /\ e.there = d.there /\ e.pub = d.pub /\ e.value = d.value /\ e.meta = d.meta
<1>1. [key |-> k, to |-> us] \in [key : Keys \cup {None}, to : SUBSET Unlocks]
  OBVIOUS
<1> QED
  BY <1>1 DEF Dir

\* A backup is a vault of its own, and what a restore stages of it opens with
\* the identities it was wrapped to.
LEMMA BackupFacts ==
  ASSUME NEW b \in Backups
  PROVE  /\ b.config \in Config /\ b.config # NoConfig /\ b.config.key \in Keys
         /\ Desktop \in b.config.unlocks /\ b.config.unlocks \subseteq Unlocks
         /\ b.data \in Dir /\ b.data.there /\ b.data.pub = b.config.key
         /\ \A n \in Names, t \in Tiers :
              Has(b.data, n, t) => b.data.value[n][t].key = b.config.key
<1>1. /\ b.config \in Config /\ b.config # NoConfig
      /\ Desktop \in b.config.unlocks
      /\ b.data \in Dir /\ b.data.there /\ b.data.pub = b.config.key
      /\ \A n \in Names, t \in Tiers :
           b.data.value[n][t] # NoFile => b.data.value[n][t].key = b.config.key
  BY VaultAssumption
<1> QED
  BY <1>1, ConfigFacts DEF Has

LEMMA IdleTyped ==
  /\ Idle \in ProcType /\ Idle.cmd = "none" /\ Idle.pc = "idle"
  /\ Idle.found = {} /\ Idle.tier = None /\ ControlOK(Idle)
<1>1. /\ Idle.cmd = "none" /\ Idle.pc = "idle" /\ Idle.found = {} /\ Idle.tier = None
  BY DEF Idle
<1>2. Idle \in ProcType
  BY DEF Idle, ProcType, Config, Cmds, Pcs, NoConfig
<1> QED
  BY <1>1, <1>2 DEF ControlOK

LEMMA StageTyped == NoStage \in StageType
BY NoDirFacts DEF NoStage, StageType, Config

-----------------------------------------------------------------------------
(* A command goes on, or is over.                                          *)

OthersWait(p) == \A q \in Procs \ {p} : proc'[q] = proc[q]

\* The command is the same one, of the same arguments.
SameJob(p) ==
  /\ proc'[p].cmd = proc[p].cmd /\ proc'[p].cfg = proc[p].cfg
  /\ proc'[p].name = proc[p].name /\ proc'[p].val = proc[p].val
  /\ proc'[p].desc = proc[p].desc /\ proc'[p].phone = proc[p].phone

SameFound(p) ==
  /\ proc'[p].tier = proc[p].tier /\ proc'[p].meta = proc[p].meta
  /\ proc'[p].found = proc[p].found

LEMMA GoesTo ==
  ASSUME Typed, NEW p \in Procs, NEW pc \in Pcs, Goes(p, pc)
  PROVE  /\ proc' \in [Procs -> ProcType] /\ OthersWait(p)
         /\ proc'[p].pc = pc /\ SameJob(p) /\ SameFound(p)
<1>1. proc[p] \in ProcType
  BY DEF Typed
<1>2. /\ proc' = [proc EXCEPT ![p] = [proc[p] EXCEPT !.pc = pc]]
      /\ proc'[p] = [proc[p] EXCEPT !.pc = pc]
  BY DEF Goes, Typed
<1>3. [proc[p] EXCEPT !.pc = pc] \in ProcType
  BY <1>1 DEF ProcType
<1>4. proc' \in [Procs -> ProcType] /\ OthersWait(p)
  BY <1>2, <1>3 DEF Typed, OthersWait
<1>5. proc'[p].pc = pc /\ SameJob(p) /\ SameFound(p)
  BY <1>1, <1>2 DEF ProcType, SameJob, SameFound
<1> QED
  BY <1>4, <1>5

LEMMA EndsThere ==
  ASSUME Typed, NEW p \in Procs, Ends(p)
  PROVE  /\ proc' \in [Procs -> ProcType] /\ OthersWait(p)
         /\ proc'[p] = Idle
BY IdleTyped DEF Typed, Ends, OthersWait

LEMMA BeginsThere ==
  ASSUME Typed, NEW p \in Procs, NEW r \in ProcType, proc' = [proc EXCEPT ![p] = r]
  PROVE  /\ proc' \in [Procs -> ProcType] /\ OthersWait(p)
         /\ proc'[p] = r
BY DEF Typed, OthersWait

LEMMA ControlStep ==
  ASSUME ControlInv, NEW p \in Procs, OthersWait(p), ControlOK(proc'[p])
  PROVE  \A q \in Procs : ControlOK(proc'[q])
<1>1. \A q \in Procs : ControlOK(proc[q])
  BY DEF ControlInv
<1>2. \A q \in Procs \ {p} : proc'[q] = proc[q]
  BY DEF OthersWait
<1> QED
  BY <1>1, <1>2

LEMMA ControlMade ==
  ASSUME ControlInv, NEW p \in Procs, OthersWait(p), ControlOK(proc'[p]), Typed'
  PROVE  ControlInv'
<1>1. \A q \in Procs : ControlOK(proc'[q])
  BY ControlStep
<1> QED
  BY <1>1 DEF ControlInv

LEMMA JobFacts ==
  ASSUME ControlInv, NEW p \in Procs
  PROVE  /\ Typed /\ proc[p] \in ProcType /\ ControlOK(proc[p])
         /\ stage[p] \in StageType
         /\ data \in Dir /\ config \in Config /\ told \in ToldType
         /\ proc[p].cfg \in Config
         /\ proc[p].cmd # "none" => proc[p].cfg.key \in Keys
         /\ proc[p].cfg.unlocks \subseteq Unlocks
<1>1. /\ Typed /\ proc[p] \in ProcType /\ ControlOK(proc[p])
      /\ stage[p] \in StageType
      /\ data \in Dir /\ config \in Config /\ told \in ToldType
  BY DEF ControlInv, Typed
<1>2. proc[p].cfg \in Config
  BY <1>1 DEF ProcType
<1>3. proc[p].cmd # "none" => proc[p].cfg # NoConfig
  BY <1>1 DEF ControlOK
<1> QED
  BY <1>1, <1>2, <1>3, ConfigFacts

-----------------------------------------------------------------------------
(* What the commands told the person.                                      *)

LEMMA ToldCut ==
  ASSUME NEW h \in ToldType, NEW cut \in SUBSET Names, NEW e,
         e = [h EXCEPT !.cut = cut]
  PROVE  /\ e \in ToldType /\ e.cut = cut
         /\ e.may = h.may /\ e.enrolled = h.enrolled /\ e.removed = h.removed
         /\ e.undone = h.undone /\ e.desc = h.desc
BY DEF ToldType

\* A map with one entry changed.
LEMMA MaySet ==
  ASSUME NEW h \in ToldType, NEW n \in Names, NEW S \in SUBSET (Values \cup {None})
  PROVE  LET w == [h.may EXCEPT ![n] = S] IN
         /\ w \in [Names -> SUBSET (Values \cup {None})]
         /\ w[n] = S /\ \A m \in Names \ {n} : w[m] = h.may[m]
BY DEF ToldType

LEMMA DescSet ==
  ASSUME NEW h \in ToldType, NEW n \in Names, NEW x \in Descs
  PROVE  LET v == [h.desc EXCEPT ![n] = x] IN
         /\ v \in [Names -> Descs]
         /\ v[n] = x /\ \A m \in Names \ {n} : v[m] = h.desc[m]
BY DEF ToldType

\* [told EXCEPT !.may[n] = ...] says as much.
LEMMA ToldMay ==
  ASSUME NEW h \in ToldType, NEW n \in Names,
         NEW S \in SUBSET (Values \cup {None}),
         NEW e, e = [h EXCEPT !.may[n] = S]
  PROVE  /\ e \in ToldType
         /\ e.may[n] = S /\ \A m \in Names \ {n} : e.may[m] = h.may[m]
         /\ e.desc = h.desc /\ e.cut = h.cut
         /\ e.enrolled = h.enrolled /\ e.removed = h.removed /\ e.undone = h.undone
<1> DEFINE w == [h.may EXCEPT ![n] = S]
<1>1. h.may \in [Names -> SUBSET (Values \cup {None})]
  BY DEF ToldType
<1>2. /\ w \in [Names -> SUBSET (Values \cup {None})]
      /\ w[n] = S /\ \A m \in Names \ {n} : w[m] = h.may[m]
  BY <1>1
<1>3. e = [h EXCEPT !.may = w]
  BY DEF ToldType
<1> HIDE DEF w
<1>4. /\ e \in ToldType /\ e.may = w
      /\ e.desc = h.desc /\ e.cut = h.cut
      /\ e.enrolled = h.enrolled /\ e.removed = h.removed /\ e.undone = h.undone
  BY <1>2, <1>3 DEF ToldType
<1> QED
  BY <1>2, <1>4

\* What is told of a vault says what it holds.
ToldOf(d, h) ==
  /\ Kept(d, h.may)
  /\ \A n \in Names \ h.cut : Says(d, n, h.desc[n])

LEMMA DescribedTyped ==
  ASSUME NEW d \in Dir, NEW n \in Names, NEW t \in Tiers
  PROVE  Described(d.meta[n][t]) \in Descs
BY DirFields, NoneApart DEF Described

LEMMA FreshFacts ==
  ASSUME NEW d \in Dir
  PROVE  LET h == Fresh(d) IN
         /\ h \in ToldType
         /\ h.enrolled = {} /\ h.removed = {} /\ h.undone = TRUE
         /\ ToldOf(d, h)
<1> DEFINE h == Fresh(d)
           in(n) == {t \in Tiers : d.value[n][t] # NoFile}
           may == [n \in Names |-> IF Held(d, n) = {} THEN {None} ELSE Held(d, n)]
           desc == [n \in Names |-> Described(d.meta[n][First(in(n))])]
           cut == {n \in Names : \E t, u \in in(n) :
                     Described(d.meta[n][t]) # Described(d.meta[n][u])}
<1>1. h = [may |-> may, desc |-> desc, cut |-> cut,
           enrolled |-> {}, removed |-> {}, undone |-> TRUE]
  BY DEF Fresh
<1>2. \A n \in Names : Held(d, n) \in SUBSET Values
  BY DirFields, FileFacts DEF Held
<1>3. may \in [Names -> SUBSET (Values \cup {None})]
  BY <1>2
<1>4. desc \in [Names -> Descs]
  BY DescribedTyped DEF First, Tiers
<1>5. cut \in SUBSET Names
  OBVIOUS
<1>6. Kept(d, may)
  <2> SUFFICES ASSUME NEW n \in Names
               PROVE  /\ \A t \in Tiers : Has(d, n, t) => d.value[n][t].val \in may[n]
                      /\ None \notin may[n] => \E t \in Tiers : Has(d, n, t)
    BY DEF Kept
  <2>1. may[n] = IF Held(d, n) = {} THEN {None} ELSE Held(d, n)
    OBVIOUS
  <2> HIDE DEF may
  <2>2. \A t \in Tiers : Has(d, n, t) => d.value[n][t].val \in Held(d, n)
    BY DirFields, FileFacts DEF Has, Held
  <2>3. ASSUME Held(d, n) # {} PROVE \E t \in Tiers : Has(d, n, t)
    BY <2>3, DirFields, FileFacts DEF Has, Held
  <2> QED
    BY <2>1, <2>2, <2>3
<1>7. \A n \in Names \ cut : Says(d, n, desc[n])
  <2> SUFFICES ASSUME NEW n \in Names, n \notin cut, NEW t \in Tiers, Has(d, n, t)
               PROVE  Described(d.meta[n][t]) = desc[n]
    BY DEF Says
  <2>1. t \in in(n)
    BY DEF Has
  <2>2. First(in(n)) \in in(n)
    BY <2>1 DEF First, Tiers
  <2>3. desc[n] = Described(d.meta[n][First(in(n))])
    OBVIOUS
  <2> QED
    BY <2>1, <2>2, <2>3
<1> HIDE DEF may, desc, cut, h
<1>8. /\ h.may = may /\ h.desc = desc /\ h.cut = cut
      /\ h.enrolled = {} /\ h.removed = {} /\ h.undone = TRUE
  BY <1>1
<1>9. h \in ToldType
  BY <1>1, <1>3, <1>4, <1>5 DEF ToldType
<1> QED
  BY <1>6, <1>7, <1>8, <1>9 DEF h, ToldOf

\* A command that is cut short, or refused, tells nothing else.
LEMMA CutShortTyped ==
  ASSUME ControlInv, NEW p \in Procs
  PROVE  CutShort(p) \in SUBSET Names
<1>1. told.cut \in SUBSET Names
  BY JobFacts DEF ToldType
<1>2. proc[p].cmd = "set" => proc[p].name \in Names
  BY JobFacts DEF ControlOK
<1> QED
  BY <1>1, <1>2 DEF CutShort

\* Failing changes neither the disk nor what was told of it.
SamePromise ==
  /\ told'.may = told.may /\ told'.undone = told.undone
  /\ told'.enrolled = told.enrolled /\ told'.removed = told.removed
  /\ told'.desc = told.desc

LEMMA FailsThere ==
  ASSUME ControlInv, NEW p \in Procs, Fails(p), faults' \in 0..MaxFaults
  PROVE  /\ ControlInv' /\ proc'[p] = Idle
         /\ config' = config /\ data' = data /\ stage' = stage /\ SamePromise
         /\ told'.cut = CutShort(p)
<1>1. Typed /\ told \in ToldType
  BY JobFacts
<1>2. /\ proc' \in [Procs -> ProcType] /\ OthersWait(p) /\ proc'[p] = Idle
  BY <1>1, EndsThere DEF Fails
<1>3. told' = [told EXCEPT !.cut = CutShort(p)]
  BY DEF Fails
<1>4. told' \in ToldType /\ SamePromise /\ told'.cut = CutShort(p)
  <2>1. CutShort(p) \in SUBSET Names
    BY CutShortTyped
  <2>2. /\ told' \in ToldType
        /\ told'.may = told.may /\ told'.enrolled = told.enrolled
        /\ told'.removed = told.removed /\ told'.undone = told.undone
        /\ told'.desc = told.desc /\ told'.cut = CutShort(p)
    BY <1>1, <1>3, <2>1, ToldCut
  <2> QED
    BY <2>2 DEF SamePromise
<1>5. config' = config /\ data' = data /\ stage' = stage /\ count' = count
  BY DEF Fails
<1>6. Typed'
  BY <1>1, <1>2, <1>4, <1>5 DEF Typed
<1>7. ControlOK(proc'[p])
  BY <1>2, IdleTyped
<1>8. ControlInv'
  BY <1>2, <1>6, <1>7, ControlMade
<1> QED
  BY <1>2, <1>4, <1>5, <1>8

-----------------------------------------------------------------------------
(* What each action does: where the command stands after it, and what      *)
(* becomes of the disk and of what was told.                               *)

SameDisk == config' = config /\ data' = data /\ told' = told

LEMMA BeginDoes ==
  ASSUME ControlInv, NEW p \in Procs, NEW c, NEW r \in ProcType,
         Begin(p, c, r), ControlOK(r), stage' \in [Procs -> StageType]
  PROVE  /\ ControlInv' /\ SameDisk /\ proc'[p] = r
         /\ proc[p].cmd = "none"
<1>1. Typed /\ ControlOK(proc[p])
  BY JobFacts
<1>2. /\ proc' = [proc EXCEPT ![p] = r] /\ proc[p].pc = "idle"
      /\ count < MaxCommands /\ count' = count + 1 /\ faults' = faults /\ SameDisk
  BY DEF Begin, SameDisk
<1>3. /\ proc' \in [Procs -> ProcType] /\ OthersWait(p) /\ proc'[p] = r
  BY <1>1, <1>2, BeginsThere
<1>4. count' \in 0..MaxCommands
  BY <1>1, <1>2, VaultAssumption DEF Typed
<1>5. Typed'
  BY <1>1, <1>2, <1>3, <1>4 DEF Typed, SameDisk
<1>6. ControlInv'
  BY <1>3, <1>5, ControlMade
<1>7. proc[p].cmd = "none"
  BY <1>1, <1>2 DEF ControlOK, SetSteps, RemoveSteps, InitSteps, SwapSteps, Writing,
     Rollback, ProcType, Typed, Cmds, Editing, Rewrapping
<1> QED
  BY <1>2, <1>3, <1>6, <1>7

LEMMA OpenSetDoes ==
  ASSUME ControlInv, NEW p \in Procs, OpenSet(p)
  PROVE  /\ ControlInv' /\ SameDisk /\ stage' = stage /\ config # NoConfig
         /\ proc[p].cmd = "none"
         /\ proc'[p].cmd = "set" /\ proc'[p].pc = "look private"
         /\ proc'[p].cfg = config /\ proc'[p].found = {}
<1>1. PICK n \in Names, t \in Tiers \cup {None}, v \in Values, d \in Descs \cup {None} :
        Begin(p, "set", [Loaded("set", "look private") EXCEPT
                           !.name = n, !.tier = t, !.val = v, !.desc = d])
  BY DEF OpenSet
<1>2. config # NoConfig /\ stage' = stage
  BY DEF OpenSet
<1> DEFINE l == Loaded("set", "look private")
<1> HIDE DEF l
<1>3. /\ l \in ProcType /\ l.cmd = "set" /\ l.pc = "look private" /\ l.cfg = config
      /\ l.found = {}
  <2>1. config \in Config
    BY JobFacts
  <2>2. "set" \in Cmds /\ "look private" \in Pcs
    BY DEF Cmds, Pcs, SetSteps, Editing
  <2>3. l = Loaded("set", "look private")
    BY DEF l
  <2> QED
    BY <2>1, <2>2, <2>3, IdleTyped DEF Loaded, Idle, ProcType
<1> DEFINE r == [l EXCEPT !.name = n, !.tier = t, !.val = v, !.desc = d]
<1>4. /\ r \in ProcType /\ r.cmd = "set" /\ r.pc = "look private" /\ r.cfg = config
      /\ r.found = {} /\ r.name = n /\ r.val = v
  BY <1>3 DEF ProcType
<1>5. Begin(p, "set", r)
  BY <1>1 DEF l
<1> HIDE DEF r
<1>6. ControlOK(r)
  BY <1>2, <1>4 DEF ControlOK, SetSteps, Writing
<1>7. stage' \in [Procs -> StageType]
  BY <1>2 DEF ControlInv, Typed
<1> QED
  BY <1>2, <1>4, <1>5, <1>6, <1>7, BeginDoes

LEMMA OpenRemoveDoes ==
  ASSUME ControlInv, NEW p \in Procs, OpenRemove(p)
  PROVE  /\ ControlInv' /\ SameDisk /\ stage' = stage /\ config # NoConfig
         /\ proc[p].cmd = "none"
         /\ proc'[p].cmd = "rm" /\ proc'[p].pc = "look private"
         /\ proc'[p].cfg = config /\ proc'[p].found = {}
<1>1. PICK n \in Names :
        Begin(p, "rm", [Loaded("rm", "look private") EXCEPT !.name = n])
  BY DEF OpenRemove
<1>2. config # NoConfig /\ stage' = stage
  BY DEF OpenRemove
<1> DEFINE l == Loaded("rm", "look private")
<1> HIDE DEF l
<1>3. /\ l \in ProcType /\ l.cmd = "rm" /\ l.pc = "look private" /\ l.cfg = config
      /\ l.found = {} /\ l.tier = None
  <2>1. config \in Config
    BY JobFacts
  <2>2. "rm" \in Cmds /\ "look private" \in Pcs
    BY DEF Cmds, Pcs, SetSteps, Editing
  <2>3. l = Loaded("rm", "look private")
    BY DEF l
  <2> QED
    BY <2>1, <2>2, <2>3, IdleTyped DEF Loaded, Idle, ProcType
<1> DEFINE r == [l EXCEPT !.name = n]
<1>4. /\ r \in ProcType /\ r.cmd = "rm" /\ r.pc = "look private" /\ r.cfg = config
      /\ r.found = {} /\ r.name = n /\ r.tier = None
  BY <1>3 DEF ProcType
<1>5. Begin(p, "rm", r)
  BY <1>1 DEF l
<1> HIDE DEF r
<1>6. ControlOK(r)
  BY <1>2, <1>4 DEF ControlOK, RemoveSteps
<1>7. stage' \in [Procs -> StageType]
  BY <1>2 DEF ControlInv, Typed
<1> QED
  BY <1>2, <1>4, <1>5, <1>6, <1>7, BeginDoes

LEMMA OpenPhoneDoes ==
  ASSUME ControlInv, NEW p \in Procs, OpenPhone(p)
  PROVE  /\ ControlInv' /\ SameDisk /\ stage' = stage /\ config # NoConfig
         /\ proc[p].cmd = "none"
         /\ proc'[p].cmd \in {"enroll", "phone rm"} /\ proc'[p].pc = "unlock"
         /\ proc'[p].cfg = config
<1>1. PICK u \in Phones :
        \E c \in {"enroll", "phone rm"} :
          Begin(p, c, [Loaded(c, "unlock") EXCEPT !.phone = u])
  BY DEF OpenPhone
<1>1b. PICK c \in {"enroll", "phone rm"} :
          Begin(p, c, [Loaded(c, "unlock") EXCEPT !.phone = u])
  BY <1>1
<1>2. config # NoConfig /\ stage' = stage
  BY DEF OpenPhone
<1> DEFINE l == Loaded(c, "unlock")
<1> HIDE DEF l
<1>3. /\ l \in ProcType /\ l.cmd = c /\ l.pc = "unlock" /\ l.cfg = config
  <2>1. config \in Config
    BY JobFacts
  <2>2. c \in Cmds /\ "unlock" \in Pcs
    BY DEF Cmds, Pcs, SetSteps, Rewrapping
  <2>3. l = Loaded(c, "unlock")
    BY DEF l
  <2> QED
    BY <2>1, <2>2, <2>3, IdleTyped DEF Loaded, Idle, ProcType
<1> DEFINE r == [l EXCEPT !.phone = u]
<1>4. /\ r \in ProcType /\ r.cmd = c /\ r.pc = "unlock" /\ r.cfg = config
      /\ r.phone = u
  BY <1>3 DEF ProcType
<1>5. Begin(p, c, r)
  BY <1>1b DEF l
<1> HIDE DEF r
<1>6. ControlOK(r)
  BY <1>2, <1>4 DEF ControlOK
<1>7. stage' \in [Procs -> StageType]
  BY <1>2 DEF ControlInv, Typed
<1> QED
  BY <1>2, <1>4, <1>5, <1>6, <1>7, BeginDoes

LEMMA OpenFCMDoes ==
  ASSUME ControlInv, NEW p \in Procs, OpenFCM(p)
  PROVE  /\ ControlInv' /\ SameDisk /\ stage' = stage /\ config # NoConfig
         /\ proc[p].cmd = "none"
         /\ proc'[p].cmd = "fcm" /\ proc'[p].pc = "save"
         /\ proc'[p].cfg = config
<1>1. /\ config # NoConfig /\ stage' = stage
      /\ Begin(p, "fcm", Loaded("fcm", "save"))
  BY DEF OpenFCM
<1> DEFINE r == Loaded("fcm", "save")
<1>2. /\ r \in ProcType /\ r.cmd = "fcm" /\ r.pc = "save" /\ r.cfg = config
  <2>1. config \in Config
    BY JobFacts
  <2>2. "fcm" \in Cmds /\ "save" \in Pcs
    BY DEF Cmds, Pcs, InitSteps, Rewrapping
  <2> QED
    BY <2>1, <2>2, IdleTyped DEF Loaded, Idle, ProcType
<1>3. Begin(p, "fcm", r)
  BY <1>1
<1> HIDE DEF r
<1>4. ControlOK(r)
  BY <1>1, <1>2 DEF ControlOK
<1>5. stage' \in [Procs -> StageType]
  BY <1>1 DEF ControlInv, Typed
<1> QED
  BY <1>1, <1>2, <1>3, <1>4, <1>5, BeginDoes

LEMMA BeginInitDoes ==
  ASSUME ControlInv, NEW p \in Procs, BeginInit(p)
  PROVE  /\ ControlInv' /\ SameDisk /\ stage' = stage /\ ~Existing
         /\ proc[p].cmd = "none"
         /\ proc'[p].cmd = "init" /\ proc'[p].pc = "ensure"
<1> DEFINE c == [key |-> OwnKey, unlocks |-> {Desktop}]
           r == [Idle EXCEPT !.cmd = "init", !.pc = "ensure", !.cfg = c]
<1>1. c \in Config /\ c # NoConfig
  BY ConfigMade, NoneApart
<1>2. c = [key |-> OwnKey, unlocks |-> {Desktop}]
  OBVIOUS
<1> HIDE DEF c
<1>3. /\ r \in ProcType /\ r.cmd = "init" /\ r.pc = "ensure" /\ r.cfg = c
  <2>1. "init" \in Cmds /\ "ensure" \in Pcs
    BY DEF Cmds, Pcs, InitSteps
  <2> QED
    BY <1>1, <2>1, IdleTyped DEF ProcType
<1>4. Begin(p, "init", r) /\ stage' = stage /\ ~Existing
  BY <1>2 DEF BeginInit
<1> HIDE DEF r
<1>5. ControlOK(r)
  BY <1>1, <1>2, <1>3 DEF ControlOK, InitSteps
<1>6. stage' \in [Procs -> StageType]
  BY <1>4 DEF ControlInv, Typed
<1> QED
  BY <1>3, <1>4, <1>5, <1>6, BeginDoes

LEMMA BeginRestoreDoes ==
  ASSUME ControlInv, NEW p \in Procs, BeginRestore(p)
  PROVE  /\ ControlInv' /\ SameDisk
         /\ proc[p].cmd = "none"
         /\ proc'[p].cmd = "restore" /\ proc'[p].pc = "read"
         /\ stage'[p].from.there /\ stage'[p].from.pub = proc'[p].cfg.key
         /\ \A n \in Names, t \in Tiers : Has(stage'[p].from, n, t) =>
              stage'[p].from.value[n][t].key = proc'[p].cfg.key
         /\ stage'[p].new = New(proc'[p], stage'[p])
<1>1. PICK b \in Backups : \E to \in {b.config.unlocks, {Desktop}} :
        /\ Begin(p, "restore", [Idle EXCEPT !.cmd = "restore", !.pc = "read",
                                  !.cfg = [key |-> b.config.key, unlocks |-> to]])
        /\ stage' = [stage EXCEPT
             ![p].new = [b.data EXCEPT !.priv = [key |-> b.config.key, to |-> to]],
             ![p].from = b.data]
  BY DEF BeginRestore
<1>2. PICK to \in {b.config.unlocks, {Desktop}} :
        /\ Begin(p, "restore", [Idle EXCEPT !.cmd = "restore", !.pc = "read",
                                  !.cfg = [key |-> b.config.key, unlocks |-> to]])
        /\ stage' = [stage EXCEPT
             ![p].new = [b.data EXCEPT !.priv = [key |-> b.config.key, to |-> to]],
             ![p].from = b.data]
  BY <1>1
<1>3. /\ b.config.key \in Keys /\ to \in SUBSET Unlocks /\ Desktop \in to
      /\ b.data \in Dir /\ b.data.there /\ b.data.pub = b.config.key
      /\ \A n \in Names, t \in Tiers :
           Has(b.data, n, t) => b.data.value[n][t].key = b.config.key
  BY <1>1, BackupFacts, NoneApart
<1> DEFINE c == [key |-> b.config.key, unlocks |-> to]
           r == [Idle EXCEPT !.cmd = "restore", !.pc = "read", !.cfg = c]
           k == b.config.key
           d == [b.data EXCEPT !.priv = [key |-> b.config.key, to |-> to]]
<1>4. c \in Config /\ c # NoConfig /\ c.key = k /\ c.unlocks = to
  BY <1>3, ConfigMade
<1>5. Begin(p, "restore", r)
  BY <1>2
<1>6. d \in Dir
  BY <1>3, PrivSet
<1>7. stage' = [stage EXCEPT ![p].new = d, ![p].from = b.data]
  BY <1>2
<1>8. d = [b.data EXCEPT !.priv = [key |-> c.key, to |-> c.unlocks]]
  OBVIOUS
<1> HIDE DEF c, d
<1>9. /\ r \in ProcType /\ r.cmd = "restore" /\ r.pc = "read" /\ r.cfg = c
  <2>1. "restore" \in Cmds /\ "read" \in Pcs
    BY DEF Cmds, Pcs, SwapSteps
  <2> QED
    BY <1>4, <2>1, IdleTyped DEF ProcType
<1> HIDE DEF r
<1>10. ControlOK(r)
  BY <1>3, <1>4, <1>9 DEF ControlOK, SwapSteps
<1>11. stage[p] \in StageType
  BY JobFacts
<1>12. stage'[p] = [stage[p] EXCEPT !.new = d, !.from = b.data]
  BY <1>7 DEF ControlInv, Typed
<1>13. [stage[p] EXCEPT !.new = d, !.from = b.data] \in StageType
  BY <1>3, <1>6, <1>11 DEF StageType
<1>14. stage' = [stage EXCEPT ![p] = [stage[p] EXCEPT !.new = d, !.from = b.data]]
  BY <1>7
<1>15. stage' \in [Procs -> StageType]
  BY <1>13, <1>14 DEF ControlInv, Typed
<1>16. stage'[p].new = d /\ stage'[p].from = b.data
  BY <1>11, <1>12 DEF StageType
<1>17. /\ ControlInv' /\ SameDisk /\ proc'[p] = r /\ proc[p].cmd = "none"
  BY <1>5, <1>9, <1>10, <1>15, BeginDoes
<1>18. stage'[p].new = New(proc'[p], stage'[p])
  BY <1>8, <1>9, <1>16, <1>17 DEF New
<1> QED
  BY <1>3, <1>4, <1>9, <1>16, <1>17, <1>18

SameLedger == count' = count /\ faults' = faults

\* The typed part of a step that goes on to another pc, or that also changes
\* the tiers a set or rm knows of.
LEMMA StepMade ==
  ASSUME ControlInv, NEW p \in Procs,
         proc' \in [Procs -> ProcType], OthersWait(p), ControlOK(proc'[p]),
         config' \in Config, data' \in Dir, told' \in ToldType,
         stage' \in [Procs -> StageType], SameLedger
  PROVE  ControlInv'
<1>1. Typed'
  BY DEF ControlInv, Typed, SameLedger
<1> QED
  BY <1>1, ControlMade

LEMMA LookDoes ==
  ASSUME ControlInv, NEW p \in Procs, NEW pc \in {"look private", "look public"},
         NEW t \in Tiers, NEW next \in {"look public", "choose", "found"},
         Look(p, pc, t, next),
         \/ pc = "look private" /\ next = "look public"
         \/ pc = "look public" /\ next = IF proc[p].cmd = "set" THEN "choose" ELSE "found"
  PROVE  /\ ControlInv' /\ SameDisk /\ stage' = stage
         /\ proc[p].cmd \in Editing /\ proc[p].pc = pc
         /\ SameJob(p) /\ proc'[p].pc = next /\ proc'[p].tier = proc[p].tier
         /\ proc'[p].found = IF Has(data, proc[p].name, t)
                             THEN proc[p].found \cup {t} ELSE proc[p].found
<1>1. /\ proc[p] \in ProcType /\ ControlOK(proc[p]) /\ Typed
  BY JobFacts
<1>2. proc[p].pc = pc /\ SameDisk /\ stage' = stage /\ SameLedger
  BY DEF Look, SameDisk, SameLedger
<1> DEFINE fs == IF data.value[proc[p].name][t] = NoFile
                 THEN proc[p].found ELSE proc[p].found \cup {t}
           r == [proc[p] EXCEPT !.pc = next, !.found = fs]
<1>3. proc' = [proc EXCEPT ![p] = r]
  BY DEF Look
<1>4. fs \in SUBSET Tiers
  BY <1>1 DEF ProcType
<1>5. fs = IF Has(data, proc[p].name, t) THEN proc[p].found \cup {t} ELSE proc[p].found
  BY DEF Has
<1> HIDE DEF fs
<1>6. next \in Pcs
  BY DEF Pcs, SetSteps, RemoveSteps
<1>7. /\ r \in ProcType /\ r.pc = next /\ r.found = fs
      /\ r.cmd = proc[p].cmd /\ r.cfg = proc[p].cfg /\ r.name = proc[p].name
      /\ r.tier = proc[p].tier /\ r.val = proc[p].val /\ r.desc = proc[p].desc
      /\ r.phone = proc[p].phone
  BY <1>1, <1>4, <1>6 DEF ProcType
<1> HIDE DEF r
<1>8. /\ proc' \in [Procs -> ProcType] /\ OthersWait(p) /\ proc'[p] = r
  BY <1>1, <1>3, <1>7, BeginsThere
<1>9. proc[p].cmd \in Editing
  BY <1>1, <1>2 DEF ControlOK, Editing, Rewrapping, Cmds, ProcType, InitSteps,
     SwapSteps, Rollback
<1>10. ControlOK(r)
  BY <1>1, <1>2, <1>7, <1>9 DEF ControlOK, Editing, SetSteps, RemoveSteps, Writing
<1>11. ControlInv'
  BY <1>1, <1>2, <1>8, <1>10, StepMade DEF Typed, SameDisk
<1> QED
  BY <1>2, <1>5, <1>7, <1>8, <1>9, <1>11 DEF SameJob

LEMMA ChooseTierDoes ==
  ASSUME ControlInv, NEW p \in Procs, ChooseTier(p)
  PROVE  /\ ControlInv' /\ SameDisk /\ stage' = stage
         /\ proc[p].cmd = "set" /\ proc[p].pc = "choose"
         /\ SameJob(p) /\ proc'[p].pc = "mkdir" /\ proc'[p].found = proc[p].found
         /\ proc'[p].meta = IF proc[p].found = {} THEN NoDesc
                            ELSE Described(MetaOf(p, First(proc[p].found)))
<1>1. /\ proc[p] \in ProcType /\ ControlOK(proc[p]) /\ Typed
  BY JobFacts
<1>2. proc[p].pc = "choose" /\ SameDisk /\ stage' = stage /\ SameLedger
  BY DEF ChooseTier, SameDisk, SameLedger
<1>3. proc[p].cmd = "set" /\ proc[p].name \in Names
  BY <1>1, <1>2 DEF ControlOK, Editing, Rewrapping, Cmds, ProcType, InitSteps,
     SwapSteps, RemoveSteps, Rollback
<1> DEFINE t == IF proc[p].tier # None THEN proc[p].tier ELSE First(proc[p].found \cup
                     IF proc[p].found = {} THEN {"private"} ELSE {})
           m == IF proc[p].found = {} THEN NoDesc
                ELSE Described(MetaOf(p, First(proc[p].found)))
           r == [proc[p] EXCEPT !.pc = "mkdir", !.tier = t, !.meta = m]
<1>4. proc' = [proc EXCEPT ![p] = r]
  BY DEF ChooseTier
<1>5. t \in Tiers
  BY <1>1 DEF ProcType, First, Tiers
<1>6. m \in Descs
  <2>1. First(proc[p].found) \in Tiers
    BY DEF First, Tiers
  <2>2. MetaOf(p, First(proc[p].found)) \in Descs \cup {None}
    BY <1>1, <1>3, <2>1, DirFields DEF MetaOf, Typed
  <2> QED
    BY <2>2, NoneApart DEF Described
<1>7. m = IF proc[p].found = {} THEN NoDesc
          ELSE Described(MetaOf(p, First(proc[p].found)))
  OBVIOUS
<1> HIDE DEF t, m
<1>8. "mkdir" \in Pcs
  BY DEF Pcs, SetSteps
<1>9. /\ r \in ProcType /\ r.pc = "mkdir" /\ r.tier = t /\ r.meta = m
      /\ r.cmd = proc[p].cmd /\ r.cfg = proc[p].cfg /\ r.name = proc[p].name
      /\ r.found = proc[p].found /\ r.val = proc[p].val /\ r.desc = proc[p].desc
      /\ r.phone = proc[p].phone
  BY <1>1, <1>5, <1>6, <1>8 DEF ProcType
<1> HIDE DEF r
<1>10. /\ proc' \in [Procs -> ProcType] /\ OthersWait(p) /\ proc'[p] = r
  BY <1>1, <1>4, <1>9, BeginsThere
<1>11. ControlOK(r)
  BY <1>1, <1>2, <1>3, <1>5, <1>6, <1>9 DEF ControlOK, SetSteps, Writing
<1>12. ControlInv'
  BY <1>1, <1>2, <1>10, <1>11, StepMade DEF Typed, SameDisk
<1> QED
  BY <1>2, <1>3, <1>7, <1>9, <1>10, <1>12 DEF SameJob

LEMMA MakeTierDirDoes ==
  ASSUME ControlInv, NEW p \in Procs, MakeTierDir(p)
  PROVE  /\ ControlInv' /\ stage' = stage /\ config' = config /\ told' = told
         /\ data' = [data EXCEPT !.there = TRUE]
         /\ proc[p].cmd = "set" /\ proc[p].pc = "mkdir"
         /\ SameJob(p) /\ SameFound(p) /\ proc'[p].pc = "value"
<1>1. /\ proc[p] \in ProcType /\ ControlOK(proc[p]) /\ Typed
  BY JobFacts
<1>2. /\ proc[p].pc = "mkdir" /\ Goes(p, "value")
      /\ config' = config /\ told' = told /\ stage' = stage /\ SameLedger
      /\ data' = [data EXCEPT !.there = TRUE]
  BY DEF MakeTierDir, SameLedger
<1>3. proc[p].cmd = "set"
  BY <1>1, <1>2 DEF ControlOK, Editing, Rewrapping, Cmds, ProcType, InitSteps,
     SwapSteps, RemoveSteps, Rollback
<1>4. "value" \in Pcs
  BY DEF Pcs, SetSteps
<1>5. /\ proc' \in [Procs -> ProcType] /\ OthersWait(p)
      /\ proc'[p].pc = "value" /\ SameJob(p) /\ SameFound(p)
  BY <1>1, <1>2, <1>4, GoesTo
<1>6. ControlOK(proc'[p])
  BY <1>1, <1>2, <1>3, <1>5 DEF ControlOK, SetSteps, Writing, SameJob, SameFound
<1>7. data' \in Dir
  BY <1>1, <1>2, ThereSet DEF Typed
<1>8. ControlInv'
  BY <1>1, <1>2, <1>5, <1>6, <1>7, StepMade DEF Typed
<1> QED
  BY <1>2, <1>3, <1>5, <1>8

LEMMA WriteValueDoes ==
  ASSUME ControlInv, NEW p \in Procs, WriteValue(p)
  PROVE  /\ ControlInv' /\ stage' = stage /\ config' = config
         /\ proc[p].cmd = "set" /\ proc[p].pc = "value"
         /\ proc[p].name \in Names /\ proc[p].tier \in Tiers
         /\ proc[p].cfg.key \in Keys /\ proc[p].val \in Values
         /\ SameJob(p) /\ SameFound(p) /\ proc'[p].pc = "meta"
         /\ data.there
         /\ data' = [data EXCEPT !.value[proc[p].name][proc[p].tier] =
                       [key |-> proc[p].cfg.key, val |-> proc[p].val]]
         /\ told'.may[proc[p].name] = told.may[proc[p].name] \cup {proc[p].val}
         /\ \A m \in Names \ {proc[p].name} : told'.may[m] = told.may[m]
         /\ told'.desc[proc[p].name] =
              IF proc[p].desc # None THEN proc[p].desc
              ELSE IF proc[p].found = {} THEN NoDesc ELSE told.desc[proc[p].name]
         /\ \A m \in Names \ {proc[p].name} : told'.desc[m] = told.desc[m]
         /\ told'.cut = told.cut /\ told'.undone = told.undone
         /\ told'.enrolled = told.enrolled /\ told'.removed = told.removed
<1> DEFINE n == proc[p].name
           t == proc[p].tier
           f == [key |-> proc[p].cfg.key, val |-> proc[p].val]
           S == told.may[n] \cup {proc[p].val}
           x == IF proc[p].desc # None THEN proc[p].desc
                ELSE IF proc[p].found = {} THEN NoDesc ELSE told.desc[n]
<1>1. /\ proc[p] \in ProcType /\ ControlOK(proc[p]) /\ Typed
      /\ data \in Dir /\ told \in ToldType
  BY JobFacts
<1>2. /\ proc[p].pc = "value" /\ Goes(p, "meta") /\ data.there
      /\ config' = config /\ stage' = stage /\ SameLedger
      /\ data' = [data EXCEPT !.value[n][t] = f]
      /\ told' = [told EXCEPT !.may[n] = @ \cup {proc[p].val},
                    !.desc[n] = IF proc[p].desc # None THEN proc[p].desc
                                ELSE IF proc[p].found = {} THEN NoDesc ELSE @]
  BY DEF WriteValue, SameLedger
<1>3. /\ proc[p].cmd = "set" /\ n \in Names /\ t \in Tiers /\ proc[p].val \in Values
  BY <1>1, <1>2 DEF ControlOK, Editing, Rewrapping, Cmds, ProcType, InitSteps,
     SwapSteps, RemoveSteps, Rollback
<1>4. proc[p].cfg.key \in Keys
  BY <1>3, JobFacts
<1>5. "meta" \in Pcs
  BY DEF Pcs, SetSteps, Writing
<1>6. /\ proc' \in [Procs -> ProcType] /\ OthersWait(p)
      /\ proc'[p].pc = "meta" /\ SameJob(p) /\ SameFound(p)
  BY <1>1, <1>2, <1>5, GoesTo
<1>7. ControlOK(proc'[p])
  BY <1>1, <1>2, <1>3, <1>6 DEF ControlOK, SetSteps, Writing, SameJob, SameFound
<1>8. f \in File
  BY <1>3, <1>4, FileMade
<1>9. data' \in Dir
  BY <1>1, <1>2, <1>3, <1>8, ValueSet
<1>10. S \in SUBSET (Values \cup {None})
  BY <1>1, <1>3 DEF ToldType
<1>11. x \in Descs
  <2>1. proc[p].desc \in Descs \cup {None}
    BY <1>1 DEF ProcType
  <2>2. told.desc[n] \in Descs
    BY <1>1, <1>3 DEF ToldType
  <2> QED
    BY <2>1, <2>2, NoneApart
<1> DEFINE w == [told.may EXCEPT ![n] = S]
           v == [told.desc EXCEPT ![n] = x]
<1>12. told' = [told EXCEPT !.may = w, !.desc = v]
  BY <1>2
<1>13. /\ w \in [Names -> SUBSET (Values \cup {None})]
       /\ w[n] = S /\ \A m \in Names \ {n} : w[m] = told.may[m]
  BY <1>1, <1>3, <1>10, MaySet
<1>13b. /\ v \in [Names -> Descs]
        /\ v[n] = x /\ \A m \in Names \ {n} : v[m] = told.desc[m]
  BY <1>1, <1>3, <1>11, DescSet
<1>14. /\ S = told.may[n] \cup {proc[p].val}
       /\ x = IF proc[p].desc # None THEN proc[p].desc
              ELSE IF proc[p].found = {} THEN NoDesc ELSE told.desc[n]
  OBVIOUS
<1>14b. n = proc[p].name /\ t = proc[p].tier
  OBVIOUS
<1> HIDE DEF S, x, f, n, t, w, v
<1>15. /\ told' \in ToldType
       /\ told'.may[n] = S /\ \A m \in Names \ {n} : told'.may[m] = told.may[m]
       /\ told'.desc[n] = x /\ \A m \in Names \ {n} : told'.desc[m] = told.desc[m]
       /\ told'.cut = told.cut /\ told'.undone = told.undone
       /\ told'.enrolled = told.enrolled /\ told'.removed = told.removed
  <2>1. /\ told' \in ToldType /\ told'.may = w /\ told'.desc = v
        /\ told'.cut = told.cut /\ told'.undone = told.undone
        /\ told'.enrolled = told.enrolled /\ told'.removed = told.removed
    BY <1>1, <1>12, <1>13, <1>13b DEF ToldType
  <2> QED
    BY <1>13, <1>13b, <2>1
<1>16. ControlInv'
  BY <1>1, <1>2, <1>6, <1>7, <1>9, <1>15, StepMade DEF Typed
<1> QED
  BY <1>2, <1>3, <1>4, <1>6, <1>14, <1>14b, <1>15, <1>16 DEF f

LEMMA WriteMetaDoes ==
  ASSUME ControlInv, NEW p \in Procs, WriteMeta(p)
  PROVE  /\ ControlInv' /\ stage' = stage /\ config' = config /\ told' = told
         /\ proc[p].cmd = "set" /\ proc[p].pc = "meta"
         /\ proc[p].name \in Names /\ proc[p].tier \in Tiers
         /\ SameJob(p) /\ proc'[p].pc = "drop"
         /\ proc'[p].tier = proc[p].tier
         /\ proc'[p].found = proc[p].found \ {proc[p].tier}
         /\ data.there
         /\ data' = [data EXCEPT !.meta[proc[p].name][proc[p].tier] =
                       IF proc[p].desc # None THEN proc[p].desc ELSE proc[p].meta]
         /\ (IF proc[p].desc # None THEN proc[p].desc ELSE proc[p].meta) \in Descs
<1> DEFINE x == IF proc[p].desc # None THEN proc[p].desc ELSE proc[p].meta
           r == [proc[p] EXCEPT !.pc = "drop", !.found = Others(p, proc[p].tier)]
<1>1. /\ proc[p] \in ProcType /\ ControlOK(proc[p]) /\ Typed
      /\ data \in Dir /\ told \in ToldType
  BY JobFacts
<1>2. /\ proc[p].pc = "meta" /\ data.there
      /\ config' = config /\ stage' = stage /\ told' = told /\ SameLedger
      /\ data' = [data EXCEPT !.meta[proc[p].name][proc[p].tier] = x]
      /\ proc' = [proc EXCEPT ![p].pc = "drop", ![p].found = Others(p, proc[p].tier)]
  BY DEF WriteMeta, SameLedger
<1>3. /\ proc[p].cmd = "set" /\ proc[p].name \in Names /\ proc[p].tier \in Tiers
      /\ proc[p].val \in Values /\ proc[p].meta \in Descs
  BY <1>1, <1>2 DEF ControlOK, Editing, Rewrapping, Cmds, ProcType, InitSteps,
     SwapSteps, RemoveSteps, Rollback, Writing
<1>4. "drop" \in Pcs
  BY DEF Pcs, SetSteps, Writing
<1>5. proc' = [proc EXCEPT ![p] = r]
  BY <1>2
<1>6. /\ r \in ProcType /\ r.pc = "drop" /\ r.found = proc[p].found \ {proc[p].tier}
      /\ r.cmd = proc[p].cmd /\ r.cfg = proc[p].cfg /\ r.name = proc[p].name
      /\ r.tier = proc[p].tier /\ r.val = proc[p].val /\ r.desc = proc[p].desc
      /\ r.phone = proc[p].phone /\ r.meta = proc[p].meta
  BY <1>1, <1>4 DEF ProcType, Others
<1> HIDE DEF r
<1>7. /\ proc' \in [Procs -> ProcType] /\ OthersWait(p) /\ proc'[p] = r
  BY <1>1, <1>5, <1>6, BeginsThere
<1>8. ControlOK(r)
  BY <1>1, <1>2, <1>3, <1>6 DEF ControlOK, SetSteps, Writing
<1>9. x \in Descs
  BY <1>1, <1>3 DEF ProcType
<1>10. x = IF proc[p].desc # None THEN proc[p].desc ELSE proc[p].meta
  OBVIOUS
<1> HIDE DEF x
<1>11. data' \in Dir
  BY <1>1, <1>2, <1>3, <1>9, MetaSet
<1>12. ControlInv'
  BY <1>1, <1>2, <1>7, <1>8, <1>11, StepMade DEF Typed
<1> QED
  BY <1>2, <1>3, <1>6, <1>7, <1>9, <1>10, <1>12 DEF SameJob

LEMMA FoundDoes ==
  ASSUME ControlInv, NEW p \in Procs, Found(p)
  PROVE  /\ ControlInv' /\ SameDisk /\ stage' = stage
         /\ proc[p].cmd = "rm" /\ proc[p].pc = "found"
         /\ SameJob(p) /\ SameFound(p) /\ proc'[p].pc = "drop"
         /\ proc[p].tier = None
<1>1. /\ proc[p] \in ProcType /\ ControlOK(proc[p]) /\ Typed
  BY JobFacts
<1>2. /\ proc[p].pc = "found" /\ Goes(p, "drop")
      /\ SameDisk /\ stage' = stage /\ SameLedger
  BY DEF Found, SameLedger, SameDisk
<1>3. proc[p].cmd = "rm"
  BY <1>1, <1>2 DEF ControlOK, Editing, Rewrapping, Cmds, ProcType, InitSteps,
     SwapSteps, SetSteps, Rollback, Writing
<1>4. "drop" \in Pcs
  BY DEF Pcs, RemoveSteps
<1>5. /\ proc' \in [Procs -> ProcType] /\ OthersWait(p)
      /\ proc'[p].pc = "drop" /\ SameJob(p) /\ SameFound(p)
  BY <1>1, <1>2, <1>4, GoesTo
<1>6. ControlOK(proc'[p]) /\ proc[p].tier = None
  BY <1>1, <1>2, <1>3, <1>5 DEF ControlOK, RemoveSteps, SameJob, SameFound
<1>7. ControlInv'
  BY <1>1, <1>2, <1>5, <1>6, StepMade DEF Typed, SameDisk
<1> QED
  BY <1>2, <1>3, <1>5, <1>6, <1>7

LEMMA DropValueDoes ==
  ASSUME ControlInv, NEW p \in Procs, DropValue(p)
  PROVE  /\ ControlInv' /\ stage' = stage /\ config' = config
         /\ proc[p].cmd \in Editing /\ proc[p].pc = "drop" /\ proc[p].found # {}
         /\ proc[p].name \in Names /\ First(proc[p].found) \in proc[p].found
         /\ First(proc[p].found) \in Tiers
         /\ SameJob(p) /\ SameFound(p) /\ proc'[p].pc = "drop meta"
         /\ data' = [data EXCEPT !.value[proc[p].name][First(proc[p].found)] = NoFile]
         /\ proc[p].cmd = "set" => told' = told
         /\ proc[p].cmd = "rm" =>
              /\ told'.may[proc[p].name] = told.may[proc[p].name] \cup {None}
              /\ \A m \in Names \ {proc[p].name} : told'.may[m] = told.may[m]
              /\ told'.desc = told.desc /\ told'.cut = told.cut
              /\ told'.enrolled = told.enrolled /\ told'.removed = told.removed
              /\ told'.undone = told.undone
<1> DEFINE n == proc[p].name
           t == First(proc[p].found)
           S == told.may[n] \cup {None}
<1>1. /\ proc[p] \in ProcType /\ ControlOK(proc[p]) /\ Typed
      /\ data \in Dir /\ told \in ToldType
  BY JobFacts
<1>2. /\ proc[p].pc = "drop" /\ Goes(p, "drop meta") /\ proc[p].found # {}
      /\ config' = config /\ stage' = stage /\ SameLedger
      /\ data' = [data EXCEPT !.value[n][t] = NoFile]
      /\ told' = IF proc[p].cmd = "rm" THEN [told EXCEPT !.may[n] = @ \cup {None}]
                 ELSE told
  BY DEF DropValue, SameLedger
<1>3. proc[p].cmd \in Editing /\ n \in Names
  BY <1>1, <1>2 DEF ControlOK, Editing, Rewrapping, Cmds, ProcType, InitSteps,
     SwapSteps, Rollback
<1>4. t \in proc[p].found /\ t \in Tiers
  BY <1>1, <1>2 DEF ProcType, First, Tiers
<1>5. "drop meta" \in Pcs
  BY DEF Pcs, RemoveSteps
<1>6. /\ proc' \in [Procs -> ProcType] /\ OthersWait(p)
      /\ proc'[p].pc = "drop meta" /\ SameJob(p) /\ SameFound(p)
  BY <1>1, <1>2, <1>5, GoesTo
<1>7. ControlOK(proc'[p])
  BY <1>1, <1>2, <1>3, <1>6 DEF ControlOK, SetSteps, RemoveSteps, Writing, Editing,
     SameJob, SameFound
<1>8. NoFile \in File
  BY DEF File
<1>9. data' \in Dir
  BY <1>1, <1>2, <1>3, <1>4, <1>8, ValueSet
<1>10. S \in SUBSET (Values \cup {None})
  BY <1>1, <1>3 DEF ToldType
<1>11. proc[p].cmd = "rm" => told' = [told EXCEPT !.may[n] = S]
  BY <1>2
<1>12. S = told.may[n] \cup {None}
  OBVIOUS
<1> HIDE DEF S
<1>13. proc[p].cmd = "rm" =>
         /\ told' \in ToldType
         /\ told'.may[n] = S /\ \A m \in Names \ {n} : told'.may[m] = told.may[m]
         /\ told'.desc = told.desc /\ told'.cut = told.cut
         /\ told'.enrolled = told.enrolled /\ told'.removed = told.removed
         /\ told'.undone = told.undone
  BY <1>1, <1>3, <1>10, <1>11, ToldMay
<1>14. proc[p].cmd # "rm" => told' = told
  BY <1>2
<1>15. ControlInv'
  BY <1>1, <1>2, <1>6, <1>7, <1>9, <1>13, <1>14, StepMade DEF Typed
<1> QED
  BY <1>2, <1>3, <1>4, <1>6, <1>12, <1>13, <1>14, <1>15

LEMMA DropMetaDoes ==
  ASSUME ControlInv, NEW p \in Procs, DropMeta(p)
  PROVE  /\ ControlInv' /\ stage' = stage /\ config' = config /\ told' = told
         /\ proc[p].cmd \in Editing /\ proc[p].pc = "drop meta"
         /\ proc[p].name \in Names /\ First(proc[p].found) \in Tiers
         /\ SameJob(p) /\ proc'[p].pc = "drop" /\ proc'[p].tier = proc[p].tier
         /\ proc'[p].found = proc[p].found \ {First(proc[p].found)}
         /\ data' = [data EXCEPT !.meta[proc[p].name][First(proc[p].found)] = None]
<1> DEFINE r == [proc[p] EXCEPT !.pc = "drop",
                   !.found = proc[p].found \ {First(proc[p].found)}]
<1>1. /\ proc[p] \in ProcType /\ ControlOK(proc[p]) /\ Typed
      /\ data \in Dir /\ told \in ToldType
  BY JobFacts
<1>2. /\ proc[p].pc = "drop meta"
      /\ config' = config /\ stage' = stage /\ told' = told /\ SameLedger
      /\ data' = [data EXCEPT !.meta[proc[p].name][First(proc[p].found)] = None]
      /\ proc' = [proc EXCEPT ![p].pc = "drop", ![p].found = @ \ {First(proc[p].found)}]
  BY DEF DropMeta, SameLedger
<1>3. proc[p].cmd \in Editing /\ proc[p].name \in Names
  BY <1>1, <1>2 DEF ControlOK, Editing, Rewrapping, Cmds, ProcType, InitSteps,
     SwapSteps, Rollback
<1>4. "drop" \in Pcs
  BY DEF Pcs, RemoveSteps
<1>5. proc' = [proc EXCEPT ![p] = r]
  BY <1>2
<1>6. /\ r \in ProcType /\ r.pc = "drop"
      /\ r.found = proc[p].found \ {First(proc[p].found)}
      /\ r.cmd = proc[p].cmd /\ r.cfg = proc[p].cfg /\ r.name = proc[p].name
      /\ r.tier = proc[p].tier /\ r.val = proc[p].val /\ r.desc = proc[p].desc
      /\ r.phone = proc[p].phone /\ r.meta = proc[p].meta
  BY <1>1, <1>4 DEF ProcType
<1> HIDE DEF r
<1>7. /\ proc' \in [Procs -> ProcType] /\ OthersWait(p) /\ proc'[p] = r
  BY <1>1, <1>5, <1>6, BeginsThere
<1>8. ControlOK(r)
  BY <1>1, <1>2, <1>3, <1>6 DEF ControlOK, SetSteps, RemoveSteps, Writing, Editing
<1>9. First(proc[p].found) \in Tiers
  BY DEF First, Tiers
<1>10. data' \in Dir
  BY <1>1, <1>2, <1>3, <1>9, MetaSet
<1>11. ControlInv'
  BY <1>1, <1>2, <1>7, <1>8, <1>10, StepMade DEF Typed
<1> QED
  BY <1>2, <1>3, <1>6, <1>7, <1>9, <1>11 DEF SameJob

LEMMA StoredDoes ==
  ASSUME ControlInv, NEW p \in Procs, Stored(p)
  PROVE  /\ ControlInv' /\ stage' = stage /\ config' = config /\ data' = data
         /\ proc[p].cmd \in Editing /\ proc[p].pc = "drop" /\ proc[p].found = {}
         /\ proc[p].name \in Names
         /\ proc'[p] = Idle
         /\ told'.may[proc[p].name] =
              IF proc[p].cmd = "rm" THEN {None} ELSE {proc[p].val}
         /\ \A m \in Names \ {proc[p].name} : told'.may[m] = told.may[m]
         /\ told'.cut = IF proc[p].cmd = "rm" \/ proc[p].desc # None
                        THEN told.cut \ {proc[p].name} ELSE told.cut
         /\ told'.desc = told.desc
         /\ told'.enrolled = told.enrolled /\ told'.removed = told.removed
         /\ told'.undone = told.undone
<1> DEFINE n == proc[p].name
           S == IF proc[p].cmd = "rm" THEN {None} ELSE {proc[p].val}
           C == IF proc[p].cmd = "rm" \/ proc[p].desc # None
                THEN told.cut \ {n} ELSE told.cut
           w == [told.may EXCEPT ![n] = S]
<1>1. /\ proc[p] \in ProcType /\ ControlOK(proc[p]) /\ Typed /\ told \in ToldType
  BY JobFacts
<1>2. /\ proc[p].pc = "drop" /\ proc[p].found = {} /\ Ends(p)
      /\ config' = config /\ stage' = stage /\ data' = data /\ SameLedger
      /\ told' = [told EXCEPT !.may = w, !.cut = C]
  BY DEF Stored, SameLedger
<1>3. proc[p].cmd \in Editing /\ n \in Names /\ (proc[p].cmd = "set" => proc[p].val \in Values)
  BY <1>1, <1>2 DEF ControlOK, Editing, Rewrapping, Cmds, ProcType, InitSteps,
     SwapSteps, Rollback
<1>4. /\ proc' \in [Procs -> ProcType] /\ OthersWait(p) /\ proc'[p] = Idle
  BY <1>1, <1>2, EndsThere
<1>5. S \in SUBSET (Values \cup {None})
  BY <1>3 DEF Editing
<1>6. C \in SUBSET Names
  BY <1>1 DEF ToldType
<1>7. /\ S = IF proc[p].cmd = "rm" THEN {None} ELSE {proc[p].val}
      /\ C = IF proc[p].cmd = "rm" \/ proc[p].desc # None
             THEN told.cut \ {n} ELSE told.cut
  OBVIOUS
<1> HIDE DEF S, C
<1>8. /\ w \in [Names -> SUBSET (Values \cup {None})]
      /\ w[n] = S /\ \A m \in Names \ {n} : w[m] = told.may[m]
  BY <1>1, <1>3, <1>5, MaySet
<1> HIDE DEF w
<1>9. /\ told' \in ToldType /\ told'.may = w /\ told'.cut = C
      /\ told'.desc = told.desc
      /\ told'.enrolled = told.enrolled /\ told'.removed = told.removed
      /\ told'.undone = told.undone
  BY <1>1, <1>2, <1>6, <1>8 DEF ToldType
<1>10. ControlInv'
  BY <1>1, <1>2, <1>4, <1>9, IdleTyped, StepMade DEF Typed
<1> QED
  BY <1>2, <1>3, <1>4, <1>7, <1>8, <1>9, <1>10

LEMMA NewUnlocksTyped ==
  ASSUME ControlInv, NEW p \in Procs
  PROVE  /\ NewUnlocks(p) \in SUBSET Unlocks
         /\ proc[p].cmd = "enroll" =>
              NewUnlocks(p) = proc[p].cfg.unlocks \cup {proc[p].phone}
         /\ proc[p].cmd = "phone rm" =>
              NewUnlocks(p) = proc[p].cfg.unlocks \ {proc[p].phone}
         /\ proc[p].cmd \notin {"enroll", "phone rm"} =>
              NewUnlocks(p) = proc[p].cfg.unlocks
<1>1. proc[p].cfg.unlocks \subseteq Unlocks
  BY JobFacts
<1>2. proc[p].cmd = "enroll" => proc[p].phone \in Unlocks
  BY JobFacts, NoneApart DEF ControlOK
<1> QED
  BY <1>1, <1>2 DEF NewUnlocks

LEMMA UnlockDoes ==
  ASSUME ControlInv, NEW p \in Procs, Unlock(p)
  PROVE  /\ ControlInv' /\ SameDisk /\ stage' = stage
         /\ proc[p].cmd \in {"enroll", "phone rm"} /\ proc[p].pc = "unlock"
         /\ SameJob(p) /\ SameFound(p) /\ proc'[p].pc = "wrap"
<1>1. /\ proc[p] \in ProcType /\ ControlOK(proc[p]) /\ Typed
  BY JobFacts
<1>2. /\ proc[p].pc = "unlock" /\ Goes(p, "wrap")
      /\ SameDisk /\ stage' = stage /\ SameLedger
  BY DEF Unlock, SameLedger, SameDisk
<1>3. proc[p].cmd \in {"enroll", "phone rm"}
  BY <1>1, <1>2 DEF ControlOK, Editing, Rewrapping, Cmds, ProcType, InitSteps,
     SwapSteps, SetSteps, RemoveSteps, Rollback, Writing
<1>4. "wrap" \in Pcs
  BY DEF Pcs, InitSteps
<1>5. /\ proc' \in [Procs -> ProcType] /\ OthersWait(p)
      /\ proc'[p].pc = "wrap" /\ SameJob(p) /\ SameFound(p)
  BY <1>1, <1>2, <1>4, GoesTo
<1>6. ControlOK(proc'[p])
  BY <1>1, <1>2, <1>3, <1>5 DEF ControlOK, SameJob, SameFound
<1>7. ControlInv'
  BY <1>1, <1>2, <1>5, <1>6, StepMade DEF Typed, SameDisk
<1> QED
  BY <1>2, <1>3, <1>5, <1>7

LEMMA WrapDoes ==
  ASSUME ControlInv, NEW p \in Procs, Wrap(p)
  PROVE  /\ ControlInv' /\ stage' = stage /\ config' = config
         /\ proc[p].cmd \in {"enroll", "phone rm", "init"} /\ proc[p].pc = "wrap"
         /\ SameJob(p) /\ SameFound(p) /\ proc'[p].pc = "save"
         /\ data.there
         /\ NewUnlocks(p) \in SUBSET Unlocks /\ proc[p].cfg.key \in Keys
         /\ data' = [data EXCEPT !.priv = [key |-> proc[p].cfg.key, to |-> NewUnlocks(p)]]
         /\ told'.enrolled = told.enrolled \ {proc[p].phone}
         /\ told'.removed = told.removed \ {proc[p].phone}
         /\ told'.may = told.may /\ told'.desc = told.desc
         /\ told'.cut = told.cut /\ told'.undone = told.undone
<1> DEFINE en == told.enrolled \ {proc[p].phone}
           re == told.removed \ {proc[p].phone}
           us == NewUnlocks(p)
           k == proc[p].cfg.key
<1>1. /\ proc[p] \in ProcType /\ ControlOK(proc[p]) /\ Typed
      /\ data \in Dir /\ told \in ToldType
  BY JobFacts
<1>2. /\ proc[p].pc = "wrap" /\ Goes(p, "save") /\ data.there
      /\ config' = config /\ stage' = stage /\ SameLedger
      /\ data' = [data EXCEPT !.priv = [key |-> k, to |-> us]]
      /\ told' = [told EXCEPT !.enrolled = en, !.removed = re]
  BY DEF Wrap, SameLedger
<1>3. proc[p].cmd \in {"enroll", "phone rm", "init"}
  BY <1>1, <1>2 DEF ControlOK, Editing, Rewrapping, Cmds, ProcType, InitSteps,
     SwapSteps, SetSteps, RemoveSteps, Rollback, Writing
<1>4. "save" \in Pcs
  BY DEF Pcs, InitSteps
<1>5. /\ proc' \in [Procs -> ProcType] /\ OthersWait(p)
      /\ proc'[p].pc = "save" /\ SameJob(p) /\ SameFound(p)
  BY <1>1, <1>2, <1>4, GoesTo
<1>6. ControlOK(proc'[p])
  BY <1>1, <1>2, <1>3, <1>5 DEF ControlOK, SameJob, SameFound, InitSteps
<1>7. k \in Keys /\ us \in SUBSET Unlocks
  BY <1>3, JobFacts, NewUnlocksTyped
<1>8. data' \in Dir
  <2> HIDE DEF k, us
  <2> QED
    BY <1>1, <1>2, <1>7, PrivSet
<1>9. en \in SUBSET Phones /\ re \in SUBSET Phones
  BY <1>1 DEF ToldType
<1>10. en = told.enrolled \ {proc[p].phone} /\ re = told.removed \ {proc[p].phone}
  OBVIOUS
<1> HIDE DEF en, re
<1>11. /\ told' \in ToldType /\ told'.enrolled = en /\ told'.removed = re
       /\ told'.may = told.may /\ told'.desc = told.desc
       /\ told'.cut = told.cut /\ told'.undone = told.undone
  BY <1>1, <1>2, <1>9 DEF ToldType
<1>12. ControlInv'
  BY <1>1, <1>2, <1>5, <1>6, <1>8, <1>11, StepMade DEF Typed
<1> QED
  BY <1>2, <1>3, <1>5, <1>7, <1>10, <1>11, <1>12

LEMMA EnsureDoes ==
  ASSUME ControlInv, NEW p \in Procs, Ensure(p)
  PROVE  /\ ControlInv' /\ stage' = stage /\ config' = config /\ told' = told
         /\ data' = [data EXCEPT !.there = TRUE]
         /\ proc[p].cmd = "init" /\ proc[p].pc = "ensure"
         /\ SameJob(p) /\ proc'[p].pc = "public key"
<1>1. /\ proc[p] \in ProcType /\ ControlOK(proc[p]) /\ Typed
  BY JobFacts
<1>2. /\ proc[p].pc = "ensure" /\ Goes(p, "public key")
      /\ config' = config /\ told' = told /\ stage' = stage /\ SameLedger
      /\ data' = [data EXCEPT !.there = TRUE]
  BY DEF Ensure, SameLedger
<1>3. proc[p].cmd = "init"
  BY <1>1, <1>2 DEF ControlOK, Editing, Rewrapping, Cmds, ProcType, SetSteps,
     SwapSteps, RemoveSteps, Rollback, Writing
<1>4. "public key" \in Pcs
  BY DEF Pcs, InitSteps
<1>5. /\ proc' \in [Procs -> ProcType] /\ OthersWait(p)
      /\ proc'[p].pc = "public key" /\ SameJob(p) /\ SameFound(p)
  BY <1>1, <1>2, <1>4, GoesTo
<1>6. ControlOK(proc'[p])
  BY <1>1, <1>2, <1>3, <1>5 DEF ControlOK, InitSteps, SameJob, SameFound
<1>7. data' \in Dir
  BY <1>1, <1>2, ThereSet DEF Typed
<1>8. ControlInv'
  BY <1>1, <1>2, <1>5, <1>6, <1>7, StepMade DEF Typed
<1> QED
  BY <1>2, <1>3, <1>5, <1>8

LEMMA WritePublicKeyDoes ==
  ASSUME ControlInv, NEW p \in Procs, WritePublicKey(p)
  PROVE  /\ ControlInv' /\ stage' = stage /\ config' = config /\ told' = told
         /\ data.there /\ data' = [data EXCEPT !.pub = OwnKey]
         /\ proc[p].cmd = "init" /\ proc[p].pc = "public key"
         /\ SameJob(p) /\ proc'[p].pc = "wrap"
<1>1. /\ proc[p] \in ProcType /\ ControlOK(proc[p]) /\ Typed
  BY JobFacts
<1>2. /\ proc[p].pc = "public key" /\ data.there /\ Goes(p, "wrap")
      /\ config' = config /\ told' = told /\ stage' = stage /\ SameLedger
      /\ data' = [data EXCEPT !.pub = proc[p].cfg.key]
  BY DEF WritePublicKey, SameLedger
<1>3. proc[p].cmd = "init"
  BY <1>1, <1>2 DEF ControlOK, Editing, Rewrapping, Cmds, ProcType, SetSteps,
     SwapSteps, RemoveSteps, Rollback, Writing
<1>4. proc[p].cfg.key = OwnKey
  BY <1>1, <1>3 DEF ControlOK
<1>5. "wrap" \in Pcs
  BY DEF Pcs, InitSteps
<1>6. /\ proc' \in [Procs -> ProcType] /\ OthersWait(p)
      /\ proc'[p].pc = "wrap" /\ SameJob(p) /\ SameFound(p)
  BY <1>1, <1>2, <1>5, GoesTo
<1>7. ControlOK(proc'[p])
  BY <1>1, <1>2, <1>3, <1>6 DEF ControlOK, InitSteps, SameJob, SameFound
<1>8. data' \in Dir
  BY <1>1, <1>2, <1>4, PubSet, NoneApart DEF Typed
<1>9. ControlInv'
  BY <1>1, <1>2, <1>6, <1>7, <1>8, StepMade DEF Typed
<1> QED
  BY <1>2, <1>3, <1>4, <1>6, <1>9

LEMMA EnrolledDoes ==
  ASSUME ControlInv, NEW p \in Procs, Enrolled(p)
  PROVE  /\ ControlInv' /\ stage' = stage /\ config' = config /\ data' = data
         /\ proc[p].cmd = "enroll" /\ proc[p].pc = "check"
         /\ proc'[p] = Idle
         /\ CanOpenWith(p, proc[p].phone)
         /\ told'.enrolled = told.enrolled \cup {proc[p].phone}
         /\ told'.removed = told.removed /\ told'.may = told.may
         /\ told'.desc = told.desc /\ told'.cut = told.cut
         /\ told'.undone = told.undone
<1> DEFINE en == told.enrolled \cup {proc[p].phone}
<1>1. /\ proc[p] \in ProcType /\ ControlOK(proc[p]) /\ Typed /\ told \in ToldType
  BY JobFacts
<1>2. /\ proc[p].pc = "check" /\ Ends(p) /\ CanOpenWith(p, proc[p].phone)
      /\ config' = config /\ data' = data /\ stage' = stage /\ SameLedger
      /\ told' = [told EXCEPT !.enrolled = en]
  BY DEF Enrolled, SameLedger
<1>3. proc[p].cmd = "enroll"
  BY <1>1, <1>2 DEF ControlOK, Editing, Rewrapping, Cmds, ProcType, SetSteps,
     SwapSteps, RemoveSteps, InitSteps, Rollback, Writing
<1>4. en \in SUBSET Phones
  BY <1>1, <1>3 DEF ControlOK, ToldType
<1>5. en = told.enrolled \cup {proc[p].phone}
  OBVIOUS
<1> HIDE DEF en
<1>6. /\ told' \in ToldType /\ told'.enrolled = en /\ told'.removed = told.removed
      /\ told'.may = told.may /\ told'.desc = told.desc /\ told'.cut = told.cut
      /\ told'.undone = told.undone
  BY <1>1, <1>2, <1>4 DEF ToldType
<1>7. /\ proc' \in [Procs -> ProcType] /\ OthersWait(p) /\ proc'[p] = Idle
  BY <1>1, <1>2, EndsThere
<1>8. ControlInv'
  BY <1>1, <1>2, <1>6, <1>7, IdleTyped, StepMade DEF Typed
<1> QED
  BY <1>2, <1>3, <1>5, <1>6, <1>7, <1>8

LEMMA ToldTyped ==
  ASSUME ControlInv, NEW p \in Procs, NEW d \in Dir
  PROVE  LET h == Told(p, d) IN
         /\ h \in ToldType
         /\ proc[p].cmd \in {"enroll", "fcm"} => h = told
         /\ proc[p].cmd = "phone rm" =>
              /\ h.removed = told.removed \cup {proc[p].phone}
              /\ h.enrolled = told.enrolled /\ h.may = told.may /\ h.desc = told.desc
              /\ h.cut = told.cut /\ h.undone = told.undone
         /\ proc[p].cmd \in {"init", "restore"} =>
              /\ h.enrolled = {} /\ h.removed = {}
              /\ h.undone = (told.undone \/ proc[p].cmd = "restore")
              /\ ToldOf(d, h)
<1> DEFINE h == Told(p, d)
           c == proc[p].cmd
           re == told.removed \cup {proc[p].phone}
<1>1. /\ proc[p] \in ProcType /\ ControlOK(proc[p]) /\ told \in ToldType
  BY JobFacts
<1>0. h = Told(p, d)
  OBVIOUS
<1> HIDE DEF h
<1>2. CASE c = "phone rm"
  <2>1. h = [told EXCEPT !.removed = re]
    BY <1>0, <1>2 DEF Told
  <2>2. re \in SUBSET Phones
    BY <1>1, <1>2 DEF ControlOK, ToldType
  <2>3. re = told.removed \cup {proc[p].phone}
    OBVIOUS
  <2> HIDE DEF re
  <2>4. /\ h \in ToldType /\ h.removed = re
        /\ h.enrolled = told.enrolled /\ h.may = told.may /\ h.desc = told.desc
        /\ h.cut = told.cut /\ h.undone = told.undone
    BY <1>1, <2>1, <2>2 DEF ToldType
  <2> QED
    BY <1>2, <2>3, <2>4 DEF h
<1>3. CASE c \in {"init", "restore"}
  <2> DEFINE f == Fresh(d)
             u == (told.undone \/ (c = "restore"))
  <2>1. h = [f EXCEPT !.undone = u]
    BY <1>0, <1>3 DEF Told
  <2>2. /\ f \in ToldType /\ f.enrolled = {} /\ f.removed = {} /\ ToldOf(d, f)
    BY FreshFacts
  <2>3. u \in BOOLEAN
    BY <1>1 DEF ToldType
  <2>4. u = (told.undone \/ (proc[p].cmd = "restore"))
    OBVIOUS
  <2> HIDE DEF f, u
  <2>5. /\ h \in ToldType /\ h.may = f.may /\ h.desc = f.desc /\ h.cut = f.cut
        /\ h.enrolled = f.enrolled /\ h.removed = f.removed /\ h.undone = u
    BY <2>1, <2>2, <2>3 DEF ToldType
  <2>6. ToldOf(d, h)
    BY <2>2, <2>5 DEF ToldOf
  <2> QED
    BY <1>3, <2>2, <2>4, <2>5, <2>6 DEF h
<1>4. CASE c \notin {"phone rm", "init", "restore"}
  BY <1>0, <1>1, <1>4 DEF Told, h
<1> QED
  BY <1>2, <1>3, <1>4 DEF h

LEMMA SaveDoes ==
  ASSUME ControlInv, NEW p \in Procs, Save(p)
  PROVE  /\ ControlInv' /\ stage' = stage /\ data' = data
         /\ proc[p].cmd \in Rewrapping \cup {"init", "restore"} /\ proc[p].pc = "save"
         /\ proc[p].cfg.key \in Keys /\ NewUnlocks(p) \in SUBSET Unlocks
         /\ config' = [key |-> proc[p].cfg.key, unlocks |-> NewUnlocks(p)]
         /\ told' = Told(p, stage[p].from)
         /\ proc[p].cmd = "enroll" => SameJob(p) /\ proc'[p].pc = "check"
         /\ proc[p].cmd = "restore" => SameJob(p) /\ proc'[p].pc = "restored"
         /\ proc[p].cmd \notin {"enroll", "restore"} => proc'[p] = Idle
<1>1. /\ proc[p] \in ProcType /\ ControlOK(proc[p]) /\ Typed /\ told \in ToldType
      /\ stage[p] \in StageType
  BY JobFacts
<1>2. /\ proc[p].pc = "save" /\ data' = data /\ stage' = stage /\ SameLedger
      /\ config' = [key |-> proc[p].cfg.key, unlocks |-> NewUnlocks(p)]
      /\ told' = Told(p, stage[p].from)
  BY DEF Save, SameLedger
<1>3. proc[p].cmd \in Rewrapping \cup {"init", "restore"}
  BY <1>1, <1>2 DEF ControlOK, Editing, Rewrapping, Cmds, ProcType, InitSteps,
     SwapSteps, SetSteps, RemoveSteps, Rollback, Writing
<1>4. proc[p].cfg.key \in Keys /\ NewUnlocks(p) \in SUBSET Unlocks
  BY <1>3, JobFacts, NewUnlocksTyped DEF Rewrapping
<1>5. config' \in Config
  BY <1>2, <1>4, ConfigMade
<1>6. told' \in ToldType
  BY <1>1, <1>2, ToldTyped DEF StageType
<1>7. /\ proc' \in [Procs -> ProcType] /\ OthersWait(p) /\ ControlOK(proc'[p])
      /\ proc[p].cmd = "enroll" => SameJob(p) /\ proc'[p].pc = "check"
      /\ proc[p].cmd = "restore" => SameJob(p) /\ proc'[p].pc = "restored"
      /\ proc[p].cmd \notin {"enroll", "restore"} => proc'[p] = Idle
  <2>1. CASE proc[p].cmd = "enroll"
    <3>1. proc' = [proc EXCEPT ![p] = [proc[p] EXCEPT !.pc = "check"]]
      BY <2>1 DEF Save
    <3>2. Goes(p, "check")
      BY <1>1, <3>1 DEF Goes, Typed
    <3>3. "check" \in Pcs
      BY DEF Pcs
    <3>4. /\ proc' \in [Procs -> ProcType] /\ OthersWait(p)
          /\ proc'[p].pc = "check" /\ SameJob(p) /\ SameFound(p)
      BY <1>1, <3>2, <3>3, GoesTo
    <3>5. ControlOK(proc'[p])
      BY <1>1, <2>1, <3>4 DEF ControlOK, SameJob, SameFound
    <3> QED
      BY <2>1, <3>4, <3>5
  <2>2. CASE proc[p].cmd = "restore"
    <3>1. proc' = [proc EXCEPT ![p] = [proc[p] EXCEPT !.pc = "restored"]]
      BY <2>2 DEF Save
    <3>2. Goes(p, "restored")
      BY <1>1, <3>1 DEF Goes, Typed
    <3>3. "restored" \in Pcs
      BY DEF Pcs, SwapSteps
    <3>4. /\ proc' \in [Procs -> ProcType] /\ OthersWait(p)
          /\ proc'[p].pc = "restored" /\ SameJob(p) /\ SameFound(p)
      BY <1>1, <3>2, <3>3, GoesTo
    <3>5. ControlOK(proc'[p])
      BY <1>1, <2>2, <3>4 DEF ControlOK, SameJob, SameFound, SwapSteps
    <3> QED
      BY <2>2, <3>4, <3>5
  <2>3. CASE proc[p].cmd \notin {"enroll", "restore"}
    <3>1. Ends(p)
      BY <2>3 DEF Save, Ends
    <3> QED
      BY <1>1, <2>3, <3>1, EndsThere, IdleTyped
  <2> QED
    BY <2>1, <2>2, <2>3
<1>8. ControlInv'
  BY <1>1, <1>2, <1>5, <1>6, <1>7, StepMade DEF Typed
<1> QED
  BY <1>2, <1>3, <1>4, <1>7, <1>8

LEMMA SwapGoes ==
  ASSUME ControlInv, NEW p \in Procs, NEW pc \in SwapSteps, Goes(p, pc),
         proc[p].pc \in SwapSteps,
         proc[p].cmd = "restore" \/ proc[p].pc # "save"
  PROVE  /\ proc' \in [Procs -> ProcType] /\ OthersWait(p) /\ ControlOK(proc'[p])
         /\ proc[p].cmd = "restore" /\ SameJob(p) /\ proc'[p].pc = pc
<1>1. /\ proc[p] \in ProcType /\ ControlOK(proc[p]) /\ Typed
  BY JobFacts
<1>2. proc[p].cmd = "restore"
  BY <1>1 DEF ControlOK, Editing, Rewrapping, Cmds, ProcType, SetSteps,
     SwapSteps, RemoveSteps, InitSteps, Rollback, Writing
<1>3. pc \in Pcs
  BY DEF Pcs
<1>4. /\ proc' \in [Procs -> ProcType] /\ OthersWait(p)
      /\ proc'[p].pc = pc /\ SameJob(p) /\ SameFound(p)
  BY <1>1, <1>3, GoesTo
<1>5. ControlOK(proc'[p])
  BY <1>1, <1>2, <1>4 DEF ControlOK, SameJob
<1> QED
  BY <1>2, <1>4, <1>5

LEMMA StagePut ==
  ASSUME ControlInv, NEW p \in Procs, NEW s \in StageType,
         stage' = [stage EXCEPT ![p] = s]
  PROVE  stage' \in [Procs -> StageType] /\ stage'[p] = s
BY DEF ControlInv, Typed

LEMMA ReadConfigDoes ==
  ASSUME ControlInv, NEW p \in Procs, ReadConfig(p)
  PROVE  /\ ControlInv' /\ SameDisk
         /\ proc[p].cmd = "restore" /\ proc[p].pc = "read"
         /\ SameJob(p) /\ proc'[p].pc = "unset"
         /\ stage'[p].new = stage[p].new /\ stage'[p].old = stage[p].old
         /\ stage'[p].from = stage[p].from
         /\ stage'[p].config = config /\ stage'[p].was = data
<1> DEFINE s == [stage[p] EXCEPT !.config = config, !.was = data]
<1>1. /\ Typed /\ stage[p] \in StageType /\ data \in Dir /\ config \in Config
  BY JobFacts
<1>2. /\ proc[p].pc = "read" /\ Goes(p, "unset") /\ SameDisk /\ SameLedger
      /\ stage' = [stage EXCEPT ![p] = s]
  BY DEF ReadConfig, SameDisk, SameLedger
<1>3. /\ s \in StageType /\ s.new = stage[p].new /\ s.old = stage[p].old
      /\ s.from = stage[p].from /\ s.config = config /\ s.was = data
  BY <1>1 DEF StageType
<1> HIDE DEF s
<1>4. stage' \in [Procs -> StageType] /\ stage'[p] = s
  BY <1>2, <1>3, StagePut
<1>5. /\ proc' \in [Procs -> ProcType] /\ OthersWait(p) /\ ControlOK(proc'[p])
      /\ proc[p].cmd = "restore" /\ SameJob(p) /\ proc'[p].pc = "unset"
  BY <1>2, SwapGoes DEF SwapSteps
<1>6. ControlInv'
  BY <1>1, <1>2, <1>4, <1>5, StepMade DEF SameDisk, Typed
<1> QED
  BY <1>2, <1>3, <1>4, <1>5, <1>6

LEMMA RemoveConfigDoes ==
  ASSUME ControlInv, NEW p \in Procs, RemoveConfig(p)
  PROVE  /\ ControlInv' /\ data' = data /\ told' = told /\ stage' = stage
         /\ config' = NoConfig
         /\ proc[p].cmd = "restore" /\ proc[p].pc = "unset"
         /\ SameJob(p) /\ proc'[p].pc = "move out"
<1>1. Typed
  BY JobFacts
<1>2. /\ proc[p].pc = "unset" /\ Goes(p, "move out") /\ data' = data /\ told' = told
      /\ stage' = stage /\ config' = NoConfig /\ SameLedger
  BY DEF RemoveConfig, SameLedger
<1>3. /\ proc' \in [Procs -> ProcType] /\ OthersWait(p) /\ ControlOK(proc'[p])
      /\ proc[p].cmd = "restore" /\ SameJob(p) /\ proc'[p].pc = "move out"
  BY <1>2, SwapGoes DEF SwapSteps
<1>4. ControlInv'
  BY <1>1, <1>2, <1>3, StepMade DEF Typed, Config
<1> QED
  BY <1>2, <1>3, <1>4

LEMMA MoveOutDoes ==
  ASSUME ControlInv, NEW p \in Procs, MoveOut(p)
  PROVE  /\ ControlInv' /\ config' = config /\ told' = told /\ data' = NoDir
         /\ proc[p].cmd = "restore" /\ proc[p].pc = "move out"
         /\ SameJob(p) /\ proc'[p].pc = "move in"
         /\ stage'[p].old = data /\ stage'[p].new = stage[p].new
         /\ stage'[p].from = stage[p].from
         /\ stage'[p].config = stage[p].config /\ stage'[p].was = stage[p].was
<1> DEFINE s == [stage[p] EXCEPT !.old = data]
<1>1. /\ Typed /\ stage[p] \in StageType /\ data \in Dir
  BY JobFacts
<1>2. /\ proc[p].pc = "move out" /\ Goes(p, "move in") /\ config' = config
      /\ told' = told /\ data' = NoDir /\ SameLedger
      /\ stage' = [stage EXCEPT ![p] = s]
  BY DEF MoveOut, SameLedger
<1>3. /\ s \in StageType /\ s.new = stage[p].new /\ s.old = data
      /\ s.from = stage[p].from /\ s.config = stage[p].config /\ s.was = stage[p].was
  BY <1>1 DEF StageType
<1> HIDE DEF s
<1>4. stage' \in [Procs -> StageType] /\ stage'[p] = s
  BY <1>2, <1>3, StagePut
<1>5. /\ proc' \in [Procs -> ProcType] /\ OthersWait(p) /\ ControlOK(proc'[p])
      /\ proc[p].cmd = "restore" /\ SameJob(p) /\ proc'[p].pc = "move in"
  BY <1>2, SwapGoes DEF SwapSteps
<1>6. ControlInv'
  BY <1>1, <1>2, <1>4, <1>5, NoDirFacts, StepMade DEF Typed
<1> QED
  BY <1>2, <1>3, <1>4, <1>5, <1>6

LEMMA MoveInDoes ==
  ASSUME ControlInv, NEW p \in Procs, MoveIn(p)
  PROVE  /\ ControlInv' /\ config' = config /\ told' = told
         /\ proc[p].cmd = "restore" /\ proc[p].pc = "move in"
         /\ SameJob(p)
         /\ data.there => proc'[p].pc = "put aside" /\ data' = data /\ stage' = stage
         /\ ~data.there =>
              /\ proc'[p].pc = "save" /\ data' = stage[p].new
              /\ stage'[p].new = NoDir /\ stage'[p].old = stage[p].old
              /\ stage'[p].from = stage[p].from
              /\ stage'[p].config = stage[p].config /\ stage'[p].was = stage[p].was
<1> DEFINE s == [stage[p] EXCEPT !.new = NoDir]
<1>1. /\ Typed /\ stage[p] \in StageType /\ data \in Dir
  BY JobFacts
<1>2. /\ proc[p].pc = "move in" /\ config' = config /\ told' = told /\ SameLedger
  BY DEF MoveIn, SameLedger
<1>3. CASE data.there
  <2>1. Goes(p, "put aside") /\ data' = data /\ stage' = stage
    BY <1>3 DEF MoveIn
  <2>2. /\ proc' \in [Procs -> ProcType] /\ OthersWait(p) /\ ControlOK(proc'[p])
        /\ proc[p].cmd = "restore" /\ SameJob(p) /\ proc'[p].pc = "put aside"
    BY <1>2, <2>1, SwapGoes DEF SwapSteps, Rollback
  <2>3. ControlInv'
    BY <1>1, <1>2, <2>1, <2>2, StepMade DEF Typed
  <2> QED
    BY <1>2, <1>3, <2>1, <2>2, <2>3
<1>4. CASE ~data.there
  <2>1. /\ Goes(p, "save") /\ data' = stage[p].new
        /\ stage' = [stage EXCEPT ![p] = s]
    BY <1>4 DEF MoveIn
  <2>2. /\ s \in StageType /\ s.new = NoDir /\ s.old = stage[p].old
        /\ s.from = stage[p].from /\ s.config = stage[p].config /\ s.was = stage[p].was
    BY <1>1, NoDirFacts DEF StageType
  <2> HIDE DEF s
  <2>3. stage' \in [Procs -> StageType] /\ stage'[p] = s
    BY <2>1, <2>2, StagePut
  <2>4. /\ proc' \in [Procs -> ProcType] /\ OthersWait(p) /\ ControlOK(proc'[p])
        /\ proc[p].cmd = "restore" /\ SameJob(p) /\ proc'[p].pc = "save"
    BY <1>2, <2>1, SwapGoes DEF SwapSteps
  <2>5. data' \in Dir
    BY <1>1, <2>1 DEF StageType
  <2>6. ControlInv'
    BY <1>1, <1>2, <2>3, <2>4, <2>5, StepMade DEF Typed
  <2> QED
    BY <1>2, <1>4, <2>1, <2>2, <2>3, <2>4, <2>6
<1> QED
  BY <1>3, <1>4

LEMMA PutAsideDoes ==
  ASSUME ControlInv, NEW p \in Procs, PutAside(p)
  PROVE  /\ ControlInv' /\ config' = config /\ told' = told
         /\ proc[p].cmd = "restore" /\ proc[p].pc = "put aside"
         /\ SameJob(p) /\ proc'[p].pc = "put back"
         /\ IF data.there /\ ~stage[p].new.there THEN data' = NoDir ELSE data' = data
         /\ stage'[p].old = stage[p].old /\ stage'[p].from = stage[p].from
         /\ stage'[p].config = stage[p].config /\ stage'[p].was = stage[p].was
<1> DEFINE s == [stage[p] EXCEPT !.new = data]
<1>1. /\ Typed /\ stage[p] \in StageType /\ data \in Dir
  BY JobFacts
<1>2. /\ proc[p].pc = "put aside" /\ Goes(p, "put back") /\ config' = config
      /\ told' = told /\ SameLedger
  BY DEF PutAside, SameLedger
<1>3. /\ proc' \in [Procs -> ProcType] /\ OthersWait(p) /\ ControlOK(proc'[p])
      /\ proc[p].cmd = "restore" /\ SameJob(p) /\ proc'[p].pc = "put back"
  BY <1>2, SwapGoes DEF SwapSteps, Rollback
<1>4. CASE data.there /\ ~stage[p].new.there
  <2>1. data' = NoDir /\ stage' = [stage EXCEPT ![p] = s]
    BY <1>4 DEF PutAside
  <2>2. /\ s \in StageType /\ s.old = stage[p].old
        /\ s.from = stage[p].from /\ s.config = stage[p].config /\ s.was = stage[p].was
    BY <1>1 DEF StageType
  <2> HIDE DEF s
  <2>3. stage' \in [Procs -> StageType] /\ stage'[p] = s
    BY <2>1, <2>2, StagePut
  <2>4. ControlInv'
    BY <1>1, <1>2, <1>3, <2>1, <2>3, NoDirFacts, StepMade DEF Typed
  <2> QED
    BY <1>2, <1>3, <1>4, <2>1, <2>2, <2>3, <2>4
<1>5. CASE ~(data.there /\ ~stage[p].new.there)
  <2>1. data' = data /\ stage' = stage
    BY <1>5 DEF PutAside
  <2>2. ControlInv'
    BY <1>1, <1>2, <1>3, <2>1, StepMade DEF Typed
  <2> QED
    BY <1>2, <1>3, <1>5, <2>1, <2>2
<1> QED
  BY <1>4, <1>5

LEMMA PutBackDoes ==
  ASSUME ControlInv, NEW p \in Procs, PutBack(p)
  PROVE  /\ ControlInv' /\ config' = config /\ told' = told
         /\ proc[p].cmd = "restore" /\ proc[p].pc = "put back"
         /\ SameJob(p) /\ proc'[p].pc = "put config"
         /\ IF stage[p].old.there /\ ~data.there THEN data' = stage[p].old
            ELSE data' = data
         /\ stage'[p].from = stage[p].from
         /\ stage'[p].config = stage[p].config /\ stage'[p].was = stage[p].was
<1> DEFINE s == [stage[p] EXCEPT !.old = NoDir]
<1>1. /\ Typed /\ stage[p] \in StageType /\ data \in Dir
  BY JobFacts
<1>2. /\ proc[p].pc = "put back" /\ Goes(p, "put config") /\ config' = config
      /\ told' = told /\ SameLedger
  BY DEF PutBack, SameLedger
<1>3. /\ proc' \in [Procs -> ProcType] /\ OthersWait(p) /\ ControlOK(proc'[p])
      /\ proc[p].cmd = "restore" /\ SameJob(p) /\ proc'[p].pc = "put config"
  BY <1>2, SwapGoes DEF SwapSteps, Rollback
<1>4. CASE stage[p].old.there /\ ~data.there
  <2>1. data' = stage[p].old /\ stage' = [stage EXCEPT ![p] = s]
    BY <1>4 DEF PutBack
  <2>2. /\ s \in StageType
        /\ s.from = stage[p].from /\ s.config = stage[p].config /\ s.was = stage[p].was
    BY <1>1, NoDirFacts DEF StageType
  <2> HIDE DEF s
  <2>3. stage' \in [Procs -> StageType] /\ stage'[p] = s
    BY <2>1, <2>2, StagePut
  <2>4. data' \in Dir
    BY <1>1, <2>1 DEF StageType
  <2>5. ControlInv'
    BY <1>1, <1>2, <1>3, <2>3, <2>4, StepMade DEF Typed
  <2> QED
    BY <1>2, <1>3, <1>4, <2>1, <2>2, <2>3, <2>5
<1>5. CASE ~(stage[p].old.there /\ ~data.there)
  <2>1. data' = data /\ stage' = stage
    BY <1>5 DEF PutBack
  <2>2. ControlInv'
    BY <1>1, <1>2, <1>3, <2>1, StepMade DEF Typed
  <2> QED
    BY <1>2, <1>3, <1>5, <2>1, <2>2
<1> QED
  BY <1>4, <1>5

LEMMA PutConfigDoes ==
  ASSUME ControlInv, NEW p \in Procs, PutConfig(p)
  PROVE  /\ ControlInv' /\ data' = data /\ told' = told /\ stage' = stage
         /\ proc[p].cmd = "restore" /\ proc[p].pc = "put config"
         /\ SameJob(p) /\ proc'[p].pc = "failed"
         /\ config' = IF stage[p].config # NoConfig THEN stage[p].config ELSE config
<1>1. Typed /\ stage[p] \in StageType /\ config \in Config
  BY JobFacts
<1>2. /\ proc[p].pc = "put config" /\ Goes(p, "failed") /\ data' = data /\ told' = told
      /\ stage' = stage /\ SameLedger
      /\ config' = IF stage[p].config # NoConfig THEN stage[p].config ELSE config
  BY DEF PutConfig, SameLedger
<1>3. /\ proc' \in [Procs -> ProcType] /\ OthersWait(p) /\ ControlOK(proc'[p])
      /\ proc[p].cmd = "restore" /\ SameJob(p) /\ proc'[p].pc = "failed"
  BY <1>2, SwapGoes DEF SwapSteps, Rollback
<1>4. config' \in Config
  BY <1>1, <1>2 DEF StageType
<1>5. ControlInv'
  BY <1>1, <1>2, <1>3, <1>4, StepMade DEF Typed
<1> QED
  BY <1>2, <1>3, <1>5

LEMMA EndRestoreDoes ==
  ASSUME ControlInv, NEW p \in Procs, EndRestore(p)
  PROVE  /\ ControlInv' /\ SameDisk
         /\ proc'[p] = Idle /\ stage'[p] = NoStage
<1>1. Typed
  BY JobFacts
<1>2. /\ Ends(p) /\ SameDisk /\ SameLedger /\ stage' = [stage EXCEPT ![p] = NoStage]
  BY DEF EndRestore, SameDisk, SameLedger
<1>3. stage' \in [Procs -> StageType] /\ stage'[p] = NoStage
  BY <1>2, StageTyped, StagePut
<1>4. proc' \in [Procs -> ProcType] /\ OthersWait(p) /\ proc'[p] = Idle
  BY <1>1, <1>2, EndsThere
<1>5. ControlInv'
  BY <1>1, <1>2, <1>3, <1>4, IdleTyped, StepMade DEF Typed, SameDisk
<1> QED
  BY <1>2, <1>3, <1>4, <1>5

LEMMA RefusedDoes ==
  ASSUME ControlInv, NEW p \in Procs, Refused(p)
  PROVE  /\ ControlInv' /\ proc'[p] = Idle /\ proc[p].cmd # "restore"
         /\ config' = config /\ data' = data /\ stage' = stage /\ SamePromise
         /\ told'.cut = CutShort(p)
<1>1. /\ proc[p] \in ProcType /\ ControlOK(proc[p]) /\ Typed
  BY JobFacts
<1>2. Fails(p) /\ faults' = faults
  BY DEF Refused
<1>3. faults' \in 0..MaxFaults
  BY <1>1, <1>2 DEF Typed
<1>4. proc[p].pc \in {"choose", "found", "unlock", "value", "meta", "wrap",
                      "public key", "check"}
  BY DEF Refused
<1>5. proc[p].cmd # "restore"
  BY <1>1, <1>4 DEF ControlOK, SwapSteps, Rollback
<1> QED
  BY <1>2, <1>3, <1>5, FailsThere

LEMMA WriteFailsDoes ==
  ASSUME ControlInv, NEW p \in Procs, WriteFails(p)
  PROVE  /\ ControlInv' /\ config' = config /\ data' = data /\ stage' = stage
         /\ told'.may = told.may
         /\ told'.enrolled = told.enrolled /\ told'.removed = told.removed
         /\ told'.desc = told.desc
         /\ proc[p].cmd # "restore" =>
              proc'[p] = Idle /\ SamePromise /\ told'.cut = CutShort(p)
         /\ proc[p].cmd = "restore" =>
              /\ SameJob(p) /\ proc[p].pc \in DOMAIN AfterFailed
              /\ proc'[p].pc = AfterFailed[proc[p].pc]
              /\ told'.undone = (told.undone /\ proc[p].pc \notin Rollback)
              /\ told'.cut = told.cut
<1>1. /\ proc[p] \in ProcType /\ ControlOK(proc[p]) /\ Typed /\ told \in ToldType
  BY JobFacts
<1>2. faults < MaxFaults /\ faults' = faults + 1
  BY DEF WriteFails
<1>3. faults' \in 0..MaxFaults
  BY <1>1, <1>2, VaultAssumption DEF Typed
<1>4. CASE proc[p].cmd # "restore"
  <2>1. Fails(p)
    BY <1>4 DEF WriteFails
  <2> QED
    BY <1>3, <1>4, <2>1, FailsThere DEF SamePromise
<1>5. CASE proc[p].cmd = "restore"
  <2> DEFINE u == (told.undone /\ proc[p].pc \notin Rollback)
             pc == AfterFailed[proc[p].pc]
  <2>1. /\ proc[p].pc \in DOMAIN AfterFailed /\ Goes(p, pc)
        /\ told' = [told EXCEPT !.undone = u]
        /\ config' = config /\ data' = data /\ stage' = stage /\ count' = count
    BY <1>5 DEF WriteFails
  <2>2. pc \in SwapSteps /\ proc[p].pc \in SwapSteps
    BY <2>1 DEF AfterFailed, SwapSteps, Rollback
  <2>3. u \in BOOLEAN
    BY <1>1 DEF ToldType
  <2>4. u = (told.undone /\ proc[p].pc \notin Rollback) /\ pc = AfterFailed[proc[p].pc]
    OBVIOUS
  <2> HIDE DEF u, pc
  <2>5. /\ proc' \in [Procs -> ProcType] /\ OthersWait(p) /\ ControlOK(proc'[p])
        /\ SameJob(p) /\ proc'[p].pc = pc
    BY <1>5, <2>1, <2>2, SwapGoes
  <2>6. /\ told' \in ToldType /\ told'.may = told.may
        /\ told'.enrolled = told.enrolled /\ told'.removed = told.removed
        /\ told'.desc = told.desc /\ told'.undone = u /\ told'.cut = told.cut
    BY <1>1, <2>1, <2>3 DEF ToldType
  <2>7. Typed'
    BY <1>1, <1>3, <2>1, <2>5, <2>6 DEF Typed
  <2>8. ControlInv'
    BY <2>5, <2>7, ControlMade
  <2> QED
    BY <1>5, <2>1, <2>4, <2>5, <2>6, <2>8
<1> QED
  BY <1>4, <1>5

LEMMA DiesDoes ==
  ASSUME ControlInv, NEW p \in Procs, Dies(p)
  PROVE  /\ ControlInv' /\ proc'[p] = Idle /\ stage'[p] = NoStage
         /\ config' = config /\ data' = data /\ SamePromise /\ told'.cut = CutShort(p)
<1>1. Typed /\ told \in ToldType
  BY JobFacts
<1>2. /\ faults < MaxFaults /\ faults' = faults + 1 /\ Ends(p)
      /\ stage' = [stage EXCEPT ![p] = NoStage]
      /\ told' = [told EXCEPT !.cut = CutShort(p)]
      /\ config' = config /\ data' = data /\ count' = count
  BY DEF Dies
<1>3. faults' \in 0..MaxFaults
  BY <1>1, <1>2, VaultAssumption DEF Typed
<1>4. proc' \in [Procs -> ProcType] /\ OthersWait(p) /\ proc'[p] = Idle
  BY <1>1, <1>2, EndsThere
<1>5. CutShort(p) \in SUBSET Names
  BY CutShortTyped
<1>6. told' \in ToldType /\ SamePromise /\ told'.cut = CutShort(p)
  <2>1. /\ told' \in ToldType
        /\ told'.may = told.may /\ told'.enrolled = told.enrolled
        /\ told'.removed = told.removed /\ told'.undone = told.undone
        /\ told'.desc = told.desc /\ told'.cut = CutShort(p)
    BY <1>1, <1>2, <1>5, ToldCut
  <2> QED
    BY <2>1 DEF SamePromise
<1>7. stage' \in [Procs -> StageType] /\ stage'[p] = NoStage
  BY <1>2, StageTyped, StagePut
<1>8. Typed'
  BY <1>1, <1>2, <1>3, <1>4, <1>6, <1>7 DEF Typed
<1>9. ControlInv'
  BY <1>4, <1>8, IdleTyped, ControlMade
<1> QED
  BY <1>2, <1>4, <1>6, <1>7, <1>9

-----------------------------------------------------------------------------
(* Types and control hold of any number of processes.                      *)

LEMMA InitControl == Init => ControlInv
<1> SUFFICES ASSUME Init PROVE ControlInv
  OBVIOUS
<1>1. config \in Config /\ data \in Dir
  <2>1. CASE config = NoConfig /\ data = NoDir
    BY <2>1, NoDirFacts DEF Config
  <2>2. ASSUME NEW t \in Tiers, NEW v \in Values, NEW d \in Descs,
               config = [key |-> OwnKey, unlocks |-> {Desktop}],
               data = [there |-> TRUE, pub |-> OwnKey,
                       priv |-> [key |-> OwnKey, to |-> {Desktop}],
                       value |-> [n \in Names |-> [NoDir.value[n] EXCEPT
                                    ![t] = [key |-> OwnKey, val |-> v]]],
                       meta |-> [n \in Names |-> [NoDir.meta[n] EXCEPT ![t] = d]]]
        PROVE  config \in Config /\ data \in Dir
    <3>1. config \in Config
      BY <2>2, NoneApart, ConfigMade
    <3>2. [key |-> OwnKey, val |-> v] \in File
      BY NoneApart, FileMade
    <3>3. NoDir.value \in [Names -> [Tiers -> File]]
      BY NoDirFacts DEF Dir
    <3>4. NoDir.meta \in [Names -> [Tiers -> Descs \cup {None}]]
      BY NoDirFacts DEF Dir
    <3>5. [n \in Names |-> [NoDir.value[n] EXCEPT ![t] = [key |-> OwnKey, val |-> v]]]
            \in [Names -> [Tiers -> File]]
      BY <3>2, <3>3
    <3>6. [n \in Names |-> [NoDir.meta[n] EXCEPT ![t] = d]]
            \in [Names -> [Tiers -> Descs \cup {None}]]
      BY <3>4
    <3>7. [key |-> OwnKey, to |-> {Desktop}] \in [key : Keys \cup {None}, to : SUBSET Unlocks]
      BY NoneApart
    <3>8. data \in Dir
      BY <2>2, <3>5, <3>6, <3>7, NoneApart DEF Dir
    <3> QED
      BY <3>1, <3>8
  <2> QED
    BY <2>1, <2>2 DEF Init
<1>2. proc \in [Procs -> ProcType] /\ \A p \in Procs : proc[p] = Idle
  BY IdleTyped DEF Init
<1>3. stage \in [Procs -> StageType]
  BY StageTyped DEF Init
<1>4. told \in ToldType
  BY <1>1, FreshFacts DEF Init
<1>5. count \in 0..MaxCommands /\ faults \in 0..MaxFaults
  BY VaultAssumption DEF Init
<1> QED
  BY <1>1, <1>2, <1>3, <1>4, <1>5, IdleTyped DEF ControlInv, Typed

LEMMA ControlNext == ControlInv /\ [Next]_vars => ControlInv'
<1> SUFFICES ASSUME ControlInv, [Next]_vars PROVE ControlInv'
  OBVIOUS
<1>1. CASE UNCHANGED vars
  BY <1>1 DEF vars, ControlInv, Typed
<1>2. ASSUME NEW p \in Procs, Step(p) PROVE ControlInv'
  <2>1. CASE OpenSet(p) \/ OpenRemove(p) \/ OpenPhone(p) \/ OpenFCM(p)
    BY <2>1, OpenSetDoes, OpenRemoveDoes, OpenPhoneDoes, OpenFCMDoes
  <2>2. CASE BeginInit(p) \/ BeginRestore(p)
    BY <2>2, BeginInitDoes, BeginRestoreDoes
  <2>3. CASE LookPrivate(p)
    <3>1. Look(p, "look private", "private", "look public")
      BY <2>3 DEF LookPrivate
    <3> QED
      BY <3>1, LookDoes DEF Tiers
  <2>4. CASE LookPublic(p)
    <3> DEFINE next == IF proc[p].cmd = "set" THEN "choose" ELSE "found"
    <3>1. Look(p, "look public", "public", next)
      BY <2>4 DEF LookPublic
    <3>2. next \in {"look public", "choose", "found"}
      OBVIOUS
    <3> QED
      BY <3>1, <3>2, LookDoes DEF Tiers
  <2>5. CASE ChooseTier(p) \/ MakeTierDir(p) \/ WriteValue(p) \/ WriteMeta(p)
    BY <2>5, ChooseTierDoes, MakeTierDirDoes, WriteValueDoes, WriteMetaDoes
  <2>6. CASE Found(p) \/ DropValue(p) \/ DropMeta(p) \/ Stored(p)
    BY <2>6, FoundDoes, DropValueDoes, DropMetaDoes, StoredDoes
  <2>7. CASE Unlock(p) \/ Wrap(p) \/ Ensure(p) \/ WritePublicKey(p)
    BY <2>7, UnlockDoes, WrapDoes, EnsureDoes, WritePublicKeyDoes
  <2>8. CASE Save(p) \/ Enrolled(p)
    BY <2>8, SaveDoes, EnrolledDoes
  <2>9. CASE ReadConfig(p) \/ RemoveConfig(p) \/ MoveOut(p) \/ MoveIn(p)
    BY <2>9, ReadConfigDoes, RemoveConfigDoes, MoveOutDoes, MoveInDoes
  <2>10. CASE PutAside(p) \/ PutBack(p) \/ PutConfig(p) \/ EndRestore(p)
    BY <2>10, PutAsideDoes, PutBackDoes, PutConfigDoes, EndRestoreDoes
  <2> QED
    BY <1>2, <2>1, <2>2, <2>3, <2>4, <2>5, <2>6, <2>7, <2>8, <2>9, <2>10 DEF Step
<1>3. ASSUME NEW p \in Procs, Refused(p) \/ WriteFails(p) \/ Dies(p) PROVE ControlInv'
  BY <1>3, RefusedDoes, WriteFailsDoes, DiesDoes
<1> QED
  BY <1>1, <1>2, <1>3 DEF Next

LEMMA ControlTypes == ControlInv => TypeOK
<1> SUFFICES ASSUME ControlInv PROVE TypeOK
  OBVIOUS
<1>1. Typed
  BY DEF ControlInv
<1>2. \A p \in Procs :
        /\ proc[p].cfg \in Config /\ proc[p].found \subseteq Tiers
        /\ proc[p].name \in Names \cup {None}
        /\ stage[p].new \in Dir /\ stage[p].old \in Dir
  <2> SUFFICES ASSUME NEW p \in Procs
               PROVE  /\ proc[p].cfg \in Config /\ proc[p].found \subseteq Tiers
                      /\ proc[p].name \in Names \cup {None}
                      /\ stage[p].new \in Dir /\ stage[p].old \in Dir
    OBVIOUS
  <2>1. proc[p] \in ProcType /\ stage[p] \in StageType
    BY <1>1 DEF Typed
  <2> QED
    BY <2>1 DEF ProcType, StageType
<1>3. told.may \in [Names -> SUBSET (Values \cup {None})]
  BY <1>1 DEF Typed, ToldType
<1> QED
  BY <1>1, <1>2, <1>3 DEF TypeOK, Typed

\* However many processes run commands at once, and whatever fails or dies,
\* config.json and the data directory are ones the code's types allow: each
\* write replaces its file whole (paths.WriteFile).
THEOREM VaultTypes == Spec => []TypeOK
<1>1. Spec => []ControlInv
  BY InitControl, ControlNext, PTL DEF Spec
<1> QED
  BY <1>1, ControlTypes, PTL

-----------------------------------------------------------------------------
(* One process at a time: the parts of the invariant each step must keep.  *)

LEMMA PromiseSame ==
  ASSUME Disk, config' = config, data' = data,
         told'.may = told.may, told'.enrolled = told.enrolled,
         told'.removed = told.removed, told'.undone => told.undone
  PROVE  Disk'
BY DEF Disk, Promise, ThereOrNot, NoOrphans, Whole, Kept, UnlocksKept, Has

LEMMA DiskSame ==
  ASSUME Disk, SameDisk
  PROVE  Disk'
BY PromiseSame DEF SameDisk

LEMMA Over ==
  ASSUME NEW p \in Procs, proc'[p] = Idle, stage'[p] = NoStage
  PROVE  CommandOK(p)'
<1>1. proc'[p].cmd = "none"
  BY IdleTyped
<1> QED
  BY <1>1 DEF CommandOK, EditOK, RewrapOK, InitOK, RestoreOK, Editing, Rewrapping

LEMMA EditOnly ==
  ASSUME NEW p \in Procs, proc'[p].cmd \in Editing, stage'[p] = NoStage,
         EditOK(proc'[p], config', data')
  PROVE  CommandOK(p)'
BY DEF CommandOK, RewrapOK, InitOK, RestoreOK, Editing, Rewrapping

LEMMA RewrapOnly ==
  ASSUME NEW p \in Procs, proc'[p].cmd \in Rewrapping, stage'[p] = NoStage,
         RewrapOK(proc'[p], config', data', told')
  PROVE  CommandOK(p)'
BY DEF CommandOK, EditOK, InitOK, RestoreOK, Editing, Rewrapping

LEMMA InitOnly ==
  ASSUME NEW p \in Procs, proc'[p].cmd = "init", stage'[p] = NoStage,
         InitOK(proc'[p], config', data', told')
  PROVE  CommandOK(p)'
BY DEF CommandOK, EditOK, RewrapOK, RestoreOK, Editing, Rewrapping

LEMMA RestoreOnly ==
  ASSUME NEW p \in Procs, proc'[p].cmd = "restore",
         RestoreOK(proc'[p], stage'[p], config', data', told')
  PROVE  CommandOK(p)'
BY DEF CommandOK, EditOK, RewrapOK, InitOK, Editing, Rewrapping

LEMMA InvFacts ==
  ASSUME VaultInv, NEW p \in Procs
  PROVE  /\ ControlInv /\ Disk /\ ThereOrNot(data)
         /\ proc[p] \in ProcType /\ ControlOK(proc[p])
         /\ stage[p] \in StageType /\ data \in Dir /\ config \in Config
         /\ told \in ToldType
         /\ EditOK(proc[p], config, data)
         /\ RewrapOK(proc[p], config, data, told)
         /\ InitOK(proc[p], config, data, told)
         /\ RestoreOK(proc[p], stage[p], config, data, told)
         /\ proc[p].cmd # "restore" => stage[p] = NoStage
BY JobFacts DEF VaultInv, CommandOK, Disk

LEMMA BeginsKeep ==
  ASSUME VaultInv, NEW p \in Procs,
         OpenSet(p) \/ OpenRemove(p) \/ OpenPhone(p) \/ OpenFCM(p)
  PROVE  Disk' /\ CommandOK(p)'
<1>1. ControlInv /\ Disk /\ (proc[p].cmd # "restore" => stage[p] = NoStage)
  BY InvFacts
<1>2. CASE OpenSet(p) \/ OpenRemove(p)
  <2>1. /\ SameDisk /\ stage' = stage /\ proc[p].cmd = "none"
        /\ proc'[p].cmd \in Editing /\ proc'[p].pc = "look private"
        /\ proc'[p].cfg = config /\ proc'[p].found = {}
    BY <1>1, <1>2, OpenSetDoes, OpenRemoveDoes DEF Editing
  <2>2. EditOK(proc'[p], config', data')
    BY <2>1 DEF EditOK, SameDisk, Writing
  <2> QED
    BY <1>1, <2>1, <2>2, EditOnly, DiskSame
<1>3. CASE OpenPhone(p) \/ OpenFCM(p)
  <2>1. /\ SameDisk /\ stage' = stage /\ proc[p].cmd = "none"
        /\ proc'[p].cmd \in Rewrapping
        /\ \/ proc'[p].pc = "unlock"
           \/ proc'[p].pc = "save" /\ proc'[p].cmd = "fcm"
        /\ proc'[p].cfg = config
    BY <1>1, <1>3, OpenPhoneDoes, OpenFCMDoes DEF Rewrapping
  <2>2. RewrapOK(proc'[p], config', data', told')
    BY <2>1 DEF RewrapOK, SameDisk
  <2> QED
    BY <1>1, <2>1, <2>2, RewrapOnly, DiskSame
<1> QED
  BY <1>2, <1>3

LEMMA BeginInitKeeps ==
  ASSUME VaultInv, NEW p \in Procs, BeginInit(p)
  PROVE  Disk' /\ CommandOK(p)'
<1>1. ControlInv /\ Disk /\ (proc[p].cmd # "restore" => stage[p] = NoStage)
  BY InvFacts
<1>2. /\ SameDisk /\ stage' = stage /\ ~Existing /\ proc[p].cmd = "none"
      /\ proc'[p].cmd = "init" /\ proc'[p].pc = "ensure"
  BY <1>1, BeginInitDoes
<1>3. config = NoConfig /\ data.pub = None
  BY <1>2 DEF Existing
<1>4. told.undone => \A n \in Names, t \in Tiers : ~Has(data, n, t)
  BY <1>1, <1>3 DEF Disk, NoOrphans
<1>5. InitOK(proc'[p], config', data', told')
  BY <1>2, <1>3, <1>4 DEF InitOK, SameDisk
<1> QED
  BY <1>1, <1>2, <1>5, InitOnly, DiskSame

LEMMA BeginRestoreKeeps ==
  ASSUME VaultInv, NEW p \in Procs, BeginRestore(p)
  PROVE  Disk' /\ CommandOK(p)'
<1>1. ControlInv /\ Disk
  BY InvFacts
<1>2. /\ SameDisk
      /\ proc'[p].cmd = "restore" /\ proc'[p].pc = "read"
      /\ stage'[p].from.there /\ stage'[p].from.pub = proc'[p].cfg.key
      /\ \A n \in Names, t \in Tiers : Has(stage'[p].from, n, t) =>
           stage'[p].from.value[n][t].key = proc'[p].cfg.key
      /\ stage'[p].new = New(proc'[p], stage'[p])
  BY <1>1, BeginRestoreDoes
<1>3. RestoreOK(proc'[p], stage'[p], config', data', told')
  BY <1>2 DEF RestoreOK
<1> QED
  BY <1>1, <1>2, <1>3, RestoreOnly, DiskSame

-----------------------------------------------------------------------------
(* set and rm.                                                             *)

LEMMA LooksKeep ==
  ASSUME VaultInv, NEW p \in Procs, LookPrivate(p) \/ LookPublic(p)
  PROVE  Disk' /\ CommandOK(p)'
<1>1. /\ ControlInv /\ Disk /\ EditOK(proc[p], config, data)
      /\ ThereOrNot(data) /\ ControlOK(proc[p])
      /\ proc[p].cmd # "restore" => stage[p] = NoStage
  BY InvFacts
<1>2. \A n \in Names, t \in Tiers : Has(data, n, t) => data.there
  BY <1>1, NoDirFacts DEF ThereOrNot
<1>3. CASE LookPrivate(p)
  <2>1. Look(p, "look private", "private", "look public")
    BY <1>3 DEF LookPrivate
  <2>2. /\ SameDisk /\ stage' = stage
        /\ proc[p].cmd \in Editing /\ proc[p].pc = "look private"
        /\ SameJob(p) /\ proc'[p].pc = "look public" /\ proc'[p].tier = proc[p].tier
        /\ proc'[p].found = IF Has(data, proc[p].name, "private")
                            THEN proc[p].found \cup {"private"} ELSE proc[p].found
    BY <1>1, <2>1, LookDoes DEF Tiers
  <2>3. proc[p].name \in Names
    BY <1>1, <2>2 DEF ControlOK, Editing
  <2>4. proc[p].found = {} /\ config = proc[p].cfg
    BY <1>1, <2>2 DEF EditOK
  <2>5. EditOK(proc'[p], config', data')
    BY <1>2, <2>2, <2>3, <2>4 DEF EditOK, SameDisk, SameJob, Tiers, Writing
  <2> QED
    BY <1>1, <2>2, <2>5, EditOnly, DiskSame DEF SameJob, Editing
<1>4. CASE LookPublic(p)
  <2> DEFINE next == IF proc[p].cmd = "set" THEN "choose" ELSE "found"
  <2>1. Look(p, "look public", "public", next) /\ next \in {"choose", "found"}
    BY <1>4 DEF LookPublic
  <2>2. next = IF proc[p].cmd = "set" THEN "choose" ELSE "found"
    OBVIOUS
  <2> HIDE DEF next
  <2>3. /\ SameDisk /\ stage' = stage
        /\ proc[p].cmd \in Editing /\ proc[p].pc = "look public"
        /\ SameJob(p) /\ proc'[p].pc = next /\ proc'[p].tier = proc[p].tier
        /\ proc'[p].found = IF Has(data, proc[p].name, "public")
                            THEN proc[p].found \cup {"public"} ELSE proc[p].found
    BY <1>1, <2>1, <2>2, LookDoes DEF Tiers
  <2>4. proc[p].name \in Names
    BY <1>1, <2>3 DEF ControlOK, Editing
  <2>5. /\ config = proc[p].cfg /\ (proc[p].found # {} => data.there)
        /\ \A t \in Tiers : t \in proc[p].found <=>
             t = "private" /\ Has(data, proc[p].name, t)
    BY <1>1, <2>3 DEF EditOK
  <2>6. proc[p].found \in SUBSET Tiers
    BY InvFacts DEF ProcType
  <2>7. EditOK(proc'[p], config', data')
    BY <1>2, <2>1, <2>3, <2>4, <2>5, <2>6 DEF EditOK, SameDisk, SameJob, Tiers, Writing
  <2> QED
    BY <1>1, <2>3, <2>7, EditOnly, DiskSame DEF SameJob, Editing
<1> QED
  BY <1>3, <1>4

LEMMA ChooseTierKeeps ==
  ASSUME VaultInv, NEW p \in Procs, ChooseTier(p)
  PROVE  Disk' /\ CommandOK(p)'
<1>1. /\ ControlInv /\ Disk /\ EditOK(proc[p], config, data)
      /\ proc[p].cmd # "restore" => stage[p] = NoStage
  BY InvFacts
<1>2. /\ SameDisk /\ stage' = stage
      /\ proc[p].cmd = "set" /\ proc[p].pc = "choose"
      /\ SameJob(p) /\ proc'[p].pc = "mkdir" /\ proc'[p].found = proc[p].found
  BY <1>1, ChooseTierDoes
<1>3. EditOK(proc'[p], config', data')
  BY <1>1, <1>2 DEF EditOK, SameDisk, SameJob, Writing, Editing
<1> QED
  BY <1>1, <1>2, <1>3, EditOnly, DiskSame DEF SameJob, Editing

\* A step of set or rm that leaves the keys alone keeps the promises if it
\* leaves each secret one of the values it may have.
LEMMA PromiseEdited ==
  ASSUME Disk, config \in Config, config' = config, data \in Dir,
         data'.there, data'.pub = data.pub, data'.priv = data.priv,
         told'.enrolled = told.enrolled, told'.removed = told.removed,
         told'.undone = told.undone,
         told.undone =>
           /\ \A n \in Names, t \in Tiers : Has(data', n, t) =>
                config # NoConfig /\ data'.value[n][t].key = config.key
           /\ config # NoConfig /\ Kept(data, told.may) => Kept(data', told'.may)
  PROVE  Disk'
<1>1. ThereOrNot(data')
  BY DEF ThereOrNot
<1>2. ASSUME told.undone PROVE Promise(config', data', told')
  BY <1>2 DEF Disk, Promise, Whole, UnlocksKept
<1>3. ASSUME told.undone PROVE NoOrphans(data')
  <2>1. config # NoConfig => data.pub \in Keys
    BY <1>3, ConfigFacts DEF Disk, Promise, Whole
  <2> QED
    BY <1>3, <2>1, NoneApart DEF NoOrphans
<1> QED
  BY <1>1, <1>2, <1>3 DEF Disk

LEMMA SameValues ==
  ASSUME Disk, config # NoConfig, data'.value = data.value, told' = told
  PROVE  told.undone =>
           /\ \A n \in Names, t \in Tiers : Has(data', n, t) =>
                config # NoConfig /\ data'.value[n][t].key = config.key
           /\ config # NoConfig /\ Kept(data, told.may) => Kept(data', told'.may)
BY DEF Disk, Promise, Whole, Kept, Has

LEMMA MakeTierDirKeeps ==
  ASSUME VaultInv, NEW p \in Procs, MakeTierDir(p)
  PROVE  Disk' /\ CommandOK(p)'
<1>1. /\ ControlInv /\ Disk /\ EditOK(proc[p], config, data)
      /\ proc[p].cmd # "restore" => stage[p] = NoStage
      /\ data \in Dir /\ config \in Config /\ ControlOK(proc[p])
  BY InvFacts
<1>2. /\ stage' = stage /\ config' = config /\ told' = told
      /\ data' = [data EXCEPT !.there = TRUE]
      /\ proc[p].cmd = "set" /\ proc[p].pc = "mkdir"
      /\ SameJob(p) /\ SameFound(p) /\ proc'[p].pc = "value"
  BY <1>1, MakeTierDirDoes
<1>3. /\ data'.there
      /\ data'.pub = data.pub /\ data'.priv = data.priv /\ data'.value = data.value
  BY <1>1, <1>2, ThereSet
<1>4. EditOK(proc'[p], config', data')
  BY <1>1, <1>2, <1>3 DEF EditOK, SameJob, SameFound, Writing, Editing, Has
<1>5. config # NoConfig
  BY <1>1, <1>2 DEF EditOK, Editing, ControlOK
<1>6. told.undone =>
        /\ \A n \in Names, t \in Tiers : Has(data', n, t) =>
             config # NoConfig /\ data'.value[n][t].key = config.key
        /\ config # NoConfig /\ Kept(data, told.may) => Kept(data', told'.may)
  BY <1>1, <1>2, <1>3, <1>5, SameValues
<1>7. Disk'
  BY <1>1, <1>2, <1>3, <1>6, PromiseEdited
<1> QED
  BY <1>1, <1>2, <1>4, <1>7, EditOnly DEF SameJob, Editing

LEMMA WriteValueKeeps ==
  ASSUME VaultInv, NEW p \in Procs, WriteValue(p)
  PROVE  Disk' /\ CommandOK(p)'
<1> DEFINE n == proc[p].name
           t == proc[p].tier
           f == [key |-> proc[p].cfg.key, val |-> proc[p].val]
<1>1. /\ ControlInv /\ Disk /\ EditOK(proc[p], config, data)
      /\ proc[p].cmd # "restore" => stage[p] = NoStage
      /\ data \in Dir /\ config \in Config /\ ControlOK(proc[p])
  BY InvFacts
<1>2. /\ stage' = stage /\ config' = config
      /\ proc[p].cmd = "set" /\ proc[p].pc = "value"
      /\ n \in Names /\ t \in Tiers
      /\ proc[p].cfg.key \in Keys /\ proc[p].val \in Values
      /\ SameJob(p) /\ SameFound(p) /\ proc'[p].pc = "meta"
      /\ data.there
      /\ data' = [data EXCEPT !.value[n][t] = f]
      /\ told'.may[n] = told.may[n] \cup {proc[p].val}
      /\ \A m \in Names \ {n} : told'.may[m] = told.may[m]
      /\ told'.undone = told.undone
      /\ told'.enrolled = told.enrolled /\ told'.removed = told.removed
  BY <1>1, WriteValueDoes
<1>3. f \in File /\ f # NoFile /\ f.val = proc[p].val /\ f.key = proc[p].cfg.key
  BY <1>2, FileMade
<1>4. n = proc[p].name /\ t = proc[p].tier
  OBVIOUS
<1> HIDE DEF f, n, t
<1>5. /\ data'.there = data.there /\ data'.pub = data.pub /\ data'.priv = data.priv
      /\ data'.value[n][t] = f
      /\ \A m \in Names, u \in Tiers :
           m # n \/ u # t => data'.value[m][u] = data.value[m][u]
  <2>1. data \in Dir /\ n \in Names /\ t \in Tiers /\ f \in File
    BY <1>1, <1>2, <1>3
  <2>2. data' = PutValue(data, n, t, f)
    BY <1>2 DEF PutValue
  <2> QED
    BY <2>1, <2>2, PutValueDoes
<1>6. /\ config = proc[p].cfg /\ (proc[p].found # {} => data.there)
      /\ \A u \in Tiers : u \in proc[p].found <=> Has(data, n, u)
  BY <1>1, <1>2, <1>4 DEF EditOK, Editing
<1>7. EditOK(proc'[p], config', data')
  BY <1>2, <1>3, <1>4, <1>5, <1>6 DEF EditOK, SameJob, SameFound, Writing, Editing, Has
<1>8. config # NoConfig
  BY <1>1, <1>2, <1>6 DEF ControlOK
<1>9. \A m \in Names, u \in Tiers : told.undone /\ Has(data', m, u) =>
         config # NoConfig /\ data'.value[m][u].key = config.key
  BY <1>1, <1>3, <1>5, <1>6, <1>8 DEF Disk, Promise, Whole, Has
<1>10. Kept(data, told.may) => Kept(data', told'.may)
  <2> SUFFICES ASSUME Kept(data, told.may), NEW m \in Names
               PROVE  /\ \A u \in Tiers : Has(data', m, u) =>
                           data'.value[m][u].val \in told'.may[m]
                      /\ None \notin told'.may[m] => \E u \in Tiers : Has(data', m, u)
    BY DEF Kept
  <2>1. CASE m = n
    BY <1>2, <1>3, <1>5, <2>1 DEF Kept, Has
  <2>2. CASE m # n
    BY <1>2, <1>5, <2>2 DEF Kept, Has
  <2> QED
    BY <2>1, <2>2
<1>11. Disk'
  BY <1>1, <1>2, <1>5, <1>9, <1>10, PromiseEdited
<1> QED
  BY <1>1, <1>2, <1>7, <1>11, EditOnly DEF SameJob, Editing

LEMMA WriteMetaKeeps ==
  ASSUME VaultInv, NEW p \in Procs, WriteMeta(p)
  PROVE  Disk' /\ CommandOK(p)'
<1>1. /\ ControlInv /\ Disk /\ EditOK(proc[p], config, data)
      /\ proc[p].cmd # "restore" => stage[p] = NoStage
      /\ data \in Dir /\ config \in Config /\ ControlOK(proc[p])
  BY InvFacts
<1> DEFINE x == IF proc[p].desc # None THEN proc[p].desc ELSE proc[p].meta
<1>2. /\ stage' = stage /\ config' = config /\ told' = told
      /\ proc[p].cmd = "set" /\ proc[p].pc = "meta"
      /\ proc[p].name \in Names /\ proc[p].tier \in Tiers
      /\ SameJob(p) /\ proc'[p].pc = "drop" /\ proc'[p].tier = proc[p].tier
      /\ proc'[p].found = proc[p].found \ {proc[p].tier}
      /\ data.there /\ x \in Descs
      /\ data' = [data EXCEPT !.meta[proc[p].name][proc[p].tier] = x]
  BY <1>1, WriteMetaDoes
<1> HIDE DEF x
<1>3. /\ data'.there /\ data'.pub = data.pub /\ data'.priv = data.priv
      /\ data'.value = data.value
  BY <1>1, <1>2, MetaSet
<1>4. EditOK(proc'[p], config', data')
  BY <1>1, <1>2, <1>3 DEF EditOK, SameJob, Writing, Editing, Has
<1>5. config # NoConfig
  BY <1>1, <1>2 DEF EditOK, Editing, ControlOK
<1>6. told.undone =>
        /\ \A n \in Names, t \in Tiers : Has(data', n, t) =>
             config # NoConfig /\ data'.value[n][t].key = config.key
        /\ config # NoConfig /\ Kept(data, told.may) => Kept(data', told'.may)
  BY <1>1, <1>2, <1>3, <1>5, SameValues
<1>7. Disk'
  BY <1>1, <1>2, <1>3, <1>6, PromiseEdited
<1> QED
  BY <1>1, <1>2, <1>4, <1>7, EditOnly DEF SameJob, Editing

LEMMA FoundKeeps ==
  ASSUME VaultInv, NEW p \in Procs, Found(p)
  PROVE  Disk' /\ CommandOK(p)'
<1>1. /\ ControlInv /\ Disk /\ EditOK(proc[p], config, data)
      /\ proc[p].cmd # "restore" => stage[p] = NoStage
      /\ proc[p] \in ProcType
  BY InvFacts
<1>2. /\ SameDisk /\ stage' = stage
      /\ proc[p].cmd = "rm" /\ proc[p].pc = "found"
      /\ SameJob(p) /\ SameFound(p) /\ proc'[p].pc = "drop"
      /\ proc[p].tier = None
  BY <1>1, FoundDoes
<1>3. proc[p].tier \notin proc[p].found
  BY <1>1, <1>2, NoneApart DEF ProcType
<1>4. EditOK(proc'[p], config', data')
  BY <1>1, <1>2, <1>3 DEF EditOK, SameDisk, SameJob, SameFound, Writing, Editing
<1> QED
  BY <1>1, <1>2, <1>4, EditOnly, DiskSame DEF SameJob, Editing

LEMMA DropValueKeeps ==
  ASSUME VaultInv, NEW p \in Procs, DropValue(p)
  PROVE  Disk' /\ CommandOK(p)'
<1> DEFINE n == proc[p].name
           t == First(proc[p].found)
<1>1. /\ ControlInv /\ Disk /\ EditOK(proc[p], config, data)
      /\ proc[p].cmd # "restore" => stage[p] = NoStage
      /\ data \in Dir /\ config \in Config /\ ControlOK(proc[p])
  BY InvFacts
<1>2. /\ stage' = stage /\ config' = config
      /\ proc[p].cmd \in Editing /\ proc[p].pc = "drop" /\ proc[p].found # {}
      /\ n \in Names /\ t \in proc[p].found /\ t \in Tiers
      /\ SameJob(p) /\ SameFound(p) /\ proc'[p].pc = "drop meta"
      /\ data' = [data EXCEPT !.value[n][t] = NoFile]
      /\ proc[p].cmd = "set" => told' = told
      /\ proc[p].cmd = "rm" =>
           /\ told'.may[n] = told.may[n] \cup {None}
           /\ \A m \in Names \ {n} : told'.may[m] = told.may[m]
           /\ told'.enrolled = told.enrolled /\ told'.removed = told.removed
           /\ told'.undone = told.undone
  BY <1>1, DropValueDoes
<1>3. n = proc[p].name /\ t = First(proc[p].found)
  OBVIOUS
<1>4. NoFile \in File
  BY DEF File
<1> HIDE DEF n, t
<1>5. /\ data'.there = data.there /\ data'.pub = data.pub /\ data'.priv = data.priv
      /\ data'.value[n][t] = NoFile
      /\ \A m \in Names, u \in Tiers :
           m # n \/ u # t => data'.value[m][u] = data.value[m][u]
  <2>1. data \in Dir /\ n \in Names /\ t \in Tiers
    BY <1>1, <1>2
  <2>2. data' = PutValue(data, n, t, NoFile)
    BY <1>2 DEF PutValue
  <2> QED
    BY <1>4, <2>1, <2>2, PutValueDoes
<1>6. /\ config = proc[p].cfg /\ data.there
      /\ \A u \in Tiers \ {proc[p].tier} : Has(data, n, u) => u \in proc[p].found
      /\ proc[p].tier \notin proc[p].found
      /\ proc[p].cmd = "set" =>
           Has(data, n, proc[p].tier) /\ data.value[n][proc[p].tier].val = proc[p].val
  BY <1>1, <1>2, <1>3 DEF EditOK, Writing
<1>7. proc[p].cmd = "set" => proc[p].tier \in Tiers
  BY <1>1, <1>2 DEF ControlOK, Writing
<1>8. EditOK(proc'[p], config', data')
  <2>1. \A u \in Tiers \ {proc[p].tier} : Has(data', n, u) => u \in proc[p].found \ {t}
    BY <1>2, <1>5, <1>6 DEF Has
  <2>2. proc[p].cmd = "set" =>
          Has(data', n, proc[p].tier) /\ data'.value[n][proc[p].tier].val = proc[p].val
    BY <1>2, <1>5, <1>6, <1>7 DEF Has
  <2> QED
    BY <1>2, <1>3, <1>5, <1>6, <2>1, <2>2 DEF EditOK, SameJob, SameFound
<1>9. config # NoConfig
  BY <1>1, <1>2, <1>6 DEF ControlOK, Editing
<1>10. \A m \in Names, u \in Tiers : told.undone /\ Has(data', m, u) =>
         config # NoConfig /\ data'.value[m][u].key = config.key
  BY <1>1, <1>5, <1>9 DEF Disk, Promise, Whole, Has
<1>11. Kept(data, told.may) => Kept(data', told'.may)
  <2> SUFFICES ASSUME Kept(data, told.may), NEW m \in Names
               PROVE  /\ \A u \in Tiers : Has(data', m, u) =>
                           data'.value[m][u].val \in told'.may[m]
                      /\ None \notin told'.may[m] => \E u \in Tiers : Has(data', m, u)
    BY DEF Kept
  <2>1. CASE m # n
    <3>1. told'.may[m] = told.may[m]
      BY <1>2, <2>1 DEF Editing
    <3> QED
      BY <1>5, <2>1, <3>1 DEF Kept, Has
  <2>2. CASE m = n /\ proc[p].cmd = "rm"
    BY <1>2, <1>5, <2>2 DEF Kept, Has
  <2>3. CASE m = n /\ proc[p].cmd = "set"
    <3>1. Has(data', n, proc[p].tier)
      BY <1>2, <1>5, <1>6, <1>7, <2>3 DEF Has
    <3>2. \A u \in Tiers : Has(data', m, u) => data'.value[m][u].val \in told'.may[m]
      BY <1>2, <1>5, <2>3 DEF Kept, Has
    <3> QED
      BY <1>7, <2>3, <3>1, <3>2
  <2> QED
    BY <1>2, <2>1, <2>2, <2>3 DEF Editing
<1>12. /\ told'.enrolled = told.enrolled /\ told'.removed = told.removed
       /\ told'.undone = told.undone
  BY <1>2 DEF Editing
<1>13. Disk'
  BY <1>1, <1>2, <1>5, <1>6, <1>10, <1>11, <1>12, PromiseEdited
<1> QED
  BY <1>1, <1>2, <1>8, <1>13, EditOnly DEF SameJob, Editing

LEMMA DropMetaKeeps ==
  ASSUME VaultInv, NEW p \in Procs, DropMeta(p)
  PROVE  Disk' /\ CommandOK(p)'
<1>1. /\ ControlInv /\ Disk /\ EditOK(proc[p], config, data)
      /\ proc[p].cmd # "restore" => stage[p] = NoStage
      /\ data \in Dir /\ config \in Config /\ ControlOK(proc[p])
  BY InvFacts
<1>2. /\ stage' = stage /\ config' = config /\ told' = told
      /\ proc[p].cmd \in Editing /\ proc[p].pc = "drop meta"
      /\ proc[p].name \in Names /\ First(proc[p].found) \in Tiers
      /\ SameJob(p) /\ proc'[p].pc = "drop" /\ proc'[p].tier = proc[p].tier
      /\ proc'[p].found = proc[p].found \ {First(proc[p].found)}
      /\ data' = [data EXCEPT !.meta[proc[p].name][First(proc[p].found)] = None]
  BY <1>1, DropMetaDoes
<1>3. /\ data'.there = data.there /\ data'.pub = data.pub /\ data'.priv = data.priv
      /\ data'.value = data.value
  <2> DEFINE n == proc[p].name
             t == First(proc[p].found)
  <2>1. data \in Dir /\ n \in Names /\ t \in Tiers
    BY <1>1, <1>2
  <2>2. data' = [data EXCEPT !.meta[n][t] = None]
    BY <1>2
  <2> HIDE DEF n, t
  <2> QED
    BY <2>1, <2>2, MetaSet
<1>4. data.there
  BY <1>1, <1>2 DEF EditOK
<1>5. EditOK(proc'[p], config', data')
  BY <1>1, <1>2, <1>3, <1>4 DEF EditOK, SameJob, Writing, Editing, Has
<1>6. config # NoConfig
  BY <1>1, <1>2 DEF EditOK, Editing, ControlOK
<1>7. told.undone =>
        /\ \A n \in Names, t \in Tiers : Has(data', n, t) =>
             config # NoConfig /\ data'.value[n][t].key = config.key
        /\ config # NoConfig /\ Kept(data, told.may) => Kept(data', told'.may)
  BY <1>1, <1>2, <1>3, <1>6, SameValues
<1>8. Disk'
  BY <1>1, <1>2, <1>3, <1>4, <1>7, PromiseEdited
<1> QED
  BY <1>1, <1>2, <1>5, <1>8, EditOnly DEF SameJob, Editing

LEMMA StoredKeeps ==
  ASSUME VaultInv, NEW p \in Procs, Stored(p)
  PROVE  Disk' /\ CommandOK(p)'
<1> DEFINE n == proc[p].name
<1>1. /\ ControlInv /\ Disk /\ EditOK(proc[p], config, data)
      /\ proc[p].cmd # "restore" => stage[p] = NoStage
      /\ ControlOK(proc[p])
  BY InvFacts
<1>2. /\ stage' = stage /\ config' = config /\ data' = data
      /\ proc[p].cmd \in Editing /\ proc[p].pc = "drop" /\ proc[p].found = {}
      /\ n \in Names
      /\ proc'[p] = Idle
      /\ told'.may[n] = IF proc[p].cmd = "rm" THEN {None} ELSE {proc[p].val}
      /\ \A m \in Names \ {n} : told'.may[m] = told.may[m]
      /\ told'.enrolled = told.enrolled /\ told'.removed = told.removed
      /\ told'.undone = told.undone
  BY <1>1, StoredDoes
<1>3. /\ \A u \in Tiers \ {proc[p].tier} : ~Has(data, n, u)
      /\ proc[p].cmd = "set" =>
           Has(data, n, proc[p].tier) /\ data.value[n][proc[p].tier].val = proc[p].val
  BY <1>1, <1>2 DEF EditOK, Writing
<1>4. /\ proc[p].cmd = "set" => proc[p].tier \in Tiers
      /\ proc[p].cmd = "rm" => proc[p].tier \notin Tiers
  BY <1>1, <1>2, NoneApart DEF ControlOK, Writing
<1>5. Kept(data, told.may) => Kept(data, told'.may)
  <2> SUFFICES ASSUME Kept(data, told.may), NEW m \in Names
               PROVE  /\ \A u \in Tiers : Has(data, m, u) =>
                           data.value[m][u].val \in told'.may[m]
                      /\ None \notin told'.may[m] => \E u \in Tiers : Has(data, m, u)
    BY DEF Kept
  <2>1. CASE m # n
    BY <1>2, <2>1 DEF Kept
  <2>2. CASE m = n /\ proc[p].cmd = "rm"
    BY <1>2, <1>3, <1>4, <2>2
  <2>3. CASE m = n /\ proc[p].cmd = "set"
    BY <1>2, <1>3, <1>4, <2>3
  <2> QED
    BY <1>2, <2>1, <2>2, <2>3 DEF Editing
<1>6. Disk'
  BY <1>1, <1>2, <1>5 DEF Disk, Promise, UnlocksKept
<1>7. proc[p].cmd # "restore"
  BY <1>2 DEF Editing
<1> QED
  BY <1>1, <1>2, <1>6, <1>7, Over

-----------------------------------------------------------------------------
(* init, phone enroll, phone rm and phone fcm.                             *)

LEMMA UnlockKeeps ==
  ASSUME VaultInv, NEW p \in Procs, Unlock(p)
  PROVE  Disk' /\ CommandOK(p)'
<1>1. /\ ControlInv /\ Disk /\ RewrapOK(proc[p], config, data, told)
      /\ proc[p].cmd # "restore" => stage[p] = NoStage
  BY InvFacts
<1>2. /\ SameDisk /\ stage' = stage
      /\ proc[p].cmd \in {"enroll", "phone rm"} /\ proc[p].pc = "unlock"
      /\ SameJob(p) /\ proc'[p].pc = "wrap"
  BY <1>1, UnlockDoes
<1>3. RewrapOK(proc'[p], config', data', told')
  BY <1>1, <1>2 DEF RewrapOK, SameDisk, SameJob, Rewrapping
<1> QED
  BY <1>1, <1>2, <1>3, RewrapOnly, DiskSame DEF SameJob, Rewrapping

LEMMA WrapKeeps ==
  ASSUME VaultInv, NEW p \in Procs, Wrap(p)
  PROVE  Disk' /\ CommandOK(p)'
<1> DEFINE us == NewUnlocks(p)
           k == proc[p].cfg.key
           u == proc[p].phone
<1>1. /\ ControlInv /\ Disk /\ RewrapOK(proc[p], config, data, told)
      /\ InitOK(proc[p], config, data, told)
      /\ proc[p].cmd # "restore" => stage[p] = NoStage
      /\ data \in Dir /\ config \in Config /\ ControlOK(proc[p])
  BY InvFacts
<1>2. /\ stage' = stage /\ config' = config
      /\ proc[p].cmd \in {"enroll", "phone rm", "init"} /\ proc[p].pc = "wrap"
      /\ SameJob(p) /\ proc'[p].pc = "save"
      /\ data.there /\ us \in SUBSET Unlocks /\ k \in Keys
      /\ data' = [data EXCEPT !.priv = [key |-> k, to |-> us]]
      /\ told'.enrolled = told.enrolled \ {u}
      /\ told'.removed = told.removed \ {u}
      /\ told'.may = told.may /\ told'.undone = told.undone
  BY <1>1, WrapDoes
<1>3. /\ proc[p].cmd = "enroll" => us = proc[p].cfg.unlocks \cup {u}
      /\ proc[p].cmd = "phone rm" => us = proc[p].cfg.unlocks \ {u}
      /\ proc[p].cmd = "init" => us = proc[p].cfg.unlocks
  BY <1>1, NewUnlocksTyped
<1>4. k = proc[p].cfg.key /\ u = proc[p].phone
  OBVIOUS
<1> HIDE DEF us, k, u
<1>5. /\ data'.priv.key = k /\ data'.priv.to = us /\ data'.priv = [key |-> k, to |-> us]
      /\ data'.there = data.there /\ data'.pub = data.pub /\ data'.value = data.value
  <2>1. data \in Dir /\ k \in Keys /\ us \in SUBSET Unlocks
    BY <1>1, <1>2
  <2>2. data' = [data EXCEPT !.priv = [key |-> k, to |-> us]]
    BY <1>2
  <2> QED
    BY <2>1, <2>2, PrivSet
<1>6. ThereOrNot(data') /\ (told'.undone => NoOrphans(data'))
  BY <1>1, <1>2, <1>5 DEF Disk, ThereOrNot, NoOrphans, Has
<1>7. CASE proc[p].cmd = "init"
  <2>1. /\ config = NoConfig /\ proc[p].cfg = [key |-> OwnKey, unlocks |-> {Desktop}]
        /\ data.pub = OwnKey
        /\ told.undone => \A n \in Names, t \in Tiers : ~Has(data, n, t)
    BY <1>1, <1>2, <1>7 DEF InitOK, ControlOK
  <2>2. data'.priv = [key |-> OwnKey, to |-> {Desktop}]
    BY <1>3, <1>4, <1>5, <1>7, <2>1
  <2>3. InitOK(proc'[p], config', data', told')
    BY <1>2, <1>5, <2>1, <2>2 DEF InitOK, Has
  <2>4. Disk'
    BY <1>2, <1>6, <2>1 DEF Disk, Promise
  <2> QED
    BY <1>1, <1>2, <1>7, <2>3, <2>4, InitOnly DEF SameJob
<1>8. CASE proc[p].cmd \in {"enroll", "phone rm"}
  <2>1. config.key = k /\ config.unlocks = proc[p].cfg.unlocks
    BY <1>1, <1>2, <1>4, <1>8 DEF RewrapOK, Rewrapping
  <2>2. config # NoConfig
    BY <1>1, <1>2, <2>1, ConfigFacts, NoneApart
  <2>3. u # Desktop
    BY <1>1, <1>4, <1>8, NoneApart DEF ControlOK
  <2>4. ASSUME told.undone
        PROVE  /\ Whole(config, data') /\ Kept(data', told'.may)
               /\ UnlocksKept(config, data', told'.enrolled, told'.removed)
    <3>1. /\ Whole(config, data) /\ Kept(data, told.may)
          /\ UnlocksKept(config, data, told.enrolled, told.removed)
      BY <1>1, <2>2, <2>4 DEF Disk, Promise
    <3>2. Whole(config, data')
      BY <1>5, <2>1, <3>1 DEF Whole, Has
    <3>3. Kept(data', told'.may)
      BY <1>2, <1>5, <3>1 DEF Kept, Has
    <3>4. UnlocksKept(config, data', told'.enrolled, told'.removed)
      BY <1>2, <1>3, <1>5, <1>8, <2>1, <2>3, <3>1 DEF UnlocksKept
    <3> QED
      BY <3>2, <3>3, <3>4
  <2>5. Disk'
    BY <1>2, <1>6, <2>4 DEF Disk, Promise
  <2>6. RewrapOK(proc'[p], config', data', told')
    BY <1>2, <1>3, <1>4, <1>5, <1>8, <2>1 DEF RewrapOK, SameJob, Rewrapping
  <2> QED
    BY <1>1, <1>2, <1>8, <2>5, <2>6, RewrapOnly DEF SameJob, Rewrapping
<1> QED
  BY <1>2, <1>7, <1>8

LEMMA EnsureKeeps ==
  ASSUME VaultInv, NEW p \in Procs, Ensure(p)
  PROVE  Disk' /\ CommandOK(p)'
<1>1. /\ ControlInv /\ Disk /\ InitOK(proc[p], config, data, told)
      /\ proc[p].cmd # "restore" => stage[p] = NoStage
      /\ data \in Dir
  BY InvFacts
<1>2. /\ stage' = stage /\ config' = config /\ told' = told
      /\ data' = [data EXCEPT !.there = TRUE]
      /\ proc[p].cmd = "init" /\ proc[p].pc = "ensure"
      /\ SameJob(p) /\ proc'[p].pc = "public key"
  BY <1>1, EnsureDoes
<1>3. /\ data'.there
      /\ data'.pub = data.pub /\ data'.priv = data.priv /\ data'.value = data.value
  BY <1>1, <1>2, ThereSet
<1>4. InitOK(proc'[p], config', data', told')
  BY <1>1, <1>2, <1>3 DEF InitOK, Has
<1>5. Disk'
  BY <1>1, <1>2, <1>3 DEF Disk, ThereOrNot, Promise, NoOrphans, InitOK, Has
<1> QED
  BY <1>1, <1>2, <1>4, <1>5, InitOnly DEF SameJob

LEMMA WritePublicKeyKeeps ==
  ASSUME VaultInv, NEW p \in Procs, WritePublicKey(p)
  PROVE  Disk' /\ CommandOK(p)'
<1>1. /\ ControlInv /\ Disk /\ InitOK(proc[p], config, data, told)
      /\ proc[p].cmd # "restore" => stage[p] = NoStage
      /\ data \in Dir
  BY InvFacts
<1>2. /\ stage' = stage /\ config' = config /\ told' = told
      /\ data.there /\ data' = [data EXCEPT !.pub = OwnKey]
      /\ proc[p].cmd = "init" /\ proc[p].pc = "public key"
      /\ SameJob(p) /\ proc'[p].pc = "wrap"
  BY <1>1, WritePublicKeyDoes
<1>3. /\ data'.there = data.there /\ data'.pub = OwnKey
      /\ data'.priv = data.priv /\ data'.value = data.value
  <2>1. data \in Dir /\ OwnKey \in Keys
    BY <1>1, NoneApart
  <2>2. data' = [data EXCEPT !.pub = OwnKey]
    BY <1>2
  <2> QED
    BY <2>1, <2>2, PubSet
<1>4. InitOK(proc'[p], config', data', told')
  BY <1>1, <1>2, <1>3 DEF InitOK, Has
<1>5. Disk'
  BY <1>1, <1>2, <1>3 DEF Disk, ThereOrNot, Promise, NoOrphans, InitOK, Has
<1> QED
  BY <1>1, <1>2, <1>4, <1>5, InitOnly DEF SameJob

LEMMA EnrolledKeeps ==
  ASSUME VaultInv, NEW p \in Procs, Enrolled(p)
  PROVE  Disk' /\ CommandOK(p)'
<1>1. /\ ControlInv /\ Disk /\ RewrapOK(proc[p], config, data, told)
      /\ proc[p].cmd # "restore" => stage[p] = NoStage
  BY InvFacts
<1>2. /\ stage' = stage /\ config' = config /\ data' = data
      /\ proc[p].cmd = "enroll" /\ proc[p].pc = "check" /\ proc'[p] = Idle
      /\ told'.enrolled = told.enrolled \cup {proc[p].phone}
      /\ told'.removed = told.removed /\ told'.may = told.may
      /\ told'.undone = told.undone
  BY <1>1, EnrolledDoes
<1>3. /\ config.unlocks = proc[p].cfg.unlocks \cup {proc[p].phone}
      /\ told.undone => data.priv.to = proc[p].cfg.unlocks \cup {proc[p].phone}
  BY <1>1, <1>2 DEF RewrapOK, Rewrapping
<1>4. Disk'
  BY <1>1, <1>2, <1>3 DEF Disk, Promise, UnlocksKept
<1> QED
  BY <1>1, <1>2, <1>4, Over

\* The fields of the vault a restore staged.
LEMMA NewFacts ==
  ASSUME NEW r \in ProcType, NEW s \in StageType, r.cfg.key \in Keys,
         r.cfg.unlocks \in SUBSET Unlocks
  PROVE  /\ New(r, s) \in Dir /\ New(r, s).there = s.from.there
         /\ New(r, s).pub = s.from.pub /\ New(r, s).value = s.from.value
         /\ New(r, s).meta = s.from.meta
         /\ New(r, s).priv.key = r.cfg.key /\ New(r, s).priv.to = r.cfg.unlocks
<1> DEFINE k == r.cfg.key
           us == r.cfg.unlocks
           e == New(r, s)
<1>1. s.from \in Dir /\ k \in Keys /\ us \in SUBSET Unlocks
  BY DEF StageType
<1>2. e = [s.from EXCEPT !.priv = [key |-> k, to |-> us]]
  BY DEF New
<1> HIDE DEF k, us, e
<1>3. /\ e \in Dir /\ e.priv.key = k /\ e.priv.to = us
      /\ e.there = s.from.there /\ e.pub = s.from.pub /\ e.value = s.from.value
      /\ e.meta = s.from.meta
  BY <1>1, <1>2, PrivSet
<1> QED
  BY <1>3 DEF e, k, us

LEMMA SaveKeeps ==
  ASSUME VaultInv, NEW p \in Procs, Save(p)
  PROVE  Disk' /\ CommandOK(p)'
<1> DEFINE r == proc[p]
           us == NewUnlocks(p)
           from == stage[p].from
<1>1. /\ ControlInv /\ Disk /\ ThereOrNot(data)
      /\ RewrapOK(r, config, data, told)
      /\ InitOK(r, config, data, told)
      /\ RestoreOK(r, stage[p], config, data, told)
      /\ r.cmd # "restore" => stage[p] = NoStage
      /\ data \in Dir /\ config \in Config /\ ControlOK(r)
      /\ r \in ProcType /\ stage[p] \in StageType /\ from \in Dir
  BY InvFacts DEF StageType
<1>2. /\ stage' = stage /\ data' = data
      /\ r.cmd \in Rewrapping \cup {"init", "restore"} /\ r.pc = "save"
      /\ r.cfg.key \in Keys /\ us \in SUBSET Unlocks
      /\ config' = [key |-> r.cfg.key, unlocks |-> us]
      /\ told' = Told(p, from)
      /\ r.cmd = "enroll" => SameJob(p) /\ proc'[p].pc = "check"
      /\ r.cmd = "restore" => SameJob(p) /\ proc'[p].pc = "restored"
      /\ r.cmd \notin {"enroll", "restore"} => proc'[p] = Idle
  BY <1>1, SaveDoes
<1>3. /\ r.cmd = "enroll" => us = r.cfg.unlocks \cup {r.phone}
      /\ r.cmd = "phone rm" => us = r.cfg.unlocks \ {r.phone}
      /\ r.cmd \in {"fcm", "init", "restore"} => us = r.cfg.unlocks
  BY <1>1, NewUnlocksTyped
<1>4. /\ r.cmd \in {"enroll", "fcm"} => told' = told
      /\ r.cmd = "phone rm" =>
           /\ told'.removed = told.removed \cup {r.phone}
           /\ told'.enrolled = told.enrolled /\ told'.may = told.may
           /\ told'.undone = told.undone
      /\ r.cmd \in {"init", "restore"} =>
           /\ told'.enrolled = {} /\ told'.removed = {}
           /\ told'.undone = (told.undone \/ r.cmd = "restore")
           /\ Kept(from, told'.may)
  <2>1. from \in Dir /\ told' = Told(p, from)
    BY <1>1, <1>2
  <2> HIDE DEF from
  <2>2. /\ r.cmd \in {"enroll", "fcm"} => told' = told
        /\ r.cmd = "phone rm" =>
             /\ told'.removed = told.removed \cup {r.phone}
             /\ told'.enrolled = told.enrolled /\ told'.may = told.may
             /\ told'.undone = told.undone
        /\ r.cmd \in {"init", "restore"} =>
             /\ told'.enrolled = {} /\ told'.removed = {}
             /\ told'.undone = (told.undone \/ r.cmd = "restore")
             /\ ToldOf(from, told')
    <3> DEFINE h == Told(p, from)
    <3>1. /\ r.cmd \in {"enroll", "fcm"} => h = told
          /\ r.cmd = "phone rm" =>
               /\ h.removed = told.removed \cup {r.phone}
               /\ h.enrolled = told.enrolled /\ h.may = told.may
               /\ h.undone = told.undone
          /\ r.cmd \in {"init", "restore"} =>
               /\ h.enrolled = {} /\ h.removed = {}
               /\ h.undone = (told.undone \/ r.cmd = "restore")
               /\ ToldOf(from, h)
      BY <1>1, <2>1, ToldTyped
    <3> QED
      BY <2>1, <3>1
  <2> QED
    BY <2>2 DEF ToldOf
<1>5. config'.key = r.cfg.key /\ config'.unlocks = us
  BY <1>2
<1> HIDE DEF us, from
<1>6. CASE r.cmd \in Rewrapping
  <2>1. config.key = r.cfg.key /\ config.unlocks = r.cfg.unlocks
    BY <1>1, <1>2, <1>6 DEF RewrapOK
  <2>2. config # NoConfig
    BY <1>1, <1>2, <2>1, ConfigFacts, NoneApart
  <2>3. r.cmd \in {"enroll", "phone rm"} => r.phone \in Phones /\ r.phone # Desktop
    BY <1>1, NoneApart DEF ControlOK
  <2>4. told'.undone = told.undone /\ told'.may = told.may
    BY <1>4, <1>6 DEF Rewrapping
  <2>5. ASSUME told.undone PROVE Promise(config', data', told')
    <3>1. /\ Whole(config, data) /\ Kept(data, told.may)
          /\ UnlocksKept(config, data, told.enrolled, told.removed) /\ NoOrphans(data)
      BY <1>1, <2>2, <2>5 DEF Disk, Promise
    <3>2. Whole(config', data') /\ Kept(data', told'.may)
      BY <1>2, <1>5, <2>1, <2>4, <3>1 DEF Whole, Kept
    <3>3. UnlocksKept(config', data', told'.enrolled, told'.removed)
      <4>1. CASE r.cmd = "enroll"
        <5>1. r.phone \notin told.removed /\ data.priv.to = r.cfg.unlocks \cup {r.phone}
          BY <1>1, <1>2, <2>5, <4>1 DEF RewrapOK, Rewrapping
        <5> QED
          BY <1>2, <1>3, <1>4, <1>5, <2>1, <3>1, <4>1, <5>1 DEF UnlocksKept
      <4>2. CASE r.cmd = "phone rm"
        <5>1. r.phone \notin told.enrolled /\ data.priv.to = r.cfg.unlocks \ {r.phone}
          BY <1>1, <1>2, <2>5, <4>2 DEF RewrapOK, Rewrapping
        <5> QED
          BY <1>2, <1>3, <1>4, <1>5, <2>1, <2>3, <3>1, <4>2, <5>1 DEF UnlocksKept
      <4>3. CASE r.cmd = "fcm"
        BY <1>2, <1>3, <1>4, <1>5, <2>1, <3>1, <4>3 DEF UnlocksKept
      <4> QED
        BY <1>6, <4>1, <4>2, <4>3 DEF Rewrapping
    <3> QED
      BY <3>2, <3>3 DEF Promise
  <2>6. Disk'
    BY <1>1, <1>2, <2>4, <2>5 DEF Disk
  <2>7. CASE r.cmd = "enroll"
    <3>1. RewrapOK(proc'[p], config', data', told')
      BY <1>1, <1>2, <1>3, <1>4, <1>5, <2>7 DEF RewrapOK, SameJob, Rewrapping
    <3> QED
      BY <1>1, <1>2, <2>6, <2>7, <3>1, RewrapOnly DEF SameJob, Rewrapping
  <2>8. CASE r.cmd # "enroll"
    <3>1. proc'[p] = Idle /\ stage'[p] = NoStage
      BY <1>1, <1>2, <1>6, <2>8 DEF Rewrapping
    <3> QED
      BY <2>6, <3>1, Over
  <2> QED
    BY <2>7, <2>8
<1>7. CASE r.cmd = "init"
  <2>1. /\ data.there /\ data.pub = OwnKey /\ data.priv = [key |-> OwnKey, to |-> {Desktop}]
        /\ told.undone => \A n \in Names, t \in Tiers : ~Has(data, n, t)
    BY <1>1, <1>2, <1>7 DEF InitOK
  <2>2. r.cfg.key = OwnKey /\ r.cfg.unlocks = {Desktop}
    BY <1>1, <1>7 DEF ControlOK
  <2>3. from = NoDir
    BY <1>1, <1>7 DEF from, NoStage
  <2>4. \A n \in Names : None \in told'.may[n]
    BY <1>4, <1>7, <2>3, NoDirFacts DEF Kept
  <2>5. ASSUME told.undone PROVE Promise(config', data', told') /\ NoOrphans(data')
    BY <1>2, <1>3, <1>4, <1>5, <1>7, <2>1, <2>2, <2>4, <2>5
       DEF Promise, Whole, Kept, UnlocksKept, NoOrphans
  <2>6. Disk'
    BY <1>1, <1>2, <1>4, <1>7, <2>5 DEF Disk
  <2>7. proc'[p] = Idle /\ stage'[p] = NoStage
    BY <1>1, <1>2, <1>7
  <2> QED
    BY <2>6, <2>7, Over
<1>8. CASE r.cmd = "restore"
  <2>1. /\ from.there /\ from.pub = r.cfg.key /\ data = New(r, stage[p])
        /\ \A n \in Names, t \in Tiers :
             Has(from, n, t) => from.value[n][t].key = r.cfg.key
    BY <1>1, <1>2, <1>8 DEF RestoreOK, from
  <2>2. r.cfg.unlocks \in SUBSET Unlocks /\ Desktop \in r.cfg.unlocks
    BY <1>1, <1>2, <1>3, <1>8 DEF ControlOK
  <2>3. /\ data.there /\ data.pub = r.cfg.key /\ data.value = from.value
        /\ data.priv.key = r.cfg.key /\ data.priv.to = r.cfg.unlocks
    BY <1>1, <1>2, <2>1, <2>2, NewFacts DEF from
  <2>4. Promise(config', data', told')
    BY <1>2, <1>3, <1>4, <1>5, <1>8, <2>1, <2>2, <2>3
       DEF Promise, Whole, Kept, UnlocksKept, Has
  <2>5. NoOrphans(data')
    BY <1>2, <2>3, NoneApart DEF NoOrphans
  <2>6. Disk'
    BY <1>1, <1>2, <2>4, <2>5 DEF Disk
  <2>7. /\ proc'[p].cmd = "restore" /\ proc'[p].pc = "restored" /\ proc'[p].cfg = r.cfg
    BY <1>2, <1>8 DEF SameJob
  <2>8. New(proc'[p], stage'[p]) = New(r, stage[p])
    BY <1>2, <2>7 DEF New
  <2>9. RestoreOK(proc'[p], stage'[p], config', data', told')
    BY <1>2, <2>1, <2>7, <2>8 DEF RestoreOK, from
  <2> QED
    BY <2>6, <2>7, <2>9, RestoreOnly
<1> QED
  BY <1>2, <1>6, <1>7, <1>8

-----------------------------------------------------------------------------
(* restore.                                                                *)

\* What a restore staged stays what it is.
SameStaged(p) ==
  /\ stage'[p].from = stage[p].from
  /\ stage'[p].config = stage[p].config /\ stage'[p].was = stage[p].was

LEMMA NewSame ==
  ASSUME NEW p \in Procs, SameJob(p), stage'[p].from = stage[p].from
  PROVE  New(proc'[p], stage'[p]) = New(proc[p], stage[p])
BY DEF New, SameJob

LEMMA ReadConfigKeeps ==
  ASSUME VaultInv, NEW p \in Procs, ReadConfig(p)
  PROVE  Disk' /\ CommandOK(p)'
<1>1. /\ ControlInv /\ Disk /\ RestoreOK(proc[p], stage[p], config, data, told)
  BY InvFacts
<1>2. /\ SameDisk /\ proc[p].cmd = "restore" /\ proc[p].pc = "read"
      /\ SameJob(p) /\ proc'[p].pc = "unset"
      /\ stage'[p].new = stage[p].new /\ stage'[p].old = stage[p].old
      /\ stage'[p].from = stage[p].from
      /\ stage'[p].config = config /\ stage'[p].was = data
  BY <1>1, ReadConfigDoes
<1>3. New(proc'[p], stage'[p]) = New(proc[p], stage[p])
  BY <1>2, NewSame
<1>4. proc'[p].cmd = "restore" /\ proc'[p].cfg = proc[p].cfg
  BY <1>2 DEF SameJob
<1>5. told.undone => Promise(config, data, told) /\ NoOrphans(data) /\ ThereOrNot(data)
  BY <1>1 DEF Disk
<1>6. RestoreOK(proc'[p], stage'[p], config', data', told')
  BY <1>1, <1>2, <1>3, <1>4, <1>5 DEF RestoreOK, SameDisk
<1> QED
  BY <1>1, <1>2, <1>4, <1>6, RestoreOnly, DiskSame

LEMMA RemoveConfigKeeps ==
  ASSUME VaultInv, NEW p \in Procs, RemoveConfig(p)
  PROVE  Disk' /\ CommandOK(p)'
<1>1. /\ ControlInv /\ Disk /\ RestoreOK(proc[p], stage[p], config, data, told)
  BY InvFacts
<1>2. /\ data' = data /\ told' = told /\ stage' = stage /\ config' = NoConfig
      /\ proc[p].cmd = "restore" /\ proc[p].pc = "unset"
      /\ SameJob(p) /\ proc'[p].pc = "move out"
  BY <1>1, RemoveConfigDoes
<1>3. New(proc'[p], stage'[p]) = New(proc[p], stage[p])
  BY <1>2, NewSame
<1>4. proc'[p].cmd = "restore" /\ proc'[p].cfg = proc[p].cfg
  BY <1>2 DEF SameJob
<1>5. RestoreOK(proc'[p], stage'[p], config', data', told')
  BY <1>1, <1>2, <1>3, <1>4 DEF RestoreOK
<1>6. Disk'
  BY <1>1, <1>2 DEF Disk, Promise
<1> QED
  BY <1>1, <1>2, <1>4, <1>5, <1>6, RestoreOnly

LEMMA NothingThere ==
  /\ ThereOrNot(NoDir) /\ NoOrphans(NoDir)
  /\ \A c, h : c = NoConfig => Promise(c, NoDir, h)
BY NoDirFacts DEF ThereOrNot, NoOrphans, Promise

LEMMA MoveOutKeeps ==
  ASSUME VaultInv, NEW p \in Procs, MoveOut(p)
  PROVE  Disk' /\ CommandOK(p)'
<1>1. /\ ControlInv /\ RestoreOK(proc[p], stage[p], config, data, told)
  BY InvFacts
<1>2. /\ config' = config /\ told' = told /\ data' = NoDir
      /\ proc[p].cmd = "restore" /\ proc[p].pc = "move out"
      /\ SameJob(p) /\ proc'[p].pc = "move in"
      /\ stage'[p].old = data /\ stage'[p].new = stage[p].new
      /\ stage'[p].from = stage[p].from
      /\ stage'[p].config = stage[p].config /\ stage'[p].was = stage[p].was
  BY <1>1, MoveOutDoes
<1>3. New(proc'[p], stage'[p]) = New(proc[p], stage[p])
  BY <1>2, NewSame
<1>4. proc'[p].cmd = "restore" /\ proc'[p].cfg = proc[p].cfg
  BY <1>2 DEF SameJob
<1>5. RestoreOK(proc'[p], stage'[p], config', data', told')
  BY <1>1, <1>2, <1>3, <1>4 DEF RestoreOK
<1>6. config = NoConfig
  BY <1>1, <1>2 DEF RestoreOK
<1>7. Disk'
  BY <1>2, <1>6, NothingThere DEF Disk
<1> QED
  BY <1>2, <1>4, <1>5, <1>7, RestoreOnly

LEMMA MoveInKeeps ==
  ASSUME VaultInv, NEW p \in Procs, MoveIn(p)
  PROVE  Disk' /\ CommandOK(p)'
<1>1. /\ ControlInv /\ RestoreOK(proc[p], stage[p], config, data, told)
      /\ proc[p] \in ProcType /\ stage[p] \in StageType
      /\ ControlOK(proc[p])
  BY InvFacts
<1>2. proc[p].cmd = "restore" /\ proc[p].pc = "move in"
  BY <1>1, MoveInDoes
<1>3. config = NoConfig /\ data = NoDir /\ stage[p].new = New(proc[p], stage[p])
  BY <1>1, <1>2 DEF RestoreOK
<1>4. ~data.there
  BY <1>3, NoDirFacts
<1>5. /\ config' = config /\ told' = told /\ SameJob(p)
      /\ proc'[p].pc = "save" /\ data' = stage[p].new
      /\ stage'[p].new = NoDir /\ stage'[p].old = stage[p].old
      /\ stage'[p].from = stage[p].from
      /\ stage'[p].config = stage[p].config /\ stage'[p].was = stage[p].was
  BY <1>1, <1>4, MoveInDoes
<1>6. New(proc'[p], stage'[p]) = New(proc[p], stage[p])
  BY <1>5, NewSame
<1>7. proc'[p].cmd = "restore" /\ proc'[p].cfg = proc[p].cfg
  BY <1>2, <1>5 DEF SameJob
<1>8. RestoreOK(proc'[p], stage'[p], config', data', told')
  BY <1>1, <1>2, <1>3, <1>5, <1>6, <1>7 DEF RestoreOK
<1>9. proc[p].cfg.key \in Keys /\ proc[p].cfg.unlocks \in SUBSET Unlocks
  BY <1>1, <1>2, JobFacts
<1>10. data'.there /\ data'.pub \in Keys
  BY <1>1, <1>2, <1>3, <1>5, <1>9, NewFacts DEF RestoreOK
<1>11. Disk'
  BY <1>3, <1>5, <1>10, NoneApart DEF Disk, ThereOrNot, Promise, NoOrphans
<1> QED
  BY <1>5, <1>7, <1>8, <1>11, RestoreOnly

LEMMA PutAsideKeeps ==
  ASSUME VaultInv, NEW p \in Procs, PutAside(p)
  PROVE  Disk' /\ CommandOK(p)'
<1>1. /\ ControlInv /\ RestoreOK(proc[p], stage[p], config, data, told)
      /\ proc[p] \in ProcType /\ stage[p] \in StageType
      /\ ControlOK(proc[p])
  BY InvFacts
<1>2. /\ config' = config /\ told' = told
      /\ proc[p].cmd = "restore" /\ proc[p].pc = "put aside"
      /\ SameJob(p) /\ proc'[p].pc = "put back"
      /\ IF data.there /\ ~stage[p].new.there THEN data' = NoDir ELSE data' = data
      /\ stage'[p].old = stage[p].old /\ stage'[p].from = stage[p].from
      /\ stage'[p].config = stage[p].config /\ stage'[p].was = stage[p].was
  BY <1>1, PutAsideDoes
<1>3. /\ config = NoConfig
      /\ data = NoDir \/ (data = New(proc[p], stage[p]) /\ stage[p].new = NoDir)
      /\ stage[p].from.there
  BY <1>1, <1>2 DEF RestoreOK
<1>4. proc[p].cfg.key \in Keys /\ proc[p].cfg.unlocks \in SUBSET Unlocks
  BY <1>1, <1>2, JobFacts
<1>5. data' = NoDir
  <2>1. CASE data = NoDir
    BY <1>2, <2>1
  <2>2. CASE data = New(proc[p], stage[p]) /\ stage[p].new = NoDir
    <3>1. data.there = stage[p].from.there
      BY <1>1, <1>4, <2>2, NewFacts
    <3>2. ~stage[p].new.there
      BY <2>2, NoDirFacts
    <3> QED
      BY <1>2, <1>3, <3>1, <3>2
  <2> QED
    BY <1>3, <2>1, <2>2
<1>6. proc'[p].cmd = "restore" /\ proc'[p].cfg = proc[p].cfg
  BY <1>2 DEF SameJob
<1>7. RestoreOK(proc'[p], stage'[p], config', data', told')
  BY <1>1, <1>2, <1>3, <1>5, <1>6 DEF RestoreOK
<1>8. Disk'
  BY <1>2, <1>3, <1>5, NothingThere DEF Disk
<1> QED
  BY <1>6, <1>7, <1>8, RestoreOnly

LEMMA PutBackKeeps ==
  ASSUME VaultInv, NEW p \in Procs, PutBack(p)
  PROVE  Disk' /\ CommandOK(p)'
<1>1. /\ ControlInv /\ Disk /\ RestoreOK(proc[p], stage[p], config, data, told)
  BY InvFacts
<1>2. /\ config' = config /\ told' = told
      /\ proc[p].cmd = "restore" /\ proc[p].pc = "put back"
      /\ SameJob(p) /\ proc'[p].pc = "put config"
      /\ IF stage[p].old.there /\ ~data.there THEN data' = stage[p].old
         ELSE data' = data
      /\ stage'[p].from = stage[p].from
      /\ stage'[p].config = stage[p].config /\ stage'[p].was = stage[p].was
  BY <1>1, PutBackDoes
<1>3. config = NoConfig
  BY <1>1, <1>2 DEF RestoreOK
<1>4. told.undone =>
        /\ data = NoDir /\ stage[p].old = stage[p].was
        /\ Promise(stage[p].config, stage[p].was, told) /\ NoOrphans(stage[p].was)
        /\ ThereOrNot(stage[p].was)
  BY <1>1, <1>2 DEF RestoreOK
<1>5. told.undone => data' = stage[p].was
  BY <1>2, <1>4, NoDirFacts DEF ThereOrNot
<1>6. proc'[p].cmd = "restore" /\ proc'[p].cfg = proc[p].cfg
  BY <1>2 DEF SameJob
<1>7. RestoreOK(proc'[p], stage'[p], config', data', told')
  BY <1>1, <1>2, <1>3, <1>4, <1>5, <1>6 DEF RestoreOK
<1>8. ThereOrNot(data')
  BY <1>1, <1>2 DEF Disk, ThereOrNot
<1>9. Disk'
  BY <1>2, <1>3, <1>4, <1>5, <1>8 DEF Disk, Promise
<1> QED
  BY <1>6, <1>7, <1>9, RestoreOnly

LEMMA PutConfigKeeps ==
  ASSUME VaultInv, NEW p \in Procs, PutConfig(p)
  PROVE  Disk' /\ CommandOK(p)'
<1>1. /\ ControlInv /\ Disk /\ RestoreOK(proc[p], stage[p], config, data, told)
  BY InvFacts
<1>2. /\ data' = data /\ told' = told /\ stage' = stage
      /\ proc[p].cmd = "restore" /\ proc[p].pc = "put config"
      /\ SameJob(p) /\ proc'[p].pc = "failed"
      /\ config' = IF stage[p].config # NoConfig THEN stage[p].config ELSE config
  BY <1>1, PutConfigDoes
<1>3. config = NoConfig
  BY <1>1, <1>2 DEF RestoreOK
<1>4. config' = stage[p].config
  BY <1>2, <1>3
<1>5. told.undone =>
        /\ data = stage[p].was
        /\ Promise(stage[p].config, stage[p].was, told) /\ NoOrphans(stage[p].was)
  BY <1>1, <1>2 DEF RestoreOK
<1>6. proc'[p].cmd = "restore" /\ proc'[p].cfg = proc[p].cfg
  BY <1>2 DEF SameJob
<1>7. RestoreOK(proc'[p], stage'[p], config', data', told')
  BY <1>1, <1>2, <1>4, <1>6 DEF RestoreOK
<1>8. Disk'
  BY <1>1, <1>2, <1>4, <1>5 DEF Disk
<1> QED
  BY <1>6, <1>7, <1>8, RestoreOnly

-----------------------------------------------------------------------------
(* What goes wrong.                                                        *)

LEMMA AfterFailedIs ==
  ASSUME NEW pc \in DOMAIN AfterFailed
  PROVE  /\ pc \in {"unset", "move out", "move in", "save",
                    "put aside", "put back", "put config"}
         /\ pc \in {"move in", "save"} => AfterFailed[pc] = "put aside"
         /\ pc = "put aside" => AfterFailed[pc] = "put back"
         /\ pc \in {"put back", "move out"} => AfterFailed[pc] = "put config"
         /\ pc \in {"unset", "put config"} => AfterFailed[pc] = "failed"
BY DEF AfterFailed, Rollback

LEMMA WriteFailsKeeps ==
  ASSUME VaultInv, NEW p \in Procs, WriteFails(p)
  PROVE  Disk' /\ CommandOK(p)'
<1> DEFINE pc == proc[p].pc
<1>1. /\ ControlInv /\ Disk /\ RestoreOK(proc[p], stage[p], config, data, told)
      /\ proc[p].cmd # "restore" => stage[p] = NoStage
  BY InvFacts
<1>2. /\ config' = config /\ data' = data /\ stage' = stage
      /\ told'.may = told.may
      /\ told'.enrolled = told.enrolled /\ told'.removed = told.removed
      /\ proc[p].cmd # "restore" => proc'[p] = Idle /\ told'.undone = told.undone
      /\ proc[p].cmd = "restore" =>
           /\ SameJob(p) /\ pc \in DOMAIN AfterFailed
           /\ proc'[p].pc = AfterFailed[pc]
           /\ told'.undone = (told.undone /\ pc \notin Rollback)
  BY <1>1, WriteFailsDoes DEF SamePromise
<1>3. Disk'
  BY <1>1, <1>2, PromiseSame
<1>4. CASE proc[p].cmd # "restore"
  BY <1>1, <1>2, <1>3, <1>4, Over
<1>5. CASE proc[p].cmd = "restore"
  <2>1. /\ proc'[p].cmd = "restore" /\ proc'[p].cfg = proc[p].cfg
        /\ New(proc'[p], stage'[p]) = New(proc[p], stage[p])
    BY <1>2, <1>5, NewSame DEF SameJob
  <2>2. pc \in DOMAIN AfterFailed /\ proc'[p].pc = AfterFailed[pc]
    BY <1>2, <1>5
  <2>3. /\ stage[p].from.there /\ stage[p].from.pub = proc[p].cfg.key
        /\ \A n \in Names, t \in Tiers :
             Has(stage[p].from, n, t) => stage[p].from.value[n][t].key = proc[p].cfg.key
    BY <1>1, <1>5 DEF RestoreOK
  <2>4. told'.undone => told.undone /\ pc \notin Rollback
    BY <1>2, <1>5
  <2>5. told'.undone =>
          /\ Promise(stage[p].config, stage[p].was, told') /\ NoOrphans(stage[p].was)
          /\ ThereOrNot(stage[p].was)
    BY <1>1, <1>2, <1>5, <2>2, <2>4, AfterFailedIs DEF RestoreOK, Promise
  <2>6. CASE pc = "unset"
    <3>1. proc'[p].pc = "failed" /\ stage[p].was = data /\ config = stage[p].config
      BY <1>1, <1>5, <2>2, <2>6, AfterFailedIs DEF RestoreOK
    <3> QED
      BY <1>2, <1>3, <2>1, <2>3, <2>5, <3>1, RestoreOnly DEF RestoreOK
  <2>7. CASE pc = "move out"
    <3>1. proc'[p].pc = "put config" /\ stage[p].was = data /\ config = NoConfig
      BY <1>1, <1>5, <2>2, <2>7, AfterFailedIs DEF RestoreOK
    <3> QED
      BY <1>2, <1>3, <2>1, <2>3, <2>5, <3>1, RestoreOnly DEF RestoreOK
  <2>8. CASE pc = "move in" \/ pc = "save"
    <3>1. /\ proc'[p].pc = "put aside" /\ config = NoConfig /\ stage[p].old = stage[p].was
          /\ data = NoDir \/ (data = New(proc[p], stage[p]) /\ stage[p].new = NoDir)
      BY <1>1, <1>5, <2>2, <2>8, AfterFailedIs DEF RestoreOK
    <3> QED
      BY <1>2, <1>3, <2>1, <2>3, <2>5, <3>1, RestoreOnly DEF RestoreOK
  <2>9. CASE pc \in Rollback
    <3>1. ~told'.undone
      BY <2>4, <2>9
    <3>2. proc'[p].pc \in {"put back", "put config", "failed"}
      BY <2>2, <2>9, AfterFailedIs DEF Rollback
    <3>3. proc'[p].pc # "failed" => config = NoConfig
      BY <1>1, <1>5, <2>2, <2>9, AfterFailedIs DEF RestoreOK, Rollback
    <3> QED
      BY <1>2, <1>3, <2>1, <2>3, <3>1, <3>2, <3>3, RestoreOnly DEF RestoreOK
  <2> QED
    BY <2>2, <2>6, <2>7, <2>8, <2>9, AfterFailedIs DEF Rollback
<1> QED
  BY <1>4, <1>5

LEMMA EndsKeep ==
  ASSUME VaultInv, NEW p \in Procs, Refused(p) \/ Dies(p) \/ EndRestore(p)
  PROVE  Disk' /\ CommandOK(p)'
<1>1. /\ ControlInv /\ Disk /\ (proc[p].cmd # "restore" => stage[p] = NoStage)
  BY InvFacts
<1>2. /\ config' = config /\ data' = data /\ proc'[p] = Idle /\ stage'[p] = NoStage
      /\ SamePromise
  BY <1>1, RefusedDoes, DiesDoes, EndRestoreDoes DEF SameDisk, SamePromise
<1> QED
  BY <1>1, <1>2, PromiseSame, Over DEF SamePromise

-----------------------------------------------------------------------------
(* The invariant, and what it says.                                        *)

LEMMA StepKeeps ==
  ASSUME VaultInv, NEW p \in Procs, Step(p) \/ Refused(p) \/ WriteFails(p) \/ Dies(p)
  PROVE  Disk' /\ CommandOK(p)'
<1>1. CASE OpenSet(p) \/ OpenRemove(p) \/ OpenPhone(p) \/ OpenFCM(p)
  BY <1>1, BeginsKeep
<1>2. CASE BeginInit(p) \/ BeginRestore(p)
  BY <1>2, BeginInitKeeps, BeginRestoreKeeps
<1>3. CASE LookPrivate(p) \/ LookPublic(p)
  BY <1>3, LooksKeep
<1>4. CASE ChooseTier(p) \/ MakeTierDir(p) \/ WriteValue(p) \/ WriteMeta(p)
  BY <1>4, ChooseTierKeeps, MakeTierDirKeeps, WriteValueKeeps, WriteMetaKeeps
<1>5. CASE Found(p) \/ DropValue(p) \/ DropMeta(p) \/ Stored(p)
  BY <1>5, FoundKeeps, DropValueKeeps, DropMetaKeeps, StoredKeeps
<1>6. CASE Unlock(p) \/ Wrap(p) \/ Ensure(p) \/ WritePublicKey(p)
  BY <1>6, UnlockKeeps, WrapKeeps, EnsureKeeps, WritePublicKeyKeeps
<1>7. CASE Save(p) \/ Enrolled(p)
  BY <1>7, SaveKeeps, EnrolledKeeps
<1>8. CASE ReadConfig(p) \/ RemoveConfig(p) \/ MoveOut(p) \/ MoveIn(p)
  BY <1>8, ReadConfigKeeps, RemoveConfigKeeps, MoveOutKeeps, MoveInKeeps
<1>9. CASE PutAside(p) \/ PutBack(p) \/ PutConfig(p)
  BY <1>9, PutAsideKeeps, PutBackKeeps, PutConfigKeeps
<1>10. CASE Refused(p) \/ Dies(p) \/ EndRestore(p)
  BY <1>10, EndsKeep
<1>11. CASE WriteFails(p)
  BY <1>11, WriteFailsKeeps
<1> QED
  BY <1>1, <1>2, <1>3, <1>4, <1>5, <1>6, <1>7, <1>8, <1>9, <1>10, <1>11 DEF Step

LEMMA InitVault == Init => VaultInv
<1> SUFFICES ASSUME Init PROVE VaultInv
  OBVIOUS
<1>1. ControlInv
  BY InitControl
<1>2. \A p \in Procs : CommandOK(p)
  <2> SUFFICES ASSUME NEW p \in Procs PROVE CommandOK(p)
    OBVIOUS
  <2>1. proc[p] = Idle /\ stage[p] = NoStage
    BY DEF Init
  <2>2. proc[p].cmd = "none"
    BY <2>1, IdleTyped
  <2> QED
    BY <2>1, <2>2 DEF CommandOK, EditOK, RewrapOK, InitOK, RestoreOK, Editing, Rewrapping
<1>3. data \in Dir
  BY <1>1 DEF ControlInv, Typed
<1>4. Kept(data, told.may) /\ told.enrolled = {} /\ told.removed = {}
  BY <1>3, FreshFacts DEF Init, ToldOf
<1>5. ThereOrNot(data) /\ Promise(config, data, told) /\ NoOrphans(data)
  <2>1. CASE config = NoConfig /\ data = NoDir
    BY <2>1, NothingThere
  <2>2. ASSUME NEW t \in Tiers, NEW v \in Values, NEW d \in Descs,
               config = [key |-> OwnKey, unlocks |-> {Desktop}],
               data = [there |-> TRUE, pub |-> OwnKey,
                       priv |-> [key |-> OwnKey, to |-> {Desktop}],
                       value |-> [n \in Names |-> [NoDir.value[n] EXCEPT
                                    ![t] = [key |-> OwnKey, val |-> v]]],
                       meta |-> [n \in Names |-> [NoDir.meta[n] EXCEPT ![t] = d]]]
        PROVE  ThereOrNot(data) /\ Promise(config, data, told) /\ NoOrphans(data)
    <3> DEFINE f == [key |-> OwnKey, val |-> v]
    <3>1. /\ config.key = OwnKey /\ config.unlocks = {Desktop}
          /\ data.there /\ data.pub = OwnKey
          /\ data.priv.key = OwnKey /\ data.priv.to = {Desktop}
          /\ data.value = [n \in Names |-> [NoDir.value[n] EXCEPT ![t] = f]]
      BY <2>2
    <3>2. f.key = OwnKey
      OBVIOUS
    <3> HIDE DEF f
    <3>3. \A n \in Names : NoDir.value[n] \in [Tiers -> File]
      BY NoDirFacts DEF Dir
    <3>4. \A n \in Names, u \in Tiers :
            data.value[n][u] = IF u = t THEN f ELSE NoFile
      BY <3>1, <3>3, NoDirFacts
    <3>5. Whole(config, data)
      BY <3>1, <3>2, <3>4 DEF Whole, Has
    <3>6. UnlocksKept(config, data, told.enrolled, told.removed)
      BY <1>4, <3>1 DEF UnlocksKept
    <3> QED
      BY <1>4, <3>1, <3>5, <3>6, NoneApart DEF Promise, ThereOrNot, NoOrphans
  <2> QED
    BY <2>1, <2>2 DEF Init
<1> QED
  BY <1>1, <1>2, <1>5 DEF VaultInv, Disk

LEMMA VaultNext ==
  ASSUME OneProcess PROVE VaultInv /\ [Next]_vars => VaultInv'
<1> SUFFICES ASSUME VaultInv, [Next]_vars PROVE VaultInv'
  OBVIOUS
<1>1. ControlInv'
  BY ControlNext DEF VaultInv
<1>2. CASE UNCHANGED vars
  <2>1. SameDisk /\ proc' = proc /\ stage' = stage
    BY <1>2 DEF vars, SameDisk
  <2>2. Disk'
    BY <2>1, DiskSame DEF VaultInv
  <2>3. \A p \in Procs : CommandOK(p)'
    BY <2>1 DEF VaultInv, CommandOK, SameDisk
  <2> QED
    BY <1>1, <2>2, <2>3 DEF VaultInv
<1>3. CASE Next
  <2>1. PICK p \in Procs : Step(p) \/ Refused(p) \/ WriteFails(p) \/ Dies(p)
    BY <1>3 DEF Next
  <2>2. Disk' /\ CommandOK(p)'
    BY <2>1, StepKeeps
  <2>3. \A q \in Procs : q = p
    BY DEF OneProcess
  <2>4. \A q \in Procs : CommandOK(q)'
    BY <2>2, <2>3
  <2> QED
    BY <1>1, <2>2, <2>4 DEF VaultInv
<1> QED
  BY <1>2, <1>3

\* The whole of it: what is on the disk at every step of a command, and what
\* the command knows of it, where one process runs them.
THEOREM VaultInvariant == ASSUME OneProcess PROVE Spec => []VaultInv
<1>1. VaultInv /\ [Next]_vars => VaultInv'
  BY VaultNext
<1> QED
  BY <1>1, InitVault, PTL DEF Spec

\* A vault that opens has the keys its config names, whatever command died or
\* failed half way: init writes the config last, SetUnlocks rewraps the same
\* key, and swap removes the config before it moves a directory.
THEOREM KeysMatchHolds == ASSUME OneProcess PROVE Spec => []KeysMatch
<1>1. VaultInv => KeysMatch
  BY DEF VaultInv, Disk, Promise, Whole, KeysMatch, Opens
<1> QED
  BY <1>1, VaultInvariant, PTL

\* Old and new secrets never mix (backup.go): every value of a vault that opens
\* is encrypted to that vault's key.
THEOREM NeverMixedHolds == ASSUME OneProcess PROVE Spec => []NeverMixed
<1>1. VaultInv => NeverMixed
  BY DEF VaultInv, Disk, Promise, Whole, NeverMixed, Opens, Has
<1> QED
  BY <1>1, VaultInvariant, PTL

\* A stored secret is there, and is one of the values the commands left it:
\* Set writes the new copy before it drops the old tier's.
THEOREM SecretKeptHolds == ASSUME OneProcess PROVE Spec => []SecretKept
<1>1. VaultInv => SecretKept
  <2> SUFFICES ASSUME VaultInv, Opens, NEW n \in Names
               PROVE  /\ Held(data, n) \subseteq told.may[n]
                      /\ None \notin told.may[n] => Held(data, n) # {}
    BY DEF SecretKept
  <2>1. data \in Dir /\ Kept(data, told.may)
    BY DEF VaultInv, ControlInv, Typed, Disk, Promise, Opens
  <2>2. \A t \in Tiers : data.value[n][t] \in File
    BY <2>1, DirFields
  <2>3. Held(data, n) \subseteq told.may[n]
    BY <2>1, <2>2, FileFacts DEF Held, Kept, Has
  <2>4. ASSUME NEW t \in Tiers, Has(data, n, t) PROVE data.value[n][t].val \in Held(data, n)
    BY <2>2, <2>4, FileFacts DEF Held, Has
  <2> QED
    BY <2>1, <2>3, <2>4 DEF Kept
<1> QED
  BY <1>1, VaultInvariant, PTL

\* A restore that failed, and whose rollback did not, leaves the config and the
\* data as it found them (swap).
THEOREM FailedRestoreUndoneHolds == ASSUME OneProcess PROVE Spec => []FailedRestoreUndone
<1>1. VaultInv => FailedRestoreUndone
  BY DEF VaultInv, CommandOK, RestoreOK, FailedRestoreUndone
<1> QED
  BY <1>1, VaultInvariant, PTL

\* The desktop's identity always opens the vault, an enrolled phone opens it
\* until its removal begins, and a removed one does not: SetUnlocks rewraps the
\* key first and saves the config after.
THEOREM UnlocksAsToldHolds == ASSUME OneProcess PROVE Spec => []UnlocksAsTold
<1>1. VaultInv => UnlocksAsTold
  BY DEF VaultInv, Disk, Promise, UnlocksKept, UnlocksAsTold, Opens
<1> QED
  BY <1>1, VaultInvariant, PTL

-----------------------------------------------------------------------------
(* Descriptions.                                                           *)

\* A set that is between its value and the copies it drops.
Between(r) == r.cmd = "set" /\ r.pc \in Writing

\* Every copy says its name's description, but those of a name whose set was
\* cut short, or is under way.
CopiesSay(r, c, d, h) ==
  c # NoConfig =>
    \A n \in Names \ h.cut : ~(Between(r) /\ n = r.name) => Says(d, n, h.desc[n])

\* What a set is to keep, and what it wrote.
KeepsDesc(r, h) ==
  r.cmd = "set" /\ r.pc \in {"mkdir", "value"} =>
    /\ r.found = {} => r.meta = NoDesc
    /\ r.found # {} /\ r.name \notin h.cut => r.meta = h.desc[r.name]

WritesDesc(r, d, h) ==
  r.cmd = "set" /\ (r.name \notin h.cut \/ r.desc # None) =>
    /\ r.pc = "meta" => h.desc[r.name] = IF r.desc # None THEN r.desc ELSE r.meta
    /\ r.pc \in {"drop", "drop meta"} =>
         Described(d.meta[r.name][r.tier]) = h.desc[r.name]

DescOK(r, c, d, h) ==
  h.undone => CopiesSay(r, c, d, h) /\ KeepsDesc(r, h) /\ WritesDesc(r, d, h)

\* A restore found the descriptions as they were told.
StagedDescOK(r, s, h) ==
  h.undone /\ r.cmd = "restore" /\ r.pc \notin {"read", "restored"} =>
    (s.config # NoConfig => \A n \in Names \ h.cut : Says(s.was, n, h.desc[n]))

DescriptionOK(p) ==
  /\ DescOK(proc[p], config, data, told)
  /\ StagedDescOK(proc[p], stage[p], told)

DescInv == \A p \in Procs : DescriptionOK(p)

\* A step of a command that is not writing a value or a description.
Quiet(p) ==
  /\ ~Between(proc[p])
  /\ proc'[p].cmd = "set" => proc'[p].pc \in {"look private", "look public", "choose"}
  /\ told'.desc = told.desc /\ told'.cut = told.cut /\ (told'.undone => told.undone)
  /\ config' # NoConfig =>
       config # NoConfig /\ data'.value = data.value /\ data'.meta = data.meta

LEMMA QuietKeeps ==
  ASSUME DescInv, NEW p \in Procs, Quiet(p)
  PROVE  DescOK(proc[p], config, data, told)'
<1> SUFFICES ASSUME told'.undone
             PROVE  /\ CopiesSay(proc'[p], config', data', told')
                    /\ KeepsDesc(proc'[p], told')
                    /\ WritesDesc(proc'[p], data', told')
  BY DEF DescOK
<1>1. CopiesSay(proc[p], config, data, told)
  BY DEF DescInv, DescriptionOK, DescOK, Quiet
<1>2. CopiesSay(proc'[p], config', data', told')
  <2> SUFFICES ASSUME config' # NoConfig, NEW n \in Names, n \notin told'.cut,
                      NEW t \in Tiers, Has(data', n, t)
               PROVE  Described(data'.meta[n][t]) = told'.desc[n]
    BY DEF CopiesSay, Says
  <2>1. /\ config # NoConfig /\ data'.value = data.value /\ data'.meta = data.meta
        /\ n \notin told.cut /\ told'.desc = told.desc /\ ~Between(proc[p])
    BY DEF Quiet
  <2>2. Says(data, n, told.desc[n])
    BY <1>1, <2>1 DEF CopiesSay
  <2> QED
    BY <2>1, <2>2 DEF Says, Has
<1>3. /\ KeepsDesc(proc'[p], told')
      /\ WritesDesc(proc'[p], data', told')
  BY DEF Quiet, KeepsDesc, WritesDesc
<1> QED
  BY <1>2, <1>3

\* A restore goes on with what it read.
LEMMA StagedKeeps ==
  ASSUME DescInv, NEW p \in Procs,
         proc[p].cmd = "restore" /\ proc[p].pc \notin {"read", "restored"},
         stage'[p].config = stage[p].config, stage'[p].was = stage[p].was,
         told'.desc = told.desc, told'.cut = told.cut, told'.undone => told.undone
  PROVE  StagedDescOK(proc[p], stage[p], told)'
BY DEF DescInv, DescriptionOK, StagedDescOK

LEMMA NotRestoring ==
  ASSUME NEW p \in Procs, proc'[p].cmd # "restore"
  PROVE  StagedDescOK(proc[p], stage[p], told)'
BY DEF StagedDescOK

\* Where one process runs the commands, the step of a command that begins goes
\* from no command to one of its first steps.
LEMMA BeginsKeepDesc ==
  ASSUME VaultInv, DescInv, NEW p \in Procs,
         \/ OpenSet(p) \/ OpenRemove(p) \/ OpenPhone(p) \/ OpenFCM(p)
         \/ BeginInit(p) \/ BeginRestore(p)
  PROVE  DescriptionOK(p)'
<1>1. ControlInv
  BY InvFacts
<1>2. /\ SameDisk /\ proc[p].cmd = "none"
      /\ \/ proc'[p].cmd \in {"rm", "enroll", "phone rm", "fcm", "init"}
         \/ proc'[p].cmd = "set" /\ proc'[p].pc = "look private"
         \/ proc'[p].cmd = "restore" /\ proc'[p].pc = "read"
  BY <1>1, OpenSetDoes, OpenRemoveDoes, OpenPhoneDoes, OpenFCMDoes, BeginInitDoes,
     BeginRestoreDoes
<1>3. Quiet(p)
  BY <1>2 DEF Quiet, Between, SameDisk
<1>4. StagedDescOK(proc[p], stage[p], told)'
  BY <1>2 DEF StagedDescOK
<1> QED
  BY <1>3, <1>4, QuietKeeps DEF DescriptionOK

LEMMA LooksKeepDesc ==
  ASSUME VaultInv, DescInv, NEW p \in Procs, LookPrivate(p) \/ LookPublic(p)
  PROVE  DescriptionOK(p)'
<1>1. ControlInv
  BY InvFacts
<1>2. /\ SameDisk /\ proc[p].pc \in {"look private", "look public"}
      /\ proc[p].cmd \in Editing /\ proc'[p].cmd = proc[p].cmd
      /\ proc'[p].cmd = "set" => proc'[p].pc \in {"look public", "choose"}
  <2>1. CASE LookPrivate(p)
    BY <1>1, <2>1, LookDoes DEF LookPrivate, SameJob, Tiers
  <2>2. CASE LookPublic(p)
    BY <1>1, <2>2, LookDoes DEF LookPublic, SameJob, Tiers
  <2> QED
    BY <2>1, <2>2
<1>3. Quiet(p)
  BY <1>2 DEF Quiet, Between, SameDisk, Writing
<1> QED
  BY <1>2, <1>3, QuietKeeps, NotRestoring DEF DescriptionOK, Editing

\* The tier a set takes the description from is one that holds the name.
LEMMA ChooseTierKeepsDesc ==
  ASSUME VaultInv, DescInv, NEW p \in Procs, ChooseTier(p)
  PROVE  DescriptionOK(p)'
<1> DEFINE r == proc[p]
<1>1. /\ ControlInv /\ EditOK(r, config, data) /\ ControlOK(r) /\ r \in ProcType
  BY InvFacts
<1>2. /\ SameDisk /\ r.cmd = "set" /\ r.pc = "choose"
      /\ SameJob(p) /\ proc'[p].pc = "mkdir" /\ proc'[p].found = r.found
      /\ proc'[p].meta = IF r.found = {} THEN NoDesc
                         ELSE Described(MetaOf(p, First(r.found)))
  BY <1>1, ChooseTierDoes
<1>3. config # NoConfig /\ r.name \in Names
  BY <1>1, <1>2 DEF EditOK, ControlOK, Editing
<1>4. ASSUME told'.undone
      PROVE  /\ CopiesSay(proc'[p], config', data', told')
             /\ KeepsDesc(proc'[p], told')
             /\ WritesDesc(proc'[p], data', told')
  <2>1. CopiesSay(r, config, data, told)
    BY <1>2, <1>4 DEF DescInv, DescriptionOK, DescOK, SameDisk
  <2>2. \A n \in Names \ told.cut : Says(data, n, told.desc[n])
    BY <1>2, <1>3, <2>1 DEF CopiesSay, Between, Writing
  <2>3. CopiesSay(proc'[p], config', data', told')
    BY <1>2, <2>2 DEF CopiesSay, SameDisk
  <2>4. ASSUME r.found # {}, r.name \notin told.cut
        PROVE  proc'[p].meta = told.desc[r.name]
    <3>1. First(r.found) \in r.found /\ First(r.found) \in Tiers
      BY <1>1, <2>4 DEF First, ProcType, Tiers
    <3>2. Has(data, r.name, First(r.found))
      BY <1>1, <1>2, <3>1 DEF EditOK, Editing
    <3>3. Says(data, r.name, told.desc[r.name])
      BY <1>3, <2>2, <2>4
    <3>4. Described(data.meta[r.name][First(r.found)]) = told.desc[r.name]
      BY <3>1, <3>2, <3>3 DEF Says
    <3> QED
      BY <1>2, <2>4, <3>4 DEF MetaOf
  <2>5. KeepsDesc(proc'[p], told')
    BY <1>2, <2>4 DEF KeepsDesc, SameJob, SameDisk
  <2>6. WritesDesc(proc'[p], data', told')
    BY <1>2 DEF WritesDesc
  <2> QED
    BY <2>3, <2>5, <2>6
<1>5. proc'[p].cmd # "restore"
  BY <1>2 DEF SameJob
<1> QED
  BY <1>4, <1>5, NotRestoring DEF DescriptionOK, DescOK

\* What follows of a step that changes only one name's files.
OnlyName(n) ==
  \A m \in Names \ {n}, t \in Tiers :
    data'.value[m][t] = data.value[m][t] /\ data'.meta[m][t] = data.meta[m][t]

LEMMA OthersSay ==
  ASSUME NEW n \in Names, OnlyName(n), NEW m \in Names \ {n}, NEW x, Says(data, m, x)
  PROVE  Says(data', m, x)
BY DEF OnlyName, Says, Has

LEMMA MakeTierDirKeepsDesc ==
  ASSUME VaultInv, DescInv, NEW p \in Procs, MakeTierDir(p)
  PROVE  DescriptionOK(p)'
<1> DEFINE r == proc[p]
<1>1. /\ ControlInv /\ data \in Dir
  BY InvFacts
<1>2. /\ config' = config /\ told' = told /\ data' = [data EXCEPT !.there = TRUE]
      /\ r.cmd = "set" /\ r.pc = "mkdir"
      /\ SameJob(p) /\ SameFound(p) /\ proc'[p].pc = "value"
  BY <1>1, MakeTierDirDoes
<1>3. data'.value = data.value /\ data'.meta = data.meta
  BY <1>1, <1>2, ThereSet
<1>4. ASSUME told'.undone
      PROVE  /\ CopiesSay(proc'[p], config', data', told')
             /\ KeepsDesc(proc'[p], told')
             /\ WritesDesc(proc'[p], data', told')
  <2>1. CopiesSay(r, config, data, told) /\ KeepsDesc(r, told)
    BY <1>2, <1>4 DEF DescInv, DescriptionOK, DescOK
  <2>2. CopiesSay(proc'[p], config', data', told')
    BY <1>2, <1>3, <2>1 DEF CopiesSay, Between, Writing, Says, Has
  <2>3. KeepsDesc(proc'[p], told')
    BY <1>2, <2>1 DEF KeepsDesc, SameJob, SameFound
  <2>4. WritesDesc(proc'[p], data', told')
    BY <1>2 DEF WritesDesc
  <2> QED
    BY <2>2, <2>3, <2>4
<1>5. proc'[p].cmd # "restore"
  BY <1>2 DEF SameJob
<1> QED
  BY <1>4, <1>5, NotRestoring DEF DescriptionOK, DescOK

LEMMA WriteValueKeepsDesc ==
  ASSUME VaultInv, DescInv, NEW p \in Procs, WriteValue(p)
  PROVE  DescriptionOK(p)'
<1> DEFINE r == proc[p]
           n == proc[p].name
           f == [key |-> proc[p].cfg.key, val |-> proc[p].val]
<1>1. /\ ControlInv /\ data \in Dir
  BY InvFacts
<1>2. /\ config' = config /\ r.cmd = "set" /\ r.pc = "value"
      /\ n \in Names /\ r.tier \in Tiers /\ r.cfg.key \in Keys /\ r.val \in Values
      /\ SameJob(p) /\ SameFound(p) /\ proc'[p].pc = "meta"
      /\ data' = [data EXCEPT !.value[n][r.tier] = f]
      /\ told'.desc[n] = IF r.desc # None THEN r.desc
                         ELSE IF r.found = {} THEN NoDesc ELSE told.desc[n]
      /\ \A m \in Names \ {n} : told'.desc[m] = told.desc[m]
      /\ told'.cut = told.cut /\ told'.undone = told.undone
  BY <1>1, WriteValueDoes
<1>3. OnlyName(n)
  <2>1. f \in File
    BY <1>2, FileMade
  <2>2. data' = PutValue(data, n, r.tier, f)
    BY <1>2 DEF PutValue
  <2> HIDE DEF f
  <2>3. /\ data'.meta = data.meta
        /\ \A m \in Names, u \in Tiers :
             m # n \/ u # r.tier => data'.value[m][u] = data.value[m][u]
    BY <1>1, <1>2, <2>1, <2>2, PutValueDoes
  <2> QED
    BY <2>3 DEF OnlyName
<1>4. ASSUME told'.undone
      PROVE  /\ CopiesSay(proc'[p], config', data', told')
             /\ KeepsDesc(proc'[p], told')
             /\ WritesDesc(proc'[p], data', told')
  <2>1. CopiesSay(r, config, data, told) /\ KeepsDesc(r, told)
    BY <1>2, <1>4 DEF DescInv, DescriptionOK, DescOK
  <2>2. CopiesSay(proc'[p], config', data', told')
    <3> SUFFICES ASSUME config' # NoConfig, NEW m \in Names, m \notin told'.cut,
                        ~(Between(proc'[p]) /\ m = proc'[p].name)
                 PROVE  Says(data', m, told'.desc[m])
      BY DEF CopiesSay
    <3>1. m \in Names \ {n}
      BY <1>2 DEF Between, Writing, SameJob
    <3>2. Says(data, m, told.desc[m])
      BY <1>2, <2>1, <3>1 DEF CopiesSay, Between, Writing
    <3>3. Says(data', m, told.desc[m])
      BY <1>2, <1>3, <3>1, <3>2, OthersSay
    <3> QED
      BY <1>2, <3>1, <3>3
  <2>3. KeepsDesc(proc'[p], told')
    BY <1>2 DEF KeepsDesc
  <2>4. WritesDesc(proc'[p], data', told')
    BY <1>2, <2>1 DEF WritesDesc, KeepsDesc, SameJob, SameFound
  <2> QED
    BY <2>2, <2>3, <2>4
<1>5. proc'[p].cmd # "restore"
  BY <1>2 DEF SameJob
<1> QED
  BY <1>4, <1>5, NotRestoring DEF DescriptionOK, DescOK

LEMMA WriteMetaKeepsDesc ==
  ASSUME VaultInv, DescInv, NEW p \in Procs, WriteMeta(p)
  PROVE  DescriptionOK(p)'
<1> DEFINE r == proc[p]
           n == proc[p].name
           x == IF proc[p].desc # None THEN proc[p].desc ELSE proc[p].meta
<1>1. /\ ControlInv /\ data \in Dir
  BY InvFacts
<1>2. /\ config' = config /\ told' = told /\ r.cmd = "set" /\ r.pc = "meta"
      /\ n \in Names /\ r.tier \in Tiers
      /\ SameJob(p) /\ proc'[p].pc = "drop" /\ proc'[p].tier = r.tier
      /\ data' = [data EXCEPT !.meta[n][r.tier] = x] /\ x \in Descs
  BY <1>1, WriteMetaDoes
<1>3. x = IF r.desc # None THEN r.desc ELSE r.meta
  OBVIOUS
<1> HIDE DEF x
<1>4. OnlyName(n) /\ data'.meta[n][r.tier] = x
  <2>1. data' = PutMeta(data, n, r.tier, x)
    BY <1>2 DEF PutMeta
  <2>2. /\ data'.value = data.value /\ data'.meta[n][r.tier] = x
        /\ \A m \in Names, u \in Tiers :
             m # n \/ u # r.tier => data'.meta[m][u] = data.meta[m][u]
    <3>1. data \in Dir /\ n \in Names /\ r.tier \in Tiers /\ x \in Descs \cup {None}
      BY <1>1, <1>2
    <3> HIDE DEF r, n
    <3> QED
      BY <2>1, <3>1, PutMetaDoes
  <2> QED
    BY <2>2 DEF OnlyName
<1>5. ASSUME told'.undone
      PROVE  /\ CopiesSay(proc'[p], config', data', told')
             /\ KeepsDesc(proc'[p], told')
             /\ WritesDesc(proc'[p], data', told')
  <2>1. CopiesSay(r, config, data, told) /\ WritesDesc(r, data, told)
    BY <1>2, <1>5 DEF DescInv, DescriptionOK, DescOK
  <2>2. CopiesSay(proc'[p], config', data', told')
    <3> SUFFICES ASSUME config' # NoConfig, NEW m \in Names, m \notin told'.cut,
                        ~(Between(proc'[p]) /\ m = proc'[p].name)
                 PROVE  Says(data', m, told'.desc[m])
      BY DEF CopiesSay
    <3>1. m \in Names \ {n}
      BY <1>2 DEF Between, Writing, SameJob
    <3>2. Says(data, m, told.desc[m])
      BY <1>2, <2>1, <3>1 DEF CopiesSay, Between, Writing
    <3> QED
      BY <1>2, <1>4, <3>1, <3>2, OthersSay
  <2>3. KeepsDesc(proc'[p], told')
    BY <1>2 DEF KeepsDesc
  <2>4. Described(data'.meta[n][r.tier]) = x
    BY <1>2, <1>4, NoneApart DEF Described
  <2>5. WritesDesc(proc'[p], data', told')
    BY <1>2, <1>3, <2>1, <2>4 DEF WritesDesc, SameJob
  <2> QED
    BY <2>2, <2>3, <2>5
<1>6. proc'[p].cmd # "restore"
  BY <1>2 DEF SameJob
<1> QED
  BY <1>5, <1>6, NotRestoring DEF DescriptionOK, DescOK

LEMMA FoundKeepsDesc ==
  ASSUME VaultInv, DescInv, NEW p \in Procs, Found(p)
  PROVE  DescriptionOK(p)'
<1>1. ControlInv
  BY InvFacts
<1>2. /\ SameDisk /\ proc[p].cmd = "rm" /\ SameJob(p)
  BY <1>1, FoundDoes
<1>3. Quiet(p) /\ proc'[p].cmd # "restore"
  BY <1>2 DEF Quiet, Between, SameDisk, SameJob
<1> QED
  BY <1>3, QuietKeeps, NotRestoring DEF DescriptionOK

\* A copy that is dropped says nothing any more, and the others what they did.
LEMMA DropValueKeepsDesc ==
  ASSUME VaultInv, DescInv, NEW p \in Procs, DropValue(p)
  PROVE  DescriptionOK(p)'
<1> DEFINE r == proc[p]
           n == proc[p].name
           t == First(proc[p].found)
<1>1. /\ ControlInv /\ data \in Dir /\ EditOK(r, config, data)
      /\ told \in ToldType
  BY InvFacts
<1>2. /\ config' = config /\ r.cmd \in Editing /\ r.pc = "drop"
      /\ n \in Names /\ t \in r.found /\ t \in Tiers
      /\ SameJob(p) /\ SameFound(p) /\ proc'[p].pc = "drop meta"
      /\ data' = [data EXCEPT !.value[n][t] = NoFile]
      /\ told'.desc = told.desc /\ told'.cut = told.cut /\ told'.undone = told.undone
  BY <1>1, DropValueDoes DEF Editing
<1>3. /\ data'.meta = data.meta
      /\ \A m \in Names, u \in Tiers : Has(data', m, u) => Has(data, m, u)
  <2>1. data' = PutValue(data, n, t, NoFile)
    BY <1>2 DEF PutValue
  <2>2. NoFile \in File
    BY DEF File
  <2> HIDE DEF t, n
  <2>3. /\ data'.meta = data.meta /\ data'.value[n][t] = NoFile
        /\ \A m \in Names, u \in Tiers :
             m # n \/ u # t => data'.value[m][u] = data.value[m][u]
    <3>1. data \in Dir /\ n \in Names /\ t \in Tiers
      BY <1>1, <1>2
    <3> QED
      BY <2>1, <2>2, <3>1, PutValueDoes
  <2> QED
    BY <2>3 DEF Has
<1>4. ASSUME told'.undone
      PROVE  /\ CopiesSay(proc'[p], config', data', told')
             /\ KeepsDesc(proc'[p], told')
             /\ WritesDesc(proc'[p], data', told')
  <2>1. CopiesSay(r, config, data, told) /\ WritesDesc(r, data, told)
    BY <1>2, <1>4 DEF DescInv, DescriptionOK, DescOK
  <2>2. CopiesSay(proc'[p], config', data', told')
    <3> SUFFICES ASSUME config' # NoConfig, NEW m \in Names, m \notin told'.cut,
                        ~(Between(proc'[p]) /\ m = proc'[p].name)
                 PROVE  Says(data', m, told'.desc[m])
      BY DEF CopiesSay
    <3>1. ~(Between(r) /\ m = n)
      BY <1>2 DEF Between, Writing, SameJob
    <3>2. Says(data, m, told.desc[m])
      BY <1>2, <2>1, <3>1 DEF CopiesSay
    <3> QED
      BY <1>2, <1>3, <3>2 DEF Says
  <2>3. KeepsDesc(proc'[p], told')
    BY <1>2 DEF KeepsDesc
  <2>4. WritesDesc(proc'[p], data', told')
    BY <1>2, <1>3, <2>1 DEF WritesDesc, SameJob, SameFound
  <2> QED
    BY <2>2, <2>3, <2>4
<1>5. proc'[p].cmd # "restore"
  BY <1>2 DEF SameJob, Editing
<1> QED
  BY <1>4, <1>5, NotRestoring DEF DescriptionOK, DescOK

\* The description that is dropped is of a tier that no longer holds the name,
\* and never of the one a set wrote to.
LEMMA DropMetaKeepsDesc ==
  ASSUME VaultInv, DescInv, NEW p \in Procs, DropMeta(p)
  PROVE  DescriptionOK(p)'
<1> DEFINE r == proc[p]
           n == proc[p].name
           t == First(proc[p].found)
<1>1. /\ ControlInv /\ data \in Dir /\ EditOK(r, config, data) /\ r \in ProcType
      /\ ControlOK(r)
  BY InvFacts
<1>2. /\ config' = config /\ told' = told /\ r.cmd \in Editing /\ r.pc = "drop meta"
      /\ n \in Names /\ t \in Tiers
      /\ SameJob(p) /\ proc'[p].pc = "drop" /\ proc'[p].tier = r.tier
      /\ data' = [data EXCEPT !.meta[n][t] = None]
  BY <1>1, DropMetaDoes
<1>3. /\ data'.value = data.value
      /\ \A m \in Names, u \in Tiers :
           m # n \/ u # t => data'.meta[m][u] = data.meta[m][u]
  <2>1. data' = PutMeta(data, n, t, None)
    BY <1>2 DEF PutMeta
  <2> HIDE DEF t, n
  <2>2. data \in Dir /\ n \in Names /\ t \in Tiers /\ None \in Descs \cup {None}
    BY <1>1, <1>2
  <2>3. /\ data'.value = data.value /\ data'.meta[n][t] = None
        /\ \A m \in Names, u \in Tiers :
             m # n \/ u # t => data'.meta[m][u] = data.meta[m][u]
    BY <2>1, <2>2, PutMetaDoes
  <2> QED
    BY <2>3
<1>4. t \in r.found /\ r.tier # t
  <2>1. r.found # {} /\ r.tier \notin r.found
    BY <1>1, <1>2 DEF EditOK
  <2>2. r.found \subseteq Tiers
    BY <1>1 DEF ProcType
  <2>3. t \in r.found
    BY <2>1, <2>2 DEF First, Tiers
  <2> QED
    BY <2>1, <2>3
<1>5. r.cmd = "rm" => ~Has(data, n, t)
  BY <1>1, <1>2, NoneApart DEF EditOK, ControlOK
<1>6. ASSUME told'.undone
      PROVE  /\ CopiesSay(proc'[p], config', data', told')
             /\ KeepsDesc(proc'[p], told')
             /\ WritesDesc(proc'[p], data', told')
  <2>1. CopiesSay(r, config, data, told) /\ WritesDesc(r, data, told)
    BY <1>2, <1>6 DEF DescInv, DescriptionOK, DescOK
  <2>2. CopiesSay(proc'[p], config', data', told')
    <3> SUFFICES ASSUME config' # NoConfig, NEW m \in Names, m \notin told'.cut,
                        ~(Between(proc'[p]) /\ m = proc'[p].name),
                        NEW u \in Tiers, Has(data', m, u)
                 PROVE  Described(data'.meta[m][u]) = told'.desc[m]
      BY DEF CopiesSay, Says
    <3>1. ~(Between(r) /\ m = n)
      BY <1>2 DEF Between, Writing, SameJob
    <3>2. Says(data, m, told.desc[m]) /\ Has(data, m, u)
      BY <1>2, <1>3, <2>1, <3>1 DEF CopiesSay, Has
    <3>3. m # n \/ u # t
      <4>1. CASE r.cmd = "rm"
        BY <1>5, <3>2, <4>1
      <4>2. CASE r.cmd = "set"
        BY <1>2, <3>1, <4>2 DEF Between, Writing
      <4> QED
        BY <1>2, <4>1, <4>2 DEF Editing
    <3>4. data'.meta[m][u] = data.meta[m][u]
      BY <1>3, <3>3
    <3> QED
      BY <1>2, <3>2, <3>4 DEF Says
  <2>3. KeepsDesc(proc'[p], told')
    BY <1>2 DEF KeepsDesc
  <2>4. WritesDesc(proc'[p], data', told')
    <3> SUFFICES ASSUME r.cmd = "set", r.name \notin told.cut \/ r.desc # None
                 PROVE  Described(data'.meta[n][r.tier]) = told.desc[n]
      BY <1>2 DEF WritesDesc, SameJob
    <3>1. r.tier \in Tiers
      BY <1>1, <1>2 DEF ControlOK, Writing
    <3>2. Described(data.meta[n][r.tier]) = told.desc[n]
      BY <1>2, <2>1 DEF WritesDesc
    <3>3. data'.meta[n][r.tier] = data.meta[n][r.tier]
      BY <1>2, <1>3, <1>4, <3>1
    <3> QED
      BY <3>2, <3>3
  <2> QED
    BY <2>2, <2>3, <2>4
<1>7. proc'[p].cmd # "restore"
  BY <1>2 DEF SameJob, Editing
<1> QED
  BY <1>6, <1>7, NotRestoring DEF DescriptionOK, DescOK

\* The set is over: only the tier it wrote to holds the name.
LEMMA StoredKeepsDesc ==
  ASSUME VaultInv, DescInv, NEW p \in Procs, Stored(p)
  PROVE  DescriptionOK(p)'
<1> DEFINE r == proc[p]
           n == proc[p].name
<1>1. /\ ControlInv /\ EditOK(r, config, data) /\ ControlOK(r)
  BY InvFacts
<1>2. /\ config' = config /\ data' = data
      /\ r.cmd \in Editing /\ r.pc = "drop" /\ r.found = {} /\ n \in Names
      /\ proc'[p] = Idle
      /\ told'.cut = IF r.cmd = "rm" \/ r.desc # None THEN told.cut \ {n} ELSE told.cut
      /\ told'.desc = told.desc /\ told'.undone = told.undone
  BY <1>1, StoredDoes
<1>3. proc'[p].cmd = "none"
  BY <1>2, IdleTyped
<1>4. config # NoConfig
  BY <1>1, <1>2 DEF EditOK, ControlOK, Editing
<1>5. ASSUME told'.undone
      PROVE  CopiesSay(proc'[p], config', data', told')
  <2> SUFFICES ASSUME NEW m \in Names, m \notin told'.cut, NEW t \in Tiers,
                      Has(data, m, t)
               PROVE  Described(data.meta[m][t]) = told.desc[m]
    BY <1>2 DEF CopiesSay, Says
  <2>1. CopiesSay(r, config, data, told) /\ WritesDesc(r, data, told)
    BY <1>2, <1>5 DEF DescInv, DescriptionOK, DescOK
  <2>2. CASE m # n
    <3>1. m \notin told.cut
      BY <1>2, <2>2
    <3> QED
      BY <1>4, <2>1, <2>2, <3>1 DEF CopiesSay, Says
  <2>3. CASE m = n
    <3>1. t = r.tier
      BY <1>1, <1>2, <2>3 DEF EditOK
    <3>2. r.cmd = "set"
      <4>1. r.cmd = "rm" => r.tier = None
        BY <1>1 DEF ControlOK
      <4>2. r.tier \in Tiers /\ r.cmd \in {"set", "rm"}
        BY <1>2, <3>1 DEF Editing
      <4> QED
        BY <4>1, <4>2, NoneApart
    <3>3. n \notin told.cut \/ r.desc # None
      <4>1. n \notin told'.cut
        BY <2>3
      <4>2. r.desc = None => told'.cut = told.cut
        BY <1>2, <3>2
      <4> QED
        BY <4>1, <4>2
    <3> QED
      BY <1>2, <2>1, <2>3, <3>1, <3>2, <3>3 DEF WritesDesc
  <2> QED
    BY <2>2, <2>3
<1>6. KeepsDesc(proc'[p], told') /\ WritesDesc(proc'[p], data', told')
  BY <1>3 DEF KeepsDesc, WritesDesc
<1> QED
  BY <1>3, <1>5, <1>6, NotRestoring DEF DescriptionOK, DescOK

\* Init before its config, and the commands that rewrap the private key.
LEMMA RewrapsKeepDesc ==
  ASSUME VaultInv, DescInv, NEW p \in Procs,
         Unlock(p) \/ Wrap(p) \/ Ensure(p) \/ WritePublicKey(p) \/ Enrolled(p)
  PROVE  DescriptionOK(p)'
<1>1. /\ ControlInv /\ data \in Dir
  BY InvFacts
<1>2. /\ config' = config /\ proc[p].cmd \in Rewrapping \cup {"init"}
      /\ proc'[p].cmd \in Rewrapping \cup {"init", "none"}
      /\ told'.desc = told.desc /\ told'.cut = told.cut /\ told'.undone = told.undone
      /\ data'.value = data.value /\ data'.meta = data.meta
  <2>1. CASE Unlock(p)
    BY <1>1, <2>1, UnlockDoes DEF Rewrapping, SameJob, SameDisk
  <2>2. CASE Wrap(p)
    <3>1. /\ config' = config /\ proc[p].cmd \in Rewrapping \cup {"init"} /\ SameJob(p)
          /\ told'.desc = told.desc /\ told'.cut = told.cut
          /\ told'.undone = told.undone
          /\ NewUnlocks(p) \in SUBSET Unlocks /\ proc[p].cfg.key \in Keys
          /\ data' = [data EXCEPT
               !.priv = [key |-> proc[p].cfg.key, to |-> NewUnlocks(p)]]
      BY <1>1, <2>2, WrapDoes DEF Rewrapping
    <3>2. data'.value = data.value /\ data'.meta = data.meta
      BY <1>1, <3>1, PrivSet
    <3> QED
      BY <3>1, <3>2 DEF SameJob
  <2>3. CASE Ensure(p)
    <3>1. /\ config' = config /\ told' = told /\ data' = [data EXCEPT !.there = TRUE]
          /\ proc[p].cmd = "init" /\ SameJob(p)
      BY <1>1, <2>3, EnsureDoes
    <3>2. data'.value = data.value /\ data'.meta = data.meta
      BY <1>1, <3>1, ThereSet
    <3> QED
      BY <3>1, <3>2 DEF SameJob
  <2>4. CASE WritePublicKey(p)
    <3>1. /\ config' = config /\ told' = told /\ data' = [data EXCEPT !.pub = OwnKey]
          /\ proc[p].cmd = "init" /\ SameJob(p)
      BY <1>1, <2>4, WritePublicKeyDoes
    <3>2. data'.value = data.value /\ data'.meta = data.meta
      BY <1>1, <3>1, PubSet, NoneApart
    <3> QED
      BY <3>1, <3>2 DEF SameJob
  <2>5. CASE Enrolled(p)
    BY <1>1, <2>5, EnrolledDoes, IdleTyped DEF Rewrapping
  <2> QED
    BY <2>1, <2>2, <2>3, <2>4, <2>5
<1>3. Quiet(p)
  BY <1>2 DEF Quiet, Between, Rewrapping
<1> QED
  BY <1>2, <1>3, QuietKeeps, NotRestoring DEF DescriptionOK, Rewrapping

\* The config is saved: a vault that was there says what it did, and a new one
\* what was staged of it.
LEMMA SaveKeepsDesc ==
  ASSUME VaultInv, DescInv, NEW p \in Procs, Save(p)
  PROVE  DescriptionOK(p)'
<1> DEFINE r == proc[p]
           from == stage[p].from
<1>1. /\ ControlInv /\ ControlOK(r) /\ r \in ProcType /\ data \in Dir
      /\ RewrapOK(r, config, data, told)
      /\ InitOK(r, config, data, told)
      /\ RestoreOK(r, stage[p], config, data, told)
      /\ stage[p] \in StageType /\ from \in Dir
      /\ config \in Config
  BY InvFacts DEF StageType
<1>2. /\ data' = data
      /\ r.cmd \in Rewrapping \cup {"init", "restore"} /\ r.pc = "save"
      /\ r.cfg.key \in Keys
      /\ told' = Told(p, from)
      /\ r.cmd = "enroll" => SameJob(p)
      /\ r.cmd = "restore" => SameJob(p) /\ proc'[p].pc = "restored"
      /\ r.cmd \notin {"enroll", "restore"} => proc'[p] = Idle
  BY <1>1, SaveDoes
<1>3. proc'[p].cmd # "set" /\ (proc'[p].cmd = "restore" => proc'[p].pc = "restored")
  BY <1>2, IdleTyped DEF SameJob, Rewrapping
<1>4. StagedDescOK(proc[p], stage[p], told)'
  BY <1>3 DEF StagedDescOK
<1>5. CASE r.cmd \in Rewrapping
  <2>1. config # NoConfig
    BY <1>1, <1>2, <1>5, ConfigFacts, NoneApart DEF RewrapOK
  <2>2. /\ told'.desc = told.desc /\ told'.cut = told.cut
        /\ told'.undone = told.undone
    <3> DEFINE h == Told(p, from)
    <3>1. h.desc = told.desc /\ h.cut = told.cut /\ h.undone = told.undone
      BY <1>1, <1>5, ToldTyped DEF Rewrapping
    <3> QED
      BY <1>2, <3>1
  <2>3. Quiet(p)
    BY <1>2, <1>3, <1>5, <2>1, <2>2 DEF Quiet, Between, Rewrapping
  <2> QED
    BY <1>4, <2>3, QuietKeeps DEF DescriptionOK
<1>6. CASE r.cmd \in {"init", "restore"}
  <2>1. /\ ToldOf(from, told')
        /\ told'.undone = (told.undone \/ r.cmd = "restore")
    <3> DEFINE h == Told(p, from)
    <3>1. ToldOf(from, h) /\ h.undone = (told.undone \/ r.cmd = "restore")
      BY <1>1, <1>6, ToldTyped
    <3> QED
      BY <1>2, <3>1
  <2>2. ASSUME told'.undone
        PROVE  \A n \in Names, t \in Tiers :
                 Has(data, n, t) => Has(from, n, t) /\ data.meta[n][t] = from.meta[n][t]
    <3>1. CASE r.cmd = "init"
      BY <1>1, <2>1, <2>2, <3>1 DEF InitOK
    <3>2. CASE r.cmd = "restore"
      <4>1. data = New(r, stage[p])
        BY <1>1, <1>2, <3>2 DEF RestoreOK
      <4>2. /\ New(r, stage[p]).value = from.value
            /\ New(r, stage[p]).meta = from.meta
        <5>1. r.cfg.unlocks \in SUBSET Unlocks
          BY <1>1, JobFacts
        <5> QED
          BY <1>1, <1>2, <5>1, NewFacts
      <4> QED
        BY <4>1, <4>2 DEF Has
    <3> QED
      BY <1>6, <3>1, <3>2
  <2>3. ASSUME told'.undone
        PROVE  CopiesSay(proc'[p], config', data', told')
    BY <1>2, <2>1, <2>2, <2>3 DEF CopiesSay, ToldOf, Says
  <2>4. KeepsDesc(proc'[p], told') /\ WritesDesc(proc'[p], data', told')
    BY <1>3 DEF KeepsDesc, WritesDesc
  <2> QED
    BY <1>4, <2>3, <2>4 DEF DescriptionOK, DescOK
<1> QED
  BY <1>2, <1>5, <1>6

\* A restore reads what it may have to put back.
LEMMA ReadConfigKeepsDesc ==
  ASSUME VaultInv, DescInv, NEW p \in Procs, ReadConfig(p)
  PROVE  DescriptionOK(p)'
<1>1. ControlInv
  BY InvFacts
<1>2. /\ SameDisk /\ proc[p].cmd = "restore" /\ proc[p].pc = "read" /\ SameJob(p)
      /\ stage'[p].config = config /\ stage'[p].was = data
  BY <1>1, ReadConfigDoes
<1>3. Quiet(p)
  BY <1>2 DEF Quiet, Between, SameDisk, SameJob
<1>4. StagedDescOK(proc[p], stage[p], told)'
  <2> SUFFICES ASSUME told.undone, config # NoConfig, NEW n \in Names, n \notin told.cut
               PROVE  Says(data, n, told.desc[n])
    BY <1>2 DEF StagedDescOK, SameDisk
  <2>1. CopiesSay(proc[p], config, data, told)
    BY DEF DescInv, DescriptionOK, DescOK
  <2> QED
    BY <1>2, <2>1 DEF CopiesSay, Between
<1> QED
  BY <1>3, <1>4, QuietKeeps DEF DescriptionOK

\* While the old vault is aside there is no config.
LEMMA SwapsKeepDesc ==
  ASSUME VaultInv, DescInv, NEW p \in Procs,
         RemoveConfig(p) \/ MoveOut(p) \/ MoveIn(p) \/ PutAside(p) \/ PutBack(p)
  PROVE  DescriptionOK(p)'
<1>1. /\ ControlInv /\ RestoreOK(proc[p], stage[p], config, data, told)
  BY InvFacts
<1>2. /\ config' = NoConfig /\ told' = told
      /\ proc[p].cmd = "restore" /\ SameJob(p)
      /\ proc[p].pc \notin {"read", "restored"}
      /\ stage'[p].config = stage[p].config /\ stage'[p].was = stage[p].was
  <2>1. CASE RemoveConfig(p)
    BY <1>1, <2>1, RemoveConfigDoes
  <2>2. CASE MoveOut(p)
    BY <1>1, <2>2, MoveOutDoes DEF RestoreOK
  <2>3. CASE MoveIn(p)
    BY <1>1, <2>3, MoveInDoes DEF RestoreOK
  <2>4. CASE PutAside(p)
    BY <1>1, <2>4, PutAsideDoes DEF RestoreOK
  <2>5. CASE PutBack(p)
    BY <1>1, <2>5, PutBackDoes DEF RestoreOK
  <2> QED
    BY <2>1, <2>2, <2>3, <2>4, <2>5
<1>3. Quiet(p)
  BY <1>2 DEF Quiet, Between, SameJob
<1>4. StagedDescOK(proc[p], stage[p], told)'
  BY <1>2, StagedKeeps
<1> QED
  BY <1>3, <1>4, QuietKeeps DEF DescriptionOK

\* The config a restore puts back is that of the vault it put back.
LEMMA PutConfigKeepsDesc ==
  ASSUME VaultInv, DescInv, NEW p \in Procs, PutConfig(p)
  PROVE  DescriptionOK(p)'
<1>1. /\ ControlInv /\ RestoreOK(proc[p], stage[p], config, data, told)
  BY InvFacts
<1>2. /\ data' = data /\ told' = told /\ stage' = stage
      /\ proc[p].cmd = "restore" /\ proc[p].pc = "put config"
      /\ SameJob(p) /\ proc'[p].pc = "failed"
      /\ config' = IF stage[p].config # NoConfig THEN stage[p].config ELSE config
  BY <1>1, PutConfigDoes
<1>3. StagedDescOK(proc[p], stage[p], told)'
  BY <1>2, StagedKeeps
<1>4. ASSUME told'.undone
      PROVE  CopiesSay(proc'[p], config', data', told')
  <2> SUFFICES ASSUME config' # NoConfig, NEW n \in Names, n \notin told.cut
               PROVE  Says(data, n, told.desc[n])
    BY <1>2 DEF CopiesSay
  <2>1. config = NoConfig /\ data = stage[p].was
    BY <1>1, <1>2, <1>4 DEF RestoreOK
  <2>2. stage[p].config # NoConfig
    BY <1>2, <2>1
  <2>3. StagedDescOK(proc[p], stage[p], told)
    BY DEF DescInv, DescriptionOK
  <2> QED
    BY <1>2, <1>4, <2>1, <2>2, <2>3 DEF StagedDescOK
<1>5. KeepsDesc(proc'[p], told') /\ WritesDesc(proc'[p], data', told')
  BY <1>2 DEF KeepsDesc, WritesDesc, SameJob
<1> QED
  BY <1>3, <1>4, <1>5 DEF DescriptionOK, DescOK

\* A set that ends between its writes leaves its name cut short.
LEMMA CutKeepsDesc ==
  ASSUME VaultInv, DescInv, NEW p \in Procs,
         config' = config, data' = data, proc'[p] = Idle, SamePromise,
         told'.cut = CutShort(p)
  PROVE  DescriptionOK(p)'
<1>1. proc'[p].cmd = "none"
  BY IdleTyped
<1>2. /\ told'.desc = told.desc /\ told'.undone = told.undone
      /\ Between(proc[p]) => told'.cut = told.cut \cup {proc[p].name}
      /\ ~Between(proc[p]) => told'.cut = told.cut
  BY DEF SamePromise, CutShort, Between, Writing
<1>3. ASSUME told'.undone
      PROVE  CopiesSay(proc'[p], config', data', told')
  <2>1. CopiesSay(proc[p], config, data, told)
    BY <1>2, <1>3 DEF DescInv, DescriptionOK, DescOK
  <2> QED
    BY <1>2, <2>1 DEF CopiesSay
<1>4. KeepsDesc(proc'[p], told') /\ WritesDesc(proc'[p], data', told')
  BY <1>1 DEF KeepsDesc, WritesDesc
<1> QED
  BY <1>1, <1>3, <1>4, NotRestoring DEF DescriptionOK, DescOK

LEMMA FaultsKeepDesc ==
  ASSUME VaultInv, DescInv, NEW p \in Procs,
         Refused(p) \/ WriteFails(p) \/ Dies(p) \/ EndRestore(p)
  PROVE  DescriptionOK(p)'
<1>1. ControlInv /\ RestoreOK(proc[p], stage[p], config, data, told)
  BY InvFacts
<1>2. CASE Refused(p) \/ Dies(p) \/ (WriteFails(p) /\ proc[p].cmd # "restore")
  <2>1. /\ config' = config /\ data' = data /\ proc'[p] = Idle /\ SamePromise
        /\ told'.cut = CutShort(p)
    BY <1>1, <1>2, RefusedDoes, DiesDoes, WriteFailsDoes
  <2> QED
    BY <2>1, CutKeepsDesc
<1>3. CASE WriteFails(p) /\ proc[p].cmd = "restore"
  <2>1. /\ config' = config /\ data' = data /\ stage' = stage
        /\ told'.desc = told.desc /\ told'.cut = told.cut
        /\ told'.undone => told.undone
        /\ SameJob(p) /\ proc[p].pc \in DOMAIN AfterFailed
    BY <1>1, <1>3, WriteFailsDoes
  <2>2. proc[p].pc \notin {"read", "restored"}
    BY <2>1 DEF AfterFailed, Rollback
  <2>3. Quiet(p)
    BY <1>3, <2>1 DEF Quiet, Between, SameJob
  <2>4. StagedDescOK(proc[p], stage[p], told)'
    BY <1>3, <2>1, <2>2, StagedKeeps
  <2> QED
    BY <2>3, <2>4, QuietKeeps DEF DescriptionOK
<1>4. CASE EndRestore(p)
  <2>1. SameDisk /\ proc'[p] = Idle /\ proc[p].pc \in {"restored", "failed"}
    BY <1>1, <1>4, EndRestoreDoes DEF EndRestore
  <2>2. Quiet(p) /\ proc'[p].cmd # "restore"
    BY <2>1, IdleTyped DEF Quiet, Between, Writing, SameDisk
  <2> QED
    BY <2>2, QuietKeeps, NotRestoring DEF DescriptionOK
<1> QED
  BY <1>2, <1>3, <1>4

LEMMA StepKeepsDesc ==
  ASSUME VaultInv, DescInv, NEW p \in Procs,
         Step(p) \/ Refused(p) \/ WriteFails(p) \/ Dies(p)
  PROVE  DescriptionOK(p)'
<1>1. CASE \/ OpenSet(p) \/ OpenRemove(p) \/ OpenPhone(p) \/ OpenFCM(p)
           \/ BeginInit(p) \/ BeginRestore(p)
  BY <1>1, BeginsKeepDesc
<1>2. CASE LookPrivate(p) \/ LookPublic(p) \/ ChooseTier(p) \/ MakeTierDir(p)
  BY <1>2, LooksKeepDesc, ChooseTierKeepsDesc, MakeTierDirKeepsDesc
<1>3. CASE WriteValue(p) \/ WriteMeta(p) \/ Found(p)
  BY <1>3, WriteValueKeepsDesc, WriteMetaKeepsDesc, FoundKeepsDesc
<1>4. CASE DropValue(p) \/ DropMeta(p) \/ Stored(p)
  BY <1>4, DropValueKeepsDesc, DropMetaKeepsDesc, StoredKeepsDesc
<1>5. CASE Unlock(p) \/ Wrap(p) \/ Ensure(p) \/ WritePublicKey(p) \/ Enrolled(p)
  BY <1>5, RewrapsKeepDesc
<1>6. CASE Save(p) \/ ReadConfig(p) \/ PutConfig(p)
  BY <1>6, SaveKeepsDesc, ReadConfigKeepsDesc, PutConfigKeepsDesc
<1>7. CASE RemoveConfig(p) \/ MoveOut(p) \/ MoveIn(p) \/ PutAside(p) \/ PutBack(p)
  BY <1>7, SwapsKeepDesc
<1>8. CASE Refused(p) \/ WriteFails(p) \/ Dies(p) \/ EndRestore(p)
  BY <1>8, FaultsKeepDesc
<1> QED
  BY <1>1, <1>2, <1>3, <1>4, <1>5, <1>6, <1>7, <1>8 DEF Step

LEMMA InitDesc == Init => DescInv
<1> SUFFICES ASSUME Init, NEW p \in Procs PROVE DescriptionOK(p)
  BY DEF DescInv
<1>1. data \in Dir
  BY InitControl DEF ControlInv, Typed
<1>2. proc[p] = Idle /\ told = Fresh(data)
  BY DEF Init
<1>3. proc[p].cmd = "none"
  BY <1>2, IdleTyped
<1>4. ToldOf(data, told)
  BY <1>1, <1>2, FreshFacts
<1> QED
  BY <1>3, <1>4 DEF DescriptionOK, DescOK, StagedDescOK, CopiesSay, KeepsDesc,
     WritesDesc, ToldOf

LEMMA DescNext ==
  ASSUME OneProcess PROVE VaultInv /\ DescInv /\ [Next]_vars => DescInv'
<1> SUFFICES ASSUME VaultInv, DescInv, [Next]_vars PROVE DescInv'
  OBVIOUS
<1>1. CASE UNCHANGED vars
  BY <1>1 DEF vars, DescInv, DescriptionOK
<1>2. CASE Next
  <2>1. PICK p \in Procs : Step(p) \/ Refused(p) \/ WriteFails(p) \/ Dies(p)
    BY <1>2 DEF Next
  <2>2. DescriptionOK(p)'
    BY <2>1, StepKeepsDesc
  <2>3. \A q \in Procs : q = p
    BY DEF OneProcess
  <2> QED
    BY <2>2, <2>3 DEF DescInv
<1> QED
  BY <1>1, <1>2

\* Moving or replacing a secret keeps its description unless a new one is given
\* (SetOptions.Description): a set reads it from a tier that holds the name
\* before it writes any, writes it beside the new copy, and drops the old tier's
\* only after.
THEOREM DescriptionKeptHolds == ASSUME OneProcess PROVE Spec => []DescriptionKept
<1>1. VaultInv /\ DescInv /\ [Next]_vars => DescInv'
  BY DescNext
<1>2. (VaultInv /\ DescInv) => DescriptionKept
  <2> SUFFICES ASSUME DescInv, Opens, \A p \in Procs : proc[p].pc = "idle",
                      NEW n \in Names, n \notin told.cut, NEW t \in Tiers,
                      data.value[n][t] # NoFile
               PROVE  Described(data.meta[n][t]) = told.desc[n]
    BY DEF DescriptionKept
  <2>1. PICK p \in Procs : TRUE
    BY DEF OneProcess
  <2>2. CopiesSay(proc[p], config, data, told) /\ ~Between(proc[p])
    BY DEF DescInv, DescriptionOK, DescOK, Opens, Between, Writing
  <2>3. Says(data, n, told.desc[n])
    BY <2>2 DEF CopiesSay, Opens
  <2> QED
    BY <2>3 DEF Says, Has
<1> QED
  BY <1>1, <1>2, InitDesc, VaultInvariant, PTL DEF Spec
=============================================================================
