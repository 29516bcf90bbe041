------------------------------- MODULE MCVault -------------------------------
(* Instances of Vault for TLC: a backup of this vault, and one of another    *)
(* with each name in both tiers, one copy without metadata.                  *)
EXTENDS Vault

CONSTANTS k2, v1, d1, f1

Backup(k, ts, to) ==
  [config |-> [key |-> k, unlocks |-> to],
   data |-> [NoDir EXCEPT
     !.there = TRUE, !.pub = k,
     !.value = [n \in Names |-> [t \in Tiers |->
                  IF t \in ts THEN [key |-> k, val |-> v1] ELSE NoFile]],
     !.meta = [n \in Names |-> [@[n] EXCEPT ![First(ts)] = d1]]]]

TwoBackups == {Backup(OwnKey, {"public"}, {Desktop, f1}),
               Backup(k2, Tiers, {Desktop})}

AllCommands == {"init", "set", "rm", "enroll", "phone rm", "fcm", "restore"}
=============================================================================
