-------------------------------- MODULE Import --------------------------------
(***************************************************************************)
(* broker import (cmd/import.go): read a shell env file, decide what to    *)
(* store, store it name by name, and say which lines can be deleted.  The  *)
(* file is written statement by statement before the command runs; what a  *)
(* shell makes of each statement is known from how it was written, and the *)
(* command sees only the text.  The report is the lines it says to delete. *)
(***************************************************************************)
EXTENDS EnvFile, SequencesExt

CONSTANTS
  Forms,        \* what a file is made of: records [text, name, value, known, uses, alone, size]
  MaxSize,      \* the size of a file, its statements' sizes added up
  Flags,        \* the ways the command may be run: records [overwrite, public, dry]
  Vaults        \* what the vault may hold before: functions from names to [value, tier]

ASSUME SizesArePositive == MaxSize \in Nat /\ \A s \in Forms : s.size \in Nat \ {0}

VARIABLES
  pc,      \* "write", then "plan", "store", "print" and "done"
  file,    \* the statements of the file, one to a line
  flags,   \* how the command was run
  vault,   \* name -> [value, tier]
  plan,    \* the names to store, in order
  stored,  \* how many of the plan were stored
  told,    \* the lines the report says can be deleted
  log      \* the names the audit log's entry has

vars == <<pc, file, flags, vault, plan, stored, told, log>>

Text(f) == FlattenSeq([k \in 1..Len(f) |-> IF k = 1 THEN f[k].text ELSE <<NL>> \o f[k].text])
Size(f) == FoldSeq(LAMBDA s, n : s.size + n, 0, f)

----------------------------------------------------------------------------
\* Deciding (planImport).

ValidateName(n) == n # <<>> /\ \A k \in 1..Len(n) : n[k] \in {"A", "B"}
ValidateValue(v) == v # <<>>

Plain(a) == a.known /\ ValidateName(a.name) /\ ValidateValue(a.value)

BugFirstOf(as, n) == Min({k \in 1..Len(as) : as[k].name = n})
LastOf(as, n) == Max({k \in 1..Len(as) : as[k].name = n})

\* The assignments to store: one of a name's cannot be unless its last can.
Kept(as) == {k \in 1..Len(as) : Plain(as[k]) /\ Plain(as[LastOf(as, as[k].name)])}

TierOf(v, public, n) ==
  IF public THEN "public" ELSE IF n \in DOMAIN v THEN v[n].tier ELSE "private"

\* A name's last value, all its lines, and whether the file still expands it.
Secret(f, n) ==
  LET as == f.assignments
      mine == {k \in Kept(as) : as[k].name = n}
  IN  [name |-> n, value |-> as[Max(mine)].value,
       lines |-> UNION {as[k].first..as[k].last : k \in mine}, used |-> n \in f.refs]

\* The plan: the names in the order they first appear, but for those the
\* vault has when they are not to be replaced.
PlanImport(f, v, overwrite, public) ==
  LET as == f.assignments
      firsts == {k \in Kept(as) : \A j \in Kept(as) : as[j].name = as[k].name => k <= j}
      names == [i \in 1..Cardinality(firsts) |-> as[SetToSortSeq(firsts, <)[i]].name]
      toStore == SelectSeq(names, LAMBDA n : overwrite \/ n \notin DOMAIN v)
  IN  [i \in 1..Len(toStore) |->
         [secret |-> Secret(f, toStore[i]), tier |-> TierOf(v, public, toStore[i])]]

\* What the report says can be deleted (print, lineList).
Deletable(secrets) ==
  UNION {secrets[k].secret.lines : k \in {j \in 1..Len(secrets) : ~secrets[j].secret.used}}

----------------------------------------------------------------------------
Init ==
  /\ pc = "write"
  /\ file = <<>>
  /\ flags = [overwrite |-> FALSE, public |-> FALSE, dry |-> FALSE]
  /\ vault = <<>>
  /\ plan = <<>>
  /\ stored = 0
  /\ told = {}
  /\ log = {}

Write ==
  /\ pc = "write"
  /\ LET room == MaxSize - Size(file)
     IN  /\ room > 0
         /\ \E s \in Forms :
              /\ s.size <= room
              /\ file' = Append(file, s)
  /\ UNCHANGED <<pc, flags, vault, plan, stored, told, log>>

\* The file or the vault cannot be read: nothing is stored, nothing is said.
Fails ==
  /\ pc = "write"
  /\ pc' = "done"
  /\ UNCHANGED <<file, flags, vault, plan, stored, told, log>>

\* The command is run, on a vault that may hold some of the names.
Plan ==
  /\ pc = "write"
  /\ file # <<>>
  /\ \E found \in {Parse(Text(file))}, f \in Flags, v \in Vaults :
       /\ flags' = f
       /\ vault' = v
       /\ plan' = PlanImport(found, v, f.overwrite, f.public)
       /\ pc' = IF f.dry THEN "print" ELSE "store"
  /\ UNCHANGED <<file, stored, told, log>>

Store ==
  /\ pc = "store"
  /\ stored < Len(plan)
  /\ LET s == plan[stored + 1]
     IN  /\ vault' = (s.secret.name :> [value |-> s.secret.value, tier |-> s.tier]) @@ vault
         /\ log' = log \cup {s.secret.name}
  /\ stored' = stored + 1
  /\ UNCHANGED <<pc, file, flags, plan, told>>

BugKeepAll(p, n) == p

\* What was not stored is dropped from the plan before it is reported.
Cut(p, n) == SubSeq(p, 1, n)

StoreFails ==
  /\ pc = "store"
  /\ stored < Len(plan)
  /\ plan' = Cut(plan, stored)
  /\ pc' = "print"
  /\ UNCHANGED <<file, flags, vault, stored, told, log>>

StoredAll ==
  /\ pc = "store"
  /\ stored = Len(plan)
  /\ pc' = "print"
  /\ UNCHANGED <<file, flags, vault, plan, stored, told, log>>

Report ==
  /\ pc = "print"
  /\ told' = Deletable(plan)
  /\ pc' = "done"
  /\ UNCHANGED <<file, flags, vault, plan, stored, log>>

Next == Write \/ Fails \/ Plan \/ Store \/ StoreFails \/ StoredAll \/ Report

Spec == Init /\ [][Next]_vars

----------------------------------------------------------------------------
\* What the file says to a shell, by how it was written.

Newlines(t) == Cardinality({k \in 1..Len(t) : t[k] = NL})

\* The lines statement k is on, without an empty one a backslash ends it with.
LinesOf(k) ==
  LET above == Newlines(Text(SubSeq(file, 1, k - 1)) \o <<NL>>)
      first == IF k = 1 THEN 1 ELSE above + 1
      t == file[k].text
  IN  first..(first + Newlines(SubSeq(t, 1, Len(t) - 1)))

Assigns(n) == {k \in 1..Len(file) : file[k].name = n}

\* What a name is after the file has run, when that can be told.
ShellHas(n, v) == Assigns(n) # {} /\ file[Max(Assigns(n))].known /\ file[Max(Assigns(n))].value = v

\* What import stores under a name is what a shell that runs the file gives
\* it: quotes, escapes and continuation lines are undone as the shell undoes
\* them, the last assignment wins, and a value only the shell can work out
\* is never guessed (envfile.go:135, import.go:112).
StoredAsShell == \A k \in 1..stored : ShellHas(plan[k].secret.name, vault[plan[k].secret.name].value)

\* The lines import says can be deleted are whole statements that only
\* assign a secret now in the vault, or that a dry run would put there, and
\* nothing that stays in the file expands its name: also when storing failed
\* half way (import.go:49-54, 204-208).
DeletableIsSafe ==
  told # {} => \A k \in 1..Len(file) : LinesOf(k) \cap told # {} =>
    /\ LinesOf(k) \subseteq told
    /\ file[k].alone
    /\ file[k].name \in (IF flags.dry THEN {plan[j].secret.name : j \in 1..Len(plan)} ELSE log)
    /\ flags.dry \/ ShellHas(file[k].name, vault[file[k].name].value)
    /\ \A j \in 1..Len(file) : file[k].name \in file[j].uses => LinesOf(j) \subseteq told

=============================================================================
