--------------------------- MODULE RequestOutcome ---------------------------
(***************************************************************************)
(* What one request promises, whatever window, phones, channels and        *)
(* goroutines carry it: people say yes or no, the request ends in exactly  *)
(* one outcome, a yes is needed before anything is granted, a "denied"     *)
(* needs a no, a request that was denied or timed out has granted nothing, *)
(* and the duration every grant gets is settled once, before the first.    *)
(***************************************************************************)
EXTENDS Naturals

CONSTANTS Actors,      \* who can answer: the window and the enrolled phones
          Durations,   \* the durations offered (approval.Request.Choices)
          NumSecrets,  \* how many secrets the request asks for
          None         \* no duration settled yet

VARIABLES state,  \* "asking", "approved", or the outcome
          yes,    \* who has said yes so far
          no,     \* who has said no so far
          ttl,    \* the duration settled on
          held    \* how many of the secrets are granted

vars == <<state, yes, no, ttl, held>>

Outcomes == {"granted", "denied", "timeout", "failed"}

TypeOK ==
  /\ state \in {"asking", "approved"} \cup Outcomes
  /\ yes \subseteq Actors
  /\ no \subseteq Actors
  /\ ttl \in Durations \cup {None}
  /\ held \in 0..NumSecrets

Init ==
  /\ state = "asking"
  /\ yes = {}
  /\ no = {}
  /\ ttl = None
  /\ held = 0

SayYes(a) ==
  /\ yes' = yes \cup {a}
  /\ UNCHANGED <<state, no, ttl, held>>

SayNo(a) ==
  /\ no' = no \cup {a}
  /\ UNCHANGED <<state, yes, ttl, held>>

Approve ==
  /\ state = "asking"
  /\ yes # {}
  /\ state' = "approved"
  /\ ttl' \in Durations
  /\ UNCHANGED <<yes, no, held>>

GrantOne ==
  /\ state = "approved"
  /\ held < NumSecrets
  /\ held' = held + 1
  /\ UNCHANGED <<state, yes, no, ttl>>

Complete ==
  /\ state = "approved"
  /\ held = NumSecrets
  /\ state' = "granted"
  /\ UNCHANGED <<yes, no, ttl, held>>

Deny ==
  /\ state = "asking"
  /\ no # {}
  /\ state' = "denied"
  /\ UNCHANGED <<yes, no, ttl, held>>

TimeOut ==
  /\ state = "asking"
  /\ state' = "timeout"
  /\ UNCHANGED <<yes, no, ttl, held>>

\* The vault could not be unlocked, or a grant could not be written: the
\* secrets granted before that one stay granted.
Fail ==
  /\ state \in {"asking", "approved"}
  /\ state' = "failed"
  /\ UNCHANGED <<yes, no, ttl, held>>

Next ==
  \/ \E a \in Actors : SayYes(a) \/ SayNo(a)
  \/ Approve
  \/ GrantOne
  \/ Complete
  \/ Deny
  \/ TimeOut
  \/ Fail

Spec == Init /\ [][Next]_vars
=============================================================================
