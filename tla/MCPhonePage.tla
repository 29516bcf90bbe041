----------------------------- MODULE MCPhonePage -----------------------------
(***************************************************************************)
(* Two requests, and a phone that is removed between them.                 *)
(***************************************************************************)
EXTENDS PhonePage

CONSTANTS f1, f2

OneRemoved == <<{f1, f2}, {f1}>>
=============================================================================
