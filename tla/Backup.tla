------------------------------- MODULE Backup -------------------------------
(***************************************************************************)
(* What a backup promises: the copy is a state the source was in, whole,   *)
(* and it only ever moves on to later ones.                                *)
(***************************************************************************)
EXTENDS Naturals, Sequences

VARIABLES past,         \* the states the source has been in, the last is now
          copy,         \* the backup
          at            \* which of them the backup is

vars == <<past, copy, at>>

Init == Len(past) = 1 /\ at = 1 /\ copy = past[1]

\* The source changes.
Change ==
  /\ Len(past') = Len(past) + 1
  /\ \A i \in 1 .. Len(past) : past'[i] = past[i]
  /\ UNCHANGED <<copy, at>>

\* The backup is renewed, from the source as it is or as it was a while ago.
Renew ==
  /\ \E i \in at .. Len(past) : copy' = past[i] /\ at' = i
  /\ UNCHANGED past

Spec == Init /\ [][Change \/ Renew]_vars
=============================================================================
