------------------------------ MODULE MCMirror ------------------------------
(***************************************************************************)
(* Mirror on a small book: nights in which the book is left alone while a  *)
(* sync reads it and nights in which it is not, with an admin's sync       *)
(* besides the timer's or without, and nights in which collectors are      *)
(* named and renamed.                                                      *)
(***************************************************************************)
EXTENDS Mirror

CONSTANTS f1, b1, t1, n1, n2, n3, auto, manual

VARIABLE night          \* what the night is like; it never changes

\* Two syncs overlap over a book that is written n times.
Writes(n) == Len(past') <= n + 1

Alone == pc'[manual] = "idle"

\* Only some tables are written.
Touches(tables) == \A table \in TableNames \ tables : Local'[table] = Local[table]

Evening == {"User", "Fight", "Bet", "TellerLedger", "SessionReset"}

\* Users are created and not edited, and there is one collector, who keeps one
\* name.
Plain ==
  /\ \A t \in DOMAIN Local.User : Local'.User[t] = Local.User[t]
  /\ Local'.Collector \in {<< >>, <<n1>>}

NightInit == Init /\ night \in {"quiet", "crowded", "alone", "cash", "names"}

NightNext ==
  /\ Next
  /\ night = "quiet" => Quiet /\ Writes(3) /\ Touches(Evening \cup {"Setting"}) /\ Plain
  /\ night = "crowded" => Writes(2) /\ Touches({"User", "Fight"})
  /\ night = "alone" => Alone /\ faults' = 0 /\ Touches(Evening) /\ Plain
  /\ night = "cash" => Alone /\ Writes(3) /\ Touches({"User", "Collector", "TellerLedger"}) /\ Plain
  /\ night = "names" => Alone /\ Quiet /\ Touches({"Collector"})
  /\ UNCHANGED night

NightSpec == NightInit /\ [][NightNext]_<<vars, night>> /\ Fairness

\* What is seen of a quiet night; of any other, nothing.
Seen(value, else) == IF night = "quiet" THEN value ELSE else

Snapshots == INSTANCE Backup WITH
  past <- Seen(past, <<EmptyDatabase>>),
  copy <- Seen(mirror, EmptyDatabase),
  at   <- Seen(mirroredAt["Setting"], 1)

(***************************************************************************)
(* If the book is left alone while a sync reads it, the mirror is a backup *)
(* in the sense of Backup: a whole state of the book, and never an older   *)
(* one than before.                                                        *)
(***************************************************************************)
IsBackup == Snapshots!Spec

\* A name that changed hands: the row that has it now comes before the row the
\* mirror still has it in.
NameTaken == ~NamesFree(Local.Collector, mirror.Collector)

(***************************************************************************)
(* The mirror catches up: once the book is left alone and the internet is  *)
(* back it is the local database, and stays it, unless the name of a       *)
(* collector changed hands between two syncs.                              *)
(***************************************************************************)
MirrorCatchesUp == <>[](mirror = Local \/ NameTaken)

(***************************************************************************)
(* "This keeps Supabase aligned" (supabase-sync.js), always.  It fails: if *)
(* a newer collector gave up a name and an older one took it since the     *)
(* last sync, the older row is upserted first, the name is still the newer *)
(* row's on the remote side, and every sync from then on fails.            *)
(***************************************************************************)
MirrorStaysAligned == <>[](mirror = Local)
=============================================================================
