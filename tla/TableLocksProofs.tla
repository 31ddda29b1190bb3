-------------------------- MODULE TableLocksProofs --------------------------
(***************************************************************************)
(* The locks of any number of requests: a wipe is alone, and none but a    *)
(* reset can be part of a deadlock.                                        *)
(***************************************************************************)
EXTENDS TableLocks, Sums, FiniteSetTheorems, SequenceTheorems, TLAPS

-----------------------------------------------------------------------------
(* The lists of locks                                                      *)

Lock(x, alone) == [on |-> x, alone |-> alone]
Locks == [on : Tables \cup Rows, alone : BOOLEAN]

LEMMA ListsMade ==
  ASSUME NEW things \in Seq(Tables \cup Rows)
  PROVE  /\ Shared(things) \in Seq(Locks) /\ Len(Shared(things)) = Len(things)
         /\ \A i \in 1 .. Len(things) : Shared(things)[i] = Lock(things[i], FALSE)
         /\ Exclusive(things) \in Seq(Locks) /\ Len(Exclusive(things)) = Len(things)
         /\ \A i \in 1 .. Len(things) : Exclusive(things)[i] = Lock(things[i], TRUE)
<1>1. /\ Len(things) \in Nat /\ DOMAIN things = 1 .. Len(things)
      /\ \A i \in 1 .. Len(things) : things[i] \in Tables \cup Rows
  BY LenProperties
<1>2. /\ Shared(things) \in [1 .. Len(things) -> Locks]
      /\ Exclusive(things) \in [1 .. Len(things) -> Locks]
  BY <1>1 DEF Shared, Exclusive, Locks
<1>3. Shared(things) \in Seq(Locks) /\ Exclusive(things) \in Seq(Locks)
  BY <1>1, <1>2, SeqDef
<1>4. Len(Shared(things)) = Len(things) /\ Len(Exclusive(things)) = Len(things)
  BY <1>1, <1>2, <1>3, LenProperties
<1>. QED BY <1>1, <1>3, <1>4 DEF Shared, Exclusive, Lock

\* The one order in which the services lock rows.
Rank(x) == CASE x = "opening"       -> 1
             [] x = "settled fight" -> 2
             [] x = "live fight"    -> 3
             [] OTHER               -> 4

\* Tables are locked with others, rows alone and in the order of their ranks,
\* which are above low and at most high.
Climbs(list, low, high) ==
  /\ list \in Seq(Locks)
  /\ \A i \in 1 .. Len(list) :
       IF list[i].alone THEN list[i].on \in Rows /\ Rank(list[i].on) \in low + 1 .. high
                        ELSE list[i].on \in Tables
  /\ \A i, j \in 1 .. Len(list) :
       i < j /\ list[i].alone /\ list[j].alone => Rank(list[i].on) < Rank(list[j].on)

LEMMA RanksAre == \A x : Rank(x) \in 1 .. 4
BY DEF Rank

LEMMA ClimbsOn ==
  ASSUME NEW l \in Nat, NEW m \in Nat, NEW h \in Nat, l <= m, m <= h,
         NEW s, Climbs(s, l, m), NEW t, Climbs(t, m, h)
  PROVE  Climbs(s \o t, l, h)
<1>. DEFINE st == s \o t
<1>1. /\ s \in Seq(Locks) /\ t \in Seq(Locks) /\ Len(s) \in Nat /\ Len(t) \in Nat
  BY LenProperties DEF Climbs
<1>2. /\ st \in Seq(Locks) /\ Len(st) = Len(s) + Len(t)
      /\ \A i \in 1 .. Len(s) : st[i] = s[i]
      /\ \A i \in Len(s) + 1 .. Len(st) : i - Len(s) \in 1 .. Len(t) /\ st[i] = t[i - Len(s)]
  BY <1>1, ConcatProperties
<1>. HIDE DEF st
<1>3. ASSUME NEW i \in 1 .. Len(st)
      PROVE  /\ i <= Len(s) => i \in 1 .. Len(s) /\ st[i] = s[i]
             /\ i > Len(s) => i - Len(s) \in 1 .. Len(t) /\ st[i] = t[i - Len(s)]
  BY <1>1, <1>2
<1>4. \A i \in 1 .. Len(st) :
        IF st[i].alone THEN st[i].on \in Rows /\ Rank(st[i].on) \in l + 1 .. h
                       ELSE st[i].on \in Tables
  <2>. SUFFICES ASSUME NEW i \in 1 .. Len(st)
                PROVE  IF st[i].alone THEN st[i].on \in Rows /\ Rank(st[i].on) \in l + 1 .. h
                                      ELSE st[i].on \in Tables
    OBVIOUS
  <2>1. CASE i <= Len(s)
    <3>1. /\ st[i] = s[i]
          /\ IF s[i].alone THEN s[i].on \in Rows /\ Rank(s[i].on) \in l + 1 .. m
                           ELSE s[i].on \in Tables
      BY <1>3, <2>1 DEF Climbs
    <3>. QED BY <3>1, RanksAre
  <2>2. CASE i > Len(s)
    <3>1. i - Len(s) \in 1 .. Len(t) /\ st[i] = t[i - Len(s)]
      BY <1>3, <2>2
    <3>2. PICK k \in 1 .. Len(t) : st[i] = t[k]
      BY <3>1
    <3>3. IF t[k].alone THEN t[k].on \in Rows /\ Rank(t[k].on) \in m + 1 .. h
                        ELSE t[k].on \in Tables
      BY DEF Climbs
    <3>. QED BY <3>2, <3>3, RanksAre
  <2>. QED BY <1>1, <1>2, <2>1, <2>2
<1>5. ASSUME NEW i \in 1 .. Len(st), NEW j \in 1 .. Len(st), i < j, st[i].alone, st[j].alone
      PROVE  Rank(st[i].on) < Rank(st[j].on)
  <2>1. CASE j <= Len(s)
    <3>1. i \in 1 .. Len(s) /\ j \in 1 .. Len(s) /\ st[i] = s[i] /\ st[j] = s[j]
      BY <1>1, <1>3, <1>5, <2>1
    <3>. QED BY <1>5, <3>1 DEF Climbs
  <2>2. CASE i <= Len(s) /\ j > Len(s)
    <3>1. st[i] = s[i] /\ Rank(s[i].on) \in l + 1 .. m
      BY <1>3, <1>5, <2>2 DEF Climbs
    <3>2. PICK k \in 1 .. Len(t) : st[j] = t[k]
      BY <1>3, <2>2
    <3>3. Rank(t[k].on) \in m + 1 .. h
      BY <1>5, <3>2 DEF Climbs
    <3>. QED BY <3>1, <3>2, <3>3
  <2>3. CASE i > Len(s)
    <3>1. /\ i - Len(s) \in 1 .. Len(t) /\ j - Len(s) \in 1 .. Len(t)
          /\ i - Len(s) < j - Len(s)
          /\ st[i] = t[i - Len(s)] /\ st[j] = t[j - Len(s)]
      BY <1>1, <1>3, <1>5, <2>3
    <3>. QED BY <1>5, <3>1 DEF Climbs
  <2>. QED BY <1>1, <1>2, <1>5, <2>1, <2>2, <2>3
<1>6. Climbs(st, l, h)
  BY <1>2, <1>4, <1>5 DEF Climbs
<1>. QED BY <1>6 DEF st

LEMMA TablesClimb ==
  ASSUME NEW l \in Nat, NEW things \in Seq(Tables)
  PROVE  Climbs(Shared(things), l, l)
<1>1. things \in Seq(Tables \cup Rows)
  BY SeqMonotonic
<1>2. \A i \in 1 .. Len(things) : things[i] \in Tables
  BY ElementOfSeq
<1>. DEFINE list == Shared(things)
<1>3. /\ list \in Seq(Locks) /\ Len(list) = Len(things)
      /\ \A i \in 1 .. Len(things) : list[i] = Lock(things[i], FALSE)
  BY <1>1, ListsMade
<1>. HIDE DEF list
<1>4. ASSUME NEW i \in 1 .. Len(list) PROVE ~list[i].alone /\ list[i].on \in Tables
  <2>1. things[i] \in Tables /\ list[i] = Lock(things[i], FALSE)
    BY <1>2, <1>3
  <2>2. list[i].on = things[i]
    BY <2>1 DEF Lock
  <2>3. list[i].alone = FALSE
    BY <2>1 DEF Lock
  <2>. QED BY <2>1, <2>2, <2>3
<1>5. \A i, j \in 1 .. Len(list) :
        i < j /\ list[i].alone /\ list[j].alone => Rank(list[i].on) < Rank(list[j].on)
  BY <1>4
<1>6. \A i \in 1 .. Len(list) :
        IF list[i].alone THEN list[i].on \in Rows /\ Rank(list[i].on) \in l + 1 .. l
                         ELSE list[i].on \in Tables
  BY <1>4
<1>7. Climbs(list, l, l)
  BY <1>3, <1>5, <1>6 DEF Climbs
<1>. QED BY <1>7 DEF list

LEMMA RowClimbs ==
  ASSUME NEW l \in Nat, NEW x \in Rows, l < Rank(x)
  PROVE  Climbs(Exclusive(<<x>>), l, Rank(x))
<1>. DEFINE things == <<x>>
<1>1. things \in Seq(Tables \cup Rows) /\ Len(things) = 1 /\ things[1] = x
  OBVIOUS
<1>2. \A i \in 1 .. Len(things) : i = 1
  BY <1>1
<1>. DEFINE list == Exclusive(things)
<1>3. /\ list \in Seq(Locks) /\ Len(list) = Len(things)
      /\ \A i \in 1 .. Len(things) : list[i] = Lock(things[i], TRUE)
  BY <1>1, ListsMade
<1>. HIDE DEF list, things
<1>4. \A i \in 1 .. Len(list) : i = 1 /\ list[i].alone /\ list[i].on = x
  BY <1>1, <1>2, <1>3 DEF Lock
<1>5. Climbs(list, l, Rank(x))
  BY <1>3, <1>4, RanksAre DEF Climbs
<1>. QED BY <1>5 DEF list, things

\* Every transaction but the reset climbs.
LEMMA OneOrder ==
  ASSUME NEW k, k # "reset"
  PROVE  \E l, h \in Nat : Climbs(LocksOf(k), l, h)
<1>1. PICK z \in Nat : z = 0
  OBVIOUS
<1>2. PICK o \in Nat, f \in Nat, g \in Nat, b \in Nat :
        /\ o = Rank("opening") /\ f = Rank("settled fight")
        /\ g = Rank("live fight") /\ b = Rank("settled ticket")
        /\ z < o /\ o < f /\ f < g /\ g < b
        /\ z < f /\ z < g /\ z < b /\ f < b
        /\ z <= z /\ z <= o /\ z <= f /\ z <= g /\ z <= b /\ o <= o /\ f <= f /\ g <= g
        /\ o <= f /\ f <= g /\ o <= g /\ f <= b /\ g <= b /\ b <= b
  BY <1>1 DEF Rank
<1>. DEFINE fight   == Shared(<<"Fight">>)
            bet     == Shared(<<"Bet">>)
            cash    == Shared(<<"TellerLedger">>)
            ticket  == Shared(<<"Bet", "TellerLedger">>)
            paid    == Shared(<<"Fight", "TellerLedger">>)
            opening == Exclusive(<<"opening">>)
            settled == Exclusive(<<"settled fight">>)
            live    == Exclusive(<<"live fight">>)
            row     == Exclusive(<<"settled ticket">>)
<1>3. ASSUME NEW l \in Nat
      PROVE  /\ Climbs(fight, l, l) /\ Climbs(bet, l, l) /\ Climbs(cash, l, l)
             /\ Climbs(ticket, l, l) /\ Climbs(paid, l, l)
  <2>1. /\ <<"Fight">> \in Seq(Tables) /\ <<"Bet">> \in Seq(Tables)
        /\ <<"TellerLedger">> \in Seq(Tables) /\ <<"Bet", "TellerLedger">> \in Seq(Tables)
        /\ <<"Fight", "TellerLedger">> \in Seq(Tables)
    BY DEF Tables
  <2>. QED BY <2>1, TablesClimb
<1>4. ASSUME NEW l \in Nat
      PROVE  /\ l < o => Climbs(opening, l, o)
             /\ l < f => Climbs(settled, l, f)
             /\ l < g => Climbs(live, l, g)
             /\ l < b => Climbs(row, l, b)
  BY <1>2, RowClimbs DEF Rows
<1>. HIDE DEF fight, bet, cash, ticket, paid, opening, settled, live, row
<1>6. /\ Climbs(fight, z, z) /\ Climbs(fight, o, o)
      /\ Climbs(bet, z, z) /\ Climbs(bet, f, f) /\ Climbs(bet, g, g)
      /\ Climbs(ticket, z, z) /\ Climbs(ticket, g, g) /\ Climbs(paid, b, b)
      /\ Climbs(cash, z, z)
  BY <1>3
<1>7. /\ Climbs(opening, z, o) /\ Climbs(settled, z, f) /\ Climbs(live, z, g)
      /\ Climbs(row, z, b) /\ Climbs(row, f, b) /\ Climbs(row, g, b)
      /\ Climbs(settled, o, f) /\ Climbs(live, f, g)
  BY <1>2, <1>4
<1>8. Climbs(fight \o live \o ticket, z, g)
  <2>1. Climbs(fight \o live, z, g)
    BY <1>2, <1>6, <1>7, ClimbsOn
  <2>. QED BY <1>2, <1>6, <2>1, ClimbsOn
<1>9. Climbs(bet \o row \o paid, z, b) /\ Climbs(ticket \o row, z, b)
  <2>1. Climbs(bet \o row, z, b)
    BY <1>2, <1>6, <1>7, ClimbsOn
  <2>2. Climbs(ticket \o row, z, b)
    BY <1>2, <1>6, <1>7, ClimbsOn
  <2>3. Climbs(bet \o row \o paid, z, b)
    BY <1>2, <1>6, <2>1, ClimbsOn
  <2>. QED BY <2>2, <2>3
<1>10. Climbs(fight \o settled \o bet \o row, z, b)
  <2>1. Climbs(fight \o settled, z, f)
    BY <1>2, <1>6, <1>7, ClimbsOn
  <2>2. Climbs(fight \o settled \o bet, z, f)
    BY <1>2, <1>6, <2>1, ClimbsOn
  <2>. QED BY <1>2, <1>7, <2>2, ClimbsOn
<1>11. Climbs(opening \o fight, z, o)
  BY <1>2, <1>6, <1>7, ClimbsOn
<1>12. Climbs(opening \o fight \o settled \o live \o bet \o row, z, b)
  <2>1. Climbs(opening \o fight \o settled, z, f)
    BY <1>2, <1>7, <1>11, ClimbsOn
  <2>2. Climbs(opening \o fight \o settled \o live, z, g)
    BY <1>2, <1>7, <2>1, ClimbsOn
  <2>3. Climbs(opening \o fight \o settled \o live \o bet, z, g)
    BY <1>2, <1>6, <2>2, ClimbsOn
  <2>. QED BY <1>2, <1>7, <2>3, ClimbsOn
<1>13. Climbs(<< >>, z, z)
  BY DEF Climbs
<1>14. /\ Climbs(TicketLocks, z, g) /\ Climbs(PayLocks, z, b) /\ Climbs(PurgeLocks, z, b)
       /\ Climbs(CorrectLocks, z, b) /\ Climbs(CreateLocks, z, o)
       /\ Climbs(UnsettleLocks, z, b) /\ Climbs(CashLocks, z, z)
  BY <1>6, <1>8, <1>9, <1>10, <1>11, <1>12
    DEF TicketLocks, PayLocks, PurgeLocks, CorrectLocks, CreateLocks, UnsettleLocks, CashLocks,
        fight, bet, cash, ticket, paid, opening, settled, live, row
<1>. QED BY <1>13, <1>14 DEF LocksOf

\* A reset ends up with every table for itself.
LEMMA ResetTakesAll ==
  /\ ResetLocks \in Seq(Locks)
  /\ \A x \in Tables : \E i \in 1 .. Len(ResetLocks) :
       ResetLocks[i].on = x /\ ResetLocks[i].alone
<1>. DEFINE things == <<"TellerLedger", "Bet", "Fight">>
            first == Shared(<<"Fight", "Bet", "TellerLedger">>)
            last == Exclusive(things)
<1>1. /\ things \in Seq(Tables \cup Rows) /\ Len(things) = 3
      /\ things[1] = "TellerLedger" /\ things[2] = "Bet" /\ things[3] = "Fight"
      /\ <<"Fight", "Bet", "TellerLedger">> \in Seq(Tables \cup Rows)
  BY DEF Tables
<1>2. /\ first \in Seq(Locks) /\ last \in Seq(Locks) /\ Len(last) = Len(things)
      /\ \A i \in 1 .. Len(things) : last[i] = Lock(things[i], TRUE)
  BY <1>1, ListsMade
<1>3. ResetLocks = first \o last
  BY DEF ResetLocks
<1>. HIDE DEF things, first, last
<1>4. \A x \in Tables : \E j \in 1 .. Len(last) : last[j].on = x /\ last[j].alone
  <2>1. /\ last[1].on = "TellerLedger" /\ last[1].alone /\ last[2].on = "Bet" /\ last[2].alone
        /\ last[3].on = "Fight" /\ last[3].alone /\ Len(last) = 3
    BY <1>1, <1>2 DEF Lock
  <2>. QED BY <2>1 DEF Tables
<1>5. ASSUME NEW j \in 1 .. Len(last)
      PROVE  /\ Len(first) + j \in 1 .. Len(first \o last)
             /\ (first \o last)[Len(first) + j] = last[j]
  <2>1. Len(first) \in Nat /\ Len(last) \in Nat
    BY <1>2, LenProperties
  <2>2. /\ Len(first) + j \in 1 .. Len(first) + Len(last)
        /\ ~(Len(first) + j <= Len(first)) /\ (Len(first) + j) - Len(first) = j
    BY <2>1
  <2>. QED BY <1>2, <2>2, ConcatProperties
<1>. QED BY <1>2, <1>3, <1>4, <1>5, ConcatProperties

-----------------------------------------------------------------------------
(* The inductive invariant                                                 *)

\* Nobody holds more than its list, nobody waits behind the end of it, and no
\* two requests hold locks that keep each other out.
LocksInv ==
  /\ DOMAIN kind = Requests
  /\ got \in [Requests -> Nat]
  /\ queued \in SUBSET Requests
  /\ \A r \in Requests : got[r] <= Len(LocksOf(kind[r]))
  /\ \A r \in queued : got[r] < Len(LocksOf(kind[r]))
  /\ \A r, q \in Requests : r # q =>
       \A i \in 1 .. got[r], j \in 1 .. got[q] :
         ~Conflict(LocksOf(kind[q])[j], LocksOf(kind[r])[i])

\* Those ahead of a request wait for the same thing, with all that are ahead of
\* them ahead of it too.
QueueInv ==
  /\ IsFiniteSet(queued)
  /\ ahead \in [Requests -> SUBSET queued]
  /\ \A r \in Requests :
       /\ r \notin ahead[r]
       /\ \A q \in ahead[r] :
            r \in queued /\ Wanted(q).on = Wanted(r).on /\ ahead[q] \subseteq ahead[r]

IInv == LocksInv /\ QueueInv

LEMMA ListsAre ==
  /\ \A k : LocksOf(k) \in Seq(Locks) /\ Len(LocksOf(k)) \in Nat
  /\ Len(LocksOf("none")) = 0
<1>1. LocksOf("none") = << >> /\ LocksOf("reset") = ResetLocks
  BY DEF LocksOf
<1>2. ASSUME NEW k PROVE LocksOf(k) \in Seq(Locks)
  BY <1>1, OneOrder, ResetTakesAll DEF Climbs
<1>. QED BY <1>1, <1>2, LenProperties

LEMMA IInit == Init => IInv
<1>. SUFFICES ASSUME Init PROVE IInv
  OBVIOUS
<1>1. LocksInv
  BY ListsAre DEF Init, LocksInv
<1>2. QueueInv
  BY FS_EmptySet DEF Init, QueueInv
<1>. QED BY <1>1, <1>2 DEF IInv

LEMMA HeldBounds ==
  ASSUME IInv, NEW q \in Requests
  PROVE  /\ got[q] \in Nat /\ Len(LocksOf(kind[q])) \in Nat
         /\ got[q] <= Len(LocksOf(kind[q]))
         /\ q \in queued => got[q] < Len(LocksOf(kind[q]))
<1>1. Len(LocksOf(kind[q])) \in Nat
  BY ListsAre
<1>2. got[q] \in Nat
  BY DEF IInv, LocksInv
<1>3. got[q] <= Len(LocksOf(kind[q]))
  BY DEF IInv, LocksInv
<1>4. q \in queued => got[q] < Len(LocksOf(kind[q]))
  BY DEF IInv, LocksInv
<1>. QED BY <1>1, <1>2, <1>3, <1>4

LEMMA BeginKeeps ==
  ASSUME IInv, NEW r \in Requests, NEW k, Begin(r, k)
  PROVE  IInv'
<1>1. got[r] = 0 /\ r \notin queued
  BY ListsAre DEF IInv, LocksInv, Begin
<1>2. /\ DOMAIN kind' = Requests /\ kind'[r] = k
      /\ \A q \in Requests \ {r} : kind'[q] = kind[q]
      /\ UNCHANGED <<got, queued, ahead>>
  BY DEF IInv, LocksInv, Begin
<1>3. LocksInv'
  <2>1. ASSUME NEW x \in Requests, NEW y \in Requests, x # y,
               NEW i \in 1 .. got'[x], NEW j \in 1 .. got'[y]
        PROVE  ~Conflict(LocksOf(kind'[y])[j], LocksOf(kind'[x])[i])
    <3>1. x # r /\ y # r
      BY <1>1, <1>2
    <3>. QED BY <1>2, <2>1, <3>1 DEF IInv, LocksInv
  <2>2. ASSUME NEW q \in Requests PROVE got'[q] <= Len(LocksOf(kind'[q]))
    BY <1>1, <1>2, ListsAre DEF IInv, LocksInv
  <2>3. ASSUME NEW q \in queued' PROVE got'[q] < Len(LocksOf(kind'[q]))
    BY <1>1, <1>2 DEF IInv, LocksInv
  <2>4. got' \in [Requests -> Nat] /\ queued' \in SUBSET Requests
    BY <1>2 DEF IInv, LocksInv
  <2>. QED BY <1>2, <2>1, <2>2, <2>3, <2>4 DEF LocksInv
<1>4. \A q \in queued : Wanted(q)' = Wanted(q)
  BY <1>1, <1>2 DEF IInv, LocksInv, Wanted
<1>5. QueueInv'
  BY <1>2, <1>4 DEF IInv, QueueInv
<1>. QED BY <1>3, <1>5 DEF IInv

LEMMA AskKeeps ==
  ASSUME IInv, NEW r \in Requests, Ask(r)
  PROVE  IInv'
<1>1. PICK others : others = {q \in queued : Wanted(q).on = Wanted(r).on}
  OBVIOUS
<1>2. /\ UNCHANGED <<kind, got>> /\ queued' = queued \cup {r} /\ r \notin queued
      /\ ahead' = [ahead EXCEPT ![r] = others]
      /\ got[r] < Len(LocksOf(kind[r]))
  BY <1>1 DEF Ask
<1>3. LocksInv'
  BY <1>2 DEF IInv, LocksInv
<1>4. \A q \in Requests : Wanted(q)' = Wanted(q)
  BY <1>2 DEF Wanted
<1>5. /\ ahead'[r] = others /\ others \subseteq queued
      /\ \A q \in Requests \ {r} : ahead'[q] = ahead[q]
      /\ ahead' \in [Requests -> SUBSET queued']
  BY <1>1, <1>2 DEF IInv, QueueInv
<1>6. IsFiniteSet(queued')
  BY <1>2, FS_AddElement DEF IInv, QueueInv
<1>7. ASSUME NEW x \in Requests
      PROVE  /\ x \notin ahead'[x]
             /\ \A q \in ahead'[x] : /\ x \in queued' /\ Wanted(q).on = Wanted(x).on
                                     /\ ahead'[q] \subseteq ahead'[x]
  <2>1. CASE x = r
    <3>1. ASSUME NEW q \in others
          PROVE  Wanted(q).on = Wanted(r).on /\ ahead'[q] \subseteq others
      <4>1. q \in Requests \ {r} /\ ahead'[q] = ahead[q] /\ Wanted(q).on = Wanted(r).on
        BY <1>1, <1>2, <1>5 DEF IInv, LocksInv
      <4>2. \A p \in ahead[q] : p \in queued /\ Wanted(p).on = Wanted(q).on
        BY <4>1 DEF IInv, QueueInv
      <4>. QED BY <1>1, <4>1, <4>2
    <3>. QED BY <1>2, <1>5, <2>1, <3>1
  <2>2. CASE x # r
    BY <1>2, <1>5, <2>2 DEF IInv, QueueInv, LocksInv
  <2>. QED BY <2>1, <2>2
<1>8. QueueInv'
  BY <1>4, <1>5, <1>6, <1>7 DEF IInv, QueueInv, LocksInv
<1>. QED BY <1>3, <1>8 DEF IInv

\* The queue of those that stay is as good without the one that leaves it.
LEMMA LeavingKeeps ==
  ASSUME IInv, NEW r \in Requests, LeavesQueue(r),
         \A q \in Requests \ {r} : kind'[q] = kind[q] /\ got'[q] = got[q]
  PROVE  QueueInv'
<1>1. /\ queued' = queued \ {r} /\ DOMAIN ahead' = Requests /\ ahead'[r] = {}
      /\ \A q \in Requests \ {r} : ahead'[q] = ahead[q] \ {r}
      /\ \A q \in Requests : ahead[q] \subseteq queued
  BY DEF LeavesQueue, IInv, QueueInv
<1>2. ahead' \in [Requests -> SUBSET queued']
  BY <1>1 DEF LeavesQueue
<1>3. IsFiniteSet(queued')
  BY <1>1, FS_RemoveElement DEF IInv, QueueInv
<1>4. \A q \in Requests \ {r} : Wanted(q)' = Wanted(q)
  BY DEF Wanted
<1>5. ASSUME NEW x \in Requests
      PROVE  /\ x \notin ahead'[x]
             /\ \A q \in ahead'[x] : /\ x \in queued' /\ Wanted(q)'.on = Wanted(x)'.on
                                     /\ ahead'[q] \subseteq ahead'[x]
  <2>1. CASE x = r
    BY <1>1, <2>1
  <2>2. CASE x # r
    <3>1. x \notin ahead'[x] /\ ahead'[x] = ahead[x] \ {r}
      BY <1>1, <2>2 DEF IInv, QueueInv
    <3>2. ASSUME NEW q \in ahead'[x]
          PROVE  /\ x \in queued' /\ Wanted(q)'.on = Wanted(x)'.on
                 /\ ahead'[q] \subseteq ahead'[x]
      <4>1. q \in ahead[x] /\ q # r /\ q \in Requests
        BY <1>1, <3>1 DEF IInv, LocksInv
      <4>2. x \in queued /\ Wanted(q).on = Wanted(x).on /\ ahead[q] \subseteq ahead[x]
        BY <4>1 DEF IInv, QueueInv
      <4>3. Wanted(q)' = Wanted(q) /\ Wanted(x)' = Wanted(x)
        BY <1>4, <2>2, <4>1
      <4>. QED BY <1>1, <2>2, <3>1, <4>1, <4>2, <4>3
    <3>. QED BY <3>1, <3>2
  <2>. QED BY <2>1, <2>2
<1>. QED BY <1>2, <1>3, <1>5 DEF QueueInv

LEMMA GrantKeeps ==
  ASSUME IInv, NEW r \in Requests, Grant(r)
  PROVE  IInv'
<1>1. /\ r \in queued /\ UNCHANGED kind /\ queued' = queued \ {r}
      /\ got' \in [Requests -> Nat] /\ got'[r] = got[r] + 1
      /\ \A q \in Requests \ {r} : got'[q] = got[q]
      /\ got[r] < Len(LocksOf(kind[r]))
  BY DEF Grant, LeavesQueue, IInv, LocksInv
<1>2. ASSUME NEW q \in Requests \ {r}, NEW j \in 1 .. got[q]
      PROVE  ~Conflict(LocksOf(kind[q])[j], Wanted(r))
  BY DEF Grant, WaitsFor, Holds
<1>3. ASSUME NEW x \in Requests, NEW y \in Requests, x # y,
             NEW i \in 1 .. got'[x], NEW j \in 1 .. got'[y]
      PROVE  ~Conflict(LocksOf(kind[y])[j], LocksOf(kind[x])[i])
  <2>1. CASE i \in 1 .. got[x] /\ j \in 1 .. got[y]
    BY <1>3, <2>1 DEF IInv, LocksInv
  <2>2. CASE i \notin 1 .. got[x]
    <3>1. x = r /\ i = got[r] + 1 /\ j \in 1 .. got[y] /\ y \in Requests \ {r}
      BY <1>1, <1>3, <2>2 DEF IInv, LocksInv
    <3>. QED BY <1>2, <3>1 DEF Wanted
  <2>3. CASE j \notin 1 .. got[y]
    <3>1. y = r /\ j = got[r] + 1 /\ i \in 1 .. got[x] /\ x \in Requests \ {r}
      BY <1>1, <1>3, <2>3 DEF IInv, LocksInv
    <3>2. ~Conflict(LocksOf(kind[x])[i], LocksOf(kind[y])[j])
      BY <1>2, <3>1 DEF Wanted
    <3>. QED BY <3>2 DEF Conflict
  <2>. QED BY <2>1, <2>2, <2>3
<1>4. /\ DOMAIN kind' = Requests /\ queued' \in SUBSET Requests
      /\ \A q \in Requests : got'[q] <= Len(LocksOf(kind'[q]))
      /\ \A q \in queued' : got'[q] < Len(LocksOf(kind'[q]))
  <2>1. ASSUME NEW q \in Requests PROVE got'[q] <= Len(LocksOf(kind'[q]))
    <3>1. CASE q = r
      BY <1>1, <3>1, HeldBounds DEF IInv, LocksInv
    <3>2. CASE q # r
      BY <1>1, <3>2, HeldBounds
    <3>. QED BY <3>1, <3>2
  <2>2. ASSUME NEW q \in queued' PROVE got'[q] < Len(LocksOf(kind'[q]))
    BY <1>1 DEF IInv, LocksInv
  <2>3. DOMAIN kind' = Requests /\ queued' \in SUBSET Requests
    BY <1>1 DEF IInv, LocksInv
  <2>. QED BY <2>1, <2>2, <2>3
<1>5. LocksInv'
  BY <1>1, <1>3, <1>4 DEF LocksInv
<1>6. QueueInv'
  BY <1>1, LeavingKeeps DEF Grant
<1>. QED BY <1>5, <1>6 DEF IInv

LEMMA EndKeeps ==
  ASSUME IInv, NEW r \in Requests, Ends(r)
  PROVE  IInv'
<1>1. /\ DOMAIN kind' = Requests /\ kind'[r] = "none" /\ got' \in [Requests -> Nat]
      /\ got'[r] = 0 /\ queued' = queued \ {r}
      /\ \A q \in Requests \ {r} : kind'[q] = kind[q] /\ got'[q] = got[q]
  BY DEF Ends, LeavesQueue, IInv, LocksInv
<1>2. LocksInv'
  <2>1. ASSUME NEW x \in Requests, NEW y \in Requests, x # y,
               NEW i \in 1 .. got'[x], NEW j \in 1 .. got'[y]
        PROVE  ~Conflict(LocksOf(kind'[y])[j], LocksOf(kind'[x])[i])
    <3>1. x # r /\ y # r
      BY <1>1
    <3>. QED BY <1>1, <2>1, <3>1 DEF IInv, LocksInv
  <2>2. ASSUME NEW q \in Requests PROVE got'[q] <= Len(LocksOf(kind'[q]))
    <3>1. CASE q = r
      BY <1>1, <3>1, ListsAre
    <3>2. CASE q # r
      BY <1>1, <3>2, HeldBounds
    <3>. QED BY <3>1, <3>2
  <2>3. ASSUME NEW q \in queued' PROVE got'[q] < Len(LocksOf(kind'[q]))
    BY <1>1 DEF IInv, LocksInv
  <2>4. queued' \in SUBSET Requests
    BY <1>1 DEF IInv, LocksInv
  <2>. QED BY <1>1, <2>1, <2>2, <2>3, <2>4 DEF LocksInv
<1>3. QueueInv'
  BY <1>1, LeavingKeeps DEF Ends
<1>. QED BY <1>2, <1>3 DEF IInv

LEMMA IStep == IInv /\ [Next]_vars => IInv'
<1>. SUFFICES ASSUME IInv, [Next]_vars PROVE IInv'
  OBVIOUS
<1>1. CASE UNCHANGED vars
  <2>1. \A q : Wanted(q)' = Wanted(q)
    BY <1>1 DEF vars, Wanted
  <2>. QED BY <1>1, <2>1 DEF vars, IInv, LocksInv, QueueInv
<1>2. ASSUME NEW r \in Requests, NEW k \in Kinds, Begin(r, k) PROVE IInv'
  BY <1>2, BeginKeeps
<1>3. ASSUME NEW r \in Requests, Ask(r) PROVE IInv'
  BY <1>3, AskKeeps
<1>4. ASSUME NEW r \in Requests, Grant(r) PROVE IInv'
  BY <1>4, GrantKeeps
<1>5. ASSUME NEW r \in Requests, Commit(r) \/ Victim(r) \/ Expire(r) PROVE IInv'
  BY <1>5, EndKeeps DEF Commit, Victim, Expire
<1>. QED BY <1>1, <1>2, <1>3, <1>4, <1>5 DEF Next, Moves

THEOREM Inductive == Spec => []IInv
BY IInit, IStep, PTL DEF Spec

-----------------------------------------------------------------------------
(* The theorems                                                            *)

\* Sound on every state that satisfies the invariant.
LEMMA AloneThen == IInv => WipeIsAlone
<1>. SUFFICES ASSUME IInv,
                     NEW r \in Requests, kind[r] = "reset", got[r] = Len(LocksOf("reset")),
                     NEW q \in Requests \ {r}, NEW i \in 1 .. got[q],
                     LocksOf(kind[q])[i].on \in Tables
              PROVE  FALSE
  BY DEF WipeIsAlone
<1>1. LocksOf(kind[r]) = ResetLocks
  BY DEF LocksOf
<1>2. PICK x : x = LocksOf(kind[q])[i].on
  OBVIOUS
<1>3. PICK j \in 1 .. Len(ResetLocks) : ResetLocks[j].on = x /\ ResetLocks[j].alone
  BY <1>2, ResetTakesAll
<1>4. j \in 1 .. got[r] /\ ~Conflict(LocksOf(kind[r])[j], LocksOf(kind[q])[i])
  BY <1>1 DEF IInv, LocksInv
<1>. QED BY <1>1, <1>2, <1>3, <1>4 DEF Conflict

(***************************************************************************)
(* However many requests are served, a reset that has what it needs to     *)
(* commit is the only one to have read or written a table.                 *)
(***************************************************************************)
THEOREM WipesAlone == Spec => []WipeIsAlone
BY Inductive, AloneThen, PTL

\* Whom a request that is no reset waits for, when nobody it meets is a reset:
\* the holder of a row, or one that asked for the row before it.
LEMMA WaitsForRow ==
  ASSUME IInv, NEW r \in Requests, NEW q \in Requests, q \in queued,
         kind[r] # "reset", kind[q] # "reset", WaitsFor(r, q)
  PROVE  /\ r \in queued /\ Wanted(r).alone
         /\ \/ Wanted(q).alone => Rank(Wanted(r).on) < Rank(Wanted(q).on)
            \/ q \in ahead[r]
<1>1. PICK R : R = LocksOf(kind[r])
  OBVIOUS
<1>2. PICK Q : Q = LocksOf(kind[q])
  OBVIOUS
<1>3. PICK m \in Nat : m = got[r] + 1
  BY DEF IInv, LocksInv
<1>4. PICK n \in Nat : n = got[q] + 1
  BY DEF IInv, LocksInv
<1>5. /\ r \in queued /\ m \in 1 .. Len(R) /\ n \in 1 .. Len(Q) /\ Len(Q) \in Nat
      /\ Wanted(r) = R[m] /\ Wanted(q) = Q[n] /\ got[q] = n - 1
  <2>1. r \in queued
    BY DEF WaitsFor
  <2>2. Wanted(r) = R[m] /\ Wanted(q) = Q[n]
    BY <1>1, <1>2, <1>3, <1>4 DEF Wanted
  <2>. QED BY <1>1, <1>2, <1>3, <1>4, <2>1, <2>2, HeldBounds
<1>6. /\ \A i \in 1 .. Len(R) : IF R[i].alone THEN R[i].on \in Rows ELSE R[i].on \in Tables
      /\ \A i \in 1 .. Len(Q) : IF Q[i].alone THEN Q[i].on \in Rows ELSE Q[i].on \in Tables
      /\ \A i, j \in 1 .. Len(Q) :
           i < j /\ Q[i].alone /\ Q[j].alone => Rank(Q[i].on) < Rank(Q[j].on)
  BY <1>1, <1>2, OneOrder DEF Climbs
<1>7. \A x \in Rows : x \notin Tables
  BY DEF Rows, Tables
<1>8. ASSUME NEW i \in 1 .. Len(Q), Conflict(Q[i], R[m])
      PROVE  R[m].alone /\ Q[i].alone /\ Q[i].on = R[m].on
  BY <1>5, <1>6, <1>7, <1>8 DEF Conflict
<1>9. CASE Holds(q, Wanted(r))
  <2>1. PICK i \in 1 .. got[q] : Conflict(Q[i], R[m])
    BY <1>2, <1>5, <1>9 DEF Holds
  <2>2. i \in 1 .. Len(Q) /\ i < n
    BY <1>5
  <2>3. R[m].alone /\ Q[i].alone /\ Q[i].on = R[m].on
    BY <1>8, <2>1, <2>2
  <2>4. Q[n].alone => Rank(Q[i].on) < Rank(Q[n].on)
    BY <1>5, <1>6, <2>2, <2>3
  <2>. QED BY <1>5, <2>3, <2>4
<1>10. CASE q \in ahead[r] /\ Conflict(Wanted(q), Wanted(r))
  BY <1>5, <1>8, <1>10
<1>. QED BY <1>9, <1>10 DEF WaitsFor

\* In a circle without a reset everyone wants a row for itself.  Of those that
\* want a row of the highest rank, one that has the fewest ahead of it waits for
\* nobody: who holds the row wants a higher one, and who is ahead has fewer.
LEMMA DeadlocksThen == IInv => OnlyResetsDeadlock
<1>. SUFFICES ASSUME IInv, NEW D \in SUBSET Requests, Deadlocked(D),
                     \A r \in D : kind[r] # "reset"
              PROVE  FALSE
  BY DEF OnlyResetsDeadlock
<1>1. D # {} /\ \A r \in D : \E q \in D : WaitsFor(r, q)
  BY DEF Deadlocked
<1>2. D \subseteq queued
  BY <1>1 DEF WaitsFor
<1>3. ASSUME NEW r \in D
      PROVE  /\ Wanted(r).alone
             /\ \E q \in D : \/ Rank(Wanted(r).on) < Rank(Wanted(q).on)
                             \/ q \in ahead[r]
  <2>1. \A x \in D : Wanted(x).alone
    BY <1>1, <1>2, WaitsForRow
  <2>2. PICK q \in D : WaitsFor(r, q)
    BY <1>1
  <2>3. \/ Wanted(q).alone => Rank(Wanted(r).on) < Rank(Wanted(q).on)
        \/ q \in ahead[r]
    BY <1>2, <2>2, WaitsForRow
  <2>. QED BY <2>1, <2>3
<1>4. PICK T : T = {4 - Rank(Wanted(r).on) : r \in D}
  OBVIOUS
<1>5. T \subseteq Nat /\ T # {}
  BY <1>1, <1>4, RanksAre
<1>6. PICK t \in T : \A u \in T : t <= u
  BY <1>5, LeastNatural
<1>7. PICK top \in D : t = 4 - Rank(Wanted(top).on)
  BY <1>4
<1>8. \A r \in D : Rank(Wanted(r).on) <= Rank(Wanted(top).on)
  <2>1. ASSUME NEW r \in D PROVE Rank(Wanted(r).on) <= Rank(Wanted(top).on)
    <3>1. t <= 4 - Rank(Wanted(r).on)
      BY <1>4, <1>6
    <3>. QED BY <1>7, <3>1, RanksAre
  <2>. QED BY <2>1
<1>9. PICK M : M = {r \in D : Wanted(r).on = Wanted(top).on}
  OBVIOUS
<1>10. PICK C : C = {Cardinality(ahead[r]) : r \in M}
  OBVIOUS
<1>11. \A r \in Requests : IsFiniteSet(ahead[r]) /\ Cardinality(ahead[r]) \in Nat
  BY FS_Subset, FS_CardinalityType DEF IInv, QueueInv
<1>12. C \subseteq Nat /\ C # {}
  BY <1>9, <1>10, <1>11
<1>13. PICK c \in C : \A d \in C : c <= d
  BY <1>12, LeastNatural
<1>14. PICK r \in M : c = Cardinality(ahead[r])
  BY <1>10
<1>15. PICK q \in D : \/ Rank(Wanted(r).on) < Rank(Wanted(q).on)
                      \/ q \in ahead[r]
  BY <1>3, <1>9
<1>16. ~(Rank(Wanted(r).on) < Rank(Wanted(q).on))
  BY <1>8, <1>9, RanksAre
<1>17. q \in ahead[r] /\ q \in M /\ ahead[q] \subseteq ahead[r] /\ q \notin ahead[q]
  BY <1>9, <1>15, <1>16 DEF IInv, QueueInv
<1>18. Cardinality(ahead[q]) < Cardinality(ahead[r])
  <2>1. Cardinality(ahead[q]) <= Cardinality(ahead[r])
    BY <1>9, <1>11, <1>17, FS_Subset
  <2>2. Cardinality(ahead[q]) = Cardinality(ahead[r]) => ahead[q] = ahead[r]
    BY <1>9, <1>11, <1>17, FS_Subset
  <2>. QED BY <1>9, <1>11, <1>17, <2>1, <2>2
<1>19. q \in Requests /\ r \in Requests
  BY <1>9
<1>20. Cardinality(ahead[r]) <= Cardinality(ahead[q])
  BY <1>10, <1>13, <1>14, <1>17
<1>. QED BY <1>11, <1>18, <1>19, <1>20

(***************************************************************************)
(* However many requests are served, only a reset can be part of a circle  *)
(* of requests that wait for each other.                                   *)
(***************************************************************************)
THEOREM NoOtherDeadlock == Spec => []OnlyResetsDeadlock
BY Inductive, DeadlocksThen, PTL

=============================================================================
