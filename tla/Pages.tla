------------------------------- MODULE Pages --------------------------------
(***************************************************************************)
(* The lists of the API, read while the book changes.  A client walks a    *)
(* paginated list (listBets, listFights; listLedger and listResets page in *)
(* the same way) with one query per page: the rows that pass the filter,   *)
(* newest first, from the cursor on, without the first.  The kiosks' list  *)
(* of current fights is three queries that run side by side.  Nothing      *)
(* keeps the book still between two queries.                               *)
(***************************************************************************)
EXTENDS Book, SequencesExt

CONSTANTS Lists,        \* the lists the client of the instance walks
          Filters,      \* sets of statuses it asks for
          Limits        \* page sizes it asks for

\* listFightsQuerySchema, listBetsQuerySchema; both services clamp the limit.
ASSUME PageConstants ==
  /\ Lists \subseteq {"bets", "fights"}
  /\ Limits \subseteq Nat \ {0}

VARIABLES created,      \* ticket ever placed -> its place by createdAt
          walk,         \* the client's walk through a list
          reads         \* what the queries of listCurrentFights have seen

pageVars == <<vars, created, walk, reads>>

AtHome == [step |-> "idle"]
NotRead == [limit |-> 0, queries |-> << >>, live |-> {}]

PagesInit == Init /\ created = << >> /\ walk = AtHome /\ reads = NotRead

-----------------------------------------------------------------------------
(* One page                                                                *)

Table(list) == IF list = "bets" THEN bets ELSE fights

\* What a list is ordered by: tickets by createdAt, fights by their number.
When(list) == IF list = "bets" THEN created ELSE [f \in DOMAIN fights |-> f]

NewestFirst(list, rows) ==
  CHOOSE ids \in [1 .. Cardinality(rows) -> rows] :
    \A i, j \in 1 .. Cardinality(rows) : i < j => When(list)[ids[j]] < When(list)[ids[i]]

PassingIn(rows, filter) == {x \in DOMAIN rows : rows[x].status \in filter}
Passing(list, filter) == PassingIn(Table(list), filter)

\* The cursor is {} or the id of a row.  `cursor: { id }` compares with the
\* createdAt of that row: from a row that is gone nothing follows.
From(list, filter, cursor) ==
  {x \in Passing(list, filter) :
     \A row \in cursor : row \in DOMAIN Table(list) /\ When(list)[x] <= When(list)[row]}

\* `take` after `skip`
Taken(ids, skip, limit) ==
  SubSeq(ids, skip + 1, IF skip + limit < Len(ids) THEN skip + limit ELSE Len(ids))

\* With a cursor `skip: 1` leaves out the first row found, whichever it is.
Page(list, filter, cursor, limit) ==
  Taken(NewestFirst(list, From(list, filter, cursor)), IF cursor = {} THEN 0 ELSE 1, limit)

-----------------------------------------------------------------------------
(* A walk                                                                  *)

\* Fault: a full page counts as the last one.
WalkedOnce(list, filter, limit, seen, page, staying) ==
  [step |-> IF Len(page) > limit THEN "more" ELSE "over",
   cursor |-> {}, list |-> list, filter |-> filter, limit |-> limit,
   seen |-> seen \o page, staying |-> staying]

\* nextCursor is the last row of a full page.
Walked(list, filter, limit, seen, page, staying) ==
  [step |-> IF Len(page) = limit THEN "more" ELSE "over",
   cursor |-> IF Len(page) = limit THEN {Last(page)} ELSE {},
   list |-> list, filter |-> filter, limit |-> limit,
   seen |-> seen \o page, staying |-> staying]

FirstPage(list, filter, limit) ==
  /\ walk = AtHome
  /\ walk' = Walked(list, filter, limit, << >>, Page(list, filter, {}, limit),
                    Passing(list, filter))
  /\ UNCHANGED <<vars, created, reads>>

NextPage ==
  /\ walk.step = "more"
  /\ walk' = Walked(walk.list, walk.filter, walk.limit, walk.seen,
                    Page(walk.list, walk.filter, walk.cursor, walk.limit), walk.staying)
  /\ UNCHANGED <<vars, created, reads>>

Leave ==
  /\ walk.step = "over"
  /\ walk' = AtHome
  /\ UNCHANGED <<vars, created, reads>>

-----------------------------------------------------------------------------
(* listCurrentFights                                                       *)

\* Fault: the query for a live fight does not know LAST_CALL.
GroupsOpenOnly == [live |-> {"OPEN"}, closed |-> {"CLOSED"}, settled |-> {"SETTLED"}]

Groups == [live |-> LiveStatuses, closed |-> {"CLOSED"}, settled |-> {"SETTLED"}]

\* Promise.all: the three queries come to the database in any order.
Query(group, limit) ==
  /\ \A i \in DOMAIN reads.queries : reads.queries[i].group # group
  /\ reads.queries # << >> => limit = reads.limit
  /\ LET new == NewestFirst("fights", FightsIn(Groups[group]))
         ids == IF group = "closed" THEN Reverse(new) ELSE new IN
       reads' =
         [limit |-> limit,
          queries |-> Append(reads.queries, [group |-> group, rows |-> Taken(ids, 0, limit)]),
          live |-> IF reads.queries = << >> THEN Live ELSE reads.live]
  /\ UNCHANGED <<vars, created, walk>>

AllRead == Len(reads.queries) = 3
RowsRead(group) ==
  reads.queries[CHOOSE i \in DOMAIN reads.queries : reads.queries[i].group = group].rows

\* `[...live, ...closed, ...settled].slice(0, limit)`
Current == Taken(RowsRead("live") \o RowsRead("closed") \o RowsRead("settled"), 0, reads.limit)

Present ==
  /\ AllRead
  /\ reads' = NotRead
  /\ UNCHANGED <<vars, created, walk>>

-----------------------------------------------------------------------------
(* The book meanwhile                                                      *)

\* createdAt is taken before the commit: of two placements the later may
\* commit first.
Dated ==
  LET n == Cardinality(DOMAIN created) IN
  IF DOMAIN bets' \subseteq DOMAIN created THEN created' = created
  ELSE \E b \in DOMAIN bets' \ DOMAIN created, place \in {n, n + 1} \ {0} :
         created' = [x \in DOMAIN created \cup {b} |->
                       IF x = b THEN place
                       ELSE IF created[x] < place THEN created[x] ELSE created[x] + 1]

\* A ticket that was purged does not come back with another life.
NoReturn == DOMAIN bets' \subseteq DOMAIN bets \cup (BetIds \ DOMAIN created)

StillPassing == PassingIn(IF walk.list = "bets" THEN bets' ELSE fights', walk.filter)

\* What has stayed in the list since the walk, or the queries, began.
Staying ==
  /\ walk' = IF walk = AtHome THEN walk
             ELSE [walk EXCEPT !.staying = @ \cap StillPassing]
  /\ reads' = [reads EXCEPT !.live = @ \cap Live']

Changing == NoReturn /\ Dated /\ Staying

Walking == NextPage \/ Leave \/ \E l \in Lists, s \in Filters, n \in Limits : FirstPage(l, s, n)
Showing == Present \/ \E group \in DOMAIN Groups, n \in Limits : Query(group, n)

PagesNext == Walking \/ Showing \/ (Next /\ Changing)

PagesSpec == PagesInit /\ [][PagesNext]_pageVars

\* Walks whose cursor stays in the list.
CursorStays ==
  walk.step = "more" => walk.cursor \subseteq StillPassing

SteadySpec == PagesInit /\ [][PagesNext /\ CursorStays]_pageVars

-----------------------------------------------------------------------------

(***************************************************************************)
(* A walk that ends has listed every row that passed its filter all along, *)
(* each once, whatever was placed, paid or declared meanwhile              *)
(* (bets.service.js, listBets; fights.service.js, listFights), as long as  *)
(* the row of the cursor stays in the list.                                *)
(***************************************************************************)
WalkIsComplete ==
  /\ walk # AtHome => IsInjective(walk.seen)
  /\ walk.step = "over" => walk.staying \subseteq ToSet(walk.seen)

(***************************************************************************)
(* A fight that takes bets while the three queries run heads the kiosks'   *)
(* list (fights.service.js, listCurrentFights).                            *)
(***************************************************************************)
LiveFightIsShown ==
  AllRead /\ reads.live # {} => Current # << >> /\ Head(Current) \in ToSet(RowsRead("live"))
=============================================================================
