------------------------------ MODULE OfficeDesk ------------------------------
(***************************************************************************)
(* What the office's people and the clients of its data API read, while     *)
(* reports land and are reviewed: the report list (office/store/            *)
(* reportlanding.go) by pages over GraphQL (office/graphql/resolver.go) or  *)
(* as one CSV file (office/httpapi/csvexport.go), the notification panel    *)
(* (office/httpapi/notifications.go) with its overdue vessels, and the      *)
(* reports written at the office (office/httpapi/commercial.go).            *)
(*                                                                         *)
(* Of a report the readers here need its event time, when it was received   *)
(* and its state; a number is its id, by which the list breaks ties.  Time  *)
(* is counted in days.  How versions, remarks and replies arrive is         *)
(* OfficeLanding's matter; the cadence that makes a vessel overdue,         *)
(* Scoping's.                                                               *)
(***************************************************************************)
EXTENDS OfficeAccounts, SequencesExt

CONSTANTS
  Vessels, Enrolled,  \* vessels, and those enrolled
  Reports, VesselOf,  \* report ids and the vessel of each
  Founder, Landed,    \* whose office it is, and what has landed, at the start
  Filters,            \* filters a client asks with
  Limits,             \* page sizes a client asks for
  DefaultLimit, MaxLimit,
  MaxGap,             \* the longest a vessel may be silent
  Lookback,           \* the panel's window
  Cap,                \* and how many notifications it shows
  MaxDays             \* bound on time

ASSUME DeskAssumption ==
  /\ Reports \subseteq Nat /\ VesselOf \in [Reports -> Vessels]
  /\ Enrolled \subseteq Vessels
  /\ MaxLimit \in Nat /\ DefaultLimit \in 1..MaxLimit /\ Cap \in Nat
  /\ IsFiniteSet(Callers) /\ IsFiniteSet(Reports)

VARIABLES
  versions,  \* report_versions: those of each report, in order
  groups,    \* vessels.groups
  replies,   \* chat messages from vessels: when each was sent
  reads,     \* notification_read_state of each user
  shown,     \* the notifications on each user's screen
  opened,    \* history: replies each user was ever shown
  client,    \* how far each client of the data API has read
  now        \* the day

desk == <<versions, groups, replies, reads, shown, opened, client, now>>
vars == <<accounts, desk>>

Submitted(at) == [at |-> at, received |-> now, state |-> "submitted"]

\* An office nobody has set up yet, or one in use whose Admin is logged in.
Init ==
  /\ now = 0
  /\ \/ InitAccounts(<<>>) /\ versions = [r \in Reports |-> <<>>]
     \/ /\ InitAccounts([u \in {Founder} |-> ChangePassword(NewUser(AllRoles))])
        /\ versions = [r \in Reports |-> IF r \in Landed THEN <<Submitted(0)>> ELSE <<>>]
  /\ groups = [v \in Vessels |-> Groups]
  /\ replies = <<>>
  /\ reads = [u \in Users |-> {}] /\ shown = reads /\ opened = reads
  /\ client = [c \in Callers |-> Idle]

-----------------------------------------------------------------------------
(* The report list. *)

Latest(r) == Last(versions[r])

Matches(r, filter, group) ==
  /\ versions[r] # <<>>
  /\ group = Unscoped \/ group \in groups[VesselOf[r]]
  /\ filter.state \in {"any", Latest(r).state}

\* ORDER BY event_time DESC, report_id DESC.
Newer(a, b) ==
  \/ Latest(a).at > Latest(b).at
  \/ Latest(a).at = Latest(b).at /\ a > b

Found(filter, group) == {r \in Reports : Matches(r, filter, group)}

\* The rows in that order, of which there is one: ids are unique.
ListReports(filter, group) ==
  LET rows == Found(filter, group)
      places == 1 .. Cardinality(rows) IN
  {list \in [places -> rows] :
     \A j, k \in places : j < k => Newer(list[j], list[k])}

\* The key's own group wins over the one that is asked for.
GroupFor(filter, scope) == IF scope = Unscoped THEN filter.group ELSE scope

LimitFor(limit) == IF limit \in 1..MaxLimit THEN limit ELSE DefaultLimit

\* LIMIT and OFFSET.
Rows(list, limit, offset) == SubSeq(list, offset + 1, Min({offset + limit, Len(list)}))

\* Mutant: one row short of telling that there is a next page.
FetchPage(list, limit, offset) == [items |-> Rows(list, limit, offset), next |-> FALSE]

\* One row more than the page is fetched, to know whether there is a next.
Page(list, limit, offset) ==
  LET rows == Rows(list, limit + 1, offset) IN
  [items |-> Rows(rows, limit, 0), next |-> Len(rows) > limit]

-----------------------------------------------------------------------------
(* Clients of the data API: each call is one page. *)

\* due: what is listed as the reading starts; calm: the rows of the list have
\* kept their order since, whatever came in between them.
Reading(filter, scope, limit) ==
  [filter |-> filter, scope |-> scope, limit |-> LimitFor(limit), offset |-> 0,
   due |-> Found(filter, GroupFor(filter, scope)), got |-> {},
   calm |-> TRUE, done |-> FALSE]

Turn(c, reading) ==
  \E list \in ListReports(reading.filter, GroupFor(reading.filter, reading.scope)) :
    LET page == Page(list, reading.limit, reading.offset) IN
    client' = [client EXCEPT ![c] =
      [reading EXCEPT !.offset = @ + Len(page.items), !.got = @ \cup ToSet(page.items),
                      !.done = ~page.next]]

\* The Reports resolver.
ServePage(c) ==
  /\ Answered(c)
  /\ \/ \E filter \in Filters, limit \in Limits :
          Turn(c, Reading(filter, call[c].group, limit))
     \/ /\ client[c] # Idle /\ ~client[c].done
        /\ client[c].scope = call[c].group
        /\ Turn(c, client[c])
  /\ UNCHANGED <<versions, groups, replies, reads, shown, opened, now>>

\* handleReportsCSV: all rows at once, and only for a key.
ServeCSV(c, filter) ==
  /\ "key" \in DOMAIN call[c]
  /\ Answered(c)
  /\ LET reading == Reading(filter, call[c].group, DefaultLimit) IN
     client' = [client EXCEPT ![c] = [reading EXCEPT !.got = reading.due, !.done = TRUE]]
  /\ UNCHANGED <<versions, groups, replies, reads, shown, opened, now>>

\* The lists whose rows keep their order in a step, whatever comes in between.
KeptLists ==
  {l \in [filter : Filters, group : Groups \cup {Unscoped}] :
     LET old == Found(l.filter, l.group) IN
     /\ old \subseteq Found(l.filter, l.group)'
     /\ \A a, b \in old : Newer(a, b) => Newer(a, b)'}

\* History only: which clients' readings are undisturbed.
WatchClients ==
  client' = [c \in Callers |->
    IF client[c] = Idle THEN Idle
    ELSE [client[c] EXCEPT !.calm = @ /\
            [filter |-> client[c].filter,
             group |-> GroupFor(client[c].filter, client[c].scope)] \in KeptLists]]

-----------------------------------------------------------------------------
(* What happens to reports meanwhile. *)

\* A version is pushed by its vessel; its event may be some time past.
LandVersion(r, at) ==
  /\ Step
  /\ versions' = [versions EXCEPT ![r] = Append(@, Submitted(at))]
  /\ UNCHANGED <<users, sessions, request, keys, log, call, served, barred, revoked,
                 groups, replies, reads, shown, opened, now>>
  /\ WatchClients

\* handleCreateCommercialReport: created, checked and submitted in one request;
\* with findings that block it nothing is stored.
CreateCommercialReport(r) ==
  /\ SomeoneIs("commercialEditor")
  /\ versions[r] = <<>>
  /\ LandVersion(r, now)

\* handleCreateRemarkSet, as far as the list shows it.
RemarkReport(r) ==
  /\ Step
  /\ SomeoneIs("reviewer")
  /\ versions[r] # <<>>
  /\ versions' = [versions EXCEPT ![r][Len(versions[r])].state = "remarked"]
  /\ UNCHANGED <<users, sessions, request, keys, log, call, served, barred, revoked,
                 groups, replies, reads, shown, opened, now>>
  /\ WatchClients

\* handleUpdateVessel.
UpdateGroups(v, G) ==
  /\ Step
  /\ SomeoneIs("admin")
  /\ groups' = [groups EXCEPT ![v] = G]
  /\ UNCHANGED <<users, sessions, request, keys, log, call, served, barred, revoked,
                 versions, replies, reads, shown, opened, now>>
  /\ WatchClients

\* A reply is dated by its vessel, which may have had no link for a while.
LandReply(sent) ==
  /\ Step
  /\ replies' = Append(replies, sent)
  /\ UNCHANGED <<users, sessions, request, keys, log, call, served, barred, revoked,
                 versions, groups, reads, shown, opened, client, now>>

NextDay ==
  /\ now < MaxDays /\ now' = now + 1
  /\ UNCHANGED <<accounts, versions, groups, replies, reads, shown, opened,
                 client>>

-----------------------------------------------------------------------------
(* The notification panel. *)

VersionsOf(v) ==
  UNION {ToSet(versions[r]) : r \in {q \in Reports : VesselOf[q] = v}}

\* The latest event time over all versions of all reports of the vessel.
LastReport(v) == CHOOSE t \in 0..now :
  /\ \E x \in VersionsOf(v) : x.at = t
  /\ \A x \in VersionsOf(v) : x.at <= t

\* A vessel that has never reported is not overdue.
Overdue(v) == VersionsOf(v) # {} /\ now - LastReport(v) > MaxGap

\* Nothing is stored: a notification's id is made up of what it is about.
Notifications ==
  LET recent(t) == t >= now - Lookback IN
  {[id |-> <<"overdue", v>>, at |-> LastReport(v)] : v \in {w \in Enrolled : Overdue(w)}}
    \cup {[id |-> <<"chat", i>>, at |-> replies[i]] :
            i \in {j \in DOMAIN replies : recent(replies[j])}}
    \cup UNION {{[id |-> <<"sync", v, x.received>>, at |-> x.received] :
                   x \in {y \in VersionsOf(v) : recent(y.received)}} : v \in Vessels}

\* The newest that fit; an unstable sort decides between equals.
Feeds ==
  {F \in SUBSET Notifications :
     /\ Cardinality(F) <= Cap
     /\ Cardinality(F) < Cap => F = Notifications
     /\ \A x \in F, y \in Notifications \ F : x.at >= y.at}

Ids(F) == {x.id : x \in F}
IsReply(id) == id[1] = "chat"

\* handleListNotifications, with the caller's own read marks.
OpenNotifications(u) ==
  /\ Step
  /\ Authenticated(u)
  /\ \E F \in Feeds :
       /\ shown' = [shown EXCEPT ![u] = Ids(F)]
       /\ opened' = [opened EXCEPT ![u] = @ \cup {id \in Ids(F) : IsReply(id)}]
  /\ UNCHANGED <<users, sessions, request, keys, log, call, served, barred, revoked,
                 versions, groups, replies, reads, client, now>>

\* Mutant: the server works out what is unread when it is told to mark all.
MarkAllThereIs(u) ==
  /\ Step
  /\ Authenticated(u)
  /\ shown[u] # {}
  /\ reads' = [reads EXCEPT ![u] = @ \cup Ids(Notifications)]
  /\ UNCHANGED <<users, sessions, request, keys, log, call, served, barred, revoked,
                 versions, groups, replies, shown, opened, client, now>>

\* handleMarkNotificationsRead: the ids on the screen, one or all of them.
MarkNotificationsRead(u) ==
  /\ Step
  /\ Authenticated(u)
  /\ shown[u] # {}
  /\ \E S \in {shown[u]} \cup {{id} : id \in shown[u]} :
       reads' = [reads EXCEPT ![u] = @ \cup S]
  /\ UNCHANGED <<users, sessions, request, keys, log, call, served, barred, revoked,
                 versions, groups, replies, shown, opened, client, now>>

-----------------------------------------------------------------------------

Next ==
  \/ AccountsNext /\ UNCHANGED desk
  \/ NextDay \/ \E sent \in 0..now : LandReply(sent)
  \/ \E c \in Callers : ServePage(c) \/ \E filter \in Filters : ServeCSV(c, filter)
  \/ \E r \in Reports :
        \/ CreateCommercialReport(r) \/ RemarkReport(r)
        \/ \E at \in 0..now : LandVersion(r, at)
  \/ \E v \in Vessels, G \in {{}, Groups} : UpdateGroups(v, G)
  \/ \E u \in Users : OpenNotifications(u) \/ MarkNotificationsRead(u)

Spec == Init /\ [][Next]_vars

-----------------------------------------------------------------------------

\* A client that follows the pages to the last one has every report that was
\* listed when it started, however many land meanwhile, as long as none of them
\* leaves the list or changes places (LIMIT and OFFSET over a changing table).
PagesMissNothing ==
  \A c \in Callers :
    client[c] # Idle /\ client[c].done /\ client[c].calm
      => client[c].due \subseteq client[c].got

\* A reply from a vessel is marked read only for a user who was shown it: the
\* panel has no state but these marks, and they are set by id.
ReadWasShown ==
  \A u \in Users : {id \in reads[u] : IsReply(id)} \subseteq opened[u]

=============================================================================
