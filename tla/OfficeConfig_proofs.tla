------------------------- MODULE OfficeConfig_proofs -------------------------
(***************************************************************************)
(* Proofs about what the office configures and the vessel obeys.           *)
(*                                                                         *)
(* ConfigSync: no field policy rules what its schema version locks or      *)
(* lacks, and no cycle, lost answer or restore makes the vessel skip a     *)
(* committed schema version or go back to an older bundle.                 *)
(*                                                                         *)
(* HealthCheck: what a check found clean the submit does not refuse and    *)
(* the cascade does not flag, a submitted report has its mandatory fields, *)
(* a prefilled draft continues the last submitted one, and the strictest   *)
(* row wins whole.                                                         *)
(***************************************************************************)
EXTENDS ConfigSync, HealthCheck, TLAPS, WellFoundedInduction,
        SequenceTheorems, FiniteSetTheorems

\* A set of numbers that is not empty has a least one.
LEMMA LeastNumber ==
  ASSUME NEW S \in SUBSET Nat, S # {}
  PROVE  \E m \in S : \A k \in S : m <= k
<1>1. IsWellFoundedOn(OpToRel(<, Nat), Nat)
  BY NatLessThanWellFounded
<1>2. PICK m \in S : \A k \in S : <<k, m>> \notin OpToRel(<, Nat)
  BY <1>1, WFMin, Zenon
<1>3. \A k \in S : ~(k < m)
  BY <1>2 DEF OpToRel
<1> QED
  BY <1>3

\* A bounded one has a greatest.
LEMMA GreatestNumber ==
  ASSUME NEW n \in Nat, NEW S \in SUBSET (1..n), S # {}
  PROVE  \E m \in S : \A k \in S : k <= m
<1> DEFINE T == {n - k : k \in S}
<1>1. T \in SUBSET Nat
  <2>1. \A k \in S : k \in 1..n
    OBVIOUS
  <2>2. \A k \in 1..n : n - k \in Nat
    OBVIOUS
  <2> QED
    BY <2>1, <2>2
<1>5. T # {}
  OBVIOUS
<1>2. PICK t \in T : \A u \in T : t <= u
  BY <1>1, <1>5, LeastNumber
<1>3. PICK m \in S : t = n - m
  OBVIOUS
<1>4. \A k \in S : k <= m
  BY <1>2, <1>3
<1> QED
  BY <1>4

-----------------------------------------------------------------------------
(* The office. *)

\* A sequence, whatever its elements are.
Sequential(s) == s \in Seq(Range(s))

\* An element of Seq(S), without its S.
LEMMA SequencesAreSequential ==
  ASSUME NEW S, NEW s \in Seq(S)
  PROVE  Sequential(s) /\ Len(s) \in Nat /\ DOMAIN s = 1..Len(s)
<1>1. Len(s) \in Nat /\ DOMAIN s = 1..Len(s) /\ s \in [1..Len(s) -> S]
  OBVIOUS
<1>2. \A i \in 1..Len(s) : s[i] \in Range(s)
  BY <1>1 DEF Range
<1>3. s \in [1..Len(s) -> Range(s)]
  BY <1>1, <1>2
<1>4. s \in Seq(Range(s))
  BY <1>1, <1>3, SeqDef, Zenon
<1> QED
  BY <1>1, <1>4 DEF Sequential

\* What an insert into a stream does to it.
LEMMA AppendIsSequential ==
  ASSUME NEW s, Sequential(s), NEW x
  PROVE  /\ Sequential(Append(s, x))
         /\ Len(Append(s, x)) = Len(s) + 1 /\ Len(s) \in Nat
         /\ DOMAIN s = 1..Len(s)
         /\ \A i \in 1..Len(s) : Append(s, x)[i] = s[i]
         /\ Append(s, x)[Len(s) + 1] = x
<1> DEFINE R == Range(s) \cup {x}
<1>1. s \in Seq(R)
  <2>1. Len(s) \in Nat /\ s \in [1..Len(s) -> Range(s)]
    BY DEF Sequential
  <2>2. s \in [1..Len(s) -> R]
    BY <2>1
  <2> QED
    BY <2>1, <2>2, SeqDef, Zenon
<1>2. Append(s, x) \in Seq(R)
  BY <1>1
<1>3. /\ Len(Append(s, x)) = Len(s) + 1 /\ Len(s) \in Nat
      /\ DOMAIN s = 1..Len(s)
      /\ \A i \in 1..Len(s) : Append(s, x)[i] = s[i]
      /\ Append(s, x)[Len(s) + 1] = x
  BY <1>1
<1> QED
  BY <1>2, <1>3, SequencesAreSequential

Composing ==
  /\ composing = [version |-> composing.version, read |-> composing.read]
  /\ composing.version \in -1..Len(schemas)
  /\ Sequential(composing.read)

OfficeInv ==
  /\ schemas \in Seq(Contents)
  /\ inserted \subseteq 1..Len(schemas)
  /\ Sequential(bundles)
  /\ saving \in 0..Len(schemas)
  /\ Composing
  /\ DOMAIN assignments \subseteq Scopes
  /\ \A s \in DOMAIN assignments : assignments[s] \in 1..Len(bundles)

\* What an insert into a stream leaves in place.
Grows(s) == Len(s') >= Len(s) /\ \A i \in 1..Len(s) : s'[i] = s[i]

\* The office starts with empty tables.
LEMMA OfficeInit == InitOffice => OfficeInv
<1> SUFFICES ASSUME InitOffice PROVE OfficeInv
  OBVIOUS
<1>1. schemas = <<>> /\ inserted = {} /\ bundles = <<>> /\ saving = 0 /\ assignments = <<>>
  BY DEF InitOffice
<1>2. composing = [version |-> -1, read |-> <<>>]
  BY DEF InitOffice, Idle
<1>3. Sequential(<<>>)
  BY DEF Sequential
<1> QED
  BY <1>1, <1>2, <1>3 DEF OfficeInv, Composing

\* The newest of the versions that are there is one of them.
LEMMA NewestIsThere ==
  ASSUME NEW n \in Nat, NEW S \in SUBSET (1..n)
  PROVE  /\ Newest(S) \in 0..n
         /\ S = {} => Newest(S) = 0
         /\ S # {} => Newest(S) \in S /\ \A k \in S : k <= Newest(S)
<1>1. CASE S = {}
  BY <1>1 DEF Newest
<1>2. CASE S # {}
  <2>1. \E m \in S : \A k \in S : k <= m
    BY <1>2, GreatestNumber
  <2>2. Newest(S) \in S /\ \A k \in S : k <= Newest(S)
    BY <1>2, <2>1 DEF Newest
  <2>3. Newest(S) \in 1..n
    BY <2>2
  <2> QED
    BY <1>2, <2>2, <2>3
<1> QED
  BY <1>1, <1>2

\* Authoring keeps the office's tables in shape, and its streams only grow.
LEMMA OfficeStep ==
  ASSUME OfficeInv, Author \/ UNCHANGED office
  PROVE  OfficeInv' /\ Grows(schemas) /\ Grows(bundles)
<1> USE DEF OfficeInv, Grows, registry
<1>0. Len(schemas) \in Nat /\ LatestSchemaVersion \in 0..Len(schemas)
  BY NewestIsThere DEF LatestSchemaVersion
<1>1. ASSUME NEW c \in Contents, PublishSchemaVersion(c)
      PROVE  OfficeInv' /\ Grows(schemas) /\ Grows(bundles)
  BY <1>1 DEF PublishSchemaVersion, Composing
<1>16. ASSUME NEW n \in DOMAIN schemas, CommitSchemaVersion(n)
       PROVE  OfficeInv' /\ Grows(schemas) /\ Grows(bundles)
  BY <1>16 DEF CommitSchemaVersion, Composing
<1>2. CASE BeginSaveFieldPolicy
  BY <1>0, <1>2 DEF BeginSaveFieldPolicy, Composing
<1>3. ASSUME NEW r \in PolicyRequests, SaveFieldPolicy(r[1], r[2])
      PROVE  OfficeInv' /\ Grows(schemas) /\ Grows(bundles)
  BY <1>3 DEF SaveFieldPolicy, Composing
<1>4. ASSUME NEW r \in ProfileSets, SaveProfileAssignment(r[1], r[2])
      PROVE  OfficeInv' /\ Grows(schemas) /\ Grows(bundles)
  BY <1>4 DEF SaveProfileAssignment, Composing
<1>5. ASSUME NEW r \in CadenceRules, SaveCadenceRule(r[1], r[2])
      PROVE  OfficeInv' /\ Grows(schemas) /\ Grows(bundles)
  BY <1>5 DEF SaveCadenceRule, Composing
<1>6. ASSUME NEW r \in SeverityRows, SaveRuleSeverities(r[1], r[2])
      PROVE  OfficeInv' /\ Grows(schemas) /\ Grows(bundles)
  BY <1>6 DEF SaveRuleSeverities, Composing
<1>7. CASE BeginPublishBundle
  <2>1. Sequential(<<>>)
    BY DEF Sequential
  <2> QED
    BY <1>0, <1>7, <2>1 DEF BeginPublishBundle, Composing
<1>8. CASE ComposeRead
  <2> DEFINE x == <<PolicyRows(composing.version), profiles, cadence,
                    severities>>[Len(composing.read) + 1]
  <2>1. composing' = [composing EXCEPT !.read = Append(composing.read, x)]
    BY <1>8 DEF ComposeRead
  <2>2. composing' = [version |-> composing.version, read |-> Append(composing.read, x)]
    BY <2>1 DEF Composing
  <2>3. Sequential(Append(composing.read, x))
    BY AppendIsSequential DEF Composing
  <2>4. composing'.version = composing.version /\ Sequential(composing'.read)
    BY <2>2, <2>3
  <2>5. composing' = [version |-> composing'.version, read |-> composing'.read]
    BY <2>2
  <2> HIDE DEF x
  <2> QED
    BY <1>8, <2>4, <2>5 DEF ComposeRead, Composing
<1>9. ASSUME NEW order \in Orders, PublishConfigBundle(order)
      PROVE  OfficeInv' /\ Grows(schemas) /\ Grows(bundles)
  <2> DEFINE b == Compose(composing.version, composing.read, order)
  <2>1. bundles' = Append(bundles, b) /\ composing' = Idle
    BY <1>9 DEF PublishConfigBundle, CreateConfigBundle
  <2>2. Sequential(bundles') /\ Len(bundles') = Len(bundles) + 1 /\ Grows(bundles)
    BY <2>1, AppendIsSequential
  <2>3. Sequential(<<>>)
    BY DEF Sequential
  <2> QED
    BY <1>9, <2>1, <2>2, <2>3 DEF PublishConfigBundle, Composing, Idle
<1>10. ASSUME NEW s \in Scopes, NEW b \in DOMAIN bundles, SaveBundleAssignment(s, b)
       PROVE  OfficeInv' /\ Grows(schemas) /\ Grows(bundles)
  <2>1. assignments' = Upsert(assignments, s, b)
    BY <1>10 DEF SaveBundleAssignment, UpsertAssignment
  <2>2. DOMAIN bundles = 1..Len(bundles)
    BY AppendIsSequential
  <2> QED
    BY <1>10, <2>1, <2>2 DEF SaveBundleAssignment, Composing, Upsert
<1>11. ASSUME UNCHANGED <<registry, bundles, assignments, saving, composing>>
       PROVE  OfficeInv' /\ Grows(schemas) /\ Grows(bundles)
  BY <1>11 DEF Composing
<1>12. ASSUME NEW v \in Vessels, NEW gs \in SUBSET Tags, UpdateGroups(v, gs)
       PROVE  OfficeInv' /\ Grows(schemas) /\ Grows(bundles)
  BY <1>11, <1>12 DEF UpdateGroups
<1>13. ASSUME NEW g \in Tags, NEW h \in Tags, RenameVesselGroup(g, h)
       PROVE  OfficeInv' /\ Grows(schemas) /\ Grows(bundles)
  BY <1>11, <1>13 DEF RenameVesselGroup
<1>14. ASSUME NEW g \in Tags, DeleteVesselGroup(g)
       PROVE  OfficeInv' /\ Grows(schemas) /\ Grows(bundles)
  BY <1>11, <1>14 DEF DeleteVesselGroup
<1>15. CASE UNCHANGED office
  BY <1>11, <1>15 DEF office
<1> QED
  BY <1>1, <1>2, <1>3, <1>4, <1>5, <1>6, <1>7, <1>8, <1>9, <1>10, <1>12, <1>13,
     <1>14, <1>15, <1>16 DEF Author

-----------------------------------------------------------------------------
(* The vessel and its cycles. *)

\* With m schema versions and n bundles published:
CursorSet(m, n) == [schema : 0..m, bundle : 0..n]

\* what a schema cursor passes is in h, or in the answer that sets it, or a
\* gap of that answer;
Covered(next, versions, gaps, h, m, n) ==
  /\ next \in CursorSet(m, n)
  /\ versions \subseteq 1..m
  /\ 1..next.schema \subseteq h \cup versions \cup gaps

\* and so is what each stage of a cycle carries.
CycleOK(w, h, m, n) ==
  \/ w = Resting
  \/ /\ w.stage = "asked"
     /\ w.since \in CursorSet(m, n)
     /\ 1..w.since.schema \subseteq h
  \/ /\ w.stage = "schemas"
     /\ Covered(w.next, w.versions, w.gaps, h, m, n)
  \/ /\ w.stage = "answered"
     /\ Covered(w.next, w.versions, w.gaps, h, m, n)
     /\ DOMAIN w.bundles \subseteq 1..n
  \/ w.stage = "pulled"
  \/ w.stage = "status" /\ w.bundle \in 0..n

\* Versions stored, or overtaken by a cursor before they were committed.
Excused == held \cup overtaken

SyncInv ==
  /\ held \subseteq 1..Len(schemas)
  /\ DOMAIN running \subseteq 1..Len(bundles)
  /\ cursors \in CursorSet(Len(schemas), Len(bundles))
  /\ 1..cursors.schema \subseteq Excused
  /\ DOMAIN cycle = Cycles
  /\ \A c \in Cycles : CycleOK(cycle[c], Excused, Len(schemas), Len(bundles))
  /\ reported \in 0..Len(bundles)

\* The bundle in force is the greatest number among those that ran.
LEMMA RunsIsNewest ==
  ASSUME Len(bundles) \in Nat, DOMAIN running \subseteq 1..Len(bundles)
  PROVE  /\ Runs \in 0..Len(bundles)
         /\ \A b \in DOMAIN running : b <= Runs
         /\ DOMAIN running # {} => Runs \in DOMAIN running
         /\ DOMAIN running = {} => Runs = 0
<1>1. CASE DOMAIN running = {}
  BY <1>1 DEF Runs
<1>2. CASE DOMAIN running # {}
  <2>1. \E m \in DOMAIN running : \A k \in DOMAIN running : k <= m
    BY <1>2, GreatestNumber
  <2>2. Runs \in DOMAIN running /\ \A b \in DOMAIN running : b <= Runs
    BY <1>2, <2>1 DEF Runs
  <2> QED
    BY <1>2, <2>2
<1> QED
  BY <1>1, <1>2

\* Of several rows one comes first, whatever order the list query gave.
LEMMA FirstIsOne ==
  ASSUME NEW S \in SUBSET Scopes, S # {}, NEW order \in Orders
  PROVE  First(S, order) \in S
<1> DEFINE at(s) == order[s]
<1>1. \A s \in S : order[s] \in Nat
  <2>1. PICK place \in Bijection(Tags, 1..Cardinality(Tags)) :
          order = [s \in Scopes |-> IF s.type = "group" THEN place[s.key] ELSE 0]
    BY DEF Orders
  <2>2. \A s \in Scopes : s.type = "group" => s.key \in Tags
    BY DEF Scopes, ScopesOf, Fleet, GroupScope, VesselScope
  <2>3. \A t \in Tags : place[t] \in Nat
    BY DEF Bijection, Injection
  <2> QED
    BY <2>1, <2>2, <2>3
<1> DEFINE N == {order[s] : s \in S}
<1>2. \E m \in N : \A k \in N : m <= k
  BY <1>1, LeastNumber
<1>3. \E s \in S : \A t \in S : order[s] <= order[t]
  BY <1>2
<1>4. Least(S, at) # {}
  BY <1>3 DEF Least
<1>5. First(S, order) \in Least(S, at)
  BY <1>4 DEF First
<1> QED
  BY <1>5 DEF Least

\* The bundle a vessel is assigned is one that was published.
LEMMA AssignedIsPublished ==
  ASSUME OfficeInv, NEW order \in Orders
  PROVE  Assigned(order) \in 0..Len(bundles)
<1> DEFINE S == MostSpecific(DOMAIN assignments, Vessel, groups[Vessel])
<1>1. S \subseteq DOMAIN assignments
  BY Zenon DEF MostSpecific
<1>2. CASE S = {}
  BY <1>2 DEF Assigned, Resolve, OfficeInv, Sequential
<1>3. CASE S # {}
  <2>1. First(S, order) \in S
    BY <1>1, <1>3, FirstIsOne DEF OfficeInv
  <2> QED
    BY <1>1, <1>3, <2>1 DEF Assigned, Resolve, OfficeInv
<1> QED
  BY <1>2, <1>3

\* What a step of the office, or a growing set of stored versions, leaves of it.
LEMMA CycleStaysOK ==
  ASSUME NEW m \in Nat, NEW n \in Nat, NEW m1 \in Nat, NEW n1 \in Nat,
         m <= m1, n <= n1, NEW h, NEW h1, h \subseteq h1,
         NEW w, CycleOK(w, h, m, n)
  PROVE  CycleOK(w, h1, m1, n1)
<1>1. 1..m \subseteq 1..m1 /\ 0..m \subseteq 0..m1 /\ 1..n \subseteq 1..n1 /\ 0..n \subseteq 0..n1
  OBVIOUS
<1>2. CursorSet(m, n) \subseteq CursorSet(m1, n1)
  BY <1>1 DEF CursorSet
<1> QED
  BY <1>1, <1>2, Zenon DEF CycleOK, Covered

\* Cycles and the vessel's cursors at the start.
LEMMA SyncInit == Init => SyncInv
<1> SUFFICES ASSUME Init PROVE SyncInv
  OBVIOUS
<1>1. Len(schemas) = 0 /\ Len(bundles) = 0
  BY DEF Init, InitOffice
<1> QED
  BY <1>1 DEF Init, SyncInv, Start, CursorSet, CycleOK, Excused

\* Every step of a cycle, of the office or of a restore keeps the cursors behind what is
\* held or was overtaken.
LEMMA SyncStep ==
  ASSUME OfficeInv, OfficeInv', Grows(schemas), Grows(bundles), SyncInv, [Next]_vars
  PROVE  SyncInv'
<1>a. /\ Len(schemas) \in Nat /\ Len(schemas') \in Nat
      /\ Len(bundles) \in Nat /\ Len(bundles') \in Nat
      /\ Len(schemas') >= Len(schemas) /\ Len(bundles') >= Len(bundles)
  BY DEF OfficeInv, Sequential, Grows
<1>b. /\ 1..Len(schemas) \subseteq 1..Len(schemas')
      /\ 0..Len(schemas) \subseteq 0..Len(schemas')
      /\ 1..Len(bundles) \subseteq 1..Len(bundles')
      /\ 0..Len(bundles) \subseteq 0..Len(bundles')
  BY <1>a
<1>c. CursorSet(Len(schemas), Len(bundles)) \subseteq CursorSet(Len(schemas'), Len(bundles'))
  BY <1>b DEF CursorSet
<1> DEFINE OK(w) == CycleOK(w, Excused, Len(schemas), Len(bundles))
           OKNow(w) == CycleOK(w, Excused', Len(schemas'), Len(bundles'))
<1>d. ASSUME Excused \subseteq Excused', NEW w, OK(w) PROVE OKNow(w)
  BY <1>a, <1>d, CycleStaysOK
<1>e. \A c \in Cycles : OK(cycle[c])
  BY DEF SyncInv
<1> HIDE DEF OK, OKNow
<1>f. ASSUME \A c \in Cycles : OKNow(cycle'[c])
      PROVE  \A c \in Cycles : CycleOK(cycle'[c], Excused', Len(schemas'), Len(bundles'))
  BY <1>f DEF OKNow
<1>1. CASE UNCHANGED sync
  <2>1. \A c \in Cycles : OKNow(cycle'[c])
    BY <1>1, <1>d, <1>e DEF sync, Excused
  <2> QED
    BY <1>1, <1>b, <1>c, <1>f, <2>1 DEF sync, SyncInv, Excused
<1>2. ASSUME NEW c \in Cycles, NEW to, Move(c, to),
             UNCHANGED <<held, running, cursors, overtaken>>,
             \/ UNCHANGED reported
             \/ reported' \in 0..Len(bundles),
             OKNow(to)
      PROVE  SyncInv'
  <2>1. \A d \in Cycles : d # c => cycle'[d] = cycle[d]
    BY <1>2 DEF Move, SyncInv
  <2>4. cycle'[c] = to
    BY <1>2 DEF Move, SyncInv
  <2>2. \A d \in Cycles : OKNow(cycle'[d])
    BY <1>2, <1>d, <1>e, <2>1, <2>4 DEF Excused
  <2>3. DOMAIN cycle' = Cycles
    BY <1>2 DEF Move, SyncInv
  <2> QED
    BY <1>2, <1>b, <1>c, <1>f, <2>2, <2>3 DEF SyncInv, Excused
<1>3. ASSUME NEW c \in Cycles, BeginPull(c) PROVE SyncInv'
  <2> DEFINE to == [stage |-> "asked", since |-> cursors]
  <2>1. Move(c, to)
    BY <1>3 DEF BeginPull, Move, SyncInv
  <2>2. OK(to)
    BY DEF OK, CycleOK, SyncInv
  <2>3. OKNow(to)
    BY <1>3, <1>d, <2>2 DEF BeginPull, Excused
  <2> QED
    BY <1>3, <2>1, <2>3, <1>2 DEF BeginPull
<1>4. ASSUME NEW c \in Cycles, PullSchemaVersions(c) PROVE SyncInv'
  <2> DEFINE since == cycle[c].since
             new == ListSchemaVersionsSince(since.schema)
             last == IF new = {} THEN since.schema ELSE Newest(new)
             gaps == (1..last) \ inserted
             to == [stage |-> "schemas", versions |-> new, gaps |-> gaps,
                    next |-> [since EXCEPT !.schema = last]]
  <2>1. Move(c, to) /\ UNCHANGED <<schemas, bundles, held, overtaken>>
    BY <1>4, Zenon DEF PullSchemaVersions, AnswerSchemas, Move, office, registry
  <2>2. since \in CursorSet(Len(schemas), Len(bundles)) /\ 1..since.schema \subseteq Excused
    BY <1>4 DEF PullSchemaVersions, CycleOK, SyncInv, Resting
  <2>3. new \subseteq 1..Len(schemas) /\ new = {k \in inserted : k > since.schema}
    BY DEF ListSchemaVersionsSince, OfficeInv
  <2>4. last \in 0..Len(schemas) /\ since.schema \in Nat
    BY <2>2, <2>3, <1>a, NewestIsThere DEF CursorSet
  <2>5. 1..last \subseteq Excused \cup new \cup gaps
    <3>1. ASSUME NEW k \in 1..last, k \in inserted PROVE k \in Excused \cup new
      <4>1. k \in Nat /\ (k > since.schema \/ k \in 1..since.schema)
        BY <2>4, <3>1
      <4> QED
        BY <2>2, <2>3, <3>1, <4>1
    <3> QED
      BY <3>1
  <2> HIDE DEF last, new, gaps
  <2>6. /\ [since EXCEPT !.schema = last] \in CursorSet(Len(schemas), Len(bundles))
        /\ [since EXCEPT !.schema = last].schema = last
    BY <2>2, <2>4 DEF CursorSet
  <2>8. OK(to)
    BY <2>3, <2>5, <2>6 DEF OK, CycleOK, Covered
  <2>7. OKNow(to)
    BY <2>1, <2>8, <1>d DEF Excused
  <2> QED
    BY <1>4, <2>1, <2>7, <1>2 DEF PullSchemaVersions
<1>5. ASSUME NEW c \in Cycles, NEW order \in Orders, PullAssignedBundle(c, order)
      PROVE  SyncInv'
  <2> DEFINE b == Assigned(order)
             newer == b > cycle[c].next.bundle
             sent == IF newer THEN Row(b) ELSE <<>>
             next == IF newer THEN [cycle[c].next EXCEPT !.bundle = b] ELSE cycle[c].next
             to == [stage |-> "answered", versions |-> cycle[c].versions,
                    gaps |-> cycle[c].gaps, bundles |-> sent, next |-> next]
  <2>1. Move(c, to) /\ UNCHANGED <<schemas, bundles, held, overtaken>>
    BY <1>5 DEF PullAssignedBundle, Move, SyncInv, office, registry
  <2>2. Covered(cycle[c].next, cycle[c].versions, cycle[c].gaps, Excused,
                Len(schemas), Len(bundles))
    BY <1>5 DEF PullAssignedBundle, CycleOK, SyncInv, Resting
  <2>3. b \in 0..Len(bundles) /\ (newer => b \in 1..Len(bundles))
    BY <2>2, <1>a, AssignedIsPublished DEF CursorSet, Covered
  <2>4. DOMAIN sent \subseteq 1..Len(bundles)
    BY <2>3 DEF Row
  <2>5. next \in CursorSet(Len(schemas), Len(bundles)) /\ next.schema = cycle[c].next.schema
    BY <2>2, <2>3 DEF CursorSet, Covered
  <2> HIDE DEF b, newer, sent, next
  <2>6. OK(to)
    BY <2>2, <2>4, <2>5 DEF OK, CycleOK, Covered
  <2>7. OKNow(to)
    BY <2>1, <2>6, <1>d DEF Excused
  <2> QED
    BY <1>5, <2>1, <2>7, <1>2 DEF PullAssignedBundle
<1>6. ASSUME NEW c \in Cycles, ApplyInboxPull(c) PROVE SyncInv'
  <2>1. /\ Covered(cycle[c].next, cycle[c].versions, cycle[c].gaps, Excused,
                   Len(schemas), Len(bundles))
        /\ DOMAIN cycle[c].bundles \subseteq 1..Len(bundles)
    BY <1>6 DEF ApplyInboxPull, CycleOK, SyncInv, Resting
  <2>2. /\ held' = held \cup cycle[c].versions /\ cursors' = cycle[c].next
        /\ overtaken' = overtaken \cup cycle[c].gaps
        /\ UNCHANGED <<schemas, bundles, reported>>
    BY <1>6 DEF ApplyInboxPull, office, registry
  <2>3. DOMAIN running' \subseteq 1..Len(bundles)
    BY <1>6, <2>1 DEF ApplyInboxPull, Insert, SyncInv
  <2>4. /\ DOMAIN cycle' = Cycles /\ cycle'[c].stage = "pulled"
        /\ \A d \in Cycles : d # c => cycle'[d] = cycle[d]
    BY <1>6 DEF ApplyInboxPull, Move, SyncInv
  <2>5. \A d \in Cycles : OKNow(cycle'[d])
    BY <2>2, <2>4, <1>d, <1>e DEF OKNow, CycleOK, Excused
  <2>6. 1..cursors'.schema \subseteq Excused'
    BY <2>1, <2>2, Zenon DEF Covered, Excused
  <2> QED
    BY <2>1, <2>2, <2>3, <2>4, <2>5, <2>6, <1>b, <1>c, <1>f DEF SyncInv, Covered, CursorSet
<1>7. ASSUME NEW c \in Cycles, SendStatus(c) PROVE SyncInv'
  <2> DEFINE to == [stage |-> "status", bundle |-> Runs]
  <2>1. Move(c, to) /\ UNCHANGED <<schemas, bundles>>
    BY <1>7 DEF SendStatus, Move, SyncInv, office, registry
  <2>2. Runs \in 0..Len(bundles)
    BY <1>a, RunsIsNewest DEF SyncInv
  <2>3. OKNow(to)
    BY <2>1, <2>2 DEF OKNow, CycleOK
  <2> QED
    BY <1>7, <2>1, <2>3, <1>2 DEF SendStatus
<1>8. ASSUME NEW c \in Cycles, SyncStatus(c) PROVE SyncInv'
  <2>1. Move(c, Resting)
    BY <1>8 DEF SyncStatus, Move, SyncInv
  <2>2. reported' \in 0..Len(bundles)
    BY <1>8 DEF SyncStatus, CycleOK, SyncInv, Resting
  <2>3. OKNow(Resting)
    BY DEF OKNow, CycleOK
  <2> QED
    BY <1>8, <2>1, <2>2, <2>3, <1>2 DEF SyncStatus
<1>9. ASSUME NEW c \in Cycles, Lose(c) PROVE SyncInv'
  <2> DEFINE to == IF cycle[c].stage \in {"pulled", "status"} THEN Resting
                   ELSE [stage |-> "pulled"]
  <2>1. Move(c, to)
    BY <1>9 DEF Lose, Move, SyncInv
  <2>2. OKNow(to)
    BY DEF OKNow, CycleOK
  <2> QED
    BY <1>9, <2>1, <2>2, <1>2 DEF Lose
<1>10. ASSUME NEW order \in Orders, ApplyRestoreBundle(order) PROVE SyncInv'
  <2>1. Assigned(order) \in 1..Len(bundles)
    BY <1>10, <1>a, AssignedIsPublished DEF ApplyRestoreBundle
  <2>2. DOMAIN running' \subseteq 1..Len(bundles)
    BY <1>10, <2>1 DEF ApplyRestoreBundle, ApplyConfigBundle, Insert, Row, SyncInv
  <2>3. \A c \in Cycles : OKNow(cycle'[c])
    BY <1>10, <1>d, <1>e DEF ApplyRestoreBundle, Excused
  <2> QED
    BY <1>10, <1>b, <1>c, <1>f, <2>2, <2>3 DEF ApplyRestoreBundle, SyncInv, Excused
<1> QED
  BY <1>1, <1>3, <1>4, <1>5, <1>6, <1>7, <1>8, <1>9, <1>10
  DEF Next, CycleStep, vars

-----------------------------------------------------------------------------
(* Policies and the schema versions they are about. *)

\* Every row of t is for version n, and n is one that was published.
AllFit(t, n) == \A s \in DOMAIN t : n \in 1..Len(schemas) /\ Fits(t[s], n)

PolicyInv ==
  /\ DOMAIN policies \subseteq Scopes \X (1..Len(schemas))
  /\ \A k \in DOMAIN policies : Fits(policies[k], k[2])
  /\ composing.read # <<>> => AllFit(composing.read[1], composing.version)
  /\ \A b \in DOMAIN bundles : AllFit(bundles[b].policies, bundles[b].version)

\* A published schema never changes, so a row that fits one goes on fitting it.
LEMMA FitsStays ==
  ASSUME OfficeInv, Grows(schemas), NEW n \in 1..Len(schemas), NEW row, Fits(row, n)
  PROVE  RuledBy(row) \subseteq Settable(schemas'[n])
BY DEF Grows, Fits

\* RowFrom, after a request that was not refused.
LEMMA SavedRowFits ==
  ASSUME NEW req, NEW schema
  PROVE  RuledBy(RowFrom(req, schema)) \subseteq Settable(schema)
BY DEF RuledBy, RowFrom, Restrict

\* Migrate keeps to the fields the newer schema has.
LEMMA MigratedRowFits ==
  ASSUME NEW row, NEW before, NEW after, RuledBy(row) \subseteq Settable(before)
  PROVE  RuledBy(Migrate(row, DiffSchemas(before, after))) \subseteq after.fields
BY DEF RuledBy, Migrate, DiffSchemas, Restrict, Settable

\* The row no request has saved rules nothing.
LEMMA EmptyRowFits == RuledBy(EmptyRow) = {}
BY DEF RuledBy, EmptyRow

\* A bundle is composed of rows that fit.
LEMMA PolicyRowsFit ==
  ASSUME PolicyInv, NEW n
  PROVE  AllFit(PolicyRows(n), n)
<1> SUFFICES ASSUME NEW s \in DOMAIN PolicyRows(n)
             PROVE  n \in 1..Len(schemas) /\ Fits(PolicyRows(n)[s], n)
  BY DEF AllFit
<1>1. PICK k \in DOMAIN policies : k[2] = n /\ s = k[1]
  BY DEF PolicyRows
<1>2. k \in Scopes \X (1..Len(schemas))
  BY DEF PolicyInv
<1>3. k = <<s, n>> /\ n \in 1..Len(schemas)
  BY <1>1, <1>2
<1>4. PolicyRows(n)[s] = policies[<<s, n>>]
  BY DEF PolicyRows
<1> QED
  BY <1>3, <1>4 DEF PolicyInv

\* Saving, migrating and composing write only rows that fit their version.
LEMMA PolicyStep ==
  ASSUME OfficeInv, OfficeInv', Grows(schemas), PolicyInv, Author \/ UNCHANGED office
  PROVE  PolicyInv'
<1> USE DEF registry
<1>1. /\ Len(schemas) \in Nat /\ Len(schemas') \in Nat /\ Len(schemas') >= Len(schemas)
      /\ 1..Len(schemas) \subseteq 1..Len(schemas')
  BY DEF OfficeInv, Grows
<1>2. ASSUME NEW n \in 1..Len(schemas), NEW row, Fits(row, n)
      PROVE  Fits(row, n)'
  BY <1>2, FitsStays DEF Fits
<1> DEFINE FitNow(t, n) == \A s \in DOMAIN t :
                             /\ n \in 1..Len(schemas')
                             /\ RuledBy(t[s]) \subseteq Settable(schemas'[n])
<1>3. ASSUME NEW t, NEW n, AllFit(t, n) PROVE FitNow(t, n)
  BY <1>1, <1>3, FitsStays DEF AllFit
<1> HIDE DEF FitNow
<1>4. ASSUME /\ DOMAIN policies' \subseteq Scopes \X (1..Len(schemas'))
             /\ \A k \in DOMAIN policies' : RuledBy(policies'[k]) \subseteq Settable(schemas'[k[2]]),
             composing'.read # <<>> => FitNow(composing'.read[1], composing'.version),
             \A b \in DOMAIN bundles' : FitNow(bundles'[b].policies, bundles'[b].version)
      PROVE  PolicyInv'
  BY <1>4 DEF PolicyInv, AllFit, FitNow, Fits
<1>5. ASSUME UNCHANGED policies
      PROVE  /\ DOMAIN policies' \subseteq Scopes \X (1..Len(schemas'))
             /\ \A k \in DOMAIN policies' : RuledBy(policies'[k]) \subseteq Settable(schemas'[k[2]])
  <2>1. DOMAIN policies' \subseteq Scopes \X (1..Len(schemas'))
    BY <1>1, <1>5 DEF PolicyInv
  <2>2. ASSUME NEW k \in DOMAIN policies'
        PROVE  RuledBy(policies'[k]) \subseteq Settable(schemas'[k[2]])
    <3>1. k[2] \in 1..Len(schemas) /\ Fits(policies[k], k[2])
      BY <1>5, <2>2 DEF PolicyInv
    <3> QED
      BY <1>5, <3>1, FitsStays
  <2> QED
    BY <2>1, <2>2
<1>6. ASSUME UNCHANGED composing
      PROVE  composing'.read # <<>> => FitNow(composing'.read[1], composing'.version)
  BY <1>3, <1>6 DEF PolicyInv
<1>7. ASSUME UNCHANGED bundles
      PROVE  \A b \in DOMAIN bundles' : FitNow(bundles'[b].policies, bundles'[b].version)
  BY <1>3, <1>7 DEF PolicyInv
<1>8. ASSUME UNCHANGED <<policies, composing, bundles>> PROVE PolicyInv'
  BY <1>4, <1>5, <1>6, <1>7, <1>8
<1>9. ASSUME NEW r \in PolicyRequests, SaveFieldPolicy(r[1], r[2]) PROVE PolicyInv'
  <2> DEFINE row == RowFrom(r[2], schemas[saving])
  <2>1. /\ policies' = Upsert(policies, <<r[1], saving>>, row)
        /\ UNCHANGED <<schemas, composing, bundles>>
        /\ saving \in 1..Len(schemas)
    BY <1>9, <1>1 DEF SaveFieldPolicy, UpsertPolicy, OfficeInv
  <2>2. RuledBy(row) \subseteq Settable(schemas[saving])
    BY SavedRowFits
  <2> HIDE DEF row
  <2>3. <<r[1], saving>> \in Scopes \X (1..Len(schemas))
    BY <2>1, RequestsAssumption DEF InScopes
  <2>4. DOMAIN policies' \subseteq Scopes \X (1..Len(schemas'))
    BY <2>1, <2>3 DEF Upsert, PolicyInv
  <2>5. \A k \in DOMAIN policies' : RuledBy(policies'[k]) \subseteq Settable(schemas'[k[2]])
    BY <2>1, <2>2 DEF Upsert, PolicyInv, Fits
  <2> QED
    BY <1>4, <1>6, <1>7, <2>1, <2>4, <2>5
<1>10. CASE BeginPublishBundle
  <2>1. UNCHANGED <<policies, bundles>> /\ composing'.read = <<>>
    BY <1>10 DEF BeginPublishBundle
  <2> QED
    BY <1>4, <1>5, <1>7, <2>1
<1>11. CASE ComposeRead
  <2> DEFINE x == <<PolicyRows(composing.version), profiles, cadence,
                    severities>>[Len(composing.read) + 1]
  <2>1. /\ UNCHANGED <<policies, bundles, schemas>>
        /\ composing' = [composing EXCEPT !.read = Append(composing.read, x)]
    BY <1>11 DEF ComposeRead
  <2>2. composing'.version = composing.version /\ composing'.read = Append(composing.read, x)
    BY <2>1 DEF OfficeInv, Composing
  <2>3. CASE composing.read = <<>>
    <3>1. x = PolicyRows(composing.version)
      BY <2>3
    <3>2. composing'.read[1] = PolicyRows(composing.version)
      BY <2>2, <2>3, <3>1
    <3> QED
      BY <1>3, <1>4, <1>5, <1>7, <2>1, <2>2, <3>2, PolicyRowsFit
  <2>4. CASE composing.read # <<>>
    <3> HIDE DEF x
    <3>1. Sequential(composing.read)
      BY DEF OfficeInv, Composing
    <3>2. 1 \in 1..Len(composing.read)
      BY <2>4, <3>1 DEF Sequential
    <3>3. composing'.read[1] = composing.read[1]
      BY <2>2, <3>1, <3>2, AppendIsSequential
    <3>4. FitNow(composing.read[1], composing.version)
      BY <1>3, <2>4 DEF PolicyInv
    <3> QED
      BY <1>4, <1>5, <1>7, <2>1, <2>2, <3>3, <3>4
  <2> QED
    BY <2>3, <2>4
<1>12. ASSUME NEW order \in Orders, PublishConfigBundle(order) PROVE PolicyInv'
  <2> DEFINE b == Compose(composing.version, composing.read, order)
  <2>1. /\ UNCHANGED <<policies, schemas>> /\ bundles' = Append(bundles, b)
        /\ composing' = Idle /\ Len(composing.read) = 4
    BY <1>12 DEF PublishConfigBundle, CreateConfigBundle
  <2>2. b.policies = composing.read[1] /\ b.version = composing.version
    BY DEF Compose
  <2>3. composing.read # <<>>
    <3>1. ASSUME composing.read = <<>> PROVE Len(composing.read) = 0
      BY <3>1
    <3>2. Len(composing.read) # 0
      BY <2>1
    <3> QED
      BY <3>1, <3>2
  <2>4. FitNow(b.policies, b.version)
    BY <1>3, <2>2, <2>3 DEF PolicyInv
  <2> HIDE DEF b
  <2>5. /\ DOMAIN bundles = 1..Len(bundles) /\ DOMAIN bundles' = 1..(Len(bundles) + 1)
        /\ Len(bundles) \in Nat
        /\ \A i \in 1..Len(bundles) : bundles'[i] = bundles[i]
        /\ bundles'[Len(bundles) + 1] = b
    <3>1. Sequential(bundles) /\ Sequential(bundles')
      BY DEF OfficeInv
    <3> QED
      BY <2>1, <3>1, AppendIsSequential
  <2>6. ASSUME NEW i \in DOMAIN bundles'
        PROVE  FitNow(bundles'[i].policies, bundles'[i].version)
    <3>1. CASE i = Len(bundles) + 1
      BY <2>4, <2>5, <3>1
    <3>2. CASE i \in 1..Len(bundles)
      BY <1>3, <2>5, <3>2 DEF PolicyInv
    <3> QED
      BY <2>5, <2>6, <3>1, <3>2
  <2> QED
    BY <1>4, <1>5, <2>1, <2>6 DEF Idle
<1>13. ASSUME NEW x, PublishSchemaVersion(x) \/ CommitSchemaVersion(x) PROVE PolicyInv'
  BY <1>8, <1>13 DEF PublishSchemaVersion, CommitSchemaVersion
<1>14. ASSUME NEW s, NEW x, SaveProfileAssignment(s, x) \/ SaveCadenceRule(s, x)
              \/ SaveRuleSeverities(s, x) \/ SaveBundleAssignment(s, x)
              \/ UpdateGroups(s, x) \/ RenameVesselGroup(s, x) \/ DeleteVesselGroup(s)
       PROVE  PolicyInv'
  BY <1>8, <1>14 DEF SaveProfileAssignment, SaveCadenceRule, SaveRuleSeverities,
     SaveBundleAssignment, UpdateGroups, RenameVesselGroup, DeleteVesselGroup
<1>15. CASE BeginSaveFieldPolicy
  BY <1>8, <1>15 DEF BeginSaveFieldPolicy
<1>16. CASE UNCHANGED office
  BY <1>8, <1>16 DEF office
<1> QED
  BY <1>9, <1>10, <1>11, <1>12, <1>13, <1>14, <1>15, <1>16 DEF Author

-----------------------------------------------------------------------------
(* The invariant and what follows of it. *)

IInv == OfficeInv /\ PolicyInv /\ SyncInv

\* The three parts at the start.
LEMMA InvInit == Init => IInv
<1> SUFFICES ASSUME Init PROVE IInv
  OBVIOUS
<1>1. OfficeInv /\ SyncInv
  BY OfficeInit, SyncInit DEF Init
<1>2. policies = <<>> /\ bundles = <<>> /\ composing.read = <<>>
  BY DEF Init, InitOffice, Idle
<1>3. PolicyInv
  BY <1>2 DEF PolicyInv
<1> QED
  BY <1>1, <1>3 DEF IInv

\* The three parts, step by step.
LEMMA InvStep == IInv /\ [Next]_vars => IInv'
<1> SUFFICES ASSUME IInv, [Next]_vars PROVE IInv'
  OBVIOUS
<1>1. Author \/ UNCHANGED office
  BY DEF Next, vars, CycleStep, BeginPull, PullSchemaVersions, PullAssignedBundle,
     ApplyInboxPull, SendStatus, SyncStatus, Lose, ApplyRestoreBundle
<1>2. OfficeInv' /\ Grows(schemas) /\ Grows(bundles)
  BY <1>1, OfficeStep DEF IInv
<1>3. PolicyInv'
  BY <1>1, <1>2, PolicyStep DEF IInv
<1>4. SyncInv'
  BY <1>2, SyncStep DEF IInv
<1> QED
  BY <1>2, <1>3, <1>4 DEF IInv

\* The invariant holds of every vessel, fleet and configuration, with any
\* number of cycles and lost calls.
THEOREM Inductive == Spec => []IInv
<1> QED
  BY InvInit, InvStep, PTL DEF Spec

\* What PolicyFitsSchema says follows of the rows and bundles.
LEMMA InvFits == IInv => PolicyFitsSchema
<1> SUFFICES ASSUME IInv PROVE PolicyFitsSchema
  OBVIOUS
<1> USE DEF IInv
<1>1. \A k \in DOMAIN policies : Fits(policies[k], k[2])
  BY DEF PolicyInv
<1>2. \A b \in DOMAIN bundles : \A s \in DOMAIN bundles[b].policies :
        Fits(bundles[b].policies[s], bundles[b].version)
  BY DEF PolicyInv, AllFit
<1>3. composing.read # <<>> => \A s \in DOMAIN composing.read[1] :
        Fits(composing.read[1][s], composing.version)
  BY DEF PolicyInv, AllFit
<1>4. ASSUME NEW n \in 1..Len(schemas), NEW s PROVE RuledBy(LoadFieldPolicy(s, n)) \subseteq Settable(schemas[n])
  <2>1. CASE <<s, n>> \in DOMAIN policies
    BY <1>1, <2>1 DEF LoadFieldPolicy, Fits
  <2>2. CASE <<s, n>> \notin DOMAIN policies
    BY <2>2, EmptyRowFits DEF LoadFieldPolicy
  <2> QED
    BY <2>1, <2>2
<1>5. ASSUME inserted # {}, NEW s \in Scopes
      PROVE  RuledBy(FieldPolicyOf(s)) \subseteq schemas[LatestSchemaVersion].fields
  <2> DEFINE n == LatestSchemaVersion
             before == Newest(inserted \ {n})
  <2>1. n \in 1..Len(schemas) /\ before \in 0..Len(schemas)
    BY <1>5, NewestIsThere DEF OfficeInv, LatestSchemaVersion
  <2> HIDE DEF n, before
  <2>2. CASE FieldPolicyOf(s) = LoadFieldPolicy(s, n)
    BY <1>4, <2>1, <2>2 DEF Settable, n
  <2>3. CASE before # 0 /\ FieldPolicyOf(s) = Migration(s, before, n)
    <3>1. RuledBy(LoadFieldPolicy(s, before)) \subseteq Settable(schemas[before])
      BY <1>4, <2>1, <2>3
    <3> QED
      BY <2>3, <3>1, MigratedRowFits DEF Migration, n
  <2> QED
    BY <2>2, <2>3 DEF FieldPolicyOf, n, before
<1> QED
  BY <1>1, <1>2, <1>3, <1>5 DEF PolicyFitsSchema

\* handleSaveFieldPolicy and composeCurrentBundle: no row, no bundle and no
\* migrated row ever rules a field its schema version locks or lacks.
THEOREM PoliciesFit == Spec => []PolicyFitsSchema
<1> QED
  BY Inductive, InvFits, PTL

\* pullSchemaVersions and ApplyInboxPull: however calls are lost and cycles
\* overlap, the schema cursor passes only versions that are stored and versions
\* that had drawn their number but were not committed when a pull went past.
THEOREM NoSchemaIsMissed == Spec => []PullMissesNoSchema
<1>1. IInv => PullMissesNoSchema
  BY DEF IInv, SyncInv, PullMissesNoSchema, Excused
<1> QED
  BY <1>1, Inductive, PTL

\* LatestConfigBundle: nothing that reaches the vessel takes it back to an
\* older bundle.
THEOREM NoOlderBundle == Spec => NeverOlderBundle
<1>1. ASSUME IInv, IInv', [Next]_vars PROVE Runs' >= Runs
  <2>1. DOMAIN running \subseteq DOMAIN running'
    BY <1>1 DEF Next, vars, sync, CycleStep, BeginPull, PullSchemaVersions,
       PullAssignedBundle, ApplyInboxPull, SendStatus, SyncStatus, Lose,
       ApplyRestoreBundle, ApplyConfigBundle, Insert
  <2>2. Len(bundles) \in Nat /\ Len(bundles') \in Nat
    BY <1>1 DEF IInv, OfficeInv, Sequential
  <2>3. /\ Runs \in 0..Len(bundles)
        /\ DOMAIN running # {} => Runs \in DOMAIN running
        /\ DOMAIN running = {} => Runs = 0
    BY <1>1, <2>2, RunsIsNewest DEF IInv, SyncInv
  <2>4. Runs' \in 0..Len(bundles') /\ \A b \in DOMAIN running' : b <= Runs'
    <3>1. DOMAIN running' \subseteq 1..Len(bundles')
      BY <1>1 DEF IInv, SyncInv
    <3>2. CASE DOMAIN running' = {}
      BY <2>2, <3>2 DEF Runs
    <3>3. CASE DOMAIN running' # {}
      <4>1. \E m \in DOMAIN running' : \A k \in DOMAIN running' : k <= m
        BY <2>2, <3>1, <3>3, GreatestNumber
      <4>2. Runs' \in DOMAIN running' /\ \A b \in DOMAIN running' : b <= Runs'
        BY <3>3, <4>1 DEF Runs
      <4> QED
        BY <2>2, <3>1, <4>2
    <3> QED
      BY <3>2, <3>3
  <2>5. CASE DOMAIN running = {}
    BY <2>2, <2>3, <2>4, <2>5
  <2>6. CASE DOMAIN running # {}
    <3>1. Runs <= Runs'
      BY <2>1, <2>3, <2>4, <2>6
    <3> QED
      BY <2>2, <2>3, <2>4, <3>1
  <2> QED
    BY <2>5, <2>6
<1> QED
  BY <1>1, Inductive, PTL DEF Spec, NeverOlderBundle
-----------------------------------------------------------------------------
(* HealthCheck.  Among fleet, groups and vessel: which rows count.           *)

\* A scope of a type is known by its key.
LEMMA OneVesselRow ==
  ASSUME NEW S \in SUBSET Scopes, VesselScope(Vessel) \notin S
  PROVE  ~ \E s \in S : s.type = "vessel" /\ s.key = Vessel
<1>1. \A s \in Scopes : s.type = "vessel" => s = VesselScope(s.key)
  BY DEF Scopes, ScopesOf, Fleet, GroupScope, VesselScope
<1> QED
  BY <1>1

\* With no row of the vessel's own, those of its groups count, if any.
LEMMA GroupsCount ==
  ASSUME NEW S \in SUBSET Scopes, NEW gs, VesselScope(Vessel) \notin S,
         NEW g \in S, g.type = "group", g.key \in gs
  PROVE  MostSpecific(S, Vessel, gs) = {s \in S : s.type = "group" /\ s.key \in gs}
<1> DEFINE Covering(t) == {s \in S : s.type = t /\ CoversVessel(s, Vessel, gs)}
<1>1. Covering("vessel") = {}
  BY OneVesselRow DEF CoversVessel
<1>2. Covering("group") = {s \in S : s.type = "group" /\ s.key \in gs}
  BY DEF CoversVessel
<1>3. Covering("group") # {}
  BY <1>2
<1> QED
  BY <1>1, <1>2, <1>3 DEF MostSpecific

\* Where a row covers the vessel, one that does counts.
LEMMA CoveringCounts ==
  ASSUME NEW S \in SUBSET Scopes, NEW gs
  PROVE  /\ MostSpecific(S, Vessel, gs) \subseteq {s \in S : CoversVessel(s, Vessel, gs)}
         /\ (\E s \in S : CoversVessel(s, Vessel, gs)) => MostSpecific(S, Vessel, gs) # {}
<1> DEFINE Covering(t) == {s \in S : s.type = t /\ CoversVessel(s, Vessel, gs)}
<1>1. \A s \in Scopes : s.type \in {"vessel", "group", "fleet"}
  BY DEF Scopes, ScopesOf, Fleet, GroupScope, VesselScope
<1>2. \/ MostSpecific(S, Vessel, gs) = Covering("vessel") /\ Covering("vessel") # {}
      \/ MostSpecific(S, Vessel, gs) = Covering("group") /\ Covering("group") # {}
      \/ /\ MostSpecific(S, Vessel, gs) = Covering("fleet")
         /\ Covering("vessel") = {} /\ Covering("group") = {}
  BY DEF MostSpecific
<1>3. MostSpecific(S, Vessel, gs) \subseteq {s \in S : CoversVessel(s, Vessel, gs)}
  BY <1>2
<1>4. ASSUME NEW s \in S, CoversVessel(s, Vessel, gs)
      PROVE  MostSpecific(S, Vessel, gs) # {}
  <2>1. s \in Covering(s.type) /\ s.type \in {"vessel", "group", "fleet"}
    BY <1>1, <1>4
  <2> QED
    BY <1>2, <2>1
<1> QED
  BY <1>3, <1>4

\* Ranks that do not go below zero have a least.
LEMMA LeastRank ==
  ASSUME NEW S, S # {}, NEW rank \in [S -> Nat]
  PROVE  \E s \in S : \A t \in S : rank[s] <= rank[t]
<1> DEFINE N == {rank[s] : s \in S}
<1>1. \E m \in N : \A k \in N : m <= k
  BY LeastNumber
<1> QED
  BY <1>1

\* Of several cadences one is the strictest: no other is stricter.
LEMMA StrictestCadence ==
  ASSUME NEW rules, rules # {}, \A c \in rules : c.maxGap \in Nat /\ c.minInterval \in Nat
  PROVE  \E c \in rules : \A d \in rules : ~StricterCadence(d, c)
<1>1. PICK a \in rules : \A d \in rules : a.maxGap <= d.maxGap
  <2> DEFINE rank == [c \in rules |-> c.maxGap]
  <2>1. rank \in [rules -> Nat]
    OBVIOUS
  <2>2. \A c \in rules : rank[c] = c.maxGap
    OBVIOUS
  <2> HIDE DEF rank
  <2> QED
    BY <2>1, <2>2, LeastRank
<1> DEFINE tied == {c \in rules : c.maxGap = a.maxGap}
<1>2. PICK b \in tied : \A d \in tied : b.minInterval <= d.minInterval
  <2> DEFINE rank == [c \in tied |-> c.minInterval]
  <2>1. rank \in [tied -> Nat]
    OBVIOUS
  <2>2. \A c \in tied : rank[c] = c.minInterval
    OBVIOUS
  <2>3. tied # {}
    OBVIOUS
  <2> HIDE DEF rank, tied
  <2>4. PICK b \in tied : \A d \in tied : rank[b] <= rank[d]
    BY <2>1, <2>3, LeastRank
  <2> QED
    BY <2>2, <2>4
<1>3. ASSUME NEW d \in rules PROVE ~StricterCadence(d, b)
  <2>1. ~(d.maxGap < b.maxGap)
    BY <1>1, <1>2
  <2>2. d.maxGap = b.maxGap => ~(d.minInterval < b.minInterval)
    BY <1>1, <1>2
  <2> QED
    BY <2>1, <2>2 DEF StricterCadence
<1> QED
  BY <1>2, <1>3

-----------------------------------------------------------------------------
(* What the strictest of several rows is.                                    *)

\* A cadence row is in hours above zero.
CadencesOK(t) ==
  DOMAIN t \subseteq Scopes /\ \A s \in DOMAIN t : t[s].maxGap \in Nat /\ t[s].minInterval \in Nat

\* EffectiveCadence.
LEMMA NoGroupIsStricter ==
  ASSUME NEW t, CadencesOK(t), VesselScope(Vessel) \notin DOMAIN t,
         NEW gs, NEW s \in GroupRows(t, gs)
  PROVE  ~StricterCadence(t[s], EffectiveCadence(t, Vessel, gs))
<1> DEFINE S == MostSpecific(DOMAIN t, Vessel, gs)
           rules == {t[x] : x \in S}
<1>1. s \in DOMAIN t /\ s.type = "group" /\ s.key \in gs
  BY DEF GroupRows
<1>2. S = {x \in DOMAIN t : x.type = "group" /\ x.key \in gs}
  BY <1>1, GroupsCount DEF CadencesOK
<1>3. t[s] \in rules /\ \A c \in rules : c.maxGap \in Nat /\ c.minInterval \in Nat
  BY <1>1, <1>2 DEF CadencesOK
<1>4. EffectiveCadence(t, Vessel, gs)
        = CHOOSE c \in rules : \A d \in rules : ~StricterCadence(d, c)
  BY <1>3 DEF EffectiveCadence
<1> HIDE DEF rules
<1>5. \E c \in rules : \A d \in rules : ~StricterCadence(d, c)
  BY <1>3, StrictestCadence
<1>6. \A d \in rules : ~StricterCadence(d, EffectiveCadence(t, Vessel, gs))
  BY <1>4, <1>5
<1> QED
  BY <1>3, <1>6

\* EffectiveSeverities.
LEMMA NoGroupIsMoreSevere ==
  ASSUME NEW t, DOMAIN t \subseteq Scopes, VesselScope(Vessel) \notin DOMAIN t,
         NEW gs, NEW s \in GroupRows(t, gs), NEW id \in DOMAIN t[s]
  PROVE  SeverityRank(EffectiveSeverities(t, Vessel, gs)[id]) <= SeverityRank(t[s][id])
<1> DEFINE rows == {x \in DOMAIN t : id \in DOMAIN t[x]}
           For == MostSpecific(rows, Vessel, gs)
           S == {t[x][id] : x \in For}
<1>1. s \in rows /\ s.type = "group" /\ s.key \in gs
  BY DEF GroupRows
<1>2. For = {x \in rows : x.type = "group" /\ x.key \in gs}
  BY <1>1, GroupsCount
<1>3. t[s][id] \in S /\ For # {}
  BY <1>1, <1>2
<1>4. EffectiveSeverities(t, Vessel, gs)[id] = CHOOSE x \in Least(S, SeverityRank) : TRUE
  BY <1>1, <1>3 DEF EffectiveSeverities
<1> DEFINE rank == [x \in S |-> SeverityRank(x)]
<1>5. rank \in [S -> Nat] /\ \A x \in S : rank[x] = SeverityRank(x)
  BY DEF SeverityRank
<1> HIDE DEF S, rank
<1>6. PICK x \in S : \A y \in S : rank[x] <= rank[y]
  BY <1>3, <1>5, LeastRank
<1>7. x \in Least(S, SeverityRank)
  BY <1>5, <1>6 DEF Least
<1>8. EffectiveSeverities(t, Vessel, gs)[id] \in Least(S, SeverityRank)
  BY <1>4, <1>7
<1> QED
  BY <1>3, <1>8 DEF Least

\* The rows of a table that say something about a field, and among them the
\* one that says what the vessel gets.
Ruling(t, f) == {s \in DOMAIN t : f \in RuledBy(t[s])}
\* How little a row asks of a field.
Laxity(row, f) == IF f \in DOMAIN row.policy THEN -StateRank(row.policy[f]) ELSE 1

\* The row a field is taken from is one of the most specific scope, and no
\* other row of that scope asks more of the field.
LEMMA WinnerIsStrictest ==
  ASSUME NEW t, DOMAIN t \subseteq Scopes, NEW order \in Orders, NEW gs, NEW f,
         \E s \in Ruling(t, f) : CoversVessel(s, Vessel, gs)
  PROVE  LET S == MostSpecific(Ruling(t, f), Vessel, gs)
             win == WinningRule(t, order, Vessel, gs, f) IN
         /\ win \in S /\ win \in Ruling(t, f) /\ CoversVessel(win, Vessel, gs)
         /\ \A s \in S : Laxity(t[win], f) <= Laxity(t[s], f)
<1> DEFINE S == MostSpecific(Ruling(t, f), Vessel, gs)
           win == WinningRule(t, order, Vessel, gs, f)
           laxity(s) == IF f \in DOMAIN t[s].policy THEN -StateRank(t[s].policy[f]) ELSE 1
           T == Least(S, laxity)
<1>1. Ruling(t, f) \subseteq Scopes
  BY DEF Ruling
<1>2. S # {} /\ S \subseteq {s \in Ruling(t, f) : CoversVessel(s, Vessel, gs)}
  BY <1>1, CoveringCounts
<1>3. win = First(T, order)
  BY DEF WinningRule, Ruling
<1>4. \A s \in S : laxity(s) \in -3..1 /\ laxity(s) = Laxity(t[s], f)
  <2>1. \A st : StateRank(st) \in 0..3
    BY DEF StateRank
  <2>2. \A s : StateRank(t[s].policy[f]) \in 0..3
    BY <2>1
  <2>3. \A s : -StateRank(t[s].policy[f]) \in -3..1
    BY <2>2
  <2> QED
    BY <2>3 DEF Laxity
<1> DEFINE rank == [s \in S |-> laxity(s) + 3]
<1>5. rank \in [S -> Nat] /\ \A s \in S : rank[s] = laxity(s) + 3
  BY <1>4
<1>6. PICK s \in S : \A r \in S : rank[s] <= rank[r]
  <2> HIDE DEF S, rank
  <2> QED
    BY <1>2, <1>5, LeastRank
<1>7. T = {a \in S : \A b \in S : laxity(a) <= laxity(b)}
  BY DEF Least
<1>8. \A r \in S : laxity(s) <= laxity(r)
  BY <1>4, <1>5, <1>6
<1>9. T # {} /\ T \subseteq S /\ T \subseteq Scopes
  BY <1>1, <1>2, <1>7, <1>8
<1> HIDE DEF T
<1>10. win \in T
  BY <1>3, <1>9, FirstIsOne
<1> QED
  BY <1>2, <1>4, <1>7, <1>10, <1>9

\* EffectiveFieldPolicy gives a field what the winning row says, and all of it.
LEMMA WinnerIsTaken ==
  ASSUME NEW t, NEW order, NEW gs, NEW f
  PROVE  LET eff == EffectiveFieldPolicy(t, order, Vessel, gs)
             covered == \E s \in Ruling(t, f) : CoversVessel(s, Vessel, gs)
             row == t[WinningRule(t, order, Vessel, gs, f)] IN
         /\ f \in DOMAIN eff.policy <=> covered /\ f \in DOMAIN row.policy
         /\ f \in DOMAIN eff.policy => eff.policy[f] = row.policy[f]
         /\ f \in DOMAIN eff.events <=> covered /\ f \in DOMAIN row.events
         /\ f \in DOMAIN eff.events => eff.events[f] = row.events[f]
<1> DEFINE covering == {s \in DOMAIN t : CoversVessel(s, Vessel, gs)}
           ruled == UNION {RuledBy(t[s]) : s \in covering}
           Win(g) == t[WinningRule(t, order, Vessel, gs, g)]
           P == [g \in {h \in ruled : h \in DOMAIN Win(h).policy} |-> Win(g).policy[g]]
           E == [g \in {h \in ruled : h \in DOMAIN Win(h).events} |-> Win(g).events[g]]
           eff == EffectiveFieldPolicy(t, order, Vessel, gs)
<1>1. f \in ruled <=> \E s \in Ruling(t, f) : CoversVessel(s, Vessel, gs)
  BY DEF Ruling
<1>2. eff.policy = P /\ eff.events = E
  BY DEF EffectiveFieldPolicy
<1>3. /\ f \in DOMAIN P <=> f \in ruled /\ f \in DOMAIN Win(f).policy
      /\ f \in DOMAIN P => P[f] = Win(f).policy[f]
      /\ f \in DOMAIN E <=> f \in ruled /\ f \in DOMAIN Win(f).events
      /\ f \in DOMAIN E => E[f] = Win(f).events[f]
  OBVIOUS
<1> HIDE DEF ruled, P, E
<1> QED
  BY <1>1, <1>2, <1>3

\* So no group asks more of a field than the vessel is asked.
LEMMA NoGroupAsksMore ==
  ASSUME NEW t, DOMAIN t \subseteq Scopes, VesselScope(Vessel) \notin DOMAIN t,
         NEW order \in Orders, NEW gs, NEW s \in GroupRows(t, gs),
         NEW f \in DOMAIN t[s].policy
  PROVE  LET eff == EffectiveFieldPolicy(t, order, Vessel, gs).policy IN
         f \in DOMAIN eff /\ StateRank(eff[f]) >= StateRank(t[s].policy[f])
<1> DEFINE S == MostSpecific(Ruling(t, f), Vessel, gs)
           win == WinningRule(t, order, Vessel, gs, f)
           eff == EffectiveFieldPolicy(t, order, Vessel, gs).policy
<1>1. s \in Ruling(t, f) /\ s.type = "group" /\ s.key \in gs /\ CoversVessel(s, Vessel, gs)
  BY DEF GroupRows, Ruling, RuledBy, CoversVessel
<1>2. Ruling(t, f) \subseteq Scopes /\ VesselScope(Vessel) \notin Ruling(t, f)
  BY DEF Ruling
<1>3. s \in S
  BY <1>1, <1>2, GroupsCount
<1>4. Laxity(t[win], f) <= Laxity(t[s], f)
  BY <1>1, <1>3, WinnerIsStrictest
<1>5. \A st : StateRank(st) \in 0..3
  BY DEF StateRank
<1>6. Laxity(t[s], f) = -StateRank(t[s].policy[f])
  BY DEF Laxity
<1>7. /\ f \in DOMAIN t[win].policy
      /\ StateRank(t[win].policy[f]) >= StateRank(t[s].policy[f])
  <2>1. StateRank(t[s].policy[f]) \in 0..3 /\ StateRank(t[win].policy[f]) \in 0..3
    BY <1>5
  <2>2. CASE f \notin DOMAIN t[win].policy
    BY <1>4, <1>6, <2>1, <2>2 DEF Laxity
  <2>3. CASE f \in DOMAIN t[win].policy
    BY <1>4, <1>6, <2>1, <2>3 DEF Laxity
  <2> QED
    BY <2>2, <2>3
<1>8. f \in DOMAIN eff /\ eff[f] = t[win].policy[f]
  BY <1>1, <1>7, WinnerIsTaken
<1> QED
  BY <1>7, <1>8

\* And what it is asked is one row's.
LEMMA RuleIsOneRows ==
  ASSUME NEW t, DOMAIN t \subseteq Scopes, NEW order \in Orders, NEW gs,
         NEW f \in RuledBy(EffectiveFieldPolicy(t, order, Vessel, gs))
  PROVE  LET eff == EffectiveFieldPolicy(t, order, Vessel, gs)
             Same(x, y) == /\ f \in DOMAIN x <=> f \in DOMAIN y
                           /\ f \in DOMAIN x => x[f] = y[f] IN
         \E s \in DOMAIN t :
           /\ CoversVessel(s, Vessel, gs)
           /\ Same(eff.policy, t[s].policy)
           /\ Same(eff.events, t[s].events)
<1> DEFINE eff == EffectiveFieldPolicy(t, order, Vessel, gs)
           win == WinningRule(t, order, Vessel, gs, f)
<1>1. \E s \in Ruling(t, f) : CoversVessel(s, Vessel, gs)
  BY WinnerIsTaken DEF RuledBy
<1>2. win \in DOMAIN t /\ CoversVessel(win, Vessel, gs)
  BY <1>1, WinnerIsStrictest DEF Ruling
<1>3. /\ f \in DOMAIN eff.policy <=> f \in DOMAIN t[win].policy
      /\ f \in DOMAIN eff.policy => eff.policy[f] = t[win].policy[f]
      /\ f \in DOMAIN eff.events <=> f \in DOMAIN t[win].events
      /\ f \in DOMAIN eff.events => eff.events[f] = t[win].events[f]
  BY <1>1, WinnerIsTaken
<1> HIDE DEF eff, win
<1> QED
  BY <1>2, <1>3 DEF eff

-----------------------------------------------------------------------------
(* The office's tables in HealthCheck.                                       *)

TablesInv ==
  /\ DOMAIN policies \subseteq Scopes \X (1..Len(schemas))
  /\ CadencesOK(cadence)
  /\ DOMAIN severities \subseteq Scopes

\* The rows of the newest version are for the fleet, a group or a vessel.
LEMMA LiveIsScoped == TablesInv => DOMAIN Live \subseteq Scopes
<1> SUFFICES ASSUME TablesInv, NEW s \in DOMAIN Live PROVE s \in Scopes
  OBVIOUS
<1>1. PICK k \in DOMAIN policies : s = k[1]
  BY DEF Live, PolicyRows
<1> QED
  BY <1>1 DEF TablesInv

\* StrictestGroupWins: the profiles are a union, and the cadence, the severity
\* and the field state are each a minimum over the rows of the groups.
LEMMA StrictestWins == TablesInv => StrictestGroupWins
<1> SUFFICES ASSUME TablesInv, NEW gs \in SUBSET Tags
             PROVE
    /\ NoVesselRow(cadence) => \A s \in GroupRows(cadence, gs) :
         ~StricterCadence(cadence[s], EffectiveCadence(cadence, Vessel, gs))
    /\ NoVesselRow(severities) =>
         \A s \in GroupRows(severities, gs) : \A id \in DOMAIN severities[s] :
           SeverityRank(EffectiveSeverities(severities, Vessel, gs)[id])
             <= SeverityRank(severities[s][id])
    /\ NoVesselRow(Live) => \A order \in Orders :
         LET eff == EffectiveFieldPolicy(Live, order, Vessel, gs).policy IN
         \A s \in GroupRows(Live, gs) : \A f \in DOMAIN Live[s].policy :
           f \in DOMAIN eff /\ StateRank(eff[f]) >= StateRank(Live[s].policy[f])
    /\ \A s \in GroupRows(profiles, gs) :
         profiles[s] \subseteq EffectiveProfiles(profiles, Vessel, gs)
  BY DEF StrictestGroupWins
<1>1. NoVesselRow(cadence) => \A s \in GroupRows(cadence, gs) :
         ~StricterCadence(cadence[s], EffectiveCadence(cadence, Vessel, gs))
  BY NoGroupIsStricter DEF TablesInv, NoVesselRow
<1>2. NoVesselRow(severities) =>
         \A s \in GroupRows(severities, gs) : \A id \in DOMAIN severities[s] :
           SeverityRank(EffectiveSeverities(severities, Vessel, gs)[id])
             <= SeverityRank(severities[s][id])
  BY NoGroupIsMoreSevere DEF TablesInv, NoVesselRow
<1>3. ASSUME NoVesselRow(Live), NEW order \in Orders,
             NEW s \in GroupRows(Live, gs), NEW f \in DOMAIN Live[s].policy
      PROVE  LET eff == EffectiveFieldPolicy(Live, order, Vessel, gs).policy IN
             f \in DOMAIN eff /\ StateRank(eff[f]) >= StateRank(Live[s].policy[f])
  BY <1>3, LiveIsScoped, NoGroupAsksMore DEF NoVesselRow
<1>4. \A s \in GroupRows(profiles, gs) :
         profiles[s] \subseteq EffectiveProfiles(profiles, Vessel, gs)
  BY DEF GroupRows, EffectiveProfiles, CoversVessel
<1> QED
  BY <1>1, <1>2, <1>3, <1>4

\* RuleIsWhole: both tables of the effective policy read the same winning row.
LEMMA RulesAreWhole == TablesInv => RuleIsWhole
<1> SUFFICES ASSUME TablesInv PROVE RuleIsWhole
  OBVIOUS
<1>1. DOMAIN Live \subseteq Scopes
  BY LiveIsScoped
<1> QED
  BY <1>1, RuleIsOneRows DEF RuleIsWhole

\* The requests of the office keep the tables so.
LEMMA TablesStep ==
  ASSUME TablesInv, OfficeInv, Configure \/ UNCHANGED office
  PROVE  TablesInv'
<1> USE DEF registry
<1>1. ASSUME UNCHANGED <<schemas, policies>>, CadencesOK(cadence'), DOMAIN severities' \subseteq Scopes
      PROVE  TablesInv'
  BY <1>1 DEF TablesInv, CadencesOK
<1>2. ASSUME UNCHANGED <<schemas, policies, cadence, severities>> PROVE TablesInv'
  BY <1>1, <1>2 DEF TablesInv
<1>3. CASE BeginSaveFieldPolicy
  BY <1>2, <1>3 DEF BeginSaveFieldPolicy, compliance
<1>4. ASSUME NEW r \in PolicyRequests, SaveFieldPolicy(r[1], r[2]) PROVE TablesInv'
  <2> DEFINE k == <<r[1], saving>>
  <2>1. /\ DOMAIN policies' = DOMAIN policies \cup {k}
        /\ UNCHANGED <<schemas, cadence, severities>>
    BY <1>4 DEF SaveFieldPolicy, UpsertPolicy, Upsert, compliance
  <2>2. k \in Scopes \X (1..Len(schemas))
    BY <1>4, RequestsAssumption DEF SaveFieldPolicy, InScopes, OfficeInv
  <2> HIDE DEF k
  <2> QED
    BY <2>1, <2>2 DEF TablesInv, CadencesOK
<1>5. ASSUME NEW r \in ProfileSets, SaveProfileAssignment(r[1], r[2]) PROVE TablesInv'
  BY <1>2, <1>5 DEF SaveProfileAssignment
<1>6. ASSUME NEW r \in CadenceRules, SaveCadenceRule(r[1], r[2]) PROVE TablesInv'
  <2>1. /\ cadence' = Upsert(cadence, r[1], r[2])
        /\ UNCHANGED <<schemas, policies, severities>>
        /\ r[2].minInterval > 0 /\ r[2].maxGap > 0
    BY <1>6 DEF SaveCadenceRule, UpsertCadence
  <2>2. r[1] \in Scopes /\ r[2].minInterval \in Nat /\ r[2].maxGap \in Nat
    BY <2>1, RequestsAssumption, CadenceAssumption DEF InScopes
  <2>3. CadencesOK(cadence')
    BY <2>1, <2>2 DEF TablesInv, CadencesOK, Upsert
  <2> QED
    BY <1>1, <2>1, <2>3 DEF TablesInv
<1>7. ASSUME NEW r \in SeverityRows, SaveRuleSeverities(r[1], r[2]) PROVE TablesInv'
  <2>1. /\ DOMAIN severities' = DOMAIN severities \cup {r[1]}
        /\ UNCHANGED <<schemas, policies, cadence>>
    BY <1>7 DEF SaveRuleSeverities, UpsertSeverities, Upsert
  <2>2. r[1] \in Scopes
    BY RequestsAssumption DEF InScopes
  <2> QED
    BY <1>1, <2>1, <2>2 DEF TablesInv, CadencesOK
<1>8. ASSUME NEW v, NEW x, UpdateGroups(v, x) \/ RenameVesselGroup(v, x) \/ DeleteVesselGroup(v)
      PROVE  TablesInv'
  BY <1>2, <1>8 DEF UpdateGroups, RenameVesselGroup, DeleteVesselGroup, compliance
<1>9. CASE UNCHANGED office
  BY <1>2, <1>9 DEF office, compliance
<1> QED
  BY <1>3, <1>4, <1>5, <1>6, <1>7, <1>8, <1>9 DEF Configure

-----------------------------------------------------------------------------
(* The reports in HealthCheck.                                               *)

\* A version that lacks none of the fields the vessel's schema makes mandatory.
Filled(data) == \A f \in BuiltIn.mandatory : ~IsEmpty(data, f)

\* A report that a health check would let pass now.
Passes(r) ==
  \E chain \in CheckChains(r, ChainOf(committed)) : ~HasErrors(EvaluateReport(r, chain))

CommittedInv ==
  /\ DOMAIN committed \subseteq ReportIDs /\ IsFiniteSet(DOMAIN committed)
  /\ \A id \in DOMAIN committed : committed[id] \in Entries /\ Filled(committed[id])

Draft(d) ==
  /\ d = [data |-> d.data, state |-> d.state, fresh |-> d.fresh]
  /\ d.data \in Entries
  /\ d.state = "ready" => Filled(d.data)
DraftsInv ==
  /\ DOMAIN draft \subseteq ReportIDs
  /\ \A id \in DOMAIN draft :
       /\ Draft(draft[id])
       /\ draft[id].state = "ready" /\ draft[id].fresh => Passes(ReportOf(id, draft[id].data))

\* EvaluateFieldRules: a mandatory field that is empty is an error, whatever
\* the policy and the events say.
LEMMA EmptyMandatoryIsError ==
  ASSUME NEW r, NEW policy, NEW events, NEW f \in BuiltIn.mandatory, IsEmpty(r, f)
  PROVE  Finding("field.required", f, "error") \in EvaluateFieldRules(r, BuiltIn, policy, events)
<1>1. StateOf(r, BuiltIn, policy, events, f) = "schemaMandatory"
  BY DEF StateOf, StateForEvent, StateFor
<1>2. f \in {g \in BuiltIn.fields : StateOf(r, BuiltIn, policy, events, g) # "hidden"}
  BY <1>1, BuiltInAssumption
<1> DEFINE Required(g) ==
        CASE StateOf(r, BuiltIn, policy, events, g)
               \in {"schemaMandatory", "companyMandatory"} ->
               {Finding("field.required", g, "error")}
          [] StateOf(r, BuiltIn, policy, events, g) = "recommended" ->
               {Finding("field.required", g, "warning")}
          [] OTHER -> {}
<1>3. Required(f) = {Finding("field.required", f, "error")}
  BY <1>1
<1> HIDE DEF Required
<1>4. EvaluateFieldRules(r, BuiltIn, policy, events)
        = UNION {IF IsEmpty(r, g) THEN Required(g) ELSE CheckFieldFormat(r, BuiltIn, g) :
                   g \in {h \in BuiltIn.fields :
                            StateOf(r, BuiltIn, policy, events, h) # "hidden"}}
  BY DEF EvaluateFieldRules, Required
<1> QED
  BY <1>2, <1>3, <1>4

\* So a report that passes has them.
LEMMA PassingIsFilled ==
  ASSUME NEW r, NEW chain, ~HasErrors(EvaluateReport(r, chain))
  PROVE  \A f \in BuiltIn.mandatory : ~IsEmpty(r, f)
<1> SUFFICES ASSUME NEW f \in BuiltIn.mandatory, IsEmpty(r, f) PROVE FALSE
  OBVIOUS
<1>1. Finding("field.required", f, "error") \in EvaluateReport(r, chain)
  BY EmptyMandatoryIsError DEF EvaluateReport
<1>2. Finding("field.required", f, "error").severity = "error"
  BY DEF Finding
<1> QED
  BY <1>1, <1>2 DEF HasErrors

\* A report says what its data says.
LEMMA ReportHasData ==
  ASSUME NEW id, NEW data
  PROVE  /\ ReportOf(id, data).id = id /\ ReportOf(id, data).time = data.time
         /\ ReportOf(id, data).num = data.num
         /\ \A f : IsEmpty(ReportOf(id, data), f) <=> IsEmpty(data, f)
BY DEF ReportOf, IsEmpty

\* A check is as good as the chain and the bundle it was made with.
LEMMA PassesOn ==
  ASSUME UNCHANGED <<document, committed>>, NEW r, Passes(r)
  PROVE  Passes(r)'
BY DEF Passes, ChainOf, EvaluateReport, ValidationConfig

\* SchemaMandatoryHolds: every committed version has passed a check, whose
\* field rules begin with the built-in schema, whatever the bundle adds.
LEMMA MandatoryHolds == CommittedInv => SchemaMandatoryHolds
<1> SUFFICES ASSUME CommittedInv, NEW r \in ChainOf(committed)
             PROVE  /\ \A f \in BuiltIn.mandatory : ~IsEmpty(r, f)
                    /\ LET missing == EvaluateRegulatoryReadiness(r, BuiltIn,
                             document.profiles, document.policy, document.events)
                       IN \A p \in DOMAIN missing : missing[p] \cap BuiltIn.mandatory = {}
  BY DEF SchemaMandatoryHolds
<1>1. PICK id \in DOMAIN committed : r = ReportOf(id, committed[id])
  BY DEF ChainOf
<1>2. \A f \in BuiltIn.mandatory : ~IsEmpty(r, f)
  BY <1>1, ReportHasData DEF CommittedInv, Filled
<1> DEFINE missing == EvaluateRegulatoryReadiness(r, BuiltIn, document.profiles,
                        document.policy, document.events)
<1>3. \A p \in DOMAIN missing : \A f \in missing[p] : IsEmpty(r, f)
  BY DEF EvaluateRegulatoryReadiness
<1> QED
  BY <1>2, <1>3

\* Requests of an officer, and a bundle that comes aboard.
LEMMA ReportsStep ==
  ASSUME CommittedInv, DraftsInv, [CheckNext]_checkVars
  PROVE  CommittedInv' /\ DraftsInv'
<1>1. ASSUME UNCHANGED <<document, committed>>, DOMAIN draft' \subseteq ReportIDs,
             \A id \in DOMAIN draft' :
               \/ id \in DOMAIN draft /\ draft'[id] = draft[id]
               \/ /\ Draft(draft'[id])
                  /\ draft'[id].state = "ready" => Passes(ReportOf(id, draft'[id].data))
      PROVE  CommittedInv' /\ DraftsInv'
  <2>1. CommittedInv'
    BY <1>1 DEF CommittedInv
  <2>2. ASSUME NEW id \in DOMAIN draft'
        PROVE  /\ Draft(draft'[id])
               /\ draft'[id].state = "ready" /\ draft'[id].fresh
                    => Passes(ReportOf(id, draft'[id].data))
    BY <1>1, <2>2 DEF DraftsInv
  <2>3. ASSUME NEW id, NEW data, Passes(ReportOf(id, data)) PROVE Passes(ReportOf(id, data))'
    BY <1>1, <2>3, PassesOn
  <2>4. \A id, data : Passes(ReportOf(id, data)) => Passes(ReportOf(id, data))'
    BY <2>3
  <2>5. DraftsInv'
    BY <1>1, <2>2, <2>4 DEF DraftsInv
  <2> QED
    BY <2>1, <2>5
\* Where a chain or a bundle is new nothing is fresh.
<1>2. ASSUME CommittedInv', NEW old, DOMAIN old \subseteq DOMAIN draft,
             \A id \in DOMAIN old : old[id] = draft[id],
             draft' = Stale(old)
      PROVE  CommittedInv' /\ DraftsInv'
  <2>1. DOMAIN draft' = DOMAIN old
    BY <1>2 DEF Stale
  <2>2. ASSUME NEW id \in DOMAIN draft' PROVE Draft(draft'[id]) /\ ~draft'[id].fresh
    <3>1. draft'[id] = [draft[id] EXCEPT !.fresh = FALSE]
      BY <1>2, <2>1, <2>2 DEF Stale
    <3>2. Draft(draft[id])
      BY <1>2, <2>1, <2>2 DEF DraftsInv
    <3>3. PICK no : no = FALSE
      OBVIOUS
    <3>4. draft'[id] = [data |-> draft[id].data, state |-> draft[id].state, fresh |-> no]
      <4> DEFINE d == draft[id]
      <4>1. d = [data |-> d.data, state |-> d.state, fresh |-> d.fresh]
        BY <3>2 DEF Draft
      <4>2. draft'[id] = [d EXCEPT !.fresh = no]
        BY <3>1, <3>3
      <4> HIDE DEF d
      <4> QED
        BY <4>1, <4>2 DEF d
    <3> QED
      BY <3>2, <3>3, <3>4 DEF Draft
  <2> QED
    BY <1>2, <2>1, <2>2 DEF DraftsInv
<1>3. CASE Configure /\ UNCHANGED aboard
  BY <1>1, <1>3 DEF aboard, DraftsInv
<1>4. CASE UNCHANGED checkVars
  BY <1>1, <1>4 DEF checkVars, aboard, DraftsInv
<1>5. ASSUME NEW id \in ReportIDs, NEW data \in Entries, SaveSection(id, data)
      PROVE  CommittedInv' /\ DraftsInv'
  <2> DEFINE d == [data |-> data, state |-> "draft", fresh |-> FALSE]
  <2>1. draft' = Upsert(draft, id, d) /\ UNCHANGED <<document, committed>>
    BY <1>5 DEF SaveSection
  <2>2. Draft(d) /\ d.state # "ready"
    BY DEF Draft
  <2> HIDE DEF d
  <2> QED
    BY <1>1, <2>1, <2>2 DEF Upsert, DraftsInv
<1>6. ASSUME NEW id \in ReportIDs, StartCorrection(id)
      PROVE  CommittedInv' /\ DraftsInv'
  <2> DEFINE d == [data |-> committed[id], state |-> "draft", fresh |-> FALSE]
  <2>1. /\ draft' = Upsert(draft, id, d) /\ UNCHANGED <<document, committed>>
        /\ id \in DOMAIN committed
    BY <1>6 DEF StartCorrection
  <2>2. Draft(d) /\ d.state # "ready"
    BY <2>1 DEF Draft, CommittedInv
  <2> HIDE DEF d
  <2> QED
    BY <1>1, <2>1, <2>2 DEF Upsert, DraftsInv
<1>7. ASSUME NEW id \in ReportIDs, CheckReport(id)
      PROVE  CommittedInv' /\ DraftsInv'
  <2> DEFINE data == draft[id].data
             r == ReportOf(id, data)
             failed == [data |-> data, state |-> "draft", fresh |-> FALSE]
             passed == [data |-> data, state |-> "ready", fresh |-> TRUE]
  <2>1. PICK chain \in CheckChains(r, ChainOf(committed)) :
          draft' = [draft EXCEPT ![id] =
                      IF HasErrors(EvaluateReport(r, chain)) THEN failed ELSE passed]
    BY <1>7 DEF CheckReport
  <2>2. id \in DOMAIN draft /\ UNCHANGED <<document, committed>>
    BY <1>7 DEF CheckReport
  <2>3. data \in Entries
    BY <2>2 DEF DraftsInv, Draft
  <2>4. Draft(failed) /\ failed.state # "ready"
    BY <2>3 DEF Draft
  <2>5. ASSUME ~HasErrors(EvaluateReport(r, chain))
        PROVE  Draft(passed) /\ passed.data = data /\ Passes(r)
    <3>1. Filled(data)
      BY <2>5, PassingIsFilled, ReportHasData DEF Filled
    <3> QED
      BY <2>3, <2>5, <3>1 DEF Draft, Passes
  <2>6. \/ draft'[id] = failed
        \/ draft'[id] = passed /\ Draft(passed) /\ passed.data = data /\ Passes(r)
    BY <2>1, <2>2, <2>5
  <2>7. draft'[id].state = "ready" => Passes(ReportOf(id, draft'[id].data))
    BY <2>4, <2>6
  <2>8. Draft(draft'[id])
    BY <2>4, <2>6
  <2>9. DOMAIN draft' = DOMAIN draft /\ \A x \in DOMAIN draft : x # id => draft'[x] = draft[x]
    BY <2>1
  <2> QED
    BY <1>1, <2>2, <2>7, <2>8, <2>9 DEF DraftsInv
<1>8. ASSUME NEW id \in ReportIDs, SubmitReport(id)
      PROVE  CommittedInv' /\ DraftsInv'
  <2> DEFINE old == Restrict(draft, DOMAIN draft \ {id})
  <2>1. /\ id \in DOMAIN draft /\ draft[id].state = "ready"
        /\ committed' = Upsert(committed, id, draft[id].data)
        /\ draft' = Stale(old)
    BY <1>8 DEF SubmitReport
  <2>2. draft[id].data \in Entries /\ Filled(draft[id].data)
    BY <2>1 DEF DraftsInv, Draft
  <2>3. DOMAIN committed' = DOMAIN committed \cup {id}
    BY <2>1 DEF Upsert
  <2>4. IsFiniteSet(DOMAIN committed')
    BY <2>3, FS_AddElement DEF CommittedInv
  <2>5. \A x \in DOMAIN committed' : committed'[x] \in Entries /\ Filled(committed'[x])
    BY <2>1, <2>2 DEF Upsert, CommittedInv
  <2>6. CommittedInv'
    BY <2>3, <2>4, <2>5 DEF CommittedInv, Filled
  <2>7. DOMAIN old \subseteq DOMAIN draft /\ \A x \in DOMAIN old : old[x] = draft[x]
    BY DEF Restrict
  <2> HIDE DEF old
  <2> QED
    BY <1>2, <2>1, <2>6, <2>7
<1>9. ASSUME NEW order \in Orders, ApplyConfig(order)
      PROVE  CommittedInv' /\ DraftsInv'
  <2>1. draft' = Stale(draft) /\ committed' = committed
    BY <1>9 DEF ApplyConfig
  <2>2. CommittedInv'
    BY <2>1 DEF CommittedInv, Filled
  <2> QED
    BY <1>2, <2>1, <2>2
<1> QED
  BY <1>3, <1>4, <1>5, <1>6, <1>7, <1>8, <1>9 DEF CheckNext

-----------------------------------------------------------------------------
(* Chains: finitely many reports by event time.                              *)

\* Reports that can be sorted.
Sortable(S) == IsFiniteSet(S) /\ \A r \in S : r.time \in Int
\* No two with one id.
OneEach(S) == \A o, p \in S : o.id = p.id => o = p

\* A chain has each report of its set at one place.
LEMMA ChainLists ==
  ASSUME NEW S, Sortable(S), NEW q \in Chains(S)
  PROVE  LET n == Cardinality(S) IN
         /\ n \in Nat /\ DOMAIN q = 1..n
         /\ \A i \in 1..n : q[i] \in S
         /\ \A i, j \in 1..n : q[i] = q[j] => i = j
         /\ \A r \in S : \E i \in 1..n : q[i] = r
         /\ \A i, j \in 1..n : i < j => q[i].time <= q[j].time
<1> DEFINE n == Cardinality(S)
<1>1. n \in Nat
  BY FS_CardinalityType DEF Sortable
<1>2. /\ q \in [1..n -> S] /\ \A i, j \in 1..n : i # j => q[i] # q[j]
      /\ \A i, j \in 1..n : i < j => q[i].time <= q[j].time
  BY DEF Chains, SetToSeqs
<1> HIDE DEF n
<1>3. q \in Injection(1..n, S)
  BY <1>2 DEF Injection, IsInjective
<1>4. IsFiniteSet(1..n) /\ Cardinality(1..n) = n
  BY <1>1, FS_Interval
<1>5. q \in Surjection(1..n, S)
  BY <1>3, <1>4, FS_Injection DEF n, Sortable
<1> QED
  BY <1>1, <1>2, <1>5 DEF Surjection, n

\* No two reports up to the time T share their minute.
NoTie(S, T) == \A o, p \in S : o.time <= T /\ o.time = p.time => o = p

\* Two chains that agree so far agree on the next report, if it is of that time.
LEMMA NextAgrees ==
  ASSUME NEW S, Sortable(S), NEW T \in Int, NoTie(S, T),
         NEW p \in Chains(S), NEW q \in Chains(S), NEW m \in 1..Cardinality(S),
         \A k \in 1..Cardinality(S) :
           k < m /\ (p[k].time <= T \/ q[k].time <= T) => p[k] = q[k],
         p[m].time <= T
  PROVE  p[m] = q[m]
<1> DEFINE n == Cardinality(S)
<1>1. /\ \A i \in 1..n : p[i] \in S /\ p[i].time \in Int /\ q[i] \in S /\ q[i].time \in Int
      /\ \A i, j \in 1..n : p[i] = p[j] \/ q[i] = q[j] => i = j
      /\ \A i, j \in 1..n : i < j => p[i].time <= p[j].time /\ q[i].time <= q[j].time
  BY ChainLists DEF Sortable
<1>10. \A x \in S : (\E j \in 1..n : p[j] = x) /\ (\E j \in 1..n : q[j] = x)
  BY ChainLists
<1>2. PICK j \in 1..n : q[j] = p[m]
  BY <1>1, <1>10
<1>3. PICK k \in 1..n : p[k] = q[m]
  BY <1>1, <1>10
<1>9. n \in Nat
  BY ChainLists
<1> HIDE DEF n
<1>4. ~(j < m)
  <2>1. SUFFICES ASSUME j < m PROVE FALSE
    OBVIOUS
  <2>2. p[j] = q[j]
    BY <1>2, <2>1 DEF n
  <2> QED
    BY <1>1, <1>2, <2>1, <2>2 DEF n
<1>5. q[m].time <= p[m].time
  <2>1. CASE j = m
    BY <1>1, <1>2, <2>1 DEF n
  <2>2. CASE m < j
    BY <1>1, <1>2, <2>2 DEF n
  <2> QED
    BY <1>4, <1>9, <2>1, <2>2 DEF n
<1>6. ~(k < m)
  <2>1. SUFFICES ASSUME k < m PROVE FALSE
    OBVIOUS
  <2>2. p[k].time <= T
    BY <1>1, <1>3, <1>5 DEF n
  <2>3. p[k] = q[k]
    BY <2>1, <2>2 DEF n
  <2>4. k = m
    BY <1>1, <1>3, <2>3 DEF n
  <2> QED
    BY <1>9, <2>1, <2>4
<1>7. p[m].time <= q[m].time
  <2>1. CASE k = m
    BY <1>1, <1>3, <2>1 DEF n
  <2>2. CASE m < k
    BY <1>1, <1>3, <2>2 DEF n
  <2> QED
    BY <1>6, <1>9, <2>1, <2>2 DEF n
<1>8. p[m] \in S /\ q[m] \in S /\ p[m].time = q[m].time
  BY <1>1, <1>5, <1>7 DEF n
<1> QED
  BY <1>8 DEF NoTie

\* So the chain is open only after the first tie.
LEMMA ChainsAgree ==
  ASSUME NEW S, Sortable(S), NEW T \in Int, NoTie(S, T),
         NEW p \in Chains(S), NEW q \in Chains(S), NEW i \in 1..Cardinality(S),
         p[i].time <= T \/ q[i].time <= T
  PROVE  p[i] = q[i]
<1> DEFINE n == Cardinality(S)
           bad == {k \in 1..n : (p[k].time <= T \/ q[k].time <= T) /\ p[k] # q[k]}
<1>1. SUFFICES ASSUME bad # {} PROVE FALSE
  OBVIOUS
<1>2. n \in Nat
  BY ChainLists
<1>3. bad \in SUBSET Nat
  BY <1>2
<1>4. PICK m \in bad : \A k \in bad : m <= k
  BY <1>1, <1>3, LeastNumber
<1>5. m \in 1..n /\ \A k \in 1..n : k < m => k \notin bad
  BY <1>2, <1>4
<1>6. \A k \in 1..n : k < m /\ (p[k].time <= T \/ q[k].time <= T) => p[k] = q[k]
  BY <1>5
<1>7. p[m] # q[m] /\ (p[m].time <= T \/ q[m].time <= T)
  OBVIOUS
<1>8. CASE p[m].time <= T
  BY <1>5, <1>6, <1>7, <1>8, NextAgrees
<1>9. CASE q[m].time <= T
  <2>1. \A k \in 1..n : k < m /\ (q[k].time <= T \/ p[k].time <= T) => q[k] = p[k]
    BY <1>6
  <2>2. q[m] = p[m]
    BY <1>5, <1>9, <2>1, NextAgrees
  <2> QED
    BY <1>7, <2>2
<1> QED
  BY <1>7, <1>8, <1>9

-----------------------------------------------------------------------------
(* A report's findings depend on the chain up to it.                         *)

\* A report is found at its place.
LEMMA PositionIsPlace ==
  ASSUME NEW S, Sortable(S), OneEach(S), NEW q \in Chains(S),
         NEW i \in 1..Cardinality(S)
  PROVE  /\ Position(q[i].id, q) = i
         /\ \A j \in 1..Cardinality(S) : q[j].id = q[i].id => j = i
<1>1. \A j \in 1..Cardinality(S) : q[j].id = q[i].id => j = i
  BY ChainLists DEF OneEach
<1> QED
  BY <1>1, ChainLists DEF Position

\* The report at place j comes a second time in its stage of the group g.
Same(q, g, i, j) == \E n \in 1..2 : {q[i].event, q[j].event} \subseteq g[n]
Staged(q, g, i) == q[i].event \in g[1] \cup g[2]
Repeats(q, g, j) ==
  \E i \in 1..(j - 1) : Same(q, g, i, j) /\ \A k \in (i + 1)..(j - 1) : ~Staged(q, g, k)

\* The i-th report of a chain is out of order if it repeats the stage of an
\* earlier one in the same group with none between.
LEMMA OutOfOrderAt ==
  ASSUME NEW S, Sortable(S), OneEach(S), NEW q \in Chains(S),
         NEW i \in 1..Cardinality(S), NEW cfg
  PROVE  q[i].id \in OutOfOrder(q, cfg) <=> \E g \in cfg.groups : Repeats(q, g, i)
<1>1. OutOfOrder(q, cfg) = {q[j].id : j \in {k \in DOMAIN q : \E g \in cfg.groups : Repeats(q, g, k)}}
  BY DEF OutOfOrder, Repeats, Same, Staged
<1>2. DOMAIN q = 1..Cardinality(S)
  BY ChainLists
<1>3. \A j \in 1..Cardinality(S) : q[j].id = q[i].id => j = i
  BY PositionIsPlace
<1> QED
  BY <1>1, <1>2, <1>3

\* A report whose time no other has shares its minute with none.
LEMMA SharedMinuteAt ==
  ASSUME NEW S, Sortable(S), OneEach(S), NEW q \in Chains(S),
         NEW i \in 1..Cardinality(S), NoTie(S, q[i].time)
  PROVE  q[i].id \notin SharedMinute(q)
<1>1. SUFFICES ASSUME q[i].id \in SharedMinute(q) PROVE FALSE
  OBVIOUS
<1>2. DOMAIN q = 1..Cardinality(S) /\ \A j \in 1..Cardinality(S) : q[j].id = q[i].id => j = i
  BY ChainLists, PositionIsPlace
<1>3. PICK k \in DOMAIN q \ {i} : q[k].time = q[i].time
  BY <1>1, <1>2 DEF SharedMinute
<1>4. q[i] \in S /\ q[k] \in S /\ q[i].time \in Int
  BY <1>2, ChainLists DEF Sortable
<1>5. q[i] = q[k]
  BY <1>3, <1>4 DEF NoTie
<1> QED
  BY <1>2, <1>3, <1>5

\* A report up to which no two share a minute: every list of the chain has
\* the same reports before it, so every list has the same findings on it.
LEMMA FindingsAgree ==
  ASSUME NEW S, Sortable(S), OneEach(S), NEW r \in S, NoTie(S, r.time),
         NEW p \in Chains(S), NEW q \in Chains(S), NEW cfg
  PROVE  FindingsIn(r, p, cfg) = FindingsIn(r, q, cfg)
<1> DEFINE n == Cardinality(S)
<1>1. n \in Nat /\ r.time \in Int /\ DOMAIN p = 1..n /\ DOMAIN q = 1..n
  BY ChainLists DEF Sortable
<1>2. PICK i \in 1..n : p[i] = r
  BY ChainLists
<1>3. \A k \in 1..i : k \in 1..n /\ p[k] = q[k]
  <2>1. \A k \in 1..i : k \in 1..n /\ (k < i \/ k = i)
    BY <1>1, <1>2
  <2>2. \A k \in 1..i : p[k].time <= r.time
    <3>1. \A k \in 1..n : k < i => p[k].time <= p[i].time
      BY ChainLists
    <3> QED
      BY <1>1, <1>2, <2>1, <3>1
  <2> QED
    BY <1>1, <2>1, <2>2, ChainsAgree
<1>4. q[i] = r
  BY <1>1, <1>2, <1>3
<1>5. Position(r.id, p) = i /\ Position(r.id, q) = i
  BY <1>2, <1>4, PositionIsPlace
<1>6. Before(r.id, p) = Before(r.id, q)
  <2>1. CASE i = 1
    BY <1>5, <2>1 DEF Before
  <2>2. CASE i # 1
    <3>1. i - 1 \in 1..i
      BY <1>1, <2>2
    <3>2. p[i - 1] = q[i - 1]
      BY <1>3, <3>1
    <3> QED
      BY <1>5, <2>2, <3>2 DEF Before
  <2> QED
    BY <2>1, <2>2
<1>7. r.id \in OutOfOrder(p, cfg) <=> r.id \in OutOfOrder(q, cfg)
  <2>1. ASSUME NEW g PROVE Repeats(p, g, i) <=> Repeats(q, g, i)
    <3>1. \A k \in 1..i : p[k].event = q[k].event
      BY <1>3
    <3>2. \A j \in 1..(i - 1) : j \in 1..i /\ i \in 1..i /\ \A k \in (j + 1)..(i - 1) : k \in 1..i
      BY <1>1
    <3>3. \A j \in 1..(i - 1) : Same(p, g, j, i) <=> Same(q, g, j, i)
      BY <3>1, <3>2 DEF Same
    <3>4. \A j \in 1..(i - 1) : \A k \in (j + 1)..(i - 1) : Staged(p, g, k) <=> Staged(q, g, k)
      BY <3>1, <3>2 DEF Staged
    <3> QED
      BY <3>3, <3>4 DEF Repeats
  <2>2. r.id \in OutOfOrder(p, cfg) <=> \E g \in cfg.groups : Repeats(p, g, i)
    BY <1>2, OutOfOrderAt
  <2>3. r.id \in OutOfOrder(q, cfg) <=> \E g \in cfg.groups : Repeats(q, g, i)
    BY <1>4, OutOfOrderAt
  <2> QED
    BY <2>1, <2>2, <2>3
<1>8. r.id \notin SharedMinute(p) /\ r.id \notin SharedMinute(q)
  BY <1>2, <1>4, SharedMinuteAt
<1>9. OfChain(r.id, p, cfg) = OfChain(r.id, q, cfg)
  BY <1>7, <1>8 DEF OfChain, When
<1> QED
  BY <1>6, <1>9 DEF FindingsIn

\* A report without an error in the chain is not invalidated by a cascade.
LEMMA SoundIsKept ==
  ASSUME NEW S, Sortable(S), OneEach(S), NEW r \in S, NEW q \in Chains(S), NEW cfg,
         \A y \in FindingsIn(r, q, cfg) : y.severity # "error"
  PROVE  r.id \notin DOMAIN Revalidate(q, cfg)
<1> DEFINE broke == [i \in DOMAIN q |->
                       {x.rule : x \in {y \in FindingsIn(q[i], q, cfg) : y.severity = "error"}}]
<1>1. DOMAIN Revalidate(q, cfg) = {q[i].id : i \in {j \in DOMAIN q : broke[j] # {}}}
  BY DEF Revalidate
<1>2. ASSUME NEW i \in DOMAIN q, broke[i] # {} PROVE q[i].id # r.id
  <2>1. PICK y \in FindingsIn(q[i], q, cfg) : y.severity = "error"
    BY <1>2
  <2>2. q[i] # r
    BY <2>1
  <2>3. q[i] \in S
    BY ChainLists
  <2> QED
    BY <2>2, <2>3 DEF OneEach
<1> HIDE DEF broke
<1> QED
  BY <1>1, <1>2

-----------------------------------------------------------------------------
(* The chain of a check and that of the cascade.                             *)

\* The committed reports can be sorted.
LEMMA CommittedIsSortable ==
  ASSUME CommittedInv
  PROVE  Sortable(ChainOf(committed)) /\ OneEach(ChainOf(committed))
<1> DEFINE D == DOMAIN committed
           C == ChainOf(committed)
           f == [id \in D |-> ReportOf(id, committed[id])]
<1>1. f \in Surjection(D, C)
  BY DEF Surjection, ChainOf
<1>2. IsFiniteSet(C)
  <2> HIDE DEF f, C, D
  <2>1. IsFiniteSet(D)
    BY DEF CommittedInv, D
  <2> QED
    BY <1>1, <2>1, FS_Surjection
<1>3. \A r \in C : r.time \in Int
  BY ReportHasData, EntriesAssumption DEF ChainOf, CommittedInv
<1>4. OneEach(C)
  BY ReportHasData DEF OneEach, ChainOf
<1> QED
  BY <1>2, <1>3, <1>4 DEF Sortable

\* CheckedIsSound: the chain the check read, with the draft put in, is a list
\* of the chain the cascade will read.
LEMMA ChecksAreSound == CommittedInv /\ DraftsInv => CheckedIsSound
<1> SUFFICES ASSUME CommittedInv, DraftsInv,
                    NEW id \in DOMAIN draft, draft[id].state = "ready", draft[id].fresh
             PROVE  LET r == ReportOf(id, draft[id].data)
                        others == {o \in ChainOf(committed) : o.id # id}
                        upTo == {o \in others \cup {r} : o.time <= r.time}
                    IN (\A o, p \in upTo : o.time = p.time => o = p) =>
                         \A chain \in Chains(others \cup {r}) :
                           id \notin DOMAIN Revalidate(chain, ValidationConfig)
  BY DEF CheckedIsSound
<1> DEFINE r == ReportOf(id, draft[id].data)
           others == {o \in ChainOf(committed) : o.id # id}
           S == others \cup {r}
           cfg == ValidationConfig
<1>1. r.id = id /\ r.time \in Int
  BY ReportHasData, EntriesAssumption DEF DraftsInv, Draft
<1>2. Sortable(ChainOf(committed)) /\ OneEach(ChainOf(committed))
  BY CommittedIsSortable
<1>3. Sortable(S)
  <2>1. IsFiniteSet(others)
    BY <1>2, FS_Subset DEF Sortable
  <2>2. IsFiniteSet(others \cup {r})
    BY <2>1, FS_AddElement
  <2> QED
    BY <1>1, <1>2, <2>2 DEF Sortable
<1>4. OneEach(S)
  BY <1>1, <1>2 DEF OneEach
<1>5. PICK q \in CheckChains(r, ChainOf(committed)) : ~HasErrors(EvaluateReport(r, q))
  BY DEF DraftsInv, Passes
<1>6. q \in Chains(S)
  BY <1>1, <1>5 DEF CheckChains
<1>7. \A y \in FindingsIn(r, q, cfg) : y.severity # "error"
  BY <1>5 DEF EvaluateReport, HasErrors
<1> HIDE DEF r, others, cfg
<1>8. ASSUME \A o, p \in {x \in S : x.time <= r.time} : o.time = p.time => o = p,
             NEW chain \in Chains(S)
      PROVE  id \notin DOMAIN Revalidate(chain, cfg)
  <2>1. NoTie(S, r.time)
    BY <1>3, <1>8 DEF NoTie, Sortable
  <2>2. FindingsIn(r, chain, cfg) = FindingsIn(r, q, cfg)
    BY <1>3, <1>4, <1>6, <2>1, FindingsAgree
  <2> QED
    BY <1>1, <1>3, <1>4, <1>7, <2>2, SoundIsKept
<1> QED
  BY <1>8 DEF r, others, cfg

-----------------------------------------------------------------------------
(* The form a new report starts from.                                        *)

\* What EvaluateROBContinuity adds up.
Consumed(r, S) == MapThenSumSet(LAMBDA f : Number(r, f), S)

\* What a report does not say it has consumed sums up to nothing.
LEMMA SumOfNothing ==
  ASSUME NEW S, IsFiniteSet(S), NEW r, \A f \in S : Number(r, f) = 0
  PROVE  Consumed(r, S) = 0
<1> DEFINE pick(s) == CHOOSE x \in s : TRUE
           Body(g) == [s \in SUBSET S |->
                         IF s = {} THEN 0 ELSE Number(r, pick(s)) + g[s \ {pick(s)}]]
           sum == CHOOSE g : g = Body(g)
           zero == [s \in SUBSET S |-> 0]
<1>1. Consumed(r, S) = sum[S]
  BY DEF Consumed, MapThenSumSet, MapThenFoldSet
<1>2. zero = Body(zero)
  OBVIOUS
<1>3. sum = Body(sum)
  <2> HIDE DEF zero, Body
  <2> QED
    BY <1>2
<1>4. \A s \in SUBSET S : s # {} => pick(s) \in s
  OBVIOUS
<1> HIDE DEF sum, pick
<1> DEFINE bad == {s \in SUBSET S : sum[s] # 0}
           sizes == {Cardinality(s) : s \in bad}
<1>5. SUFFICES ASSUME bad # {} PROVE FALSE
  BY <1>1
<1>6. \A s \in SUBSET S : IsFiniteSet(s) /\ Cardinality(s) \in Nat
  BY FS_Subset, FS_CardinalityType
<1>7. PICK s \in bad : \A t \in bad : Cardinality(s) <= Cardinality(t)
  <2>1. sizes \in SUBSET Nat /\ sizes # {}
    BY <1>5, <1>6
  <2>2. PICK n \in sizes : \A k \in sizes : n <= k
    BY <2>1, LeastNumber
  <2> QED
    BY <2>2
<1> DEFINE t == s \ {pick(s)}
<1>8. s # {} /\ sum[s] = Number(r, pick(s)) + sum[t]
  BY <1>3
<1>9. pick(s) \in s /\ t \in SUBSET S
  BY <1>4, <1>8
<1>10. Cardinality(t) = Cardinality(s) - 1
  BY <1>6, <1>9, FS_RemoveElement
<1>11. sum[t] = 0
  BY <1>6, <1>7, <1>9, <1>10
<1> QED
  BY <1>8, <1>9, <1>11

\* A report is last in its chain, and the one before it is the latest other one.
LEMMA LatestIsBefore ==
  ASSUME NEW C, Sortable(C), OneEach(C), NEW last \in C,
         \A o \in C : o.time <= last.time,
         \A o \in C : o.time = last.time => o = last,
         NEW r, r.time \in Int, last.time < r.time, \A o \in C : o.id # r.id,
         NEW q \in CheckChains(r, C)
  PROVE  Before(r.id, q) = last
<1> DEFINE S == C \cup {r}
           n == Cardinality(S)
<1>1. q \in Chains(S)
  <2>1. {o \in C : o.id # r.id} \cup {r} = S
    OBVIOUS
  <2> QED
    BY <2>1 DEF CheckChains
<1>2. Sortable(S) /\ OneEach(S)
  <2>1. IsFiniteSet(S)
    BY FS_AddElement DEF Sortable
  <2> QED
    BY <2>1 DEF Sortable, OneEach
<1> HIDE DEF S, n
<1>3. /\ n \in Nat /\ \A i \in 1..n : q[i] \in S /\ q[i].time \in Int
      /\ \A i, j \in 1..n : q[i] = q[j] => i = j
      /\ \A i, j \in 1..n : i < j => q[i].time <= q[j].time
  BY <1>1, <1>2, ChainLists DEF n, Sortable
<1>4. \A x \in S : \E i \in 1..n : q[i] = x
  BY <1>1, <1>2, ChainLists DEF n
<1>5. PICK i \in 1..n : q[i] = r
  BY <1>4 DEF S
<1>6. PICK j \in 1..n : q[j] = last
  BY <1>4 DEF S
<1>7. last.time \in Int
  BY DEF Sortable
<1>8. j < i
  <2>1. ~(i < j)
    BY <1>3, <1>5, <1>6, <1>7
  <2>2. i # j
    BY <1>5, <1>6, <1>7
  <2> QED
    BY <1>3, <2>1, <2>2
<1> DEFINE p == q[i - 1]
<1>9. i - 1 \in 1..n /\ (j = i - 1 \/ j < i - 1) /\ i - 1 < i /\ i # 1
  BY <1>3, <1>8
<1>10. p \in C
  <2>1. p \in S /\ p # r
    BY <1>3, <1>5, <1>9
  <2> QED
    BY <2>1 DEF S
<1>11. last.time <= p.time
  BY <1>3, <1>6, <1>7, <1>9
<1>12. p = last
  <2>1. p.time \in Int /\ p.time <= last.time
    BY <1>10 DEF Sortable
  <2> HIDE DEF p
  <2> QED
    BY <1>7, <1>10, <1>11, <2>1
<1>13. Position(r.id, q) = i
  BY <1>1, <1>2, <1>5, PositionIsPlace DEF n
<1> QED
  BY <1>9, <1>12, <1>13 DEF Before

\* The configuration of a vessel, as far as continuity goes.
LEMMA VesselsConfig ==
  /\ ValidationConfig.timeTolerance = 0 /\ ValidationConfig.robTolerance = 0
  /\ ValidationConfig.series = FuelTypes
<1> DEFINE one == [DefaultConfig EXCEPT !.series = FuelTypes,
                                        !.fuelFields = UNION Range(FuelTypes)]
<1>1. /\ one.timeTolerance = 0 /\ one.robTolerance = 0 /\ one.series = FuelTypes
  BY DEF DefaultConfig
<1>2. /\ ValidationConfig.timeTolerance = one.timeTolerance
      /\ ValidationConfig.robTolerance = one.robTolerance
      /\ ValidationConfig.series = one.series
  BY DEF ValidationConfig, LogAbstractConfig
<1> QED
  BY <1>1, <1>2

\* What handleGetSchema computes satisfies both rules against that report, but
\* for fuels whose consumption it carries forward.
LEMMA PrefillFits ==
  ASSUME NEW id, NEW d \in Entries, NEW now \in Int
  PROVE  LET last == ReportOf(id, d)
             r == Prefill(last, now) IN
         /\ EvaluateTimeChain(r, last, ValidationConfig) = {}
         /\ \A x \in EvaluateROBContinuity(r, last, ValidationConfig) :
              \E f \in FuelTypes[x.field] : Carried(f) /\ Number(last, f) # 0
<1> DEFINE last == ReportOf(id, d)
           r == Prefill(last, now)
           cfg == ValidationConfig
           kept == {g \in DOMAIN last.num : g \in DOMAIN FuelTypes \/ Carried(g)}
           Excuse(rob) == \E f \in FuelTypes[rob] : Carried(f) /\ Number(last, f) # 0
<1>1. last.time \in Int /\ \A f \in DOMAIN last.num : last.num[f] \in Int
  BY ReportHasData, EntriesAssumption
<1>2. /\ DOMAIN r.num = {Since} \cup kept /\ r.time = now
      /\ r.num[Since] = now - last.time
      /\ \A f \in kept : f # Since => r.num[f] = last.num[f]
  BY FuelAssumption DEF Prefill
<1>3. cfg.timeTolerance = 0 /\ cfg.robTolerance = 0 /\ cfg.series = FuelTypes
  BY VesselsConfig
<1> HIDE DEF last, r, cfg
<1>4. AbsDiff(now - last.time, now - last.time) = 0
  BY <1>1 DEF AbsDiff
<1>5. EvaluateTimeChain(r, last, cfg) = {}
  <2>1. ~(AbsDiff(r.num[Since], r.time - last.time) > cfg.timeTolerance)
    BY <1>2, <1>3, <1>4
  <2> QED
    BY <2>1 DEF EvaluateTimeChain, When
<1> DEFINE Used(rob) == MapThenSumSet(LAMBDA f : Number(r, f), cfg.series[rob])
<1>6. ASSUME NEW rob \in DOMAIN cfg.series, ~Excuse(rob)
      PROVE  Used(rob) = 0
  <2> DEFINE S == cfg.series[rob]
  <2>1. IsFiniteSet(S) /\ \A f \in S : f # Since /\ f \notin DOMAIN FuelTypes
    BY <1>3, FuelAssumption
  <2>2. ASSUME NEW f \in S, f \in DOMAIN r.num PROVE r.num[f] = 0
    <3>1. f \in kept /\ f # Since /\ Carried(f) /\ f \in DOMAIN last.num
      BY <1>2, <2>1, <2>2
    <3>2. Number(last, f) = 0
      BY <1>3, <1>6, <3>1
    <3> QED
      BY <1>2, <3>1, <3>2 DEF Number
  <2>5. \A f \in S : Number(r, f) = 0
    BY <2>2 DEF Number
  <2>3. Used(rob) = Consumed(r, S)
    BY DEF Consumed
  <2> HIDE DEF Used
  <2>4. Consumed(r, S) = 0
    BY <2>1, <2>5, SumOfNothing
  <2> QED
    BY <2>3, <2>4
<1> DEFINE found(rob) ==
             When(AbsDiff(r.num[rob], last.num[rob] - Used(rob)) > cfg.robTolerance,
                  cfg, "continuity.robContinuity", rob, "warning")
<1>7. ASSUME NEW rob \in DOMAIN cfg.series \cap DOMAIN r.num \cap DOMAIN last.num,
             ~Excuse(rob)
      PROVE  found(rob) = {}
  <2>1. Used(rob) = 0
    BY <1>6, <1>7
  <2>2. rob \in kept /\ rob # Since
    BY <1>3, FuelAssumption
  <2>3. r.num[rob] = last.num[rob] /\ last.num[rob] \in Int
    BY <1>1, <1>2, <2>2
  <2> HIDE DEF Used
  <2>4. AbsDiff(r.num[rob], last.num[rob] - Used(rob)) = 0
    BY <2>1, <2>3 DEF AbsDiff
  <2>5. ~(AbsDiff(r.num[rob], last.num[rob] - Used(rob)) > cfg.robTolerance)
    BY <1>3, <2>4
  <2> QED
    BY <2>5 DEF When
<1>8. ASSUME NEW x \in EvaluateROBContinuity(r, last, cfg) PROVE Excuse(x.field)
  <2>1. \/ EvaluateROBContinuity(r, last, cfg) = {}
        \/ EvaluateROBContinuity(r, last, cfg)
             = UNION {found(rob) : rob \in DOMAIN cfg.series \cap DOMAIN r.num \cap DOMAIN last.num}
    BY DEF EvaluateROBContinuity
  <2>2. \A rob : \A y \in found(rob) : y.field = rob
    BY DEF When, Finding
  <2> HIDE DEF found, Excuse
  <2>3. PICK rob \in DOMAIN cfg.series \cap DOMAIN r.num \cap DOMAIN last.num : x \in found(rob)
    BY <2>1
  <2> QED
    BY <1>7, <2>2, <2>3
<1> QED
  BY <1>5, <1>8 DEF last, r, cfg

\* PrefillContinues: the report before the new one is the last submitted,
\* which is where every prefilled value comes from.
LEMMA PrefillsContinue == CommittedInv => PrefillContinues
<1> DEFINE C == ChainOf(committed)
           now == 1 + CHOOSE t \in {o.time : o \in C} : \A o \in C : o.time <= t
<1> SUFFICES ASSUME CommittedInv, DOMAIN committed \cap DOMAIN draft = {},
                    NEW last \in LastSubmitted,
                    \A o \in C : o.time = last.time => o = last,
                    NEW chain \in CheckChains(Prefill(last, now), C)
             PROVE  LET r == Prefill(last, now) IN
                    /\ EvaluateTimeChain(r, Before(r.id, chain), ValidationConfig) = {}
                    /\ \A x \in EvaluateROBContinuity(r, Before(r.id, chain), ValidationConfig) :
                         \E f \in FuelTypes[x.field] : Carried(f) /\ Number(last, f) # 0
  BY DEF PrefillContinues
<1> DEFINE r == Prefill(last, now)
<1>1. Sortable(C) /\ OneEach(C)
  BY CommittedIsSortable
<1>2. \A o \in C : o.id \in DOMAIN committed /\ o.id # "new" /\ o.id \notin DOMAIN draft
  BY ReportHasData, ReportsAssumption DEF ChainOf, CommittedInv
<1>3. last \in C /\ \A o \in C : -last.time <= -o.time
  <2>1. {o \in C : o.id \notin DOMAIN draft} = C
    BY <1>2
  <2> DEFINE Age(o) == -o.time
  <2>2. LastSubmitted = {s \in C : \A t \in C : Age(s) <= Age(t)}
    BY <2>1 DEF LastSubmitted, Least
  <2> QED
    BY <2>2
<1>4. last.time \in Int /\ \A o \in C : o.time <= last.time
  <2>1. \A o \in C : o.time \in Int
    BY <1>1 DEF Sortable
  <2> QED
    BY <1>3, <2>1
<1>5. now = 1 + last.time
  <2>1. \A o \in C : o.time \in Int
    BY <1>1 DEF Sortable
  <2> DEFINE times == {o.time : o \in C}
             latest == CHOOSE t \in times : \A o \in C : o.time <= t
  <2>2. last.time \in times
    BY <1>3
  <2>3. latest \in times /\ \A o \in C : o.time <= latest
    BY <1>4, <2>2
  <2>4. latest \in Int /\ latest <= last.time /\ last.time <= latest
    BY <1>3, <1>4, <2>1, <2>3
  <2> QED
    BY <1>4, <2>4
<1> HIDE DEF C, now
<1>6. r.id = "new" /\ r.time = now
  BY DEF Prefill
<1>7. now \in Int /\ last.time < now
  BY <1>4, <1>5
<1>8. Before(r.id, chain) = last
  <2> HIDE DEF r
  <2> QED
    BY <1>1, <1>2, <1>3, <1>4, <1>6, <1>7, LatestIsBefore DEF r
<1>9. PICK id \in DOMAIN committed : last = ReportOf(id, committed[id])
  BY <1>3 DEF C, ChainOf
<1>10. committed[id] \in Entries
  BY DEF CommittedInv
<1>11. /\ EvaluateTimeChain(r, last, ValidationConfig) = {}
       /\ \A x \in EvaluateROBContinuity(r, last, ValidationConfig) :
            \E f \in FuelTypes[x.field] : Carried(f) /\ Number(last, f) # 0
  BY <1>7, <1>9, <1>10, PrefillFits
<1> QED
  BY <1>8, <1>11

-----------------------------------------------------------------------------
(* What holds of the form, the check and the cascade.                        *)

CheckInv == OfficeInv /\ TablesInv /\ CommittedInv /\ DraftsInv

\* The histories a vessel may start from have it.
LEMMA CheckInvInit == CheckInit => CheckInv
<1> SUFFICES ASSUME CheckInit PROVE CheckInv
  OBVIOUS
<1>1. PICK c \in Contents : schemas = <<c>>
  BY DEF CheckInit
<1>2. schemas \in Seq(Contents) /\ Len(schemas) = 1 /\ inserted \subseteq 1..1
  BY <1>1 DEF CheckInit
<1>3. Sequential(<<>>)
  BY DEF Sequential
<1>4. composing = [version |-> -1, read |-> <<>>]
  BY DEF CheckInit, Idle
<1>5. bundles = <<>> /\ assignments = <<>> /\ saving = 0
  BY DEF CheckInit
<1>6. OfficeInv
  BY <1>2, <1>3, <1>4, <1>5 DEF OfficeInv, Composing
<1>7. TablesInv
  BY DEF CheckInit, TablesInv, CadencesOK
<1>8. CommittedInv
  BY HistoriesAssumption DEF CheckInit, CommittedInv, Filled
<1>9. DraftsInv
  BY DEF CheckInit, DraftsInv
<1> QED
  BY <1>6, <1>7, <1>8, <1>9 DEF CheckInv

\* The office keeps its tables, an officer the chain and the drafts, and a new
\* bundle leaves no draft fresh.
LEMMA CheckInvStep == CheckInv /\ [CheckNext]_checkVars => CheckInv'
<1> SUFFICES ASSUME CheckInv, [CheckNext]_checkVars PROVE CheckInv'
  OBVIOUS
<1>1. CommittedInv' /\ DraftsInv'
  BY ReportsStep DEF CheckInv
<1>2. Configure \/ UNCHANGED <<registry, policies, compliance, bundles, assignments,
                               groups, saving, composing>>
  BY DEF CheckNext, checkVars, office, SaveSection, CheckReport, SubmitReport,
     StartCorrection, ApplyConfig, Request
<1>3. CASE Configure
  <2>1. Author
    BY <1>3 DEF Configure, Author
  <2> QED
    BY <1>1, <1>3, <2>1, OfficeStep, TablesStep DEF CheckInv
<1>4. CASE UNCHANGED <<registry, policies, compliance, bundles, assignments,
                       groups, saving, composing>>
  <2>1. OfficeInv'
    BY <1>4 DEF CheckInv, OfficeInv, Composing, registry
  <2>2. TablesInv'
    BY <1>4 DEF CheckInv, TablesInv, CadencesOK, compliance, registry
  <2> QED
    BY <1>1, <2>1, <2>2 DEF CheckInv
<1> QED
  BY <1>2, <1>3, <1>4

\* The invariant holds of every vessel, schema, report and request, any number
\* of each and in any order.
THEOREM CheckInductive == CheckSpec => []CheckInv
<1> QED
  BY CheckInvInit, CheckInvStep, PTL DEF CheckSpec

\* handleCheckReport and runCascade: a report that a check let pass, and that is
\* submitted before the chain or the bundle changes, is not invalidated by its
\* own submission, unless a tie leaves the chain up to it open.
THEOREM ChecksForetellCascades == CheckSpec => []CheckedIsSound
<1>1. CheckInv => CheckedIsSound
  BY ChecksAreSound DEF CheckInv
<1> QED
  BY <1>1, CheckInductive, PTL

\* EvaluateFieldRules: no report is committed without a field the vessel's own
\* schema makes mandatory, whatever policies and bundles say.
THEOREM MandatoryFieldsAreThere == CheckSpec => []SchemaMandatoryHolds
<1>1. CheckInv => SchemaMandatoryHolds
  BY MandatoryHolds DEF CheckInv
<1> QED
  BY <1>1, CheckInductive, PTL

\* handleGetSchema: with the values it is prefilled with, a new report fits the
\* report it continues: in its hours, and in each remaining fuel unless what the
\* last report consumed of that fuel is carried forward with it.
THEOREM PrefilledValuesContinue == CheckSpec => []PrefillContinues
<1>1. CheckInv => PrefillContinues
  BY PrefillsContinue DEF CheckInv
<1> QED
  BY <1>1, CheckInductive, PTL

\* EffectiveCadence, EffectiveSeverities, EffectiveFieldPolicy: no group's
\* setting is stricter than what the vessel gets.
THEOREM StrictestGroupAlwaysWins == CheckSpec => []StrictestGroupWins
<1>1. CheckInv => StrictestGroupWins
  BY StrictestWins DEF CheckInv
<1> QED
  BY <1>1, CheckInductive, PTL

\* EffectiveFieldPolicy: a field's state and its events come from one row.
THEOREM RulesStayWhole == CheckSpec => []RuleIsWhole
<1>1. CheckInv => RuleIsWhole
  BY RulesAreWhole DEF CheckInv
<1> QED
  BY <1>1, CheckInductive, PTL

=============================================================================
