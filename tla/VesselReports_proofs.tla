------------------------- MODULE VesselReports_proofs -------------------------
EXTENDS VesselReportsInv, TLAPS

-----------------------------------------------------------------------------
(* Statement lists. *)

\* What executing the first statement of a list leaves: the new statements
\* in front of the remaining ones.
LEMMA ListStep ==
  ASSUME NEW S, NEW q \in Seq(S), q # <<>>, NEW s \in Seq(S)
  PROVE  /\ Head(q) \in S /\ Head(q) \in Elems(q)
         /\ Tail(q) \in Seq(S)
         /\ Elems(Tail(q)) \subseteq Elems(q)
         /\ s \o Tail(q) \in Seq(S)
         /\ Elems(s \o Tail(q)) \subseteq Elems(s) \cup Elems(Tail(q))
<1>1. Head(q) = q[1] /\ 1 \in DOMAIN q
  OBVIOUS
<1>2. \A k \in DOMAIN Tail(q) : k + 1 \in DOMAIN q /\ Tail(q)[k] = q[k + 1]
  OBVIOUS
<1>3. \A k \in DOMAIN (s \o Tail(q)) :
        \/ k \in DOMAIN s /\ (s \o Tail(q))[k] = s[k]
        \/ /\ k - Len(s) \in DOMAIN Tail(q)
           /\ (s \o Tail(q))[k] = Tail(q)[k - Len(s)]
  <2>1. Tail(q) \in Seq(S)
    OBVIOUS
  <2>. QED BY <2>1
<1>. QED BY <1>1, <1>2, <1>3 DEF Elems

\* Append adds one element behind the ones already there.
LEMMA AppendList ==
  ASSUME NEW S, NEW q \in Seq(S), NEW e \in S
  PROVE  /\ Len(Append(q, e)) = Len(q) + 1
         /\ DOMAIN Append(q, e) = DOMAIN q \cup {Len(q) + 1}
         /\ Append(q, e)[Len(q) + 1] = e
         /\ \A k \in DOMAIN q : Append(q, e)[k] = q[k]
<1>1. Append(q, e) \in Seq(S) /\ Len(Append(q, e)) = Len(q) + 1
  OBVIOUS
<1>2. DOMAIN q = 1..Len(q) /\ DOMAIN Append(q, e) = 1..(Len(q) + 1)
      /\ Len(q) \in Nat
  BY <1>1
<1>3. 1..(Len(q) + 1) = (1..Len(q)) \cup {Len(q) + 1}
  BY <1>2
<1>4. Append(q, e)[Len(q) + 1] = e /\ \A k \in DOMAIN q : Append(q, e)[k] = q[k]
  OBVIOUS
<1>. QED BY <1>1, <1>2, <1>3, <1>4

\* The shapes of statements, read from their op.
LEMMA StmtFields ==
  ASSUME NEW s \in Stmt
  PROVE  /\ s.op = "save" => s.r \in Reports /\ s.v \in Nat /\ s.row \in Row
         /\ s.op = "event" => s.r \in Reports /\ s.v \in Nat
                              /\ s.type \in EventTypes
         /\ s.op \in {"enqueueVersion", "enqueueEvent", "markSynced"} =>
              s.r \in Reports /\ s.v \in Nat
         /\ s.op = "delete" => s.r \in Reports
         /\ s.op = "invalidate" => s.flagged \subseteq Loaded
         /\ s.op = "push" => s.items \subseteq Item /\ s.payload \subseteq Copy
         /\ s.op = "ackAll" => s.items \subseteq Item
         /\ s.op = "pull" => s.cur \in Cursors
         /\ s.op = "applyInbox" => s.next \in Cursors
         /\ s.op \in {"storeNotice", "applyNotice", "storeRemark"} => s.i \in Nat
         /\ s.op = "notices" => s.i \in Nat /\ s.hi \in Nat
         /\ s.op = "remarks" => /\ s.i \in Nat /\ s.hi \in Nat
                                /\ s.new \subseteq Nat
         /\ s.op = "applyRemarks" => s.new \subseteq Nat
BY DEF Stmt

\* The records the handlers and the sync phases build are statements.
LEMMA StmtIntro ==
  /\ \A r \in Reports, v \in Nat, row \in Row : save(r, v, row) \in Stmt
  /\ \A r \in Reports, v \in Nat, t \in EventTypes : event(r, v, t) \in Stmt
  /\ \A r \in Reports, v \in Nat : enqueueVersion(r, v) \in Stmt
  /\ \A r \in Reports, v \in Nat : enqueueEvent(r, v) \in Stmt
  /\ \A r \in Reports, v \in Nat :
       [op |-> "markSynced", r |-> r, v |-> v] \in Stmt
  /\ \A r \in Reports : [op |-> "delete", r |-> r] \in Stmt
  /\ cascade \in Stmt
  /\ \A F \in SUBSET Loaded : [op |-> "invalidate", flagged |-> F] \in Stmt
  /\ \A I \in SUBSET Item, C \in SUBSET Copy :
       [op |-> "push", items |-> I, payload |-> C] \in Stmt
  /\ \A I \in SUBSET Item : [op |-> "ackAll", items |-> I] \in Stmt
  /\ \A c \in Cursors : [op |-> "pull", cur |-> c] \in Stmt
  /\ \A c \in Cursors : [op |-> "applyInbox", next |-> c] \in Stmt
  /\ \A i, hi \in Nat : [op |-> "notices", i |-> i, hi |-> hi] \in Stmt
  /\ \A i \in Nat : /\ [op |-> "storeNotice", i |-> i] \in Stmt
                    /\ [op |-> "applyNotice", i |-> i] \in Stmt
                    /\ [op |-> "storeRemark", i |-> i] \in Stmt
  /\ \A i, hi \in Nat, N \in SUBSET Nat :
       [op |-> "remarks", i |-> i, hi |-> hi, new |-> N] \in Stmt
  /\ \A N \in SUBSET Nat : [op |-> "applyRemarks", new |-> N] \in Stmt
<1>. QED BY DEF Stmt, save, event, enqueueVersion, enqueueEvent, cascade

\* A process that executes a statement keeps a list of statements, and the
\* other processes keep theirs.
LEMMA ThenTodo ==
  ASSUME TypeOK, NEW p \in Procs, todo[p] # <<>>, NEW s \in Seq(Stmt),
         Then(p, s)
  PROVE  /\ todo' \in [Procs -> Seq(Stmt)]
         /\ todo'[p] = s \o Tail(todo[p])
         /\ \A q \in Procs \ {p} : todo'[q] = todo[q]
<1>1. todo[p] \in Seq(Stmt) /\ s \o Tail(todo[p]) \in Seq(Stmt)
  BY ListStep DEF TypeOK
<1>. QED BY <1>1 DEF Then, TypeOK

\* A process that returns has nothing left; the others are untouched.
LEMMA ReturnTodo ==
  ASSUME TypeOK, NEW p \in Procs, Return(p)
  PROVE  /\ todo' \in [Procs -> Seq(Stmt)]
         /\ todo'[p] = <<>>
         /\ \A q \in Procs \ {p} : todo'[q] = todo[q]
BY DEF Return, TypeOK

\* A request hands the handler its statements and nobody else any.
LEMMA HandleTodo ==
  ASSUME TypeOK, NEW s \in Seq(Stmt), Handle(s)
  PROVE  /\ todo' \in [Procs -> Seq(Stmt)]
         /\ todo'["handler"] = s
         /\ \A q \in SyncProcs : todo'[q] = todo[q]
         /\ ops' \in Nat
BY SyncProcsAssumption DEF Handle, TypeOK, Procs

\* The statement at the head of a list is a pending statement.
LEMMA HeadPending ==
  ASSUME TypeOK, NEW p \in Procs, todo[p] # <<>>
  PROVE  Head(todo[p]) \in Stmt /\ Head(todo[p]) \in Pending(p)
<1>1. todo[p] \in Seq(Stmt)
  BY DEF TypeOK
<1>2. Head(todo[p]) = todo[p][1] /\ 1 \in DOMAIN todo[p]
  BY <1>1
<1>. QED BY <1>1, <1>2 DEF Pending

-----------------------------------------------------------------------------
(* Rows and chains. *)

\* The lifecycle methods turn report rows into report rows.
LEMMA RowOps ==
  ASSUME NEW row \in Row
  PROVE  /\ \A t \in Times : SaveSection(row, t) \in Row
         /\ \A b \in BOOLEAN : MarkReady(row, b) \in Row
         /\ Submit(row) \in Row
         /\ MarkSynced(row) \in Row
         /\ MarkRemarked(row) \in Row
         /\ \A broken \in SUBSET RuleIDs : Invalidate(row, broken) \in Row
         /\ NewCorrection(row) \in Row
<1>1. row.data \in Times /\ row.state \in State
      /\ row.invFrom \in State \cup {""} /\ row.rules \in SUBSET RuleIDs
  BY DEF Row
<1>2. "draft" \in State /\ "ready" \in State /\ "submitted" \in State
      /\ "synced" \in State /\ "remarked" \in State /\ "invalidated" \in State
  BY DEF State
<1>. QED
  BY <1>1, <1>2 DEF Row, SaveSection, MarkReady, Submit, MarkSynced,
     MarkRemarked, Invalidate, NewCorrection, NewReport

\* A new report is a report row.
LEMMA NewReportRow == \A t \in Times : NewReport(t) \in Row
BY DEF NewReport, Row, State

\* What TypeOK says of the versions of one report.
LEMMA RowType ==
  ASSUME TypeOK, NEW r \in Reports
  PROVE  /\ rows[r] \in Seq(Row) /\ Len(rows[r]) \in Nat
         /\ \A v \in DOMAIN rows[r] : v \in Nat /\ rows[r][v] \in Row
         /\ rows[r] # <<>> => /\ Latest(r) \in Row
                              /\ Len(rows[r]) \in DOMAIN rows[r]
                              /\ Len(rows[r]) >= 1
BY DEF TypeOK, Latest

\* The committed chain holds committed versions that exist.
LEMMA ChainMembers ==
  ASSUME TypeOK
  PROVE  \A c \in ListCommittedChain :
           /\ c \in Loaded
           /\ c = [r |-> c.r, v |-> c.v, row |-> c.row]
           /\ IsCommitted(c.r, c.v)
<1>. SUFFICES ASSUME NEW r \in Reports, NEW v \in Committed(r)
              PROVE  LET c == [r |-> r, v |-> v, row |-> rows[r][v]] IN
                     c \in Loaded /\ IsCommitted(c.r, c.v)
  BY DEF ListCommittedChain
<1>1. v \in DOMAIN rows[r] /\ InChain(rows[r][v].state)
  BY DEF Committed
<1>. QED BY <1>1, RowType DEF Loaded, IsCommitted, Exists

\* The rule engine's view of a chain gives an event time to each report.
LEMMA ValidationType ==
  ASSUME NEW C \in SUBSET Loaded
  PROVE  ToValidation(C) \in [{c.r : c \in C} -> Times]
<1>1. \A r \in {c.r : c \in C} : (CHOOSE c \in C : c.r = r).row.data \in Times
  <2>1. TAKE r \in {c.r : c \in C}
  <2>2. (CHOOSE c \in C : c.r = r) \in C
    OBVIOUS
  <2>. QED BY <2>2 DEF Loaded, Row
<1>. QED BY <1>1 DEF ToValidation

\* runCascade flags committed versions that exist, with rules of the engine.
LEMMA FlaggedMembers ==
  ASSUME TypeOK
  PROVE  \A c \in Flagged : /\ c \in Loaded
                            /\ IsCommitted(c.r, c.v)
                            /\ c.row.state = "invalidated"
<1>. DEFINE chain == ListCommittedChain
            broken(c) == BrokenRules(ToValidation(chain), c.r)
<1>1. chain \in SUBSET Loaded
  BY ChainMembers
<1>2. \A c \in chain : broken(c) \in SUBSET RuleIDs
  <2>1. TAKE c \in chain
  <2>2. {d.r : d \in chain} \in SUBSET Reports /\ c.r \in {d.r : d \in chain}
    BY <1>1 DEF Loaded
  <2>. QED BY <1>1, <2>2, ValidationType, RulesAssumption
<1>3. SUFFICES ASSUME NEW d \in chain
               PROVE LET c == [d EXCEPT !.row = Invalidate(d.row, broken(d))] IN
                     /\ c \in Loaded /\ IsCommitted(c.r, c.v)
                     /\ c.row.state = "invalidated"
  BY DEF Flagged
<1>4. d \in Loaded /\ IsCommitted(d.r, d.v)
  BY ChainMembers
<1>5. Invalidate(d.row, broken(d)) \in Row
  BY <1>2, <1>4, RowOps DEF Loaded
<1>6. Invalidate(d.row, broken(d)).state = "invalidated"
  <2>1. d.row \in Row
    BY <1>4 DEF Loaded
  <2>. QED BY <2>1 DEF Invalidate, Row
<1>. QED BY <1>4, <1>5, <1>6 DEF Loaded

-----------------------------------------------------------------------------
(* Type correctness. *)

\* The statements of each request are statements.
LEMMA RequestStmts ==
  ASSUME TypeOK, Request
  PROVE  \E s \in Seq(Stmt) : Handle(s)
<1>1. PICK x \in Reports :
        \/ \E t \in Times : CreateReport(x, t) \/ SaveSectionOf(x, t)
        \/ \E ok \in BOOLEAN : CheckReport(x, ok)
        \/ SubmitReport(x)
        \/ StartCorrection(x)
        \/ AcknowledgeFinding(x)
        \/ DeleteReport(x)
  BY DEF Request
<1>. DEFINE v == Len(rows[x])
<1>2. EventTypes = {"created", "section_saved", "health_check_result",
                    "submitted", "resubmitted", "synced", "remarked",
                    "invalidated", "correction_started", "finding_acknowledged"}
  BY DEF EventTypes
<1>3. ASSUME NEW t \in Times, CreateReport(x, t) PROVE \E s \in Seq(Stmt) : Handle(s)
  <2>1. <<save(x, 1, NewReport(t)), event(x, 1, "created"),
          enqueueEvent(x, 1), cascade>> \in Seq(Stmt)
    BY <1>2, StmtIntro, NewReportRow
  <2>. QED BY <1>3, <2>1 DEF CreateReport
<1>4. ASSUME NEW t \in Times, SaveSectionOf(x, t) PROVE \E s \in Seq(Stmt) : Handle(s)
  <2>0. v \in Nat /\ SaveSection(Latest(x), t) \in Row
    BY <1>4, RowType, RowOps DEF SaveSectionOf, LoadEditable
  <2>1. <<save(x, v, SaveSection(Latest(x), t)),
          event(x, v, "section_saved"), enqueueEvent(x, v), cascade>> \in Seq(Stmt)
    BY <1>2, <2>0, StmtIntro
  <2>. QED BY <1>4, <2>1 DEF SaveSectionOf
<1>5. ASSUME NEW ok \in BOOLEAN, CheckReport(x, ok) PROVE \E s \in Seq(Stmt) : Handle(s)
  <2>. DEFINE e == ~ ok \/ EvaluateContinuity(x, Latest(x).data) # {}
  <2>0. v \in Nat /\ MarkReady(Latest(x), e) \in Row
    <3>1. Latest(x) \in Row /\ e \in BOOLEAN
      BY <1>5, RowType DEF CheckReport, LoadEditable
    <3>. QED BY <3>1, RowType, RowOps
  <2>1. <<save(x, v, MarkReady(Latest(x), e)),
          event(x, v, "health_check_result"), enqueueEvent(x, v)>> \in Seq(Stmt)
    BY <1>2, <2>0, StmtIntro
  <2>. QED BY <1>5, <2>1 DEF CheckReport
<1>6. ASSUME SubmitReport(x) PROVE \E s \in Seq(Stmt) : Handle(s)
  <2>1. <<save(x, v, Submit(Latest(x))), event(x, v, SubmitEvent(v)),
          enqueueVersion(x, v), enqueueEvent(x, v), cascade>> \in Seq(Stmt)
    BY <1>2, <1>6, StmtIntro, RowType, RowOps DEF SubmitReport, SubmitEvent
  <2>. QED BY <1>6, <2>1 DEF SubmitReport
<1>7. ASSUME StartCorrection(x) PROVE \E s \in Seq(Stmt) : Handle(s)
  <2>1. <<save(x, v + 1, NewCorrection(Latest(x))),
          event(x, v, "correction_started"), enqueueEvent(x, v)>> \in Seq(Stmt)
    BY <1>2, <1>7, StmtIntro, RowType, RowOps DEF StartCorrection
  <2>. QED BY <1>7, <2>1 DEF StartCorrection
<1>8. ASSUME DeleteReport(x) PROVE \E s \in Seq(Stmt) : Handle(s)
  <2>1. <<[op |-> "delete", r |-> x], cascade>> \in Seq(Stmt)
    BY StmtIntro
  <2>. QED BY <1>8, <2>1 DEF DeleteReport
<1>9. ASSUME AcknowledgeFinding(x) PROVE \E s \in Seq(Stmt) : Handle(s)
  <2>1. <<event(x, v, "finding_acknowledged"), enqueueEvent(x, v)>> \in Seq(Stmt)
    BY <1>2, <1>9, StmtIntro, RowType DEF AcknowledgeFinding, LoadEditable
  <2>. QED BY <1>9, <2>1 DEF AcknowledgeFinding
<1>. QED BY <1>1, <1>3, <1>4, <1>5, <1>6, <1>7, <1>8, <1>9

\* The statements that the loops and the loading statements put in front.
LEMMA ExecuteStmts ==
  ASSUME IInv, NEW p \in Procs, todo[p] # <<>>
  PROVE  LET s == Head(todo[p]) IN
         /\ s.op = "cascade" =>
              <<[op |-> "invalidate", flagged |-> Flagged]>> \in Seq(Stmt)
         /\ s.op = "invalidate" => \A c \in s.flagged :
              <<save(c.r, c.v, c.row), event(c.r, c.v, "invalidated")>>
                \o (IF Editable(c.row.invFrom) THEN <<>>
                    ELSE <<enqueueVersion(c.r, c.v), enqueueEvent(c.r, c.v)>>)
                \o <<[op |-> "invalidate", flagged |-> s.flagged \ {c}]>>
                \in Seq(Stmt)
         /\ s.op = "ackAll" => \A i \in s.items :
              (IF i.kind = "reportVersion"
               THEN <<[op |-> "markSynced", r |-> i.r, v |-> i.v]>> ELSE <<>>)
                \o <<[op |-> "ackAll", items |-> s.items \ {i}]>> \in Seq(Stmt)
         /\ s.op = "markSynced" /\ Exists(s.r, s.v) =>
              <<save(s.r, s.v, MarkSynced(rows[s.r][s.v])),
                event(s.r, s.v, "synced")>> \in Seq(Stmt)
         /\ s.op = "notices" =>
              <<[op |-> "storeNotice", i |-> s.i],
                [op |-> "applyNotice", i |-> s.i],
                [op |-> "notices", i |-> s.i + 1, hi |-> s.hi]>> \in Seq(Stmt)
         /\ s.op = "applyNotice" /\ rows[notices[s.i].r] # <<>> =>
              LET n == notices[s.i] IN
              <<save(n.r, Len(rows[n.r]), Invalidate(Latest(n.r), n.rules)),
                event(n.r, Len(rows[n.r]), "invalidated")>> \in Seq(Stmt)
         /\ s.op = "remarks" =>
              /\ <<[op |-> "applyRemarks", new |-> s.new]>> \in Seq(Stmt)
              /\ <<[op |-> "storeRemark", i |-> s.i],
                   [op |-> "remarks", i |-> s.i + 1, hi |-> s.hi,
                    new |-> IF s.i \in remarkRows THEN s.new
                            ELSE s.new \cup {s.i}]>> \in Seq(Stmt)
         /\ s.op = "applyRemarks" => \A i \in s.new :
              LET r == remarks[i].r
                  v == Len(rows[r])
              IN (IF rows[r] # <<>> /\ CanMarkRemarked(Latest(r))
                  THEN <<save(r, v, MarkRemarked(Latest(r))),
                         event(r, v, "remarked")>>
                  ELSE <<>>)
                 \o <<[op |-> "applyRemarks", new |-> s.new \ {i}]>>
                 \in Seq(Stmt)
<1>. DEFINE s == Head(todo[p])
<1>0. TypeOK /\ s \in Stmt /\ s \in Pending(p)
  BY HeadPending DEF IInv
<1>1. s.op \in {"notices", "applyNotice", "remarks", "applyRemarks"} =>
        StreamStmtOK(s)
  BY <1>0 DEF IInv, PendingOK, SyncStmtOK, HandlerOps, Procs
<1>e. "synced" \in EventTypes /\ "remarked" \in EventTypes
      /\ "invalidated" \in EventTypes
  BY DEF EventTypes
<1>2. ASSUME s.op = "cascade"
      PROVE  <<[op |-> "invalidate", flagged |-> Flagged]>> \in Seq(Stmt)
  BY <1>0, FlaggedMembers, StmtIntro
<1>3. ASSUME s.op = "invalidate", NEW c \in s.flagged
      PROVE  <<save(c.r, c.v, c.row), event(c.r, c.v, "invalidated")>>
               \o (IF Editable(c.row.invFrom) THEN <<>>
                   ELSE <<enqueueVersion(c.r, c.v), enqueueEvent(c.r, c.v)>>)
               \o <<[op |-> "invalidate", flagged |-> s.flagged \ {c}]>>
               \in Seq(Stmt)
  <2>1. s.flagged \subseteq Loaded
    BY <1>0, <1>3, StmtFields
  <2>2. c.r \in Reports /\ c.v \in Nat /\ c.row \in Row
        /\ s.flagged \ {c} \in SUBSET Loaded
    BY <2>1, <1>3 DEF Loaded
  <2>. DEFINE a == <<save(c.r, c.v, c.row), event(c.r, c.v, "invalidated")>>
              b == <<enqueueVersion(c.r, c.v), enqueueEvent(c.r, c.v)>>
              d == <<[op |-> "invalidate", flagged |-> s.flagged \ {c}]>>
  <2>3. a \in Seq(Stmt) /\ b \in Seq(Stmt) /\ d \in Seq(Stmt)
    BY <2>2, <1>e, StmtIntro
  <2>. HIDE DEF a, b, d
  <2>4. a \o (IF Editable(c.row.invFrom) THEN <<>> ELSE b) \o d \in Seq(Stmt)
    BY <2>3
  <2>. QED BY <2>4 DEF a, b, d
<1>4. ASSUME s.op = "ackAll", NEW i \in s.items
      PROVE  (IF i.kind = "reportVersion"
              THEN <<[op |-> "markSynced", r |-> i.r, v |-> i.v]>> ELSE <<>>)
               \o <<[op |-> "ackAll", items |-> s.items \ {i}]>> \in Seq(Stmt)
  <2>1. i \in Item /\ s.items \ {i} \in SUBSET Item
    BY <1>0, <1>4, StmtFields
  <2>2. [op |-> "markSynced", r |-> i.r, v |-> i.v] \in Stmt
        /\ [op |-> "ackAll", items |-> s.items \ {i}] \in Stmt
    BY <2>1, StmtIntro DEF Item
  <2>. QED BY <2>2
<1>5. ASSUME s.op = "markSynced", Exists(s.r, s.v)
      PROVE  <<save(s.r, s.v, MarkSynced(rows[s.r][s.v])),
               event(s.r, s.v, "synced")>> \in Seq(Stmt)
  <2>1. s.r \in Reports /\ s.v \in Nat
    BY <1>0, <1>5, StmtFields
  <2>2. MarkSynced(rows[s.r][s.v]) \in Row
    BY <1>0, <1>5, <2>1, RowType, RowOps DEF Exists
  <2>. QED BY <2>1, <2>2, <1>e, StmtIntro
<1>6. ASSUME s.op = "notices"
      PROVE  <<[op |-> "storeNotice", i |-> s.i],
               [op |-> "applyNotice", i |-> s.i],
               [op |-> "notices", i |-> s.i + 1, hi |-> s.hi]>> \in Seq(Stmt)
  <2>1. s.i \in Nat /\ s.hi \in Nat
    BY <1>0, <1>6, StmtFields
  <2>3. [op |-> "notices", i |-> s.i + 1, hi |-> s.hi] \in Stmt
    BY <2>1, StmtIntro
  <2>4. [op |-> "storeNotice", i |-> s.i] \in Stmt
        /\ [op |-> "applyNotice", i |-> s.i] \in Stmt
    BY <2>1, StmtIntro
  <2>. QED BY <2>3, <2>4
<1>7. ASSUME s.op = "applyNotice", rows[notices[s.i].r] # <<>>
      PROVE  LET n == notices[s.i] IN
             <<save(n.r, Len(rows[n.r]), Invalidate(Latest(n.r), n.rules)),
               event(n.r, Len(rows[n.r]), "invalidated")>> \in Seq(Stmt)
  <2>. DEFINE n == notices[s.i]
  <2>0. notices \in Seq(Notice) /\ s.i \in DOMAIN notices
    BY <1>0, <1>1, <1>7 DEF StreamStmtOK, TypeOK
  <2>1. n.r \in Reports /\ n.rules \in SUBSET RuleIDs
    <3>1. n \in Notice
      BY <2>0
    <3>. QED BY <3>1 DEF Notice
  <2>2. Len(rows[n.r]) \in Nat /\ Invalidate(Latest(n.r), n.rules) \in Row
    BY <1>0, <1>7, <2>1, RowType, RowOps
  <2>. QED BY <2>1, <2>2, <1>e, StmtIntro
<1>8. ASSUME s.op = "remarks"
      PROVE  /\ <<[op |-> "applyRemarks", new |-> s.new]>> \in Seq(Stmt)
             /\ <<[op |-> "storeRemark", i |-> s.i],
                  [op |-> "remarks", i |-> s.i + 1, hi |-> s.hi,
                   new |-> IF s.i \in remarkRows THEN s.new
                           ELSE s.new \cup {s.i}]>> \in Seq(Stmt)
  <2>1. s.i \in Nat /\ s.hi \in Nat /\ s.new \subseteq Nat
    BY <1>0, <1>8, StmtFields
  <2>. DEFINE new == IF s.i \in remarkRows THEN s.new ELSE s.new \cup {s.i}
  <2>3. [op |-> "remarks", i |-> s.i + 1, hi |-> s.hi, new |-> new] \in Stmt
    <3>1. s.i + 1 \in Nat /\ new \in SUBSET Nat
      BY <2>1
    <3>. QED BY <2>1, <3>1, StmtIntro
  <2>4. [op |-> "storeRemark", i |-> s.i] \in Stmt
        /\ [op |-> "applyRemarks", new |-> s.new] \in Stmt
    BY <2>1, StmtIntro
  <2>. QED BY <2>3, <2>4
<1>9. ASSUME s.op = "applyRemarks", NEW i \in s.new
      PROVE  LET r == remarks[i].r
                 v == Len(rows[r])
             IN (IF rows[r] # <<>> /\ CanMarkRemarked(Latest(r))
                 THEN <<save(r, v, MarkRemarked(Latest(r))),
                        event(r, v, "remarked")>>
                 ELSE <<>>)
                \o <<[op |-> "applyRemarks", new |-> s.new \ {i}]>>
                \in Seq(Stmt)
  <2>. DEFINE r == remarks[i].r
              v == Len(rows[r])
  <2>0. remarks \in Seq(Remark) /\ i \in DOMAIN remarks
    BY <1>0, <1>1, <1>9 DEF StreamStmtOK, TypeOK
  <2>1. r \in Reports
    <3>1. remarks[i] \in Remark
      BY <2>0
    <3>. QED BY <3>1 DEF Remark
  <2>2. ASSUME rows[r] # <<>>
        PROVE  <<save(r, v, MarkRemarked(Latest(r))),
                 event(r, v, "remarked")>> \in Seq(Stmt)
    <3>1. v \in Nat /\ MarkRemarked(Latest(r)) \in Row
      BY <1>0, <2>1, <2>2, RowType, RowOps
    <3>. QED BY <2>1, <3>1, <1>e, StmtIntro
  <2>3. <<[op |-> "applyRemarks", new |-> s.new \ {i}]>> \in Seq(Stmt)
    BY <1>0, <1>9, StmtFields, StmtIntro
  <2>. DEFINE a == <<save(r, v, MarkRemarked(Latest(r))), event(r, v, "remarked")>>
              d == <<[op |-> "applyRemarks", new |-> s.new \ {i}]>>
              both == (IF rows[r] # <<>> /\ CanMarkRemarked(Latest(r))
                       THEN a ELSE <<>>)
  <2>4. both \in Seq(Stmt) /\ d \in Seq(Stmt)
    BY <2>2, <2>3
  <2>. HIDE DEF both, d
  <2>5. both \o d \in Seq(Stmt)
    BY <2>4
  <2>. QED BY <2>5 DEF both, d
<1>. QED BY <1>2, <1>3, <1>4, <1>5, <1>6, <1>7, <1>8, <1>9

\* A statement puts a list of statements in front of the rest, or ends the
\* process.
LEMMA ExecuteTodo ==
  ASSUME IInv, NEW p \in Procs, Execute(p)
  PROVE  /\ todo[p] # <<>>
         /\ \E s \in Seq(Stmt) : Then(p, s) \/ Return(p)
<1>. DEFINE G == todo[p] # <<>> /\ \E s \in Seq(Stmt) : Then(p, s) \/ Return(p)
<1>e. <<>> \in Seq(Stmt)
  OBVIOUS
<1>1. ASSUME \/ SaveReport(p) \/ AppendEvent(p) \/ EnqueueOutboxItem(p)
             \/ DeleteRows(p) \/ ApplyInboxPull(p)
             \/ InsertInvalidationNotice(p) \/ InsertRemark(p)
      PROVE  G
  BY <1>1, <1>e DEF SaveReport, AppendEvent, EnqueueOutboxItem, DeleteRows,
     ApplyInboxPull, InsertInvalidationNotice, InsertRemark, Stmts
<1>2. ASSUME RunCascade(p) PROVE G
  BY <1>2, ExecuteStmts DEF RunCascade, Stmts
<1>3. ASSUME InvalidateFlagged(p) PROVE G
  BY <1>3, <1>e, ExecuteStmts DEF InvalidateFlagged, Stmts
<1>4. ASSUME AckOutboxItem(p) PROVE G
  BY <1>4, <1>e, ExecuteStmts DEF AckOutboxItem, Stmts
<1>5. ASSUME MarkReportSynced(p) PROVE G
  BY <1>5, <1>e, ExecuteStmts DEF MarkReportSynced, Stmts
<1>6. ASSUME EachNotice(p) PROVE G
  BY <1>6, <1>e, ExecuteStmts DEF EachNotice, Stmts
<1>7. ASSUME ApplyInvalidationNotice(p) PROVE G
  BY <1>7, <1>e, ExecuteStmts DEF ApplyInvalidationNotice, Stmts
<1>8. ASSUME EachRemark(p) PROVE G
  BY <1>8, <1>e, ExecuteStmts DEF EachRemark, Stmts
<1>9. ASSUME ApplyRemarks(p) PROVE G
  BY <1>9, <1>e, ExecuteStmts DEF ApplyRemarks, Stmts
<1>. QED
  BY <1>1, <1>2, <1>3, <1>4, <1>5, <1>6, <1>7, <1>8, <1>9 DEF Execute

\* Execute(p) keeps the types of the tables.
LEMMA ExecuteStore ==
  ASSUME IInv, NEW p \in Procs, Execute(p)
  PROVE  /\ rows' \in [Reports -> Seq(Row)]
         /\ trail' \in [Reports -> Seq(Entry)]
         /\ outbox' \subseteq Item /\ nextNo' \in Nat /\ cursors' \in Cursors
         /\ noticeRows' \subseteq Nat /\ remarkRows' \subseteq Nat
<1>. DEFINE s == Head(todo[p])
            G == /\ rows' \in [Reports -> Seq(Row)]
                 /\ trail' \in [Reports -> Seq(Entry)]
                 /\ outbox' \subseteq Item /\ nextNo' \in Nat
                 /\ cursors' \in Cursors
                 /\ noticeRows' \subseteq Nat /\ remarkRows' \subseteq Nat
<1>0. TypeOK /\ todo[p] # <<>> /\ s \in Stmt
  BY ExecuteTodo, HeadPending DEF IInv
<1>1. ASSUME SaveReport(p) PROVE G
  <2>1. s.r \in Reports /\ s.v \in Nat /\ s.row \in Row
    BY <1>0, <1>1, StmtFields DEF SaveReport, Stmts
  <2>2. rows[s.r] \in Seq(Row)
    BY <1>0, <2>1, RowType
  <2>3. Append(rows[s.r], s.row) \in Seq(Row)
        /\ (Exists(s.r, s.v) => [rows[s.r] EXCEPT ![s.v] = s.row] \in Seq(Row))
    BY <2>1, <2>2 DEF Exists
  <2>4. rows' \in [Reports -> Seq(Row)]
    BY <1>0, <1>1, <2>1, <2>3 DEF SaveReport, TypeOK
  <2>. QED BY <1>0, <1>1, <2>4 DEF SaveReport, TypeOK
<1>2. ASSUME AppendEvent(p) PROVE G
  <2>1. s.r \in Reports /\ [v |-> s.v, type |-> s.type] \in Entry
    BY <1>0, <1>2, StmtFields DEF AppendEvent, Stmts, Entry
  <2>2. trail' \in [Reports -> Seq(Entry)]
    BY <1>0, <1>2, <2>1 DEF AppendEvent, TypeOK
  <2>. QED BY <1>0, <1>2, <2>2 DEF AppendEvent, TypeOK
<1>3. ASSUME EnqueueOutboxItem(p) PROVE G
  <2>1. s.r \in Reports /\ s.v \in Nat
    BY <1>0, <1>3, StmtFields DEF EnqueueOutboxItem, Stmts
  <2>2. \A k \in {"reportVersion", "reportAuditEvent"} :
          [no |-> nextNo, kind |-> k, r |-> s.r, v |-> s.v] \in Item
    BY <1>0, <2>1 DEF TypeOK, Item
  <2>. QED BY <1>0, <1>3, <2>2 DEF EnqueueOutboxItem, TypeOK
<1>4. ASSUME DeleteRows(p) PROVE G
  <2>1. <<>> \in Seq(Row) /\ <<>> \in Seq(Entry)
    OBVIOUS
  <2>2. rows' \in [Reports -> Seq(Row)]
        /\ trail' \in [Reports -> Seq(Entry)]
    BY <1>0, <1>4, <2>1 DEF DeleteRows, TypeOK
  <2>. QED BY <1>0, <1>4, <2>2 DEF DeleteRows, TypeOK
<1>5. ASSUME ApplyInboxPull(p) PROVE G
  BY <1>0, <1>5, StmtFields DEF ApplyInboxPull, Stmts, TypeOK
<1>6. ASSUME InsertInvalidationNotice(p) PROVE G
  BY <1>0, <1>6, StmtFields DEF InsertInvalidationNotice, Stmts, TypeOK
<1>7. ASSUME InsertRemark(p) PROVE G
  BY <1>0, <1>7, StmtFields DEF InsertRemark, Stmts, TypeOK
<1>8. ASSUME AckOutboxItem(p) PROVE G
  BY <1>0, <1>8 DEF AckOutboxItem, TypeOK
<1>9. ASSUME UNCHANGED store PROVE G
  BY <1>0, <1>9 DEF store, TypeOK
<1>. QED
  BY <1>1, <1>2, <1>3, <1>4, <1>5, <1>6, <1>7, <1>8, <1>9
     DEF Execute, RunCascade, InvalidateFlagged, MarkReportSynced, EachNotice,
     ApplyInvalidationNotice, EachRemark, ApplyRemarks

\* The steps of a sync process outside the vessel's store.
LEMMA SyncTypes ==
  ASSUME TypeOK, NEW p \in SyncProcs, Sync(p)
  PROVE  /\ todo' \in [Procs -> Seq(Stmt)]
         /\ phase' \in [SyncProcs -> {"push", "pull"}]
         /\ landed' \subseteq Copy /\ lost' \in Nat
<1>. DEFINE s == Head(todo[p])
            G == /\ todo' \in [Procs -> Seq(Stmt)]
                 /\ phase' \in [SyncProcs -> {"push", "pull"}]
                 /\ landed' \subseteq Copy /\ lost' \in Nat
<1>0. p \in Procs
  BY DEF Procs
<1>1. ASSUME PushOutboxBatch(p) PROVE G
  <2>. DEFINE items == {i \in outbox : Hydrates(i)}
  <2>1. items \in SUBSET Item
    BY DEF TypeOK
  <2>2. Payload(items) \in SUBSET Copy
    <3>1. ASSUME NEW i \in items, i.kind = "reportVersion"
          PROVE  [r |-> i.r, v |-> i.v, data |-> rows[i.r][i.v].data] \in Copy
      <4>1. i \in Item /\ Exists(i.r, i.v)
        BY <2>1, <3>1 DEF Hydrates
      <4>2. rows[i.r][i.v] \in Row
        BY <4>1, RowType DEF Item, Exists
      <4>. QED BY <4>1, <4>2 DEF Item, Row, Copy
    <3>. QED BY <3>1 DEF Payload
  <2>3. [op |-> "push", items |-> items, payload |-> Payload(items)] \in Stmt
    BY <2>1, <2>2, StmtIntro
  <2>. DEFINE new == IF items = {} THEN <<>>
                     ELSE <<[op |-> "push", items |-> items,
                             payload |-> Payload(items)]>>
  <2>4. new \in Seq(Stmt)
    BY <2>3
  <2>5. todo' = [todo EXCEPT ![p] = new]
    BY <1>1 DEF PushOutboxBatch
  <2>. HIDE DEF new
  <2>6. todo' \in [Procs -> Seq(Stmt)]
    BY <1>0, <2>4, <2>5 DEF TypeOK
  <2>. QED BY <1>1, <2>6 DEF PushOutboxBatch, office, counters, TypeOK
<1>2. ASSUME PushOutbox(p) PROVE G
  <2>0. todo[p] # <<>> /\ s.op = "push" /\ s \in Stmt
    BY <1>0, <1>2, HeadPending DEF PushOutbox, Stmts
  <2>1. s.items \subseteq Item /\ s.payload \subseteq Copy
    BY <2>0, StmtFields
  <2>2. \A I \in SUBSET s.items : LandedBy(I, s.payload) \subseteq Copy
    BY <2>1 DEF LandedBy
  <2>3. \A I \in SUBSET s.items : <<[op |-> "ackAll", items |-> I]>> \in Seq(Stmt)
    <3>1. TAKE I \in SUBSET s.items
    <3>2. I \in SUBSET Item
      BY <2>1
    <3>3. [op |-> "ackAll", items |-> I] \in Stmt
      BY <3>2, StmtIntro
    <3>. QED BY <3>3
  <2>4. \/ Return(p)
        \/ \E I \in SUBSET s.items : Then(p, <<[op |-> "ackAll", items |-> I]>>)
    BY <1>2 DEF PushOutbox
  <2>5. todo' \in [Procs -> Seq(Stmt)]
    BY <1>0, <2>0, <2>3, <2>4, ThenTodo, ReturnTodo
  <2>6. \E I \in SUBSET s.items : landed' = landed \cup LandedBy(I, s.payload)
    BY <1>2 DEF PushOutbox
  <2>7. landed' \subseteq Copy
    BY <2>2, <2>6 DEF TypeOK
  <2>8. lost' \in Nat
    BY <1>2 DEF PushOutbox, TypeOK
  <2>. QED BY <1>2, <2>5, <2>7, <2>8 DEF PushOutbox, TypeOK
<1>3. ASSUME PullInboxBatch(p) PROVE G
  <2>1. <<[op |-> "pull", cur |-> cursors]>> \in Seq(Stmt)
    BY StmtIntro DEF TypeOK
  <2>. QED BY <1>0, <1>3, <2>1 DEF PullInboxBatch, office, counters, TypeOK
<1>4. ASSUME PullInbox(p) PROVE G
  <2>. DEFINE next == [notice |-> Len(notices), remark |-> Len(remarks)]
              new == <<[op |-> "applyInbox", next |-> next],
                       [op |-> "notices", i |-> s.cur.notice + 1,
                        hi |-> next.notice],
                       [op |-> "remarks", i |-> s.cur.remark + 1,
                        hi |-> next.remark, new |-> {}]>>
  <2>0. todo[p] # <<>> /\ s.op = "pull" /\ s \in Stmt
    BY <1>0, <1>4, HeadPending DEF PullInbox, Stmts
  <2>1. s.cur.notice \in Nat /\ s.cur.remark \in Nat
    BY <2>0, StmtFields DEF Cursors
  <2>2. Len(notices) \in Nat /\ Len(remarks) \in Nat /\ next \in Cursors
    BY DEF TypeOK, Cursors
  <2>3. [op |-> "applyInbox", next |-> next] \in Stmt
    BY <2>2, StmtIntro
  <2>4. [op |-> "notices", i |-> s.cur.notice + 1, hi |-> next.notice] \in Stmt
    BY <2>1, <2>2, StmtIntro
  <2>5. [op |-> "remarks", i |-> s.cur.remark + 1, hi |-> next.remark,
         new |-> {}] \in Stmt
    <3>1. s.cur.remark + 1 \in Nat /\ next.remark \in Nat /\ {} \in SUBSET Nat
      BY <2>1, <2>2
    <3>. QED BY <3>1, StmtIntro
  <2>6. new \in Seq(Stmt)
    BY <2>3, <2>4, <2>5
  <2>7. Then(p, new) \/ Return(p)
    BY <1>4 DEF PullInbox
  <2>. HIDE DEF new
  <2>8. todo' \in [Procs -> Seq(Stmt)]
    BY <1>0, <2>0, <2>6, <2>7, ThenTodo, ReturnTodo
  <2>. QED BY <1>4, <2>8 DEF PullInbox, office, TypeOK
<1>. QED BY <1>1, <1>2, <1>3, <1>4 DEF Sync

\* No step breaks type correctness.
LEMMA TypeStep == IInv /\ [Next]_vars => TypeOK'
<1>. SUFFICES ASSUME IInv, [Next]_vars PROVE TypeOK'
  OBVIOUS
<1>0. TypeOK
  BY DEF IInv
<1>1. ASSUME Request PROVE TypeOK'
  <2>1. PICK s \in Seq(Stmt) : Handle(s)
    BY <1>0, <1>1, RequestStmts
  <2>2. used' \subseteq Reports
    BY <1>0, <1>1 DEF Request, CreateReport, SaveSectionOf, CheckReport,
       SubmitReport, StartCorrection, AcknowledgeFinding, DeleteReport, TypeOK
  <2>. QED BY <1>0, <2>1, <2>2, HandleTodo DEF Handle, store, office, TypeOK
<1>2. ASSUME NEW p \in Procs, Execute(p) PROVE TypeOK'
  <2>1. todo' \in [Procs -> Seq(Stmt)]
    BY <1>0, <1>2, ExecuteTodo, ThenTodo, ReturnTodo
  <2>. QED BY <1>0, <1>2, <2>1, ExecuteStore DEF Execute, office, counters, TypeOK
<1>3. ASSUME NEW p \in Procs, Abort(p) PROVE TypeOK'
  <2>1. todo' \in [Procs -> Seq(Stmt)]
    BY <1>0, <1>3, ReturnTodo DEF Abort
  <2>2. aborts' \in Nat
    BY <1>0, <1>3 DEF Abort, TypeOK
  <2>. QED BY <1>0, <1>3, <2>1, <2>2 DEF Abort, store, office, TypeOK
<1>4. ASSUME NEW p \in SyncProcs, Sync(p) PROVE TypeOK'
  <2>1. UNCHANGED <<store, used, notices, remarks, ops, aborts>>
    BY <1>4 DEF Sync, PushOutboxBatch, PushOutbox, PullInboxBatch, PullInbox,
       office, counters
  <2>. QED BY <1>0, <1>4, <2>1, SyncTypes DEF store, TypeOK
<1>5. ASSUME Office PROVE TypeOK'
  <2>1. PICK r \in Reports, v \in 1..MaxVersions :
          \/ \E rules \in SUBSET RuleIDs \ {{}} : OfficeInvalidates(r, v, rules)
          \/ OfficeRemarks(r, v)
    BY <1>5 DEF Office
  <2>2. v \in Nat
    BY BoundsAssumption
  <2>3. CASE \E rules \in SUBSET RuleIDs \ {{}} : OfficeInvalidates(r, v, rules)
    <3>1. PICK rules \in SUBSET RuleIDs : OfficeInvalidates(r, v, rules)
      BY <2>3
    <3>2. [r |-> r, v |-> v, rules |-> rules] \in Notice
      BY <2>2 DEF Notice
    <3>3. notices' \in Seq(Notice)
      BY <1>0, <3>1, <3>2 DEF OfficeInvalidates, TypeOK
    <3>. QED BY <1>0, <3>1, <3>3 DEF OfficeInvalidates, store, counters, TypeOK
  <2>4. CASE OfficeRemarks(r, v)
    <3>2. [r |-> r, v |-> v] \in Remark
      BY <2>2 DEF Remark
    <3>3. remarks' \in Seq(Remark)
      BY <1>0, <2>4, <3>2 DEF OfficeRemarks, TypeOK
    <3>. QED BY <1>0, <2>4, <3>3 DEF OfficeRemarks, store, counters, TypeOK
  <2>. QED BY <2>1, <2>3, <2>4
<1>6. ASSUME UNCHANGED vars PROVE TypeOK'
  BY <1>0, <1>6 DEF vars, store, office, counters, TypeOK
<1>. QED BY <1>1, <1>2, <1>3, <1>4, <1>5, <1>6 DEF Next

-----------------------------------------------------------------------------
(* What a step does to the versions, the outbox and the office's copies. *)

\* The pending statement that may turn a committed version into a draft: the
\* handler's save of an editable row.
EditTarget(r, v) ==
  /\ todo["handler"] # <<>>
  /\ Head(todo["handler"]).op = "save"
  /\ Editable(Head(todo["handler"]).row.state)
  /\ Head(todo["handler"]).r = r
  /\ Head(todo["handler"]).v = v

\* What a save may be of: the handler's, or a sync process's.
LEMMA SaveCases ==
  ASSUME IInv, NEW p \in Procs, todo[p] # <<>>, Head(todo[p]).op = "save"
  PROVE  LET s == Head(todo[p]) IN
         /\ s.r \in Reports /\ s.v \in Nat /\ s.row \in Row
         /\ rows[s.r] \in Seq(Row)
         /\ \/ /\ p \in SyncProcs /\ InChain(s.row.state) /\ Exists(s.r, s.v)
               /\ LandedReport(s.r)
               /\ s.row.state = "synced" => Landed(s.r, s.v)
            \/ /\ p = "handler" /\ InChain(s.row.state) /\ Exists(s.r, s.v)
               /\ s.row.state # "synced"
            \/ /\ p = "handler" /\ Editable(s.row.state) /\ HeadOK(s)
               /\ EditTarget(s.r, s.v)
<1>. DEFINE s == Head(todo[p])
<1>1. s \in Stmt /\ s \in Pending(p) /\ TypeOK
  BY HeadPending DEF IInv
<1>2. s.r \in Reports /\ s.v \in Nat /\ s.row \in Row /\ rows[s.r] \in Seq(Row)
  BY <1>1, StmtFields, RowType
<1>3. CASE p \in SyncProcs
  BY <1>1, <1>2, <1>3 DEF IInv, PendingOK, SyncStmtOK
<1>4. CASE p = "handler"
  BY <1>1, <1>2, <1>4 DEF IInv, HandlerOK, HeadOK, InChain, EditTarget
<1>. QED BY <1>3, <1>4 DEF Procs

\* Only saves and deletes change the reports table.
LEMMA RowsChange ==
  ASSUME [Next]_vars
  PROVE  \/ rows' = rows
         \/ \E p \in Procs : Execute(p) /\ (SaveReport(p) \/ DeleteRows(p))
<1>1. ASSUME NEW p \in Procs, Execute(p)
      PROVE  rows' = rows \/ SaveReport(p) \/ DeleteRows(p)
  BY <1>1 DEF Execute, AppendEvent, EnqueueOutboxItem, RunCascade,
     InvalidateFlagged, AckOutboxItem, MarkReportSynced, ApplyInboxPull,
     EachNotice, InsertInvalidationNotice, ApplyInvalidationNotice, EachRemark,
     InsertRemark, ApplyRemarks, store
<1>2. Request => rows' = rows
  BY DEF Request, CreateReport, SaveSectionOf, CheckReport, SubmitReport,
     StartCorrection, AcknowledgeFinding, DeleteReport, Handle, store
<1>3. ASSUME NEW p \in SyncProcs, Sync(p) PROVE rows' = rows
  BY <1>3 DEF Sync, PushOutboxBatch, PushOutbox, PullInboxBatch, PullInbox, store
<1>4. Office => rows' = rows
  BY DEF Office, OfficeInvalidates, OfficeRemarks, store
<1>5. ASSUME NEW p \in Procs, Abort(p) PROVE rows' = rows
  BY <1>5 DEF Abort, store
<1>6. UNCHANGED vars => rows' = rows
  BY DEF vars, store
<1>. QED BY <1>1, <1>2, <1>3, <1>4, <1>5, <1>6 DEF Next

\* A save changes one version, or appends one.
LEMMA SaveEffect ==
  ASSUME IInv, NEW p \in Procs, SaveReport(p)
  PROVE  LET s == Head(todo[p]) IN
         /\ todo[p] # <<>> /\ s.op = "save"
         /\ \A r \in Reports \ {s.r} : rows'[r] = rows[r]
         /\ \/ rows' = rows /\ Return(p)
            \/ /\ Exists(s.r, s.v)
               /\ Len(rows'[s.r]) = Len(rows[s.r])
               /\ DOMAIN rows'[s.r] = DOMAIN rows[s.r]
               /\ rows'[s.r][s.v] = s.row
               /\ \A v \in DOMAIN rows[s.r] \ {s.v} :
                    rows'[s.r][v] = rows[s.r][v]
               /\ InChain(rows[s.r][s.v].state) =>
                    s.row.data = rows[s.r][s.v].data
               /\ Then(p, <<>>)
            \/ /\ ~ Exists(s.r, s.v)
               /\ Len(rows'[s.r]) = Len(rows[s.r]) + 1
               /\ DOMAIN rows'[s.r] = DOMAIN rows[s.r] \cup {Len(rows[s.r]) + 1}
               /\ rows'[s.r][Len(rows[s.r]) + 1] = s.row
               /\ \A v \in DOMAIN rows[s.r] : rows'[s.r][v] = rows[s.r][v]
               /\ Then(p, <<>>)
<1>. DEFINE s == Head(todo[p])
<1>1. todo[p] # <<>> /\ s.op = "save" /\ TypeOK
  BY DEF SaveReport, Stmts, IInv
<1>2. s.r \in Reports /\ s.v \in Nat /\ s.row \in Row /\ rows[s.r] \in Seq(Row)
  BY <1>1, SaveCases
<1>3. CASE LockedAfterSubmit(s.r, s.v, s.row)
  BY <1>1, <1>3 DEF SaveReport
<1>4. CASE ~ LockedAfterSubmit(s.r, s.v, s.row)
  <2>1. Then(p, <<>>)
        /\ rows' = [rows EXCEPT ![s.r] =
                       IF Exists(s.r, s.v) THEN [rows[s.r] EXCEPT ![s.v] = s.row]
                       ELSE Append(rows[s.r], s.row)]
    BY <1>4 DEF SaveReport
  <2>2. \A r \in Reports \ {s.r} : rows'[r] = rows[r]
    BY <1>1, <2>1 DEF TypeOK
  <2>3. rows'[s.r] = IF Exists(s.r, s.v) THEN [rows[s.r] EXCEPT ![s.v] = s.row]
                     ELSE Append(rows[s.r], s.row)
    BY <1>1, <1>2, <2>1 DEF TypeOK
  <2>4. CASE Exists(s.r, s.v)
    <3>1. InChain(rows[s.r][s.v].state) => s.row.data = rows[s.r][s.v].data
      BY <1>4, <2>4 DEF LockedAfterSubmit
    <3>2. rows'[s.r] = [rows[s.r] EXCEPT ![s.v] = s.row]
      BY <2>3, <2>4
    <3>3. s.v \in DOMAIN rows[s.r]
      BY <2>4 DEF Exists
    <3>4. /\ Len(rows'[s.r]) = Len(rows[s.r])
          /\ DOMAIN rows'[s.r] = DOMAIN rows[s.r]
          /\ rows'[s.r][s.v] = s.row
          /\ \A v \in DOMAIN rows[s.r] \ {s.v} : rows'[s.r][v] = rows[s.r][v]
      BY <1>2, <3>2, <3>3
    <3>. QED BY <1>1, <2>1, <2>2, <2>4, <3>1, <3>4
  <2>5. CASE ~ Exists(s.r, s.v)
    <3>2. rows'[s.r] = Append(rows[s.r], s.row)
      BY <2>3, <2>5
    <3>. DEFINE q == rows[s.r]
                e == s.row
    <3>3. /\ Len(Append(q, e)) = Len(q) + 1
          /\ DOMAIN Append(q, e) = DOMAIN q \cup {Len(q) + 1}
          /\ Append(q, e)[Len(q) + 1] = e
          /\ \A k \in DOMAIN q : Append(q, e)[k] = q[k]
      <4>1. q \in Seq(Row) /\ e \in Row
        BY <1>2
      <4>. HIDE DEF q, e
      <4>. QED BY <4>1, AppendList
    <3>4. /\ Len(rows'[s.r]) = Len(rows[s.r]) + 1
          /\ DOMAIN rows'[s.r] = DOMAIN rows[s.r] \cup {Len(rows[s.r]) + 1}
          /\ rows'[s.r][Len(rows[s.r]) + 1] = s.row
          /\ \A v \in DOMAIN rows[s.r] : rows'[s.r][v] = rows[s.r][v]
      BY <3>2, <3>3, Zenon
    <3>. QED BY <1>1, <2>1, <2>2, <2>5, <3>4
  <2>. QED BY <2>4, <2>5
<1>. QED BY <1>3, <1>4

\* A delete is the handler's, of a report with one version, an editable one,
\* that neither the outbox nor the office knows.
LEMMA DeleteEffect ==
  ASSUME IInv, NEW p \in Procs, DeleteRows(p)
  PROVE  LET s == Head(todo[p]) IN
         /\ p = "handler" /\ todo[p] # <<>> /\ s.op = "delete"
         /\ s.r \in Reports
         /\ HeadOK(s)
         /\ rows'[s.r] = <<>>
         /\ \A r \in Reports \ {s.r} : rows'[r] = rows[r]
<1>. DEFINE s == Head(todo[p])
<1>1. todo[p] # <<>> /\ s.op = "delete" /\ TypeOK
  BY DEF DeleteRows, Stmts, IInv
<1>2. s \in Stmt /\ s \in Pending(p)
  BY <1>1, HeadPending
<1>3. p = "handler"
  BY <1>1, <1>2 DEF IInv, PendingOK, SyncStmtOK, SyncOps, Procs
<1>4. s.r \in Reports
  BY <1>1, <1>2, StmtFields
<1>5. HeadOK(s)
  BY <1>1, <1>3 DEF IInv, HandlerOK
<1>. QED BY <1>1, <1>3, <1>4, <1>5 DEF DeleteRows, TypeOK

\* Only enqueueing and acking change the outbox.
LEMMA OutboxChange ==
  ASSUME [Next]_vars
  PROVE  \/ outbox' = outbox /\ nextNo' = nextNo
         \/ \E p \in Procs : EnqueueOutboxItem(p) \/ AckOutboxItem(p)
<1>1. ASSUME NEW p \in Procs, Execute(p)
      PROVE  \/ outbox' = outbox /\ nextNo' = nextNo
             \/ EnqueueOutboxItem(p) \/ AckOutboxItem(p)
  BY <1>1 DEF Execute, SaveReport, DeleteRows, AppendEvent, RunCascade,
     InvalidateFlagged, MarkReportSynced, ApplyInboxPull,
     EachNotice, InsertInvalidationNotice, ApplyInvalidationNotice, EachRemark,
     InsertRemark, ApplyRemarks, store
<1>2. Request => outbox' = outbox /\ nextNo' = nextNo
  BY DEF Request, CreateReport, SaveSectionOf, CheckReport, SubmitReport,
     StartCorrection, AcknowledgeFinding, DeleteReport, Handle, store
<1>3. ASSUME NEW p \in SyncProcs, Sync(p) PROVE outbox' = outbox /\ nextNo' = nextNo
  BY <1>3 DEF Sync, PushOutboxBatch, PushOutbox, PullInboxBatch, PullInbox, store
<1>4. Office => outbox' = outbox /\ nextNo' = nextNo
  BY DEF Office, OfficeInvalidates, OfficeRemarks, store
<1>5. ASSUME NEW p \in Procs, Abort(p) PROVE outbox' = outbox /\ nextNo' = nextNo
  BY <1>5 DEF Abort, store
<1>6. UNCHANGED vars => outbox' = outbox /\ nextNo' = nextNo
  BY DEF vars, store
<1>. QED BY <1>1, <1>2, <1>3, <1>4, <1>5, <1>6 DEF Next

\* Only a push lands copies, and only the office extends its streams.
LEMMA OfficeChange ==
  ASSUME [Next]_vars
  PROVE  /\ landed' = landed \/ \E p \in SyncProcs : PushOutbox(p)
         /\ \/ notices' = notices /\ remarks' = remarks
            \/ Office
<1>1. ASSUME NEW p \in Procs, Execute(p) PROVE UNCHANGED office
  BY <1>1 DEF Execute
<1>2. Request => UNCHANGED office
  BY DEF Request, CreateReport, SaveSectionOf, CheckReport, SubmitReport,
     StartCorrection, AcknowledgeFinding, DeleteReport, Handle
<1>3. ASSUME NEW p \in SyncProcs, Sync(p)
      PROVE  (landed' = landed \/ PushOutbox(p))
             /\ notices' = notices /\ remarks' = remarks
  BY <1>3 DEF Sync, PushOutboxBatch, PushOutbox, PullInboxBatch, PullInbox, office
<1>4. Office => landed' = landed
  BY DEF Office, OfficeInvalidates, OfficeRemarks
<1>5. ASSUME NEW p \in Procs, Abort(p) PROVE UNCHANGED office
  BY <1>5 DEF Abort
<1>6. UNCHANGED vars => UNCHANGED office
  BY DEF vars
<1>. QED BY <1>1, <1>2, <1>3, <1>4, <1>5, <1>6 DEF Next, office

\* A committed version stays, with its data, and stays committed unless the
\* handler saves an editable row over it.
LEMMA CommittedKept ==
  ASSUME IInv, [Next]_vars, NEW r \in Reports, NEW v \in DOMAIN rows[r],
         InChain(rows[r][v].state)
  PROVE  /\ v \in DOMAIN rows'[r]
         /\ rows'[r][v].data = rows[r][v].data
         /\ EditTarget(r, v) \/ InChain(rows'[r][v].state)
<1>1. CASE rows' = rows
  BY <1>1
<1>2. ASSUME NEW p \in Procs, SaveReport(p)
      PROVE  /\ v \in DOMAIN rows'[r]
             /\ rows'[r][v].data = rows[r][v].data
             /\ EditTarget(r, v) \/ InChain(rows'[r][v].state)
  <2>. DEFINE s == Head(todo[p])
  <2>1. todo[p] # <<>> /\ s.op = "save"
    BY <1>2, SaveEffect
  <2>2. InChain(s.row.state) \/ EditTarget(s.r, s.v)
    BY <2>1, SaveCases
  <2>3. CASE r # s.r
    BY <1>2, <2>3, SaveEffect
  <2>4. CASE r = s.r
    BY <1>2, <2>2, <2>4, SaveEffect DEF Exists
  <2>. QED BY <2>3, <2>4
<1>3. ASSUME NEW p \in Procs, DeleteRows(p)
      PROVE  rows'[r] = rows[r]
  <2>. DEFINE s == Head(todo[p])
  <2>1. s.r # r
    <3>1. SUFFICES ASSUME s.r = r PROVE FALSE
      OBVIOUS
    <3>2. Len(rows[r]) = 1 /\ Editable(rows[r][1].state)
      BY <1>3, <3>1, DeleteEffect DEF HeadOK
    <3>3. v = 1
      BY <3>2, RowType DEF IInv
    <3>. QED BY <3>2, <3>3 DEF InChain
  <2>. QED BY <1>3, <2>1, DeleteEffect
<1>. QED BY <1>1, <1>2, <1>3, RowsChange

\* Copies never leave the office.
LEMMA LandedKept ==
  ASSUME [Next]_vars
  PROVE  /\ landed \subseteq landed'
         /\ \A r, v : Landed(r, v) => Landed(r, v)'
         /\ \A r : LandedReport(r) => LandedReport(r)'
<1>1. landed \subseteq landed'
  BY OfficeChange DEF PushOutbox
<1>. QED BY <1>1 DEF Landed, LandedReport

\* An item leaves the outbox only when the version it refers to has landed.
LEMMA AckEffect ==
  ASSUME IInv, NEW p \in Procs, AckOutboxItem(p)
  PROVE  /\ p \in SyncProcs
         /\ outbox' \subseteq outbox /\ nextNo' = nextNo
         /\ \A j \in outbox \ outbox' :
              j.kind = "reportVersion" => Landed(j.r, j.v)
<1>. DEFINE s == Head(todo[p])
<1>1. todo[p] # <<>> /\ s.op = "ackAll" /\ s \in Pending(p)
  BY HeadPending DEF AckOutboxItem, Stmts, IInv
<1>2. p \in SyncProcs /\ SyncStmtOK(s)
  BY <1>1 DEF IInv, PendingOK, HandlerOps, Procs
<1>3. ASSUME NEW i \in s.items, outbox' = {j \in outbox : j.no # i.no},
             NEW j \in outbox \ outbox', j.kind = "reportVersion"
      PROVE  Landed(j.r, j.v)
  <2>1. j.no = i.no
    BY <1>3
  <2>2. j = i
    BY <1>1, <1>2, <1>3, <2>1 DEF SyncStmtOK, NumberStmtOK, ItemsOf
  <2>. QED BY <1>1, <1>2, <1>3, <2>2 DEF SyncStmtOK, BatchStmtOK
<1>4. \/ outbox' = outbox
      \/ \E i \in s.items : outbox' = {j \in outbox : j.no # i.no}
  BY DEF AckOutboxItem
<1>. QED BY <1>2, <1>3, <1>4 DEF AckOutboxItem

\* What an enqueue adds: one item, with a fresh number; if it is a version,
\* the handler has promised it and it is committed.
LEMMA EnqueueEffect ==
  ASSUME IInv, NEW p \in Procs, EnqueueOutboxItem(p)
  PROVE  LET s == Head(todo[p]) IN
         \E i \in Item :
           /\ p = "handler" /\ todo[p] # <<>>
           /\ outbox' = outbox \cup {i} /\ i.no = nextNo /\ nextNo' = nextNo + 1
           /\ i.kind = "reportVersion" =>
                /\ s.op = "enqueueVersion" /\ s.r = i.r /\ s.v = i.v
                /\ IsCommitted(i.r, i.v)
<1>. DEFINE s == Head(todo[p])
            kind == IF s.op = "enqueueVersion" THEN "reportVersion"
                                               ELSE "reportAuditEvent"
            i == [no |-> nextNo, kind |-> kind, r |-> s.r, v |-> s.v]
<1>1. todo[p] # <<>> /\ s.op \in {"enqueueVersion", "enqueueEvent"}
  BY DEF EnqueueOutboxItem, Stmts
<1>2. s \in Pending(p) /\ s \in Stmt /\ TypeOK
  BY <1>1, HeadPending DEF IInv
<1>3. p = "handler"
  BY <1>1, <1>2 DEF IInv, PendingOK, SyncStmtOK, SyncOps, Procs
<1>4. s.r \in Reports /\ s.v \in Nat /\ nextNo \in Nat
  BY <1>1, <1>2, StmtFields DEF TypeOK
<1>5. i \in Item
  BY <1>4 DEF Item
<1>6. kind = "reportVersion" => s.op = "enqueueVersion" /\ IsCommitted(s.r, s.v)
  <2>1. HAVE kind = "reportVersion"
  <2>2. s.op = "enqueueVersion"
    BY <2>1
  <2>3. <<s.r, s.v>> \in Promised(s)
    BY <2>2 DEF Promised
  <2>4. \A x \in Promised(s) : IsCommitted(x[1], x[2])
    BY <1>1, <1>3 DEF IInv, HandlerOK
  <2>. QED BY <2>2, <2>3, <2>4
<1>7. outbox' = outbox \cup {i} /\ nextNo' = nextNo + 1
  BY DEF EnqueueOutboxItem
<1>. QED BY <1>1, <1>3, <1>5, <1>6, <1>7

\* A push lands copies of versions that are queued or landed already, with
\* the data the vessel holds.
LEMMA PushEffect ==
  ASSUME IInv, NEW p \in SyncProcs, PushOutbox(p)
  PROVE  \A c \in landed' \ landed :
           Out(c.r, c.v) /\ rows[c.r][c.v].data = c.data
<1>. DEFINE s == Head(todo[p])
<1>1. todo[p] # <<>> /\ s.op = "push" /\ s \in Pending(p)
  BY HeadPending DEF PushOutbox, Stmts, IInv, Procs
<1>2. BatchStmtOK(s)
  BY <1>1 DEF IInv, PendingOK, SyncStmtOK
<1>3. \E I \in SUBSET s.items : landed' = landed \cup LandedBy(I, s.payload)
  BY DEF PushOutbox
<1>4. landed' \ landed \subseteq s.payload
  BY <1>3 DEF LandedBy
<1>. QED BY <1>1, <1>2, <1>4 DEF BatchStmtOK

\* A version that is queued or landed stays queued or landed.
LEMMA OutKept ==
  ASSUME IInv, [Next]_vars, NEW r, NEW v, Out(r, v)
  PROVE  Out(r, v)'
<1>1. CASE Landed(r, v)
  BY <1>1, LandedKept DEF Out
<1>2. CASE InOutbox(r, v)
  <2>1. PICK i \in outbox : i.kind = "reportVersion" /\ i.r = r /\ i.v = v
    BY <1>2 DEF InOutbox
  <2>2. i \in outbox' \/ Landed(r, v)
    BY <2>1, OutboxChange, EnqueueEffect, AckEffect
  <2>. QED BY <1>1, <2>1, <2>2 DEF Out, InOutbox
<1>. QED BY <1>1, <1>2 DEF Out

\* A version becomes known outside only when the handler enqueues it.
LEMMA OutNew ==
  ASSUME IInv, [Next]_vars, NEW r, NEW v, Out(r, v)'
  PROVE  \/ Out(r, v)
         \/ /\ EnqueueOutboxItem("handler")
            /\ Head(todo["handler"]).op = "enqueueVersion"
            /\ Head(todo["handler"]).r = r /\ Head(todo["handler"]).v = v
<1>1. CASE Landed(r, v)'
  <2>1. PICK c \in landed' : c.r = r /\ c.v = v
    BY <1>1 DEF Landed
  <2>2. CASE c \in landed
    BY <2>1, <2>2 DEF Out, Landed
  <2>3. CASE c \notin landed
    BY <2>1, <2>3, OfficeChange, PushEffect
  <2>. QED BY <2>2, <2>3
<1>2. CASE InOutbox(r, v)'
  <2>1. PICK i \in outbox' : i.kind = "reportVersion" /\ i.r = r /\ i.v = v
    BY <1>2 DEF InOutbox
  <2>2. CASE i \in outbox
    BY <2>1, <2>2 DEF Out, InOutbox
  <2>3. CASE i \notin outbox
    <3>1. PICK p \in Procs : EnqueueOutboxItem(p)
      BY <2>1, <2>3, OutboxChange, AckEffect
    <3>. QED BY <2>1, <2>3, <3>1, EnqueueEffect
  <2>. QED BY <2>2, <2>3
<1>. QED BY <1>1, <1>2 DEF Out

\* What is known outside is committed.
LEMMA OutCommitted ==
  ASSUME IInv, NEW r, NEW v, Out(r, v)
  PROVE  /\ r \in Reports /\ v \in DOMAIN rows[r] /\ InChain(rows[r][v].state)
         /\ ~ EditTarget(r, v)
<1>1. r \in Reports
  BY DEF Out, InOutbox, Landed, IInv, TypeOK, Item, Copy
<1>2. IsCommitted(r, v)
  BY DEF IInv, OutOK, Out, InOutbox, Landed
<1>3. ~ EditTarget(r, v)
  BY DEF IInv, HandlerOK, HeadOK, EditTarget
<1>. QED BY <1>1, <1>2, <1>3 DEF IsCommitted, Exists

-----------------------------------------------------------------------------
(* The conjuncts about tables and streams. *)

\* No step leaves a draft under a newer version.
LEMMA HistoryStep ==
  ASSUME IInv, [Next]_vars PROVE HistoryCommitted'
<1>. SUFFICES ASSUME NEW r \in Reports, NEW v \in DOMAIN rows'[r],
                     v < Len(rows'[r])
              PROVE  InChain(rows'[r][v].state)
  BY DEF HistoryCommitted
<1>0. HistoryCommitted /\ TypeOK
  BY DEF IInv
<1>1. CASE rows' = rows
  BY <1>0, <1>1 DEF HistoryCommitted
<1>2. ASSUME NEW p \in Procs, SaveReport(p) PROVE InChain(rows'[r][v].state)
  <2>. DEFINE s == Head(todo[p])
  <2>1. todo[p] # <<>> /\ s.op = "save"
    BY <1>2, SaveEffect
  <2>2. CASE rows'[r] = rows[r]
    BY <1>0, <2>2 DEF HistoryCommitted
  <2>3. CASE rows'[r] # rows[r] /\ Exists(s.r, s.v)
    <3>1. r = s.r /\ DOMAIN rows'[r] = DOMAIN rows[r]
          /\ Len(rows'[r]) = Len(rows[r]) /\ rows'[r][s.v] = s.row
          /\ \A w \in DOMAIN rows[r] \ {s.v} : rows'[r][w] = rows[r][w]
      BY <1>2, <2>3, SaveEffect
    <3>2. CASE v # s.v
      BY <1>0, <3>1, <3>2 DEF HistoryCommitted
    <3>3. CASE v = s.v
      <4>1. InChain(s.row.state) \/ (Editable(s.row.state) /\ HeadOK(s))
        BY <2>1, SaveCases
      <4>2. CASE InChain(s.row.state)
        BY <3>1, <3>3, <4>2
      <4>3. CASE Editable(s.row.state) /\ HeadOK(s)
        <5>1. s.v = Len(rows[r]) \/ s.v = Len(rows[r]) + 1
          BY <2>1, <3>1, <4>3 DEF HeadOK
        <5>2. Len(rows[r]) \in Nat
          BY <1>0, RowType
        <5>. QED BY <3>1, <3>3, <5>1, <5>2
      <4>. QED BY <4>1, <4>2, <4>3
    <3>. QED BY <3>2, <3>3
  <2>4. CASE rows'[r] # rows[r] /\ ~ Exists(s.r, s.v)
    <3>1. r = s.r /\ Len(rows'[r]) = Len(rows[r]) + 1
          /\ DOMAIN rows'[r] = DOMAIN rows[r] \cup {Len(rows[r]) + 1}
          /\ \A w \in DOMAIN rows[r] : rows'[r][w] = rows[r][w]
      <4>1. r = s.r /\ rows' # rows
        BY <1>2, <2>4, SaveEffect
      <4>. QED BY <1>2, <2>4, <4>1, SaveEffect
    <3>2. Editable(s.row.state) /\ HeadOK(s)
      BY <2>1, <2>4, SaveCases
    <3>3. rows[r] \in Seq(Row) /\ s.v \in Nat
      BY <2>1, <3>1, SaveCases
    <3>4. s.v = Len(rows[r]) + 1
      <4>1. (s.v = Len(rows[r]) \/ s.v = Len(rows[r]) + 1) /\ s.v >= 1
        BY <2>1, <3>1, <3>2 DEF HeadOK
      <4>2. s.v \notin 1..Len(rows[r])
        BY <2>4, <3>1, <3>3 DEF Exists
      <4>. QED BY <3>3, <4>1, <4>2
    <3>5. \A w \in DOMAIN rows[r] : InChain(rows[r][w].state)
      BY <2>1, <3>1, <3>2, <3>4 DEF HeadOK
    <3>6. v \in DOMAIN rows[r]
      BY <3>1, <3>3
    <3>. QED BY <3>1, <3>5, <3>6
  <2>. QED BY <2>2, <2>3, <2>4
<1>3. ASSUME NEW p \in Procs, DeleteRows(p) PROVE InChain(rows'[r][v].state)
  <2>. DEFINE s == Head(todo[p])
  <2>1. CASE r # s.r
    BY <1>0, <1>3, <2>1, DeleteEffect DEF HistoryCommitted
  <2>2. CASE r = s.r
    <3>1. rows'[r] = <<>>
      BY <1>3, <2>2, DeleteEffect
    <3>. QED BY <3>1
  <2>. QED BY <2>1, <2>2
<1>. QED BY <1>1, <1>2, <1>3, RowsChange

\* No step makes a queued or landed version uncommitted, or the
\* office's copy of it untrue.
LEMMA OutStep ==
  ASSUME IInv, [Next]_vars, TypeOK' PROVE OutOK'
<1>1. ASSUME NEW r, NEW v, Out(r, v)
      PROVE  IsCommitted(r, v)' /\ rows'[r][v].data = rows[r][v].data
  BY <1>1, OutCommitted, CommittedKept DEF IsCommitted, Exists
<1>2. ASSUME NEW i \in outbox', i.kind = "reportVersion" PROVE IsCommitted(i.r, i.v)'
  <2>1. CASE Out(i.r, i.v)
    BY <1>1, <2>1
  <2>2. CASE ~ Out(i.r, i.v)
    <3>1. Out(i.r, i.v)'
      BY <1>2 DEF Out, InOutbox
    <3>2. EnqueueOutboxItem("handler") /\ "handler" \in Procs
          /\ Head(todo["handler"]).op = "enqueueVersion"
          /\ Head(todo["handler"]).r = i.r /\ Head(todo["handler"]).v = i.v
      BY <2>2, <3>1, OutNew DEF Procs
    <3>3. i \notin outbox
      BY <1>2, <2>2 DEF Out, InOutbox
    <3>4. IsCommitted(i.r, i.v)
      BY <1>2, <3>2, <3>3, EnqueueEffect
    <3>5. rows' = rows
      BY <3>2 DEF EnqueueOutboxItem
    <3>. QED BY <3>4, <3>5 DEF IsCommitted, Exists
  <2>. QED BY <2>1, <2>2
<1>3. ASSUME NEW c \in landed'
      PROVE  IsCommitted(c.r, c.v)' /\ rows'[c.r][c.v].data = c.data
  <2>1. Out(c.r, c.v) /\ rows[c.r][c.v].data = c.data
    <3>1. CASE c \in landed
      BY <3>1 DEF Out, Landed, IInv, OutOK
    <3>2. CASE c \notin landed
      BY <1>3, <3>2, OfficeChange, PushEffect
    <3>. QED BY <3>1, <3>2
  <2>. QED BY <1>1, <2>1
<1>. QED BY <1>2, <1>3 DEF OutOK

\* No step marks a version synced that has not landed.
LEMMA SyncedStep ==
  ASSUME IInv, [Next]_vars PROVE SyncedOK'
<1>. SUFFICES ASSUME NEW r \in Reports, NEW v \in DOMAIN rows'[r],
                     rows'[r][v].state = "synced"
              PROVE  Landed(r, v)
  BY LandedKept DEF SyncedOK
<1>0. SyncedOK
  BY DEF IInv
<1>1. CASE rows'[r] = rows[r]
  BY <1>0, <1>1 DEF SyncedOK
<1>2. ASSUME NEW p \in Procs, SaveReport(p), rows'[r] # rows[r] PROVE Landed(r, v)
  <2>. DEFINE s == Head(todo[p])
  <2>1. todo[p] # <<>> /\ s.op = "save" /\ r = s.r
    BY <1>2, SaveEffect
  <2>2. CASE v \in DOMAIN rows[r] /\ rows'[r][v] = rows[r][v]
    BY <1>0, <2>2 DEF SyncedOK
  <2>3. CASE rows'[r][v] = s.row /\ v = s.v
    BY <2>1, <2>3, SaveCases DEF HeadOK
  <2>4. CASE ~ Exists(s.r, s.v) /\ rows'[r][v] = s.row
    <3>1. s.row.state # "synced"
      BY <2>1, <2>4, SaveCases DEF HeadOK
    <3>. QED BY <2>4, <3>1
  <2>. QED BY <1>2, <2>1, <2>2, <2>3, <2>4, SaveEffect
<1>3. ASSUME NEW p \in Procs, DeleteRows(p), rows'[r] # rows[r] PROVE Landed(r, v)
  <2>1. rows'[r] = <<>>
    BY <1>3, DeleteEffect
  <2>. QED BY <2>1
<1>. QED BY <1>1, <1>2, <1>3, RowsChange

\* No step gives two outbox items one number.
LEMMA NumbersStep ==
  ASSUME IInv, [Next]_vars PROVE NumbersOK'
<1>0. NumbersOK /\ nextNo \in Nat /\ outbox \subseteq Item
  BY DEF IInv, TypeOK
<1>1. CASE outbox' = outbox /\ nextNo' = nextNo
  BY <1>0, <1>1 DEF NumbersOK
<1>2. ASSUME NEW p \in Procs, AckOutboxItem(p) PROVE NumbersOK'
  BY <1>0, <1>2, AckEffect DEF NumbersOK
<1>3. ASSUME NEW p \in Procs, EnqueueOutboxItem(p) PROVE NumbersOK'
  <2>1. PICK i \in Item : outbox' = outbox \cup {i} /\ i.no = nextNo
                          /\ nextNo' = nextNo + 1
    BY <1>3, EnqueueEffect
  <2>2. \A j \in outbox : j.no \in Nat
    BY <1>0 DEF Item
  <2>. QED BY <1>0, <2>1, <2>2 DEF NumbersOK
<1>. QED BY <1>1, <1>2, <1>3, OutboxChange

\* The office's streams only grow, and speak of landed reports.
LEMMA StreamsStep ==
  ASSUME IInv, [Next]_vars
  PROVE  /\ StreamsOK'
         /\ DOMAIN notices \subseteq DOMAIN notices' /\ Len(notices) <= Len(notices')
         /\ DOMAIN remarks \subseteq DOMAIN remarks' /\ Len(remarks) <= Len(remarks')
<1>. DEFINE G == /\ \A i \in DOMAIN notices' : LandedReport(notices'[i].r)
                 /\ \A i \in DOMAIN remarks' : LandedReport(remarks'[i].r)
                 /\ DOMAIN notices \subseteq DOMAIN notices'
                 /\ Len(notices) <= Len(notices')
                 /\ DOMAIN remarks \subseteq DOMAIN remarks'
                 /\ Len(remarks) <= Len(remarks')
<1>0. StreamsOK /\ notices \in Seq(Notice) /\ remarks \in Seq(Remark)
  BY DEF IInv, TypeOK
<1>1. CASE notices' = notices /\ remarks' = remarks
  <2>1. Len(notices) \in Nat /\ Len(remarks) \in Nat
    BY <1>0
  <2>2. G
    BY <1>0, <1>1, <2>1 DEF StreamsOK
  <2>. QED BY <2>2, LandedKept DEF StreamsOK
<1>2. CASE Office
  <2>1. PICK r \in Reports, v \in 1..MaxVersions :
          \/ \E rules \in SUBSET RuleIDs \ {{}} : OfficeInvalidates(r, v, rules)
          \/ OfficeRemarks(r, v)
    BY <1>2 DEF Office
  <2>2. LandedReport(r) /\ v \in Nat
    <3>1. LatestLanded(r, v)
      BY <2>1 DEF OfficeInvalidates, OfficeRemarks
    <3>2. LandedReport(r)
      BY <3>1 DEF LatestLanded, Landed, LandedReport
    <3>3. v \in Nat
      BY BoundsAssumption
    <3>. QED BY <3>2, <3>3
  <2>3. ASSUME NEW rules \in SUBSET RuleIDs, OfficeInvalidates(r, v, rules) PROVE G
    <3>. DEFINE n == [r |-> r, v |-> v, rules |-> rules]
    <3>1. n \in Notice /\ n.r = r
      BY <2>2 DEF Notice
    <3>. HIDE DEF n
    <3>2. /\ Len(Append(notices, n)) = Len(notices) + 1
          /\ DOMAIN Append(notices, n) = DOMAIN notices \cup {Len(notices) + 1}
          /\ Append(notices, n)[Len(notices) + 1] = n
          /\ \A k \in DOMAIN notices : Append(notices, n)[k] = notices[k]
      BY <1>0, <3>1, AppendList
    <3>3. notices' = Append(notices, n) /\ remarks' = remarks
      BY <2>3 DEF OfficeInvalidates, n
    <3>4. Len(notices) \in Nat /\ Len(remarks) \in Nat
      BY <1>0
    <3>. QED BY <1>0, <2>2, <3>1, <3>2, <3>3, <3>4 DEF StreamsOK
  <2>4. ASSUME OfficeRemarks(r, v) PROVE G
    <3>. DEFINE n == [r |-> r, v |-> v]
    <3>1. n \in Remark /\ n.r = r
      BY <2>2 DEF Remark
    <3>. HIDE DEF n
    <3>2. /\ Len(Append(remarks, n)) = Len(remarks) + 1
          /\ DOMAIN Append(remarks, n) = DOMAIN remarks \cup {Len(remarks) + 1}
          /\ Append(remarks, n)[Len(remarks) + 1] = n
          /\ \A k \in DOMAIN remarks : Append(remarks, n)[k] = remarks[k]
      BY <1>0, <3>1, AppendList
    <3>3. remarks' = Append(remarks, n) /\ notices' = notices
      BY <2>4 DEF OfficeRemarks, n
    <3>4. Len(notices) \in Nat /\ Len(remarks) \in Nat
      BY <1>0
    <3>. QED BY <1>0, <2>2, <3>1, <3>2, <3>3, <3>4 DEF StreamsOK
  <2>5. G
    BY <2>1, <2>3, <2>4
  <2>. QED BY <2>5, LandedKept DEF StreamsOK
<1>. QED BY <1>1, <1>2, OfficeChange

\* A report with versions has been created.
LEMMA UsedStep ==
  ASSUME IInv, [Next]_vars PROVE UsedOK'
<1>0. UsedOK /\ TypeOK
  BY DEF IInv
<1>1. used \subseteq used'
  <2>1. ASSUME NEW p \in Procs, Execute(p) \/ Abort(p) PROVE used' = used
    BY <2>1 DEF Execute, Abort
  <2>2. ASSUME NEW p \in SyncProcs, Sync(p) PROVE used' = used
    BY <2>2 DEF Sync, PushOutboxBatch, PushOutbox, PullInboxBatch, PullInbox
  <2>3. Office => used' = used
    BY DEF Office, OfficeInvalidates, OfficeRemarks
  <2>4. Request => used \subseteq used'
    BY DEF Request, CreateReport, SaveSectionOf, CheckReport, SubmitReport,
       StartCorrection, AcknowledgeFinding, DeleteReport
  <2>5. UNCHANGED vars => used' = used
    BY DEF vars
  <2>. QED BY <2>1, <2>2, <2>3, <2>4, <2>5 DEF Next
<1>. SUFFICES ASSUME NEW r \in Reports, rows'[r] # <<>> PROVE r \in used
  BY <1>1 DEF UsedOK
<1>2. CASE rows[r] # <<>>
  BY <1>0, <1>2 DEF UsedOK
<1>3. ASSUME rows[r] = <<>>, NEW p \in Procs, SaveReport(p) PROVE r \in used
  <2>. DEFINE s == Head(todo[p])
  <2>1. todo[p] # <<>> /\ s.op = "save" /\ r = s.r
    BY <1>3, SaveEffect
  <2>2. ~ Exists(s.r, s.v)
    BY <1>3, <2>1 DEF Exists
  <2>. QED BY <2>1, <2>2, SaveCases DEF HeadOK
<1>4. ASSUME rows[r] = <<>>, NEW p \in Procs, DeleteRows(p) PROVE r \in used
  BY <1>4, DeleteEffect
<1>. QED BY <1>2, <1>3, <1>4, RowsChange

-----------------------------------------------------------------------------
(* Pending statements. *)

\* The elements of an explicit list.
LEMMA ElemsLists ==
  /\ Elems(<<>>) = {}
  /\ \A a : Elems(<<a>>) = {a}
  /\ \A a, b : Elems(<<a, b>>) = {a, b}
  /\ \A a, b, c : Elems(<<a, b, c>>) = {a, b, c}
  /\ \A a, b, c, d : Elems(<<a, b, c, d>>) = {a, b, c, d}
  /\ \A a, b, c, d, e : Elems(<<a, b, c, d, e>>) = {a, b, c, d, e}
<1>1. Elems(<<>>) = {}
  BY DEF Elems
<1>2. ASSUME NEW a PROVE Elems(<<a>>) = {a}
  BY DEF Elems
<1>3. ASSUME NEW a, NEW b PROVE Elems(<<a, b>>) = {a, b}
  BY DEF Elems
<1>4. ASSUME NEW a, NEW b, NEW c PROVE Elems(<<a, b, c>>) = {a, b, c}
  BY DEF Elems
<1>5. ASSUME NEW a, NEW b, NEW c, NEW d PROVE Elems(<<a, b, c, d>>) = {a, b, c, d}
  BY DEF Elems
<1>6. ASSUME NEW a, NEW b, NEW c, NEW d, NEW e
      PROVE  Elems(<<a, b, c, d, e>>) = {a, b, c, d, e}
  BY DEF Elems
<1>. QED BY <1>1, <1>2, <1>3, <1>4, <1>5, <1>6

\* A concatenation has the elements of its parts.
LEMMA ElemsConcat ==
  ASSUME NEW S, NEW x \in Seq(S), NEW y \in Seq(S)
  PROVE  Elems(x \o y) \subseteq Elems(x) \cup Elems(y)
<1>1. \A k \in DOMAIN (x \o y) :
        \/ k \in DOMAIN x /\ (x \o y)[k] = x[k]
        \/ k - Len(x) \in DOMAIN y /\ (x \o y)[k] = y[k - Len(x)]
  OBVIOUS
<1>. QED BY <1>1 DEF Elems

\* What is pending after a step that goes on with s.
LEMMA PendingThen ==
  ASSUME TypeOK, NEW p \in Procs, todo[p] # <<>>, NEW s \in Seq(Stmt),
         Then(p, s)
  PROVE  /\ Pending(p)' \subseteq Elems(s) \cup Elems(Tail(todo[p]))
         /\ Elems(Tail(todo[p])) \subseteq Pending(p)
         /\ \A q \in Procs \ {p} : Pending(q)' = Pending(q)
<1>1. todo'[p] = s \o Tail(todo[p]) /\ todo[p] \in Seq(Stmt)
  BY ThenTodo DEF TypeOK
<1>2. Pending(p)' = Elems(s \o Tail(todo[p])) /\ Pending(p) = Elems(todo[p])
  BY <1>1 DEF Pending, Elems
<1>3. \A q \in Procs \ {p} : todo'[q] = todo[q]
  BY ThenTodo
<1>4. Elems(s \o Tail(todo[p])) \subseteq Elems(s) \cup Elems(Tail(todo[p]))
      /\ Elems(Tail(todo[p])) \subseteq Elems(todo[p])
  BY <1>1, ListStep
<1>5. \A q \in Procs \ {p} : Pending(q)' = Pending(q)
  BY <1>3 DEF Pending
<1>. QED BY <1>2, <1>4, <1>5

\* What is pending after a process has returned.
LEMMA PendingReturn ==
  ASSUME TypeOK, NEW p \in Procs, Return(p)
  PROVE  /\ Pending(p)' = {}
         /\ \A q \in Procs \ {p} : Pending(q)' = Pending(q)
<1>1. todo'[p] = <<>> /\ \A q \in Procs \ {p} : todo'[q] = todo[q]
  BY ReturnTodo
<1>. QED BY <1>1 DEF Pending

\* What is pending is a set of statements.
LEMMA PendingStmt ==
  ASSUME TypeOK, NEW p \in Procs PROVE Pending(p) \subseteq Stmt
<1>1. todo[p] \in Seq(Stmt)
  BY DEF TypeOK
<1>. QED BY <1>1 DEF Pending

\* What a sync process relies on stays true, whatever step is taken.
LEMMA SyncStmtStable ==
  ASSUME IInv, [Next]_vars, NEW s \in Stmt, SyncStmtOK(s)
  PROVE  SyncStmtOK(s)'
<1>0. TypeOK
  BY DEF IInv
<1>1. StreamStmtOK(s)'
  <2>1. StreamStmtOK(s)
    BY DEF SyncStmtOK
  <2>2. /\ s.op = "notices" => s.hi \in Nat
        /\ s.op = "remarks" => s.hi \in Nat
    BY StmtFields
  <2>3. Len(notices) \in Nat /\ Len(remarks) \in Nat
        /\ Len(notices') \in Nat /\ Len(remarks') \in Nat
    BY <1>0, TypeStep DEF TypeOK
  <2>. QED BY <2>1, <2>2, <2>3, StreamsStep DEF StreamStmtOK
<1>2. NumberStmtOK(s)'
  <2>1. NumberStmtOK(s) /\ nextNo \in Nat
    BY <1>0 DEF SyncStmtOK, TypeOK
  <2>2. \A i \in ItemsOf(s) : i.no \in Nat
    BY StmtFields DEF ItemsOf, Item
  <2>3. CASE outbox' = outbox /\ nextNo' = nextNo
    BY <2>1, <2>3 DEF NumberStmtOK, ItemsOf
  <2>4. ASSUME NEW p \in Procs, AckOutboxItem(p) PROVE NumberStmtOK(s)'
    BY <2>1, <2>4, AckEffect DEF NumberStmtOK, ItemsOf
  <2>5. ASSUME NEW p \in Procs, EnqueueOutboxItem(p) PROVE NumberStmtOK(s)'
    <3>1. PICK i \in Item : outbox' = outbox \cup {i} /\ i.no = nextNo
                            /\ nextNo' = nextNo + 1
      BY <2>5, EnqueueEffect
    <3>. QED BY <2>1, <2>2, <3>1 DEF NumberStmtOK, ItemsOf
  <2>. QED BY <2>3, <2>4, <2>5, OutboxChange
<1>3. BatchStmtOK(s)'
  <2>1. BatchStmtOK(s)
    BY DEF SyncStmtOK
  <2>2. \A r, v : Out(r, v) => Out(r, v)'
    BY OutKept
  <2>3. \A r, v : Out(r, v) => rows'[r][v].data = rows[r][v].data
    BY OutCommitted, CommittedKept
  <2>. QED BY <2>1, <2>2, <2>3, LandedKept DEF BatchStmtOK
<1>4. ASSUME s.op = "save"
      PROVE  /\ InChain(s.row.state) /\ s.row.state # "submitted"
             /\ Exists(s.r, s.v)' /\ LandedReport(s.r)'
             /\ s.row.state = "synced" =>
                  Landed(s.r, s.v)' /\ s.row.data = rows'[s.r][s.v].data
  <2>1. /\ InChain(s.row.state) /\ s.row.state # "submitted"
        /\ Exists(s.r, s.v) /\ LandedReport(s.r)
        /\ s.row.state = "synced" =>
             Landed(s.r, s.v) /\ s.row.data = rows[s.r][s.v].data
    BY <1>4 DEF SyncStmtOK
  <2>2. s.r \in Reports
    BY <1>4, StmtFields
  <2>3. s.v \in DOMAIN rows'[s.r]
    <3>1. ASSUME NEW p \in Procs, SaveReport(p) PROVE s.v \in DOMAIN rows'[s.r]
      BY <2>1, <2>2, <3>1, SaveEffect DEF Exists
    <3>2. ASSUME NEW p \in Procs, DeleteRows(p) PROVE s.v \in DOMAIN rows'[s.r]
      <4>1. Head(todo[p]).r # s.r
        BY <2>1, <3>2, DeleteEffect DEF HeadOK
      <4>. QED BY <2>1, <2>2, <3>2, <4>1, DeleteEffect DEF Exists
    <3>. QED BY <2>1, <3>1, <3>2, RowsChange DEF Exists
  <2>4. s.row.state = "synced" => s.row.data = rows'[s.r][s.v].data
    <3>1. Landed(s.r, s.v) => rows'[s.r][s.v].data = rows[s.r][s.v].data
      BY OutCommitted, CommittedKept DEF Out
    <3>. QED BY <2>1, <3>1
  <2>. QED BY <2>1, <2>3, <2>4, LandedKept DEF Exists
<1>. QED BY <1>1, <1>2, <1>3, <1>4 DEF SyncStmtOK

\* The statements a sync process adds to its list are backed by the state in
\* which it adds them.
LEMMA SyncExecuteNew ==
  ASSUME IInv, NEW p \in SyncProcs, Execute(p), NEW t \in Pending(p)'
  PROVE  t \in Pending(p) \/ SyncStmtOK(t)
<1>. DEFINE s == Head(todo[p])
            G == t \in Pending(p) \/ SyncStmtOK(t)
            Plain(u) == /\ u.op \in SyncOps \ {"save", "push", "ackAll",
                                "markSynced", "notices", "storeNotice",
                                "applyNotice", "remarks", "storeRemark",
                                "applyRemarks"}
<1>0. TypeOK /\ p \in Procs /\ todo[p] # <<>> /\ s \in Stmt /\ s \in Pending(p)
      /\ SyncStmtOK(s)
  <2>1. TypeOK /\ p \in Procs /\ todo[p] # <<>>
    BY ExecuteTodo DEF Procs, IInv
  <2>2. s \in Stmt /\ s \in Pending(p)
    BY <2>1, HeadPending
  <2>. QED BY <2>1, <2>2 DEF IInv, PendingOK
<1>p. ASSUME NEW u, Plain(u) PROVE SyncStmtOK(u)
  BY <1>p DEF SyncStmtOK, StreamStmtOK, NumberStmtOK, BatchStmtOK, ItemsOf, SyncOps
<1>t. ASSUME NEW n \in Seq(Stmt), Then(p, n), \A u \in Elems(n) : SyncStmtOK(u)
      PROVE  G
  <2>1. t \in Elems(n) \/ t \in Pending(p)
    BY <1>0, <1>t, PendingThen
  <2>. QED BY <1>t, <2>1
<1>e. Elems(<<>>) = {} /\ <<>> \in Seq(Stmt)
  BY ElemsLists
<1>r. Return(p) => G
  BY <1>0, PendingReturn
<1>1. ASSUME Then(p, <<>>) PROVE G
  BY <1>1, <1>t, <1>e
<1>2. ASSUME AckOutboxItem(p) PROVE G
  <2>1. s.op = "ackAll"
    BY <1>2 DEF AckOutboxItem, Stmts
  <2>2. ASSUME NEW i \in s.items,
               Then(p, (IF i.kind = "reportVersion"
                        THEN <<[op |-> "markSynced", r |-> i.r, v |-> i.v]>>
                        ELSE <<>>)
                       \o <<[op |-> "ackAll", items |-> s.items \ {i}]>>)
        PROVE G
    <3>. DEFINE a == [op |-> "markSynced", r |-> i.r, v |-> i.v]
                b == [op |-> "ackAll", items |-> s.items \ {i}]
                x == IF i.kind = "reportVersion" THEN <<a>> ELSE <<>>
    <3>1. SyncStmtOK(b)
      BY <1>0, <2>1 DEF SyncStmtOK, StreamStmtOK, NumberStmtOK, BatchStmtOK,
         ItemsOf, SyncOps
    <3>2. i.kind = "reportVersion" => SyncStmtOK(a)
      <4>1. i.kind = "reportVersion" => Landed(i.r, i.v)
        BY <1>0, <2>1 DEF SyncStmtOK, BatchStmtOK
      <4>. QED BY <4>1 DEF SyncStmtOK, StreamStmtOK, NumberStmtOK, BatchStmtOK,
                  ItemsOf, SyncOps
    <3>3. x \o <<b>> \in Seq(Stmt)
      BY <1>0, <2>1, ExecuteStmts
    <3>4. i \in Item /\ s.items \ {i} \in SUBSET Item
      BY <1>0, <2>1, StmtFields
    <3>5. a \in Stmt /\ b \in Stmt
      BY <3>4, StmtIntro DEF Item
    <3>. HIDE DEF a, b
    <3>6. x \in Seq(Stmt) /\ <<b>> \in Seq(Stmt)
      BY <3>5
    <3>e. \A u \in Elems(x) \cup Elems(<<b>>) : SyncStmtOK(u)
      BY <3>1, <3>2, ElemsLists
    <3>. HIDE DEF x
    <3>7. \A u \in Elems(x \o <<b>>) : SyncStmtOK(u)
      BY <3>6, <3>e, ElemsConcat
    <3>8. Then(p, x \o <<b>>)
      BY <2>2 DEF x, a, b
    <3>. QED BY <1>t, <3>3, <3>7, <3>8
  <2>. QED BY <1>1, <1>2, <2>2 DEF AckOutboxItem
<1>3. ASSUME MarkReportSynced(p) PROVE G
  <2>1. s.op = "markSynced" /\ Landed(s.r, s.v)
    BY <1>0, <1>3 DEF MarkReportSynced, Stmts, SyncStmtOK, BatchStmtOK
  <2>. DEFINE a == save(s.r, s.v, MarkSynced(rows[s.r][s.v]))
              b == event(s.r, s.v, "synced")
  <2>2. ASSUME Exists(s.r, s.v), Then(p, <<a, b>>) PROVE G
    <3>0. /\ MarkSynced(rows[s.r][s.v]).state = "synced"
          /\ MarkSynced(rows[s.r][s.v]).data = rows[s.r][s.v].data
      <4>1. rows[s.r][s.v] \in Row
        BY <1>0, <2>1, <2>2, StmtFields, RowType DEF Exists
      <4>. QED BY <4>1 DEF MarkSynced, Row
    <3>1. SyncStmtOK(a)
      BY <2>1, <2>2, <3>0 DEF SyncStmtOK, StreamStmtOK, NumberStmtOK, BatchStmtOK,
         ItemsOf, SyncOps, save, InChain, Editable, Landed, LandedReport
    <3>2. SyncStmtOK(b)
      BY <1>p DEF event, SyncOps
    <3>3. <<a, b>> \in Seq(Stmt)
      BY <1>0, <2>1, <2>2, ExecuteStmts
    <3>. HIDE DEF a, b
    <3>4. \A u \in Elems(<<a, b>>) : SyncStmtOK(u)
      BY <3>1, <3>2, ElemsLists
    <3>. QED BY <1>t, <2>2, <3>3, <3>4
  <2>. QED BY <1>1, <1>3, <1>r, <2>2 DEF MarkReportSynced
<1>4. ASSUME EachNotice(p) PROVE G
  <2>1. s.op = "notices" /\ s.i \in Nat /\ s.hi \in Nat /\ s.i >= 1
        /\ s.hi <= Len(notices)
    BY <1>0, <1>4, StmtFields DEF EachNotice, Stmts, SyncStmtOK, StreamStmtOK
  <2>. DEFINE a == [op |-> "storeNotice", i |-> s.i]
              b == [op |-> "applyNotice", i |-> s.i]
              c == [op |-> "notices", i |-> s.i + 1, hi |-> s.hi]
  <2>2. ASSUME s.i <= s.hi, Then(p, <<a, b, c>>) PROVE G
    <3>0. s.i \in DOMAIN notices
      BY <1>0, <2>1, <2>2 DEF TypeOK
    <3>1. SyncStmtOK(a) /\ SyncStmtOK(b) /\ SyncStmtOK(c)
      BY <2>1, <3>0 DEF SyncStmtOK, StreamStmtOK, NumberStmtOK, BatchStmtOK,
         ItemsOf, SyncOps
    <3>3. <<a, b, c>> \in Seq(Stmt)
      BY <1>0, <2>1, ExecuteStmts
    <3>. HIDE DEF a, b, c
    <3>4. \A u \in Elems(<<a, b, c>>) : SyncStmtOK(u)
      BY <3>1, ElemsLists
    <3>. QED BY <1>t, <2>2, <3>3, <3>4
  <2>. QED BY <1>1, <1>4, <2>1, <2>2 DEF EachNotice
<1>5. ASSUME ApplyInvalidationNotice(p) PROVE G
  <2>1. s.op = "applyNotice" /\ s.i \in DOMAIN notices
    BY <1>0, <1>5 DEF ApplyInvalidationNotice, Stmts, SyncStmtOK, StreamStmtOK
  <2>. DEFINE n == notices[s.i]
              v == Len(rows[n.r])
              a == save(n.r, v, Invalidate(Latest(n.r), n.rules))
              b == event(n.r, v, "invalidated")
  <2>2. ASSUME rows[n.r] # <<>>, Then(p, <<a, b>>) PROVE G
    <3>0. LandedReport(n.r) /\ n.r \in Reports
      <4>1. n \in Notice
        BY <1>0, <2>1 DEF TypeOK
      <4>. QED BY <2>1, <4>1 DEF Notice, IInv, StreamsOK
    <3>1. v \in DOMAIN rows[n.r] /\ Latest(n.r) \in Row
      BY <1>0, <2>2, <3>0, RowType
    <3>2. Invalidate(Latest(n.r), n.rules).state = "invalidated"
      BY <3>1 DEF Invalidate, Row
    <3>3. SyncStmtOK(a)
      BY <3>0, <3>1, <3>2 DEF SyncStmtOK, StreamStmtOK, NumberStmtOK, BatchStmtOK,
         ItemsOf, SyncOps, save, InChain, Editable, Exists
    <3>4. SyncStmtOK(b)
      BY <1>p DEF event, SyncOps
    <3>5. <<a, b>> \in Seq(Stmt)
      BY <1>0, <2>1, <2>2, ExecuteStmts
    <3>. HIDE DEF a, b
    <3>6. \A u \in Elems(<<a, b>>) : SyncStmtOK(u)
      BY <3>3, <3>4, ElemsLists
    <3>. QED BY <1>t, <2>2, <3>5, <3>6
  <2>. QED BY <1>1, <1>5, <2>2 DEF ApplyInvalidationNotice
<1>6. ASSUME EachRemark(p) PROVE G
  <2>1. s.op = "remarks" /\ s.i \in Nat /\ s.hi \in Nat /\ s.i >= 1
        /\ s.hi <= Len(remarks) /\ s.new \subseteq DOMAIN remarks
    BY <1>0, <1>6, StmtFields DEF EachRemark, Stmts, SyncStmtOK, StreamStmtOK
  <2>. DEFINE new == IF s.i \in remarkRows THEN s.new ELSE s.new \cup {s.i}
              a == [op |-> "storeRemark", i |-> s.i]
              b == [op |-> "remarks", i |-> s.i + 1, hi |-> s.hi, new |-> new]
              c == [op |-> "applyRemarks", new |-> s.new]
  <2>2. ASSUME s.i <= s.hi, Then(p, <<a, b>>) PROVE G
    <3>0. s.i \in DOMAIN remarks
      BY <1>0, <2>1, <2>2 DEF TypeOK
    <3>1. SyncStmtOK(a) /\ SyncStmtOK(b)
      BY <2>1, <3>0 DEF SyncStmtOK, StreamStmtOK, NumberStmtOK, BatchStmtOK,
         ItemsOf, SyncOps
    <3>3. <<a, b>> \in Seq(Stmt)
      BY <1>0, <2>1, ExecuteStmts
    <3>. HIDE DEF a, b
    <3>4. \A u \in Elems(<<a, b>>) : SyncStmtOK(u)
      BY <3>1, ElemsLists
    <3>. QED BY <1>t, <2>2, <3>3, <3>4
  <2>3. ASSUME Then(p, <<c>>) PROVE G
    <3>1. SyncStmtOK(c)
      BY <2>1 DEF SyncStmtOK, StreamStmtOK, NumberStmtOK, BatchStmtOK,
         ItemsOf, SyncOps
    <3>2. <<c>> \in Seq(Stmt)
      BY <1>0, <2>1, ExecuteStmts
    <3>. HIDE DEF c
    <3>3. \A u \in Elems(<<c>>) : SyncStmtOK(u)
      BY <3>1, ElemsLists
    <3>. QED BY <1>t, <2>3, <3>2, <3>3
  <2>. QED BY <1>6, <2>1, <2>2, <2>3 DEF EachRemark
<1>7. ASSUME ApplyRemarks(p) PROVE G
  <2>1. s.op = "applyRemarks" /\ s.new \subseteq DOMAIN remarks
    BY <1>0, <1>7 DEF ApplyRemarks, Stmts, SyncStmtOK, StreamStmtOK
  <2>2. ASSUME NEW i \in s.new,
               LET r == remarks[i].r
                   v == Len(rows[r])
               IN Then(p, (IF rows[r] # <<>> /\ CanMarkRemarked(Latest(r))
                           THEN <<save(r, v, MarkRemarked(Latest(r))),
                                  event(r, v, "remarked")>>
                           ELSE <<>>)
                          \o <<[op |-> "applyRemarks", new |-> s.new \ {i}]>>)
        PROVE  G
    <3>. DEFINE r == remarks[i].r
                v == Len(rows[r])
                a == save(r, v, MarkRemarked(Latest(r)))
                b == event(r, v, "remarked")
                c == [op |-> "applyRemarks", new |-> s.new \ {i}]
                cond == rows[r] # <<>> /\ CanMarkRemarked(Latest(r))
                x == IF cond THEN <<a, b>> ELSE <<>>
    <3>1. x \o <<c>> \in Seq(Stmt)
      BY <1>0, <2>1, ExecuteStmts
    <3>2. LandedReport(r) /\ r \in Reports
      <4>1. remarks[i] \in Remark
        BY <1>0, <2>1 DEF TypeOK
      <4>. QED BY <2>1, <4>1 DEF Remark, IInv, StreamsOK
    <3>3. cond => SyncStmtOK(a) /\ a \in Stmt
      <4>1. HAVE cond
      <4>2. v \in DOMAIN rows[r] /\ Latest(r) \in Row /\ v \in Nat
        BY <1>0, <3>2, <4>1, RowType
      <4>3. MarkRemarked(Latest(r)).state = "remarked"
            /\ MarkRemarked(Latest(r)) \in Row
        BY <4>2, RowOps DEF MarkRemarked, Row
      <4>4. a \in Stmt
        BY <3>2, <4>2, <4>3, StmtIntro
      <4>. QED BY <3>2, <4>2, <4>3, <4>4
             DEF SyncStmtOK, StreamStmtOK, NumberStmtOK, BatchStmtOK,
             ItemsOf, SyncOps, save, InChain, Editable, Exists
    <3>4. SyncStmtOK(b) /\ b \in Stmt
      <4>1. v \in Nat /\ "remarked" \in EventTypes
        BY <1>0, <3>2, RowType DEF EventTypes
      <4>2. b \in Stmt
        BY <3>2, <4>1, StmtIntro
      <4>. QED BY <1>p, <4>2 DEF event, SyncOps
    <3>5. SyncStmtOK(c)
      BY <2>1 DEF SyncStmtOK, StreamStmtOK, NumberStmtOK, BatchStmtOK,
         ItemsOf, SyncOps
    <3>6. c \in Stmt
      BY <1>0, <2>1, StmtFields, StmtIntro
    <3>. HIDE DEF a, b, c, cond
    <3>7. x \in Seq(Stmt) /\ <<c>> \in Seq(Stmt)
      BY <3>3, <3>4, <3>6
    <3>8. \A u \in Elems(x) : SyncStmtOK(u)
      BY <3>3, <3>4, ElemsLists
    <3>9. \A u \in Elems(<<c>>) : SyncStmtOK(u)
      BY <3>5, ElemsLists
    <3>. HIDE DEF x
    <3>10. \A u \in Elems(x \o <<c>>) : SyncStmtOK(u)
      BY <3>7, <3>8, <3>9, ElemsConcat
    <3>11. Then(p, x \o <<c>>)
      BY <2>2 DEF x, a, b, c, cond
    <3>. QED BY <1>t, <3>1, <3>10, <3>11
  <2>. QED BY <1>1, <1>7, <2>2 DEF ApplyRemarks
<1>8. ASSUME RunCascade(p) \/ InvalidateFlagged(p) PROVE FALSE
  BY <1>0, <1>8 DEF RunCascade, InvalidateFlagged, Stmts, SyncStmtOK, SyncOps
<1>. QED
  BY <1>1, <1>2, <1>3, <1>4, <1>5, <1>6, <1>7, <1>8, <1>r
     DEF Execute, SaveReport, AppendEvent, EnqueueOutboxItem, DeleteRows,
     ApplyInboxPull, InsertInvalidationNotice, InsertRemark

\* The same for the steps that talk to the office; what PushOutbox acks has
\* landed in the state it leads to.
LEMMA SyncSyncNew ==
  ASSUME IInv, [Next]_vars, NEW p \in SyncProcs, Sync(p), NEW t \in Pending(p)'
  PROVE  t \in Pending(p) \/ SyncStmtOK(t) \/ SyncStmtOK(t)'
<1>. DEFINE s == Head(todo[p])
            G == t \in Pending(p) \/ SyncStmtOK(t) \/ SyncStmtOK(t)'
<1>0. TypeOK /\ p \in Procs
  BY DEF IInv, Procs
<1>1. ASSUME PushOutboxBatch(p) PROVE G
  <2>. DEFINE items == {i \in outbox : Hydrates(i)}
              a == [op |-> "push", items |-> items, payload |-> Payload(items)]
  <2>1. todo'[p] = <<>> \/ todo'[p] = <<a>>
    BY <1>0, <1>1 DEF PushOutboxBatch, TypeOK
  <2>2. t = a
    <3>1. t \in Elems(todo'[p])
      BY DEF Pending, Elems
    <3>. HIDE DEF a
    <3>2. Elems(<<>>) = {} /\ Elems(<<a>>) = {a}
      BY ElemsLists
    <3>3. CASE todo'[p] = <<>>
      BY <3>1, <3>2, <3>3
    <3>4. CASE todo'[p] = <<a>>
      BY <3>1, <3>2, <3>4
    <3>. QED BY <2>1, <3>3, <3>4
  <2>3. \A i \in items : i.kind = "reportVersion" => Out(i.r, i.v)
    BY DEF Out, InOutbox
  <2>4. BatchStmtOK(a)
    <3>1. \A i \in items : i.kind = "reportVersion" =>
            \E c \in Payload(items) : c.r = i.r /\ c.v = i.v
      <4>1. TAKE i \in items
      <4>2. HAVE i.kind = "reportVersion"
      <4>. DEFINE c == [r |-> i.r, v |-> i.v, data |-> rows[i.r][i.v].data]
      <4>3. c \in Payload(items)
        BY <4>2 DEF Payload
      <4>4. c.r = i.r /\ c.v = i.v
        OBVIOUS
      <4>. QED BY <4>3, <4>4
    <3>2. \A c \in Payload(items) :
            Out(c.r, c.v) /\ rows[c.r][c.v].data = c.data
      BY <2>3 DEF Payload
    <3>3. a.op = "push" /\ a.items = items /\ a.payload = Payload(items)
      OBVIOUS
    <3>. HIDE DEF a, items
    <3>. QED BY <2>3, <3>1, <3>2, <3>3 DEF BatchStmtOK
  <2>5. NumberStmtOK(a)
    BY DEF NumberStmtOK, ItemsOf, IInv, NumbersOK
  <2>. QED BY <2>2, <2>4, <2>5 DEF SyncStmtOK, StreamStmtOK, SyncOps
<1>2. ASSUME PushOutbox(p) PROVE G
  <2>0. todo[p] # <<>> /\ s.op = "push"
    BY <1>2 DEF PushOutbox, Stmts
  <2>1. s \in Stmt /\ s \in Pending(p)
    BY <1>0, <2>0, HeadPending
  <2>s. SyncStmtOK(s) /\ s.items \in SUBSET Item
    BY <2>0, <2>1, StmtFields DEF IInv, PendingOK
  <2>2. ASSUME NEW I \in SUBSET s.items,
               landed' = landed \cup LandedBy(I, s.payload),
               Then(p, <<[op |-> "ackAll", items |-> I]>>)
        PROVE  G
    <3>. DEFINE a == [op |-> "ackAll", items |-> I]
    <3>0. I \in SUBSET Item
      BY <2>s
    <3>1. a \in Stmt
      BY <3>0, StmtIntro
    <3>2. SyncStmtOK(a)'
      <4>1. \A i \in I : i.kind = "reportVersion" => Landed(i.r, i.v)'
        <5>1. TAKE i \in I
        <5>2. HAVE i.kind = "reportVersion"
        <5>3. \E c \in s.payload : c.r = i.r /\ c.v = i.v
          BY <2>0, <2>s, <5>2 DEF SyncStmtOK, BatchStmtOK
        <5>4. \E c \in LandedBy(I, s.payload) : c.r = i.r /\ c.v = i.v
          BY <5>2, <5>3 DEF LandedBy
        <5>. QED BY <2>2, <5>4 DEF Landed
      <4>2. NumberStmtOK(a)'
        <5>1. UNCHANGED <<outbox, nextNo>>
          BY <1>2 DEF PushOutbox, store
        <5>. QED BY <2>0, <2>s, <5>1 DEF SyncStmtOK, NumberStmtOK, ItemsOf
      <4>. QED BY <4>1, <4>2 DEF SyncStmtOK, StreamStmtOK, BatchStmtOK, SyncOps
    <3>. HIDE DEF a
    <3>3. <<a>> \in Seq(Stmt) /\ Elems(<<a>>) = {a}
      BY <3>1, ElemsLists
    <3>4. Then(p, <<a>>)
      BY <2>2 DEF a
    <3>5. t = a \/ t \in Pending(p)
      BY <1>0, <2>0, <3>3, <3>4, PendingThen
    <3>. QED BY <3>2, <3>5
  <2>3. Return(p) => G
    BY <1>0, PendingReturn
  <2>. QED BY <1>2, <2>2, <2>3 DEF PushOutbox
<1>3. ASSUME PullInboxBatch(p) PROVE G
  <2>. DEFINE a == [op |-> "pull", cur |-> cursors]
  <2>1. todo'[p] = <<a>>
    BY <1>0, <1>3 DEF PullInboxBatch, TypeOK
  <2>2. t = a
    <3>1. Pending(p)' = Elems(todo'[p])
      BY DEF Pending, Elems
    <3>. HIDE DEF a
    <3>. QED BY <2>1, <3>1, ElemsLists
  <2>. QED BY <2>2 DEF SyncStmtOK, StreamStmtOK, NumberStmtOK, BatchStmtOK,
              ItemsOf, SyncOps
<1>4. ASSUME PullInbox(p) PROVE G
  <2>. DEFINE next == [notice |-> Len(notices), remark |-> Len(remarks)]
              a == [op |-> "applyInbox", next |-> next]
              b == [op |-> "notices", i |-> s.cur.notice + 1, hi |-> next.notice]
              c == [op |-> "remarks", i |-> s.cur.remark + 1, hi |-> next.remark,
                    new |-> {}]
  <2>0. todo[p] # <<>> /\ s.op = "pull" /\ s \in Stmt
    BY <1>0, <1>4, HeadPending DEF PullInbox, Stmts
  <2>1. s.cur.notice \in Nat /\ s.cur.remark \in Nat
    BY <2>0, StmtFields DEF Cursors
  <2>2. Len(notices) \in Nat /\ Len(remarks) \in Nat /\ next \in Cursors
    BY <1>0 DEF TypeOK, Cursors
  <2>3. SyncStmtOK(a) /\ SyncStmtOK(b) /\ SyncStmtOK(c)
    BY <2>1, <2>2 DEF SyncStmtOK, StreamStmtOK, NumberStmtOK, BatchStmtOK,
       ItemsOf, SyncOps
  <2>4. s.cur.notice + 1 \in Nat /\ s.cur.remark + 1 \in Nat
        /\ next.notice \in Nat /\ next.remark \in Nat /\ {} \in SUBSET Nat
    BY <2>1, <2>2
  <2>5. a \in Stmt /\ b \in Stmt /\ c \in Stmt
    BY <2>2, <2>4, StmtIntro
  <2>6. Then(p, <<a, b, c>>) \/ Return(p)
    BY <1>4 DEF PullInbox
  <2>. HIDE DEF a, b, c
  <2>7. <<a, b, c>> \in Seq(Stmt) /\ Elems(<<a, b, c>>) = {a, b, c}
    BY <2>5, ElemsLists
  <2>8. Return(p) => G
    BY <1>0, PendingReturn
  <2>9. Then(p, <<a, b, c>>) => t \in {a, b, c} \/ t \in Pending(p)
    BY <1>0, <2>0, <2>7, PendingThen
  <2>. QED BY <2>3, <2>6, <2>8, <2>9
<1>. QED BY <1>1, <1>2, <1>3, <1>4 DEF Sync

\* Nobody but p, or a request for the handler, changes the list of p.
LEMMA TodoChange ==
  ASSUME TypeOK, [Next]_vars, NEW p \in Procs
  PROVE  \/ todo'[p] = todo[p]
         \/ Execute(p)
         \/ Abort(p)
         \/ p \in SyncProcs /\ Sync(p)
         \/ p = "handler" /\ Request
<1>1. ASSUME NEW q \in Procs \ {p},
             (\E s \in Seq(Stmt) : Then(q, s)) \/ Return(q)
      PROVE  todo'[p] = todo[p]
  BY <1>1 DEF Then, Return, TypeOK
<1>2. ASSUME NEW q \in Procs \ {p}, Execute(q) PROVE todo'[p] = todo[p]
  BY <1>2 DEF TypeOK, Execute, SaveReport, DeleteRows, AppendEvent, RunCascade,
     InvalidateFlagged, MarkReportSynced, ApplyInboxPull, EnqueueOutboxItem,
     AckOutboxItem, EachNotice, InsertInvalidationNotice, ApplyInvalidationNotice,
     EachRemark, InsertRemark, ApplyRemarks, Then, Return
<1>3. ASSUME NEW q \in SyncProcs, q # p, Sync(q) PROVE todo'[p] = todo[p]
  BY <1>3 DEF TypeOK, Sync, PushOutboxBatch, PushOutbox, PullInboxBatch,
     PullInbox, Then, Return
<1>4. ASSUME NEW q \in Procs \ {p}, Abort(q) PROVE todo'[p] = todo[p]
  BY <1>4 DEF TypeOK, Abort, Return
<1>5. ASSUME Request, p # "handler" PROVE todo'[p] = todo[p]
  BY <1>5 DEF TypeOK, Request, CreateReport, SaveSectionOf, CheckReport,
     SubmitReport, StartCorrection, AcknowledgeFinding, DeleteReport, Handle
<1>6. Office => todo' = todo
  BY DEF Office, OfficeInvalidates, OfficeRemarks
<1>7. UNCHANGED vars => todo' = todo
  BY DEF vars
<1>. QED BY <1>2, <1>3, <1>4, <1>5, <1>6, <1>7 DEF Next

\* Every statement a sync process has pending after a step may be
\* executed: it was pending before, or the step that added it vouches for it.
LEMMA SyncPendingStep ==
  ASSUME IInv, [Next]_vars, TypeOK', NEW p \in SyncProcs, NEW t \in Pending(p)'
  PROVE  SyncStmtOK(t)'
<1>0. TypeOK /\ p \in Procs
  BY DEF IInv, Procs
<1>1. t \in Stmt
  <2>1. todo'[p] \in Seq(Stmt)
    BY <1>0 DEF TypeOK
  <2>. QED BY <2>1 DEF Pending
<1>2. t \in Pending(p) \/ SyncStmtOK(t) \/ SyncStmtOK(t)'
  <2>1. todo'[p] = todo[p] => t \in Pending(p)
    BY DEF Pending
  <2>2. Abort(p) => t \in Pending(p)
    BY <1>0, PendingReturn DEF Abort
  <2>3. p # "handler"
    BY SyncProcsAssumption
  <2>. QED BY <1>0, <2>1, <2>2, <2>3, TodoChange, SyncExecuteNew, SyncSyncNew
<1>3. t \in Pending(p) => SyncStmtOK(t)
  BY DEF IInv, PendingOK
<1>. QED BY <1>1, <1>2, <1>3, SyncStmtStable

-----------------------------------------------------------------------------
(* The handler. *)

\* The steps of everyone but the handler.
OtherStep ==
  \/ \E q \in SyncProcs : Execute(q) \/ Abort(q) \/ Sync(q)
  \/ Office
  \/ UNCHANGED vars

\* They touch no report the office has not landed, never add or remove a
\* version, keep what is committed committed, and make nothing known outside
\* that was not.
LEMMA OtherEffect ==
  ASSUME IInv, [Next]_vars, OtherStep
  PROVE  /\ todo'["handler"] = todo["handler"] /\ used' = used
         /\ outbox' \subseteq outbox
         /\ \A r \in Reports :
              /\ Len(rows'[r]) = Len(rows[r]) /\ DOMAIN rows'[r] = DOMAIN rows[r]
              /\ \A v \in DOMAIN rows[r] :
                   InChain(rows[r][v].state) => InChain(rows'[r][v].state)
              /\ LandedReport(r) \/ rows'[r] = rows[r]
         /\ \A r, v : Out(r, v)' => Out(r, v)
<1>0. TypeOK /\ "handler" \in Procs /\ SyncProcs \subseteq Procs
      /\ "handler" \notin SyncProcs
  BY SyncProcsAssumption DEF IInv, Procs
<1>1. todo'["handler"] = todo["handler"]
  <2>1. ASSUME NEW q \in SyncProcs, Execute(q) PROVE todo'["handler"] = todo["handler"]
    <3>1. q \in Procs /\ q # "handler"
      BY <1>0
    <3>2. \E s \in Seq(Stmt) : Then(q, s) \/ Return(q)
      BY <2>1, <3>1, ExecuteTodo
    <3>. QED BY <1>0, <3>1, <3>2 DEF Then, Return, TypeOK
  <2>2. ASSUME NEW q \in SyncProcs, Sync(q) PROVE todo'["handler"] = todo["handler"]
    BY <1>0, <2>2 DEF TypeOK, Sync, PushOutboxBatch, PushOutbox, PullInboxBatch,
       PullInbox, Then, Return
  <2>3. ASSUME NEW q \in SyncProcs, Abort(q) PROVE todo'["handler"] = todo["handler"]
    BY <1>0, <2>3 DEF TypeOK, Abort, Return
  <2>4. Office \/ UNCHANGED vars => todo' = todo
    BY DEF Office, OfficeInvalidates, OfficeRemarks, vars
  <2>. QED BY <2>1, <2>2, <2>3, <2>4 DEF OtherStep
<1>2. used' = used
  BY DEF OtherStep, Execute, Abort, Sync, PushOutboxBatch, PushOutbox,
     PullInboxBatch, PullInbox, Office, OfficeInvalidates, OfficeRemarks, vars
<1>3. rows' = rows \/ \E q \in SyncProcs : SaveReport(q)
  <2>1. ASSUME NEW q \in SyncProcs, Execute(q) PROVE rows' = rows \/ SaveReport(q)
    <3>1. ~ DeleteRows(q)
      BY <1>0, DeleteEffect
    <3>. QED BY <2>1, <3>1 DEF Execute, AppendEvent, EnqueueOutboxItem, RunCascade,
         InvalidateFlagged, AckOutboxItem, MarkReportSynced, ApplyInboxPull,
         EachNotice, InsertInvalidationNotice, ApplyInvalidationNotice, EachRemark,
         InsertRemark, ApplyRemarks, store
  <2>2. ASSUME NEW q \in SyncProcs, Sync(q) \/ Abort(q) PROVE rows' = rows
    BY <2>2 DEF Sync, PushOutboxBatch, PushOutbox, PullInboxBatch, PullInbox,
       Abort, store
  <2>3. Office \/ UNCHANGED vars => rows' = rows
    BY DEF Office, OfficeInvalidates, OfficeRemarks, vars, store
  <2>. QED BY <2>1, <2>2, <2>3 DEF OtherStep
<1>4. ASSUME NEW r \in Reports
      PROVE  /\ Len(rows'[r]) = Len(rows[r]) /\ DOMAIN rows'[r] = DOMAIN rows[r]
             /\ \A v \in DOMAIN rows[r] :
                  InChain(rows[r][v].state) => InChain(rows'[r][v].state)
             /\ LandedReport(r) \/ rows'[r] = rows[r]
  <2>1. CASE rows' = rows
    BY <2>1
  <2>2. ASSUME NEW q \in SyncProcs, SaveReport(q)
        PROVE  /\ Len(rows'[r]) = Len(rows[r]) /\ DOMAIN rows'[r] = DOMAIN rows[r]
               /\ \A v \in DOMAIN rows[r] :
                    InChain(rows[r][v].state) => InChain(rows'[r][v].state)
               /\ LandedReport(r) \/ rows'[r] = rows[r]
    <3>. DEFINE s == Head(todo[q])
    <3>0. q \in Procs /\ q # "handler"
      BY <1>0
    <3>1. todo[q] # <<>> /\ s.op = "save"
      BY <2>2, <3>0, SaveEffect
    <3>2. InChain(s.row.state) /\ Exists(s.r, s.v) /\ LandedReport(s.r)
      BY <3>0, <3>1, SaveCases
    <3>3. CASE r # s.r
      <4>1. rows'[r] = rows[r]
        BY <2>2, <3>0, <3>3, SaveEffect
      <4>. QED BY <4>1
    <3>4. CASE r = s.r
      BY <2>2, <3>0, <3>2, <3>4, SaveEffect
    <3>. QED BY <3>3, <3>4
  <2>. QED BY <1>3, <2>1, <2>2
<1>5. ~ EnqueueOutboxItem("handler")
  <2>1. ASSUME EnqueueOutboxItem("handler") PROVE FALSE
    <3>1. todo["handler"] # <<>> /\ todo["handler"] \in Seq(Stmt)
          /\ todo'["handler"] = Tail(todo["handler"])
      <4>1. todo["handler"] # <<>> /\ Then("handler", <<>>)
        BY <2>1 DEF EnqueueOutboxItem, Stmts
      <4>2. todo'["handler"] = <<>> \o Tail(todo["handler"])
        <5>1. <<>> \in Seq(Stmt)
          OBVIOUS
        <5>. QED BY <1>0, <4>1, <5>1, ThenTodo
      <4>3. todo["handler"] \in Seq(Stmt)
        BY <1>0 DEF TypeOK
      <4>4. Tail(todo["handler"]) \in Seq(Stmt)
        BY <4>1, <4>3, ListStep
      <4>5. <<>> \o Tail(todo["handler"]) = Tail(todo["handler"])
        BY <4>4
      <4>. QED BY <4>1, <4>2, <4>3, <4>5
    <3>2. Len(Tail(todo["handler"])) # Len(todo["handler"])
      BY <3>1
    <3>. QED BY <1>1, <3>1, <3>2
  <2>. QED BY <2>1
<1>6. outbox' \subseteq outbox
  BY <1>0, <1>5, OutboxChange, AckEffect, EnqueueEffect
<1>7. \A r, v : Out(r, v)' => Out(r, v)
  BY <1>5, OutNew
<1>. QED BY <1>1, <1>2, <1>4, <1>6, <1>7

\* A step of anyone else leaves the handler's statements executable.
LEMMA HandlerStable ==
  ASSUME IInv, [Next]_vars, OtherStep
  PROVE  HandlerOK'
<1>. SUFFICES ASSUME todo["handler"] # <<>>, NEW s, s = Head(todo["handler"])
              PROVE  /\ HeadOK(s)'
                     /\ \A x \in Promised(s) : IsCommitted(x[1], x[2])'
                     /\ s.op = "invalidate" =>
                          \A c \in s.flagged : c.row.state = "invalidated"
                     /\ \A t \in Elems(Tail(todo["handler"])) : RestOK(s, t)'
  BY OtherEffect DEF HandlerOK
<1>0. TypeOK /\ s \in Stmt /\ "handler" \in Procs
  BY HeadPending DEF IInv, Procs
<1>1. /\ HeadOK(s)
      /\ \A x \in Promised(s) : IsCommitted(x[1], x[2])
      /\ s.op = "invalidate" => \A c \in s.flagged : c.row.state = "invalidated"
      /\ \A t \in Elems(Tail(todo["handler"])) : RestOK(s, t)
  BY DEF IInv, HandlerOK
<1>2. ASSUME NEW t \in Stmt, NEW x \in Promised(t)
      PROVE  x[1] \in Reports
  <2>1. t.op = "enqueueVersion" => t.r \in Reports
    BY StmtFields
  <2>2. t.op = "invalidate" => \A c \in t.flagged : c.r \in Reports
    BY StmtFields DEF Loaded
  <2>. QED BY <1>2, <2>1, <2>2 DEF Promised
<1>3. \A x \in Promised(s) : IsCommitted(x[1], x[2])'
  BY <1>0, <1>1, <1>2, OtherEffect DEF IsCommitted, Exists
<1>4. ASSUME s.op = "save"
      PROVE  /\ s.row.state # "synced"
             /\ InChain(s.row.state) => Exists(s.r, s.v)'
             /\ Editable(s.row.state) =>
                  /\ s.r \in used'
                  /\ ~ Out(s.r, s.v)'
                  /\ s.v = Len(rows'[s.r]) \/ s.v = Len(rows'[s.r]) + 1
                  /\ s.v >= 1
                  /\ s.v = Len(rows'[s.r]) + 1 =>
                       \A v \in DOMAIN rows'[s.r] : InChain(rows'[s.r][v].state)
  <2>1. s.r \in Reports
    BY <1>0, <1>4, StmtFields
  <2>. QED BY <1>1, <1>4, <2>1, OtherEffect DEF HeadOK, Exists
<1>5. ASSUME s.op = "delete"
      PROVE  /\ Len(rows'[s.r]) = 1
             /\ Editable(rows'[s.r][1].state)
             /\ ~ LandedReport(s.r)'
             /\ \A i \in outbox' : i.kind = "reportVersion" => i.r # s.r
  <2>1. s.r \in Reports
    BY <1>0, <1>5, StmtFields
  <2>2. /\ Len(rows[s.r]) = 1 /\ Editable(rows[s.r][1].state)
        /\ ~ LandedReport(s.r)
        /\ \A i \in outbox : i.kind = "reportVersion" => i.r # s.r
    BY <1>1, <1>5 DEF HeadOK
  <2>3. ~ LandedReport(s.r)'
    <3>1. SUFFICES ASSUME LandedReport(s.r)' PROVE FALSE
      OBVIOUS
    <3>2. PICK v : Landed(s.r, v)'
      BY <3>1 DEF LandedReport, Landed
    <3>3. Out(s.r, v)
      BY <3>2, OtherEffect DEF Out
    <3>. QED BY <2>2, <3>3 DEF Out, InOutbox, Landed, LandedReport
  <2>. QED BY <2>1, <2>2, <2>3, OtherEffect
<1>6. HeadOK(s)'
  BY <1>4, <1>5 DEF HeadOK
<1>7. ASSUME NEW t \in Elems(Tail(todo["handler"])) PROVE RestOK(s, t)'
  <2>1. RestOK(s, t)
    BY <1>1
  <2>2. t \in Stmt
    <3>1. todo["handler"] \in Seq(Stmt)
      BY <1>0 DEF TypeOK
    <3>2. Tail(todo["handler"]) \in Seq(Stmt)
      BY <3>1
    <3>. QED BY <3>2 DEF Elems
  <2>3. \A x \in Promised(t) : x[1] \in Reports
    BY <1>2, <2>2
  <2>4. \A x \in Promised(t) :
          /\ Exists(x[1], x[2])'
          /\ InChain(rows[x[1]][x[2]].state) => InChain(rows'[x[1]][x[2]].state)
    BY <2>1, <2>3, OtherEffect DEF RestOK, Exists
  <2>. QED BY <2>1, <2>4 DEF RestOK
<1>. QED BY <1>1, <1>3, <1>6, <1>7

\* Head and tail of a concatenation.
LEMMA TailConcat ==
  ASSUME NEW S, NEW x \in Seq(S), x # <<>>, NEW y \in Seq(S)
  PROVE  /\ x \o y \in Seq(S) /\ x \o y # <<>>
         /\ Head(x \o y) = Head(x)
         /\ Elems(Tail(x \o y)) \subseteq Elems(Tail(x)) \cup Elems(y)
<1>1. x \o y \in Seq(S) /\ x \o y # <<>> /\ Head(x \o y) = Head(x)
  OBVIOUS
<1>2. ASSUME NEW k \in DOMAIN Tail(x \o y)
      PROVE  Tail(x \o y)[k] \in Elems(Tail(x)) \cup Elems(y)
  <2>1. /\ k \in Nat /\ k >= 1 /\ k <= Len(x) + Len(y) - 1
        /\ Len(x) \in Nat /\ Len(y) \in Nat /\ Len(x) >= 1
    BY <1>1
  <2>2. Tail(x \o y)[k] = (x \o y)[k + 1]
    BY <1>1, <2>1
  <2>3. CASE k + 1 <= Len(x)
    <3>1. (x \o y)[k + 1] = x[k + 1] /\ Tail(x)[k] = x[k + 1]
          /\ k \in DOMAIN Tail(x)
      BY <2>1, <2>3
    <3>. QED BY <2>2, <3>1 DEF Elems
  <2>4. CASE k + 1 > Len(x)
    <3>1. (x \o y)[k + 1] = y[k + 1 - Len(x)] /\ k + 1 - Len(x) \in DOMAIN y
      BY <2>1, <2>4
    <3>. QED BY <2>2, <3>1 DEF Elems
  <2>. QED BY <2>1, <2>3, <2>4
<1>. QED BY <1>1, <1>2 DEF Elems

\* A statement that writes no row and promises committed versions only.
Settled(t) ==
  /\ t.op \notin {"save", "delete"}
  /\ \A x \in Promised(t) : IsCommitted(x[1], x[2])
  /\ t.op = "invalidate" => \A c \in t.flagged : c.row.state = "invalidated"

\* A handler whose statements are all settled relies on nothing else.
LEMMA HandlerSettled ==
  ASSUME TypeOK', \A t \in Elems(todo'["handler"]) : Settled(t)'
  PROVE  HandlerOK'
<1>. SUFFICES ASSUME todo'["handler"] # <<>>, NEW s, s = Head(todo'["handler"])
              PROVE  /\ HeadOK(s)'
                     /\ \A x \in Promised(s) : IsCommitted(x[1], x[2])'
                     /\ s.op = "invalidate" =>
                          \A c \in s.flagged : c.row.state = "invalidated"
                     /\ \A t \in Elems(Tail(todo'["handler"])) : RestOK(s, t)'
  BY DEF HandlerOK
<1>1. todo'["handler"] \in Seq(Stmt)
  BY DEF TypeOK, Procs
<1>2. /\ s \in Elems(todo'["handler"])
      /\ Elems(Tail(todo'["handler"])) \subseteq Elems(todo'["handler"])
  <2>1. <<>> \in Seq(Stmt)
    OBVIOUS
  <2>. QED BY <1>1, <2>1, ListStep
<1>3. Settled(s)'
  BY <1>2
<1>4. HeadOK(s)'
  BY <1>3 DEF Settled, HeadOK
<1>5. ASSUME NEW t \in Elems(Tail(todo'["handler"])) PROVE RestOK(s, t)'
  <2>1. Settled(t)'
    BY <1>2
  <2>. QED BY <1>3, <2>1 DEF Settled, RestOK, IsCommitted
<1>. QED BY <1>3, <1>4, <1>5 DEF Settled

\* A handler that saves a committed row first.
LEMMA HandlerSaves ==
  ASSUME NEW s, todo'["handler"] # <<>>, s = Head(todo'["handler"]),
         s.op = "save", InChain(s.row.state), s.row.state # "synced",
         Exists(s.r, s.v)',
         \A t \in Elems(Tail(todo'["handler"])) : Settled(t)'
  PROVE  HandlerOK'
<1>1. HeadOK(s)'
  BY DEF HeadOK, InChain
<1>2. Promised(s) = {}
  BY DEF Promised
<1>3. ASSUME NEW t \in Elems(Tail(todo'["handler"])) PROVE RestOK(s, t)'
  <2>1. Settled(t)'
    OBVIOUS
  <2>. QED BY <2>1 DEF Settled, RestOK, IsCommitted, InChain
<1>. QED BY <1>1, <1>2, <1>3 DEF HandlerOK

\* Executing a statement leaves the rest settled.
LEMMA HandlerTail ==
  ASSUME IInv, [Next]_vars, TypeOK', todo["handler"] # <<>>,
         Then("handler", <<>>),
         LET s == Head(todo["handler"]) IN
           \A t \in Elems(Tail(todo["handler"])) : RestOK(s, t) => Settled(t)'
  PROVE  HandlerOK'
<1>0. TypeOK /\ "handler" \in Procs /\ <<>> \in Seq(Stmt)
  BY DEF IInv, Procs
<1>1. todo["handler"] \in Seq(Stmt)
  BY <1>0 DEF TypeOK
<1>2. Tail(todo["handler"]) \in Seq(Stmt)
  BY <1>0, <1>1, ListStep
<1>3. todo'["handler"] = <<>> \o Tail(todo["handler"])
  BY <1>0, ThenTodo
<1>4. todo'["handler"] = Tail(todo["handler"])
  BY <1>2, <1>3
<1>5. \A t \in Elems(Tail(todo["handler"])) : RestOK(Head(todo["handler"]), t)
  BY DEF IInv, HandlerOK
<1>. QED BY <1>4, <1>5, HandlerSettled

\* The handler promises to enqueue versions of reports.
LEMMA PromisedReports ==
  ASSUME NEW t \in Stmt
  PROVE  \A x \in Promised(t) : x[1] \in Reports
<1>1. t.op = "enqueueVersion" => t.r \in Reports
  BY StmtFields
<1>2. t.op = "invalidate" => \A c \in t.flagged : c.r \in Reports
  BY StmtFields DEF Loaded
<1>. QED BY <1>1, <1>2 DEF Promised

\* The statements the handler has left, seen from its first one.
LEMMA HandlerRest ==
  ASSUME IInv, todo["handler"] # <<>>
  PROVE  LET s == Head(todo["handler"]) IN
         /\ s \in Stmt /\ s \in Pending("handler") /\ s.op \in HandlerOps
         /\ Elems(Tail(todo["handler"])) \subseteq Stmt
         /\ Elems(Tail(todo["handler"])) \subseteq Pending("handler")
         /\ \A t \in Elems(Tail(todo["handler"])) :
              /\ RestOK(s, t)
              /\ \A x \in Promised(t) : x[1] \in Reports
              /\ s.op # "save" => Settled(t)
<1>0. TypeOK /\ "handler" \in Procs /\ <<>> \in Seq(Stmt)
  BY DEF IInv, Procs
<1>1. todo["handler"] \in Seq(Stmt)
  BY <1>0 DEF TypeOK
<1>2. /\ Tail(todo["handler"]) \in Seq(Stmt)
      /\ Elems(Tail(todo["handler"])) \subseteq Elems(todo["handler"])
  BY <1>0, <1>1, ListStep
<1>3. Elems(todo["handler"]) = Pending("handler")
  BY DEF Elems, Pending
<1>4. Elems(Tail(todo["handler"])) \subseteq Stmt
  BY <1>2 DEF Elems
<1>5. \A t \in Elems(Tail(todo["handler"])) : RestOK(Head(todo["handler"]), t)
  BY DEF IInv, HandlerOK
<1>6. Head(todo["handler"]) \in Stmt /\ Head(todo["handler"]) \in Pending("handler")
  BY <1>0, HeadPending
<1>7. Head(todo["handler"]).op \in HandlerOps
  BY <1>6 DEF IInv, PendingOK
<1>8. ASSUME NEW t \in Elems(Tail(todo["handler"])),
             Head(todo["handler"]).op # "save"
      PROVE  Settled(t)
  BY <1>5, <1>8 DEF RestOK, Settled, IsCommitted
<1>. QED BY <1>2, <1>3, <1>4, <1>5, <1>6, <1>7, <1>8, PromisedReports

\* With no version changed, a settled statement stays settled.
LEMMA SettledKept ==
  ASSUME NEW t, Settled(t), rows' = rows PROVE Settled(t)'
BY DEF Settled, IsCommitted, Exists

\* The handler saves a row: whatever it has promised is committed then.
LEMMA HandlerSave ==
  ASSUME IInv, [Next]_vars, TypeOK', SaveReport("handler")
  PROVE  HandlerOK'
<1>0. TypeOK /\ "handler" \in Procs
  BY DEF IInv, Procs
<1>1. CASE Return("handler")
  <2>1. todo'["handler"] = <<>>
    BY <1>0, <1>1, ReturnTodo
  <2>. QED BY <2>1 DEF HandlerOK
<1>2. CASE ~ Return("handler")
  <2>. SUFFICES ASSUME NEW s, s = Head(todo["handler"]) PROVE HandlerOK'
    OBVIOUS
  <2>1. todo["handler"] # <<>> /\ s.op = "save" /\ Then("handler", <<>>)
    BY <1>0, <1>2, SaveEffect
  <2>2. ASSUME NEW t \in Elems(Tail(todo["handler"]))
        PROVE  Settled(t)'
    <3>1. RestOK(s, t) /\ \A x \in Promised(t) : x[1] \in Reports
      BY <2>1, HandlerRest
    <3>2. CASE Editable(s.row.state)
      <4>1. t.op \in {"event", "enqueueEvent", "cascade"}
        BY <2>1, <3>1, <3>2 DEF RestOK
      <4>. QED BY <4>1 DEF Settled, Promised
    <3>3. CASE InChain(s.row.state)
      <4>1. Exists(s.r, s.v)
        BY <1>0, <2>1, <3>3, SaveCases DEF InChain
      <4>2. ASSUME NEW x \in Promised(t) PROVE IsCommitted(x[1], x[2])'
        <5>1. x[1] \in Reports /\ Exists(x[1], x[2])
              /\ \/ InChain(rows[x[1]][x[2]].state)
                 \/ s.r = x[1] /\ s.v = x[2]
          BY <3>1 DEF RestOK
        <5>2. CASE x[1] # s.r
          <6>1. rows'[x[1]] = rows[x[1]]
            BY <1>0, <5>1, <5>2, SaveEffect
          <6>. QED BY <5>1, <5>2, <6>1 DEF IsCommitted, Exists
        <5>3. CASE x[1] = s.r
          <6>1. /\ DOMAIN rows'[s.r] = DOMAIN rows[s.r]
                /\ rows'[s.r][s.v] = s.row
                /\ \A v \in DOMAIN rows[s.r] \ {s.v} :
                     rows'[s.r][v] = rows[s.r][v]
            BY <1>0, <1>2, <4>1, SaveEffect
          <6>. QED BY <3>3, <5>1, <5>3, <6>1 DEF IsCommitted, Exists
        <5>. QED BY <5>2, <5>3
      <4>. QED BY <3>1, <4>2 DEF Settled, RestOK
    <3>. QED BY <3>2, <3>3 DEF InChain
  <2>. QED BY <2>1, <2>2, HandlerTail
<1>. QED BY <1>1, <1>2

\* runCascade's write-back loop puts the save of a committed version first.
LEMMA HandlerInvalidates ==
  ASSUME IInv, [Next]_vars, TypeOK', InvalidateFlagged("handler")
  PROVE  HandlerOK'
<1>0. TypeOK /\ "handler" \in Procs /\ rows' = rows
  BY DEF IInv, Procs, InvalidateFlagged, store
<1>. SUFFICES ASSUME NEW h, h = Head(todo["handler"]) PROVE HandlerOK'
  OBVIOUS
<1>1. todo["handler"] # <<>> /\ h.op = "invalidate" /\ todo["handler"] \in Seq(Stmt)
  BY <1>0 DEF InvalidateFlagged, Stmts, TypeOK
<1>2. \A t \in Elems(Tail(todo["handler"])) : Settled(t)'
  BY <1>0, <1>1, HandlerRest, SettledKept
<1>3. CASE Then("handler", <<>>)
  BY <1>1, <1>2, <1>3, HandlerTail
<1>4. ASSUME NEW c \in h.flagged,
             Then("handler", <<save(c.r, c.v, c.row), event(c.r, c.v, "invalidated")>>
                     \o (IF Editable(c.row.invFrom) THEN <<>>
                         ELSE <<enqueueVersion(c.r, c.v),
                                enqueueEvent(c.r, c.v)>>)
                     \o <<[op |-> "invalidate", flagged |-> h.flagged \ {c}]>>)
      PROVE  HandlerOK'
  <2>1. /\ \A d \in h.flagged : IsCommitted(d.r, d.v)
        /\ \A d \in h.flagged : d.row.state = "invalidated"
        /\ h.flagged \in SUBSET Loaded
    <3>1. /\ \A x \in Promised(h) : IsCommitted(x[1], x[2])
          /\ \A d \in h.flagged : d.row.state = "invalidated"
      BY <1>1 DEF IInv, HandlerOK
    <3>2. Promised(h) = {<<d.r, d.v>> : d \in h.flagged}
      BY <1>1 DEF Promised
    <3>3. h.flagged \in SUBSET Loaded
      BY <1>0, <1>1, HeadPending, StmtFields
    <3>4. ASSUME NEW d \in h.flagged PROVE IsCommitted(d.r, d.v)
      <4>1. <<d.r, d.v>> \in Promised(h)
        BY <3>2
      <4>2. IsCommitted(<<d.r, d.v>>[1], <<d.r, d.v>>[2])
        BY <3>1, <4>1
      <4>. QED BY <4>2
    <3>. QED BY <3>1, <3>3, <3>4
  <2>2. /\ IsCommitted(c.r, c.v) /\ c.row.state = "invalidated"
        /\ c.r \in Reports /\ c.v \in Nat /\ c.row \in Row
    BY <1>4, <2>1 DEF Loaded
  <2>. DEFINE a == save(c.r, c.v, c.row)
              b == event(c.r, c.v, "invalidated")
              e1 == enqueueVersion(c.r, c.v)
              e2 == enqueueEvent(c.r, c.v)
              i == [op |-> "invalidate", flagged |-> h.flagged \ {c}]
              m == IF Editable(c.row.invFrom) THEN <<>> ELSE <<e1, e2>>
              T == Tail(todo["handler"])
  <2>3. a \in Stmt /\ b \in Stmt /\ e1 \in Stmt /\ e2 \in Stmt /\ i \in Stmt
        /\ T \in Seq(Stmt)
    <3>1. "invalidated" \in EventTypes
      BY DEF EventTypes
    <3>2. <<>> \in Seq(Stmt)
      OBVIOUS
    <3>3. T \in Seq(Stmt)
      BY <1>1, <3>2, ListStep
    <3>4. h.flagged \ {c} \in SUBSET Loaded
      BY <2>1
    <3>. QED BY <2>2, <3>1, <3>3, <3>4, StmtIntro
  <2>4. a.op = "save" /\ a.r = c.r /\ a.v = c.v /\ a.row = c.row
    BY DEF save
  <2>5. Settled(b)' /\ Settled(e2)'
    BY DEF Settled, Promised, event, enqueueEvent
  <2>6. Settled(e1)'
    <3>1. Promised(e1) = {<<c.r, c.v>>}
      BY DEF Promised, enqueueVersion
    <3>. QED BY <1>0, <2>2, <3>1 DEF Settled, IsCommitted, Exists, enqueueVersion
  <2>7. Settled(i)'
    <3>1. Promised(i) = {<<d.r, d.v>> : d \in h.flagged \ {c}}
      BY DEF Promised
    <3>2. ASSUME NEW x \in Promised(i) PROVE IsCommitted(x[1], x[2])'
      <4>1. PICK d \in h.flagged : x = <<d.r, d.v>>
        BY <3>1
      <4>2. IsCommitted(d.r, d.v)
        BY <2>1
      <4>. QED BY <1>0, <4>1, <4>2 DEF IsCommitted, Exists
    <3>3. \A d \in h.flagged \ {c} : d.row.state = "invalidated"
      BY <2>1
    <3>. QED BY <3>2, <3>3 DEF Settled
  <2>8. Then("handler", <<a, b>> \o m \o <<i>>)
    BY <1>4
  <2>. HIDE DEF a, b, e1, e2, i, T
  <2>9. m \in Seq(Stmt) /\ Elems(m) \subseteq {e1, e2}
    BY <2>3, ElemsLists
  <2>. HIDE DEF m
  <2>10. <<a, b>> \in Seq(Stmt) /\ <<i>> \in Seq(Stmt) /\ <<a, b>> # <<>>
    BY <2>3
  <2>11. Head(<<a, b>>) = a /\ Elems(Tail(<<a, b>>)) = {b} /\ Elems(<<i>>) = {i}
    <3>1. Tail(<<a, b>>) = <<b>>
      OBVIOUS
    <3>. QED BY <3>1, ElemsLists
  <2>12. LET x == <<a, b>> \o m IN
         /\ x \in Seq(Stmt) /\ x # <<>> /\ Head(x) = a
         /\ Elems(Tail(x)) \subseteq {b, e1, e2}
    BY <2>9, <2>10, <2>11, TailConcat, Zenon
  <2>13. LET x == <<a, b>> \o m \o <<i>> IN
         /\ x \in Seq(Stmt) /\ x # <<>> /\ Head(x) = a
         /\ Elems(Tail(x)) \subseteq {b, e1, e2, i}
    BY <2>10, <2>11, <2>12, TailConcat, Zenon
  <2>14. LET x == <<a, b>> \o m \o <<i>> \o T IN
         /\ x # <<>> /\ Head(x) = a
         /\ Elems(Tail(x)) \subseteq {b, e1, e2, i} \cup Elems(T)
    BY <2>3, <2>13, TailConcat, Zenon
  <2>15. todo'["handler"] = <<a, b>> \o m \o <<i>> \o T
    BY <1>0, <1>1, <2>8, <2>13, ThenTodo, Zenon DEF T
  <2>16. \A t \in Elems(Tail(todo'["handler"])) : Settled(t)'
    BY <1>2, <2>5, <2>6, <2>7, <2>14, <2>15 DEF T
  <2>17. InChain(a.row.state) /\ a.row.state # "synced" /\ Exists(a.r, a.v)'
    BY <1>0, <2>2, <2>4 DEF InChain, Editable, IsCommitted, Exists
  <2>18. a = Head(todo'["handler"]) /\ todo'["handler"] # <<>>
    BY <2>14, <2>15
  <2>. QED BY <2>4, <2>16, <2>17, <2>18, HandlerSaves
<1>. QED BY <1>3, <1>4 DEF InvalidateFlagged

\* After the handler executed a statement its rest is executable.
LEMMA HandlerExecutes ==
  ASSUME IInv, [Next]_vars, TypeOK', Execute("handler")
  PROVE  HandlerOK'
<1>0. TypeOK /\ "handler" \in Procs /\ <<>> \in Seq(Stmt)
  BY DEF IInv, Procs
<1>1. todo["handler"] # <<>>
  BY <1>0, ExecuteTodo
<1>2. Head(todo["handler"]).op \in HandlerOps
  BY <1>1, HandlerRest
<1>3. ASSUME AppendEvent("handler") \/ EnqueueOutboxItem("handler") PROVE HandlerOK'
  <2>1. rows' = rows /\ Then("handler", <<>>) /\ Head(todo["handler"]).op # "save"
    BY <1>3 DEF AppendEvent, EnqueueOutboxItem, Stmts
  <2>2. \A t \in Elems(Tail(todo["handler"])) : Settled(t)'
    BY <1>1, <2>1, HandlerRest, SettledKept
  <2>. QED BY <1>1, <2>1, <2>2, HandlerTail
<1>4. ASSUME DeleteRows("handler") PROVE HandlerOK'
  <2>1. Then("handler", <<>>) /\ Head(todo["handler"]).op = "delete"
    BY <1>4 DEF DeleteRows, Stmts
  <2>2. ASSUME NEW t \in Elems(Tail(todo["handler"])) PROVE Settled(t)'
    <3>1. t.op \in {"event", "enqueueEvent", "cascade"}
      BY <1>1, <2>1, HandlerRest DEF RestOK
    <3>. QED BY <3>1 DEF Settled, Promised
  <2>. QED BY <1>1, <2>1, <2>2, HandlerTail
<1>5. ASSUME RunCascade("handler") PROVE HandlerOK'
  <2>. DEFINE i == [op |-> "invalidate", flagged |-> Flagged]
  <2>1. rows' = rows /\ Then("handler", <<i>>) /\ Head(todo["handler"]).op = "cascade"
    BY <1>5 DEF RunCascade, Stmts, store
  <2>2. <<i>> \in Seq(Stmt)
    BY <1>0, <1>1, <2>1, ExecuteStmts
  <2>3. Settled(i)
    <3>1. Promised(i) = {<<d.r, d.v>> : d \in Flagged}
      BY DEF Promised
    <3>2. ASSUME NEW x \in Promised(i) PROVE IsCommitted(x[1], x[2])
      <4>1. PICK d \in Flagged : x = <<d.r, d.v>>
        BY <3>1
      <4>2. IsCommitted(d.r, d.v)
        BY <1>0, FlaggedMembers
      <4>. QED BY <4>1, <4>2
    <3>3. \A d \in Flagged : d.row.state = "invalidated"
      BY <1>0, FlaggedMembers
    <3>. QED BY <3>2, <3>3 DEF Settled
  <2>. SUFFICES ASSUME NEW j, Settled(j), Then("handler", <<j>>), <<j>> \in Seq(Stmt)
                PROVE  HandlerOK'
    BY <2>1, <2>2, <2>3
  <2>4. \A t \in Elems(Tail(todo["handler"])) : Settled(t)'
    BY <1>1, <2>1, HandlerRest, SettledKept
  <2>5. Settled(j)'
    BY <2>1, SettledKept
  <2>6. Pending("handler")' \subseteq Elems(<<j>>) \cup Elems(Tail(todo["handler"]))
    BY <1>0, <1>1, PendingThen
  <2>7. Elems(todo'["handler"]) = Pending("handler")' /\ Elems(<<j>>) = {j}
    BY ElemsLists DEF Elems, Pending
  <2>8. \A t \in Elems(todo'["handler"]) : Settled(t)'
    BY <2>4, <2>5, <2>6, <2>7
  <2>. QED BY <2>8, HandlerSettled
<1>6. \/ SaveReport("handler") \/ AppendEvent("handler")
      \/ EnqueueOutboxItem("handler") \/ DeleteRows("handler")
      \/ RunCascade("handler") \/ InvalidateFlagged("handler")
  BY <1>2 DEF Execute, HandlerOps, Stmts, AckOutboxItem, MarkReportSynced,
     ApplyInboxPull, EachNotice, InsertInvalidationNotice,
     ApplyInvalidationNotice, EachRemark, InsertRemark, ApplyRemarks
<1>. QED BY <1>3, <1>4, <1>5, <1>6, HandlerSave, HandlerInvalidates

\* A handler that first saves an editable row or deletes a report.
LEMMA HandlerEdits ==
  ASSUME NEW s, todo'["handler"] # <<>>, s = Head(todo'["handler"]), HeadOK(s)',
         s.op \in {"save", "delete"},
         \A t \in Elems(Tail(todo'["handler"])) :
           t.op \in {"event", "enqueueEvent", "cascade"}
  PROVE  HandlerOK'
<1>1. Promised(s) = {}
  BY DEF Promised
<1>2. ASSUME NEW t \in Elems(Tail(todo'["handler"])) PROVE RestOK(s, t)'
  <2>1. t.op \in {"event", "enqueueEvent", "cascade"}
    OBVIOUS
  <2>2. Promised(t) = {}
    BY <2>1 DEF Promised
  <2>. QED BY <2>1, <2>2 DEF RestOK
<1>. QED BY <1>1, <1>2 DEF HandlerOK

\* What the checks of loadEditableReport and handleDeleteReport establish:
\* an editable newest version is known neither to the outbox nor the office.
LEMMA EditableIsPrivate ==
  ASSUME IInv, NEW r \in Reports
  PROVE  /\ rows[r] = <<>> => \A v : ~ Out(r, v)
         /\ \A v : v > Len(rows[r]) => ~ Out(r, v)
         /\ LoadEditable(r) => ~ Out(r, Len(rows[r]))
<1>0. TypeOK
  BY DEF IInv
<1>1. \A v : Out(r, v) => v \in DOMAIN rows[r] /\ InChain(rows[r][v].state)
  BY OutCommitted
<1>2. DOMAIN rows[r] = 1..Len(rows[r]) /\ Len(rows[r]) \in Nat
  BY <1>0 DEF TypeOK
<1>3. \A v \in DOMAIN rows[r] : ~ (v > Len(rows[r]))
  BY <1>2
<1>4. rows[r] = <<>> => DOMAIN rows[r] = {}
  OBVIOUS
<1>. QED BY <1>1, <1>3, <1>4 DEF LoadEditable, Latest, InChain

\* Head and tail of an explicit list.
LEMMA ListHead ==
  /\ \A a, b : Head(<<a, b>>) = a /\ Elems(Tail(<<a, b>>)) = {b}
  /\ \A a, b, c : Head(<<a, b, c>>) = a /\ Elems(Tail(<<a, b, c>>)) = {b, c}
  /\ \A a, b, c, d :
       Head(<<a, b, c, d>>) = a /\ Elems(Tail(<<a, b, c, d>>)) = {b, c, d}
  /\ \A a, b, c, d, e :
       Head(<<a, b, c, d, e>>) = a /\ Elems(Tail(<<a, b, c, d, e>>)) = {b, c, d, e}
<1>1. ASSUME NEW a, NEW b PROVE Head(<<a, b>>) = a /\ Tail(<<a, b>>) = <<b>>
  OBVIOUS
<1>2. ASSUME NEW a, NEW b, NEW c
      PROVE  Head(<<a, b, c>>) = a /\ Tail(<<a, b, c>>) = <<b, c>>
  OBVIOUS
<1>3. ASSUME NEW a, NEW b, NEW c, NEW d
      PROVE  Head(<<a, b, c, d>>) = a /\ Tail(<<a, b, c, d>>) = <<b, c, d>>
  OBVIOUS
<1>4. ASSUME NEW a, NEW b, NEW c, NEW d, NEW e
      PROVE  Head(<<a, b, c, d, e>>) = a /\ Tail(<<a, b, c, d, e>>) = <<b, c, d, e>>
  OBVIOUS
<1>. QED BY <1>1, <1>2, <1>3, <1>4, ElemsLists

\* The saves a request starts with keep the lifecycle: an editable row stays
\* editable under edits and checks, a submit commits it.
LEMMA RowStates ==
  ASSUME NEW row \in Row
  PROVE  /\ Editable(row.state) =>
              \A t \in Times : Editable(SaveSection(row, t).state)
         /\ \A b \in BOOLEAN : Editable(MarkReady(row, b).state)
         /\ Submit(row).state = "submitted"
         /\ Editable(NewCorrection(row).state)
BY DEF Row, Editable, SaveSection, MarkReady, Submit, NewCorrection, NewReport

\* Every request leaves a list whose first statement may be executed.
LEMMA HandlerRequests ==
  ASSUME IInv, [Next]_vars, TypeOK', Request
  PROVE  HandlerOK'
<1>0. TypeOK /\ UsedOK /\ HistoryCommitted
  BY DEF IInv
<1>1. PICK x \in Reports :
        \/ \E t \in Times : CreateReport(x, t) \/ SaveSectionOf(x, t)
        \/ \E ok \in BOOLEAN : CheckReport(x, ok)
        \/ SubmitReport(x)
        \/ StartCorrection(x)
        \/ AcknowledgeFinding(x)
        \/ DeleteReport(x)
  BY DEF Request
<1>. DEFINE n == Len(rows[x])
<1>2. /\ rows' = rows /\ outbox' = outbox /\ landed' = landed
      /\ used \subseteq used'
  BY <1>1 DEF CreateReport, SaveSectionOf, CheckReport, SubmitReport,
     StartCorrection, AcknowledgeFinding, DeleteReport, Handle, store, office
<1>3. \A r, v : Out(r, v)' => Out(r, v)
  BY <1>2 DEF Out, InOutbox, Landed
<1>4. ASSUME NEW s, s = Head(todo'["handler"]), todo'["handler"] # <<>>,
             s.op = "save", s.r = x, Editable(s.row.state), x \in used',
             \/ s.v = n /\ LoadEditable(x)
             \/ s.v = n + 1 /\ (\A v \in DOMAIN rows[x] : InChain(rows[x][v].state)),
             \A t \in Elems(Tail(todo'["handler"])) :
               t.op \in {"event", "enqueueEvent", "cascade"}
      PROVE  HandlerOK'
  <2>1. n \in Nat /\ (LoadEditable(x) => n >= 1)
    BY <1>0, RowType DEF LoadEditable
  <2>2. s.v \in Nat /\ s.v >= 1 /\ (s.v = n \/ s.v = n + 1)
    BY <1>4, <2>1
  <2>3. ~ Out(s.r, s.v)
    BY <1>4, <2>1, EditableIsPrivate
  <2>4. ~ Out(s.r, s.v)'
    BY <1>3, <2>3
  <2>5. s.v = n + 1 => \A v \in DOMAIN rows[x] : InChain(rows[x][v].state)
    BY <1>4, <2>1
  <2>6. s.row.state # "synced" /\ ~ InChain(s.row.state)
    BY <1>4 DEF Editable, InChain
  <2>7. HeadOK(s)'
    BY <1>2, <1>4, <2>2, <2>4, <2>5, <2>6 DEF HeadOK
  <2>. QED BY <1>4, <2>7, HandlerEdits
<1>5. ASSUME NEW t \in Times, CreateReport(x, t) PROVE HandlerOK'
  <2>. DEFINE s == save(x, 1, NewReport(t))
              l == <<s, event(x, 1, "created"), enqueueEvent(x, 1), cascade>>
  <2>1. rows[x] = <<>> /\ x \in used'
    BY <1>0, <1>5 DEF CreateReport, UsedOK
  <2>2. todo'["handler"] = l
    BY <1>0, <1>5 DEF CreateReport, Handle, TypeOK, Procs
  <2>3. s.op = "save" /\ s.r = x /\ s.v = n + 1 /\ Editable(s.row.state)
    <3>1. n = 0
      BY <2>1
    <3>2. NewReport(t).state = "draft"
      BY DEF NewReport
    <3>. QED BY <3>1, <3>2 DEF save, Editable
  <2>4. /\ event(x, 1, "created").op = "event"
        /\ enqueueEvent(x, 1).op = "enqueueEvent" /\ cascade.op = "cascade"
    BY DEF event, enqueueEvent, cascade
  <2>5. Head(l) = s /\ Elems(Tail(l)) = {event(x, 1, "created"), enqueueEvent(x, 1), cascade}
        /\ l # <<>>
    BY ListHead
  <2>6. \A v \in DOMAIN rows[x] : InChain(rows[x][v].state)
    BY <2>1
  <2>. HIDE DEF s, l
  <2>. QED BY <1>4, <2>1, <2>2, <2>3, <2>4, <2>5, <2>6
<1>6. ASSUME NEW t \in Times, SaveSectionOf(x, t) PROVE HandlerOK'
  <2>0. PICK s : s = save(x, n, SaveSection(Latest(x), t))
    OBVIOUS
  <2>. DEFINE e == event(x, n, "section_saved")
              l == <<s, e, enqueueEvent(x, n), cascade>>
  <2>1. LoadEditable(x) /\ x \in used' /\ Latest(x) \in Row
        /\ Editable(Latest(x).state)
    BY <1>0, <1>2, <1>6, RowType DEF SaveSectionOf, LoadEditable, UsedOK
  <2>2. todo'["handler"] = l
    BY <1>0, <1>6, <2>0 DEF SaveSectionOf, Handle, TypeOK, Procs
  <2>3. s.op = "save" /\ s.r = x /\ s.v = n /\ Editable(s.row.state)
    BY <2>0, <2>1, RowStates DEF save
  <2>4. e.op = "event" /\ enqueueEvent(x, n).op = "enqueueEvent"
        /\ cascade.op = "cascade"
    BY DEF event, enqueueEvent, cascade
  <2>5. Head(l) = s /\ Elems(Tail(l)) = {e, enqueueEvent(x, n), cascade} /\ l # <<>>
    BY ListHead
  <2>. HIDE DEF l, e
  <2>. QED BY <1>4, <2>1, <2>2, <2>3, <2>4, <2>5
<1>7. ASSUME NEW ok \in BOOLEAN, CheckReport(x, ok) PROVE HandlerOK'
  <2>. DEFINE f == ~ ok \/ EvaluateContinuity(x, Latest(x).data) # {}
  <2>0. PICK s : s = save(x, n, MarkReady(Latest(x), f))
    OBVIOUS
  <2>. DEFINE e == event(x, n, "health_check_result")
              l == <<s, e, enqueueEvent(x, n)>>
  <2>1. LoadEditable(x) /\ x \in used' /\ Latest(x) \in Row
    BY <1>0, <1>2, <1>7, RowType DEF CheckReport, LoadEditable, UsedOK
  <2>2. todo'["handler"] = l
    BY <1>0, <1>7, <2>0 DEF CheckReport, Handle, TypeOK, Procs
  <2>3. s.op = "save" /\ s.r = x /\ s.v = n /\ Editable(s.row.state)
    <3>1. f \in BOOLEAN
      OBVIOUS
    <3>. QED BY <2>0, <2>1, <3>1, RowStates DEF save
  <2>4. e.op = "event" /\ enqueueEvent(x, n).op = "enqueueEvent"
    BY DEF event, enqueueEvent
  <2>5. Head(l) = s /\ Elems(Tail(l)) = {e, enqueueEvent(x, n)} /\ l # <<>>
    BY ListHead
  <2>. HIDE DEF l, e, f
  <2>. QED BY <1>4, <2>1, <2>2, <2>3, <2>4, <2>5
<1>8. ASSUME SubmitReport(x) PROVE HandlerOK'
  <2>0. PICK s : s = save(x, n, Submit(Latest(x)))
    OBVIOUS
  <2>. DEFINE e == event(x, n, SubmitEvent(n))
              q == enqueueVersion(x, n)
              l == <<s, e, q, enqueueEvent(x, n), cascade>>
  <2>1. Latest(x) \in Row /\ n \in DOMAIN rows[x]
    BY <1>0, <1>8, RowType DEF SubmitReport
  <2>2. todo'["handler"] = l
    BY <1>0, <1>8, <2>0 DEF SubmitReport, Handle, TypeOK, Procs
  <2>3. s.op = "save" /\ s.r = x /\ s.v = n /\ s.row.state = "submitted"
    BY <2>0, <2>1, RowStates DEF save
  <2>4. e.op = "event" /\ enqueueEvent(x, n).op = "enqueueEvent"
        /\ cascade.op = "cascade" /\ q.op = "enqueueVersion" /\ q.r = x /\ q.v = n
    BY DEF event, enqueueEvent, enqueueVersion, cascade
  <2>5. Head(l) = s /\ Elems(Tail(l)) = {e, q, enqueueEvent(x, n), cascade} /\ l # <<>>
    BY ListHead
  <2>. HIDE DEF l, e, q
  <2>6. HeadOK(s)'
    BY <1>2, <2>1, <2>3 DEF HeadOK, InChain, Editable, Exists
  <2>7. Promised(s) = {} /\ Promised(q) = {<<x, n>>}
    BY <2>3, <2>4 DEF Promised
  <2>8. ASSUME NEW t \in {e, q, enqueueEvent(x, n), cascade} PROVE RestOK(s, t)'
    <3>1. t # q => Promised(t) = {}
      BY <2>4 DEF Promised
    <3>2. ~ Editable(s.row.state)
      BY <2>3 DEF Editable
    <3>3. t.op \in {"event", "enqueueEvent", "cascade", "enqueueVersion"}
      BY <2>4
    <3>. QED BY <1>2, <2>1, <2>3, <2>7, <3>1, <3>2, <3>3 DEF RestOK, Exists
  <2>. QED BY <2>2, <2>3, <2>5, <2>6, <2>7, <2>8 DEF HandlerOK
<1>9. ASSUME StartCorrection(x) PROVE HandlerOK'
  <2>0. PICK s : s = save(x, n + 1, NewCorrection(Latest(x)))
    OBVIOUS
  <2>. DEFINE e == event(x, n, "correction_started")
              l == <<s, e, enqueueEvent(x, n)>>
  <2>1. x \in used' /\ Latest(x) \in Row /\ InChain(Latest(x).state)
    BY <1>0, <1>2, <1>9, RowType DEF StartCorrection, UsedOK, CanCorrect
  <2>2. todo'["handler"] = l
    BY <1>0, <1>9, <2>0 DEF StartCorrection, Handle, TypeOK, Procs
  <2>3. s.op = "save" /\ s.r = x /\ s.v = n + 1 /\ Editable(s.row.state)
    BY <2>0, <2>1, RowStates DEF save
  <2>4. e.op = "event" /\ enqueueEvent(x, n).op = "enqueueEvent"
    BY DEF event, enqueueEvent
  <2>5. Head(l) = s /\ Elems(Tail(l)) = {e, enqueueEvent(x, n)} /\ l # <<>>
    BY ListHead
  <2>6. ASSUME NEW v \in DOMAIN rows[x] PROVE InChain(rows[x][v].state)
    <3>1. v \in Nat /\ v <= Len(rows[x]) /\ Len(rows[x]) \in Nat
      BY <1>0 DEF TypeOK
    <3>. QED BY <1>0, <2>1, <3>1 DEF HistoryCommitted, Latest
  <2>. HIDE DEF l, e
  <2>. QED BY <1>4, <2>1, <2>2, <2>3, <2>4, <2>5, <2>6
<1>10. ASSUME DeleteReport(x) PROVE HandlerOK'
  <2>. DEFINE s == [op |-> "delete", r |-> x]
              l == <<s, cascade>>
  <2>1. LoadEditable(x) /\ n = 1 /\ Editable(rows[x][1].state)
    BY <1>10 DEF DeleteReport, LoadEditable, Latest
  <2>2. todo'["handler"] = l
    BY <1>0, <1>10 DEF DeleteReport, Handle, TypeOK, Procs
  <2>3. s.op = "delete" /\ s.r = x /\ cascade.op = "cascade"
    BY DEF cascade
  <2>4. Head(l) = s /\ Elems(Tail(l)) = {cascade} /\ l # <<>>
    BY ListHead
  <2>5. \A v : ~ Out(x, v)
    <3>1. SUFFICES ASSUME NEW v, Out(x, v) PROVE FALSE
      OBVIOUS
    <3>2. v \in DOMAIN rows[x] /\ InChain(rows[x][v].state)
      BY <3>1, OutCommitted
    <3>3. v = 1
      BY <1>0, <2>1, <3>2, RowType
    <3>. QED BY <2>1, <3>2, <3>3 DEF InChain
  <2>6. ~ LandedReport(x) /\ \A i \in outbox : i.kind = "reportVersion" => i.r # x
    BY <2>5 DEF Out, Landed, LandedReport, InOutbox
  <2>. HIDE DEF s, l
  <2>7. HeadOK(s)'
    BY <1>2, <2>1, <2>3, <2>6 DEF HeadOK, LandedReport
  <2>. QED BY <2>2, <2>3, <2>4, <2>7, HandlerEdits
<1>11. ASSUME AcknowledgeFinding(x) PROVE HandlerOK'
  <2>1. PICK s : s = event(x, n, "finding_acknowledged")
    OBVIOUS
  <2>2. PICK e : e = enqueueEvent(x, n)
    OBVIOUS
  <2>. DEFINE l == <<s, e>>
  <2>3. todo'["handler"] = l
    BY <1>0, <1>11, <2>1, <2>2 DEF AcknowledgeFinding, Handle, TypeOK, Procs
  <2>4. s.op = "event" /\ e.op = "enqueueEvent"
    BY <2>1, <2>2 DEF event, enqueueEvent
  <2>5. Head(l) = s /\ Elems(Tail(l)) = {e} /\ l # <<>>
    BY ListHead
  <2>. HIDE DEF l
  <2>6. HeadOK(s)' /\ Promised(s) = {} /\ Promised(e) = {}
    BY <2>4 DEF HeadOK, Promised
  <2>7. RestOK(s, e)'
    BY <2>4, <2>6 DEF RestOK
  <2>. QED BY <2>3, <2>4, <2>5, <2>6, <2>7 DEF HandlerOK
<1>. QED BY <1>1, <1>5, <1>6, <1>7, <1>8, <1>9, <1>10, <1>11

\* The handler's list holds a handler's statements only.
LEMMA HandlerPendingStep ==
  ASSUME IInv, [Next]_vars, NEW t \in Pending("handler")'
  PROVE  t.op \in HandlerOps
<1>0. TypeOK /\ "handler" \in Procs /\ "handler" \notin SyncProcs /\ <<>> \in Seq(Stmt)
  BY SyncProcsAssumption DEF IInv, Procs
<1>1. t \in Pending("handler") => t.op \in HandlerOps
  BY DEF IInv, PendingOK
<1>2. CASE todo'["handler"] = todo["handler"]
  BY <1>1, <1>2 DEF Pending
<1>3. CASE Abort("handler")
  BY <1>0, <1>3, PendingReturn DEF Abort
<1>4. CASE Request
  <2>1. PICK x \in Reports :
          \/ \E d \in Times : CreateReport(x, d) \/ SaveSectionOf(x, d)
          \/ \E ok \in BOOLEAN : CheckReport(x, ok)
          \/ SubmitReport(x)
          \/ StartCorrection(x)
          \/ AcknowledgeFinding(x)
          \/ DeleteReport(x)
    BY <1>4 DEF Request
  <2>2. PICK l : Handle(l) /\ \A s \in Elems(l) : s.op \in HandlerOps
    <3>1. ASSUME NEW d \in Times, CreateReport(x, d)
          PROVE  \E l : Handle(l) /\ \A s \in Elems(l) : s.op \in HandlerOps
      BY <3>1, ElemsLists DEF CreateReport, save, event, enqueueEvent, cascade,
         HandlerOps
    <3>2. ASSUME NEW d \in Times, SaveSectionOf(x, d)
          PROVE  \E l : Handle(l) /\ \A s \in Elems(l) : s.op \in HandlerOps
      BY <3>2, ElemsLists DEF SaveSectionOf, save, event, enqueueEvent, cascade,
         HandlerOps
    <3>3. ASSUME NEW ok \in BOOLEAN, CheckReport(x, ok)
          PROVE  \E l : Handle(l) /\ \A s \in Elems(l) : s.op \in HandlerOps
      BY <3>3, ElemsLists DEF CheckReport, save, event, enqueueEvent, HandlerOps
    <3>4. ASSUME SubmitReport(x)
          PROVE  \E l : Handle(l) /\ \A s \in Elems(l) : s.op \in HandlerOps
      BY <3>4, ElemsLists DEF SubmitReport, save, event, enqueueEvent,
         enqueueVersion, cascade, HandlerOps
    <3>5. ASSUME StartCorrection(x)
          PROVE  \E l : Handle(l) /\ \A s \in Elems(l) : s.op \in HandlerOps
      BY <3>5, ElemsLists DEF StartCorrection, save, event, enqueueEvent, HandlerOps
    <3>6. ASSUME DeleteReport(x)
          PROVE  \E l : Handle(l) /\ \A s \in Elems(l) : s.op \in HandlerOps
      BY <3>6, ElemsLists DEF DeleteReport, cascade, HandlerOps
    <3>7. ASSUME AcknowledgeFinding(x)
          PROVE  \E l : Handle(l) /\ \A s \in Elems(l) : s.op \in HandlerOps
      BY <3>7, ElemsLists DEF AcknowledgeFinding, event, enqueueEvent, HandlerOps
    <3>. QED BY <2>1, <3>1, <3>2, <3>3, <3>4, <3>5, <3>6, <3>7
  <2>3. todo'["handler"] = l
    BY <1>0, <2>2 DEF Handle, TypeOK
  <2>. QED BY <2>2, <2>3 DEF Pending, Elems
<1>5. CASE Execute("handler")
  <2>1. todo["handler"] # <<>>
    BY <1>0, <1>5, ExecuteTodo
  <2>2. ASSUME NEW l \in Seq(Stmt), Then("handler", l),
               \A s \in Elems(l) : s.op \in HandlerOps
        PROVE  t.op \in HandlerOps
    BY <1>0, <1>1, <2>1, <2>2, PendingThen
  <2>3. Return("handler") => t.op \in HandlerOps
    BY <1>0, PendingReturn
  <2>4. Then("handler", <<>>) => t.op \in HandlerOps
    BY <1>0, <2>2, ElemsLists
  <2>5. ASSUME RunCascade("handler") PROVE t.op \in HandlerOps
    <3>1. <<[op |-> "invalidate", flagged |-> Flagged]>> \in Seq(Stmt)
          /\ Then("handler", <<[op |-> "invalidate", flagged |-> Flagged]>>)
      BY <1>0, <2>1, <2>5, ExecuteStmts DEF RunCascade, Stmts
    <3>2. \A s \in Elems(<<[op |-> "invalidate", flagged |-> Flagged]>>) :
            s.op \in HandlerOps
      BY ElemsLists DEF HandlerOps
    <3>. QED BY <2>2, <3>1, <3>2
  <2>6. ASSUME InvalidateFlagged("handler") PROVE t.op \in HandlerOps
    <3>. DEFINE h == Head(todo["handler"])
    <3>1. h.op = "invalidate" /\ h \in Stmt
      BY <1>0, <2>1, <2>6, HeadPending DEF InvalidateFlagged, Stmts
    <3>2. ASSUME NEW c \in h.flagged,
                 Then("handler", <<save(c.r, c.v, c.row), event(c.r, c.v, "invalidated")>>
                        \o (IF Editable(c.row.invFrom) THEN <<>>
                            ELSE <<enqueueVersion(c.r, c.v),
                                   enqueueEvent(c.r, c.v)>>)
                        \o <<[op |-> "invalidate", flagged |-> h.flagged \ {c}]>>)
          PROVE  t.op \in HandlerOps
      <4>. DEFINE a == <<save(c.r, c.v, c.row), event(c.r, c.v, "invalidated")>>
                  m == IF Editable(c.row.invFrom) THEN <<>>
                       ELSE <<enqueueVersion(c.r, c.v), enqueueEvent(c.r, c.v)>>
                  i == <<[op |-> "invalidate", flagged |-> h.flagged \ {c}]>>
      <4>1. /\ \A s \in Elems(a) : s.op \in HandlerOps
            /\ \A s \in Elems(m) : s.op \in HandlerOps
            /\ \A s \in Elems(i) : s.op \in HandlerOps
        BY ElemsLists DEF save, event, enqueueVersion, enqueueEvent, HandlerOps
      <4>2. a \in Seq(Stmt) /\ m \in Seq(Stmt) /\ i \in Seq(Stmt)
        <5>1. h.flagged \in SUBSET Loaded
          BY <3>1, StmtFields
        <5>2. c.r \in Reports /\ c.v \in Nat /\ c.row \in Row
          BY <3>2, <5>1 DEF Loaded
        <5>3. h.flagged \ {c} \in SUBSET Loaded /\ "invalidated" \in EventTypes
          BY <5>1 DEF EventTypes
        <5>. QED BY <5>2, <5>3, StmtIntro
      <4>3. Then("handler", a \o m \o i)
        BY <3>2
      <4>. HIDE DEF a, m, i
      <4>4. Elems(a \o m) \subseteq Elems(a) \cup Elems(m) /\ a \o m \in Seq(Stmt)
        BY <4>2, ElemsConcat
      <4>5. Elems(a \o m \o i) \subseteq Elems(a \o m) \cup Elems(i)
            /\ a \o m \o i \in Seq(Stmt)
        <5>. DEFINE b == a \o m
        <5>1. b \in Seq(Stmt)
          BY <4>4
        <5>. HIDE DEF b
        <5>2. Elems(b \o i) \subseteq Elems(b) \cup Elems(i) /\ b \o i \in Seq(Stmt)
          BY <4>2, <5>1, ElemsConcat
        <5>. QED BY <5>2 DEF b
      <4>. QED BY <2>2, <4>1, <4>3, <4>4, <4>5
    <3>. QED BY <2>4, <2>6, <3>2 DEF InvalidateFlagged
  <2>7. Head(todo["handler"]).op \in HandlerOps
    BY <2>1, HandlerRest
  <2>8. \/ SaveReport("handler") \/ AppendEvent("handler")
        \/ EnqueueOutboxItem("handler") \/ DeleteRows("handler")
        \/ RunCascade("handler") \/ InvalidateFlagged("handler")
    BY <1>5, <2>7 DEF Execute, HandlerOps, Stmts, AckOutboxItem, MarkReportSynced,
       ApplyInboxPull, EachNotice, InsertInvalidationNotice,
       ApplyInvalidationNotice, EachRemark, InsertRemark, ApplyRemarks
  <2>9. \/ Then("handler", <<>>) \/ Return("handler")
        \/ RunCascade("handler") \/ InvalidateFlagged("handler")
    BY <2>8 DEF SaveReport, AppendEvent, EnqueueOutboxItem, DeleteRows
  <2>. QED BY <2>3, <2>4, <2>5, <2>6, <2>9
<1>. QED BY <1>0, <1>2, <1>3, <1>4, <1>5, TodoChange

\* No step leaves the handler with a statement it may not execute.
LEMMA HandlerStep ==
  ASSUME IInv, [Next]_vars, TypeOK' PROVE HandlerOK'
<1>1. Abort("handler") => HandlerOK'
  <2>1. Abort("handler") => todo'["handler"] = <<>>
    BY ReturnTodo DEF Abort, IInv, Procs
  <2>. QED BY <2>1 DEF HandlerOK
<1>2. OtherStep \/ Request \/ Execute("handler") \/ Abort("handler")
  BY DEF Next, Procs, OtherStep
<1>. QED BY <1>1, <1>2, HandlerStable, HandlerRequests, HandlerExecutes

-----------------------------------------------------------------------------
(* The theorems. *)

\* The inductive invariant holds initially.
LEMMA InitIInv == Init => IInv
<1>. SUFFICES ASSUME Init PROVE IInv
  OBVIOUS
<1>1. TypeOK
  BY DEF Init, TypeOK, Cursors
<1>2. \A p \in Procs : Pending(p) = {} /\ todo[p] = <<>>
  BY DEF Init, Pending
<1>3. HandlerOK /\ PendingOK
  BY <1>2 DEF HandlerOK, PendingOK, Procs
<1>4. UsedOK /\ HistoryCommitted /\ SyncedOK
  BY DEF Init, UsedOK, HistoryCommitted, SyncedOK
<1>5. StreamsOK /\ OutOK /\ NumbersOK
  BY DEF Init, StreamsOK, OutOK, NumbersOK
<1>. QED BY <1>1, <1>3, <1>4, <1>5 DEF IInv

\* Every step preserves the inductive invariant.
LEMMA IInvStep == IInv /\ [Next]_vars => IInv'
<1>. SUFFICES ASSUME IInv, [Next]_vars PROVE IInv'
  OBVIOUS
<1>1. TypeOK'
  BY TypeStep
<1>2. PendingOK'
  BY <1>1, HandlerPendingStep, SyncPendingStep DEF PendingOK
<1>3. HandlerOK'
  BY <1>1, HandlerStep
<1>4. UsedOK' /\ StreamsOK' /\ HistoryCommitted' /\ OutOK' /\ SyncedOK' /\ NumbersOK'
  BY <1>1, UsedStep, StreamsStep, HistoryStep, OutStep, SyncedStep, NumbersStep
<1>. QED BY <1>1, <1>2, <1>3, <1>4 DEF IInv

\* The inductive invariant holds in every reachable state: what each pending
\* statement of a handler or of a sync cycle relies on is true until it is
\* executed, whatever statements the other processes execute in between.
THEOREM Inductive == Spec => []IInv
BY InitIInv, IInvStep, PTL DEF Spec

\* Every table, stream and pending statement keeps its type.
THEOREM TypeCorrect == Spec => []TypeOK
<1>1. IInv => TypeOK
  BY DEF IInv
<1>. QED BY <1>1, Inductive, PTL

\* Whatever handlers and sync cycles interleave, every version of a report
\* but its newest is committed.
THEOREM HistoryIsCommitted == Spec => []HistoryCommitted
<1>1. IInv => HistoryCommitted
  BY DEF IInv
<1>. QED BY <1>1, Inductive, PTL

\* No step of a handler turns a version that is queued or at the office back
\* into a draft, or removes it.
THEOREM QueuedAndLandedAreCommitted == Spec => []OutIsCommitted
<1>1. IInv => OutIsCommitted
  BY DEF IInv, OutOK, OutIsCommitted, IsCommitted, StateOf
<1>. QED BY <1>1, Inductive, PTL

\* The copy the office landed is the version as the vessel still holds it.
THEOREM OfficeCopiesAreFaithful == Spec => []OfficeCopyFaithful
<1>1. IInv => OfficeCopyFaithful
  BY DEF IInv, OutOK, OfficeCopyFaithful, IsCommitted
<1>. QED BY <1>1, Inductive, PTL

\* A version the vessel shows as synced has landed at the office.
THEOREM SyncedVersionsHaveLanded == Spec => []SyncedHasLanded
<1>1. IInv => SyncedHasLanded
  BY DEF IInv, SyncedOK, SyncedHasLanded
<1>. QED BY <1>1, Inductive, PTL

\* The data of a committed version never changes and the version never goes
\* away: the trigger of the reports table and the checks of the handlers are
\* enough, although the sync cycle writes rows without holding writeMu.
THEOREM CommittedDataIsLocked == Spec => CommittedDataLocked
<1>1. IInv /\ [Next]_vars =>
        [\A r \in Reports : \A v \in DOMAIN rows[r] :
           InChain(rows[r][v].state) =>
             v \in DOMAIN rows'[r] /\ rows'[r][v].data = rows[r][v].data]_vars
  BY CommittedKept
<1>. QED BY <1>1, Inductive, PTL DEF Spec, CommittedDataLocked

-----------------------------------------------------------------------------
(* The refinement of ReportHistory. *)

\* What ReportHistory keeps of the versions of a report, and of them all.
Data(q) == [v \in DOMAIN q |-> q[v].data]
Versions == [r \in Reports |-> Data(rows[r])]

\* The data of the versions of a report, as a sequence.
LEMMA DataType ==
  ASSUME NEW q \in Seq(Row)
  PROVE  /\ Data(q) \in Seq(Times) /\ Len(Data(q)) = Len(q)
         /\ DOMAIN Data(q) = DOMAIN q /\ Len(q) \in Nat /\ DOMAIN q = 1..Len(q)
<1>1. \A v \in DOMAIN q : q[v].data \in Times
  <2>1. \A v \in DOMAIN q : q[v] \in Row
    OBVIOUS
  <2>. QED BY <2>1 DEF Row
<1>2. DOMAIN q = 1..Len(q) /\ Len(q) \in Nat
  OBVIOUS
<1>3. Data(q) \in [1..Len(q) -> Times]
  BY <1>1, <1>2 DEF Data
<1>4. Data(q) \in Seq(Times)
  BY <1>2, <1>3
<1>. QED BY <1>2, <1>3, <1>4

\* A new version appends its data.
LEMMA DataAppend ==
  ASSUME NEW q \in Seq(Row), NEW p \in Seq(Row), NEW row \in Row,
         DOMAIN p = DOMAIN q \cup {Len(q) + 1}, Len(p) = Len(q) + 1,
         p[Len(q) + 1] = row, \A v \in DOMAIN q : p[v] = q[v]
  PROVE  Data(p) = Append(Data(q), row.data)
<1>1. Data(q) \in Seq(Times) /\ Len(Data(q)) = Len(q) /\ Len(q) \in Nat
      /\ DOMAIN Data(q) = DOMAIN q /\ DOMAIN q = 1..Len(q)
  BY DataType
<1>2. row.data \in Times
  BY DEF Row
<1>. DEFINE d == Data(q)
            e == row.data
<1>3. \A v \in DOMAIN q : Data(p)[v] = d[v]
  BY DEF Data
<1>4. Data(p)[Len(q) + 1] = e /\ DOMAIN Data(p) = DOMAIN q \cup {Len(q) + 1}
  BY DEF Data
<1>5. Data(p) \in [DOMAIN p -> Times]
  BY DataType
<1>. HIDE DEF d, e
<1>6. /\ Len(Append(d, e)) = Len(q) + 1
      /\ DOMAIN Append(d, e) = DOMAIN q \cup {Len(q) + 1}
      /\ Append(d, e)[Len(q) + 1] = e
      /\ \A v \in DOMAIN q : Append(d, e)[v] = d[v]
      /\ Append(d, e) \in Seq(Times)
  BY <1>1, <1>2, AppendList DEF d, e
<1>7. Append(d, e) \in [DOMAIN p -> Times]
  <2>1. Append(d, e) \in [1..Len(Append(d, e)) -> Times]
    <3>1. ASSUME NEW z \in Seq(Times) PROVE z \in [1..Len(z) -> Times]
      OBVIOUS
    <3>. QED BY <1>6, <3>1, Zenon
  <2>2. 1..Len(Append(d, e)) = DOMAIN p
    BY <1>6
  <2>. QED BY <2>1, <2>2
<1>8. \A v \in DOMAIN p : Data(p)[v] = Append(d, e)[v]
  BY <1>3, <1>4, <1>6
<1>9. Data(p) = Append(d, e)
  BY <1>5, <1>7, <1>8
<1>. QED BY <1>9 DEF d, e

\* A saved version replaces its data.
LEMMA DataUpdate ==
  ASSUME NEW q \in Seq(Row), NEW p \in Seq(Row), NEW row \in Row,
         NEW n \in DOMAIN q, DOMAIN p = DOMAIN q,
         p[n] = row, \A v \in DOMAIN q \ {n} : p[v] = q[v]
  PROVE  Data(p) = [Data(q) EXCEPT ![n] = row.data]
BY DataType DEF Data

\* A step that changes no data and lands no copy is a stutter.
LEMMA HistoryStutter ==
  ASSUME IInv, TypeOK', \A r \in Reports : Data(rows[r])' = Data(rows[r]),
         landed' = landed
  PROVE  UNCHANGED History!histVars
<1>1. Versions' = Versions
  BY DEF Versions
<1>. QED BY <1>1 DEF History!histVars, Versions, Data

\* A save edits the newest version, opens one, or changes no data.
LEMMA HistorySave ==
  ASSUME IInv, [Next]_vars, TypeOK', NEW p \in Procs, SaveReport(p),
         landed' = landed
  PROVE  [History!HistNext]_(History!histVars)
<1>. SUFFICES ASSUME NEW s, s = Head(todo[p])
              PROVE  [History!HistNext]_(History!histVars)
  OBVIOUS
<1>. DEFINE q == rows[s.r]
<1>1. todo[p] # <<>> /\ s.op = "save" /\ TypeOK
  BY SaveEffect DEF IInv
<1>2. s.r \in Reports /\ s.v \in Nat /\ s.row \in Row /\ rows[s.r] \in Seq(Row)
      /\ s.row.data \in Times
  BY <1>1, SaveCases DEF Row
<1>3. rows'[s.r] \in Seq(Row) /\ rows \in [Reports -> Seq(Row)]
      /\ rows' \in [Reports -> Seq(Row)]
  BY <1>1, <1>2 DEF TypeOK
<1>4. \A r \in Reports \ {s.r} : Data(rows'[r]) = Data(rows[r])
  BY SaveEffect
<1>5. CASE rows' = rows
  BY <1>5, HistoryStutter DEF Data
<1>6. CASE /\ Exists(s.r, s.v)
           /\ DOMAIN rows'[s.r] = DOMAIN rows[s.r]
           /\ rows'[s.r][s.v] = s.row
           /\ \A v \in DOMAIN rows[s.r] \ {s.v} : rows'[s.r][v] = rows[s.r][v]
           /\ InChain(rows[s.r][s.v].state) => s.row.data = rows[s.r][s.v].data
  <2>1. Data(rows'[s.r]) = [Data(q) EXCEPT ![s.v] = s.row.data]
    <3>1. s.v \in DOMAIN q
      BY <1>6 DEF Exists
    <3>. DEFINE z == rows'[s.r]
    <3>2. /\ q \in Seq(Row) /\ z \in Seq(Row) /\ s.row \in Row /\ DOMAIN z = DOMAIN q
          /\ z[s.v] = s.row /\ \A v \in DOMAIN q \ {s.v} : z[v] = q[v]
      BY <1>2, <1>3, <1>6
    <3>. HIDE DEF q, z
    <3>3. Data(z) = [Data(q) EXCEPT ![s.v] = s.row.data]
      BY <3>1, <3>2, DataUpdate
    <3>. QED BY <3>3 DEF z
  <2>2. CASE s.row.data = rows[s.r][s.v].data
    <3>1. Data(rows'[s.r]) = Data(q)
      BY <2>1, <2>2, <1>6 DEF Data, Exists
    <3>2. \A r \in Reports : Data(rows'[r]) = Data(rows[r])
      BY <1>4, <3>1
    <3>. QED BY <3>2, HistoryStutter DEF Data
  <2>3. CASE s.row.data # rows[s.r][s.v].data
    <3>1. ~ InChain(rows[s.r][s.v].state)
      BY <1>6, <2>3
    <3>2. s.v = Len(rows[s.r]) /\ rows[s.r] # <<>>
      BY <1>2, <1>6, <3>1, DataType DEF IInv, HistoryCommitted, Exists
    <3>3. ~ Landed(s.r, s.v)
      BY <3>1, OutCommitted DEF Out
    <3>4. Versions' = [Versions EXCEPT ![s.r] = [Data(q) EXCEPT ![s.v] = s.row.data]]
      BY <1>2, <1>4, <2>1 DEF Versions
    <3>5. Versions[s.r] = Data(q) /\ Len(Versions[s.r]) = s.v /\ Versions[s.r] # <<>>
      BY <1>2, <3>2, DataType DEF Versions
    <3>6. Versions' = [Versions EXCEPT ![s.r][s.v] = s.row.data]
      BY <3>4, <3>5
    <3>7. History!Edit(s.r, s.row.data)
      BY <3>3, <3>5, <3>6 DEF History!Edit, History!Delivered, Landed, Versions, Data
    <3>. QED BY <1>2, <3>7 DEF History!HistNext
  <2>. QED BY <2>2, <2>3
<1>7. CASE /\ ~ Exists(s.r, s.v)
           /\ Len(rows'[s.r]) = Len(rows[s.r]) + 1
           /\ DOMAIN rows'[s.r] = DOMAIN rows[s.r] \cup {Len(rows[s.r]) + 1}
           /\ rows'[s.r][Len(rows[s.r]) + 1] = s.row
           /\ \A v \in DOMAIN rows[s.r] : rows'[s.r][v] = rows[s.r][v]
  <2>1. Data(rows'[s.r]) = Append(Data(q), s.row.data)
    BY <1>2, <1>3, <1>7, DataAppend
  <2>2. Versions' = [Versions EXCEPT ![s.r] = Append(Data(q), s.row.data)]
    BY <1>2, <1>4, <2>1 DEF Versions
  <2>3. Versions' = [Versions EXCEPT ![s.r] = Append(Versions[s.r], s.row.data)]
    BY <1>2, <2>2 DEF Versions
  <2>4. History!Open(s.r, s.row.data)
    BY <2>3 DEF History!Open, Versions, Data
  <2>. QED BY <1>2, <2>4 DEF History!HistNext
<1>. QED BY <1>5, <1>6, <1>7, SaveEffect

\* A delete drops a report with one version that never reached the office.
LEMMA HistoryDelete ==
  ASSUME IInv, [Next]_vars, NEW p \in Procs, DeleteRows(p), landed' = landed
  PROVE  History!HistNext
<1>. SUFFICES ASSUME NEW r, r = Head(todo[p]).r PROVE History!HistNext
  OBVIOUS
<1>1. /\ r \in Reports /\ Len(rows[r]) = 1 /\ ~ LandedReport(r)
      /\ rows'[r] = <<>> /\ \A x \in Reports \ {r} : rows'[x] = rows[x]
  BY DeleteEffect DEF HeadOK
<1>2. ~ Landed(r, 1)
  BY <1>1 DEF Landed, LandedReport
<1>3. Len(Versions[r]) = 1
  BY <1>1, DataType DEF Versions, IInv, TypeOK
<1>4. Data(rows'[r]) = <<>>
  BY <1>1 DEF Data
<1>5. Versions' = [Versions EXCEPT ![r] = <<>>]
  BY <1>1, <1>4 DEF Versions, Data
<1>6. History!Drop(r)
  BY <1>2, <1>3, <1>5 DEF History!Drop, History!Delivered, Landed, Versions, Data
<1>. QED BY <1>1, <1>6 DEF History!HistNext

\* A push delivers copies of the versions as the vessel holds them.
LEMMA HistoryPush ==
  ASSUME IInv, [Next]_vars, TypeOK', NEW p \in SyncProcs, PushOutbox(p), rows' = rows
  PROVE  History!HistNext
<1>. DEFINE N == landed' \ landed
<1>1. landed \subseteq landed' /\ landed' \subseteq Copy
  BY LandedKept DEF TypeOK
<1>2. ASSUME NEW c \in N PROVE c \in History!Copies
  <2>1. Out(c.r, c.v) /\ rows[c.r][c.v].data = c.data
    BY PushEffect
  <2>2. c.r \in Reports /\ c.v \in DOMAIN rows[c.r]
    BY <2>1, OutCommitted
  <2>3. c = [r |-> c.r, v |-> c.v, data |-> c.data]
    BY <1>1 DEF Copy
  <2>4. Versions[c.r][c.v] = c.data /\ c.v \in DOMAIN Versions[c.r]
    BY <2>1, <2>2 DEF Versions, Data
  <2>5. c \in {[r |-> c.r, v |-> v, data |-> Versions[c.r][v]] :
                 v \in DOMAIN Versions[c.r]}
    BY <2>3, <2>4
  <2>6. History!Copies = UNION {{[r |-> r, v |-> v, data |-> Versions[r][v]] :
                                    v \in DOMAIN Versions[r]} : r \in Reports}
    BY DEF History!Copies, Versions, Data
  <2>7. {[r |-> c.r, v |-> v, data |-> Versions[c.r][v]] : v \in DOMAIN Versions[c.r]}
          \in {{[r |-> r, v |-> v, data |-> Versions[r][v]] :
                  v \in DOMAIN Versions[r]} : r \in Reports}
    BY <2>2
  <2>. QED BY <2>5, <2>6, <2>7
<1>3. landed' = landed \cup N /\ N \in SUBSET History!Copies
  BY <1>1, <1>2
<1>4. Versions' = Versions
  BY DEF Versions, Data
<1>5. History!Deliver(N)
  BY <1>3, <1>4 DEF History!Deliver, Versions, Data
<1>. QED BY <1>3, <1>5 DEF History!HistNext

\* Every step of the vessel and the office is a step of ReportHistory or
\* leaves it unchanged.
LEMMA HistoryStepSimulation ==
  IInv /\ [Next]_vars => [History!HistNext]_(History!histVars)
<1>. SUFFICES ASSUME IInv, [Next]_vars
              PROVE  [History!HistNext]_(History!histVars)
  OBVIOUS
<1>1. TypeOK'
  BY TypeStep
<1>2. CASE rows' = rows /\ landed' = landed
  BY <1>1, <1>2, HistoryStutter DEF Data
<1>3. ASSUME NEW p \in Procs, Execute(p), SaveReport(p) \/ DeleteRows(p)
      PROVE  [History!HistNext]_(History!histVars)
  <2>1. landed' = landed
    BY <1>3 DEF Execute, office
  <2>. QED BY <1>1, <1>3, <2>1, HistorySave, HistoryDelete
<1>4. ASSUME NEW p \in SyncProcs, PushOutbox(p)
      PROVE  [History!HistNext]_(History!histVars)
  <2>1. rows' = rows
    BY <1>4 DEF PushOutbox, store
  <2>. QED BY <1>1, <1>4, <2>1, HistoryPush
<1>. QED BY <1>2, <1>3, <1>4, RowsChange, OfficeChange

\* The report service implements ReportHistory: versions are appended, only
\* the newest one is edited and only while the office has no copy of it, and
\* the office holds versions exactly as the vessel has them.
THEOREM Refinement == Spec => HistorySpec
<1>1. Init => History!HistInit
  <2>1. Init => Versions = [r \in Reports |-> <<>>]
    BY DEF Init, Versions, Data
  <2>. QED BY <2>1 DEF Init, History!HistInit, Versions, Data
<1>. QED BY <1>1, HistoryStepSimulation, Inductive, PTL
     DEF Spec, HistorySpec, History!HistSpec


-----------------------------------------------------------------------------
(* A submitted version is queued. *)

\* The statement lists of the requests, by shape: an edit that ends in a
\* cascade, one that does not, a submit, a delete and an acknowledgement.
EditList(q, s) ==
  /\ s.op = "save" /\ Editable(s.row.state) /\ ~ IsCommitted(s.r, s.v)
  /\ \E e, f : /\ e.op = "event" /\ f.op = "enqueueEvent"
               /\ q = <<s, e, f, cascade>> \/ q = <<s, e, f>>
SubmitList(q, s) ==
  /\ s.op = "save" /\ s.row.state = "submitted" /\ ~ IsCommitted(s.r, s.v)
  /\ \E e, g, f : /\ q = <<s, e, g, f, cascade>>
                  /\ e.op = "event" /\ f.op = "enqueueEvent"
                  /\ Queues(g, s.r, s.v)
OtherList(q) ==
  \/ \E s : q = <<s, cascade>> /\ s.op = "delete"
  \/ \E e, f : q = <<e, f>> /\ e.op = "event" /\ f.op = "enqueueEvent"

\* What each request leaves the handler to execute.
LEMMA RequestLists ==
  ASSUME IInv, Request
  PROVE  LET q == todo'["handler"] IN
         /\ rows' = rows /\ todo["handler"] = <<>> /\ aborts' = aborts
         /\ \/ \E s : EditList(q, s)
            \/ \E s : SubmitList(q, s)
            \/ OtherList(q)
<1>0. TypeOK
  BY DEF IInv
<1>1. PICK x \in Reports :
        \/ \E t \in Times : CreateReport(x, t) \/ SaveSectionOf(x, t)
        \/ \E ok \in BOOLEAN : CheckReport(x, ok)
        \/ SubmitReport(x)
        \/ StartCorrection(x)
        \/ AcknowledgeFinding(x)
        \/ DeleteReport(x)
  BY DEF Request
<1>. DEFINE n == Len(rows[x])
            q == todo'["handler"]
            G == \/ \E s : EditList(q, s)
                 \/ \E s : SubmitList(q, s)
                 \/ OtherList(q)
<1>2. rows' = rows /\ todo["handler"] = <<>> /\ aborts' = aborts
  BY <1>1 DEF CreateReport, SaveSectionOf, CheckReport, SubmitReport,
     StartCorrection, AcknowledgeFinding, DeleteReport, Handle, store
<1>3. /\ \A r, v, t : event(r, v, t).op = "event"
      /\ \A r, v : enqueueEvent(r, v).op = "enqueueEvent"
      /\ \A r, v : Queues(enqueueVersion(r, v), r, v)
      /\ \A r, v, row : LET s == save(r, v, row) IN
           s.op = "save" /\ s.r = r /\ s.v = v /\ s.row = row
  BY DEF event, enqueueEvent, enqueueVersion, save, Queues
<1>c. /\ rows[x] = <<>> => ~ IsCommitted(x, 1)
      /\ ~ IsCommitted(x, n + 1)
      /\ LoadEditable(x) => ~ IsCommitted(x, n)
      /\ rows[x] # <<>> /\ CanSubmit(Latest(x)) => ~ IsCommitted(x, n)
  <2>1. rows[x] \in Seq(Row)
    BY <1>0 DEF TypeOK
  <2>. QED BY <2>1 DEF IsCommitted, Exists, LoadEditable, Latest, InChain, Editable,
         CanSubmit
<1>4. ASSUME NEW t \in Times, CreateReport(x, t) PROVE G
  <2>1. q = <<save(x, 1, NewReport(t)), event(x, 1, "created"),
              enqueueEvent(x, 1), cascade>>
    BY <1>0, <1>4 DEF CreateReport, Handle, TypeOK, Procs
  <2>2. Editable(NewReport(t).state)
    BY DEF NewReport, Editable
  <2>. HIDE DEF q
  <2>3. ~ IsCommitted(x, 1)
    BY <1>0, <1>4, <1>c DEF CreateReport, IInv, UsedOK
  <2>4. EditList(q, save(x, 1, NewReport(t)))
    BY <1>3, <2>1, <2>2, <2>3 DEF EditList
  <2>. QED BY <2>4
<1>5. ASSUME NEW t \in Times, SaveSectionOf(x, t) PROVE G
  <2>1. q = <<save(x, n, SaveSection(Latest(x), t)), event(x, n, "section_saved"),
              enqueueEvent(x, n), cascade>>
    BY <1>0, <1>5 DEF SaveSectionOf, Handle, TypeOK, Procs
  <2>2. Editable(SaveSection(Latest(x), t).state)
    BY <1>0, <1>5, RowType, RowStates DEF SaveSectionOf, LoadEditable
  <2>. HIDE DEF q
  <2>3. ~ IsCommitted(x, n)
    BY <1>5, <1>c DEF SaveSectionOf
  <2>4. EditList(q, save(x, n, SaveSection(Latest(x), t)))
    BY <1>3, <2>1, <2>2, <2>3 DEF EditList
  <2>. QED BY <2>4
<1>6. ASSUME NEW ok \in BOOLEAN, CheckReport(x, ok) PROVE G
  <2>. DEFINE f == ~ ok \/ EvaluateContinuity(x, Latest(x).data) # {}
  <2>1. q = <<save(x, n, MarkReady(Latest(x), f)),
              event(x, n, "health_check_result"), enqueueEvent(x, n)>>
        /\ LoadEditable(x)
    BY <1>0, <1>6 DEF CheckReport, Handle, TypeOK, Procs
  <2>2. f \in BOOLEAN
    OBVIOUS
  <2>. HIDE DEF f, q
  <2>3. Editable(MarkReady(Latest(x), f).state)
    BY <1>0, <2>1, <2>2, RowType, RowStates DEF LoadEditable
  <2>4. EditList(q, save(x, n, MarkReady(Latest(x), f)))
    BY <1>3, <1>c, <2>1, <2>3 DEF EditList
  <2>. QED BY <2>4
<1>7. ASSUME SubmitReport(x) PROVE G
  <2>1. q = <<save(x, n, Submit(Latest(x))), event(x, n, SubmitEvent(n)),
              enqueueVersion(x, n), enqueueEvent(x, n), cascade>>
    BY <1>0, <1>7 DEF SubmitReport, Handle, TypeOK, Procs
  <2>2. Submit(Latest(x)).state = "submitted"
    BY <1>0, <1>7, RowType, RowStates DEF SubmitReport
  <2>. HIDE DEF q
  <2>3. ~ IsCommitted(x, n)
    BY <1>7, <1>c DEF SubmitReport
  <2>4. SubmitList(q, save(x, n, Submit(Latest(x))))
    BY <1>3, <2>1, <2>2, <2>3 DEF SubmitList
  <2>. QED BY <2>4
<1>8. ASSUME StartCorrection(x) PROVE G
  <2>1. q = <<save(x, n + 1, NewCorrection(Latest(x))),
              event(x, n, "correction_started"), enqueueEvent(x, n)>>
    BY <1>0, <1>8 DEF StartCorrection, Handle, TypeOK, Procs
  <2>2. Editable(NewCorrection(Latest(x)).state)
    BY <1>0, <1>8, RowType, RowStates DEF StartCorrection
  <2>. HIDE DEF q
  <2>3. EditList(q, save(x, n + 1, NewCorrection(Latest(x))))
    BY <1>3, <1>c, <2>1, <2>2 DEF EditList
  <2>. QED BY <2>3
<1>9. ASSUME AcknowledgeFinding(x) PROVE G
  <2>1. q = <<event(x, n, "finding_acknowledged"), enqueueEvent(x, n)>>
    BY <1>0, <1>9 DEF AcknowledgeFinding, Handle, TypeOK, Procs
  <2>. QED BY <1>3, <2>1 DEF OtherList
<1>10. ASSUME DeleteReport(x) PROVE G
  <2>1. q = <<[op |-> "delete", r |-> x], cascade>>
    BY <1>0, <1>10 DEF DeleteReport, Handle, TypeOK, Procs
  <2>. QED BY <2>1 DEF OtherList
<1>. QED BY <1>1, <1>2, <1>4, <1>5, <1>6, <1>7, <1>8, <1>9, <1>10

\* In each of those lists a cascade comes last and a submit is followed by
\* its enqueue.
LEMMA ListsOK ==
  ASSUME NEW q,
         \/ \E s : EditList(q, s)
         \/ \E s : SubmitList(q, s)
         \/ OtherList(q)
  PROVE  CascadeLast(q) /\ SubmitOK(q)
<1>. USE DEF CascadeLast, CascadeOps, SubmitOK
<1>1. ASSUME NEW s, EditList(q, s)
      PROVE  CascadeLast(q) /\ SubmitOK(q)
  <2>1. PICK e, f : /\ e.op = "event" /\ f.op = "enqueueEvent"
                    /\ q = <<s, e, f, cascade>> \/ q = <<s, e, f>>
    BY <1>1 DEF EditList
  <2>2. s.op = "save" /\ s.row.state # "submitted"
    BY <1>1 DEF EditList, Editable
  <2>3. Head(q) = s
    BY <2>1, ListHead
  <2>4. CASE q = <<s, e, f, cascade>>
    <3>1. CascadeLast(q)
      BY <2>1, <2>2, <2>4
    <3>. QED BY <2>2, <2>3, <3>1
  <2>5. CASE q = <<s, e, f>>
    <3>1. CascadeLast(q)
      BY <2>1, <2>2, <2>5
    <3>. QED BY <2>2, <2>3, <3>1
  <2>. QED BY <2>1, <2>4, <2>5
<1>2. ASSUME NEW s, SubmitList(q, s) PROVE CascadeLast(q) /\ SubmitOK(q)
  <2>1. PICK e, g, f : /\ q = <<s, e, g, f, cascade>>
                       /\ e.op = "event" /\ f.op = "enqueueEvent"
                       /\ Queues(g, s.r, s.v)
    BY <1>2 DEF SubmitList
  <2>2. s.op = "save" /\ g.op = "enqueueVersion"
    BY <1>2, <2>1 DEF SubmitList, Queues
  <2>3. CascadeLast(q)
    BY <2>1, <2>2
  <2>4. Head(q) = s /\ g \in Elems(Tail(q))
    BY <2>1, ListHead
  <2>. QED BY <2>1, <2>3, <2>4
<1>3. ASSUME NEW s, q = <<s, cascade>>, s.op = "delete"
      PROVE  CascadeLast(q) /\ SubmitOK(q)
  BY <1>3
<1>4. ASSUME NEW e, NEW f, q = <<e, f>>, e.op = "event", f.op = "enqueueEvent"
      PROVE  CascadeLast(q) /\ SubmitOK(q)
  BY <1>4
<1>. QED BY <1>1, <1>2, <1>3, <1>4 DEF OtherList

\* Sequences with the same elements are equal.
LEMMA SameSeq ==
  ASSUME NEW S, NEW x \in Seq(S), NEW y \in Seq(S), Len(x) = Len(y),
         \A k \in 1..Len(x) : x[k] = y[k]
  PROVE  x = y
OBVIOUS

\* The concatenations of InvalidateFlagged, as explicit lists.
LEMMA Concat21 ==
  ASSUME NEW S, NEW a \in S, NEW b \in S, NEW i \in S
  PROVE  <<a, b>> \o <<i>> = <<a, b, i>>
<1>. DEFINE y == <<a, b>> \o <<i>>
            z == <<a, b, i>>
<1>1. y \in Seq(S) /\ Len(y) = 3 /\ z \in Seq(S) /\ Len(z) = 3
  OBVIOUS
<1>2. y[1] = a /\ y[2] = b /\ y[3] = i
  OBVIOUS
<1>3. z[1] = a /\ z[2] = b /\ z[3] = i
  OBVIOUS
<1>. HIDE DEF y, z
<1>4. \A k \in 1..Len(y) : y[k] = z[k]
  BY <1>1, <1>2, <1>3
<1>5. y = z
  BY <1>1, <1>4, SameSeq
<1>. QED BY <1>5 DEF y, z

\* Two statements and the two that queue the version.
LEMMA Concat22 ==
  ASSUME NEW S, NEW a \in S, NEW b \in S, NEW e \in S, NEW f \in S
  PROVE  <<a, b>> \o <<e, f>> = <<a, b, e, f>>
<1>. DEFINE y == <<a, b>> \o <<e, f>>
            z == <<a, b, e, f>>
<1>1. y \in Seq(S) /\ Len(y) = 4 /\ z \in Seq(S) /\ Len(z) = 4
  OBVIOUS
<1>2. y[1] = a /\ y[2] = b /\ y[3] = e /\ y[4] = f
  OBVIOUS
<1>3. z[1] = a /\ z[2] = b /\ z[3] = e /\ z[4] = f
  OBVIOUS
<1>. HIDE DEF y, z
<1>4. \A k \in 1..Len(y) : y[k] = z[k]
  BY <1>1, <1>2, <1>3
<1>5. y = z
  BY <1>1, <1>4, SameSeq
<1>. QED BY <1>5 DEF y, z

\* Those four and the rest of the loop.
LEMMA Concat41 ==
  ASSUME NEW S, NEW a \in S, NEW b \in S, NEW e \in S, NEW f \in S, NEW i \in S
  PROVE  <<a, b, e, f>> \o <<i>> = <<a, b, e, f, i>>
<1>. DEFINE y == <<a, b, e, f>> \o <<i>>
            z == <<a, b, e, f, i>>
<1>1. y \in Seq(S) /\ Len(y) = 5 /\ z \in Seq(S) /\ Len(z) = 5
  OBVIOUS
<1>2. y[1] = a /\ y[2] = b /\ y[3] = e /\ y[4] = f /\ y[5] = i
  OBVIOUS
<1>3. z[1] = a /\ z[2] = b /\ z[3] = e /\ z[4] = f /\ z[5] = i
  OBVIOUS
<1>. HIDE DEF y, z
<1>4. \A k \in 1..Len(y) : y[k] = z[k]
  BY <1>1, <1>2, <1>3
<1>5. y = z
  BY <1>1, <1>4, SameSeq
<1>. QED BY <1>5 DEF y, z

\* What is left once a statement has been executed is still in order.
LEMMA TailOK ==
  ASSUME NEW S, NEW q \in Seq(S), q # <<>>, CascadeLast(q)
  PROVE  /\ CascadeLast(Tail(q))
         /\ Head(q).op \in CascadeOps => Tail(q) = <<>>
<1>1. Tail(q) \in Seq(S) /\ Len(Tail(q)) = Len(q) - 1 /\ Len(q) \in Nat
      /\ Head(q) = q[1] /\ 1 \in DOMAIN q
  OBVIOUS
<1>2. \A k \in DOMAIN Tail(q) :
        k \in Nat /\ k + 1 \in DOMAIN q /\ Tail(q)[k] = q[k + 1]
  BY <1>1
<1>3. ASSUME NEW k \in DOMAIN Tail(q), Tail(q)[k].op \in CascadeOps
      PROVE  k = Len(Tail(q))
  <2>1. k + 1 = Len(q)
    BY <1>2, <1>3 DEF CascadeLast
  <2>. QED BY <1>1, <1>2, <2>1
<1>4. ASSUME Head(q).op \in CascadeOps PROVE Tail(q) = <<>>
  <2>1. Len(q) = 1
    BY <1>1, <1>4 DEF CascadeLast
  <2>2. q = <<q[1]>>
    BY <1>1, <2>1
  <2>3. \A x : Tail(<<x>>) = <<>>
    OBVIOUS
  <2>. QED BY <2>2, <2>3
<1>. QED BY <1>3, <1>4 DEF CascadeLast

\* What an executed statement of the handler leaves: nothing after a save the
\* trigger aborts, the tail, or, as a cascade is last, the new list alone.
LEMMA HandlerLeaves ==
  ASSUME IInv, CascadeLast(todo["handler"]), Execute("handler")
  PROVE  LET q == todo["handler"]
             h == Head(q)
         IN
         /\ q \in Seq(Stmt) /\ q # <<>> /\ h \in Stmt
         /\ \/ SaveReport("handler") /\ todo'["handler"] = <<>> /\ rows' = rows
            \/ /\ \/ SaveReport("handler") \/ AppendEvent("handler")
                  \/ EnqueueOutboxItem("handler") \/ DeleteRows("handler")
               /\ todo'["handler"] = Tail(q)
            \/ /\ h.op = "cascade" /\ Tail(q) = <<>> /\ rows' = rows
               /\ todo'["handler"] = <<[op |-> "invalidate", flagged |-> Flagged]>>
            \/ /\ h.op = "invalidate" /\ Tail(q) = <<>> /\ rows' = rows
               /\ h.flagged \subseteq Loaded
               /\ \/ h.flagged = {} /\ todo'["handler"] = <<>>
                  \/ \E c \in h.flagged :
                       LET i == [op |-> "invalidate", flagged |-> h.flagged \ {c}]
                           a == save(c.r, c.v, c.row)
                           b == event(c.r, c.v, "invalidated")
                       IN
                       /\ c.row.state = "invalidated"
                       /\ todo'["handler"] =
                            IF Editable(c.row.invFrom) THEN <<a, b, i>>
                            ELSE <<a, b, enqueueVersion(c.r, c.v),
                                   enqueueEvent(c.r, c.v), i>>
<1>. DEFINE q == todo["handler"]
            h == Head(q)
<1>0. TypeOK /\ "handler" \in Procs /\ q \in Seq(Stmt) /\ q # <<>> /\ h \in Stmt
  <2>1. TypeOK /\ "handler" \in Procs /\ q # <<>>
    BY ExecuteTodo DEF IInv, Procs
  <2>. QED BY <2>1, HeadPending DEF TypeOK
<1>1. \/ SaveReport("handler") \/ AppendEvent("handler")
      \/ EnqueueOutboxItem("handler") \/ DeleteRows("handler")
      \/ RunCascade("handler") \/ InvalidateFlagged("handler")
  <2>1. h.op \in HandlerOps
    BY <1>0, HandlerRest
  <2>. QED BY <2>1 DEF Execute, HandlerOps, Stmts, AckOutboxItem, MarkReportSynced,
         ApplyInboxPull, EachNotice, InsertInvalidationNotice,
         ApplyInvalidationNotice, EachRemark, InsertRemark, ApplyRemarks
<1>2. h.op \in CascadeOps => Tail(q) = <<>>
  BY <1>0, TailOK
<1>3. ASSUME Then("handler", <<>>) PROVE todo'["handler"] = Tail(q)
  BY <1>0, <1>3 DEF Then, TypeOK
<1>4. CASE SaveReport("handler")
  <2>1. \/ rows' = rows /\ Return("handler")
        \/ Then("handler", <<>>)
    BY <1>0, <1>4, SaveEffect
  <2>. QED BY <1>0, <1>3, <1>4, <2>1, ReturnTodo
<1>5. CASE AppendEvent("handler") \/ EnqueueOutboxItem("handler") \/ DeleteRows("handler")
  <2>1. Then("handler", <<>>)
    BY <1>5 DEF AppendEvent, EnqueueOutboxItem, DeleteRows
  <2>. QED BY <1>0, <1>3, <1>5, <2>1
<1>6. CASE RunCascade("handler")
  <2>. DEFINE i == [op |-> "invalidate", flagged |-> Flagged]
  <2>1. h.op = "cascade" /\ Then("handler", <<i>>) /\ rows' = rows
    BY <1>6 DEF RunCascade, Stmts, store
  <2>2. Tail(q) = <<>>
    BY <1>2, <2>1 DEF CascadeOps
  <2>. HIDE DEF i
  <2>3. todo'["handler"] = <<i>> \o <<>>
    BY <1>0, <2>1, <2>2 DEF Then, TypeOK
  <2>4. todo'["handler"] = <<i>>
    BY <2>3
  <2>. QED BY <1>0, <2>1, <2>2, <2>4 DEF i
<1>7. CASE InvalidateFlagged("handler")
  <2>1. h.op = "invalidate" /\ rows' = rows
    BY <1>7 DEF InvalidateFlagged, Stmts, store
  <2>2. Tail(q) = <<>>
    BY <1>2, <2>1 DEF CascadeOps
  <2>3. h.flagged \subseteq Loaded
    BY <1>0, <2>1, StmtFields
  <2>4. CASE h.flagged = {} /\ Then("handler", <<>>)
    BY <1>0, <1>3, <2>1, <2>2, <2>3, <2>4
  <2>5. ASSUME NEW c \in h.flagged,
               Then("handler", <<save(c.r, c.v, c.row), event(c.r, c.v, "invalidated")>>
                      \o (IF Editable(c.row.invFrom) THEN <<>>
                          ELSE <<enqueueVersion(c.r, c.v),
                                 enqueueEvent(c.r, c.v)>>)
                      \o <<[op |-> "invalidate", flagged |-> h.flagged \ {c}]>>)
        PROVE  LET i == [op |-> "invalidate", flagged |-> h.flagged \ {c}]
                   a == save(c.r, c.v, c.row)
                   b == event(c.r, c.v, "invalidated")
               IN
               /\ c.row.state = "invalidated"
               /\ todo'["handler"] =
                    IF Editable(c.row.invFrom) THEN <<a, b, i>>
                    ELSE <<a, b, enqueueVersion(c.r, c.v),
                           enqueueEvent(c.r, c.v), i>>
    <3>. DEFINE i == [op |-> "invalidate", flagged |-> h.flagged \ {c}]
                a == save(c.r, c.v, c.row)
                b == event(c.r, c.v, "invalidated")
                e == enqueueVersion(c.r, c.v)
                f == enqueueEvent(c.r, c.v)
                E == Editable(c.row.invFrom)
    <3>1. c.row.state = "invalidated"
      BY <1>0, <2>1, <2>5 DEF IInv, HandlerOK
    <3>2. Then("handler", <<a, b>> \o (IF E THEN <<>> ELSE <<e, f>>) \o <<i>>)
      BY <2>5
    <3>. HIDE DEF a, b, e, f, i, E
    <3>3. todo'["handler"] =
            (<<a, b>> \o (IF E THEN <<>> ELSE <<e, f>>) \o <<i>>) \o <<>>
      BY <1>0, <2>2, <3>2 DEF Then, TypeOK
    <3>4. /\ (<<a, b>> \o <<>> \o <<i>>) \o <<>> = <<a, b, i>>
          /\ (<<a, b>> \o <<e, f>> \o <<i>>) \o <<>> = <<a, b, e, f, i>>
      <4>1. a \in Stmt /\ b \in Stmt /\ e \in Stmt /\ f \in Stmt /\ i \in Stmt
        <5>1. /\ c.r \in Reports /\ c.v \in Nat /\ c.row \in Row
              /\ h.flagged \ {c} \in SUBSET Loaded /\ "invalidated" \in EventTypes
          BY <2>3 DEF Loaded, EventTypes
        <5>. QED BY <5>1, StmtIntro DEF a, b, e, f, i
      <4>2. \A q2 \in Seq(Stmt) : q2 \o <<>> = q2
        OBVIOUS
      <4>3. /\ <<a, b>> \in Seq(Stmt) /\ <<a, b, i>> \in Seq(Stmt)
            /\ <<a, b, e, f, i>> \in Seq(Stmt)
        BY <4>1
      <4>4. <<a, b>> \o <<i>> = <<a, b, i>>
        BY <4>1, Concat21
      <4>5. <<a, b>> \o <<e, f>> = <<a, b, e, f>>
        BY <4>1, Concat22
      <4>6. <<a, b, e, f>> \o <<i>> = <<a, b, e, f, i>>
        BY <4>1, Concat41
      <4>. QED BY <4>2, <4>3, <4>4, <4>5, <4>6, Zenon
    <3>5. todo'["handler"] = IF E THEN <<a, b, i>> ELSE <<a, b, e, f, i>>
      BY <3>3, <3>4
    <3>. QED BY <3>1, <3>5 DEF a, b, e, f, i, E
  <2>6. \/ h.flagged = {} /\ Then("handler", <<>>)
        \/ \E c \in h.flagged :
             Then("handler", <<save(c.r, c.v, c.row), event(c.r, c.v, "invalidated")>>
                      \o (IF Editable(c.row.invFrom) THEN <<>>
                          ELSE <<enqueueVersion(c.r, c.v),
                                 enqueueEvent(c.r, c.v)>>)
                      \o <<[op |-> "invalidate", flagged |-> h.flagged \ {c}]>>)
    BY <1>7 DEF InvalidateFlagged
  <2>7. ASSUME h.flagged # {}
        PROVE  \E c \in h.flagged :
                 LET i == [op |-> "invalidate", flagged |-> h.flagged \ {c}]
                     a == save(c.r, c.v, c.row)
                     b == event(c.r, c.v, "invalidated")
                 IN
                 /\ c.row.state = "invalidated"
                 /\ todo'["handler"] =
                      IF Editable(c.row.invFrom) THEN <<a, b, i>>
                      ELSE <<a, b, enqueueVersion(c.r, c.v),
                             enqueueEvent(c.r, c.v), i>>
    BY <2>5, <2>6, <2>7
  <2>8. h.flagged = {} => todo'["handler"] = <<>>
    <3>1. h.flagged = {} => Then("handler", <<>>)
      BY <2>6
    <3>. QED BY <1>3, <2>2, <3>1
  <2>. QED BY <1>0, <2>1, <2>2, <2>3, <2>7, <2>8
<1>. QED BY <1>1, <1>4, <1>5, <1>6, <1>7

\* A step keeps the order of the handler's list.
LEMMA OrderStep ==
  ASSUME IInv, [Next]_vars, CascadeLast(todo["handler"]), SubmitOK(todo["handler"])
  PROVE  CascadeLast(todo'["handler"]) /\ SubmitOK(todo'["handler"])
<1>. DEFINE q == todo["handler"]
            q2 == todo'["handler"]
            G == CascadeLast(q2) /\ SubmitOK(q2)
<1>0. TypeOK /\ "handler" \in Procs /\ "handler" \notin SyncProcs
  BY SyncProcsAssumption DEF IInv, Procs
<1>1. CASE q2 = q
  BY <1>1
<1>e. ASSUME q2 = <<>> PROVE G
  BY <1>e DEF CascadeLast, SubmitOK
<1>2. CASE Abort("handler")
  BY <1>0, <1>2, <1>e, ReturnTodo DEF Abort
<1>3. CASE Request
  BY <1>3, RequestLists, ListsOK
<1>4. CASE Execute("handler")
  <2>1. q \in Seq(Stmt) /\ q # <<>>
    BY <1>4, HandlerLeaves
  <2>2. ASSUME q2 = Tail(q) PROVE G
    <3>1. CascadeLast(Tail(q))
      BY <2>1, TailOK
    <3>2. Tail(q) # <<>> => Head(Tail(q)) \in Elems(Tail(q))
      <4>1. Tail(q) \in Seq(Stmt) /\ <<>> \in Seq(Stmt)
        BY <2>1
      <4>. QED BY <4>1, ListStep
    <3>3. \A t \in Elems(Tail(q)) : t.op # "save"
      BY <2>1, HandlerRest DEF RestOK
    <3>. QED BY <2>2, <3>1, <3>2, <3>3 DEF SubmitOK
  <2>3. ASSUME NEW i, q2 = <<i>>, i.op = "invalidate" PROVE G
    BY <2>3 DEF CascadeLast, CascadeOps, SubmitOK
  <2>4. ASSUME NEW i, NEW c, i.op = "invalidate", c.row.state = "invalidated",
               \/ q2 = <<save(c.r, c.v, c.row), event(c.r, c.v, "invalidated"), i>>
               \/ q2 = <<save(c.r, c.v, c.row), event(c.r, c.v, "invalidated"),
                         enqueueVersion(c.r, c.v), enqueueEvent(c.r, c.v), i>>
        PROVE  G
    <3>. DEFINE a == save(c.r, c.v, c.row)
                b == event(c.r, c.v, "invalidated")
                e == enqueueVersion(c.r, c.v)
                f == enqueueEvent(c.r, c.v)
    <3>1. /\ a.op = "save" /\ a.row.state # "submitted"
          /\ b.op = "event" /\ e.op = "enqueueVersion" /\ f.op = "enqueueEvent"
      BY <2>4 DEF save, event, enqueueVersion, enqueueEvent
    <3>. HIDE DEF a, b, e, f, q2
    <3>2. q2 = <<a, b, i>> \/ q2 = <<a, b, e, f, i>>
      BY <2>4 DEF a, b, e, f
    <3>3. Head(q2) = a
      BY <3>2, ListHead
    <3>4. SubmitOK(q2)
      BY <3>1, <3>3 DEF SubmitOK
    <3>5. q2 = <<a, b, i>> => CascadeLast(q2)
      BY <3>1 DEF CascadeLast, CascadeOps
    <3>6. q2 = <<a, b, e, f, i>> => CascadeLast(q2)
      BY <3>1 DEF CascadeLast, CascadeOps
    <3>. QED BY <3>2, <3>4, <3>5, <3>6
  <2>5. ASSUME Head(q).op = "invalidate" PROVE q2 = <<>> \/ G
    <3>1. ASSUME NEW c \in Head(q).flagged, c.row.state = "invalidated",
                 LET i == [op |-> "invalidate", flagged |-> Head(q).flagged \ {c}]
                     a == save(c.r, c.v, c.row)
                     b == event(c.r, c.v, "invalidated")
                 IN q2 = IF Editable(c.row.invFrom) THEN <<a, b, i>>
                         ELSE <<a, b, enqueueVersion(c.r, c.v),
                                enqueueEvent(c.r, c.v), i>>
          PROVE  G
      <4>. DEFINE i == [op |-> "invalidate", flagged |-> Head(q).flagged \ {c}]
      <4>1. i.op = "invalidate"
        OBVIOUS
      <4>2. \/ q2 = <<save(c.r, c.v, c.row), event(c.r, c.v, "invalidated"), i>>
            \/ q2 = <<save(c.r, c.v, c.row), event(c.r, c.v, "invalidated"),
                      enqueueVersion(c.r, c.v), enqueueEvent(c.r, c.v), i>>
        BY <3>1
      <4>. HIDE DEF i
      <4>. QED BY <2>4, <3>1, <4>1, <4>2
    <3>2. /\ ~ SaveReport("handler") /\ ~ AppendEvent("handler")
          /\ ~ EnqueueOutboxItem("handler") /\ ~ DeleteRows("handler")
      BY <2>5 DEF SaveReport, AppendEvent, EnqueueOutboxItem, DeleteRows, Stmts
    <3>. HIDE DEF G
    <3>. QED BY <1>4, <2>5, <3>1, <3>2, HandlerLeaves
  <2>6. ASSUME Head(q).op = "cascade" PROVE G
    <3>1. /\ ~ SaveReport("handler") /\ ~ AppendEvent("handler")
          /\ ~ EnqueueOutboxItem("handler") /\ ~ DeleteRows("handler")
      BY <2>6 DEF SaveReport, AppendEvent, EnqueueOutboxItem, DeleteRows, Stmts
    <3>2. q2 = <<[op |-> "invalidate", flagged |-> Flagged]>>
      BY <1>4, <2>6, <3>1, HandlerLeaves
    <3>3. PICK i : i = [op |-> "invalidate", flagged |-> Flagged]
      OBVIOUS
    <3>4. i.op = "invalidate"
      BY <3>3
    <3>. QED BY <2>3, <3>2, <3>3, <3>4
  <2>7. ASSUME Head(q).op \notin CascadeOps PROVE q2 = <<>> \/ q2 = Tail(q)
    BY <1>4, <2>7, HandlerLeaves DEF CascadeOps
  <2>. QED BY <1>e, <2>2, <2>5, <2>6, <2>7 DEF CascadeOps
<1>. QED BY <1>0, <1>1, <1>2, <1>3, <1>4, TodoChange

\* A submitted row is one the step before left submitted, or the one the
\* handler has just submitted, with the enqueue left to execute.
LEMMA SubmittedSource ==
  ASSUME IInv, [Next]_vars, SubmitOK(todo["handler"]), NEW r \in Reports,
         NEW v \in DOMAIN rows'[r], rows'[r][v].state = "submitted"
  PROVE  \/ v \in DOMAIN rows[r] /\ rows[r][v].state = "submitted"
         \/ Enqueues(r, v)'
<1>0. TypeOK /\ <<>> \in Seq(Stmt)
  BY DEF IInv
<1>. DEFINE G == \/ v \in DOMAIN rows[r] /\ rows[r][v].state = "submitted"
                 \/ Enqueues(r, v)'
<1>1. CASE rows' = rows
  BY <1>1
<1>2. ASSUME NEW p \in Procs, DeleteRows(p) PROVE G
  <2>1. rows'[r] = <<>> \/ rows'[r] = rows[r]
    BY <1>2, DeleteEffect
  <2>. QED BY <2>1
<1>3. ASSUME NEW p \in Procs, SaveReport(p), rows' # rows PROVE G
  <2>. DEFINE s == Head(todo[p])
  <2>1. CASE r # s.r
    BY <1>3, <2>1, SaveEffect
  <2>2. CASE r = s.r
    <3>0. todo[p] # <<>> /\ s.op = "save" /\ Then(p, <<>>)
      BY <1>3, SaveEffect
    <3>1. CASE s.row.state # "submitted"
      BY <1>3, <2>2, <3>1, SaveEffect
    <3>2. CASE s.row.state = "submitted"
      <4>1. p = "handler"
        <5>1. s \in Pending(p)
          BY <1>0, <3>0, HeadPending
        <5>. QED BY <3>0, <3>2, <5>1 DEF IInv, PendingOK, SyncStmtOK, Procs
      <4>2. /\ Exists(s.r, s.v)
            /\ DOMAIN rows'[s.r] = DOMAIN rows[s.r]
            /\ \A w \in DOMAIN rows[s.r] \ {s.v} : rows'[s.r][w] = rows[s.r][w]
        <5>1. Exists(s.r, s.v)
          BY <3>0, <3>2, SaveCases DEF Editable
        <5>. QED BY <1>3, <5>1, SaveEffect
      <4>3. CASE v # s.v
        BY <2>2, <4>2, <4>3
      <4>4. CASE v = s.v
        <5>1. Pending("handler")' = Elems(Tail(todo["handler"]))
          <6>1. todo'["handler"] = <<>> \o Tail(todo["handler"])
            BY <1>0, <3>0, <4>1, ThenTodo
          <6>2. Tail(todo["handler"]) \in Seq(Stmt)
            BY <1>0, <3>0, <4>1 DEF TypeOK
          <6>3. todo'["handler"] = Tail(todo["handler"])
            BY <6>1, <6>2
          <6>. QED BY <6>3 DEF Pending, Elems
        <5>2. \A t \in Elems(Tail(todo["handler"])) : t.op # "save"
          BY <3>0, <4>1, HandlerRest DEF RestOK
        <5>3. \E t \in Elems(Tail(todo["handler"])) : Queues(t, r, v)
          BY <2>2, <3>0, <3>2, <4>1, <4>4 DEF SubmitOK
        <5>4. \E t \in Pending("handler")' : Queues(t, r, v)
          BY <5>1, <5>3
        <5>. QED BY <5>1, <5>2, <5>4 DEF Enqueues, Queues
      <4>. QED BY <4>3, <4>4
    <3>. QED BY <3>1, <3>2
  <2>. QED BY <2>1, <2>2
<1>. QED BY <1>1, <1>2, <1>3, RowsChange

\* An item leaves the outbox with its ack, which the process that acked it
\* records next.
LEMMA QueuedKept ==
  ASSUME IInv, [Next]_vars, NEW r, NEW v, InOutbox(r, v)
  PROVE  InOutbox(r, v)' \/ \E p \in SyncProcs : Acks(p, r, v)'
<1>. DEFINE G == InOutbox(r, v)' \/ \E p \in SyncProcs : Acks(p, r, v)'
<1>0. TypeOK
  BY DEF IInv
<1>1. CASE outbox' = outbox
  BY <1>1 DEF InOutbox
<1>2. ASSUME NEW p \in Procs, EnqueueOutboxItem(p) PROVE G
  <2>1. outbox \subseteq outbox'
    BY <1>2 DEF EnqueueOutboxItem
  <2>. QED BY <2>1 DEF InOutbox
<1>3. ASSUME NEW p \in Procs, AckOutboxItem(p) PROVE G
  <2>. DEFINE s == Head(todo[p])
  <2>1. p \in SyncProcs /\ todo[p] # <<>> /\ s.op = "ackAll"
    BY <1>3, AckEffect DEF AckOutboxItem, Stmts
  <2>2. s \in Stmt /\ s \in Pending(p)
    BY <1>0, <2>1, HeadPending
  <2>3. NumberStmtOK(s)
    BY <2>1, <2>2 DEF IInv, PendingOK, SyncStmtOK
  <2>4. CASE outbox' = outbox
    BY <2>4 DEF InOutbox
  <2>5. ASSUME NEW i \in s.items, outbox' = {j \in outbox : j.no # i.no},
               Then(p, (IF i.kind = "reportVersion"
                        THEN <<[op |-> "markSynced", r |-> i.r, v |-> i.v]>>
                        ELSE <<>>)
                       \o <<[op |-> "ackAll", items |-> s.items \ {i}]>>)
        PROVE  G
    <3>1. PICK j \in outbox : j.kind = "reportVersion" /\ j.r = r /\ j.v = v
      BY DEF InOutbox
    <3>2. CASE j.no # i.no
      BY <2>5, <3>1, <3>2 DEF InOutbox
    <3>3. CASE j.no = i.no
      <4>1. i = j
        BY <2>1, <2>3, <3>3 DEF NumberStmtOK, ItemsOf
      <4>. DEFINE a == [op |-> "markSynced", r |-> i.r, v |-> i.v]
                  b == [op |-> "ackAll", items |-> s.items \ {i}]
      <4>2. a.op = "markSynced" /\ a.r = r /\ a.v = v
        BY <3>1, <4>1
      <4>3. Then(p, <<a>> \o <<b>>)
        BY <2>5, <3>1, <4>1
      <4>4. a \in Stmt /\ b \in Stmt
        <5>1. s.items \in SUBSET Item /\ s.items \ {i} \in SUBSET Item /\ i \in Item
          BY <2>1, <2>2, <2>5, StmtFields
        <5>. QED BY <5>1, StmtIntro DEF Item
      <4>. HIDE DEF a, b
      <4>5. <<a>> \in Seq(Stmt) /\ <<b>> \in Seq(Stmt) /\ Head(<<a>>) = a
        BY <4>4
      <4>6. <<a>> \o <<b>> \in Seq(Stmt) /\ <<a>> \o <<b>> # <<>>
            /\ Head(<<a>> \o <<b>>) = a
        BY <4>5, TailConcat
      <4>7. Tail(todo[p]) \in Seq(Stmt)
        BY <1>0, <2>1 DEF TypeOK
      <4>8. todo'[p] = (<<a>> \o <<b>>) \o Tail(todo[p])
        BY <1>0, <2>1, <4>3, <4>6, ThenTodo
      <4>9. todo'[p] # <<>> /\ Head(todo'[p]) = a
        <5>. DEFINE x == <<a>> \o <<b>>
        <5>1. x \in Seq(Stmt) /\ x # <<>> /\ Head(x) = a
              /\ todo'[p] = x \o Tail(todo[p])
          BY <4>6, <4>8
        <5>. HIDE DEF x
        <5>. QED BY <4>7, <5>1, TailConcat
      <4>10. Acks(p, r, v)'
        BY <4>2, <4>9 DEF Acks
      <4>. QED BY <2>1, <4>10
    <3>. QED BY <3>2, <3>3
  <2>. QED BY <1>3, <2>4, <2>5 DEF AckOutboxItem
<1>. QED BY <1>1, <1>2, <1>3, OutboxChange

\* A list holds its head and what its tail holds.
LEMMA ElemsHead ==
  ASSUME NEW S, NEW q \in Seq(S), q # <<>>
  PROVE  /\ Elems(q) = {Head(q)} \cup Elems(Tail(q))
         /\ Tail(q) = <<>> => Elems(q) = {Head(q)}
<1>1. ASSUME NEW k \in DOMAIN q PROVE q[k] \in {Head(q)} \cup Elems(Tail(q))
  <2>1. k = 1 => q[k] = Head(q)
    OBVIOUS
  <2>2. k # 1 => k - 1 \in DOMAIN Tail(q) /\ Tail(q)[k - 1] = q[k]
    OBVIOUS
  <2>. QED BY <2>1, <2>2 DEF Elems
<1>2. Head(q) \in Elems(q) /\ Elems(Tail(q)) \subseteq Elems(q)
  <2>1. <<>> \in Seq(S)
    OBVIOUS
  <2>. QED BY <2>1, ListStep
<1>3. Elems(q) = {Head(q)} \cup Elems(Tail(q))
  BY <1>1, <1>2 DEF Elems
<1>. QED BY <1>3, ElemsLists

\* The handler goes on to its enqueue, unless it is cut.
LEMMA EnqueuesKept ==
  ASSUME IInv, [Next]_vars, CascadeLast(todo["handler"]), ~ Abort("handler"),
         NEW r, NEW v, Enqueues(r, v)
  PROVE  Enqueues(r, v)' \/ InOutbox(r, v)'
<1>. DEFINE q == todo["handler"]
            h == Head(q)
<1>0. TypeOK /\ "handler" \in Procs /\ "handler" \notin SyncProcs
  BY SyncProcsAssumption DEF IInv, Procs
<1>1. Pending("handler") = Elems(q) /\ Pending("handler")' = Elems(todo'["handler"])
  BY DEF Pending, Elems
<1>2. /\ \A s \in Elems(q) : s.op # "save"
      /\ \E s \in Elems(q) : Queues(s, r, v)
  BY <1>1 DEF Enqueues
<1>3. q # <<>>
  BY <1>2, ElemsLists
<1>4. CASE todo'["handler"] = q
  BY <1>1, <1>2, <1>4 DEF Enqueues, Queues
<1>5. CASE Request
  BY <1>3, <1>5, RequestLists
<1>6. CASE Execute("handler")
  <2>0. q \in Seq(Stmt) /\ h \in Elems(q) /\ <<>> \in Seq(Stmt)
    BY <1>0, <1>1, <1>3, HeadPending DEF TypeOK
  <2>1. Elems(q) \subseteq {h} \cup Elems(Tail(q)) /\ Elems(Tail(q)) \subseteq Elems(q)
    BY <1>3, <2>0, ElemsHead
  <2>2. CASE Queues(h, r, v)
    <3>1. EnqueueOutboxItem("handler")
      BY <1>6, <2>2 DEF Queues, Execute, Stmts, SaveReport, AppendEvent, DeleteRows,
         RunCascade, InvalidateFlagged, AckOutboxItem, MarkReportSynced,
         ApplyInboxPull, EachNotice, InsertInvalidationNotice,
         ApplyInvalidationNotice, EachRemark, InsertRemark, ApplyRemarks
    <3>2. h.op = "enqueueVersion" /\ h.r = r /\ h.v = v
      BY <2>2 DEF Queues
    <3>. DEFINE i == [no |-> nextNo, kind |-> IF h.op = "enqueueVersion"
                      THEN "reportVersion" ELSE "reportAuditEvent",
                      r |-> h.r, v |-> h.v]
    <3>3. outbox' = outbox \cup {i}
      BY <3>1 DEF EnqueueOutboxItem
    <3>4. i.kind = "reportVersion" /\ i.r = r /\ i.v = v
      BY <3>2
    <3>. HIDE DEF i
    <3>. QED BY <3>3, <3>4 DEF InOutbox
  <2>3. CASE ~ Queues(h, r, v)
    <3>1. PICK t \in Elems(Tail(q)) : Queues(t, r, v)
      BY <1>2, <2>1, <2>3
    <3>2. Tail(q) # <<>>
      BY <3>1, ElemsLists
    <3>3. h.op \notin CascadeOps /\ h.op # "save"
      BY <1>2, <1>3, <2>0, <3>2, TailOK
    <3>4. todo'["handler"] = Tail(q)
      BY <1>6, <3>3, HandlerLeaves DEF SaveReport, Stmts, CascadeOps
    <3>. QED BY <1>1, <1>2, <2>1, <3>1, <3>4 DEF Enqueues, Queues
  <2>. QED BY <2>2, <2>3
<1>. QED BY <1>0, <1>4, <1>5, <1>6, TodoChange

\* A process that is about to record an ack records it: the version does not
\* stay submitted.
LEMMA AcksKept ==
  ASSUME IInv, [Next]_vars, NEW p \in SyncProcs, ~ Abort(p),
         NEW r \in Reports, NEW v \in DOMAIN rows[r],
         rows[r][v].state = "submitted", rows'[r][v].state = "submitted",
         Acks(p, r, v)
  PROVE  Acks(p, r, v)'
<1>. DEFINE s == Head(todo[p])
<1>0. TypeOK /\ p \in Procs /\ p # "handler"
  BY SyncProcsAssumption DEF IInv, Procs
<1>1. /\ todo[p] # <<>> /\ s.r = r /\ s.v = v
      /\ s.op = "markSynced" \/ (s.op = "save" /\ s.row.state = "synced")
  BY DEF Acks
<1>2. s \in Stmt /\ s \in Pending(p)
  BY <1>0, <1>1, HeadPending
<1>3. CASE todo'[p] = todo[p]
  BY <1>1, <1>3 DEF Acks
<1>4. CASE Sync(p)
  BY <1>1, <1>4 DEF Sync, PushOutboxBatch, PushOutbox, PullInboxBatch, PullInbox,
     Stmts
<1>5. CASE Execute(p) /\ s.op = "markSynced"
  <2>1. MarkReportSynced(p)
    BY <1>5 DEF Execute, Stmts, SaveReport, AppendEvent, DeleteRows,
       EnqueueOutboxItem, RunCascade, InvalidateFlagged, AckOutboxItem,
       ApplyInboxPull, EachNotice, InsertInvalidationNotice,
       ApplyInvalidationNotice, EachRemark, InsertRemark, ApplyRemarks
  <2>. DEFINE a == save(r, v, MarkSynced(rows[r][v]))
              b == event(r, v, "synced")
  <2>2. Then(p, <<a, b>>)
    BY <1>1, <2>1 DEF MarkReportSynced, Exists, CanMarkSynced
  <2>3. a.op = "save" /\ a.r = r /\ a.v = v /\ a.row.state = "synced"
        /\ a \in Stmt /\ b \in Stmt
    <3>1. rows[r][v] \in Row /\ v \in Nat
      BY <1>0, RowType
    <3>2. MarkSynced(rows[r][v]) \in Row /\ MarkSynced(rows[r][v]).state = "synced"
      BY <3>1, RowOps DEF MarkSynced, Row
    <3>3. "synced" \in EventTypes
      BY DEF EventTypes
    <3>. QED BY <3>1, <3>2, <3>3, StmtIntro DEF save
  <2>. HIDE DEF a, b
  <2>4. <<a, b>> \in Seq(Stmt) /\ <<a, b>> # <<>> /\ Head(<<a, b>>) = a
    BY <2>3
  <2>5. Tail(todo[p]) \in Seq(Stmt)
    BY <1>0, <1>1 DEF TypeOK
  <2>6. todo'[p] = <<a, b>> \o Tail(todo[p])
    BY <1>0, <1>1, <2>2, <2>4, ThenTodo
  <2>7. todo'[p] # <<>> /\ Head(todo'[p]) = a
    <3>. DEFINE x == <<a, b>>
    <3>1. x \in Seq(Stmt) /\ x # <<>> /\ Head(x) = a
          /\ todo'[p] = x \o Tail(todo[p])
      BY <2>4, <2>6
    <3>. HIDE DEF x
    <3>. QED BY <2>5, <3>1, TailConcat
  <2>. QED BY <2>3, <2>7 DEF Acks
<1>6. CASE Execute(p) /\ s.op = "save"
  <2>1. SaveReport(p)
    BY <1>6 DEF Execute, Stmts, MarkReportSynced, AppendEvent, DeleteRows,
       EnqueueOutboxItem, RunCascade, InvalidateFlagged, AckOutboxItem,
       ApplyInboxPull, EachNotice, InsertInvalidationNotice,
       ApplyInvalidationNotice, EachRemark, InsertRemark, ApplyRemarks
  <2>2. s.row.state = "synced" /\ s.row.data = rows[r][v].data
    BY <1>1, <1>2, <1>6 DEF IInv, PendingOK, SyncStmtOK
  <2>3. ~ LockedAfterSubmit(s.r, s.v, s.row)
    BY <1>1, <2>2 DEF LockedAfterSubmit
  <2>4. rows' = [rows EXCEPT ![r] = [@ EXCEPT ![v] = s.row]]
    BY <1>1, <2>1, <2>3 DEF SaveReport, Exists
  <2>5. rows[r] \in Seq(Row) /\ rows \in [Reports -> Seq(Row)]
    BY <1>0 DEF TypeOK
  <2>6. rows'[r] = [rows[r] EXCEPT ![v] = s.row]
    BY <2>4, <2>5
  <2>7. rows'[r][v] = s.row
    BY <2>5, <2>6
  <2>. QED BY <2>2, <2>7
<1>. QED BY <1>0, <1>1, <1>3, <1>4, <1>5, <1>6, TodoChange

\* A step of a vessel on which nothing is cut keeps every submitted version
\* covered.
LEMMA CoveredStep ==
  ASSUME IInv, QueueInv, [Next]_vars, TypeOK', aborts' = 0,
         NEW r \in Reports, NEW v \in DOMAIN rows'[r],
         rows'[r][v].state = "submitted"
  PROVE  Covered(r, v)'
<1>1. aborts = 0 /\ \A p \in Procs : ~ Abort(p)
  <2>1. aborts \in Nat /\ aborts' \in Nat
    BY DEF IInv, TypeOK
  <2>2. \A p \in Procs : Abort(p) => aborts' = aborts + 1
    BY DEF Abort
  <2>3. \/ aborts' = aborts
        \/ \E p \in Procs : Abort(p)
    BY DEF Next, vars, counters, Request, CreateReport, SaveSectionOf, CheckReport,
       SubmitReport, StartCorrection, AcknowledgeFinding, DeleteReport, Handle,
       Execute, Sync, PushOutboxBatch, PushOutbox, PullInboxBatch, PullInbox,
       Office, OfficeInvalidates, OfficeRemarks
  <2>. QED BY <2>1, <2>2, <2>3
<1>2. SubmitOK(todo["handler"]) /\ CascadeLast(todo["handler"])
  BY DEF QueueInv
<1>3. CASE Enqueues(r, v)'
  BY <1>3 DEF Covered
<1>4. CASE v \in DOMAIN rows[r] /\ rows[r][v].state = "submitted"
  <2>1. Covered(r, v)
    BY <1>1, <1>4 DEF QueueInv
  <2>2. CASE InOutbox(r, v)
    BY <2>2, QueuedKept DEF Covered
  <2>3. CASE Enqueues(r, v)
    <3>1. ~ Abort("handler")
      BY <1>1 DEF Procs
    <3>. QED BY <1>2, <2>3, <3>1, EnqueuesKept DEF Covered
  <2>4. ASSUME NEW p \in SyncProcs, Acks(p, r, v) PROVE Covered(r, v)'
    <3>1. ~ Abort(p)
      BY <1>1 DEF Procs
    <3>. QED BY <1>4, <2>4, <3>1, AcksKept DEF Covered
  <2>. QED BY <2>1, <2>2, <2>3, <2>4 DEF Covered
<1>. QED BY <1>2, <1>3, <1>4, SubmittedSource

\* QueueInv is inductive under IInv.
LEMMA QueueStep == IInv /\ QueueInv /\ [Next]_vars => QueueInv'
<1>. SUFFICES ASSUME IInv, QueueInv, [Next]_vars PROVE QueueInv'
  OBVIOUS
<1>1. TypeOK'
  BY TypeStep
<1>2. CascadeLast(todo'["handler"]) /\ SubmitOK(todo'["handler"])
  BY OrderStep DEF QueueInv
<1>3. CascadeLast(todo["handler"])' /\ SubmitOK(todo["handler"])'
  BY <1>2 DEF CascadeLast, SubmitOK
<1>4. ASSUME aborts' = 0, NEW r \in Reports, NEW v \in DOMAIN rows'[r],
             rows'[r][v].state = "submitted"
      PROVE  Covered(r, v)'
  BY <1>1, <1>4, CoveredStep
<1>. QED BY <1>3, <1>4 DEF QueueInv

\* On a vessel on which no request, cycle or power was cut, a submitted
\* version is in the outbox, or the handler that submitted it is about to
\* enqueue it, or the sync process that took it out on the office's ack is
\* about to record that (vessel/httpapi/reports.go, handleSubmitReport;
\* sync.go, markReportSynced).  A cut in between is the listed hazard.
THEOREM SubmittedVersionsAreQueued == Spec => [](aborts = 0 => SubmittedIsQueued)
<1>1. Init => QueueInv
  BY DEF Init, QueueInv, CascadeLast, SubmitOK, Procs
<1>2. IInv /\ QueueInv => (aborts = 0 => SubmittedIsQueued)
  <2>. SUFFICES ASSUME IInv, QueueInv, aborts = 0, NEW r \in Reports,
                       NEW v \in DOMAIN rows[r], rows[r][v].state = "submitted"
                PROVE  \/ InOutbox(r, v)
                       \/ \E p \in Procs : \E s \in Pending(p) :
                            /\ s.op \in {"enqueueVersion", "markSynced", "save"}
                            /\ s.r = r /\ s.v = v
                            /\ s.op = "save" => s.row.state = "synced"
    BY DEF SubmittedIsQueued, InOutbox
  <2>0. TypeOK /\ "handler" \in Procs /\ SyncProcs \subseteq Procs
    BY DEF IInv, Procs
  <2>1. Covered(r, v)
    BY DEF QueueInv
  <2>2. CASE Enqueues(r, v)
    BY <2>0, <2>2 DEF Enqueues, Queues
  <2>3. ASSUME NEW p \in SyncProcs, Acks(p, r, v)
        PROVE  \E s \in Pending(p) :
                 /\ s.op \in {"enqueueVersion", "markSynced", "save"}
                 /\ s.r = r /\ s.v = v
                 /\ s.op = "save" => s.row.state = "synced"
    <3>1. Head(todo[p]) \in Pending(p)
      BY <2>0, <2>3, HeadPending DEF Acks
    <3>. QED BY <2>3, <3>1 DEF Acks
  <2>. QED BY <2>0, <2>1, <2>2, <2>3 DEF Covered
<1>. QED BY <1>1, <1>2, QueueStep, Inductive, PTL DEF Spec


-----------------------------------------------------------------------------
(* A cascade leaves nothing to do. *)

\* The newest committed version of r breaks rules it is not recorded to break.
Due(r, v) ==
  LET broken == BrokenRules(View, r) IN
  /\ broken # {}
  /\ ~ (rows[r][v].state = "invalidated" /\ rows[r][v].rules = broken)

\* The committed chain, its view and its flagged reports, said of the rows.
ChainOK ==
  /\ \A c \in ListCommittedChain :
       c.r \in Reports /\ Newest(c.r, c.v) /\ c.row = rows[c.r][c.v]
  /\ \A r \in Reports : \A v : Newest(r, v) =>
       [r |-> r, v |-> v, row |-> rows[r][v]] \in ListCommittedChain
  /\ \A r \in Reports : \A v, w : Newest(r, v) /\ Newest(r, w) => v = w
ViewOK ==
  /\ View \in [{r \in Reports : \E v : Newest(r, v)} -> Times]
  /\ \A r \in Reports : \A v : Newest(r, v) => View[r] = rows[r][v].data
FlaggedOK ==
  /\ \A c \in Flagged :
       c.r \in Reports /\ Current(c.r, c.v, c.row) /\ Due(c.r, c.v)
  /\ \A r \in Reports : \A v : Newest(r, v) /\ Due(r, v) =>
       \E c \in Flagged : c.r = r

\* ListCommittedChain holds exactly the newest committed versions.
LEMMA ChainIsNewest == TypeOK => ChainOK
<1>. SUFFICES ASSUME TypeOK PROVE ChainOK
  OBVIOUS
<1>1. ASSUME NEW c \in ListCommittedChain
      PROVE  c.r \in Reports /\ Newest(c.r, c.v) /\ c.row = rows[c.r][c.v]
  BY DEF ListCommittedChain, Newest
<1>2. ASSUME NEW r \in Reports, NEW v, Newest(r, v)
      PROVE  [r |-> r, v |-> v, row |-> rows[r][v]] \in ListCommittedChain
  BY <1>2 DEF ListCommittedChain, Newest
<1>3. ASSUME NEW r \in Reports, NEW v, NEW w, Newest(r, v), Newest(r, w)
      PROVE  v = w
  <2>1. v \in Nat /\ w \in Nat
    BY <1>3, RowType DEF Newest, Committed
  <2>. QED BY <1>3, <2>1 DEF Newest
<1>. QED BY <1>1, <1>2, <1>3 DEF ChainOK

\* The view the rules are evaluated on is the data of those versions.
LEMMA ViewIsNewest == TypeOK => ViewOK
<1>. SUFFICES ASSUME TypeOK PROVE ViewOK
  OBVIOUS
<1>0. ChainOK
  BY ChainIsNewest
<1>1. ListCommittedChain \subseteq Loaded
  BY ChainMembers
<1>2. View \in [{c.r : c \in ListCommittedChain} -> Times]
  BY <1>1, ValidationType DEF View
<1>3. {c.r : c \in ListCommittedChain} = {r \in Reports : \E v : Newest(r, v)}
  <2>1. ASSUME NEW r \in Reports, NEW v, Newest(r, v)
        PROVE  r \in {c.r : c \in ListCommittedChain}
    <3>1. PICK c : c = [r |-> r, v |-> v, row |-> rows[r][v]]
      OBVIOUS
    <3>2. c \in ListCommittedChain /\ c.r = r
      BY <1>0, <2>1, <3>1 DEF ChainOK
    <3>. QED BY <3>2
  <2>. QED BY <1>0, <2>1 DEF ChainOK
<1>4. ASSUME NEW r \in Reports, NEW v, Newest(r, v)
      PROVE  View[r] = rows[r][v].data
  <2>. DEFINE d == CHOOSE c \in ListCommittedChain : c.r = r
  <2>1. r \in {c.r : c \in ListCommittedChain}
    BY <1>3, <1>4
  <2>2. \E c \in ListCommittedChain : c.r = r
    BY <2>1
  <2>3. d \in ListCommittedChain /\ d.r = r
    BY <2>2
  <2>4. View[r] = d.row.data
    BY <2>1 DEF View, ToValidation
  <2>. HIDE DEF d
  <2>5. Newest(r, d.v) /\ d.row = rows[r][d.v]
    BY <1>0, <2>3 DEF ChainOK
  <2>6. d.v = v
    BY <1>0, <1>4, <2>5 DEF ChainOK
  <2>. QED BY <2>4, <2>5, <2>6
<1>. QED BY <1>2, <1>3, <1>4 DEF ViewOK

\* The cascade flags a report exactly when it breaks rules it is not recorded
\* to break, and records what is true.
LEMMA FlaggedIsDue == TypeOK => FlaggedOK
<1>. SUFFICES ASSUME TypeOK PROVE FlaggedOK
  OBVIOUS
<1>. DEFINE b(c) == BrokenRules(View, c.r)
            due(d) == /\ b(d) # {}
                      /\ ~ /\ d.row.state = "invalidated"
                           /\ d.row.rules = b(d)
            mark(c) == [c EXCEPT !.row = Invalidate(c.row, b(c))]
<1>0. ChainOK
  BY ChainIsNewest
<1>1. Flagged = {mark(c) : c \in {d \in ListCommittedChain : due(d)}}
  BY DEF Flagged, View
<1>2. ASSUME NEW d \in ListCommittedChain
      PROVE  /\ mark(d).r = d.r /\ mark(d).v = d.v
             /\ mark(d).row.data = rows[d.r][d.v].data
             /\ mark(d).row.state = "invalidated"
             /\ mark(d).row.rules = b(d)
             /\ d.row = rows[d.r][d.v] /\ d.r \in Reports /\ Newest(d.r, d.v)
  <2>1. d = [r |-> d.r, v |-> d.v, row |-> d.row] /\ d \in Loaded
    BY ChainMembers
  <2>2. d.row \in Row
    BY <2>1 DEF Loaded
  <2>3. mark(d) = [r |-> d.r, v |-> d.v, row |-> Invalidate(d.row, b(d))]
    BY <2>1
  <2>4. /\ Invalidate(d.row, b(d)).state = "invalidated"
        /\ Invalidate(d.row, b(d)).rules = b(d)
        /\ Invalidate(d.row, b(d)).data = d.row.data
    BY <2>2 DEF Invalidate, Row
  <2>5. d.row = rows[d.r][d.v] /\ d.r \in Reports /\ Newest(d.r, d.v)
    BY <1>0 DEF ChainOK
  <2>. HIDE DEF mark, b
  <2>6. /\ mark(d).r = d.r /\ mark(d).v = d.v
        /\ mark(d).row = Invalidate(d.row, b(d))
    BY <2>3
  <2>. QED BY <2>4, <2>5, <2>6
<1>3. ASSUME NEW c \in Flagged
      PROVE  c.r \in Reports /\ Current(c.r, c.v, c.row) /\ Due(c.r, c.v)
  <2>1. PICK d \in ListCommittedChain : due(d) /\ c = mark(d)
    BY <1>1
  <2>2. /\ c.r = d.r /\ c.v = d.v
        /\ c.row.data = rows[d.r][d.v].data
        /\ c.row.state = "invalidated"
        /\ c.row.rules = BrokenRules(View, d.r)
        /\ d.row = rows[d.r][d.v] /\ d.r \in Reports /\ Newest(d.r, d.v)
    BY <1>2, <2>1
  <2>3. BrokenRules(View, d.r) # {}
        /\ ~ (d.row.state = "invalidated" /\ d.row.rules = BrokenRules(View, d.r))
    BY <2>1
  <2>. QED BY <2>2, <2>3 DEF Current, Due
<1>4. ASSUME NEW r \in Reports, NEW v, Newest(r, v), Due(r, v)
      PROVE  \E c \in Flagged : c.r = r
  <2>1. PICK d : d = [r |-> r, v |-> v, row |-> rows[r][v]]
    OBVIOUS
  <2>2. d \in ListCommittedChain
    BY <1>0, <1>4, <2>1 DEF ChainOK
  <2>3. due(d)
    BY <1>4, <2>1 DEF Due
  <2>4. mark(d).r = r
    BY <1>2, <2>1, <2>2
  <2>5. mark(d) \in Flagged
    BY <1>1, <2>2, <2>3
  <2>. QED BY <2>4, <2>5
<1>. QED BY <1>3, <1>4 DEF FlaggedOK

\* The same in the state a step leads to.
LEMMA ChainPrimed == TypeOK' => ChainOK' /\ ViewOK' /\ FlaggedOK'
BY ChainIsNewest, ViewIsNewest, FlaggedIsDue, PTL

\* A step that commits nothing, and changes no data of what is committed,
\* leaves the view the rules are evaluated on.
LEMMA SameView ==
  ASSUME TypeOK, TypeOK',
         \A r \in Reports : Committed(r)' = Committed(r),
         \A r \in Reports : \A v \in Committed(r) :
           rows'[r][v].data = rows[r][v].data
  PROVE  /\ \A r \in Reports : \A v : Newest(r, v)' <=> Newest(r, v)
         /\ View' = View
<1>1. ASSUME NEW r \in Reports, NEW v PROVE Newest(r, v)' <=> Newest(r, v)
  <2>1. Committed(r)' = Committed(r)
    OBVIOUS
  <2>. QED BY <2>1 DEF Newest
<1>2. ViewOK /\ ViewOK'
  BY ViewIsNewest, ChainPrimed
<1>. DEFINE D == {r \in Reports : \E v : Newest(r, v)}
            D2 == {r \in Reports : \E v : Newest(r, v)'}
<1>3. View \in [D -> Times] /\ View' \in [D2 -> Times]
  BY <1>2 DEF ViewOK
<1>4. D2 = D
  BY <1>1
<1>5. ASSUME NEW r \in D PROVE View'[r] = View[r]
  <2>1. PICK v : Newest(r, v)
    OBVIOUS
  <2>2. View[r] = rows[r][v].data
    BY <1>2, <2>1 DEF ViewOK
  <2>3. View'[r] = rows'[r][v].data
    BY <1>1, <1>2, <2>1 DEF ViewOK
  <2>4. v \in Committed(r)
    BY <2>1 DEF Newest
  <2>. QED BY <2>2, <2>3, <2>4
<1>6. View' = View
  <2>. PICK f, g, S : f = View /\ g = View' /\ S = D
    OBVIOUS
  <2>1. f \in [S -> Times] /\ g \in [S -> Times] /\ \A r \in S : g[r] = f[r]
    BY <1>3, <1>4, <1>5
  <2>2. f = g
    BY <2>1
  <2>. QED BY <2>2
<1>. QED BY <1>1, <1>6

\* A step that changes no committed version leaves the chain.
LEMMA SameChain ==
  ASSUME TypeOK, TypeOK',
         \A r \in Reports : Committed(r)' = Committed(r),
         \A r \in Reports : \A v \in Committed(r) : rows'[r][v] = rows[r][v]
  PROVE  Flagged' = Flagged
<1>1. ListCommittedChain' = ListCommittedChain
  <2>. DEFINE S(r) == {[r |-> r, v |-> v, row |-> rows[r][v]] :
                         v \in {w \in Committed(r) : \A u \in Committed(r) : u <= w}}
              S2(r) == {[r |-> r, v |-> v, row |-> rows'[r][v]] :
                         v \in {w \in Committed(r)' : \A u \in Committed(r)' : u <= w}}
  <2>1. ListCommittedChain = UNION {S(r) : r \in Reports}
        /\ ListCommittedChain' = UNION {S2(r) : r \in Reports}
    BY DEF ListCommittedChain
  <2>2. ASSUME NEW r \in Reports PROVE S(r) = S2(r)
    <3>1. Committed(r)' = Committed(r)
      OBVIOUS
    <3>2. \A v \in Committed(r) : rows'[r][v] = rows[r][v]
      OBVIOUS
    <3>. QED BY <3>1, <3>2
  <2>. HIDE DEF S, S2
  <2>. QED BY <2>1, <2>2
<1>. QED BY <1>1 DEF Flagged

\* The write of a cascade records what it decided and changes nothing else.
LEMMA CascadeSave ==
  ASSUME IInv, [Next]_vars, TypeOK', SaveReport("handler"),
         LET s == Head(todo["handler"]) IN
           Current(s.r, s.v, s.row) /\ ~ LockedAfterSubmit(s.r, s.v, s.row)
  PROVE  LET s == Head(todo["handler"]) IN
         /\ s.r \in Reports
         /\ \A r \in Reports : \A v, row :
              Current(r, v, row) => Current(r, v, row)'
         /\ \A c \in Flagged' : c.r # s.r /\ \E d \in Flagged : d.r = c.r
<1>. DEFINE s == Head(todo["handler"])
<1>0. TypeOK /\ "handler" \in Procs
  BY DEF IInv, Procs
<1>1. todo["handler"] # <<>> /\ s.op = "save"
  BY <1>0, SaveEffect
<1>2. s.r \in Reports /\ s.v \in Nat /\ s.row \in Row
  BY <1>0, <1>1, SaveCases
<1>3. /\ Newest(s.r, s.v) /\ s.row.data = rows[s.r][s.v].data
      /\ s.row.state = "invalidated" /\ s.row.rules = BrokenRules(View, s.r)
  BY DEF Current
<1>4. s.v \in DOMAIN rows[s.r] /\ InChain(rows[s.r][s.v].state)
  BY <1>3 DEF Newest, Committed
<1>5. /\ \A r \in Reports \ {s.r} : rows'[r] = rows[r]
      /\ DOMAIN rows'[s.r] = DOMAIN rows[s.r]
      /\ rows'[s.r][s.v] = s.row
      /\ \A v \in DOMAIN rows[s.r] \ {s.v} : rows'[s.r][v] = rows[s.r][v]
  <2>1. rows' = [rows EXCEPT ![s.r] = [@ EXCEPT ![s.v] = s.row]]
    BY <1>4 DEF SaveReport, Exists
  <2>2. rows[s.r] \in Seq(Row) /\ rows \in [Reports -> Seq(Row)]
    BY <1>0, <1>2 DEF TypeOK
  <2>3. /\ rows'[s.r] = [rows[s.r] EXCEPT ![s.v] = s.row]
        /\ \A r \in Reports \ {s.r} : rows'[r] = rows[r]
    BY <1>2, <2>1, <2>2
  <2>. QED BY <1>4, <2>2, <2>3
<1>6. InChain(s.row.state)
  BY <1>3 DEF InChain, Editable
<1>7. ASSUME NEW r \in Reports PROVE Committed(r)' = Committed(r)
  <2>1. CASE r # s.r
    BY <1>5, <2>1 DEF Committed
  <2>2. CASE r = s.r
    <3>1. \A v \in DOMAIN rows[r] :
            InChain(rows'[r][v].state) <=> InChain(rows[r][v].state)
      BY <1>4, <1>5, <1>6, <2>2
    <3>. QED BY <1>5, <2>2, <3>1 DEF Committed
  <2>. QED BY <2>1, <2>2
<1>8. ASSUME NEW r \in Reports, NEW v \in Committed(r)
      PROVE  /\ rows'[r][v].data = rows[r][v].data
             /\ r # s.r => rows'[r][v] = rows[r][v]
  BY <1>3, <1>5 DEF Committed
<1>9. View' = View /\ \A r \in Reports : \A v : Newest(r, v)' <=> Newest(r, v)
  BY <1>0, <1>7, <1>8, SameView
<1>10. ASSUME NEW r \in Reports, NEW v, NEW row, Current(r, v, row)
       PROVE  Current(r, v, row)'
  <2>1. v \in Committed(r)
    BY <1>10 DEF Current, Newest
  <2>. QED BY <1>8, <1>9, <1>10, <2>1 DEF Current
<1>11. FlaggedOK /\ FlaggedOK' /\ ChainOK
  BY <1>0, FlaggedIsDue, ChainPrimed, ChainIsNewest
<1>12. ASSUME NEW c \in Flagged' PROVE c.r # s.r /\ \E d \in Flagged : d.r = c.r
  <2>1. c.r \in Reports /\ Newest(c.r, c.v) /\ Due(c.r, c.v)'
    <3>1. c.r \in Reports /\ Current(c.r, c.v, c.row)' /\ Due(c.r, c.v)'
      BY <1>11, <1>12 DEF FlaggedOK
    <3>. QED BY <1>9, <3>1 DEF Current
  <2>2. BrokenRules(View, c.r) # {}
        /\ ~ (rows'[c.r][c.v].state = "invalidated"
              /\ rows'[c.r][c.v].rules = BrokenRules(View, c.r))
    BY <1>9, <2>1 DEF Due
  <2>3. c.r # s.r
    <3>1. c.r = s.r => c.v = s.v
      BY <1>3, <1>11, <2>1 DEF ChainOK
    <3>. QED BY <1>3, <1>5, <2>2, <3>1
  <2>4. rows'[c.r][c.v] = rows[c.r][c.v]
    BY <1>5, <2>1, <2>3
  <2>5. Due(c.r, c.v)
    BY <2>2, <2>4 DEF Due
  <2>. QED BY <1>11, <2>1, <2>3, <2>5 DEF FlaggedOK
<1>. QED BY <1>2, <1>10, <1>12

\* A save or a delete that touches no committed version leaves the chain.
LEMMA PrivateStep ==
  ASSUME IInv, [Next]_vars, TypeOK',
         \/ DeleteRows("handler")
         \/ /\ SaveReport("handler")
            /\ Editable(Head(todo["handler"]).row.state)
            /\ LET s == Head(todo["handler"]) IN ~ IsCommitted(s.r, s.v)
  PROVE  Flagged' = Flagged
<1>. DEFINE s == Head(todo["handler"])
<1>0. TypeOK /\ "handler" \in Procs
  BY DEF IInv, Procs
<1>1. CASE DeleteRows("handler")
  <2>1. /\ s.op = "delete" /\ s.r \in Reports /\ HeadOK(s) /\ rows'[s.r] = <<>>
        /\ \A r \in Reports \ {s.r} : rows'[r] = rows[r]
    BY <1>0, <1>1, DeleteEffect
  <2>2. Len(rows[s.r]) = 1 /\ Editable(rows[s.r][1].state)
    BY <2>1 DEF HeadOK
  <2>3. Committed(s.r) = {}
    <3>1. \A v \in DOMAIN rows[s.r] : v = 1
      BY <1>0, <2>1, <2>2, RowType
    <3>. QED BY <2>2, <3>1 DEF Committed, InChain
  <2>4. \A r \in Reports : r = s.r => Committed(r)' = {}
    BY <2>1 DEF Committed
  <2>5. ASSUME NEW r \in Reports
        PROVE  /\ Committed(r)' = Committed(r)
               /\ \A v \in Committed(r) : rows'[r][v] = rows[r][v]
    <3>1. CASE r = s.r
      BY <2>3, <2>4, <3>1
    <3>2. CASE r # s.r
      BY <2>1, <3>2 DEF Committed
    <3>. QED BY <3>1, <3>2
  <2>. QED BY <1>0, <2>5, SameChain
<1>2. CASE SaveReport("handler") /\ Editable(s.row.state) /\ ~ IsCommitted(s.r, s.v)
  <2>1. /\ \A r \in Reports \ {s.r} : rows'[r] = rows[r]
        /\ \/ rows' = rows
           \/ /\ Exists(s.r, s.v)
              /\ DOMAIN rows'[s.r] = DOMAIN rows[s.r]
              /\ rows'[s.r][s.v] = s.row
              /\ \A v \in DOMAIN rows[s.r] \ {s.v} : rows'[s.r][v] = rows[s.r][v]
           \/ /\ DOMAIN rows'[s.r] = DOMAIN rows[s.r] \cup {Len(rows[s.r]) + 1}
              /\ rows'[s.r][Len(rows[s.r]) + 1] = s.row
              /\ \A v \in DOMAIN rows[s.r] : rows'[s.r][v] = rows[s.r][v]
    BY <1>0, <1>2, SaveEffect
  <2>2. ~ InChain(s.row.state)
    BY <1>2 DEF InChain
  <2>3. Exists(s.r, s.v) => ~ InChain(rows[s.r][s.v].state)
    BY <1>2 DEF IsCommitted
  <2>4. ASSUME NEW r \in Reports
        PROVE  /\ Committed(r)' = Committed(r)
               /\ \A v \in Committed(r) : rows'[r][v] = rows[r][v]
    <3>1. CASE r # s.r \/ rows' = rows
      BY <2>1, <3>1 DEF Committed
    <3>2. CASE r = s.r /\ rows' # rows
      <4>1. CASE /\ Exists(r, s.v)
                 /\ DOMAIN rows'[r] = DOMAIN rows[r]
                 /\ rows'[r][s.v] = s.row
                 /\ \A v \in DOMAIN rows[r] \ {s.v} : rows'[r][v] = rows[r][v]
        BY <2>2, <2>3, <3>2, <4>1 DEF Committed
      <4>2. CASE /\ DOMAIN rows'[r] = DOMAIN rows[r] \cup {Len(rows[r]) + 1}
                 /\ rows'[r][Len(rows[r]) + 1] = s.row
                 /\ \A v \in DOMAIN rows[r] : rows'[r][v] = rows[r][v]
        <5>1. Len(rows[r]) + 1 \notin DOMAIN rows[r]
          BY <1>0, RowType DEF TypeOK
        <5>. QED BY <2>2, <4>2, <5>1 DEF Committed
      <4>. QED BY <2>1, <3>2, <4>1, <4>2
    <3>. QED BY <3>1, <3>2
  <2>. QED BY <1>0, <2>4, SameChain
<1>. QED BY <1>1, <1>2

\* On a vessel that does not sync, only the handler and the office take steps.
LEMMA AloneStep ==
  ASSUME IInv, [Next]_vars, SyncProcs = {}, aborts' = 0
  PROVE  /\ aborts = 0
         /\ \/ rows' = rows /\ todo'["handler"] = todo["handler"]
            \/ Request
            \/ Execute("handler")
<1>1. Procs = {"handler"}
  BY DEF Procs
<1>2. \A p \in Procs : ~ Abort(p)
  <2>1. aborts \in Nat
    BY DEF IInv, TypeOK
  <2>. QED BY <2>1 DEF Abort
<1>3. \/ Request \/ Execute("handler") \/ Office \/ UNCHANGED vars
  BY <1>1, <1>2 DEF Next
<1>4. Office \/ UNCHANGED vars =>
        rows' = rows /\ todo' = todo /\ aborts' = aborts
  BY DEF Office, OfficeInvalidates, OfficeRemarks, vars, store, counters
<1>5. Execute("handler") => aborts' = aborts
  BY DEF Execute, counters
<1>6. Request => aborts' = aborts
  BY RequestLists
<1>. QED BY <1>3, <1>4, <1>5, <1>6

\* Every save a request starts with is one the trigger lets through, and so
\* is the save of a cascade.
LEMMA UnlockedStep ==
  ASSUME IInv, CascadeInv, [Next]_vars, TypeOK', SyncProcs = {}, aborts' = 0
  PROVE  Unlocked(todo["handler"])'
<1>. DEFINE q == todo["handler"]
            q2 == todo'["handler"]
<1>0. aborts = 0 /\ CascadeLast(q) /\ Unlocked(q) /\ TypeOK
  BY AloneStep DEF CascadeInv, IInv
<1>1. ASSUME q2 # <<>> => Head(q2).op # "save" PROVE Unlocked(q)'
  BY <1>1 DEF Unlocked
<1>2. CASE rows' = rows /\ q2 = q
  BY <1>0, <1>2 DEF Unlocked, LockedAfterSubmit, Exists
<1>3. CASE Request
  <2>1. rows' = rows
    BY <1>3, RequestLists
  <2>2. ASSUME NEW s, q2 # <<>>, s = Head(q2), s.op = "save"
        PROVE  ~ IsCommitted(s.r, s.v)
    <3>1. \A t : EditList(q2, t) \/ SubmitList(q2, t) =>
            Head(q2) = t /\ ~ IsCommitted(t.r, t.v)
      BY ListHead DEF EditList, SubmitList
    <3>2. OtherList(q2) => Head(q2).op # "save"
      BY ListHead DEF OtherList
    <3>. QED BY <1>3, <2>2, <3>1, <3>2, RequestLists
  <2>. QED BY <2>1, <2>2 DEF Unlocked, LockedAfterSubmit, IsCommitted, Exists
<1>4. CASE Execute("handler")
  <2>0. q \in Seq(Stmt) /\ q # <<>>
    BY <1>0, <1>4, HandlerLeaves
  <2>1. ASSUME q2 = Tail(q) PROVE Unlocked(q)'
    <3>1. Tail(q) # <<>> => Head(Tail(q)) \in Elems(Tail(q))
      <4>1. Tail(q) \in Seq(Stmt) /\ <<>> \in Seq(Stmt)
        BY <2>0
      <4>. QED BY <4>1, ListStep
    <3>2. \A t \in Elems(Tail(q)) : t.op # "save"
      BY <2>0, HandlerRest DEF RestOK
    <3>. QED BY <1>1, <2>1, <3>1, <3>2
  <2>2. ASSUME q2 = <<>> PROVE Unlocked(q)'
    BY <2>2, <1>1
  <2>3. ASSUME q2 = <<[op |-> "invalidate", flagged |-> Flagged]>>
        PROVE  Unlocked(q)'
    BY <2>3, <1>1
  <2>4. ASSUME Head(q).op = "invalidate", Tail(q) = <<>>, rows' = rows,
               NEW c \in Head(q).flagged, q2 # <<>>,
               Head(q2) = save(c.r, c.v, c.row), c.row.state = "invalidated"
        PROVE  Unlocked(q)'
    <3>1. Elems(q) = {Head(q)}
      BY <2>0, <2>4, ElemsHead
    <3>2. Writing(q, Head(q))
      BY <1>0, <2>4, <3>1 DEF CascadeInv, Private, Writing
    <3>3. Current(c.r, c.v, c.row)
      BY <2>4, <3>2 DEF Writing
    <3>4. PICK s : s = save(c.r, c.v, c.row)
      OBVIOUS
    <3>5. s.r = c.r /\ s.v = c.v /\ s.row = c.row /\ Head(q2) = s
      BY <2>4, <3>4 DEF save
    <3>6. s.row.data = rows[s.r][s.v].data
      BY <3>3, <3>5 DEF Current
    <3>. QED BY <2>4, <3>5, <3>6 DEF Unlocked, LockedAfterSubmit
  <2>5. Head(q).op = "invalidate" => Unlocked(q)'
    <3>. SUFFICES ASSUME Head(q).op = "invalidate" PROVE Unlocked(q)'
      OBVIOUS
    <3>1. /\ ~ SaveReport("handler") /\ ~ AppendEvent("handler")
          /\ ~ EnqueueOutboxItem("handler") /\ ~ DeleteRows("handler")
      BY DEF SaveReport, AppendEvent, EnqueueOutboxItem, DeleteRows, Stmts
    <3>2. /\ Tail(q) = <<>> /\ rows' = rows
          /\ \/ q2 = <<>>
             \/ \E c \in Head(q).flagged :
                  LET i == [op |-> "invalidate", flagged |-> Head(q).flagged \ {c}]
                      a == save(c.r, c.v, c.row)
                      b == event(c.r, c.v, "invalidated")
                  IN
                  /\ c.row.state = "invalidated"
                  /\ q2 = IF Editable(c.row.invFrom) THEN <<a, b, i>>
                          ELSE <<a, b, enqueueVersion(c.r, c.v),
                                 enqueueEvent(c.r, c.v), i>>
      BY <1>0, <1>4, <3>1, HandlerLeaves
    <3>3. ASSUME NEW c \in Head(q).flagged, c.row.state = "invalidated",
                 LET i == [op |-> "invalidate", flagged |-> Head(q).flagged \ {c}]
                     a == save(c.r, c.v, c.row)
                     b == event(c.r, c.v, "invalidated")
                 IN q2 = IF Editable(c.row.invFrom) THEN <<a, b, i>>
                         ELSE <<a, b, enqueueVersion(c.r, c.v),
                                enqueueEvent(c.r, c.v), i>>
          PROVE  Unlocked(q)'
      <4>1. q2 # <<>> /\ Head(q2) = save(c.r, c.v, c.row)
        BY <3>3, ListHead
      <4>. QED BY <2>4, <3>2, <3>3, <4>1
    <3>. HIDE DEF q2
    <3>. QED BY <2>2, <3>2, <3>3
  <2>6. Head(q).op # "invalidate" => Unlocked(q)'
    BY <1>0, <1>4, <2>1, <2>2, <2>3, HandlerLeaves
  <2>. QED BY <2>5, <2>6
<1>. QED BY <1>2, <1>3, <1>4, AloneStep

\* The three stages of CascadeInv: a cascade to come, one that writes, none.
Stages(q) ==
  \/ \E t \in Elems(q) : t.op = "cascade"
  \/ \E t \in Elems(q) : Writing(q, t)
  \/ Flagged = {} /\ Private(q)

\* A request starts a cascade or touches nothing committed.
LEMMA RequestStage ==
  ASSUME IInv, CascadeInv, aborts = 0, Request
  PROVE  Stages(todo["handler"])'
<1>. DEFINE q == todo["handler"]
            q2 == todo'["handler"]
<1>1. rows' = rows /\ q = <<>>
  BY RequestLists
<1>2. Flagged = {}
  BY <1>1, ElemsLists DEF CascadeInv
<1>3. Flagged' = Flagged
  BY <1>1 DEF Flagged, ListCommittedChain, Committed
<1>4. ASSUME \E t \in Elems(q2) : t.op = "cascade" PROVE Stages(q)'
  BY <1>4 DEF Stages, Elems
<1>c. cascade.op = "cascade"
  BY DEF cascade
<1>5. ASSUME NEW s, EditList(q2, s) PROVE Stages(q)'
  <2>1. PICK e, f : /\ e.op = "event" /\ f.op = "enqueueEvent"
                    /\ q2 = <<s, e, f, cascade>> \/ q2 = <<s, e, f>>
    BY <1>5 DEF EditList
  <2>2. q2 = <<s, e, f, cascade>> => cascade \in Elems(q2)
    BY ElemsLists
  <2>3. CASE q2 = <<s, e, f>>
    <3>1. Head(q2) = s /\ Elems(q2) = {s, e, f}
      BY <2>3, ListHead, ElemsLists
    <3>2. s.op = "save" /\ Editable(s.row.state) /\ ~ IsCommitted(s.r, s.v)
      BY <1>5 DEF EditList
    <3>3. IsCommitted(s.r, s.v)' = IsCommitted(s.r, s.v)
      BY <1>1 DEF IsCommitted, Exists
    <3>4. Private(q)'
      BY <2>1, <3>1, <3>2, <3>3 DEF Private, Elems
    <3>. QED BY <1>2, <1>3, <3>4 DEF Stages
  <2>. QED BY <1>4, <1>c, <2>1, <2>2, <2>3
<1>6. ASSUME NEW s, SubmitList(q2, s) PROVE Stages(q)'
  <2>1. PICK e, g, f : q2 = <<s, e, g, f, cascade>>
    BY <1>6 DEF SubmitList
  <2>2. cascade \in Elems(q2)
    BY <2>1, ElemsLists
  <2>. QED BY <1>4, <1>c, <2>2
<1>7. ASSUME NEW s, q2 = <<s, cascade>> PROVE Stages(q)'
  <2>1. cascade \in Elems(q2)
    BY <1>7, ElemsLists
  <2>. QED BY <1>4, <1>c, <2>1
<1>8. ASSUME NEW e, NEW f, q2 = <<e, f>>, e.op = "event", f.op = "enqueueEvent"
      PROVE  Stages(q)'
  <2>1. Head(q2) = e /\ Elems(q2) = {e, f}
    BY <1>8, ListHead, ElemsLists
  <2>2. Private(q)'
    BY <1>8, <2>1 DEF Private, Elems
  <2>. QED BY <1>2, <1>3, <2>2 DEF Stages
<1>. QED BY <1>5, <1>6, <1>7, <1>8, RequestLists DEF OtherList

\* A cascade that loads the chain writes what is true of it, of every report
\* that is due.
LEMMA CascadeLoads ==
  ASSUME IInv, TypeOK', rows' = rows,
         todo'["handler"] = <<[op |-> "invalidate", flagged |-> Flagged]>>
  PROVE  Stages(todo["handler"])'
<1>. DEFINE i == [op |-> "invalidate", flagged |-> Flagged]
<1>1. i.op = "invalidate" /\ i.flagged = Flagged
  OBVIOUS
<1>2. todo'["handler"] = <<i>>
  OBVIOUS
<1>. HIDE DEF i
<1>3. Head(todo'["handler"]) = i /\ Elems(todo'["handler"]) = {i}
  BY <1>2, ElemsLists
<1>4. FlaggedOK'
  BY ChainPrimed
<1>5. Flagged' = Flagged
  BY DEF Flagged, ListCommittedChain, Committed
<1>6. \A c \in Flagged : Current(c.r, c.v, c.row)'
  BY <1>4, <1>5 DEF FlaggedOK
<1>. SUFFICES ASSUME NEW j, j = i PROVE Stages(todo["handler"])'
  OBVIOUS
<1>7. Writing(todo["handler"], j)'
  BY <1>1, <1>3, <1>5, <1>6 DEF Writing
<1>. QED BY <1>3, <1>7 DEF Stages, Elems

\* The loop of a cascade puts one write in front and keeps the rest.
LEMMA CascadeWrites ==
  ASSUME IInv, TypeOK', rows' = rows, NEW h, Writing(<<h>>, h),
         NEW c \in h.flagged, NEW i,
         i = [op |-> "invalidate", flagged |-> h.flagged \ {c}],
         LET a == save(c.r, c.v, c.row)
             b == event(c.r, c.v, "invalidated")
         IN todo'["handler"] = IF Editable(c.row.invFrom) THEN <<a, b, i>>
                               ELSE <<a, b, enqueueVersion(c.r, c.v),
                                      enqueueEvent(c.r, c.v), i>>
  PROVE  Stages(todo["handler"])'
<1>. DEFINE a == save(c.r, c.v, c.row)
            b == event(c.r, c.v, "invalidated")
            e == enqueueVersion(c.r, c.v)
            f == enqueueEvent(c.r, c.v)
            q2 == todo'["handler"]
<1>1. i.op = "invalidate" /\ i.flagged = h.flagged \ {c}
  OBVIOUS
<1>2. a.op = "save" /\ a.r = c.r /\ a.v = c.v /\ a.row = c.row
  BY DEF save
<1>3. q2 = <<a, b, i>> \/ q2 = <<a, b, e, f, i>>
  OBVIOUS
<1>. HIDE DEF a, b, e, f
<1>4. Head(q2) = a /\ i \in Elems(q2)
  BY <1>3, ListHead, ElemsLists
<1>5. Head(<<h>>) = h
  OBVIOUS
<1>6. /\ h.op = "invalidate"
      /\ \A d \in h.flagged : Current(d.r, d.v, d.row)
      /\ \A d \in Flagged : \E x \in h.flagged : x.r = d.r
  BY <1>5 DEF Writing
<1>7. \A r, v, row : Current(r, v, row)' <=> Current(r, v, row)
  BY DEF Current, Newest, View, ListCommittedChain, Committed
<1>8. Flagged' = Flagged
  BY DEF Flagged, ListCommittedChain, Committed
<1>9. \A d \in i.flagged : Current(d.r, d.v, d.row)'
  BY <1>1, <1>6, <1>7
<1>10. Current(a.r, a.v, a.row)'
  BY <1>2, <1>6, <1>7
<1>11. \A d \in Flagged' : (\E x \in i.flagged : x.r = d.r) \/ a.r = d.r
  BY <1>1, <1>2, <1>6, <1>8
<1>. SUFFICES ASSUME NEW y, y = a PROVE Stages(todo["handler"])'
  OBVIOUS
<1>12. Writing(todo["handler"], i)'
  BY <1>1, <1>2, <1>4, <1>9, <1>10, <1>11 DEF Writing
<1>. QED BY <1>4, <1>12 DEF Stages, Elems

\* Executing the head of a list that holds no save behind it keeps the stage,
\* if what the head did is what the stage allows.
LEMMA TailStage ==
  ASSUME IInv, TypeOK', NEW q \in Seq(Stmt), q = todo["handler"], q # <<>>,
         todo'["handler"] = Tail(q),
         Head(q).op \notin {"cascade", "invalidate"},
         \A t \in Elems(Tail(q)) : t.op # "save",
         Stages(q),
         \A t \in Elems(Tail(q)) : Writing(q, t) =>
           /\ \A c \in t.flagged : Current(c.r, c.v, c.row)'
           /\ \A c \in Flagged' : \E d \in t.flagged : d.r = c.r,
         Private(q) => Flagged' = Flagged
  PROVE  Stages(todo["handler"])'
<1>1. Elems(q) = {Head(q)} \cup Elems(Tail(q))
  BY ElemsHead
<1>2. Tail(q) # <<>> => Head(Tail(q)).op # "save"
  <2>1. Tail(q) \in Seq(Stmt) /\ <<>> \in Seq(Stmt)
    OBVIOUS
  <2>2. Tail(q) # <<>> => Head(Tail(q)) \in Elems(Tail(q))
    BY <2>1, ListStep
  <2>. QED BY <2>2
<1>3. Elems(todo["handler"])' = Elems(Tail(q))
  BY DEF Elems
<1>4. CASE \E t \in Elems(q) : t.op = "cascade"
  <2>1. \E t \in Elems(Tail(q)) : t.op = "cascade"
    BY <1>1, <1>4
  <2>. QED BY <1>3, <2>1 DEF Stages
<1>5. ASSUME NEW t \in Elems(q), Writing(q, t) PROVE Stages(todo["handler"])'
  <2>1. t.op = "invalidate" /\ t \in Elems(Tail(q))
    BY <1>1, <1>5 DEF Writing
  <2>2. Tail(q) # <<>>
    BY <2>1, ElemsLists
  <2>3. Head(todo'["handler"]).op # "save"
    BY <1>2, <2>2
  <2>4. /\ \A c \in t.flagged : Current(c.r, c.v, c.row)'
        /\ \A c \in Flagged' : \E d \in t.flagged : d.r = c.r
    BY <1>5, <2>1
  <2>5. Writing(todo["handler"], t)'
    BY <2>1, <2>3, <2>4 DEF Writing
  <2>. QED BY <1>3, <2>1, <2>5 DEF Stages
<1>6. CASE Flagged = {} /\ Private(q)
  <2>1. Flagged' = {}
    BY <1>6
  <2>2. \A t \in Elems(Tail(q)) : t.op # "invalidate"
    BY <1>1, <1>6 DEF Private
  <2>3. Private(todo["handler"])'
    BY <1>2, <1>3, <2>2 DEF Private
  <2>. QED BY <2>1, <2>3 DEF Stages
<1>. QED BY <1>4, <1>5, <1>6 DEF Stages

\* What the handler executes keeps the stage.
LEMMA ExecuteStage ==
  ASSUME IInv, CascadeInv, [Next]_vars, TypeOK', aborts = 0, Execute("handler")
  PROVE  Stages(todo["handler"])'
<1>. DEFINE h == Head(todo["handler"])
<1>0. /\ TypeOK /\ CascadeLast(todo["handler"]) /\ Unlocked(todo["handler"])
      /\ Stages(todo["handler"]) /\ "handler" \in Procs
      /\ todo["handler"] \in Seq(Stmt) /\ todo["handler"] # <<>>
  <2>1. /\ TypeOK /\ CascadeLast(todo["handler"]) /\ Unlocked(todo["handler"])
        /\ Stages(todo["handler"]) /\ "handler" \in Procs
    BY DEF IInv, CascadeInv, Procs, Stages
  <2>. QED BY <2>1, HandlerLeaves
<1>1. /\ \A t \in Elems(Tail(todo["handler"])) : t.op # "save"
      /\ \A t \in Elems(Tail(todo["handler"])) : h.op = "delete" => t.op # "invalidate"
  BY <1>0, HandlerRest DEF RestOK
<1>s. ASSUME rows' = rows
      PROVE  /\ Flagged' = Flagged
             /\ \A r, v, row : Current(r, v, row)' <=> Current(r, v, row)
  BY <1>s DEF Flagged, Current, Newest, View, ListCommittedChain, Committed
<1>2. CASE SaveReport("handler")
  <2>1. h.op = "save" /\ ~ LockedAfterSubmit(h.r, h.v, h.row)
    BY <1>0, <1>2 DEF SaveReport, Stmts, Unlocked
  <2>2. todo'["handler"] = Tail(todo["handler"])
    <3>1. Then("handler", <<>>)
      BY <1>2, <2>1 DEF SaveReport
    <3>. QED BY <1>0, <3>1 DEF Then, TypeOK
  <2>3. ASSUME NEW t \in Elems(Tail(todo["handler"])), Writing(todo["handler"], t)
        PROVE  /\ \A c \in t.flagged : Current(c.r, c.v, c.row)'
               /\ \A c \in Flagged' : \E d \in t.flagged : d.r = c.r
    <3>1. /\ \A c \in t.flagged : Current(c.r, c.v, c.row)
          /\ Current(h.r, h.v, h.row)
          /\ \A c \in Flagged : (\E d \in t.flagged : d.r = c.r) \/ h.r = c.r
      BY <2>1, <2>3 DEF Writing
    <3>2. /\ h.r \in Reports
          /\ \A r \in Reports : \A v, row : Current(r, v, row) => Current(r, v, row)'
          /\ \A c \in Flagged' : c.r # h.r /\ \E d \in Flagged : d.r = c.r
      BY <1>2, <2>1, <3>1, CascadeSave
    <3>3. \A c \in t.flagged : c.r \in Reports
      <4>1. t \in Stmt /\ t.op = "invalidate"
        BY <1>0, <2>3, HandlerRest DEF Writing
      <4>. QED BY <4>1, StmtFields DEF Loaded
    <3>4. \A c \in t.flagged : Current(c.r, c.v, c.row)'
      BY <3>1, <3>2, <3>3
    <3>5. \A c \in Flagged' : \E d \in t.flagged : d.r = c.r
      BY <3>1, <3>2
    <3>. QED BY <3>4, <3>5
  <2>4. Private(todo["handler"]) => Flagged' = Flagged
    BY <1>0, <1>2, <2>1, PrivateStep DEF Private
  <2>5. h.op \notin {"cascade", "invalidate"}
    BY <2>1
  <2>. QED BY <1>0, <1>1, <2>2, <2>3, <2>4, <2>5, TailStage
<1>3. CASE AppendEvent("handler") \/ EnqueueOutboxItem("handler")
  <2>1. /\ rows' = rows /\ Then("handler", <<>>)
        /\ h.op \in {"event", "enqueueVersion", "enqueueEvent"}
    BY <1>3 DEF AppendEvent, EnqueueOutboxItem, Stmts
  <2>2. todo'["handler"] = Tail(todo["handler"])
    BY <1>0, <2>1 DEF Then, TypeOK
  <2>3. ASSUME NEW t \in Elems(Tail(todo["handler"])), Writing(todo["handler"], t)
        PROVE  /\ \A c \in t.flagged : Current(c.r, c.v, c.row)'
               /\ \A c \in Flagged' : \E d \in t.flagged : d.r = c.r
    <3>1. /\ \A c \in t.flagged : Current(c.r, c.v, c.row)
          /\ \A c \in Flagged : \E d \in t.flagged : d.r = c.r
      BY <2>1, <2>3 DEF Writing
    <3>. QED BY <1>s, <2>1, <3>1
  <2>4. h.op \notin {"cascade", "invalidate"}
    BY <2>1
  <2>. QED BY <1>0, <1>1, <1>s, <2>1, <2>2, <2>3, <2>4, TailStage
<1>4. CASE DeleteRows("handler")
  <2>1. h.op = "delete" /\ Then("handler", <<>>)
    BY <1>4 DEF DeleteRows, Stmts
  <2>2. todo'["handler"] = Tail(todo["handler"])
    BY <1>0, <2>1 DEF Then, TypeOK
  <2>3. \A t \in Elems(Tail(todo["handler"])) : ~ Writing(todo["handler"], t)
    BY <1>1, <2>1 DEF Writing
  <2>4. Flagged' = Flagged
    BY <1>4, PrivateStep
  <2>5. h.op \notin {"cascade", "invalidate"}
    BY <2>1
  <2>. QED BY <1>0, <1>1, <2>2, <2>3, <2>4, <2>5, TailStage
<1>5. CASE h.op = "cascade"
  <2>1. /\ ~ SaveReport("handler") /\ ~ AppendEvent("handler")
        /\ ~ EnqueueOutboxItem("handler") /\ ~ DeleteRows("handler")
    BY <1>5 DEF SaveReport, AppendEvent, EnqueueOutboxItem, DeleteRows, Stmts
  <2>2. /\ rows' = rows
        /\ todo'["handler"] = <<[op |-> "invalidate", flagged |-> Flagged]>>
    BY <1>0, <1>5, <2>1, HandlerLeaves
  <2>. QED BY <2>2, CascadeLoads
<1>6. CASE h.op = "invalidate"
  <2>1. /\ ~ SaveReport("handler") /\ ~ AppendEvent("handler")
        /\ ~ EnqueueOutboxItem("handler") /\ ~ DeleteRows("handler")
    BY <1>6 DEF SaveReport, AppendEvent, EnqueueOutboxItem, DeleteRows, Stmts
  <2>2. /\ Tail(todo["handler"]) = <<>> /\ rows' = rows
        /\ \/ h.flagged = {} /\ todo'["handler"] = <<>>
           \/ \E c \in h.flagged :
                LET i == [op |-> "invalidate", flagged |-> h.flagged \ {c}]
                    a == save(c.r, c.v, c.row)
                    b == event(c.r, c.v, "invalidated")
                IN todo'["handler"] = IF Editable(c.row.invFrom) THEN <<a, b, i>>
                                      ELSE <<a, b, enqueueVersion(c.r, c.v),
                                             enqueueEvent(c.r, c.v), i>>
    BY <1>0, <1>6, <2>1, HandlerLeaves
  <2>3. Elems(todo["handler"]) = {h}
    BY <1>0, <2>2, ElemsHead
  <2>4. Writing(todo["handler"], h)
    BY <1>0, <1>6, <2>3 DEF Stages, Private, Writing
  <2>5. CASE h.flagged = {} /\ todo'["handler"] = <<>>
    <3>1. Flagged = {}
      BY <1>6, <2>4, <2>5 DEF Writing
    <3>2. Elems(todo'["handler"]) = {}
      BY <2>5, ElemsLists
    <3>3. Private(todo["handler"])'
      BY <2>5, <3>2 DEF Private, Elems
    <3>. QED BY <1>s, <2>2, <3>1, <3>3 DEF Stages
  <2>6. ASSUME NEW c \in h.flagged,
               LET i == [op |-> "invalidate", flagged |-> h.flagged \ {c}]
                   a == save(c.r, c.v, c.row)
                   b == event(c.r, c.v, "invalidated")
               IN todo'["handler"] = IF Editable(c.row.invFrom) THEN <<a, b, i>>
                                     ELSE <<a, b, enqueueVersion(c.r, c.v),
                                            enqueueEvent(c.r, c.v), i>>
        PROVE  Stages(todo["handler"])'
    <3>1. PICK g : g = h
      OBVIOUS
    <3>2. Head(<<g>>) = g /\ g.op = "invalidate"
      BY <1>6, <3>1
    <3>3. Writing(<<g>>, g)
      BY <2>4, <3>1, <3>2 DEF Writing
    <3>4. PICK i : i = [op |-> "invalidate", flagged |-> g.flagged \ {c}]
      OBVIOUS
    <3>5. todo'["handler"] =
            IF Editable(c.row.invFrom)
            THEN <<save(c.r, c.v, c.row), event(c.r, c.v, "invalidated"), i>>
            ELSE <<save(c.r, c.v, c.row), event(c.r, c.v, "invalidated"),
                   enqueueVersion(c.r, c.v), enqueueEvent(c.r, c.v), i>>
      BY <2>6, <3>1, <3>4
    <3>6. c \in g.flagged
      BY <3>1
    <3>. QED BY <2>2, <3>3, <3>4, <3>5, <3>6, CascadeWrites
  <2>. QED BY <2>2, <2>5, <2>6
<1>. QED BY <1>0, <1>2, <1>3, <1>4, <1>5, <1>6, HandlerLeaves

\* CascadeInv is inductive on a vessel that does not sync.
LEMMA CascadeStep ==
  ASSUME SyncProcs = {}
  PROVE  IInv /\ QueueInv /\ CascadeInv /\ [Next]_vars => CascadeInv'
<1>. SUFFICES ASSUME IInv, QueueInv, CascadeInv, [Next]_vars PROVE CascadeInv'
  OBVIOUS
<1>1. TypeOK'
  BY TypeStep
<1>2. CascadeLast(todo["handler"])'
  BY OrderStep DEF QueueInv, CascadeLast
<1>3. ASSUME aborts' = 0 PROVE Unlocked(todo["handler"])'
  BY <1>1, <1>3, UnlockedStep
<1>4. ASSUME aborts' = 0 PROVE Stages(todo["handler"])'
  <2>1. aborts = 0
    BY <1>4, AloneStep
  <2>2. CASE rows' = rows /\ todo'["handler"] = todo["handler"]
    <3>1. Stages(todo["handler"])
      BY <2>1 DEF CascadeInv, Stages
    <3>2. PICK q : q = todo["handler"]
      OBVIOUS
    <3>3. Stages(q)
      BY <3>1, <3>2
    <3>4. Flagged' = Flagged
      BY <2>2 DEF Flagged, ListCommittedChain, Committed
    <3>5. /\ \A r, v, row : Current(r, v, row)' <=> Current(r, v, row)
          /\ \A r, v : IsCommitted(r, v)' <=> IsCommitted(r, v)
      BY <2>2 DEF Current, Newest, View, ListCommittedChain, Committed, IsCommitted,
         Exists
    <3>6. \A t : Writing(q, t) => Writing(q, t)'
      BY <3>4, <3>5 DEF Writing
    <3>7. Private(q) => Private(q)'
      BY <3>5 DEF Private, Elems
    <3>8. Stages(q)'
      BY <3>3, <3>4, <3>6, <3>7 DEF Stages, Elems
    <3>. QED BY <2>2, <3>2, <3>8 DEF Stages, Writing, Private, Elems
  <2>3. CASE Request
    BY <2>1, <2>3, RequestStage
  <2>4. CASE Execute("handler")
    BY <1>1, <2>1, <2>4, ExecuteStage
  <2>. QED BY <1>4, <2>2, <2>3, <2>4, AloneStep
<1>. QED BY <1>2, <1>3, <1>4 DEF CascadeInv, Stages

\* Between the requests of a vessel that does not sync and cuts no request,
\* cascade revalidation has nothing left to do: every version of the committed
\* chain that breaks a rule is recorded as invalidated with exactly the rules
\* it breaks (vessel/httpapi/reports.go, runCascade).
THEOREM CascadesSettle ==
  ASSUME SyncProcs = {}
  PROVE  Spec => [](aborts = 0 => CascadeSettled)
<1>1. Init => QueueInv
  BY DEF Init, QueueInv, CascadeLast, SubmitOK, Procs
<1>2. Init => CascadeInv
  <2>. SUFFICES ASSUME Init PROVE CascadeInv
    OBVIOUS
  <2>1. todo["handler"] = <<>>
    BY DEF Init, Procs
  <2>2. IInv
    BY InitIInv
  <2>3. Flagged = {}
    <3>1. FlaggedOK
      BY <2>2, FlaggedIsDue DEF IInv
    <3>2. \A r \in Reports : Committed(r) = {}
      BY DEF Init, Committed
    <3>. QED BY <3>1, <3>2 DEF FlaggedOK, Current, Newest
  <2>. QED BY <2>1, <2>3, ElemsLists DEF CascadeInv, CascadeLast, Unlocked, Private
<1>3. IInv /\ CascadeInv => (aborts = 0 => CascadeSettled)
  <2>. SUFFICES ASSUME IInv, CascadeInv, aborts = 0, todo["handler"] = <<>>
                PROVE  Flagged = {}
    BY DEF CascadeSettled, Idle
  <2>. QED BY ElemsLists DEF CascadeInv
<1>4. IInv /\ QueueInv /\ CascadeInv /\ [Next]_vars => CascadeInv'
  BY CascadeStep
<1>. QED BY <1>1, <1>2, <1>3, <1>4, QueueStep, Inductive, PTL DEF Spec

=============================================================================
