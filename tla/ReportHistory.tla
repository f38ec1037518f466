---------------------------- MODULE ReportHistory ----------------------------
(***************************************************************************)
(* What the vessel's report service promises about a report's history,     *)
(* whatever handlers and sync cycles interleave: versions are only ever    *)
(* appended, only the newest version can be edited, a version that has     *)
(* reached the office is frozen, and the office's copy is the version as   *)
(* the vessel holds it.  Only a report that never left the vessel and      *)
(* never was corrected can disappear.                                      *)
(***************************************************************************)
EXTENDS Naturals, Sequences

CONSTANTS Reports, Times

VARIABLES versions,   \* versions[r][v]: the data of version v of report r
          delivered   \* the copies the office holds

histVars == <<versions, delivered>>

Delivered(r, v) == \E c \in delivered : c.r = r /\ c.v = v

HistInit ==
  /\ versions = [r \in Reports |-> <<>>]
  /\ delivered = {}

Open(r, t) ==
  /\ versions' = [versions EXCEPT ![r] = Append(@, t)]
  /\ UNCHANGED delivered

Edit(r, t) ==
  LET v == Len(versions[r]) IN
  /\ versions[r] # <<>>
  /\ ~ Delivered(r, v)
  /\ versions' = [versions EXCEPT ![r][v] = t]
  /\ UNCHANGED delivered

Drop(r) ==
  /\ Len(versions[r]) = 1
  /\ ~ Delivered(r, 1)
  /\ versions' = [versions EXCEPT ![r] = <<>>]
  /\ UNCHANGED delivered

Copies == UNION {{[r |-> r, v |-> v, data |-> versions[r][v]] :
                    v \in DOMAIN versions[r]} : r \in Reports}

Deliver(copies) ==
  /\ copies \subseteq Copies
  /\ delivered' = delivered \cup copies
  /\ UNCHANGED versions

HistNext ==
  \/ \E r \in Reports :
       \/ \E t \in Times : Open(r, t) \/ Edit(r, t)
       \/ Drop(r)
  \/ \E copies \in SUBSET Copies : Deliver(copies)

HistSpec == HistInit /\ [][HistNext]_histVars

=============================================================================
