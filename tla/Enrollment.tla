------------------------------ MODULE Enrollment ------------------------------
(***************************************************************************)
(* How a vessel gets, keeps and loses its right to sync: the enrollment and *)
(* credential rows of one vessel at the office (office/enrollment,          *)
(* office/synccred, office/store), the requests of the office's Admins that *)
(* issue, re-issue and revoke (office/httpapi/vessels.go), the exchange of  *)
(* a code for a credential (office/httpapi/enroll.go, vessel/sync/redeem.go)*)
(* and what the vessel stores of it (vessel/httpapi/setup.go).              *)
(*                                                                         *)
(* Every statement is a transaction of its own and every row is written     *)
(* whole, so that requests interleave between the statements and may be cut *)
(* there.  A code, and the token and the DR key pair of an exchange, are    *)
(* numbered in the order in which they are generated; 0 is none.            *)
(***************************************************************************)
EXTENDS Naturals

CONSTANTS
  Admins,        \* office requests that may be under way at once
  Setups,        \* exchanges that may be under way at once
  MaxCodes,      \* bound on codes issued
  MaxExchanges,  \* bound on exchanges
  MaxCuts        \* bound on requests cut and calls lost

VARIABLES
  enrollment,  \* row of enrollments: state, code_hash, dr_public_key
  credential,  \* row of vessel_credentials, with the code it was bought with
  admin,       \* office requests: the row each has loaded
  setup,       \* exchanges: how far each is
  aboard,      \* sync_credential and dr_identity of the vessel
  submitted,   \* bootstrap.json: Enrollment.Submitted
  codes, exchanges, cuts,  \* counters
  calm         \* history: no two requests overlapped and none was cut

access == <<enrollment, credential, admin, setup, aboard, submitted,
            codes, exchanges, cuts, calm>>

Idle == [stage |-> "idle"]
NoEnrollment == [state |-> "notIssued", code |-> 0, key |-> 0]

\* In memory: a new code, whatever the state; the DR key stays.
Reissue(row) == [row EXCEPT !.state = "issued", !.code = codes + 1]

\* The code is cleared, not the state alone.
Revoke(row) == [row EXCEPT !.state = "revoked", !.code = 0]

InitAccess ==
  /\ enrollment = NoEnrollment
  /\ credential = [token |-> 0, code |-> 0, live |-> FALSE]
  /\ admin = [a \in Admins |-> Idle] /\ setup = [q \in Setups |-> Idle]
  /\ aboard = [token |-> 0, key |-> 0] /\ submitted = FALSE
  /\ codes = 0 /\ exchanges = 0 /\ cuts = 0 /\ calm = TRUE

UnderWay == {a \in Admins : admin[a] # Idle} \cup {q \in Setups : setup[q] # Idle}
Overlap == calm' = (calm /\ UnderWay = {})

\* The one credential there is, unless revoked, by its token; the code of an
\* enrollment that awaits it.
Live(token) == credential.token = token /\ credential.live
Issued(code) == enrollment.state = "issued" /\ enrollment.code = code

\* AuthInterceptor and Verify.
Accepted(token) == token # 0 /\ Live(token)

-----------------------------------------------------------------------------
(* The Admins. *)

\* handleIssueEnrollment writes a whole new row, whatever was there.
IssueEnrollment ==
  /\ codes < MaxCodes
  /\ codes' = codes + 1
  /\ enrollment' = Reissue(NoEnrollment)
  /\ Overlap
  /\ UNCHANGED <<credential, admin, setup, aboard, submitted, exchanges, cuts>>

\* handleReissueEnrollment as far as the row it has loaded.
BeginReissue(a) ==
  /\ admin[a] = Idle
  /\ enrollment.state # "notIssued"
  /\ codes < MaxCodes
  /\ codes' = codes + 1
  /\ admin' = [admin EXCEPT ![a] = [stage |-> "loaded", row |-> Reissue(enrollment)]]
  /\ Overlap
  /\ UNCHANGED <<enrollment, credential, setup, aboard, submitted, exchanges,
                 cuts>>

\* handleRevokeEnrollment as far as the row it has loaded.
BeginRevoke(a) ==
  /\ admin[a] = Idle
  /\ enrollment.state # "notIssued"
  /\ admin' = [admin EXCEPT ![a] = [stage |-> "loaded", row |-> Revoke(enrollment)]]
  /\ Overlap
  /\ UNCHANGED <<enrollment, credential, setup, aboard, submitted, codes,
                 exchanges, cuts>>

\* UpsertEnrollment.
SaveEnrollment(a) ==
  /\ admin[a].stage = "loaded"
  /\ enrollment' = admin[a].row
  /\ admin' = [admin EXCEPT ![a] = [stage |-> "saved"]]
  /\ UNCHANGED <<credential, setup, aboard, submitted, codes, exchanges, cuts,
                 calm>>

\* Mutant: the enrollment alone is updated.
RevokeNothing(a) ==
  /\ admin[a].stage = "saved"
  /\ admin' = [admin EXCEPT ![a] = Idle]
  /\ UNCHANGED <<enrollment, credential, setup, aboard, submitted, codes,
                 exchanges, cuts, calm>>

\* The second statement of re-issue and revoke.
RevokeVesselCredential(a) ==
  /\ admin[a].stage = "saved"
  /\ credential' = [credential EXCEPT !.live = FALSE]
  /\ admin' = [admin EXCEPT ![a] = Idle]
  /\ UNCHANGED <<enrollment, setup, aboard, submitted, codes, exchanges, cuts,
                 calm>>

-----------------------------------------------------------------------------
(* The exchange of a code for a credential. *)

Proceed(q, to) == setup' = [setup EXCEPT ![q] = to]
Move(q, stage) == Proceed(q, [setup[q] EXCEPT !.stage = stage])

\* Redeem: a fresh key pair, and the code somebody has read off a sheet.
SendCode(q, code) ==
  /\ setup[q] = Idle
  /\ exchanges < MaxExchanges
  /\ exchanges' = exchanges + 1
  /\ Proceed(q, [stage |-> "sent", code |-> code, n |-> exchanges + 1,
                 open |-> TRUE])
  /\ Overlap
  /\ UNCHANGED <<enrollment, credential, admin, aboard, submitted, codes, cuts>>

\* Mutant: the credential is stored before the code is consumed.
VerifyAndStore(q) ==
  /\ setup[q].stage = "sent"
  /\ IF Issued(setup[q].code)
     THEN /\ Move(q, "found")
          /\ credential' = [token |-> setup[q].n, code |-> setup[q].code, live |-> TRUE]
     ELSE Proceed(q, Idle) /\ UNCHANGED credential
  /\ UNCHANGED <<enrollment, admin, aboard, submitted, codes, exchanges, cuts,
                 calm>>

\* ListIssuedEnrollments, enrollment.Redeem and synccred.Mint, in memory.
VerifyCode(q) ==
  /\ setup[q].stage = "sent"
  /\ IF Issued(setup[q].code)
     THEN Move(q, "found")
     ELSE Proceed(q, Idle)
  /\ UNCHANGED <<enrollment, credential, admin, aboard, submitted, codes,
                 exchanges, cuts, calm>>

\* UpsertEnrollment of the row as it was found, the code cleared.
ConsumeCode(q) ==
  /\ setup[q].stage = "found"
  /\ enrollment' = [state |-> "enrolled", code |-> 0, key |-> setup[q].n]
  /\ Move(q, "consumed")
  /\ UNCHANGED <<credential, admin, aboard, submitted, codes, exchanges, cuts,
                 calm>>

\* UpsertVesselCredential: one row, revoked_at null again.
StoreCredential(q) ==
  /\ setup[q].stage = "consumed"
  /\ credential' = [token |-> setup[q].n, code |-> setup[q].code, live |-> TRUE]
  /\ Move(q, "answered")
  /\ UNCHANGED <<enrollment, admin, aboard, submitted, codes, exchanges, cuts,
                 calm>>

SaveSyncCredential(q) ==
  /\ setup[q].stage = "answered"
  /\ IF setup[q].open
     THEN aboard' = [aboard EXCEPT !.token = setup[q].n] /\ Move(q, "stored")
     ELSE UNCHANGED aboard /\ Proceed(q, Idle)
  /\ UNCHANGED <<enrollment, credential, admin, submitted, codes, exchanges,
                 cuts, calm>>

SaveDRIdentity(q) ==
  /\ setup[q].stage = "stored"
  /\ IF setup[q].open
     THEN aboard' = [aboard EXCEPT !.key = setup[q].n] /\ Move(q, "keyed")
     ELSE UNCHANGED aboard /\ Proceed(q, Idle)
  /\ UNCHANGED <<enrollment, credential, admin, submitted, codes, exchanges,
                 cuts, calm>>

\* bootstrap.json, written beside the old one and renamed.
SaveBootstrap(enrolled) == submitted' = enrolled

\* setConfigured: from here on the scheduler's cycles use the credential.
SetConfigured(q) ==
  /\ setup[q].stage = "keyed"
  /\ SaveBootstrap(TRUE)
  /\ Proceed(q, Idle)
  /\ UNCHANGED <<enrollment, credential, admin, aboard, codes, exchanges, cuts,
                 calm>>

\* Skip: sync is off, the rows stay.
SkipEnrollment ==
  /\ SaveBootstrap(FALSE)
  /\ UNCHANGED <<enrollment, credential, admin, setup, aboard, codes,
                 exchanges, cuts, calm>>

\* A request ends between two statements: a failure, a lost answer, a stop.
Cut ==
  /\ cuts < MaxCuts
  /\ cuts' = cuts + 1
  /\ calm' = FALSE
  /\ \/ \E a \in Admins : /\ admin[a] # Idle
                          /\ admin' = [admin EXCEPT ![a] = Idle]
                          /\ UNCHANGED setup
     \/ \E q \in Setups : /\ setup[q] # Idle
                          /\ Proceed(q, Idle) /\ UNCHANGED admin
  /\ UNCHANGED <<enrollment, credential, aboard, submitted, codes, exchanges>>

AdminStep(a) == SaveEnrollment(a) \/ RevokeVesselCredential(a)
SetupStep(q) ==
  \/ VerifyCode(q) \/ ConsumeCode(q) \/ StoreCredential(q)
  \/ SaveSyncCredential(q) \/ SaveDRIdentity(q) \/ SetConfigured(q)

Administer ==
  \/ IssueEnrollment
  \/ \E a \in Admins : BeginReissue(a) \/ BeginRevoke(a)

AccessNext ==
  \/ Administer \/ Cut \/ SkipEnrollment
  \/ \E a \in Admins : AdminStep(a)
  \/ \E q \in Setups : SetupStep(q) \/ \E k \in 1..codes : SendCode(q, k)

AccessSpec == InitAccess /\ [][AccessNext]_access

-----------------------------------------------------------------------------

\* A credential that is accepted was bought with a code that nobody can use
\* again, however the requests interleave and wherever they are cut: the
\* handler consumes the code first and stores the credential second.
UsedCodeStaysUsed ==
  credential.live => enrollment.code # credential.code

\* As long as no two requests overlapped and none was cut, the two rows and
\* the vessel agree once the requests have ended: a revoked vessel is cut
\* off, an enrolled one is let in, and a restore bundle encrypted for the
\* vessel that is let in is one it can decrypt.
SettledAgrees ==
  calm /\ UnderWay = {} =>
    /\ enrollment.state = "revoked" => ~credential.live
    /\ enrollment.state = "enrolled" =>
         /\ credential.live
         /\ aboard.token = credential.token => aboard.key = enrollment.key

=============================================================================
