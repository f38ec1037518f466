-------------------------- MODULE AttachmentUpload --------------------------
(***************************************************************************)
(* The attachments that share one content hash, from the vessel's rows     *)
(* (vessel/store/attachments.go) through the chunks a sync cycle pushes    *)
(* (vessel/httpapi/sync.go, vessel/sync/attachments.go) to the office's    *)
(* content store (office/syncservice/attachments.go, pkg/attachmentstore). *)
(*                                                                         *)
(* Process p is a sync cycle with the office handlers that answer it:      *)
(* batch[p] are the attachments it has not begun with, todo[p] is what it  *)
(* has still to execute; no lock is held on either side.                   *)
(*                                                                         *)
(* A file is an inode, and its content says of each chunk what was written *)
(* in its place: a process that has the file open goes on writing to it    *)
(* whatever happens to its name.                                           *)
(***************************************************************************)
EXTENDS Naturals, SequencesExt

CONSTANTS
  Rows,        \* the attachments an officer may upload
  Cycles,      \* the sync cycles that may be under way at once
  ChunkCount,  \* chunkCount(TotalSize, ChunkSize)
  NoFile,
  Stops,       \* the statements that may fail, or not be reached
  MaxFailures  \* bound on stopped calls and corrupted chunks

ASSUME UploadAssumption ==
  /\ IsFiniteSet(Cycles)
  /\ ChunkCount \in Nat /\ MaxFailures \in Nat
  /\ NoFile \notin Nat

Chunks == 0 .. (ChunkCount - 1)
Inodes == 1 .. (Cardinality(Cycles) + 2)

VARIABLES
  rows,        \* the vessel's attachments; synced is synced_at
  listed,      \* report_attachments at the office
  registered,  \* whether attachment_uploads has the hash
  received,    \* attachment_upload_chunks
  staged,      \* the staged chunk files
  assembling,  \* the inode named <hash>.assembling
  stored,      \* the inode under the hash in the office's content store
  content,     \* of each inode
  batch,
  todo,
  failures

vars == <<rows, listed, registered, received, staged, assembling, stored,
          content, batch, todo, failures>>
upload == <<registered, received>>
files == <<staged, assembling, stored, content>>

Nothing == [i \in Chunks |-> "none"]
Whole == [i \in Chunks |-> "good"]

Init ==
  /\ rows = [a \in Rows |-> "none"]
  /\ listed = {}
  /\ registered = FALSE /\ received = {}
  /\ staged = Nothing
  /\ assembling = NoFile /\ stored = NoFile
  /\ content = [f \in Inodes |-> Nothing]
  /\ batch = [p \in Cycles |-> <<>>]
  /\ todo = [p \in Cycles |-> <<>>]
  /\ failures = 0

Stmts(p, op) == todo[p] # <<>> /\ Head(todo[p]).op = op
Then(p, s) == todo' = [todo EXCEPT ![p] = s \o Tail(@)]
stmt(op) == [op |-> op]
each(op, S) == [k \in DOMAIN S |-> [op |-> op, i |-> S[k]]]

\* The call fails: UploadAttachment returns, and the batch goes on.
Fails(p, s) == todo' = [todo EXCEPT ![p] = s]

-----------------------------------------------------------------------------
(* The vessel. *)

InsertAttachment(a) ==
  rows[a] = "none" /\ rows' = [rows EXCEPT ![a] = "pending"]

\* The content is stored before the row is inserted, and is never removed.
UploadAttachment(a) ==
  /\ InsertAttachment(a)
  /\ UNCHANGED <<listed, upload, files, batch, todo, failures>>

\* Whether it was pushed already makes no difference.
DeleteAttachment(a) ==
  /\ rows[a] \in {"pending", "synced"}
  /\ rows' = [rows EXCEPT ![a] = "deleted"]
  /\ UNCHANGED <<listed, upload, files, batch, todo, failures>>

\* By time, in any order of equal times.
ListPendingAttachments == SetToSeqs({a \in Rows : rows[a] = "pending"})

PushAttachmentsBatch(p) ==
  /\ todo[p] = <<>> /\ batch[p] = <<>>
  /\ \E order \in ListPendingAttachments \ {<<>>} :
       batch' = [batch EXCEPT ![p] = order]
  /\ UNCHANGED <<rows, listed, upload, files, todo, failures>>

BeginUpload(p) ==
  LET a == Head(batch[p]) IN
  /\ todo[p] = <<>> /\ batch[p] # <<>>
  /\ batch' = [batch EXCEPT ![p] = Tail(@)]
  /\ todo' = [todo EXCEPT ![p] =
       <<[op |-> "list", a |-> a], stmt("has"), [op |-> "mark", a |-> a]>>]
  /\ UNCHANGED <<rows, listed, upload, files>>

\* The row may be gone by now.
MarkAttachmentSynced(p) ==
  LET a == Head(todo[p]).a IN
  /\ Stmts(p, "mark")
  /\ rows' = [rows EXCEPT ![a] = IF @ = "pending" THEN "synced" ELSE @]
  /\ Then(p, <<>>)
  /\ UNCHANGED <<listed, upload, files>>

-----------------------------------------------------------------------------
(* QueryMissingAttachmentChunks. *)

UpsertReportAttachment(p) ==
  /\ Stmts(p, "list")
  /\ listed' = listed \cup {Head(todo[p]).a}
  /\ Then(p, <<>>)
  /\ UNCHANGED <<rows, upload, files>>

\* Mutant: the vessel does not take "already complete" for confirmation.
AlreadyCompleteUnconfirmed(p) ==
  /\ Stmts(p, "has")
  /\ IF stored # NoFile THEN Fails(p, <<>>)
     ELSE Then(p, <<stmt("register"), stmt("missing")>>)
  /\ UNCHANGED <<rows, listed, upload, files>>

AlreadyComplete(p) ==
  /\ Stmts(p, "has")
  /\ Then(p, IF stored # NoFile THEN <<>>
             ELSE <<stmt("register"), stmt("missing")>>)
  /\ UNCHANGED <<rows, listed, upload, files>>

GetOrCreateAttachmentUpload(p) ==
  /\ Stmts(p, "register")
  /\ registered' = TRUE
  /\ Then(p, <<>>)
  /\ UNCHANGED <<rows, listed, received, files>>

\* The members of a finite set of numbers, ascending.
Ascending(S) ==
  {s \in [1 .. Cardinality(S) -> S] :
     \A j, k \in 1 .. Cardinality(S) : j < k => s[j] < s[k]}

\* The vessel sends exactly these, in order.
MissingChunkIndices(p) ==
  /\ Stmts(p, "missing")
  /\ \E s \in Ascending(Chunks \ received) : Then(p, each("chunk", s))
  /\ UNCHANGED <<rows, listed, upload, files>>

-----------------------------------------------------------------------------
(* UploadAttachmentChunk. *)

BeginChunk(p) ==
  LET i == Head(todo[p]).i IN
  /\ Stmts(p, "chunk")
  /\ Then(p, IF stored # NoFile THEN <<>>
             ELSE <<stmt("get"), [op |-> "write", i |-> i],
                    [op |-> "record", i |-> i], stmt("complete")>>)
  /\ UNCHANGED <<rows, listed, upload, files>>

GetAttachmentUpload(p) ==
  /\ Stmts(p, "get")
  /\ IF registered THEN Then(p, <<>>) ELSE Fails(p, <<>>)
  /\ UNCHANGED <<rows, listed, upload, files>>

\* A chunk may arrive other than the vessel's content was hashed.
WriteChunk(p) ==
  /\ Stmts(p, "write")
  /\ \E data \in {"good", "bad"} :
       /\ data = "bad" => failures < MaxFailures
       /\ failures' = failures + (IF data = "bad" THEN 1 ELSE 0)
       /\ staged' = [staged EXCEPT ![Head(todo[p]).i] = data]
  /\ Then(p, <<>>)
  /\ UNCHANGED <<rows, listed, upload, assembling, stored, content>>

\* The row refers to the registration, and is deleted with it.
RecordChunk(p) ==
  /\ Stmts(p, "record")
  /\ IF registered
     THEN /\ received' = received \cup {Head(todo[p]).i}
          /\ Then(p, <<>>)
     ELSE UNCHANGED received /\ Fails(p, <<>>)
  /\ UNCHANGED <<rows, listed, registered, files>>

CheckComplete(p) ==
  /\ Stmts(p, "complete")
  /\ Then(p, IF Chunks \subseteq received
             THEN <<stmt("create")>> ELSE <<>>)
  /\ UNCHANGED <<rows, listed, upload, files>>

-----------------------------------------------------------------------------
(* assembleAndPromote. *)

Open(f) == \/ f \in {assembling, stored}
           \/ \E p \in Cycles : \E k \in DOMAIN todo[p] :
                todo[p][k].op = "copy" /\ todo[p][k].file = f

\* os.Create empties a file of that name.
CreateAssembling(p) ==
  LET f == IF assembling # NoFile THEN assembling
           ELSE CHOOSE g \in Inodes : ~Open(g)
  IN
  /\ Stmts(p, "create")
  /\ assembling' = f
  /\ content' = [content EXCEPT ![f] = Nothing]
  /\ Then(p, [k \in 1 .. ChunkCount |->
                [op |-> "copy", i |-> k - 1, file |-> f]]
             \o <<stmt("verify"), stmt("promote"), stmt("clean"),
                  stmt("unregister")>>)
  /\ UNCHANGED <<rows, listed, upload, staged, stored>>

\* Without the staged chunk, staging is cleaned and the call fails.
CopyChunk(p) ==
  LET s == Head(todo[p]) IN
  /\ Stmts(p, "copy")
  /\ IF staged[s.i] = "none"
     THEN Fails(p, <<stmt("clean")>>) /\ UNCHANGED content
     ELSE /\ content' = [content EXCEPT ![s.file][s.i] = staged[s.i]]
          /\ Then(p, <<>>)
  /\ UNCHANGED <<rows, listed, upload, staged, assembling, stored>>

Rejected == <<stmt("clean"), stmt("unregister")>>

\* Mutant: the hash is not compared.
VerifyNothing(p) ==
  /\ Stmts(p, "verify")
  /\ IF assembling # NoFile THEN Then(p, <<>>) ELSE Fails(p, Rejected)
  /\ UNCHANGED <<rows, listed, upload, files>>

\* Mutant: the registration survives a mismatch.
VerifyAndKeep(p) ==
  /\ Stmts(p, "verify")
  /\ IF assembling # NoFile /\ content[assembling] = Whole
     THEN Then(p, <<>>) ELSE Fails(p, <<stmt("clean")>>)
  /\ UNCHANGED <<rows, listed, upload, files>>

\* PutFile computes the hash of what bears the name now.
VerifyHash(p) ==
  /\ Stmts(p, "verify")
  /\ IF assembling # NoFile /\ content[assembling] = Whole
     THEN Then(p, <<>>) ELSE Fails(p, Rejected)
  /\ UNCHANGED <<rows, listed, upload, files>>

\* PutFile renames what bears the name by then, unless the hash is stored.
Promote(p) ==
  /\ Stmts(p, "promote")
  /\ IF stored # NoFile
     THEN Then(p, <<>>) /\ UNCHANGED <<assembling, stored>>
     ELSE IF assembling = NoFile
     THEN Fails(p, Rejected) /\ UNCHANGED <<assembling, stored>>
     ELSE /\ stored' = assembling /\ assembling' = NoFile
          /\ Then(p, <<>>)
  /\ UNCHANGED <<rows, listed, upload, staged, content>>

CleanupStaging(p) ==
  /\ Stmts(p, "clean")
  /\ assembling' = NoFile
  /\ staged' = Nothing
  /\ Then(p, <<>>)
  /\ UNCHANGED <<rows, listed, upload, stored, content>>

DeleteAttachmentUpload(p) ==
  /\ Stmts(p, "unregister")
  /\ registered' = FALSE /\ received' = {}
  /\ Then(p, <<>>)
  /\ UNCHANGED <<rows, listed, files>>

-----------------------------------------------------------------------------
\* The error paths of assembleAndPromote.
OnError(op) ==
  IF op \in {"create", "copy"} THEN <<stmt("clean")>>
  ELSE IF op \in {"verify", "promote"} THEN Rejected ELSE <<>>

\* A statement fails, the call is lost or cut before it.
Abort(p) ==
  /\ todo[p] # <<>> /\ Head(todo[p]).op \in Stops
  /\ \E s \in {<<>>, OnError(Head(todo[p]).op)} : Fails(p, s)
  /\ UNCHANGED batch

\* A side stops.
Stop(p) ==
  /\ todo[p] # <<>> => Head(todo[p]).op \in Stops
  /\ batch[p] # <<>> \/ todo[p] # <<>>
  /\ batch' = [batch EXCEPT ![p] = <<>>]
  /\ todo' = [todo EXCEPT ![p] = <<>>]

Failure(p) ==
  /\ failures < MaxFailures
  /\ failures' = failures + 1
  /\ Abort(p) \/ Stop(p)
  /\ UNCHANGED <<rows, listed, upload, files>>

Step(p) ==
  \/ BeginUpload(p) /\ UNCHANGED failures
  \/ WriteChunk(p) /\ UNCHANGED batch
  \/ /\ \/ MarkAttachmentSynced(p)
        \/ UpsertReportAttachment(p) \/ AlreadyComplete(p)
        \/ GetOrCreateAttachmentUpload(p) \/ MissingChunkIndices(p)
        \/ BeginChunk(p) \/ GetAttachmentUpload(p) \/ RecordChunk(p)
        \/ CheckComplete(p) \/ CreateAssembling(p) \/ CopyChunk(p)
        \/ VerifyHash(p) \/ Promote(p) \/ CleanupStaging(p)
        \/ DeleteAttachmentUpload(p)
     /\ UNCHANGED <<batch, failures>>

Next ==
  \/ \E a \in Rows : UploadAttachment(a) \/ DeleteAttachment(a)
  \/ \E p \in Cycles : PushAttachmentsBatch(p) \/ Step(p) \/ Failure(p)

Spec == Init /\ [][Next]_vars

\* The scheduler starts cycles, and both sides execute them.
Fairness ==
  \A p \in Cycles : WF_vars(PushAttachmentsBatch(p)) /\ WF_vars(Step(p))
FairSpec == Spec /\ Fairness

-----------------------------------------------------------------------------
(* Properties. *)

\* What the content store shows under the hash is the content of that hash
\* (PutFile fails without promoting anything else).
StoredIsWhole == stored # NoFile => content[stored] = Whole

\* synced_at is set once the office has every chunk: the attachment is in
\* its content store and listed under its report.
SyncedIsStored ==
  \A a \in Rows : rows[a] = "synced" => stored # NoFile /\ a \in listed

\* An attachment that is not deleted is synced in the end, whatever chunks
\* arrived corrupted and whatever calls failed on the way.
PendingIsSynced ==
  \A a \in Rows : rows[a] = "pending" ~> rows[a] # "pending"
=============================================================================
