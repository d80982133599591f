----------------------------- MODULE Attachments -----------------------------
(***************************************************************************)
(* Attachments live twice: a row in Postgres and an object in the bucket.  *)
(* This module is the three requests that change them: upload_attachment   *)
(* and delete_attachment (services/attachment_service.py), delete_task     *)
(* (services/task_service.py), each cut at its awaits, running             *)
(* concurrently and failing at any of them.                                *)
(*                                                                         *)
(* A request's transaction is what it has flushed and not yet committed.   *)
(* Postgres makes a flush wait for the row locks it needs: inserting a row *)
(* that refers to a task (an attachment, an activity entry) shares the     *)
(* task's lock, deleting the task excludes it.                             *)
(***************************************************************************)
EXTENDS Naturals, FiniteSets

CONSTANTS
  Task,     \* tasks of one project
  Subtree,  \* Subtree[t]: t and the subtasks the ORM's cascade deletes with it
  Key,      \* storage keys; an upload takes a fresh one
  Req,      \* requests
  Faults    \* which of "storage" and "database" may fail

ASSUME SubtreeAssumption ==
  /\ Subtree \in [Task -> SUBSET Task]
  /\ \A t \in Task : t \in Subtree[t]
  /\ \A t \in Task : \A s \in Subtree[t] : Subtree[s] \subseteq Subtree[t]
ASSUME FaultsAssumption == Faults \subseteq {"storage", "database"}

VARIABLES
  tasks,      \* committed task rows
  rows,       \* committed attachment rows, by storage key
  objects,    \* keys that have an object in the bucket
  used,       \* keys ever generated
  taskOf,     \* taskOf[k]: the task that attachment k was uploaded to
  pc,         \* the step request r is about to take
  target,     \* the task r was asked about, as a singleton
  keys,       \* the key r uploads or removes, or the keys it found on its task
  announced   \* events published to the project room

vars == <<tasks, rows, objects, used, taskOf, pc, target, keys, announced>>

Step == {"idle", "done", "failed",
         "up_loaded", "up_stored", "up_flushed", "up_committed", "up_refreshed",
         "rm_loaded", "rm_flushed", "rm_committed", "rm_cleaned",
         "del_loaded", "del_listed", "del_purged", "del_flushed", "del_committed"}
Finished == {"idle", "done", "failed"}

Added(k)   == [type |-> "attachment_added", of |-> k]
Removed(k) == [type |-> "attachment_removed", of |-> k]
Deleted(t) == [type |-> "task_deleted", of |-> t]
Event == [type: {"attachment_added", "attachment_removed"}, of: Key]
           \cup [type: {"task_deleted"}, of: Task]

RowsOf(ts) == {k \in rows : taskOf[k] \in ts}

(* What the ORM's cascade takes along when it deletes the task of r.       *)
Doomed(r) == UNION {Subtree[t] : t \in target[r]}

(* The locks that flushes hold until their transaction ends.               *)
Sharing(r)   == pc[r] \in {"up_flushed", "rm_flushed"}
Excluding(r) == pc[r] = "del_flushed"

ShareFree(r) == \A q \in Req : Excluding(q) => target[r] \cap Doomed(q) = {}
ExcludeFree(r) ==
  \A q \in Req :
    /\ Sharing(q) => target[q] \cap Doomed(r) = {}
    /\ Excluding(q) => Doomed(q) \cap Doomed(r) = {}
RowFree(r) == \A q \in Req : pc[q] = "rm_flushed" => keys[q] \cap keys[r] = {}

TypeOK ==
  /\ tasks \subseteq Task
  /\ used \subseteq Key
  /\ rows \subseteq used
  /\ objects \subseteq used
  /\ taskOf \in [Key -> Task]
  /\ pc \in [Req -> Step]
  /\ target \in [Req -> SUBSET Task]
  /\ keys \in [Req -> SUBSET used]
  /\ announced \subseteq Event

(* Some attachments are there already, each with its row and its object.   *)
Init ==
  /\ tasks = Task
  /\ used \in SUBSET Key
  /\ rows = used
  /\ objects = used
  /\ taskOf \in [Key -> Task]
  /\ pc = [r \in Req |-> "idle"]
  /\ target = [r \in Req |-> {}]
  /\ keys = [r \in Req |-> {}]
  /\ announced = {}

Goto(r, from, to) ==
  /\ pc[r] = from
  /\ pc' = [pc EXCEPT ![r] = to]

Announce(r, from, events) ==
  /\ Goto(r, from, "done")
  /\ announced' = announced \cup events
  /\ UNCHANGED <<tasks, rows, objects, used, taskOf, target, keys>>

-----------------------------------------------------------------------------
(* Changed forms of steps below, for checking that the properties notice.  *)

(* The object is stored under a key that nobody records.                   *)
PutUnrecorded(r, k) ==
  /\ Goto(r, "up_loaded", "up_stored")
  /\ k \notin used
  /\ objects' = objects \cup {k}
  /\ UNCHANGED <<tasks, rows, used, taskOf, target, keys, announced>>

(* delete_attachment forgets to commit.                                    *)
CommitForgotten(r) ==
  /\ Goto(r, "rm_flushed", "rm_committed")
  /\ UNCHANGED <<tasks, rows, objects, used, taskOf, target, keys, announced>>

(* The row has no foreign key to its task.                                 *)
FlushUploadUnchecked(r) ==
  /\ Goto(r, "up_stored", "up_flushed")
  /\ UNCHANGED <<tasks, rows, objects, used, taskOf, target, keys, announced>>

(* The refresh polls until it finds the row.                               *)
RefreshUploadPolls(r) ==
  /\ keys[r] \subseteq rows
  /\ Goto(r, "up_committed", "up_refreshed")
  /\ UNCHANGED <<tasks, rows, objects, used, taskOf, target, keys, announced>>

(* The object is deleted before the transaction commits.                   *)
FlushRemoveFirst(r) ==
  /\ ShareFree(r)
  /\ RowFree(r)
  /\ Goto(r, "rm_loaded", IF target[r] \subseteq tasks THEN "rm_flushed" ELSE "failed")
  /\ objects' = objects \ keys[r]
  /\ UNCHANGED <<tasks, rows, used, taskOf, target, keys, announced>>

(* delete_attachment forgets the object.                                   *)
DeleteNoObject(r) ==
  /\ Goto(r, "rm_committed", "rm_cleaned")
  /\ UNCHANGED <<tasks, rows, objects, used, taskOf, target, keys, announced>>

-----------------------------------------------------------------------------
(* upload_attachment.                                                      *)

(* Bound: an upload starts only while a key is left for it.                *)
KeysLeft == Cardinality({q \in Req : pc[q] = "up_loaded"}) < Cardinality(Key \ used)

(* require_task_project_role loads the task; the body is awaited next.     *)
StartUpload(r, t) ==
  /\ KeysLeft
  /\ t \in tasks
  /\ Goto(r, "idle", "up_loaded")
  /\ target' = [target EXCEPT ![r] = {t}]
  /\ UNCHANGED <<tasks, rows, objects, used, taskOf, keys, announced>>

Put(r, k) ==
  /\ Goto(r, "up_loaded", "up_stored")
  /\ k \notin used
  /\ used' = used \cup {k}
  /\ objects' = objects \cup {k}
  /\ taskOf' = [taskOf EXCEPT ![k] = CHOOSE t \in target[r] : TRUE]
  /\ keys' = [keys EXCEPT ![r] = {k}]
  /\ UNCHANGED <<tasks, rows, target, announced>>

(* The insert fails when the task it refers to is gone.                    *)
FlushUpload(r) ==
  /\ ShareFree(r)
  /\ Goto(r, "up_stored", IF target[r] \subseteq tasks THEN "up_flushed" ELSE "failed")
  /\ UNCHANGED <<tasks, rows, objects, used, taskOf, target, keys, announced>>

CommitUpload(r) ==
  /\ Goto(r, "up_flushed", "up_committed")
  /\ rows' = rows \cup keys[r]
  /\ UNCHANGED <<tasks, objects, used, taskOf, target, keys, announced>>

(* db.refresh raises when the row has been deleted since.                  *)
RefreshUpload(r) ==
  /\ Goto(r, "up_committed", IF keys[r] \subseteq rows THEN "up_refreshed" ELSE "failed")
  /\ UNCHANGED <<tasks, rows, objects, used, taskOf, target, keys, announced>>

AnnounceUpload(r) == Announce(r, "up_refreshed", {Added(k) : k \in keys[r]})

-----------------------------------------------------------------------------
(* delete_attachment.                                                      *)

StartRemove(r, k) ==
  /\ k \in rows
  /\ taskOf[k] \in tasks
  /\ Goto(r, "idle", "rm_loaded")
  /\ target' = [target EXCEPT ![r] = {taskOf[k]}]
  /\ keys' = [keys EXCEPT ![r] = {k}]
  /\ UNCHANGED <<tasks, rows, objects, used, taskOf, announced>>

(* The activity entry refers to the task; deleting a row that is gone      *)
(* already is only a warning.                                              *)
FlushRemove(r) ==
  /\ ShareFree(r)
  /\ RowFree(r)
  /\ Goto(r, "rm_loaded", IF target[r] \subseteq tasks THEN "rm_flushed" ELSE "failed")
  /\ UNCHANGED <<tasks, rows, objects, used, taskOf, target, keys, announced>>

CommitRemove(r) ==
  /\ Goto(r, "rm_flushed", "rm_committed")
  /\ rows' = rows \ keys[r]
  /\ UNCHANGED <<tasks, objects, used, taskOf, target, keys, announced>>

DeleteObject(r) ==
  /\ Goto(r, "rm_committed", "rm_cleaned")
  /\ objects' = objects \ keys[r]
  /\ UNCHANGED <<tasks, rows, used, taskOf, target, keys, announced>>

AnnounceRemove(r) == Announce(r, "rm_cleaned", {Removed(k) : k \in keys[r]})

-----------------------------------------------------------------------------
(* delete_task.                                                            *)

StartDelete(r, t) ==
  /\ t \in tasks
  /\ Goto(r, "idle", "del_loaded")
  /\ target' = [target EXCEPT ![r] = {t}]
  /\ UNCHANGED <<tasks, rows, objects, used, taskOf, keys, announced>>

(* The attachments of the task itself; those of its subtasks are not read. *)
ListAttachments(r) ==
  /\ Goto(r, "del_loaded", "del_listed")
  /\ keys' = [keys EXCEPT ![r] = RowsOf(target[r])]
  /\ UNCHANGED <<tasks, rows, objects, used, taskOf, target, announced>>

(* The loop of delete_object calls, which awaits nothing.                  *)
Purge(r) ==
  /\ Goto(r, "del_listed", "del_purged")
  /\ objects' = objects \ keys[r]
  /\ UNCHANGED <<tasks, rows, used, taskOf, target, keys, announced>>

FlushDelete(r) ==
  /\ ExcludeFree(r)
  /\ Goto(r, "del_purged", "del_flushed")
  /\ UNCHANGED <<tasks, rows, objects, used, taskOf, target, keys, announced>>

(* The ORM deletes the subtasks with the task; the foreign key cascades to *)
(* the attachment rows of each.                                            *)
CommitDelete(r) ==
  /\ Goto(r, "del_flushed", "del_committed")
  /\ tasks' = tasks \ Doomed(r)
  /\ rows' = rows \ RowsOf(Doomed(r))
  /\ UNCHANGED <<objects, used, taskOf, target, keys, announced>>

AnnounceDelete(r) == Announce(r, "del_committed", {Deleted(t) : t \in target[r]})

-----------------------------------------------------------------------------
(* Failures.  What is not committed is rolled back.                        *)

(* put_object or delete_object raises; nothing catches it.                 *)
StorageRaises(r) ==
  /\ "storage" \in Faults
  /\ pc[r] \in {"up_loaded", "rm_committed"}
  /\ pc' = [pc EXCEPT ![r] = "failed"]
  /\ UNCHANGED <<tasks, rows, objects, used, taskOf, target, keys, announced>>

(* delete_object raises at some key of the loop, after some of the others. *)
PurgeRaises(r) ==
  /\ "storage" \in Faults
  /\ Goto(r, "del_listed", "failed")
  /\ \E ks \in SUBSET keys[r] : ks # keys[r] /\ objects' = objects \ ks
  /\ UNCHANGED <<tasks, rows, used, taskOf, target, keys, announced>>

(* A statement, a commit or a publish raises, or the process dies; also a  *)
(* delete whose subtask or comment list was outdated when it was flushed,  *)
(* so that a foreign key refused it.                                       *)
Abort(r) ==
  /\ "database" \in Faults
  /\ pc[r] \notin Finished
  /\ pc' = [pc EXCEPT ![r] = "failed"]
  /\ keys' = IF pc[r] = "del_listed" THEN [keys EXCEPT ![r] = {}] ELSE keys
  /\ UNCHANGED <<tasks, rows, objects, used, taskOf, target, announced>>

-----------------------------------------------------------------------------

Begin(r) ==
  \/ \E t \in Task : StartUpload(r, t)
  \/ \E k \in Key : StartRemove(r, k)
  \/ \E t \in Task : StartDelete(r, t)

Proceed(r) ==
  \/ \E k \in Key : Put(r, k)
  \/ FlushUpload(r)
  \/ CommitUpload(r)
  \/ RefreshUpload(r)
  \/ AnnounceUpload(r)
  \/ FlushRemove(r)
  \/ CommitRemove(r)
  \/ DeleteObject(r)
  \/ AnnounceRemove(r)
  \/ ListAttachments(r)
  \/ Purge(r)
  \/ FlushDelete(r)
  \/ CommitDelete(r)
  \/ AnnounceDelete(r)

Next == \E r \in Req : Begin(r) \/ Proceed(r) \/ StorageRaises(r) \/ PurgeRaises(r) \/ Abort(r)

(* The event loop resumes a request whose await has completed, Postgres    *)
(* one that waits for a lock which stays free.  Requests are made once, so *)
(* in the end every lock does.                                             *)
Resumed(r) == WF_vars(Proceed(r))
Fairness == \A r \in Req : Resumed(r)

Spec == Init /\ [][Next]_vars /\ Fairness

-----------------------------------------------------------------------------
(* Properties.                                                             *)

(* A row without its object is one that a task deletion listed which       *)
(* emptied the bucket before its transaction: it is still under way, or    *)
(* some request that held the key failed.  "failed" does not say of which  *)
(* kind that request was.                                                  *)
DanglingOnlyByTaskDeletion ==
  \A k \in rows \ objects :
    \E r \in Req :
      /\ k \in keys[r]
      /\ taskOf[k] \in target[r]
      /\ pc[r] \in {"del_purged", "del_flushed", "failed"}

(* Every object without a row is accounted for: an upload between its two  *)
(* writes, or failed there; a removal between its two, or failed there; or *)
(* the deletion of a task that had not listed it.  Where there are other   *)
(* keys, a finished upload or removal of one of them on the same task is   *)
(* not told from such a deletion.                                          *)
OrphanAccounted ==
  \A k \in objects \ rows :
    \E r \in Req :
      \/ /\ k \in keys[r]
         /\ pc[r] \in {"up_stored", "up_flushed", "rm_committed", "failed"}
      \/ /\ k \notin keys[r]
         /\ taskOf[k] \in Doomed(r)
         /\ pc[r] \in {"del_committed", "done", "failed"}

(* What clients are told has gone is gone, from both stores and for good.  *)
RemovedMeansGone ==
  \A k \in Key : Removed(k) \in announced => k \notin rows \cup objects

(* Once clients are told a task is gone, neither it nor a subtask has a    *)
(* row, and no upload that was under way gives it an attachment.           *)
DeletedMeansEmpty ==
  \A t \in Task : Deleted(t) \in announced =>
    /\ tasks \cap Subtree[t] = {}
    /\ RowsOf(Subtree[t]) = {}

(* No request waits for a lock for ever.                                   *)
Ended(r) == pc[r] \in {"done", "failed"}
Ends(r)  == pc[r] # "idle" ~> Ended(r)
EveryRequestEnds == \A r \in Req : Ends(r)

(* A request can go on unless it waits for a lock that another holds.      *)
CanProceed(r) == ENABLED <<Proceed(r)>>_vars
Waits(r) ==
  \/ pc[r] \in {"up_stored", "rm_loaded"} /\ ~ShareFree(r)
  \/ pc[r] = "rm_loaded" /\ ~RowFree(r)
  \/ pc[r] = "del_purged" /\ ~ExcludeFree(r)
NoRequestStuck == \A r \in Req : pc[r] \notin Finished /\ ~Waits(r) => CanProceed(r)

(* If each request has released its locks from some point on, then from    *)
(* some point on they all have: a law of temporal logic for finitely many  *)
(* requests.                                                               *)
HoldsLocks(r) == Sharing(r) \/ Excluding(r)
Releases(r)   == <>[]~HoldsLocks(r)
AllReleased   == (\A r \in Req : Releases(r)) => <>[](\A r \in Req : ~HoldsLocks(r))

Quiet == \A r \in Req : pc[r] \in Finished

(* "Task deletion cleans up storage, not just DB rows" (PROGRESS.md): once *)
(* the deletion has been announced and nothing is running or has failed,   *)
(* no object of the deleted tasks is left.                                 *)
DeletionCleansStorage ==
  (\A r \in Req : pc[r] \in {"idle", "done"}) =>
    \A t \in Task : Deleted(t) \in announced =>
      \A k \in objects : taskOf[k] \notin Subtree[t]

(* No "database record pointing at a file that doesn't exist"              *)
(* (attachment_service.py), when nothing is running.                       *)
NoRecordWithoutFile == Quiet => rows \subseteq objects
=============================================================================
