-------------------------- MODULE AttachmentsProofs --------------------------
(* Proofs about Attachments, for any tasks, keys and requests.             *)
EXTENDS Attachments, TLAPS

(* A request that has begun knows its one task.                            *)
Targets == \A r \in Req : pc[r] # "idle" => \E t \in Task : target[r] = {t}

(* Between its two writes an upload has its object to itself.              *)
UploadOwns ==
  \A r \in Req : pc[r] \in {"up_stored", "up_flushed"} =>
    /\ keys[r] \subseteq objects \ rows
    /\ \A k \in keys[r] : taskOf[k] \in target[r]
    /\ \A q \in Req \ {r} : keys[r] \cap keys[q] = {}

(* A removal deletes the object of a row that is gone.                     *)
RemoverKnows ==
  \A r \in Req :
    /\ pc[r] \in {"rm_committed", "rm_cleaned"} => keys[r] \cap rows = {}
    /\ pc[r] = "rm_cleaned" => keys[r] \cap objects = {}

(* A task deletion purges attachments of its own task.                     *)
DeleterKnows ==
  \A r \in Req :
    /\ pc[r] \in {"del_listed", "del_purged", "del_flushed"} =>
         \A k \in keys[r] : taskOf[k] \in target[r]
    /\ pc[r] \in {"del_purged", "del_flushed"} => keys[r] \cap objects = {}

(* The row locks of tasks, and what a shared one guarantees.               *)
Locks ==
  /\ \A q, r \in Req : Excluding(q) /\ Sharing(r) => target[r] \cap Doomed(q) = {}
  /\ \A r \in Req : Sharing(r) => target[r] \subseteq tasks

(* The foreign key of attachments.                                         *)
RowsHaveTasks == \A k \in rows : taskOf[k] \in tasks

AnnouncedWasUsed == \A k \in Key : Removed(k) \in announced => k \in used

RemovedInv == AnnouncedWasUsed /\ RemovedMeansGone

DeletedStaysDeleted ==
  /\ \A t \in Task : Deleted(t) \in announced => tasks \cap Subtree[t] = {}
  /\ \A r \in Req : pc[r] = "del_committed" => tasks \cap Doomed(r) = {}

Typed == TypeOK /\ Targets

IInv ==
  /\ Typed
  /\ UploadOwns
  /\ RemoverKnows
  /\ DeleterKnows
  /\ Locks
  /\ RowsHaveTasks
  /\ RemovedInv
  /\ DeletedStaysDeleted
  /\ DanglingOnlyByTaskDeletion
  /\ OrphanAccounted
-----------------------------------------------------------------------------
(* Every step keeps every part of IInv.                                    *)

(* Every step keeps the types.                                             *)
LEMMA TypedStep ==
  Typed /\ [Next]_vars => Typed'
<1> USE SubtreeAssumption
<1> USE DEF Typed, TypeOK, Targets, Step, Event, Added, Removed, Deleted,
            RowsOf, Doomed
<1> SUFFICES ASSUME Typed, [Next]_vars PROVE Typed'
  OBVIOUS
<1>1. ASSUME NEW r \in Req, NEW t \in Task, StartUpload(r, t) PROVE Typed'
  BY <1>1 DEF StartUpload, Goto
<1>2. ASSUME NEW r \in Req, NEW k \in Key, StartRemove(r, k) PROVE Typed'
  BY <1>2 DEF StartRemove, Goto
<1>3. ASSUME NEW r \in Req, NEW t \in Task, StartDelete(r, t) PROVE Typed'
  BY <1>3 DEF StartDelete, Goto
<1>4. ASSUME NEW r \in Req, NEW k \in Key, Put(r, k) PROVE Typed'
  <2>1. PICK t \in Task : target[r] = {t}
    BY <1>4 DEF Put, Goto
  <2>2. (CHOOSE s \in target[r] : TRUE) \in Task
    BY <2>1
  <2>3. TypeOK'
    BY <1>4, <2>2 DEF Put, Goto
  <2>4. Targets'
    BY <1>4 DEF Put, Goto
  <2> QED
    BY <2>3, <2>4
<1>5. ASSUME NEW r \in Req, FlushUpload(r) PROVE Typed'
  BY <1>5 DEF FlushUpload, Goto
<1>6. ASSUME NEW r \in Req, CommitUpload(r) PROVE Typed'
  BY <1>6 DEF CommitUpload, Goto
<1>7. ASSUME NEW r \in Req, RefreshUpload(r) PROVE Typed'
  BY <1>7 DEF RefreshUpload, Goto
<1>8. ASSUME NEW r \in Req, AnnounceUpload(r) PROVE Typed'
  BY <1>8 DEF AnnounceUpload, Announce, Goto
<1>9. ASSUME NEW r \in Req, FlushRemove(r) PROVE Typed'
  BY <1>9 DEF FlushRemove, Goto
<1>10. ASSUME NEW r \in Req, CommitRemove(r) PROVE Typed'
  BY <1>10 DEF CommitRemove, Goto
<1>11. ASSUME NEW r \in Req, DeleteObject(r) PROVE Typed'
  BY <1>11 DEF DeleteObject, Goto
<1>12. ASSUME NEW r \in Req, AnnounceRemove(r) PROVE Typed'
  BY <1>12 DEF AnnounceRemove, Announce, Goto
<1>13. ASSUME NEW r \in Req, ListAttachments(r) PROVE Typed'
  BY <1>13 DEF ListAttachments, Goto
<1>14. ASSUME NEW r \in Req, Purge(r) PROVE Typed'
  BY <1>14 DEF Purge, Goto
<1>15. ASSUME NEW r \in Req, FlushDelete(r) PROVE Typed'
  BY <1>15 DEF FlushDelete, Goto
<1>16. ASSUME NEW r \in Req, CommitDelete(r) PROVE Typed'
  BY <1>16 DEF CommitDelete, Goto
<1>17. ASSUME NEW r \in Req, AnnounceDelete(r) PROVE Typed'
  BY <1>17 DEF AnnounceDelete, Announce, Goto
<1>18. ASSUME NEW r \in Req, StorageRaises(r) PROVE Typed'
  BY <1>18 DEF StorageRaises
<1>19. ASSUME NEW r \in Req, PurgeRaises(r) PROVE Typed'
  BY <1>19 DEF PurgeRaises, Goto
<1>20. ASSUME NEW r \in Req, Abort(r) PROVE Typed'
  <2>1. keys' \in [Req -> SUBSET used']
    BY <1>20 DEF Abort
  <2>2. pc' \in [Req -> Step]
    BY <1>20 DEF Abort
  <2>3. TypeOK'
    BY <1>20, <2>1, <2>2 DEF Abort
  <2>4. Targets'
    BY <1>20 DEF Abort, Finished
  <2> QED
    BY <2>3, <2>4
<1>21. CASE UNCHANGED vars
  BY <1>21 DEF vars
<1> QED
  BY <1>1, <1>2, <1>3, <1>4, <1>5, <1>6, <1>7, <1>8, <1>9, <1>10, <1>11,
     <1>12, <1>13, <1>14, <1>15, <1>16, <1>17, <1>18, <1>19, <1>20, <1>21
     DEF Next, Begin, Proceed

(* Nobody else gets hold of an upload's key: a fresh key is in nobody's    *)
(* set, and removals and deletions take theirs from committed rows.        *)
LEMMA UploadOwnsStep ==
  Typed /\ UploadOwns /\ RemoverKnows /\ DeleterKnows /\ [Next]_vars => UploadOwns'
<1> USE SubtreeAssumption
<1> USE DEF Typed, TypeOK, Targets, UploadOwns, RemoverKnows, DeleterKnows,
            RowsOf
<1> SUFFICES ASSUME Typed, UploadOwns, RemoverKnows, DeleterKnows,
                    [Next]_vars PROVE UploadOwns'
  OBVIOUS
<1>1. ASSUME NEW r \in Req, NEW t \in Task, StartUpload(r, t) PROVE UploadOwns'
  BY <1>1 DEF StartUpload, Goto
<1>2. ASSUME NEW r \in Req, NEW k \in Key, StartRemove(r, k) PROVE UploadOwns'
  BY <1>2 DEF StartRemove, Goto
<1>3. ASSUME NEW r \in Req, NEW t \in Task, StartDelete(r, t) PROVE UploadOwns'
  BY <1>3 DEF StartDelete, Goto
<1>4. ASSUME NEW r \in Req, NEW k \in Key, Put(r, k) PROVE UploadOwns'
  <2> USE DEF Put, Goto
  <2>1. k \notin rows /\ \A q \in Req : k \notin keys[q]
    BY <1>4
  <2>2. (CHOOSE t \in target[r] : TRUE) \in target[r]
    BY <1>4
  <2>3. keys' = [keys EXCEPT ![r] = {k}] /\ target' = target /\ rows' = rows
    BY <1>4
  <2>4. keys'[r] = {k} /\ \A q \in Req \ {r} : keys'[q] = keys[q]
    BY <2>3
  <2>5. taskOf'[k] \in target[r] /\ \A j \in Key \ {k} : taskOf'[j] = taskOf[j]
    BY <1>4, <2>2
  <2>6. \A q \in Req \ {r} : pc'[q] = pc[q]
    BY <1>4
  <2>7. objects' = objects \cup {k}
    BY <1>4
  <2> SUFFICES ASSUME NEW q \in Req, pc'[q] \in {"up_stored", "up_flushed"}
               PROVE  /\ keys'[q] \subseteq objects' \ rows'
                      /\ \A j \in keys'[q] : taskOf'[j] \in target'[q]
                      /\ \A o \in Req \ {q} : keys'[q] \cap keys'[o] = {}
    OBVIOUS
  <2>8. CASE q = r
    <3>1. keys'[q] \subseteq objects' \ rows'
      BY <2>1, <2>3, <2>4, <2>7, <2>8
    <3>2. \A j \in keys'[q] : taskOf'[j] \in target'[q]
      BY <2>3, <2>4, <2>5, <2>8
    <3>3. \A o \in Req \ {q} : keys'[q] \cap keys'[o] = {}
      BY <2>1, <2>4, <2>8
    <3> QED
      BY <3>1, <3>2, <3>3
  <2>9. CASE q # r
    <3>1. keys[q] \subseteq Key /\ k \notin keys[q] /\ keys'[q] = keys[q]
      BY <2>1, <2>4, <2>9
    <3>2. pc[q] \in {"up_stored", "up_flushed"}
      BY <2>6, <2>9
    <3>3. keys'[q] \subseteq objects' \ rows'
      BY <2>3, <2>7, <3>1, <3>2
    <3>4. \A j \in keys'[q] : taskOf'[j] \in target'[q]
      BY <2>3, <2>5, <3>1, <3>2
    <3>5. \A o \in Req \ {q} : keys'[q] \cap keys'[o] = {}
      BY <2>4, <3>1, <3>2
    <3> QED
      BY <3>3, <3>4, <3>5
  <2> QED
    BY <2>8, <2>9
<1>5. ASSUME NEW r \in Req, FlushUpload(r) PROVE UploadOwns'
  BY <1>5 DEF FlushUpload, Goto
<1>6. ASSUME NEW r \in Req, CommitUpload(r) PROVE UploadOwns'
  BY <1>6 DEF CommitUpload, Goto
<1>7. ASSUME NEW r \in Req, RefreshUpload(r) PROVE UploadOwns'
  BY <1>7 DEF RefreshUpload, Goto
<1>8. ASSUME NEW r \in Req, AnnounceUpload(r) PROVE UploadOwns'
  BY <1>8 DEF AnnounceUpload, Announce, Goto
<1>9. ASSUME NEW r \in Req, FlushRemove(r) PROVE UploadOwns'
  BY <1>9 DEF FlushRemove, Goto
<1>10. ASSUME NEW r \in Req, CommitRemove(r) PROVE UploadOwns'
  BY <1>10 DEF CommitRemove, Goto
<1>11. ASSUME NEW r \in Req, DeleteObject(r) PROVE UploadOwns'
  BY <1>11 DEF DeleteObject, Goto
<1>12. ASSUME NEW r \in Req, AnnounceRemove(r) PROVE UploadOwns'
  BY <1>12 DEF AnnounceRemove, Announce, Goto
<1>13. ASSUME NEW r \in Req, ListAttachments(r) PROVE UploadOwns'
  BY <1>13 DEF ListAttachments, Goto
<1>14. ASSUME NEW r \in Req, Purge(r) PROVE UploadOwns'
  BY <1>14 DEF Purge, Goto
<1>15. ASSUME NEW r \in Req, FlushDelete(r) PROVE UploadOwns'
  BY <1>15 DEF FlushDelete, Goto
<1>16. ASSUME NEW r \in Req, CommitDelete(r) PROVE UploadOwns'
  BY <1>16 DEF CommitDelete, Goto
<1>17. ASSUME NEW r \in Req, AnnounceDelete(r) PROVE UploadOwns'
  BY <1>17 DEF AnnounceDelete, Announce, Goto
<1>18. ASSUME NEW r \in Req, StorageRaises(r) PROVE UploadOwns'
  BY <1>18 DEF StorageRaises
<1>19. ASSUME NEW r \in Req, PurgeRaises(r) PROVE UploadOwns'
  BY <1>19 DEF PurgeRaises, Goto
<1>20. ASSUME NEW r \in Req, Abort(r) PROVE UploadOwns'
  BY <1>20 DEF Abort
<1>21. CASE UNCHANGED vars
  BY <1>21 DEF vars
<1> QED
  BY <1>1, <1>2, <1>3, <1>4, <1>5, <1>6, <1>7, <1>8, <1>9, <1>10, <1>11,
     <1>12, <1>13, <1>14, <1>15, <1>16, <1>17, <1>18, <1>19, <1>20, <1>21
     DEF Next, Begin, Proceed

(* A removed row does not come back, because only its own upload inserts   *)
(* it; nor does its object, because keys are fresh.                        *)
LEMMA RemoverKnowsStep ==
  Typed /\ UploadOwns /\ RemoverKnows /\ [Next]_vars => RemoverKnows'
<1> USE SubtreeAssumption
<1> USE DEF Typed, TypeOK, UploadOwns, RemoverKnows
<1> SUFFICES ASSUME Typed, UploadOwns, RemoverKnows,
                    [Next]_vars PROVE RemoverKnows'
  OBVIOUS
<1>1. ASSUME NEW r \in Req, NEW t \in Task, StartUpload(r, t) PROVE RemoverKnows'
  BY <1>1 DEF StartUpload, Goto
<1>2. ASSUME NEW r \in Req, NEW k \in Key, StartRemove(r, k) PROVE RemoverKnows'
  BY <1>2 DEF StartRemove, Goto
<1>3. ASSUME NEW r \in Req, NEW t \in Task, StartDelete(r, t) PROVE RemoverKnows'
  BY <1>3 DEF StartDelete, Goto
<1>4. ASSUME NEW r \in Req, NEW k \in Key, Put(r, k) PROVE RemoverKnows'
  BY <1>4 DEF Put, Goto
<1>5. ASSUME NEW r \in Req, FlushUpload(r) PROVE RemoverKnows'
  BY <1>5 DEF FlushUpload, Goto
<1>6. ASSUME NEW r \in Req, CommitUpload(r) PROVE RemoverKnows'
  BY <1>6 DEF CommitUpload, Goto
<1>7. ASSUME NEW r \in Req, RefreshUpload(r) PROVE RemoverKnows'
  BY <1>7 DEF RefreshUpload, Goto
<1>8. ASSUME NEW r \in Req, AnnounceUpload(r) PROVE RemoverKnows'
  BY <1>8 DEF AnnounceUpload, Announce, Goto
<1>9. ASSUME NEW r \in Req, FlushRemove(r) PROVE RemoverKnows'
  BY <1>9 DEF FlushRemove, Goto
<1>10. ASSUME NEW r \in Req, CommitRemove(r) PROVE RemoverKnows'
  BY <1>10 DEF CommitRemove, Goto
<1>11. ASSUME NEW r \in Req, DeleteObject(r) PROVE RemoverKnows'
  BY <1>11 DEF DeleteObject, Goto
<1>12. ASSUME NEW r \in Req, AnnounceRemove(r) PROVE RemoverKnows'
  BY <1>12 DEF AnnounceRemove, Announce, Goto
<1>13. ASSUME NEW r \in Req, ListAttachments(r) PROVE RemoverKnows'
  BY <1>13 DEF ListAttachments, Goto
<1>14. ASSUME NEW r \in Req, Purge(r) PROVE RemoverKnows'
  BY <1>14 DEF Purge, Goto
<1>15. ASSUME NEW r \in Req, FlushDelete(r) PROVE RemoverKnows'
  BY <1>15 DEF FlushDelete, Goto
<1>16. ASSUME NEW r \in Req, CommitDelete(r) PROVE RemoverKnows'
  BY <1>16 DEF CommitDelete, Goto
<1>17. ASSUME NEW r \in Req, AnnounceDelete(r) PROVE RemoverKnows'
  BY <1>17 DEF AnnounceDelete, Announce, Goto
<1>18. ASSUME NEW r \in Req, StorageRaises(r) PROVE RemoverKnows'
  BY <1>18 DEF StorageRaises
<1>19. ASSUME NEW r \in Req, PurgeRaises(r) PROVE RemoverKnows'
  BY <1>19 DEF PurgeRaises, Goto
<1>20. ASSUME NEW r \in Req, Abort(r) PROVE RemoverKnows'
  BY <1>20 DEF Abort
<1>21. CASE UNCHANGED vars
  BY <1>21 DEF vars
<1> QED
  BY <1>1, <1>2, <1>3, <1>4, <1>5, <1>6, <1>7, <1>8, <1>9, <1>10, <1>11,
     <1>12, <1>13, <1>14, <1>15, <1>16, <1>17, <1>18, <1>19, <1>20, <1>21
     DEF Next, Begin, Proceed

(* A key never changes its task, and an object is put only once.           *)
LEMMA DeleterKnowsStep ==
  Typed /\ DeleterKnows /\ [Next]_vars => DeleterKnows'
<1> USE SubtreeAssumption
<1> USE DEF Typed, TypeOK, DeleterKnows, RowsOf, Finished
<1> SUFFICES ASSUME Typed, DeleterKnows, [Next]_vars PROVE DeleterKnows'
  OBVIOUS
<1>1. ASSUME NEW r \in Req, NEW t \in Task, StartUpload(r, t) PROVE DeleterKnows'
  BY <1>1 DEF StartUpload, Goto
<1>2. ASSUME NEW r \in Req, NEW k \in Key, StartRemove(r, k) PROVE DeleterKnows'
  BY <1>2 DEF StartRemove, Goto
<1>3. ASSUME NEW r \in Req, NEW t \in Task, StartDelete(r, t) PROVE DeleterKnows'
  BY <1>3 DEF StartDelete, Goto
<1>4. ASSUME NEW r \in Req, NEW k \in Key, Put(r, k) PROVE DeleterKnows'
  BY <1>4 DEF Put, Goto
<1>5. ASSUME NEW r \in Req, FlushUpload(r) PROVE DeleterKnows'
  BY <1>5 DEF FlushUpload, Goto
<1>6. ASSUME NEW r \in Req, CommitUpload(r) PROVE DeleterKnows'
  BY <1>6 DEF CommitUpload, Goto
<1>7. ASSUME NEW r \in Req, RefreshUpload(r) PROVE DeleterKnows'
  BY <1>7 DEF RefreshUpload, Goto
<1>8. ASSUME NEW r \in Req, AnnounceUpload(r) PROVE DeleterKnows'
  BY <1>8 DEF AnnounceUpload, Announce, Goto
<1>9. ASSUME NEW r \in Req, FlushRemove(r) PROVE DeleterKnows'
  BY <1>9 DEF FlushRemove, Goto
<1>10. ASSUME NEW r \in Req, CommitRemove(r) PROVE DeleterKnows'
  BY <1>10 DEF CommitRemove, Goto
<1>11. ASSUME NEW r \in Req, DeleteObject(r) PROVE DeleterKnows'
  BY <1>11 DEF DeleteObject, Goto
<1>12. ASSUME NEW r \in Req, AnnounceRemove(r) PROVE DeleterKnows'
  BY <1>12 DEF AnnounceRemove, Announce, Goto
<1>13. ASSUME NEW r \in Req, ListAttachments(r) PROVE DeleterKnows'
  BY <1>13 DEF ListAttachments, Goto
<1>14. ASSUME NEW r \in Req, Purge(r) PROVE DeleterKnows'
  BY <1>14 DEF Purge, Goto
<1>15. ASSUME NEW r \in Req, FlushDelete(r) PROVE DeleterKnows'
  BY <1>15 DEF FlushDelete, Goto
<1>16. ASSUME NEW r \in Req, CommitDelete(r) PROVE DeleterKnows'
  BY <1>16 DEF CommitDelete, Goto
<1>17. ASSUME NEW r \in Req, AnnounceDelete(r) PROVE DeleterKnows'
  BY <1>17 DEF AnnounceDelete, Announce, Goto
<1>18. ASSUME NEW r \in Req, StorageRaises(r) PROVE DeleterKnows'
  BY <1>18 DEF StorageRaises
<1>19. ASSUME NEW r \in Req, PurgeRaises(r) PROVE DeleterKnows'
  BY <1>19 DEF PurgeRaises, Goto
<1>20. ASSUME NEW r \in Req, Abort(r) PROVE DeleterKnows'
  BY <1>20 DEF Abort
<1>21. CASE UNCHANGED vars
  BY <1>21 DEF vars
<1> QED
  BY <1>1, <1>2, <1>3, <1>4, <1>5, <1>6, <1>7, <1>8, <1>9, <1>10, <1>11,
     <1>12, <1>13, <1>14, <1>15, <1>16, <1>17, <1>18, <1>19, <1>20, <1>21
     DEF Next, Begin, Proceed

(* No two requests hold conflicting locks of a task, so no task goes away  *)
(* under a request that shares its lock.                                   *)
LEMMA LocksStep ==
  Typed /\ Locks /\ [Next]_vars => Locks'
<1> USE SubtreeAssumption
<1> USE DEF Typed, TypeOK, Targets, Locks, Sharing, Excluding, ShareFree,
            ExcludeFree, Doomed
<1> SUFFICES ASSUME Typed, Locks, [Next]_vars PROVE Locks'
  OBVIOUS
<1>1. ASSUME NEW r \in Req, NEW t \in Task, StartUpload(r, t) PROVE Locks'
  BY <1>1 DEF StartUpload, Goto
<1>2. ASSUME NEW r \in Req, NEW k \in Key, StartRemove(r, k) PROVE Locks'
  BY <1>2 DEF StartRemove, Goto
<1>3. ASSUME NEW r \in Req, NEW t \in Task, StartDelete(r, t) PROVE Locks'
  BY <1>3 DEF StartDelete, Goto
<1>4. ASSUME NEW r \in Req, NEW k \in Key, Put(r, k) PROVE Locks'
  BY <1>4 DEF Put, Goto
<1>5. ASSUME NEW r \in Req, FlushUpload(r) PROVE Locks'
  BY <1>5 DEF FlushUpload, Goto
<1>6. ASSUME NEW r \in Req, CommitUpload(r) PROVE Locks'
  BY <1>6 DEF CommitUpload, Goto
<1>7. ASSUME NEW r \in Req, RefreshUpload(r) PROVE Locks'
  BY <1>7 DEF RefreshUpload, Goto
<1>8. ASSUME NEW r \in Req, AnnounceUpload(r) PROVE Locks'
  BY <1>8 DEF AnnounceUpload, Announce, Goto
<1>9. ASSUME NEW r \in Req, FlushRemove(r) PROVE Locks'
  BY <1>9 DEF FlushRemove, Goto
<1>10. ASSUME NEW r \in Req, CommitRemove(r) PROVE Locks'
  BY <1>10 DEF CommitRemove, Goto
<1>11. ASSUME NEW r \in Req, DeleteObject(r) PROVE Locks'
  BY <1>11 DEF DeleteObject, Goto
<1>12. ASSUME NEW r \in Req, AnnounceRemove(r) PROVE Locks'
  BY <1>12 DEF AnnounceRemove, Announce, Goto
<1>13. ASSUME NEW r \in Req, ListAttachments(r) PROVE Locks'
  BY <1>13 DEF ListAttachments, Goto
<1>14. ASSUME NEW r \in Req, Purge(r) PROVE Locks'
  BY <1>14 DEF Purge, Goto
<1>15. ASSUME NEW r \in Req, FlushDelete(r) PROVE Locks'
  BY <1>15 DEF FlushDelete, Goto
<1>16. ASSUME NEW r \in Req, CommitDelete(r) PROVE Locks'
  BY <1>16 DEF CommitDelete, Goto
<1>17. ASSUME NEW r \in Req, AnnounceDelete(r) PROVE Locks'
  BY <1>17 DEF AnnounceDelete, Announce, Goto
<1>18. ASSUME NEW r \in Req, StorageRaises(r) PROVE Locks'
  BY <1>18 DEF StorageRaises
<1>19. ASSUME NEW r \in Req, PurgeRaises(r) PROVE Locks'
  BY <1>19 DEF PurgeRaises, Goto
<1>20. ASSUME NEW r \in Req, Abort(r) PROVE Locks'
  BY <1>20 DEF Abort
<1>21. CASE UNCHANGED vars
  BY <1>21 DEF vars
<1> QED
  BY <1>1, <1>2, <1>3, <1>4, <1>5, <1>6, <1>7, <1>8, <1>9, <1>10, <1>11,
     <1>12, <1>13, <1>14, <1>15, <1>16, <1>17, <1>18, <1>19, <1>20, <1>21
     DEF Next, Begin, Proceed

(* The rows of deleted tasks go with them, and the lock keeps the task of  *)
(* an upload that commits.                                                 *)
LEMMA RowsHaveTasksStep ==
  Typed /\ UploadOwns /\ Locks /\ RowsHaveTasks /\ [Next]_vars => RowsHaveTasks'
<1> USE SubtreeAssumption
<1> USE DEF Typed, TypeOK, UploadOwns, Locks, Sharing, RowsHaveTasks,
            RowsOf
<1> SUFFICES ASSUME Typed, UploadOwns, Locks, RowsHaveTasks,
                    [Next]_vars PROVE RowsHaveTasks'
  OBVIOUS
<1>1. ASSUME NEW r \in Req, NEW t \in Task, StartUpload(r, t) PROVE RowsHaveTasks'
  BY <1>1 DEF StartUpload, Goto
<1>2. ASSUME NEW r \in Req, NEW k \in Key, StartRemove(r, k) PROVE RowsHaveTasks'
  BY <1>2 DEF StartRemove, Goto
<1>3. ASSUME NEW r \in Req, NEW t \in Task, StartDelete(r, t) PROVE RowsHaveTasks'
  BY <1>3 DEF StartDelete, Goto
<1>4. ASSUME NEW r \in Req, NEW k \in Key, Put(r, k) PROVE RowsHaveTasks'
  BY <1>4 DEF Put, Goto
<1>5. ASSUME NEW r \in Req, FlushUpload(r) PROVE RowsHaveTasks'
  BY <1>5 DEF FlushUpload, Goto
<1>6. ASSUME NEW r \in Req, CommitUpload(r) PROVE RowsHaveTasks'
  BY <1>6 DEF CommitUpload, Goto
<1>7. ASSUME NEW r \in Req, RefreshUpload(r) PROVE RowsHaveTasks'
  BY <1>7 DEF RefreshUpload, Goto
<1>8. ASSUME NEW r \in Req, AnnounceUpload(r) PROVE RowsHaveTasks'
  BY <1>8 DEF AnnounceUpload, Announce, Goto
<1>9. ASSUME NEW r \in Req, FlushRemove(r) PROVE RowsHaveTasks'
  BY <1>9 DEF FlushRemove, Goto
<1>10. ASSUME NEW r \in Req, CommitRemove(r) PROVE RowsHaveTasks'
  BY <1>10 DEF CommitRemove, Goto
<1>11. ASSUME NEW r \in Req, DeleteObject(r) PROVE RowsHaveTasks'
  BY <1>11 DEF DeleteObject, Goto
<1>12. ASSUME NEW r \in Req, AnnounceRemove(r) PROVE RowsHaveTasks'
  BY <1>12 DEF AnnounceRemove, Announce, Goto
<1>13. ASSUME NEW r \in Req, ListAttachments(r) PROVE RowsHaveTasks'
  BY <1>13 DEF ListAttachments, Goto
<1>14. ASSUME NEW r \in Req, Purge(r) PROVE RowsHaveTasks'
  BY <1>14 DEF Purge, Goto
<1>15. ASSUME NEW r \in Req, FlushDelete(r) PROVE RowsHaveTasks'
  BY <1>15 DEF FlushDelete, Goto
<1>16. ASSUME NEW r \in Req, CommitDelete(r) PROVE RowsHaveTasks'
  BY <1>16 DEF CommitDelete, Goto
<1>17. ASSUME NEW r \in Req, AnnounceDelete(r) PROVE RowsHaveTasks'
  BY <1>17 DEF AnnounceDelete, Announce, Goto
<1>18. ASSUME NEW r \in Req, StorageRaises(r) PROVE RowsHaveTasks'
  BY <1>18 DEF StorageRaises
<1>19. ASSUME NEW r \in Req, PurgeRaises(r) PROVE RowsHaveTasks'
  BY <1>19 DEF PurgeRaises, Goto
<1>20. ASSUME NEW r \in Req, Abort(r) PROVE RowsHaveTasks'
  BY <1>20 DEF Abort
<1>21. CASE UNCHANGED vars
  BY <1>21 DEF vars
<1> QED
  BY <1>1, <1>2, <1>3, <1>4, <1>5, <1>6, <1>7, <1>8, <1>9, <1>10, <1>11,
     <1>12, <1>13, <1>14, <1>15, <1>16, <1>17, <1>18, <1>19, <1>20, <1>21
     DEF Next, Begin, Proceed

(* What has been announced as removed stays removed.                       *)
LEMMA RemovedStep ==
  Typed /\ UploadOwns /\ RemoverKnows /\ RemovedInv /\ [Next]_vars => RemovedInv'
<1> USE SubtreeAssumption
<1> USE DEF Typed, TypeOK, UploadOwns, RemoverKnows, RemovedInv,
            AnnouncedWasUsed, RemovedMeansGone, Added, Removed, Deleted
<1> SUFFICES ASSUME Typed, UploadOwns, RemoverKnows, RemovedInv,
                    [Next]_vars PROVE RemovedInv'
  OBVIOUS
<1>1. ASSUME NEW r \in Req, NEW t \in Task, StartUpload(r, t) PROVE RemovedInv'
  BY <1>1 DEF StartUpload, Goto
<1>2. ASSUME NEW r \in Req, NEW k \in Key, StartRemove(r, k) PROVE RemovedInv'
  BY <1>2 DEF StartRemove, Goto
<1>3. ASSUME NEW r \in Req, NEW t \in Task, StartDelete(r, t) PROVE RemovedInv'
  BY <1>3 DEF StartDelete, Goto
<1>4. ASSUME NEW r \in Req, NEW k \in Key, Put(r, k) PROVE RemovedInv'
  BY <1>4 DEF Put, Goto
<1>5. ASSUME NEW r \in Req, FlushUpload(r) PROVE RemovedInv'
  BY <1>5 DEF FlushUpload, Goto
<1>6. ASSUME NEW r \in Req, CommitUpload(r) PROVE RemovedInv'
  BY <1>6 DEF CommitUpload, Goto
<1>7. ASSUME NEW r \in Req, RefreshUpload(r) PROVE RemovedInv'
  BY <1>7 DEF RefreshUpload, Goto
<1>8. ASSUME NEW r \in Req, AnnounceUpload(r) PROVE RemovedInv'
  BY <1>8 DEF AnnounceUpload, Announce, Goto
<1>9. ASSUME NEW r \in Req, FlushRemove(r) PROVE RemovedInv'
  BY <1>9 DEF FlushRemove, Goto
<1>10. ASSUME NEW r \in Req, CommitRemove(r) PROVE RemovedInv'
  BY <1>10 DEF CommitRemove, Goto
<1>11. ASSUME NEW r \in Req, DeleteObject(r) PROVE RemovedInv'
  BY <1>11 DEF DeleteObject, Goto
<1>12. ASSUME NEW r \in Req, AnnounceRemove(r) PROVE RemovedInv'
  <2>1. keys[r] \cap (rows \cup objects) = {} /\ keys[r] \subseteq used
    BY <1>12 DEF AnnounceRemove, Announce, Goto
  <2>2. ASSUME NEW k \in Key, Removed(k) \in announced', Removed(k) \notin announced
        PROVE  k \in keys[r]
    BY <1>12, <2>2 DEF AnnounceRemove, Announce
  <2> QED
    BY <1>12, <2>1, <2>2 DEF AnnounceRemove, Announce
<1>13. ASSUME NEW r \in Req, ListAttachments(r) PROVE RemovedInv'
  BY <1>13 DEF ListAttachments, Goto
<1>14. ASSUME NEW r \in Req, Purge(r) PROVE RemovedInv'
  BY <1>14 DEF Purge, Goto
<1>15. ASSUME NEW r \in Req, FlushDelete(r) PROVE RemovedInv'
  BY <1>15 DEF FlushDelete, Goto
<1>16. ASSUME NEW r \in Req, CommitDelete(r) PROVE RemovedInv'
  BY <1>16 DEF CommitDelete, Goto
<1>17. ASSUME NEW r \in Req, AnnounceDelete(r) PROVE RemovedInv'
  BY <1>17 DEF AnnounceDelete, Announce, Goto
<1>18. ASSUME NEW r \in Req, StorageRaises(r) PROVE RemovedInv'
  BY <1>18 DEF StorageRaises
<1>19. ASSUME NEW r \in Req, PurgeRaises(r) PROVE RemovedInv'
  BY <1>19 DEF PurgeRaises, Goto
<1>20. ASSUME NEW r \in Req, Abort(r) PROVE RemovedInv'
  BY <1>20 DEF Abort
<1>21. CASE UNCHANGED vars
  BY <1>21 DEF vars
<1> QED
  BY <1>1, <1>2, <1>3, <1>4, <1>5, <1>6, <1>7, <1>8, <1>9, <1>10, <1>11,
     <1>12, <1>13, <1>14, <1>15, <1>16, <1>17, <1>18, <1>19, <1>20, <1>21
     DEF Next, Begin, Proceed

(* A deleted task stays deleted, with its subtasks.                        *)
LEMMA DeletedStep ==
  Typed /\ DeletedStaysDeleted /\ [Next]_vars => DeletedStaysDeleted'
<1> USE SubtreeAssumption
<1> USE DEF Typed, TypeOK, Targets, DeletedStaysDeleted, Doomed, Added,
            Removed, Deleted
<1> SUFFICES ASSUME Typed, DeletedStaysDeleted,
                    [Next]_vars PROVE DeletedStaysDeleted'
  OBVIOUS
<1>1. ASSUME NEW r \in Req, NEW t \in Task, StartUpload(r, t) PROVE DeletedStaysDeleted'
  BY <1>1 DEF StartUpload, Goto
<1>2. ASSUME NEW r \in Req, NEW k \in Key, StartRemove(r, k) PROVE DeletedStaysDeleted'
  BY <1>2 DEF StartRemove, Goto
<1>3. ASSUME NEW r \in Req, NEW t \in Task, StartDelete(r, t) PROVE DeletedStaysDeleted'
  BY <1>3 DEF StartDelete, Goto
<1>4. ASSUME NEW r \in Req, NEW k \in Key, Put(r, k) PROVE DeletedStaysDeleted'
  BY <1>4 DEF Put, Goto
<1>5. ASSUME NEW r \in Req, FlushUpload(r) PROVE DeletedStaysDeleted'
  BY <1>5 DEF FlushUpload, Goto
<1>6. ASSUME NEW r \in Req, CommitUpload(r) PROVE DeletedStaysDeleted'
  BY <1>6 DEF CommitUpload, Goto
<1>7. ASSUME NEW r \in Req, RefreshUpload(r) PROVE DeletedStaysDeleted'
  BY <1>7 DEF RefreshUpload, Goto
<1>8. ASSUME NEW r \in Req, AnnounceUpload(r) PROVE DeletedStaysDeleted'
  BY <1>8 DEF AnnounceUpload, Announce, Goto
<1>9. ASSUME NEW r \in Req, FlushRemove(r) PROVE DeletedStaysDeleted'
  BY <1>9 DEF FlushRemove, Goto
<1>10. ASSUME NEW r \in Req, CommitRemove(r) PROVE DeletedStaysDeleted'
  BY <1>10 DEF CommitRemove, Goto
<1>11. ASSUME NEW r \in Req, DeleteObject(r) PROVE DeletedStaysDeleted'
  BY <1>11 DEF DeleteObject, Goto
<1>12. ASSUME NEW r \in Req, AnnounceRemove(r) PROVE DeletedStaysDeleted'
  BY <1>12 DEF AnnounceRemove, Announce, Goto
<1>13. ASSUME NEW r \in Req, ListAttachments(r) PROVE DeletedStaysDeleted'
  BY <1>13 DEF ListAttachments, Goto
<1>14. ASSUME NEW r \in Req, Purge(r) PROVE DeletedStaysDeleted'
  BY <1>14 DEF Purge, Goto
<1>15. ASSUME NEW r \in Req, FlushDelete(r) PROVE DeletedStaysDeleted'
  BY <1>15 DEF FlushDelete, Goto
<1>16. ASSUME NEW r \in Req, CommitDelete(r) PROVE DeletedStaysDeleted'
  BY <1>16 DEF CommitDelete, Goto
<1>17. ASSUME NEW r \in Req, AnnounceDelete(r) PROVE DeletedStaysDeleted'
  <2>1. tasks \cap Doomed(r) = {} /\ tasks' = tasks
    BY <1>17 DEF AnnounceDelete, Announce, Goto
  <2>2. ASSUME NEW t \in Task, Deleted(t) \in announced'
        PROVE  tasks' \cap Subtree[t] = {}
    <3>1. CASE Deleted(t) \in announced
      BY <2>1, <3>1
    <3>2. CASE Deleted(t) \notin announced
      <4>1. PICK s \in target[r] : Deleted(t) = Deleted(s)
        BY <1>17, <2>2, <3>2 DEF AnnounceDelete, Announce
      <4>2. t = s
        BY <4>1
      <4>3. Subtree[t] \subseteq Doomed(r)
        BY <4>1, <4>2
      <4> QED
        BY <2>1, <4>3
    <3> QED
      BY <3>1, <3>2
  <2> QED
    BY <1>17, <2>2 DEF AnnounceDelete, Announce, Goto
<1>18. ASSUME NEW r \in Req, StorageRaises(r) PROVE DeletedStaysDeleted'
  BY <1>18 DEF StorageRaises
<1>19. ASSUME NEW r \in Req, PurgeRaises(r) PROVE DeletedStaysDeleted'
  BY <1>19 DEF PurgeRaises, Goto
<1>20. ASSUME NEW r \in Req, Abort(r) PROVE DeletedStaysDeleted'
  BY <1>20 DEF Abort
<1>21. CASE UNCHANGED vars
  BY <1>21 DEF vars
<1> QED
  BY <1>1, <1>2, <1>3, <1>4, <1>5, <1>6, <1>7, <1>8, <1>9, <1>10, <1>11,
     <1>12, <1>13, <1>14, <1>15, <1>16, <1>17, <1>18, <1>19, <1>20, <1>21
     DEF Next, Begin, Proceed

(* Only a purge takes the object of a committed row away; when its         *)
(* deletion commits, the row is gone too.                                  *)
LEMMA DanglingStep ==
  Typed /\ UploadOwns /\ RemoverKnows /\ DeleterKnows /\ DanglingOnlyByTaskDeletion /\ [Next]_vars => DanglingOnlyByTaskDeletion'
<1> USE SubtreeAssumption
<1> USE DEF Typed, TypeOK, UploadOwns, RemoverKnows, DeleterKnows,
            DanglingOnlyByTaskDeletion, RowsOf, Doomed, Finished
<1> SUFFICES ASSUME Typed, UploadOwns, RemoverKnows, DeleterKnows,
                    DanglingOnlyByTaskDeletion,
                    [Next]_vars PROVE DanglingOnlyByTaskDeletion'
  OBVIOUS
<1>1. ASSUME NEW r \in Req, NEW t \in Task, StartUpload(r, t) PROVE DanglingOnlyByTaskDeletion'
  BY <1>1 DEF StartUpload, Goto
<1>2. ASSUME NEW r \in Req, NEW k \in Key, StartRemove(r, k) PROVE DanglingOnlyByTaskDeletion'
  BY <1>2 DEF StartRemove, Goto
<1>3. ASSUME NEW r \in Req, NEW t \in Task, StartDelete(r, t) PROVE DanglingOnlyByTaskDeletion'
  BY <1>3 DEF StartDelete, Goto
<1>4. ASSUME NEW r \in Req, NEW k \in Key, Put(r, k) PROVE DanglingOnlyByTaskDeletion'
  BY <1>4 DEF Put, Goto
<1>5. ASSUME NEW r \in Req, FlushUpload(r) PROVE DanglingOnlyByTaskDeletion'
  BY <1>5 DEF FlushUpload, Goto
<1>6. ASSUME NEW r \in Req, CommitUpload(r) PROVE DanglingOnlyByTaskDeletion'
  BY <1>6 DEF CommitUpload, Goto
<1>7. ASSUME NEW r \in Req, RefreshUpload(r) PROVE DanglingOnlyByTaskDeletion'
  BY <1>7 DEF RefreshUpload, Goto
<1>8. ASSUME NEW r \in Req, AnnounceUpload(r) PROVE DanglingOnlyByTaskDeletion'
  BY <1>8 DEF AnnounceUpload, Announce, Goto
<1>9. ASSUME NEW r \in Req, FlushRemove(r) PROVE DanglingOnlyByTaskDeletion'
  BY <1>9 DEF FlushRemove, Goto
<1>10. ASSUME NEW r \in Req, CommitRemove(r) PROVE DanglingOnlyByTaskDeletion'
  BY <1>10 DEF CommitRemove, Goto
<1>11. ASSUME NEW r \in Req, DeleteObject(r) PROVE DanglingOnlyByTaskDeletion'
  BY <1>11 DEF DeleteObject, Goto
<1>12. ASSUME NEW r \in Req, AnnounceRemove(r) PROVE DanglingOnlyByTaskDeletion'
  BY <1>12 DEF AnnounceRemove, Announce, Goto
<1>13. ASSUME NEW r \in Req, ListAttachments(r) PROVE DanglingOnlyByTaskDeletion'
  BY <1>13 DEF ListAttachments, Goto
<1>14. ASSUME NEW r \in Req, Purge(r) PROVE DanglingOnlyByTaskDeletion'
  BY <1>14 DEF Purge, Goto
<1>15. ASSUME NEW r \in Req, FlushDelete(r) PROVE DanglingOnlyByTaskDeletion'
  BY <1>15 DEF FlushDelete, Goto
<1>16. ASSUME NEW r \in Req, CommitDelete(r) PROVE DanglingOnlyByTaskDeletion'
  BY <1>16 DEF CommitDelete, Goto
<1>17. ASSUME NEW r \in Req, AnnounceDelete(r) PROVE DanglingOnlyByTaskDeletion'
  BY <1>17 DEF AnnounceDelete, Announce, Goto
<1>18. ASSUME NEW r \in Req, StorageRaises(r) PROVE DanglingOnlyByTaskDeletion'
  BY <1>18 DEF StorageRaises
<1>19. ASSUME NEW r \in Req, PurgeRaises(r) PROVE DanglingOnlyByTaskDeletion'
  BY <1>19 DEF PurgeRaises, Goto
<1>20. ASSUME NEW r \in Req, Abort(r) PROVE DanglingOnlyByTaskDeletion'
  BY <1>20 DEF Abort
<1>21. CASE UNCHANGED vars
  BY <1>21 DEF vars
<1> QED
  BY <1>1, <1>2, <1>3, <1>4, <1>5, <1>6, <1>7, <1>8, <1>9, <1>10, <1>11,
     <1>12, <1>13, <1>14, <1>15, <1>16, <1>17, <1>18, <1>19, <1>20, <1>21
     DEF Next, Begin, Proceed

(* Every step that leaves an object without a row leaves the request that  *)
(* did it as a witness, and a witness stays one.                           *)
LEMMA OrphanStep ==
  Typed /\ UploadOwns /\ DeleterKnows /\ OrphanAccounted /\ [Next]_vars => OrphanAccounted'
<1> USE SubtreeAssumption
<1> USE DEF Typed, TypeOK, UploadOwns, DeleterKnows, OrphanAccounted,
            RowsOf, Doomed, Finished
<1> SUFFICES ASSUME Typed, UploadOwns, DeleterKnows, OrphanAccounted,
                    [Next]_vars PROVE OrphanAccounted'
  OBVIOUS
<1>1. ASSUME NEW r \in Req, NEW t \in Task, StartUpload(r, t) PROVE OrphanAccounted'
  BY <1>1 DEF StartUpload, Goto
<1>2. ASSUME NEW r \in Req, NEW k \in Key, StartRemove(r, k) PROVE OrphanAccounted'
  BY <1>2 DEF StartRemove, Goto
<1>3. ASSUME NEW r \in Req, NEW t \in Task, StartDelete(r, t) PROVE OrphanAccounted'
  BY <1>3 DEF StartDelete, Goto
<1>4. ASSUME NEW r \in Req, NEW k \in Key, Put(r, k) PROVE OrphanAccounted'
  BY <1>4 DEF Put, Goto
<1>5. ASSUME NEW r \in Req, FlushUpload(r) PROVE OrphanAccounted'
  BY <1>5 DEF FlushUpload, Goto
<1>6. ASSUME NEW r \in Req, CommitUpload(r) PROVE OrphanAccounted'
  BY <1>6 DEF CommitUpload, Goto
<1>7. ASSUME NEW r \in Req, RefreshUpload(r) PROVE OrphanAccounted'
  BY <1>7 DEF RefreshUpload, Goto
<1>8. ASSUME NEW r \in Req, AnnounceUpload(r) PROVE OrphanAccounted'
  BY <1>8 DEF AnnounceUpload, Announce, Goto
<1>9. ASSUME NEW r \in Req, FlushRemove(r) PROVE OrphanAccounted'
  BY <1>9 DEF FlushRemove, Goto
<1>10. ASSUME NEW r \in Req, CommitRemove(r) PROVE OrphanAccounted'
  BY <1>10 DEF CommitRemove, Goto
<1>11. ASSUME NEW r \in Req, DeleteObject(r) PROVE OrphanAccounted'
  BY <1>11 DEF DeleteObject, Goto
<1>12. ASSUME NEW r \in Req, AnnounceRemove(r) PROVE OrphanAccounted'
  BY <1>12 DEF AnnounceRemove, Announce, Goto
<1>13. ASSUME NEW r \in Req, ListAttachments(r) PROVE OrphanAccounted'
  BY <1>13 DEF ListAttachments, Goto
<1>14. ASSUME NEW r \in Req, Purge(r) PROVE OrphanAccounted'
  BY <1>14 DEF Purge, Goto
<1>15. ASSUME NEW r \in Req, FlushDelete(r) PROVE OrphanAccounted'
  BY <1>15 DEF FlushDelete, Goto
<1>16. ASSUME NEW r \in Req, CommitDelete(r) PROVE OrphanAccounted'
  BY <1>16 DEF CommitDelete, Goto
<1>17. ASSUME NEW r \in Req, AnnounceDelete(r) PROVE OrphanAccounted'
  BY <1>17 DEF AnnounceDelete, Announce, Goto
<1>18. ASSUME NEW r \in Req, StorageRaises(r) PROVE OrphanAccounted'
  BY <1>18 DEF StorageRaises
<1>19. ASSUME NEW r \in Req, PurgeRaises(r) PROVE OrphanAccounted'
  BY <1>19 DEF PurgeRaises, Goto
<1>20. ASSUME NEW r \in Req, Abort(r) PROVE OrphanAccounted'
  BY <1>20 DEF Abort
<1>21. CASE UNCHANGED vars
  BY <1>21 DEF vars
<1> QED
  BY <1>1, <1>2, <1>3, <1>4, <1>5, <1>6, <1>7, <1>8, <1>9, <1>10, <1>11,
     <1>12, <1>13, <1>14, <1>15, <1>16, <1>17, <1>18, <1>19, <1>20, <1>21
     DEF Next, Begin, Proceed

-----------------------------------------------------------------------------
(* The theorems.                                                           *)

(* Initially every attachment has its row, its object and its task.        *)
LEMMA InitIInv == Init => IInv
<1> SUFFICES ASSUME Init PROVE IInv
  OBVIOUS
<1>1. Typed
  BY DEF Init, Typed, TypeOK, Targets, Step
<1>2. UploadOwns /\ RemoverKnows /\ DeleterKnows /\ Locks
  BY DEF Init, UploadOwns, RemoverKnows, DeleterKnows, Locks, Sharing, Excluding
<1>3. RowsHaveTasks
  BY DEF Init, RowsHaveTasks
<1>4. RemovedInv /\ DeletedStaysDeleted
  BY DEF Init, RemovedInv, AnnouncedWasUsed, RemovedMeansGone, DeletedStaysDeleted
<1>5. DanglingOnlyByTaskDeletion /\ OrphanAccounted
  BY DEF Init, DanglingOnlyByTaskDeletion, OrphanAccounted
<1> QED
  BY <1>1, <1>2, <1>3, <1>4, <1>5 DEF IInv

(* IInv is inductive.                                                      *)
LEMMA NextIInv == IInv /\ [Next]_vars => IInv'
BY TypedStep, UploadOwnsStep, RemoverKnowsStep, DeleterKnowsStep, LocksStep,
   RowsHaveTasksStep, RemovedStep, DeletedStep, DanglingStep, OrphanStep
   DEF IInv

(* IInv holds throughout.                                                  *)
THEOREM IInvHolds == Spec => []IInv
BY InitIInv, NextIInv, PTL DEF Spec

(* The variables keep their types.                                         *)
THEOREM TypeCorrect == Spec => []TypeOK
<1>1. IInv => TypeOK
  BY DEF IInv, Typed
<1> QED
  BY <1>1, IInvHolds, PTL

(* Only the deletion of a task can leave a row whose object is gone.       *)
THEOREM DanglingOnlyByTaskDeletionEver == Spec => []DanglingOnlyByTaskDeletion
<1>1. IInv => DanglingOnlyByTaskDeletion
  BY DEF IInv
<1> QED
  BY <1>1, IInvHolds, PTL

(* Every object without a row has a request that accounts for it.          *)
THEOREM OrphanAccountedEver == Spec => []OrphanAccounted
<1>1. IInv => OrphanAccounted
  BY DEF IInv
<1> QED
  BY <1>1, IInvHolds, PTL

(* An attachment announced as removed is in neither store, and stays out.  *)
THEOREM RemovedMeansGoneEver == Spec => []RemovedMeansGone
<1>1. IInv => RemovedMeansGone
  BY DEF IInv, RemovedInv
<1> QED
  BY <1>1, IInvHolds, PTL

(* A task announced as deleted has no row left, nor have its subtasks, nor *)
(* any attachment of theirs.                                               *)
THEOREM DeletedMeansEmptyEver == Spec => []DeletedMeansEmpty
<1>1. IInv => DeletedMeansEmpty
  BY SubtreeAssumption
     DEF IInv, RowsHaveTasks, DeletedStaysDeleted, DeletedMeansEmpty, RowsOf
<1> QED
  BY <1>1, IInvHolds, PTL

-----------------------------------------------------------------------------
(* Every request ends.  Who holds a lock waits for nobody, so each request *)
(* releases what it holds, and having released it never takes a lock       *)
(* again.  Once the last one has done so nobody waits any more.            *)

After(s) ==
  CASE s = "up_loaded"    -> "up_stored"
    [] s = "up_stored"    -> "up_flushed"
    [] s = "up_flushed"   -> "up_committed"
    [] s = "up_committed" -> "up_refreshed"
    [] s = "up_refreshed" -> "done"
    [] s = "rm_loaded"    -> "rm_flushed"
    [] s = "rm_flushed"   -> "rm_committed"
    [] s = "rm_committed" -> "rm_cleaned"
    [] s = "rm_cleaned"   -> "done"
    [] s = "del_loaded"   -> "del_listed"
    [] s = "del_listed"   -> "del_purged"
    [] s = "del_purged"   -> "del_flushed"
    [] s = "del_flushed"  -> "del_committed"
    [] s = "del_committed" -> "done"

At(r, s)     == pc[r] = s
Beyond(r, s) == pc[r] \in {After(s), "failed"}
Released(r)  == pc[r] \in {"up_committed", "up_refreshed", "rm_committed", "rm_cleaned", "del_committed",
                           "done", "failed"}
NoLocks      == \A r \in Req : ~HoldsLocks(r)
StageEnds(r, s) == []([]NoLocks /\ At(r, s) => <>Beyond(r, s))

\* A request that has ended, or not begun, does not proceed.
LEMMA ProceedFrom ==
  ASSUME NEW r \in Req, Proceed(r)
  PROVE  pc[r] \notin Finished
BY DEF Finished, Proceed, Put, FlushUpload, CommitUpload, RefreshUpload, AnnounceUpload, FlushRemove,
   CommitRemove, DeleteObject, AnnounceRemove, ListAttachments, Purge, FlushDelete, CommitDelete,
   AnnounceDelete, Announce, Goto

\* A step of a request leads to the next one, or to its failure.
LEMMA ProceedPath ==
  ASSUME NEW r \in Req, NEW s \in Step \ Finished, TypeOK, Proceed(r), At(r, s)
  PROVE  Beyond(r, s)'
<1> USE DEF TypeOK, Step, Finished, At, Beyond, After, Goto
<1>1. CASE \E k \in Key : Put(r, k)
  BY <1>1 DEF Put
<1>2. CASE FlushUpload(r) \/ CommitUpload(r) \/ RefreshUpload(r) \/ AnnounceUpload(r)
  BY <1>2 DEF FlushUpload, CommitUpload, RefreshUpload, AnnounceUpload, Announce
<1>3. CASE FlushRemove(r) \/ CommitRemove(r) \/ DeleteObject(r) \/ AnnounceRemove(r)
  BY <1>3 DEF FlushRemove, CommitRemove, DeleteObject, AnnounceRemove, Announce
<1>4. CASE ListAttachments(r) \/ Purge(r) \/ FlushDelete(r) \/ CommitDelete(r) \/ AnnounceDelete(r)
  BY <1>4 DEF ListAttachments, Purge, FlushDelete, CommitDelete, AnnounceDelete, Announce
<1> QED
  BY <1>1, <1>2, <1>3, <1>4 DEF Proceed

\* Nobody else moves a request, except that it may fail.
LEMMA RequestKeeps ==
  ASSUME NEW r \in Req, TypeOK, [Next]_vars, pc[r] # "idle"
  PROVE  pc'[r] = pc[r] \/ Proceed(r) \/ (pc[r] \notin Finished /\ pc'[r] = "failed")
<1> USE DEF TypeOK, Goto
<1>1. ASSUME NEW q \in Req, Begin(q)
      PROVE  pc'[r] = pc[r]
  BY <1>1 DEF Begin, StartUpload, StartRemove, StartDelete
<1>2. ASSUME NEW q \in Req, q # r, Proceed(q)
      PROVE  pc'[r] = pc[r]
  <2>1. PICK s : pc' = [pc EXCEPT ![q] = s]
    BY <1>2 DEF Proceed, Put, FlushUpload, CommitUpload, RefreshUpload, AnnounceUpload, FlushRemove,
       CommitRemove, DeleteObject, AnnounceRemove, ListAttachments, Purge, FlushDelete, CommitDelete,
       AnnounceDelete, Announce
  <2> QED
    BY <1>2, <2>1
<1>3. ASSUME NEW q \in Req, StorageRaises(q) \/ PurgeRaises(q) \/ Abort(q)
      PROVE  pc'[r] = pc[r] \/ (pc[r] \notin Finished /\ pc'[r] = "failed")
  BY <1>3 DEF StorageRaises, PurgeRaises, Abort, Finished
<1>4. CASE UNCHANGED vars
  BY <1>4 DEF vars
<1> QED
  BY <1>1, <1>2, <1>3, <1>4 DEF Next

\* Who holds a lock keeps it until its next step, and after that step has done with locks.
LEMMA LockSteps ==
  ASSUME NEW r \in Req
  PROVE  /\ TypeOK /\ [Next]_vars /\ HoldsLocks(r) => HoldsLocks(r)' \/ Released(r)'
         /\ TypeOK /\ <<Proceed(r)>>_vars /\ HoldsLocks(r) => Released(r)'
         /\ TypeOK /\ [Next]_vars /\ Released(r) => Released(r)'
         /\ Released(r) => ~HoldsLocks(r)
         /\ NoRequestStuck /\ HoldsLocks(r) => CanProceed(r)
<1> USE DEF HoldsLocks, Sharing, Excluding, Released, At, Beyond, After, Step, Finished
<1>1. ASSUME TypeOK, Proceed(r), HoldsLocks(r)
      PROVE  Released(r)'
  BY <1>1, ProceedPath
<1>2. ASSUME TypeOK, [Next]_vars, HoldsLocks(r)
      PROVE  HoldsLocks(r)' \/ Released(r)'
  BY <1>1, <1>2, RequestKeeps
<1>3. ASSUME TypeOK, Proceed(r), Released(r)
      PROVE  Released(r)'
  <2>1. pc[r] \in Step \ Finished
    BY <1>3, ProceedFrom
  <2>2. PICK x \in Step \ Finished : At(r, x)
    BY <2>1
  <2>3. Beyond(r, x)'
    BY <1>3, <2>2, ProceedPath
  <2> QED
    BY <1>3, <2>2, <2>3
<1>4. ASSUME TypeOK, [Next]_vars, Released(r)
      PROVE  Released(r)'
  BY <1>3, <1>4, RequestKeeps
<1>5. NoRequestStuck /\ HoldsLocks(r) => CanProceed(r)
  BY DEF NoRequestStuck, Waits
<1> QED
  BY <1>1, <1>2, <1>4, <1>5

\* Each request holds no lock from some point on.
LEMMA ReleasesEver == Spec /\ []NoRequestStuck => \A r \in Req : Releases(r)
<1> SUFFICES ASSUME NEW d \in Req
             PROVE  Spec /\ []NoRequestStuck => Releases(d)
  OBVIOUS
<1>1. (\A r \in Req : Resumed(r)) => Resumed(d)
  OBVIOUS
<1>2. /\ TypeOK /\ [Next]_vars /\ HoldsLocks(d) => HoldsLocks(d)' \/ Released(d)'
      /\ TypeOK /\ <<Proceed(d)>>_vars /\ HoldsLocks(d) => Released(d)'
      /\ TypeOK /\ [Next]_vars /\ Released(d) => Released(d)'
      /\ Released(d) => ~HoldsLocks(d)
      /\ NoRequestStuck /\ HoldsLocks(d) => CanProceed(d)
  BY LockSteps
<1> QED
  BY <1>1, <1>2, TypeCorrect, PTL DEF Spec, Fairness, Resumed, CanProceed, Releases

\* While nobody holds a lock, every request takes the step it is at.
LEMMA StageEndsEver ==
  Spec /\ []NoRequestStuck => \A r \in Req : \A s \in Step \ Finished : StageEnds(r, s)
<1> SUFFICES ASSUME NEW d \in Req, NEW x \in Step \ Finished
             PROVE  Spec /\ []NoRequestStuck => StageEnds(d, x)
  OBVIOUS
<1>1. (\A r \in Req : Resumed(r)) => Resumed(d)
  OBVIOUS
<1>2. NoRequestStuck /\ NoLocks /\ At(d, x) => CanProceed(d)
  BY DEF NoRequestStuck, NoLocks, HoldsLocks, Waits, ShareFree, RowFree, ExcludeFree, Sharing, At
<1>3. TypeOK /\ <<Proceed(d)>>_vars /\ At(d, x) => Beyond(d, x)'
  BY ProceedPath
<1>4. TypeOK /\ [Next]_vars /\ At(d, x) => At(d, x)' \/ Beyond(d, x)'
  BY ProceedPath, RequestKeeps DEF At, Beyond, Finished
<1> QED
  BY <1>1, <1>2, <1>3, <1>4, TypeCorrect, PTL DEF Spec, Fairness, Resumed, CanProceed, StageEnds

(* No request waits for ever for a lock, nor for another that waits: every *)
(* upload, removal and deletion that starts comes to its end.              *)
THEOREM EveryRequestEndsEver ==
  Spec /\ []NoRequestStuck /\ AllReleased => EveryRequestEnds
<1> SUFFICES ASSUME NEW d \in Req
             PROVE  Spec /\ []NoRequestStuck /\ AllReleased => Ends(d)
  BY DEF EveryRequestEnds
<1> DEFINE Stages(r) ==
      /\ StageEnds(r, "up_loaded") /\ StageEnds(r, "up_stored") /\ StageEnds(r, "up_flushed")
      /\ StageEnds(r, "up_committed") /\ StageEnds(r, "up_refreshed")
      /\ StageEnds(r, "rm_loaded") /\ StageEnds(r, "rm_flushed") /\ StageEnds(r, "rm_committed")
      /\ StageEnds(r, "rm_cleaned")
      /\ StageEnds(r, "del_loaded") /\ StageEnds(r, "del_listed") /\ StageEnds(r, "del_purged")
      /\ StageEnds(r, "del_flushed") /\ StageEnds(r, "del_committed")
<1>1. (\A r \in Req : \A s \in Step \ Finished : StageEnds(r, s)) => Stages(d)
  BY DEF Step, Finished
<1>2. Spec /\ []NoRequestStuck => Stages(d)
  BY <1>1, StageEndsEver
<1>3. /\ Beyond(d, "up_loaded") => At(d, "up_stored") \/ Ended(d)
      /\ Beyond(d, "up_stored") => At(d, "up_flushed") \/ Ended(d)
      /\ Beyond(d, "up_flushed") => At(d, "up_committed") \/ Ended(d)
      /\ Beyond(d, "up_committed") => At(d, "up_refreshed") \/ Ended(d)
      /\ Beyond(d, "up_refreshed") => Ended(d)
      /\ Beyond(d, "rm_loaded") => At(d, "rm_flushed") \/ Ended(d)
      /\ Beyond(d, "rm_flushed") => At(d, "rm_committed") \/ Ended(d)
      /\ Beyond(d, "rm_committed") => At(d, "rm_cleaned") \/ Ended(d)
      /\ Beyond(d, "rm_cleaned") => Ended(d)
      /\ Beyond(d, "del_loaded") => At(d, "del_listed") \/ Ended(d)
      /\ Beyond(d, "del_listed") => At(d, "del_purged") \/ Ended(d)
      /\ Beyond(d, "del_purged") => At(d, "del_flushed") \/ Ended(d)
      /\ Beyond(d, "del_flushed") => At(d, "del_committed") \/ Ended(d)
      /\ Beyond(d, "del_committed") => Ended(d)
  BY DEF Beyond, At, After, Ended
<1>4. TypeOK /\ pc[d] # "idle"
        => \/ At(d, "up_loaded") \/ At(d, "up_stored") \/ At(d, "up_flushed")
           \/ At(d, "up_committed") \/ At(d, "up_refreshed")
           \/ At(d, "rm_loaded") \/ At(d, "rm_flushed") \/ At(d, "rm_committed") \/ At(d, "rm_cleaned")
           \/ At(d, "del_loaded") \/ At(d, "del_listed") \/ At(d, "del_purged")
           \/ At(d, "del_flushed") \/ At(d, "del_committed") \/ Ended(d)
  BY DEF TypeOK, Step, At, Ended
<1>5. TypeOK /\ [Next]_vars /\ pc[d] # "idle" => (pc[d] # "idle")'
  <2> SUFFICES ASSUME TypeOK, [Next]_vars, pc[d] # "idle"
               PROVE  pc'[d] # "idle"
    OBVIOUS
  <2>1. ASSUME Proceed(d)
        PROVE  pc'[d] # "idle"
    <3>1. pc[d] \in Step \ Finished
      BY <2>1, ProceedFrom DEF TypeOK
    <3>2. PICK x \in Step \ Finished : At(d, x)
      BY <3>1 DEF At
    <3>3. Beyond(d, x)'
      BY <2>1, <3>2, ProceedPath
    <3> QED
      BY <3>2, <3>3 DEF Beyond, After, Step, Finished
  <2> QED
    BY <2>1, RequestKeeps
<1>6. Spec /\ []NoRequestStuck /\ AllReleased => <>[]NoLocks
  BY ReleasesEver, PTL DEF AllReleased, NoLocks
<1> QED
  BY <1>2, <1>3, <1>4, <1>5, <1>6, TypeCorrect, PTL DEF Spec, StageEnds, Ends

=============================================================================
