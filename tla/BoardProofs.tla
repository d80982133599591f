---------------------------- MODULE BoardProofs ----------------------------
(***************************************************************************)
(* Proofs about Board, for any tasks, columns, pages and requests, any     *)
(* number of each, and any of the failures.                                *)
(***************************************************************************)
EXTENDS Board, TLAPS

-----------------------------------------------------------------------------
(* The inductive invariant.                                                *)

(* A row belongs to an id that has been handed out.                        *)
RowsUsed == \A t \in Task : status[t] # Absent => t \in used

(* Postgres gives a row lock to one transaction at a time.                 *)
Locks ==
  \A q, r \in Req :
    pc[q] = "flushed" /\ pc[r] = "flushed" /\ job[q].task = job[r].task => q = r

(* Whoever has flushed an update holds a row that is there.                *)
RowHeld ==
  \A r \in Req : pc[r] = "flushed" /\ job[r].kind \in {"drag", "edit"} =>
    status[job[r].task] # Absent

(* A task that is being created has an id of its own and no row yet.       *)
Created(r) == pc[r] \in {"sent", "loaded", "flushed"} /\ job[r].kind = "create"

Fresh ==
  /\ \A r \in Req : Created(r) => job[r].task \in used /\ status[job[r].task] = Absent
  /\ \A q, r \in Req : Created(q) /\ Created(r) /\ job[q].task = job[r].task => q = r

TableInv == RowsUsed /\ Locks /\ RowHeld /\ Fresh

(* A drag that has not settled left a board on its page and a copy of the  *)
(* one before.                                                             *)
DragInv ==
  \A r \in Req : Pending(r) /\ job[r].kind = "drag" =>
    job[r].previous \in Board /\ shown[job[r].page] # None

(* What the server has read is a board.                                    *)
AnswerInv == \A p \in Page : fetch[p] = "read" => answer[p] # None

IInv == TypeOK /\ TableInv /\ DragInv /\ AnswerInv /\ StaleOnlyWithCause

(* Every step keeps the type invariant.                                    *)
LEMMA TypeStep == TypeOK /\ [Next]_vars => TypeOK'
<1> SUFFICES ASSUME TypeOK, [Next]_vars PROVE TypeOK'
  OBVIOUS
<1> USE StatusAssumption, AbsentAssumption, NoneAssumption DEF TypeOK, Board, Job, Kind
<1>1. ASSUME NEW r \in Req, NEW p \in Page, NEW t \in Task, NEW s \in Status, Drag(r, p, t, s)
      PROVE TypeOK'
  BY <1>1 DEF Drag, OnBoard, Send, Goto, db, socket
<1>2. ASSUME NEW r \in Req, NEW p \in Page, NEW t \in Task, NEW s \in Status, Edit(r, p, t, s)
      PROVE TypeOK'
  BY <1>2 DEF Edit, Send, Goto, db, cache, socket
<1>3. ASSUME NEW r \in Req, NEW p \in Page, NEW t \in Task, Remove(r, p, t)
      PROVE TypeOK'
  BY <1>3 DEF Remove, Send, Goto, db, cache, socket
<1>4. ASSUME NEW r \in Req, NEW p \in Page, NEW t \in Task, Create(r, p, t)
      PROVE TypeOK'
  BY <1>4 DEF Create, Send, Goto, cache, socket
<1>5. ASSUME NEW r \in Req, Load(r) PROVE TypeOK'
  BY <1>5 DEF Load, NotFound, NoChange, Goto, db, cache, socket
<1>6. ASSUME NEW r \in Req, Flush(r) PROVE TypeOK'
  BY <1>6 DEF Flush, Goto, db, cache, socket
<1>7. ASSUME NEW r \in Req, Commit(r) PROVE TypeOK'
  BY <1>7 DEF Commit, Goto, After, cache, socket
<1>8. ASSUME NEW r \in Req, Refresh(r) PROVE TypeOK'
  BY <1>8 DEF Refresh, Goto, db, cache, socket
<1>9. ASSUME NEW r \in Req, Publish(r) PROVE TypeOK'
  BY <1>9 DEF Publish, Goto, Lose, db
<1>10. ASSUME NEW r \in Req, Succeed(r) PROVE TypeOK'
  BY <1>10 DEF Succeed, Settled, Goto, Invalidate, FirstAnswer, db, socket
<1>11. ASSUME NEW r \in Req, RollBack(r) PROVE TypeOK'
  BY <1>11 DEF RollBack, Settled, Goto, Invalidate, FirstAnswer, db, socket
<1>12. ASSUME NEW r \in Req, GiveUp(r) PROVE TypeOK'
  BY <1>12 DEF GiveUp, Settled, Goto, db, cache, socket
<1>13. ASSUME NEW r \in Req, Abort(r) PROVE TypeOK'
  BY <1>13 DEF Abort, db, cache, socket
<1>14. ASSUME NEW r \in Req, FailAfterCommit(r) PROVE TypeOK'
  BY <1>14 DEF FailAfterCommit, Lose, db, socket
<1>15. ASSUME NEW r \in Req, AnswerLost(r) PROVE TypeOK'
  BY <1>15 DEF AnswerLost, Goto, db, cache, socket
<1>16. ASSUME NEW p \in Page, Read(p) PROVE TypeOK'
  BY <1>16 DEF Read, db, socket
<1>17. ASSUME NEW p \in Page, Show(p) PROVE TypeOK'
  BY <1>17 DEF Show, db, socket
<1>18. ASSUME NEW p \in Page, NEW m \in Req, Deliver(p, m) PROVE TypeOK'
  BY <1>18 DEF Deliver, Invalidate, FirstAnswer, db
<1>19. ASSUME NEW p \in Page, Refocus(p) PROVE TypeOK'
  BY <1>19 DEF Refocus, db, socket
<1>20. ASSUME NEW p \in Page, Connect(p) PROVE TypeOK'
  BY <1>20 DEF Connect, db, cache
<1>21. ASSUME NEW p \in Page, ReadFails(p) PROVE TypeOK'
  BY <1>21 DEF ReadFails, db, socket
<1>22. ASSUME NEW p \in Page, Disconnect(p) PROVE TypeOK'
  BY <1>22 DEF Disconnect, Lose, db
<1>23. CASE UNCHANGED vars
  BY <1>23 DEF vars
<1>24. QED
  BY <1>1, <1>2, <1>3, <1>4, <1>5, <1>6, <1>7, <1>8, <1>9, <1>10, <1>11,
     <1>12, <1>13, <1>14, <1>15, <1>16, <1>17, <1>18, <1>19, <1>20, <1>21,
     <1>22, <1>23 DEF Next, Start, Serve, Settle, Receive

(* Every step keeps the table's part of the invariant.                     *)
LEMMA TableStep == TypeOK /\ TableInv /\ [Next]_vars => TableInv'
<1> SUFFICES ASSUME TypeOK, TableInv, [Next]_vars PROVE TableInv'
  OBVIOUS
<1> USE StatusAssumption, AbsentAssumption, NoneAssumption
    DEF TypeOK, Board, Job, Kind, TableInv, RowsUsed, Locks, RowHeld, Fresh, Created
<1>1. ASSUME NEW r \in Req, NEW p \in Page, NEW t \in Task, NEW s \in Status, Drag(r, p, t, s)
      PROVE TableInv'
  BY <1>1 DEF Drag, OnBoard, Send, Goto, db, socket
<1>2. ASSUME NEW r \in Req, NEW p \in Page, NEW t \in Task, NEW s \in Status, Edit(r, p, t, s)
      PROVE TableInv'
  BY <1>2 DEF Edit, Send, Goto, db, cache, socket
<1>3. ASSUME NEW r \in Req, NEW p \in Page, NEW t \in Task, Remove(r, p, t)
      PROVE TableInv'
  BY <1>3 DEF Remove, Send, Goto, db, cache, socket
<1>4. ASSUME NEW r \in Req, NEW p \in Page, NEW t \in Task, Create(r, p, t)
      PROVE TableInv'
  BY <1>4 DEF Create, Send, Goto, cache, socket
<1>5. ASSUME NEW r \in Req, Load(r) PROVE TableInv'
  BY <1>5 DEF Load, NotFound, NoChange, Goto, db, cache, socket
<1>6. ASSUME NEW r \in Req, Flush(r) PROVE TableInv'
  BY <1>6 DEF Flush, RowFree, Goto, db, cache, socket
<1>7. ASSUME NEW r \in Req, Commit(r) PROVE TableInv'
  BY <1>7 DEF Commit, Goto, After, cache, socket
<1>8. ASSUME NEW r \in Req, Refresh(r) PROVE TableInv'
  BY <1>8 DEF Refresh, Goto, db, cache, socket
<1>9. ASSUME NEW r \in Req, Publish(r) PROVE TableInv'
  BY <1>9 DEF Publish, Goto, Lose, db
<1>10. ASSUME NEW r \in Req, Succeed(r) PROVE TableInv'
  BY <1>10 DEF Succeed, Settled, Goto, Invalidate, FirstAnswer, db, socket
<1>11. ASSUME NEW r \in Req, RollBack(r) PROVE TableInv'
  BY <1>11 DEF RollBack, Settled, Goto, Invalidate, FirstAnswer, db, socket
<1>12. ASSUME NEW r \in Req, GiveUp(r) PROVE TableInv'
  BY <1>12 DEF GiveUp, Settled, Goto, db, cache, socket
<1>13. ASSUME NEW r \in Req, Abort(r) PROVE TableInv'
  BY <1>13 DEF Abort, db, cache, socket
<1>14. ASSUME NEW r \in Req, FailAfterCommit(r) PROVE TableInv'
  BY <1>14 DEF FailAfterCommit, Lose, db, socket
<1>15. ASSUME NEW r \in Req, AnswerLost(r) PROVE TableInv'
  BY <1>15 DEF AnswerLost, Goto, db, cache, socket
<1>16. ASSUME NEW p \in Page, Read(p) PROVE TableInv'
  BY <1>16 DEF Read, db, socket
<1>17. ASSUME NEW p \in Page, Show(p) PROVE TableInv'
  BY <1>17 DEF Show, db, socket
<1>18. ASSUME NEW p \in Page, NEW m \in Req, Deliver(p, m) PROVE TableInv'
  BY <1>18 DEF Deliver, Invalidate, FirstAnswer, db
<1>19. ASSUME NEW p \in Page, Refocus(p) PROVE TableInv'
  BY <1>19 DEF Refocus, db, socket
<1>20. ASSUME NEW p \in Page, Connect(p) PROVE TableInv'
  BY <1>20 DEF Connect, db, cache
<1>21. ASSUME NEW p \in Page, ReadFails(p) PROVE TableInv'
  BY <1>21 DEF ReadFails, db, socket
<1>22. ASSUME NEW p \in Page, Disconnect(p) PROVE TableInv'
  BY <1>22 DEF Disconnect, Lose, db
<1>23. CASE UNCHANGED vars
  BY <1>23 DEF vars
<1>24. QED
  BY <1>1, <1>2, <1>3, <1>4, <1>5, <1>6, <1>7, <1>8, <1>9, <1>10, <1>11,
     <1>12, <1>13, <1>14, <1>15, <1>16, <1>17, <1>18, <1>19, <1>20, <1>21,
     <1>22, <1>23 DEF Next, Start, Serve, Settle, Receive

(* Every step keeps what a pending drag relies on.                         *)
LEMMA DragStep == TypeOK /\ DragInv /\ AnswerInv /\ [Next]_vars => DragInv' /\ AnswerInv'
<1> SUFFICES ASSUME TypeOK, DragInv, AnswerInv, [Next]_vars PROVE DragInv' /\ AnswerInv'
  OBVIOUS
<1> USE AbsentAssumption, NoneAssumption DEF TypeOK, Board, Job, Kind, DragInv, AnswerInv, Pending
<1>1. ASSUME NEW r \in Req, NEW p \in Page, NEW t \in Task, NEW s \in Status, Drag(r, p, t, s)
      PROVE DragInv' /\ AnswerInv'
  BY <1>1 DEF Drag, OnBoard, Send, Goto, db, socket
<1>2. ASSUME NEW r \in Req, NEW p \in Page, NEW t \in Task, NEW s \in Status, Edit(r, p, t, s)
      PROVE DragInv' /\ AnswerInv'
  BY <1>2 DEF Edit, Send, Goto, db, cache, socket
<1>3. ASSUME NEW r \in Req, NEW p \in Page, NEW t \in Task, Remove(r, p, t)
      PROVE DragInv' /\ AnswerInv'
  BY <1>3 DEF Remove, Send, Goto, db, cache, socket
<1>4. ASSUME NEW r \in Req, NEW p \in Page, NEW t \in Task, Create(r, p, t)
      PROVE DragInv' /\ AnswerInv'
  BY <1>4 DEF Create, Send, Goto, cache, socket
<1>5. ASSUME NEW r \in Req, Load(r) PROVE DragInv' /\ AnswerInv'
  BY <1>5 DEF Load, NotFound, NoChange, Goto, db, cache, socket
<1>6. ASSUME NEW r \in Req, Flush(r) PROVE DragInv' /\ AnswerInv'
  BY <1>6 DEF Flush, Goto, db, cache, socket
<1>7. ASSUME NEW r \in Req, Commit(r) PROVE DragInv' /\ AnswerInv'
  BY <1>7 DEF Commit, Goto, After, cache, socket
<1>8. ASSUME NEW r \in Req, Refresh(r) PROVE DragInv' /\ AnswerInv'
  BY <1>8 DEF Refresh, Goto, db, cache, socket
<1>9. ASSUME NEW r \in Req, Publish(r) PROVE DragInv' /\ AnswerInv'
  BY <1>9 DEF Publish, Goto, Lose, db
<1>10. ASSUME NEW r \in Req, Succeed(r) PROVE DragInv' /\ AnswerInv'
  BY <1>10 DEF Succeed, Settled, Goto, Invalidate, FirstAnswer, db, socket
<1>11. ASSUME NEW r \in Req, RollBack(r) PROVE DragInv' /\ AnswerInv'
  BY <1>11 DEF RollBack, Settled, Goto, Invalidate, FirstAnswer, db, socket
<1>12. ASSUME NEW r \in Req, GiveUp(r) PROVE DragInv' /\ AnswerInv'
  BY <1>12 DEF GiveUp, Settled, Goto, db, cache, socket
<1>13. ASSUME NEW r \in Req, Abort(r) PROVE DragInv' /\ AnswerInv'
  BY <1>13 DEF Abort, db, cache, socket
<1>14. ASSUME NEW r \in Req, FailAfterCommit(r) PROVE DragInv' /\ AnswerInv'
  BY <1>14 DEF FailAfterCommit, Lose, db, socket
<1>15. ASSUME NEW r \in Req, AnswerLost(r) PROVE DragInv' /\ AnswerInv'
  BY <1>15 DEF AnswerLost, Goto, db, cache, socket
<1>16. ASSUME NEW p \in Page, Read(p) PROVE DragInv' /\ AnswerInv'
  BY <1>16 DEF Read, db, socket
<1>17. ASSUME NEW p \in Page, Show(p) PROVE DragInv' /\ AnswerInv'
  BY <1>17 DEF Show, db, socket
<1>18. ASSUME NEW p \in Page, NEW m \in Req, Deliver(p, m)
       PROVE DragInv' /\ AnswerInv'
  BY <1>18 DEF Deliver, Invalidate, FirstAnswer, db
<1>19. ASSUME NEW p \in Page, Refocus(p) PROVE DragInv' /\ AnswerInv'
  BY <1>19 DEF Refocus, db, socket
<1>20. ASSUME NEW p \in Page, Connect(p) PROVE DragInv' /\ AnswerInv'
  BY <1>20 DEF Connect, db, cache
<1>21. ASSUME NEW p \in Page, ReadFails(p) PROVE DragInv' /\ AnswerInv'
  BY <1>21 DEF ReadFails, db, socket
<1>22. ASSUME NEW p \in Page, Disconnect(p) PROVE DragInv' /\ AnswerInv'
  BY <1>22 DEF Disconnect, Lose, db
<1>23. CASE UNCHANGED vars
  BY <1>23 DEF vars
<1>24. QED
  BY <1>1, <1>2, <1>3, <1>4, <1>5, <1>6, <1>7, <1>8, <1>9, <1>10, <1>11,
     <1>12, <1>13, <1>14, <1>15, <1>16, <1>17, <1>18, <1>19, <1>20, <1>21,
     <1>22, <1>23 DEF Next, Start, Serve, Settle, Receive

(* Every step leaves a stale card, and a stale answer, with a cause.       *)
LEMMA StaleStep ==
  TypeOK /\ DragInv /\ AnswerInv /\ StaleOnlyWithCause /\ [Next]_vars => StaleOnlyWithCause'
<1> SUFFICES ASSUME TypeOK, DragInv, AnswerInv, StaleOnlyWithCause, [Next]_vars,
                    NEW q \in Page, NEW c \in Task
             PROVE CardHasCause(q, c)' /\ AnswerHasCause(q, c)'
  BY DEF StaleOnlyWithCause
<1>0. CardHasCause(q, c) /\ AnswerHasCause(q, c)
  BY DEF StaleOnlyWithCause
<1> USE <1>0, StatusAssumption, AbsentAssumption, NoneAssumption
    DEF TypeOK, Board, Job, Kind
<1>1. ASSUME NEW r \in Req, NEW p \in Page, NEW t \in Task, NEW s \in Status, Drag(r, p, t, s)
      PROVE CardHasCause(q, c)' /\ AnswerHasCause(q, c)'
  <2>1. \A x \in Req : x # r => pc'[x] = pc[x] /\ job'[x] = job[x]
    BY <1>1 DEF Drag, OnBoard, Send, Goto, db, socket
  <2>2. pc[r] = "idle" /\ pc'[r] = "sent" /\ job'[r].kind = "drag" /\ job'[r].page = p
    BY <1>1 DEF Drag, OnBoard, Send, Goto, db, socket
  <2>3. BeingTold(q, c) => BeingTold(q, c)'
    BY <1>1, <2>1, <2>2 DEF BeingTold, Unannounced, Drag, OnBoard, Send,
       Goto, db, socket
  <2>4. Dragging(q) => Dragging(q)'
    BY <2>1, <2>2 DEF Dragging, Pending
  <2>5. Dragging(p)'
    BY <2>2 DEF Dragging, Pending
  <2>6. CASE q = p
    BY <1>1, <2>5, <2>6 DEF CardHasCause, AnswerHasCause, Drag, OnBoard,
       Send, Goto, db, socket
  <2>7. CASE q # p
    BY <1>1, <2>3, <2>4, <2>7 DEF CardHasCause, AnswerHasCause, Drag,
       OnBoard, Send, Goto, db, socket
  <2> QED
    BY <2>6, <2>7
<1>2. ASSUME NEW r \in Req, NEW p \in Page, NEW t \in Task, NEW s \in Status, Edit(r, p, t, s)
      PROVE CardHasCause(q, c)' /\ AnswerHasCause(q, c)'
  <2>1. \A x \in Req : x # r => pc'[x] = pc[x] /\ job'[x] = job[x]
    BY <1>2 DEF Edit, Send, Goto, db, cache, socket
  <2>2. pc[r] = "idle" /\ pc'[r] = "sent"
    BY <1>2 DEF Edit, Send, Goto, db, cache, socket
  <2>3. BeingTold(q, c) => BeingTold(q, c)'
    BY <1>2, <2>1, <2>2 DEF BeingTold, Unannounced, Edit, Send, Goto, db,
       cache, socket
  <2>4. Dragging(q) => Dragging(q)'
    BY <2>1, <2>2 DEF Dragging, Pending
  <2> QED
    BY <1>2, <2>3, <2>4 DEF CardHasCause, AnswerHasCause, Edit, Send, Goto,
       db, cache, socket
<1>3. ASSUME NEW r \in Req, NEW p \in Page, NEW t \in Task, Remove(r, p, t)
      PROVE CardHasCause(q, c)' /\ AnswerHasCause(q, c)'
  <2>1. \A x \in Req : x # r => pc'[x] = pc[x] /\ job'[x] = job[x]
    BY <1>3 DEF Remove, Send, Goto, db, cache, socket
  <2>2. pc[r] = "idle" /\ pc'[r] = "sent"
    BY <1>3 DEF Remove, Send, Goto, db, cache, socket
  <2>3. BeingTold(q, c) => BeingTold(q, c)'
    BY <1>3, <2>1, <2>2 DEF BeingTold, Unannounced, Remove, Send, Goto, db,
       cache, socket
  <2>4. Dragging(q) => Dragging(q)'
    BY <2>1, <2>2 DEF Dragging, Pending
  <2> QED
    BY <1>3, <2>3, <2>4 DEF CardHasCause, AnswerHasCause, Remove, Send,
       Goto, db, cache, socket
<1>4. ASSUME NEW r \in Req, NEW p \in Page, NEW t \in Task, Create(r, p, t)
      PROVE CardHasCause(q, c)' /\ AnswerHasCause(q, c)'
  <2>1. \A x \in Req : x # r => pc'[x] = pc[x] /\ job'[x] = job[x]
    BY <1>4 DEF Create, Send, Goto, cache, socket
  <2>2. pc[r] = "idle" /\ pc'[r] = "sent"
    BY <1>4 DEF Create, Send, Goto, cache, socket
  <2>3. BeingTold(q, c) => BeingTold(q, c)'
    BY <1>4, <2>1, <2>2 DEF BeingTold, Unannounced, Create, Send, Goto,
       cache, socket
  <2>4. Dragging(q) => Dragging(q)'
    BY <2>1, <2>2 DEF Dragging, Pending
  <2> QED
    BY <1>4, <2>3, <2>4 DEF CardHasCause, AnswerHasCause, Create, Send,
       Goto, cache, socket
<1>5. ASSUME NEW r \in Req, Load(r)
      PROVE CardHasCause(q, c)' /\ AnswerHasCause(q, c)'
  <2>1. \A x \in Req : x # r => pc'[x] = pc[x] /\ job'[x] = job[x]
    BY <1>5 DEF Load, NotFound, NoChange, Goto, db, cache, socket
  <2>2. Pending(r)' /\ job'[r] = job[r]
    BY <1>5 DEF Pending, Load, NotFound, NoChange, Goto, db, cache, socket
  <2>3. BeingTold(q, c) => BeingTold(q, c)'
    BY <1>5, <2>1 DEF BeingTold, Unannounced, Load, NotFound, NoChange,
       Goto, db, cache, socket
  <2>4. Dragging(q) => Dragging(q)'
    BY <2>1, <2>2 DEF Dragging, Pending
  <2> QED
    BY <1>5, <2>3, <2>4 DEF CardHasCause, AnswerHasCause, Load, NotFound,
       NoChange, Goto, db, cache, socket
<1>6. ASSUME NEW r \in Req, Flush(r)
      PROVE CardHasCause(q, c)' /\ AnswerHasCause(q, c)'
  <2>1. \A x \in Req : x # r => pc'[x] = pc[x] /\ job'[x] = job[x]
    BY <1>6 DEF Flush, Goto, db, cache, socket
  <2>2. Pending(r)' /\ job'[r] = job[r]
    BY <1>6 DEF Pending, Flush, Goto, db, cache, socket
  <2>3. BeingTold(q, c) => BeingTold(q, c)'
    BY <1>6, <2>1 DEF BeingTold, Unannounced, Flush, Goto, db, cache, socket
  <2>4. Dragging(q) => Dragging(q)'
    BY <2>1, <2>2 DEF Dragging, Pending
  <2> QED
    BY <1>6, <2>3, <2>4 DEF CardHasCause, AnswerHasCause, Flush, Goto, db,
       cache, socket
<1>7. ASSUME NEW r \in Req, Commit(r)
      PROVE CardHasCause(q, c)' /\ AnswerHasCause(q, c)'
  <2>1. \A x \in Req : x # r => pc'[x] = pc[x]
    BY <1>7 DEF Commit, Goto, After, cache, socket
  <2>2. job' = job /\ job[r] \in Job /\ pc[r] = "flushed" /\ Pending(r)'
    BY <1>7 DEF Pending, Commit, Goto, After, cache, socket
  <2>3. Dragging(q) => Dragging(q)'
    BY <2>1, <2>2 DEF Dragging, Pending
  <2>4. CASE c = job[r].task
    <3>1. Unannounced(r, c)'
      BY <1>7, <2>2, <2>4 DEF Unannounced, Commit, Goto, After, cache, socket
    <3> QED
      BY <3>1 DEF CardHasCause, AnswerHasCause, BeingTold
  <2>5. CASE c # job[r].task
    <3>1. BeingTold(q, c) => BeingTold(q, c)'
      BY <1>7, <2>1, <2>2, <2>5 DEF BeingTold, Unannounced, Commit, Goto,
         After, cache, socket
    <3>2. status'[c] = status[c]
      BY <1>7, <2>5 DEF Commit, Goto, After, cache, socket
    <3> QED
      BY <1>7, <2>3, <3>1, <3>2 DEF CardHasCause, AnswerHasCause, Commit,
         Goto, After, cache, socket
  <2> QED
    BY <2>4, <2>5
<1>8. ASSUME NEW r \in Req, Refresh(r)
      PROVE CardHasCause(q, c)' /\ AnswerHasCause(q, c)'
  <2>1. \A x \in Req : x # r => pc'[x] = pc[x] /\ job'[x] = job[x]
    BY <1>8 DEF Refresh, Goto, db, cache, socket
  <2>2. Pending(r)' /\ job'[r] = job[r]
    BY <1>8 DEF Pending, Refresh, Goto, db, cache, socket
  <2>3. BeingTold(q, c) => BeingTold(q, c)'
    BY <1>8, <2>1 DEF BeingTold, Unannounced, Refresh, Goto, db, cache, socket
  <2>4. Dragging(q) => Dragging(q)'
    BY <2>1, <2>2 DEF Dragging, Pending
  <2> QED
    BY <1>8, <2>3, <2>4 DEF CardHasCause, AnswerHasCause, Refresh, Goto, db,
       cache, socket
<1>9. ASSUME NEW r \in Req, Publish(r)
      PROVE CardHasCause(q, c)' /\ AnswerHasCause(q, c)'
  <2>1. \A x \in Req : x # r => pc'[x] = pc[x]
    BY <1>9 DEF Publish, Goto, Lose, db
  <2>2. job' = job /\ Pending(r)'
    BY <1>9 DEF Pending, Publish, Goto, Lose, db
  <2>3. BeingTold(q, c) => BeingTold(q, c)' \/ fetch[q] = "asked"
    BY <1>9, <2>1, <2>2 DEF BeingTold, Unannounced, Publish, Goto, Lose, db
  <2>4. Dragging(q) => Dragging(q)'
    BY <2>1, <2>2 DEF Dragging, Pending
  <2> QED
    BY <1>9, <2>3, <2>4 DEF CardHasCause, AnswerHasCause, Publish, Goto,
       Lose, db
<1>10. ASSUME NEW r \in Req, Succeed(r)
       PROVE CardHasCause(q, c)' /\ AnswerHasCause(q, c)'
  <2>1. \A x \in Req : x # r => pc'[x] = pc[x] /\ job'[x] = job[x]
    BY <1>10 DEF Succeed, Settled, Goto, Invalidate, FirstAnswer, db, socket
  <2>2. pc[r] = "ok" /\ job[r] \in Job
    BY <1>10 DEF Succeed, Settled, Goto, Invalidate, FirstAnswer, db, socket
  <2>3. BeingTold(q, c) => BeingTold(q, c)'
    BY <1>10, <2>1, <2>2 DEF BeingTold, Unannounced, Succeed, Settled, Goto,
       Invalidate, FirstAnswer, db, socket
  <2>4. q # job[r].page /\ Dragging(q) => Dragging(q)'
    BY <2>1, <2>2 DEF Dragging, Pending
  <2>5. CASE q = job[r].page
    BY <1>10, <2>2, <2>3, <2>5 DEF CardHasCause, AnswerHasCause, DragInv,
       Pending, Succeed, Settled, Goto, Invalidate, FirstAnswer, db, socket
  <2>6. CASE q # job[r].page
    BY <1>10, <2>2, <2>3, <2>4, <2>6 DEF CardHasCause, AnswerHasCause,
       Succeed, Settled, Goto, Invalidate, FirstAnswer, db, socket
  <2> QED
    BY <2>5, <2>6
<1>11. ASSUME NEW r \in Req, RollBack(r)
       PROVE CardHasCause(q, c)' /\ AnswerHasCause(q, c)'
  <2>1. \A x \in Req : x # r => pc'[x] = pc[x] /\ job'[x] = job[x]
    BY <1>11 DEF RollBack, Settled, Goto, Invalidate, FirstAnswer, db, socket
  <2>2. pc[r] = "error" /\ job[r] \in Job
    BY <1>11 DEF RollBack, Settled, Goto, Invalidate, FirstAnswer, db, socket
  <2>3. BeingTold(q, c) => BeingTold(q, c)'
    BY <1>11, <2>1, <2>2 DEF BeingTold, Unannounced, RollBack, Settled, Goto,
       Invalidate, FirstAnswer, db, socket
  <2>4. q # job[r].page /\ Dragging(q) => Dragging(q)'
    BY <2>1, <2>2 DEF Dragging, Pending
  <2>5. CASE q = job[r].page
    BY <1>11, <2>2, <2>3, <2>5 DEF CardHasCause, AnswerHasCause, DragInv,
       Pending, RollBack, Settled, Goto, Invalidate, FirstAnswer, db, socket
  <2>6. CASE q # job[r].page
    BY <1>11, <2>2, <2>3, <2>4, <2>6 DEF CardHasCause, AnswerHasCause,
       RollBack, Settled, Goto, Invalidate, FirstAnswer, db, socket
  <2> QED
    BY <2>5, <2>6
<1>12. ASSUME NEW r \in Req, GiveUp(r)
       PROVE CardHasCause(q, c)' /\ AnswerHasCause(q, c)'
  <2>1. \A x \in Req : x # r => pc'[x] = pc[x] /\ job'[x] = job[x]
    BY <1>12 DEF GiveUp, Settled, Goto, db, cache, socket
  <2>2. pc[r] = "error" /\ job[r].kind # "drag"
    BY <1>12 DEF GiveUp, Settled, Goto, db, cache, socket
  <2>3. BeingTold(q, c) => BeingTold(q, c)'
    BY <1>12, <2>1, <2>2 DEF BeingTold, Unannounced, GiveUp, Settled, Goto,
       db, cache, socket
  <2>4. Dragging(q) => Dragging(q)'
    BY <2>1, <2>2 DEF Dragging, Pending
  <2> QED
    BY <1>12, <2>3, <2>4 DEF CardHasCause, AnswerHasCause, GiveUp, Settled,
       Goto, db, cache, socket
<1>13. ASSUME NEW r \in Req, Abort(r)
       PROVE CardHasCause(q, c)' /\ AnswerHasCause(q, c)'
  <2>1. \A x \in Req : x # r => pc'[x] = pc[x] /\ job'[x] = job[x]
    BY <1>13 DEF Abort, db, cache, socket
  <2>2. Pending(r)' /\ job'[r] = job[r]
    BY <1>13 DEF Pending, Abort, db, cache, socket
  <2>3. BeingTold(q, c) => BeingTold(q, c)'
    BY <1>13, <2>1 DEF BeingTold, Unannounced, Abort, db, cache, socket
  <2>4. Dragging(q) => Dragging(q)'
    BY <2>1, <2>2 DEF Dragging, Pending
  <2> QED
    BY <1>13, <2>3, <2>4 DEF CardHasCause, AnswerHasCause, Abort, db, cache,
       socket
<1>14. ASSUME NEW r \in Req, FailAfterCommit(r)
       PROVE CardHasCause(q, c)' /\ AnswerHasCause(q, c)'
  <2>1. \A x \in Req : x # r => pc'[x] = pc[x]
    BY <1>14 DEF FailAfterCommit, Lose, db, socket
  <2>2. job' = job /\ Pending(r)'
    BY <1>14 DEF Pending, FailAfterCommit, Lose, db, socket
  <2>3. BeingTold(q, c) => BeingTold(q, c)' \/ fetch[q] = "asked"
    BY <1>14, <2>1, <2>2 DEF BeingTold, Unannounced, FailAfterCommit, Lose,
       db, socket
  <2>4. Dragging(q) => Dragging(q)'
    BY <2>1, <2>2 DEF Dragging, Pending
  <2> QED
    BY <1>14, <2>3, <2>4 DEF CardHasCause, AnswerHasCause, FailAfterCommit,
       Lose, db, socket
<1>15. ASSUME NEW r \in Req, AnswerLost(r)
       PROVE CardHasCause(q, c)' /\ AnswerHasCause(q, c)'
  <2>1. \A x \in Req : x # r => pc'[x] = pc[x] /\ job'[x] = job[x]
    BY <1>15 DEF AnswerLost, Goto, db, cache, socket
  <2>2. Pending(r)' /\ job'[r] = job[r]
    BY <1>15 DEF Pending, AnswerLost, Goto, db, cache, socket
  <2>3. BeingTold(q, c) => BeingTold(q, c)'
    BY <1>15, <2>1 DEF BeingTold, Unannounced, AnswerLost, Goto, db, cache,
       socket
  <2>4. Dragging(q) => Dragging(q)'
    BY <2>1, <2>2 DEF Dragging, Pending
  <2> QED
    BY <1>15, <2>3, <2>4 DEF CardHasCause, AnswerHasCause, AnswerLost, Goto,
       db, cache, socket
<1>16. ASSUME NEW p \in Page, Read(p)
       PROVE CardHasCause(q, c)' /\ AnswerHasCause(q, c)'
  <2>1. UNCHANGED <<status, pc, job>>
    BY <1>16 DEF Read, db, socket
  <2>2. Dragging(q) => Dragging(q)'
    BY <2>1 DEF Dragging, Pending
  <2>3. q # p /\ BeingTold(q, c) => BeingTold(q, c)'
    BY <1>16, <2>1 DEF BeingTold, Unannounced, Read, db, socket
  <2>4. CASE q = p
    BY <1>16, <2>1, <2>2, <2>4 DEF CardHasCause, AnswerHasCause, Read, db,
       socket
  <2>5. CASE q # p
    BY <1>16, <2>1, <2>2, <2>3, <2>5 DEF CardHasCause, AnswerHasCause, Read,
       db, socket
  <2> QED
    BY <2>4, <2>5
<1>17. ASSUME NEW p \in Page, Show(p)
       PROVE CardHasCause(q, c)' /\ AnswerHasCause(q, c)'
  <2>1. UNCHANGED <<status, pc, job>>
    BY <1>17 DEF Show, db, socket
  <2>2. Dragging(q) => Dragging(q)'
    BY <2>1 DEF Dragging, Pending
  <2>3. q # p /\ BeingTold(q, c) => BeingTold(q, c)'
    BY <1>17, <2>1 DEF BeingTold, Unannounced, Show, db, socket
  <2>4. CASE q = p
    <3>1. BeingTold(p, c) => BeingTold(p, c)'
      BY <1>17, <2>1 DEF BeingTold, Unannounced, Show, db, socket
    <3> QED
      BY <1>17, <2>1, <2>2, <2>4, <3>1 DEF CardHasCause, AnswerHasCause,
         Show, db, socket
  <2>5. CASE q # p
    BY <1>17, <2>1, <2>2, <2>3, <2>5 DEF CardHasCause, AnswerHasCause, Show,
       db, socket
  <2> QED
    BY <2>4, <2>5
<1>18. ASSUME NEW p \in Page, NEW m \in Req, Deliver(p, m)
       PROVE CardHasCause(q, c)' /\ AnswerHasCause(q, c)'
  <2>1. UNCHANGED <<status, pc, job>>
    BY <1>18 DEF Deliver, Invalidate, FirstAnswer, db
  <2>2. Dragging(q) => Dragging(q)'
    BY <2>1 DEF Dragging, Pending
  <2>3. q # p /\ BeingTold(q, c) => BeingTold(q, c)'
    BY <1>18, <2>1 DEF BeingTold, Unannounced, Deliver, Invalidate,
       FirstAnswer, db
  <2>4. CASE q = p
    <3>1. BeingTold(p, c) => BeingTold(p, c)' \/ fetch'[p] = "asked"
      BY <1>18, <2>1 DEF BeingTold, Unannounced, Deliver, Invalidate,
         FirstAnswer, db
    <3> QED
      BY <1>18, <2>1, <2>2, <2>4, <3>1 DEF CardHasCause, AnswerHasCause,
         Deliver, Invalidate, FirstAnswer, db
  <2>5. CASE q # p
    BY <1>18, <2>1, <2>2, <2>3, <2>5 DEF CardHasCause, AnswerHasCause,
       Deliver, Invalidate, FirstAnswer, db
  <2> QED
    BY <2>4, <2>5
<1>19. ASSUME NEW p \in Page, Refocus(p)
       PROVE CardHasCause(q, c)' /\ AnswerHasCause(q, c)'
  <2>1. UNCHANGED <<status, pc, job>>
    BY <1>19 DEF Refocus, db, socket
  <2>2. Dragging(q) => Dragging(q)'
    BY <2>1 DEF Dragging, Pending
  <2>3. q # p /\ BeingTold(q, c) => BeingTold(q, c)'
    BY <1>19, <2>1 DEF BeingTold, Unannounced, Refocus, db, socket
  <2>4. CASE q = p
    <3>1. BeingTold(p, c) => BeingTold(p, c)'
      BY <1>19, <2>1 DEF BeingTold, Unannounced, Refocus, db, socket
    <3> QED
      BY <1>19, <2>1, <2>2, <2>4, <3>1 DEF CardHasCause, AnswerHasCause,
         Refocus, db, socket
  <2>5. CASE q # p
    BY <1>19, <2>1, <2>2, <2>3, <2>5 DEF CardHasCause, AnswerHasCause,
       Refocus, db, socket
  <2> QED
    BY <2>4, <2>5
<1>20. ASSUME NEW p \in Page, Connect(p)
       PROVE CardHasCause(q, c)' /\ AnswerHasCause(q, c)'
  <2>1. UNCHANGED <<status, pc, job>>
    BY <1>20 DEF Connect, db, cache
  <2>2. Dragging(q) => Dragging(q)'
    BY <2>1 DEF Dragging, Pending
  <2>3. q # p /\ BeingTold(q, c) => BeingTold(q, c)'
    BY <1>20, <2>1 DEF BeingTold, Unannounced, Connect, db, cache
  <2>4. CASE q = p
    <3>1. BeingTold(p, c) => BeingTold(p, c)'
      BY <1>20, <2>1 DEF BeingTold, Unannounced, Connect, db, cache
    <3> QED
      BY <1>20, <2>1, <2>2, <2>4, <3>1 DEF CardHasCause, AnswerHasCause,
         Connect, db, cache
  <2>5. CASE q # p
    BY <1>20, <2>1, <2>2, <2>3, <2>5 DEF CardHasCause, AnswerHasCause,
       Connect, db, cache
  <2> QED
    BY <2>4, <2>5
<1>21. ASSUME NEW p \in Page, ReadFails(p)
       PROVE CardHasCause(q, c)' /\ AnswerHasCause(q, c)'
  <2>1. UNCHANGED <<status, pc, job>>
    BY <1>21 DEF ReadFails, db, socket
  <2>2. Dragging(q) => Dragging(q)'
    BY <2>1 DEF Dragging, Pending
  <2>3. q # p /\ BeingTold(q, c) => BeingTold(q, c)'
    BY <1>21, <2>1 DEF BeingTold, Unannounced, ReadFails, db, socket
  <2>4. CASE q = p
    <3>1. BeingTold(p, c)'
      BY <1>21, <2>1 DEF BeingTold, Unannounced, ReadFails, db, socket
    <3> QED
      BY <1>21, <2>1, <2>2, <2>4, <3>1 DEF CardHasCause, AnswerHasCause,
         ReadFails, db, socket
  <2>5. CASE q # p
    BY <1>21, <2>1, <2>2, <2>3, <2>5 DEF CardHasCause, AnswerHasCause,
       ReadFails, db, socket
  <2> QED
    BY <2>4, <2>5
<1>22. ASSUME NEW p \in Page, Disconnect(p)
       PROVE CardHasCause(q, c)' /\ AnswerHasCause(q, c)'
  <2>1. UNCHANGED <<status, pc, job>>
    BY <1>22 DEF Disconnect, Lose, db
  <2>2. Dragging(q) => Dragging(q)'
    BY <2>1 DEF Dragging, Pending
  <2>3. q # p /\ BeingTold(q, c) => BeingTold(q, c)'
    BY <1>22, <2>1 DEF BeingTold, Unannounced, Disconnect, Lose, db
  <2>4. CASE q = p
    <3>1. BeingTold(p, c) => BeingTold(p, c)' \/ fetch[p] = "asked"
      BY <1>22, <2>1 DEF BeingTold, Unannounced, Disconnect, Lose, db
    <3> QED
      BY <1>22, <2>1, <2>2, <2>4, <3>1 DEF CardHasCause, AnswerHasCause,
         Disconnect, Lose, db
  <2>5. CASE q # p
    BY <1>22, <2>1, <2>2, <2>3, <2>5 DEF CardHasCause, AnswerHasCause,
       Disconnect, Lose, db
  <2> QED
    BY <2>4, <2>5
<1>23. CASE UNCHANGED vars
  <2>1. BeingTold(q, c)' = BeingTold(q, c) /\ Dragging(q)' = Dragging(q)
    BY <1>23 DEF vars, BeingTold, Unannounced, Dragging, Pending
  <2> QED
    BY <1>23, <2>1 DEF vars, CardHasCause, AnswerHasCause
<1>24. QED
  BY <1>1, <1>2, <1>3, <1>4, <1>5, <1>6, <1>7, <1>8, <1>9, <1>10, <1>11,
     <1>12, <1>13, <1>14, <1>15, <1>16, <1>17, <1>18, <1>19, <1>20, <1>21,
     <1>22, <1>23 DEF Next, Start, Serve, Settle, Receive

(* Life is a function on the tasks, now and in the next state.            *)
LEMMA LifeFunction ==
  /\ Life = [u \in Task |-> Life[u]]
  /\ Life' = [u \in Task |-> Life'[u]]
<1>1. Life = [u \in Task |-> Life[u]]
  BY DEF Life
<1>2. Life' = [u \in Task |-> Life'[u]]
  BY DEF Life
<1> QED
  BY <1>1, <1>2

(* Every step of the requests is a step of the table, or none.             *)
LEMMA TableSteps == TypeOK /\ TableInv /\ [Next]_vars => [Table!Next]_Life
<1> SUFFICES ASSUME TypeOK, TableInv, [Next]_vars PROVE [Table!Next]_Life
  OBVIOUS
<1> USE StatusAssumption, AbsentAssumption, NoneAssumption DEF TypeOK, Board, Job, Kind
<1>1. ASSUME NEW r \in Req, NEW p \in Page, NEW t \in Task, NEW s \in Status, Drag(r, p, t, s)
      PROVE [Table!Next]_Life
  <2>1. Life' = Life
    BY <1>1 DEF Life, Creating, Pending, Drag, OnBoard, Send, Goto, db, socket
  <2> QED
    BY <2>1
<1>2. ASSUME NEW r \in Req, NEW p \in Page, NEW t \in Task, NEW s \in Status, Edit(r, p, t, s)
      PROVE [Table!Next]_Life
  <2>1. Life' = Life
    BY <1>2 DEF Life, Creating, Pending, Edit, Send, Goto, db, cache, socket
  <2> QED
    BY <2>1
<1>3. ASSUME NEW r \in Req, NEW p \in Page, NEW t \in Task, Remove(r, p, t)
      PROVE [Table!Next]_Life
  <2>1. Life' = Life
    BY <1>3 DEF Life, Creating, Pending, Remove, Send, Goto, db, cache, socket
  <2> QED
    BY <2>1
<1>4. ASSUME NEW r \in Req, NEW p \in Page, NEW t \in Task, Create(r, p, t)
      PROVE [Table!Next]_Life
  <2>1. status[t] = Absent /\ status' = status /\ used' = used \cup {t}
    BY <1>4 DEF TableInv, RowsUsed, Create, Send, Goto, cache, socket
  <2>2. \A u \in Task : Creating(u) => Creating(u)'
    BY <1>4 DEF Creating, Pending, Create, Send, Goto, cache, socket
  <2>3. \A u \in Task : Creating(u)' => Creating(u) \/ u = t
    BY <1>4 DEF Creating, Pending, Create, Send, Goto, cache, socket
  <2>4. Creating(t)'
    BY <1>4 DEF Creating, Pending, Create, Send, Goto, cache, socket
  <2>5. \A u \in Task : Creating(u)' <=> Creating(u) \/ u = t
    BY <2>2, <2>3, <2>4
  <2>6. ~ Creating(t) /\ t \notin used
    BY <1>4 DEF TableInv, Fresh, Created, Creating, Pending, Create, Send,
       Goto, cache, socket
  <2>7. \A u \in Task : Life'[u] = Life[u]
    BY <2>1, <2>5, <2>6 DEF Life
  <2> QED
    BY <2>7, LifeFunction
<1>5. ASSUME NEW r \in Req, Load(r) PROVE [Table!Next]_Life
  <2>1. job' = job /\ status' = status /\ used' = used
    BY <1>5 DEF Load, NotFound, NoChange, Goto, db, cache, socket
  <2>2. \A x \in Req : Created(x)' <=> Created(x)
    BY <1>5 DEF Created, Load, NotFound, NoChange, Goto, db, cache, socket
  <2>3. Life' = Life
    BY <2>1, <2>2 DEF Life, Creating, Created, Pending
  <2> QED
    BY <2>3
<1>6. ASSUME NEW r \in Req, Flush(r) PROVE [Table!Next]_Life
  <2>1. job' = job /\ status' = status /\ used' = used
    BY <1>6 DEF Flush, Goto, db, cache, socket
  <2>2. \A x \in Req : Created(x)' <=> Created(x)
    BY <1>6 DEF Created, Flush, Goto, db, cache, socket
  <2>3. Life' = Life
    BY <2>1, <2>2 DEF Life, Creating, Created, Pending
  <2> QED
    BY <2>3
<1>7. ASSUME NEW r \in Req, Commit(r) PROVE [Table!Next]_Life
  <2> DEFINE t == job[r].task
  <2>1. job[r] \in Job /\ pc[r] = "flushed" /\ t \in Task
    BY <1>7 DEF Commit, Goto, After, cache, socket
  <2>2. \A u \in Task : u # t => (Creating(u)' <=> Creating(u))
    BY <1>7, <2>1 DEF Creating, Pending, Commit, Goto, After, cache, socket
  <2>3. \A u \in Task : u # t => Life'[u] = Life[u]
    BY <1>7, <2>2 DEF Life, Commit, Goto, After, cache, socket
  <2>4. CASE job[r].kind = "delete" /\ status[t] = Absent
    <3>1. \A u \in Task : Creating(u)' <=> Creating(u)
      BY <1>7, <2>1, <2>4 DEF Creating, Pending, Commit, Goto, After, cache,
         socket
    <3>2. status' = status /\ used' = used
      BY <1>7, <2>1, <2>4 DEF Commit, Goto, After, cache, socket
    <3>3. \A u \in Task : Life'[u] = Life[u]
      BY <3>1, <3>2 DEF Life
    <3> QED
      BY <3>3, LifeFunction
  <2>5. CASE job[r].kind = "delete" /\ status[t] # Absent
    <3>1. t \in used /\ ~ Creating(t)
      BY <2>1, <2>5 DEF TableInv, RowsUsed, Fresh, Created, Creating, Pending
    <3>2. ~ Creating(t)'
      BY <1>7, <2>1, <2>5, <3>1 DEF Creating, Pending, Commit, Goto, After,
         cache, socket
    <3>3. Life[t] \in Status /\ Life'[t] = "dead"
      BY <1>7, <2>1, <2>5, <3>1, <3>2 DEF Life, Commit, Goto, After, cache,
         socket
    <3>4. Life' = [Life EXCEPT ![t] = "dead"]
      BY <2>1, <2>3, <3>3, LifeFunction
    <3> QED
      BY <2>1, <3>3, <3>4 DEF Table!Next, Table!Delete
  <2>6. CASE job[r].kind # "delete"
    <3>1. Life'[t] = job[r].to /\ job[r].to \in Status
      BY <1>7, <2>1, <2>6 DEF Life, Commit, Goto, After, cache, socket
    <3>2. Life' = [Life EXCEPT ![t] = job[r].to]
      BY <2>1, <2>3, <3>1, LifeFunction
    <3>3. CASE job[r].kind = "create"
      <4>1. Creating(t) /\ t \in used /\ status[t] = Absent
        BY <2>1, <3>3 DEF TableInv, Fresh, Created, Creating, Pending
      <4>2. Life[t] = "unborn"
        BY <2>1, <4>1 DEF Life
      <4> QED
        BY <2>1, <3>1, <3>2, <4>2 DEF Table!Next, Table!Create
    <3>4. CASE job[r].kind # "create"
      <4>1. Life[t] \in Status
        BY <2>1, <2>6, <3>4 DEF TableInv, RowHeld, Life
      <4> QED
        BY <2>1, <3>1, <3>2, <4>1 DEF Table!Next, Table!Move
    <3> QED
      BY <3>3, <3>4
  <2> QED
    BY <2>4, <2>5, <2>6
<1>8. ASSUME NEW r \in Req, Refresh(r) PROVE [Table!Next]_Life
  <2>1. Life' = Life
    BY <1>8 DEF Life, Creating, Pending, Refresh, Goto, db, cache, socket
  <2> QED
    BY <2>1
<1>9. ASSUME NEW r \in Req, Publish(r) PROVE [Table!Next]_Life
  <2>1. Life' = Life
    BY <1>9 DEF Life, Creating, Pending, Publish, Goto, Lose, db
  <2> QED
    BY <2>1
<1>10. ASSUME NEW r \in Req, Succeed(r) PROVE [Table!Next]_Life
  <2>1. Life' = Life
    BY <1>10 DEF Life, Creating, Pending, Succeed, Settled, Goto, Invalidate,
       FirstAnswer, db, socket
  <2> QED
    BY <2>1
<1>11. ASSUME NEW r \in Req, RollBack(r) PROVE [Table!Next]_Life
  <2>1. Life' = Life
    BY <1>11 DEF Life, Creating, Pending, RollBack, Settled, Goto,
       Invalidate, FirstAnswer, db, socket
  <2> QED
    BY <2>1
<1>12. ASSUME NEW r \in Req, GiveUp(r) PROVE [Table!Next]_Life
  <2>1. Life' = Life
    BY <1>12 DEF Life, Creating, Pending, GiveUp, Settled, Goto, db, cache,
       socket
  <2> QED
    BY <2>1
<1>13. ASSUME NEW r \in Req, Abort(r) PROVE [Table!Next]_Life
  <2>1. job' = job /\ status' = status /\ used' = used
    BY <1>13 DEF Abort, db, cache, socket
  <2>2. \A x \in Req : x # r => pc'[x] = pc[x]
    BY <1>13 DEF Abort, db, cache, socket
  <2>3. ~ Created(r)'
    BY <1>13 DEF Created, Abort, db, cache, socket
  <2>4. CASE Created(r)
    <3> DEFINE t == job[r].task
    <3>1. t \in Task /\ t \in used /\ status[t] = Absent
      BY <2>4 DEF TableInv, Fresh, Created
    <3>2. Creating(t) /\ ~ Creating(t)'
      BY <2>1, <2>2, <2>3, <2>4, <3>1 DEF TableInv, Fresh, Created,
         Creating, Pending
    <3>3. \A u \in Task : u # t => (Creating(u)' <=> Creating(u))
      BY <2>1, <2>2, <2>3 DEF Creating, Created, Pending
    <3>4. Life[t] = "unborn" /\ Life' = [Life EXCEPT ![t] = "dead"]
      BY <2>1, <3>1, <3>2, <3>3 DEF Life
    <3> QED
      BY <3>1, <3>4 DEF Table!Next, Table!Discard
  <2>5. CASE ~ Created(r)
    <3>1. Life' = Life
      BY <2>1, <2>2, <2>3, <2>5 DEF Life, Creating, Created, Pending
    <3> QED
      BY <3>1
  <2> QED
    BY <2>4, <2>5
<1>14. ASSUME NEW r \in Req, FailAfterCommit(r) PROVE [Table!Next]_Life
  <2>1. Life' = Life
    BY <1>14 DEF Life, Creating, Pending, FailAfterCommit, Lose, db, socket
  <2> QED
    BY <2>1
<1>15. ASSUME NEW r \in Req, AnswerLost(r) PROVE [Table!Next]_Life
  <2>1. Life' = Life
    BY <1>15 DEF Life, Creating, Pending, AnswerLost, Goto, db, cache, socket
  <2> QED
    BY <2>1
<1>16. ASSUME NEW p \in Page, Read(p) PROVE [Table!Next]_Life
  <2>1. Life' = Life
    BY <1>16 DEF Life, Creating, Pending, Read, db, socket
  <2> QED
    BY <2>1
<1>17. ASSUME NEW p \in Page, Show(p) PROVE [Table!Next]_Life
  <2>1. Life' = Life
    BY <1>17 DEF Life, Creating, Pending, Show, db, socket
  <2> QED
    BY <2>1
<1>18. ASSUME NEW p \in Page, NEW m \in Req, Deliver(p, m) PROVE [Table!Next]_Life
  <2>1. Life' = Life
    BY <1>18 DEF Life, Creating, Pending, Deliver, Invalidate, FirstAnswer, db
  <2> QED
    BY <2>1
<1>19. ASSUME NEW p \in Page, Refocus(p) PROVE [Table!Next]_Life
  <2>1. Life' = Life
    BY <1>19 DEF Life, Creating, Pending, Refocus, db, socket
  <2> QED
    BY <2>1
<1>20. ASSUME NEW p \in Page, Connect(p) PROVE [Table!Next]_Life
  <2>1. Life' = Life
    BY <1>20 DEF Life, Creating, Pending, Connect, db, cache
  <2> QED
    BY <2>1
<1>21. ASSUME NEW p \in Page, ReadFails(p) PROVE [Table!Next]_Life
  <2>1. Life' = Life
    BY <1>21 DEF Life, Creating, Pending, ReadFails, db, socket
  <2> QED
    BY <2>1
<1>22. ASSUME NEW p \in Page, Disconnect(p) PROVE [Table!Next]_Life
  <2>1. Life' = Life
    BY <1>22 DEF Life, Creating, Pending, Disconnect, Lose, db
  <2> QED
    BY <2>1
<1>23. CASE UNCHANGED vars
  <2>1. Life' = Life
    BY <1>23 DEF vars, Life, Creating, Pending
  <2> QED
    BY <2>1
<1>24. QED
  BY <1>1, <1>2, <1>3, <1>4, <1>5, <1>6, <1>7, <1>8, <1>9, <1>10, <1>11,
     <1>12, <1>13, <1>14, <1>15, <1>16, <1>17, <1>18, <1>19, <1>20, <1>21,
     <1>22, <1>23 DEF Next, Start, Serve, Settle, Receive

-----------------------------------------------------------------------------
(* The pages start with nothing shown and no request under way.            *)
LEMMA InitInv == Init => IInv
<1> SUFFICES ASSUME Init PROVE IInv
  OBVIOUS
<1> USE NoneAssumption DEF Init
<1>1. TypeOK
  BY DEF TypeOK, Board
<1>2. TableInv
  BY DEF TableInv, RowsUsed, Locks, RowHeld, Fresh, Created
<1>3. DragInv /\ AnswerInv
  BY DEF DragInv, AnswerInv, Pending
<1>4. StaleOnlyWithCause
  BY DEF StaleOnlyWithCause, CardHasCause, AnswerHasCause
<1> QED
  BY <1>1, <1>2, <1>3, <1>4 DEF IInv

(* The inductive invariant holds of every reachable state.                *)
THEOREM IInvHolds == Spec => []IInv
<1>1. IInv /\ [Next]_vars => IInv'
  BY TypeStep, TableStep, DragStep, StaleStep DEF IInv
<1> QED
  BY InitInv, <1>1, PTL DEF Spec

(* Every variable has its type, and a page keeps a request exactly while   *)
(* it is pending.                                                          *)
THEOREM TypeCorrect == Spec => []TypeOK
<1>1. IInv => TypeOK
  BY DEF IInv
<1> QED
  BY IInvHolds, <1>1, PTL

(* On any number of pages, with any requests and failures: a card that     *)
(* differs from the table is going to be corrected, or the page has lost   *)
(* an event.                                                               *)
THEOREM StaleOnlyWithCauseEver == Spec => []StaleOnlyWithCause
<1>1. IInv => StaleOnlyWithCause
  BY DEF IInv
<1> QED
  BY IInvHolds, <1>1, PTL

(* A page at rest: no request pending anywhere, no read, no event on its   *)
(* way, none lost.                                                         *)
AtRest(p) ==
  /\ \A r \in Req : ~ Pending(r)
  /\ fetch[p] = "none"
  /\ inbox[p] = {}
  /\ ~ missed[p]

RestingBoardsAreRight ==
  \A p \in Page : AtRest(p) /\ shown[p] # None => shown[p] = status

(* A board at rest is the table: what the optimistic moves, rollbacks and  *)
(* reads in whatever order left on it is what Postgres holds.              *)
THEOREM RestingBoardsAreRightEver == Spec => []RestingBoardsAreRight
<1>1. IInv => RestingBoardsAreRight
  <2> SUFFICES ASSUME IInv, NEW p \in Page, AtRest(p), shown[p] # None
               PROVE shown[p] = status
    BY DEF RestingBoardsAreRight
  <2>1. \A t \in Task : ~ BeingTold(p, t)
    BY DEF AtRest, BeingTold, Unannounced, Pending
  <2>2. ~ Dragging(p)
    BY DEF AtRest, Dragging
  <2>3. \A t \in Task : shown[p][t] = status[t]
    BY <2>1, <2>2 DEF AtRest, IInv, StaleOnlyWithCause, CardHasCause
  <2>4. shown[p] \in Board /\ status \in Board
    BY DEF IInv, TypeOK
  <2> QED
    BY <2>3, <2>4 DEF Board
<1> QED
  BY IInvHolds, <1>1, PTL

(* The server's table, whatever requests race on it and wherever they      *)
(* fail, is the atomic table of TaskTable: a deleted task never comes      *)
(* back, none is created twice, and none is moved that is not there.       *)
THEOREM ImplementsTaskTableEver == Spec => ImplementsTaskTable
<1>1. Init => Table!Init
  <2> SUFFICES ASSUME Init PROVE Table!Init
    OBVIOUS
  <2>1. \A t \in Task : ~ Creating(t)
    BY DEF Init, Creating, Pending
  <2> QED
    BY <2>1, AbsentAssumption DEF Init, Table!Init, Life, Board
<1>2. IInv /\ [Next]_vars => [Table!Next]_Life
  BY TableSteps DEF IInv
<1> QED
  BY IInvHolds, <1>1, <1>2, PTL DEF Spec, ImplementsTaskTable, Table!Spec


-----------------------------------------------------------------------------
(* The boards converge.  Who has flushed waits for nobody, so flushes end; *)
(* then every request that has begun ends, and from then on the table      *)
(* stands still.  Events on their way are received, a read that is asked   *)
(* for is answered by the table as it stays, and a page that lost an event *)
(* either reads again or has it on record that it did not.                 *)

Onward(s) ==
  CASE s = "sent"      -> {"loaded", "unchanged", "error"}
    [] s = "loaded"    -> {"flushed", "error"}
    [] s = "unchanged" -> {"ok", "error"}
    [] s = "flushed"   -> {"committed", "refreshed", "error"}
    [] s = "committed" -> {"refreshed", "error"}
    [] s = "refreshed" -> {"ok", "error"}
    [] s = "ok"        -> {"done", "error"}
    [] s = "error"     -> {"done"}

Places == {"sent", "loaded", "unchanged", "flushed", "committed", "refreshed", "ok", "error"}

IsAt(r, s)      == pc[r] = s
IsPast(r, s)    == pc[r] \in Onward(s)
PastFlush(r)    == pc[r] \in {"committed", "refreshed", "ok", "error", "done"}
NoneFlushed     == \A r \in Req : ~Flushed(r)
NonePending     == \A r \in Req : ~Pending(r)
PlaceEnds(r, s) == []([]NoneFlushed /\ IsAt(r, s) => <>IsPast(r, s))

\* A request goes on to the next place.
LEMMA WorkPath ==
  ASSUME NEW r \in Req, NEW s \in Places, TypeOK, Work(r), IsAt(r, s)
  PROVE  IsPast(r, s)'
<1> USE DEF TypeOK, Places, IsAt, IsPast, Onward, Goto
<1>1. CASE Serve(r)
  BY <1>1 DEF Serve, Load, Flush, Commit, Refresh, Publish
<1>2. CASE Settle(r)
  BY <1>2 DEF Settle, Succeed, RollBack, GiveUp, Settled
<1> QED
  BY <1>1, <1>2 DEF Work

\* A request that is idle or done has no work.
LEMMA WorkFrom ==
  ASSUME NEW r \in Req, Work(r)
  PROVE  Pending(r)
BY DEF Pending, Work, Serve, Load, Flush, Commit, Refresh, Publish, Settle, Succeed, RollBack, GiveUp,
   Settled, Goto

\* Nobody else moves a request that has begun, except that it may fail.
LEMMA RequestKeeps ==
  ASSUME NEW r \in Req, TypeOK, [Next]_vars
  PROVE  \/ pc'[r] = pc[r]
         \/ pc[r] = "idle" /\ pc'[r] = "sent"
         \/ Work(r)
         \/ /\ pc[r] \in {"sent", "loaded", "unchanged", "flushed", "committed", "refreshed", "ok"}
            /\ pc'[r] = "error"
<1> USE DEF TypeOK, Goto
<1>1. ASSUME NEW q \in Req, Start(q)
      PROVE  pc'[r] = pc[r] \/ (pc[r] = "idle" /\ pc'[r] = "sent")
  BY <1>1 DEF Start, Drag, Edit, Create, Remove, Send
<1>2. ASSUME NEW q \in Req, q # r, Work(q)
      PROVE  pc'[r] = pc[r]
  <2>1. PICK s : pc' = [pc EXCEPT ![q] = s]
    BY <1>2 DEF Work, Serve, Load, Flush, Commit, Refresh, Publish, Settle, Succeed, RollBack, GiveUp, Settled
  <2> QED
    BY <1>2, <2>1
<1>3. ASSUME NEW q \in Req, Abort(q) \/ FailAfterCommit(q) \/ AnswerLost(q)
      PROVE  \/ pc'[r] = pc[r]
             \/ /\ pc[r] \in {"sent", "loaded", "unchanged", "flushed", "committed", "refreshed", "ok"}
                /\ pc'[r] = "error"
  BY <1>3 DEF Abort, FailAfterCommit, AnswerLost
<1>4. ASSUME NEW p \in Page,
             Read(p) \/ Show(p) \/ Receive(p) \/ Refocus(p) \/ Connect(p) \/ ReadFails(p) \/ Disconnect(p)
      PROVE  pc'[r] = pc[r]
  BY <1>4 DEF Read, Show, Receive, Deliver, Refocus, Connect, ReadFails, Disconnect
<1>5. CASE UNCHANGED vars
  BY <1>5 DEF vars
<1> QED
  BY <1>1, <1>2, <1>3, <1>4, <1>5 DEF Next, Work

\* Who has flushed commits or fails, and flushes no more.
LEMMA FlushSteps ==
  ASSUME NEW r \in Req
  PROVE  /\ TypeOK /\ [Next]_vars /\ Flushed(r) => Flushed(r)' \/ PastFlush(r)'
         /\ TypeOK /\ <<Work(r)>>_vars /\ Flushed(r) => PastFlush(r)'
         /\ TypeOK /\ [Next]_vars /\ PastFlush(r) => PastFlush(r)'
         /\ PastFlush(r) => ~Flushed(r)
         /\ NothingStuck /\ Flushed(r) => CanWork(r)
<1> USE DEF Flushed, PastFlush, Places
<1>1. ASSUME TypeOK, Work(r), Flushed(r)
      PROVE  PastFlush(r)'
  BY <1>1, WorkPath DEF IsAt, IsPast, Onward
<1>2. ASSUME TypeOK, [Next]_vars, Flushed(r)
      PROVE  Flushed(r)' \/ PastFlush(r)'
  BY <1>1, <1>2, RequestKeeps
<1>3. ASSUME TypeOK, Work(r), PastFlush(r)
      PROVE  PastFlush(r)'
  <2>1. Pending(r)
    BY <1>3, WorkFrom
  <2>2. PICK s \in Places : IsAt(r, s) /\ s \in {"committed", "refreshed", "ok", "error"}
    BY <1>3, <2>1 DEF Pending, IsAt
  <2>3. IsPast(r, s)'
    BY <1>3, <2>2, WorkPath
  <2> QED
    BY <2>2, <2>3 DEF IsPast, Onward
<1>4. ASSUME TypeOK, [Next]_vars, PastFlush(r)
      PROVE  PastFlush(r)'
  BY <1>3, <1>4, RequestKeeps
<1>5. NothingStuck /\ Flushed(r) => CanWork(r)
  BY DEF NothingStuck, Pending
<1> QED
  BY <1>1, <1>2, <1>4, <1>5

\* So from some point on nobody holds a row.
LEMMA FlushesEnd == Spec /\ []NothingStuck => \A r \in Req : EndsFlushed(r)
<1> SUFFICES ASSUME NEW d \in Req
             PROVE  Spec /\ []NothingStuck => EndsFlushed(d)
  OBVIOUS
<1>1. (\A r \in Req : Worked(r)) => Worked(d)
  OBVIOUS
<1>2. /\ TypeOK /\ [Next]_vars /\ Flushed(d) => Flushed(d)' \/ PastFlush(d)'
      /\ TypeOK /\ <<Work(d)>>_vars /\ Flushed(d) => PastFlush(d)'
      /\ TypeOK /\ [Next]_vars /\ PastFlush(d) => PastFlush(d)'
      /\ PastFlush(d) => ~Flushed(d)
      /\ NothingStuck /\ Flushed(d) => CanWork(d)
  BY FlushSteps
<1> QED
  BY <1>1, <1>2, TypeCorrect, PTL DEF Spec, Fairness, Worked, CanWork, EndsFlushed

\* While nobody holds a row every request goes on.
LEMMA PlacesEnd == Spec /\ []NothingStuck => \A r \in Req : \A s \in Places : PlaceEnds(r, s)
<1> SUFFICES ASSUME NEW d \in Req, NEW x \in Places
             PROVE  Spec /\ []NothingStuck => PlaceEnds(d, x)
  OBVIOUS
<1>1. (\A r \in Req : Worked(r)) => Worked(d)
  OBVIOUS
<1>2. NothingStuck /\ NoneFlushed /\ IsAt(d, x) => CanWork(d)
  BY DEF NothingStuck, NoneFlushed, Flushed, RowFree, IsAt, Places, Pending
<1>3. TypeOK /\ <<Work(d)>>_vars /\ IsAt(d, x) => IsPast(d, x)'
  BY WorkPath
<1>4. TypeOK /\ [Next]_vars /\ IsAt(d, x) => IsAt(d, x)' \/ IsPast(d, x)'
  BY WorkPath, RequestKeeps DEF IsAt, IsPast, Places, Onward
<1> QED
  BY <1>1, <1>2, <1>3, <1>4, TypeCorrect, PTL DEF Spec, Fairness, Worked, CanWork, PlaceEnds

\* So every request that is made is settled, and it is made once.
LEMMA RequestsEnd ==
  Spec /\ []NothingStuck /\ FlushedTogether => \A r \in Req : EndsPending(r)
<1> SUFFICES ASSUME NEW d \in Req
             PROVE  Spec /\ []NothingStuck /\ FlushedTogether => EndsPending(d)
  OBVIOUS
<1> DEFINE AllPlaces(r) ==
      /\ PlaceEnds(r, "sent") /\ PlaceEnds(r, "loaded") /\ PlaceEnds(r, "unchanged")
      /\ PlaceEnds(r, "flushed") /\ PlaceEnds(r, "committed") /\ PlaceEnds(r, "refreshed")
      /\ PlaceEnds(r, "ok") /\ PlaceEnds(r, "error")
<1>1. (\A r \in Req : \A s \in Places : PlaceEnds(r, s)) => AllPlaces(d)
  BY DEF Places
<1>2. Spec /\ []NothingStuck => AllPlaces(d)
  BY <1>1, PlacesEnd
<1>3. Spec /\ []NothingStuck /\ FlushedTogether => <>[]NoneFlushed
  BY FlushesEnd, PTL DEF FlushedTogether, NoneFlushed
<1>4. /\ IsPast(d, "sent") => IsAt(d, "loaded") \/ IsAt(d, "unchanged") \/ IsAt(d, "error")
      /\ IsPast(d, "loaded") => IsAt(d, "flushed") \/ IsAt(d, "error")
      /\ IsPast(d, "unchanged") => IsAt(d, "ok") \/ IsAt(d, "error")
      /\ IsPast(d, "flushed") => IsAt(d, "committed") \/ IsAt(d, "refreshed") \/ IsAt(d, "error")
      /\ IsPast(d, "committed") => IsAt(d, "refreshed") \/ IsAt(d, "error")
      /\ IsPast(d, "refreshed") => IsAt(d, "ok") \/ IsAt(d, "error")
      /\ IsPast(d, "ok") => IsAt(d, "done") \/ IsAt(d, "error")
      /\ IsPast(d, "error") => IsAt(d, "done")
  BY DEF IsAt, IsPast, Onward
<1>5. /\ TypeOK /\ [Next]_vars /\ IsAt(d, "done") => IsAt(d, "done")'
      /\ TypeOK /\ [Next]_vars /\ IsAt(d, "idle") => IsAt(d, "idle")' \/ IsAt(d, "sent")'
  BY RequestKeeps, WorkFrom DEF IsAt, Pending
<1>6. TypeOK => \/ IsAt(d, "idle") \/ IsAt(d, "sent") \/ IsAt(d, "loaded") \/ IsAt(d, "unchanged")
                \/ IsAt(d, "flushed") \/ IsAt(d, "committed") \/ IsAt(d, "refreshed") \/ IsAt(d, "ok")
                \/ IsAt(d, "error") \/ IsAt(d, "done")
  BY DEF TypeOK, IsAt
<1>7. IsAt(d, "idle") \/ IsAt(d, "done") => ~Pending(d)
  BY DEF IsAt, Pending
<1> QED
  BY <1>2, <1>3, <1>4, <1>5, <1>6, <1>7, TypeCorrect, PTL DEF Spec, PlaceEnds, EndsPending

(* No request is pending and no event is on its way to page p.             *)
Rest(p) == NonePending /\ inbox[p] = {}

Fewer(p, S)  == inbox[p] \subseteq S /\ inbox[p] # S
Vacant(p)    == inbox[p] = {}
PageKeeps(p) == UNCHANGED <<shown[p], fetch[p], answer[p], missed[p]>>

\* An event is missed; a read is asked for; the table as it stays has been read, and is on the page.
Missed(p)   == missed[p]
Asked(p)    == fetch[p] = "asked"
Arriving(p) == fetch[p] = "read" /\ answer[p] = status
Right(p)    == shown[p] \in {None, status} /\ (fetch[p] = "read" => answer[p] = status)
Corrected(p) == <>[]Rest(p) => Converges(p)

\* While no request is pending the table stands still, and each page is left
\* to itself.
LEMMA QuietStep ==
  ASSUME NEW p \in Page, TypeOK, [Next]_vars, NonePending, NonePending'
  PROVE  /\ status' = status
         /\ \/ PageKeeps(p) /\ inbox'[p] = inbox[p]
            \/ Receive(p) \/ Disconnect(p)
            \/ inbox'[p] = inbox[p] /\ (Read(p) \/ Show(p) \/ Refocus(p) \/ ReadFails(p))
<1> DEFINE Same == status' = status /\ PageKeeps(p) /\ inbox'[p] = inbox[p]
<1> USE DEF TypeOK
<1>1. ASSUME NEW r \in Req, Start(r)
      PROVE  FALSE
  <2>1. pc'[r] = "sent"
    BY <1>1 DEF Start, Drag, Edit, Create, Remove, Send, Goto
  <2> QED
    BY <2>1 DEF NonePending, Pending
<1>2. ASSUME NEW r \in Req, Work(r)
      PROVE  FALSE
  BY <1>2, WorkFrom DEF NonePending
<1>3. ASSUME NEW r \in Req, Abort(r) \/ FailAfterCommit(r) \/ AnswerLost(r)
      PROVE  FALSE
  BY <1>3 DEF NonePending, Pending, Abort, FailAfterCommit, AnswerLost, Goto
<1>4. ASSUME NEW q \in Page, Read(q) \/ Show(q) \/ Refocus(q) \/ ReadFails(q)
      PROVE  /\ status' = status
             /\ inbox'[p] = inbox[p]
             /\ q # p => PageKeeps(p)
  BY <1>4 DEF Read, Show, Refocus, ReadFails, db, socket, PageKeeps
<1>5. ASSUME NEW q \in Page, Receive(q) \/ Disconnect(q)
      PROVE  /\ status' = status
             /\ q # p => PageKeeps(p) /\ inbox'[p] = inbox[p]
  BY <1>5 DEF Receive, Deliver, Invalidate, FirstAnswer, Disconnect, Lose, db, PageKeeps
<1>6. ASSUME NEW q \in Page, Connect(q)
      PROVE  Same
  BY <1>6 DEF Connect, db, cache, PageKeeps
<1>7. CASE UNCHANGED vars
  BY <1>7 DEF vars, PageKeeps
<1> QED
  BY <1>1, <1>2, <1>3, <1>4, <1>5, <1>6, <1>7 DEF Next, Work

\* An event on its way is received, or lost with the socket; none is added.
LEMMA InboxSteps ==
  ASSUME NEW p \in Page, NEW S \in Inboxes, TypeOK
  PROVE  /\ [Next]_vars /\ NonePending /\ NonePending' /\ Holds(p, S) => Holds(p, S)' \/ Fewer(p, S)'
         /\ <<Receive(p)>>_vars /\ Holds(p, S) => Fewer(p, S)'
         /\ [Next]_vars /\ NonePending /\ NonePending' /\ Fewer(p, S) => Fewer(p, S)'
         /\ NothingStuck /\ Holds(p, S) => CanReceive(p)
<1> USE DEF TypeOK, Inboxes, Holds, Fewer
<1>1. ASSUME Receive(p)
      PROVE  inbox'[p] \subseteq inbox[p] /\ inbox'[p] # inbox[p]
  <2>1. PICK m \in Req : Deliver(p, m)
    BY <1>1 DEF Receive
  <2> QED
    BY <2>1 DEF Deliver
<1>2. ASSUME [Next]_vars, NonePending, NonePending'
      PROVE  inbox'[p] = inbox[p] \/ (inbox'[p] \subseteq inbox[p] /\ inbox'[p] # inbox[p])
  <2>1. Disconnect(p) => inbox'[p] = {}
    BY DEF Disconnect
  <2> QED
    BY <1>1, <1>2, <2>1, QuietStep
<1>3. NothingStuck /\ Holds(p, S) => CanReceive(p)
  BY DEF NothingStuck
<1> QED
  BY <1>1, <1>2, <1>3

\* So from some point on nothing is on its way to the page.
LEMMA InboxEmpties ==
  Spec /\ []NothingStuck /\ <>[]NonePending => \A p \in Page : \A S \in Inboxes : Empties(p, S)
<1> SUFFICES ASSUME NEW d \in Page, NEW X \in Inboxes
             PROVE  Spec /\ []NothingStuck /\ <>[]NonePending => Empties(d, X)
  OBVIOUS
<1>1. (\A p \in Page : Receives(p)) => Receives(d)
  OBVIOUS
<1>2. /\ TypeOK /\ [Next]_vars /\ NonePending /\ NonePending' /\ Holds(d, X) => Holds(d, X)' \/ Fewer(d, X)'
      /\ TypeOK /\ <<Receive(d)>>_vars /\ Holds(d, X) => Fewer(d, X)'
      /\ TypeOK /\ [Next]_vars /\ NonePending /\ NonePending' /\ Fewer(d, X) => Fewer(d, X)'
      /\ TypeOK /\ NothingStuck /\ Holds(d, X) => CanReceive(d)
  BY InboxSteps
<1>3. Fewer(d, X) => ~Holds(d, X)
  BY DEF Fewer, Holds
<1> QED
  BY <1>1, <1>2, <1>3, TypeCorrect, PTL DEF Spec, Fairness, Receives, CanReceive, Empties

\* A page whose board needs correcting, while nothing more will change: its
\* event is lost, it has asked, or the answer on its way is right.
LEMMA RestCases ==
  ASSUME NEW p \in Page, IInv, Rest(p)
  PROVE  missed[p] \/ Asked(p) \/ Arriving(p) \/ Right(p)
<1> SUFFICES ASSUME ~missed[p], ~Asked(p)
             PROVE  Arriving(p) \/ Right(p)
  OBVIOUS
<1> USE DEF IInv, TypeOK
<1>1. \A t \in Task : ~BeingTold(p, t)
  BY DEF BeingTold, Unannounced, Rest, NonePending, Pending
<1>2. ~Dragging(p)
  BY DEF Dragging, Rest, NonePending
<1>3. CASE fetch[p] = "read"
  <2>1. answer[p] \in Board /\ status \in Board
    BY <1>3 DEF AnswerInv
  <2>2. \A t \in Task : answer[p][t] = status[t]
    BY <1>1, <1>3 DEF StaleOnlyWithCause, AnswerHasCause
  <2> QED
    BY <1>3, <2>1, <2>2 DEF Board, Arriving
<1>4. CASE fetch[p] = "none" /\ shown[p] # None
  <2>1. shown[p] \in Board /\ status \in Board
    BY <1>4
  <2>2. \A t \in Task : shown[p][t] = status[t]
    BY <1>1, <1>2, <1>4 DEF StaleOnlyWithCause, CardHasCause
  <2> QED
    BY <1>4, <2>1, <2>2 DEF Board, Right
<1>5. CASE fetch[p] = "none" /\ shown[p] = None
  BY <1>5 DEF Right
<1> QED
  BY <1>3, <1>4, <1>5 DEF Asked

\* How such a page is corrected, and that a board that is right stays so.
LEMMA RestSteps ==
  ASSUME NEW p \in Page
  PROVE  /\ TypeOK /\ [Next]_vars /\ Rest(p) /\ Rest(p)' /\ Right(p) => Right(p)'
         /\ TypeOK /\ [Next]_vars /\ Rest(p) /\ Rest(p)' /\ Arriving(p) => Arriving(p)' \/ Right(p)'
         /\ TypeOK /\ [Next]_vars /\ Rest(p) /\ Rest(p)' /\ Missed(p) => Missed(p)' \/ Arriving(p)'
         /\ TypeOK /\ [Next]_vars /\ Rest(p) /\ Rest(p)' /\ Asked(p) => Asked(p)' \/ Arriving(p)' \/ Missed(p)'
         /\ TypeOK /\ <<Read(p)>>_vars => Arriving(p)'
         /\ TypeOK /\ <<Show(p)>>_vars /\ Arriving(p) => Right(p)'
         /\ NothingStuck /\ Asked(p) => CanRead(p)
         /\ NothingStuck /\ Arriving(p) => CanShow(p)
         /\ Missed(p) \/ Right(p) => Converged(p)
<1> USE DEF TypeOK
<1>1. ASSUME TypeOK, Read(p)
      PROVE  Arriving(p)' /\ shown' = shown /\ status' = status
  BY <1>1 DEF Read, Arriving, db
<1>2. ASSUME TypeOK, Show(p)
      PROVE  /\ Arriving(p) => Right(p)'
             /\ Right(p) => Right(p)'
             /\ missed' = missed
             /\ ~Asked(p)
  BY <1>2 DEF Show, Arriving, Right, Asked, db
<1>3. ASSUME TypeOK, Refocus(p)
      PROVE  /\ ~Arriving(p) /\ ~Asked(p)
             /\ Right(p) => Right(p)'
             /\ missed' = missed
  BY <1>3 DEF Refocus, Arriving, Right, Asked, db
<1>4. ASSUME TypeOK, ReadFails(p)
      PROVE  /\ ~Arriving(p)
             /\ Right(p) => Right(p)'
             /\ Missed(p)'
  BY <1>4 DEF ReadFails, Arriving, Right, Missed, db
<1>5. ASSUME TypeOK, [Next]_vars, Rest(p), Rest(p)'
      PROVE  \/ PageKeeps(p) /\ status' = status
             \/ Read(p) \/ Show(p) \/ Refocus(p) \/ ReadFails(p)
  <2>1. ~Receive(p)
    BY <1>5 DEF Receive, Deliver, Rest
  <2>2. Disconnect(p) => PageKeeps(p)
    BY <1>5 DEF Disconnect, Lose, Rest, PageKeeps
  <2> QED
    BY <1>5, <2>1, <2>2, QuietStep DEF Rest
<1>6. ASSUME PageKeeps(p), status' = status
      PROVE  /\ Right(p)' <=> Right(p)
             /\ Arriving(p)' <=> Arriving(p)
             /\ Asked(p)' <=> Asked(p)
             /\ Missed(p)' <=> Missed(p)
  BY <1>6 DEF PageKeeps, Right, Arriving, Asked, Missed
<1>7. NothingStuck => (Asked(p) => CanRead(p)) /\ (Arriving(p) => CanShow(p))
  BY DEF NothingStuck, Asked, Arriving
<1> QED
  BY <1>1, <1>2, <1>3, <1>4, <1>5, <1>6, <1>7 DEF Right, Arriving, Missed, Converged

\* Each page: once nothing more changes and nothing is on its way to it, its
\* board gets right and stays so, or it has missed the event for good.
LEMMA RestConverges ==
  Spec /\ []NothingStuck => \A p \in Page : Corrected(p)
<1> SUFFICES ASSUME NEW d \in Page
             PROVE  Spec /\ []NothingStuck => Corrected(d)
  OBVIOUS
<1>1. (\A p \in Page : Reads(p)) => Reads(d)
  OBVIOUS
<1>2. (\A p \in Page : Shows(p)) => Shows(d)
  OBVIOUS
<1>3. IInv /\ Rest(d) => Missed(d) \/ Asked(d) \/ Arriving(d) \/ Right(d)
  BY RestCases DEF Missed
<1>4. /\ TypeOK /\ [Next]_vars /\ Rest(d) /\ Rest(d)' /\ Right(d) => Right(d)'
      /\ TypeOK /\ [Next]_vars /\ Rest(d) /\ Rest(d)' /\ Arriving(d) => Arriving(d)' \/ Right(d)'
      /\ TypeOK /\ [Next]_vars /\ Rest(d) /\ Rest(d)' /\ Missed(d) => Missed(d)' \/ Arriving(d)'
      /\ TypeOK /\ [Next]_vars /\ Rest(d) /\ Rest(d)' /\ Asked(d) => Asked(d)' \/ Arriving(d)' \/ Missed(d)'
      /\ TypeOK /\ <<Read(d)>>_vars => Arriving(d)'
      /\ TypeOK /\ <<Show(d)>>_vars /\ Arriving(d) => Right(d)'
      /\ NothingStuck /\ Asked(d) => CanRead(d)
      /\ NothingStuck /\ Arriving(d) => CanShow(d)
      /\ Missed(d) \/ Right(d) => Converged(d)
  BY RestSteps
<1> QED
  BY <1>1, <1>2, <1>3, <1>4, TypeCorrect, IInvHolds, PTL
     DEF Spec, Fairness, Reads, Shows, CanRead, CanShow, Converges, Corrected

(* In the end every page that has not lost an event shows the table: on    *)
(* any pages, with any requests and any failures.  That what is ready can  *)
(* be done, and that finitely many things that end, end together, are      *)
(* hypotheses.                                                             *)
THEOREM EventuallyConvergedEver == Spec /\ []NothingStuck /\ AllTogether => EventuallyConverged
<1>1. Spec /\ []NothingStuck /\ AllTogether => <>[]NonePending
  BY RequestsEnd, PTL DEF AllTogether, PendingTogether, NonePending
<1>2. Spec /\ []NothingStuck /\ AllTogether => \A p \in Page : Converges(p)
  <2> SUFFICES ASSUME NEW d \in Page
               PROVE  Spec /\ []NothingStuck /\ AllTogether => Converges(d)
    OBVIOUS
  <2>1. Spec /\ []NothingStuck /\ AllTogether => \A S \in Inboxes : Empties(d, S)
    BY <1>1, InboxEmpties
  <2>2. AllTogether => EmptyTogether(d)
    BY DEF AllTogether
  <2>3. TypeOK /\ (\A S \in Inboxes : ~Holds(d, S)) => Vacant(d)
    BY DEF Holds, Inboxes, TypeOK, Vacant
  <2>4. NonePending /\ Vacant(d) => Rest(d)
    BY DEF Vacant, Rest
  <2>5. Spec /\ []NothingStuck => Corrected(d)
    BY RestConverges
  <2> QED
    BY <1>1, <2>1, <2>2, <2>3, <2>4, <2>5, TypeCorrect, PTL DEF EmptyTogether, Corrected
<1> QED
  BY <1>2, PTL DEF AllTogether, PagesTogether, EventuallyConverged

=============================================================================
