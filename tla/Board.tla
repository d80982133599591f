-------------------------------- MODULE Board --------------------------------
(***************************************************************************)
(* The task table and the boards that show it.  Every open project page    *)
(* keeps the tasks in react-query's cache: read once, then read again      *)
(* whenever something says it is out of date (the page's own change, an    *)
(* event on the project's socket), and written ahead of the server by a    *)
(* drag.  The server changes the table in transactions and publishes what  *)
(* it changed after the commit; ProjectRoom models that channel, which is  *)
(* here an inbox per connected page.                                       *)
(*                                                                         *)
(* Of a task only the status is kept, and of a page only the cache entry   *)
(* of the filters it has set.  A request changes one task and is made      *)
(* once.                                                                   *)
(***************************************************************************)
EXTENDS Naturals

CONSTANTS
  Task,     \* tasks of one project that there are or may be
  Status,   \* the columns of the board
  Todo,     \* the one a new task is put in
  Page,     \* open project pages
  Req,      \* requests the pages make
  Absent,   \* the status of a task that has no row
  None,     \* no board, no answer, no request
  Faults    \* which of "database", "redis", "network" and "socket" may fail

Board == [Task -> Status \cup {Absent}]

ASSUME StatusAssumption == Todo \in Status /\ "unborn" \notin Status /\ "dead" \notin Status
ASSUME AbsentAssumption == Absent \notin Status
ASSUME FaultsAssumption == Faults \subseteq {"database", "redis", "network", "socket"}

Kind == {"drag", "edit", "create", "delete"}
Job == [kind: Kind, page: Page, task: Task, to: Status, previous: Board \cup {None}]

ASSUME NoneAssumption == None \notin Board \cup Job

VARIABLES
  status,    \* committed status of each task
  used,      \* task ids ever generated
  pc,        \* what request r is about to do
  job,       \* what r asks for, and the board its drag replaced
  shown,     \* the board in the cache of each page
  fetch,     \* the page's read of the list: none, asked for, read by the server
  answer,    \* what the server read
  live,      \* pages whose socket is in the project's room
  inbox,     \* requests whose event is on its way to the page
  missed     \* history: an event never reached p, and p has not read since

db     == <<status, used>>
cache  == <<fetch, answer, missed>>
socket == <<live, inbox>>
vars   == <<status, used, pc, job, shown, fetch, answer, live, inbox, missed>>

TypeOK ==
  /\ status \in Board
  /\ used \in SUBSET Task
  /\ pc \in [Req -> {"idle", "sent", "loaded", "unchanged", "flushed", "committed",
                     "refreshed", "ok", "error", "done"}]
  /\ job \in [Req -> Job \cup {None}]
  /\ \A r \in Req : job[r] = None <=> pc[r] \in {"idle", "done"}
  /\ shown \in [Page -> Board \cup {None}]
  /\ fetch \in [Page -> {"none", "asked", "read"}]
  /\ answer \in [Page -> Board \cup {None}]
  /\ live \in SUBSET Page
  /\ inbox \in [Page -> SUBSET Req]
  /\ missed \in [Page -> BOOLEAN]

(* Every page has just been opened: the list is asked for while its socket *)
(* connects.                                                               *)
Init ==
  /\ status \in Board
  /\ used = {t \in Task : status[t] # Absent}
  /\ pc = [r \in Req |-> "idle"]
  /\ job = [r \in Req |-> None]
  /\ shown = [p \in Page |-> None]
  /\ fetch = [p \in Page |-> "asked"]
  /\ answer = [p \in Page |-> None]
  /\ live = {}
  /\ inbox = [p \in Page |-> {}]
  /\ missed = [p \in Page |-> FALSE]

Goto(r, from, to) ==
  /\ pc[r] = from
  /\ pc' = [pc EXCEPT ![r] = to]

(* The answer to the very first read is on its way.                        *)
FirstAnswer(p) == shown[p] = None /\ fetch[p] = "read"

(* An event is lost on the pages in ps; one that has still to read the     *)
(* list needs none.                                                        *)
Lose(ps) == missed' = [p \in Page |-> missed[p] \/ (p \in ps /\ fetch[p] # "asked")]

Send(r, p, k, t, s, board) ==
  /\ Goto(r, "idle", "sent")
  /\ job' = [job EXCEPT ![r] =
               [kind |-> k, page |-> p, task |-> t, to |-> s, previous |-> board]]

OnBoard(p, t) == shown[p] # None /\ shown[p][t] # Absent

Pending(r) == pc[r] \notin {"idle", "done"}

(* The task of r in the table after what r asks for.                       *)
After(r) == IF job[r].kind = "delete" THEN Absent ELSE job[r].to

(* A flush holds the row lock of its task until the transaction ends.      *)
RowFree(r) == \A q \in Req : pc[q] = "flushed" => job[q].task # job[r].task

-----------------------------------------------------------------------------
(* Changed forms of steps below, for checking that the properties notice.  *)

(* The page keeps a request that has settled.                              *)
SettledKept(r, outcome) ==
  /\ Goto(r, outcome, "done")
  /\ UNCHANGED job

(* The row is written whether or not it is still there.                    *)
FlushUpserts(r) ==
  /\ Goto(r, "loaded", "flushed")
  /\ RowFree(r)
  /\ UNCHANGED <<db, job, shown, cache, socket>>

(* invalidateQueries with cancelRefetch: false.                            *)
InvalidateKeepingFetch(p) ==
  /\ fetch' = [fetch EXCEPT ![p] = IF @ = "none" THEN "asked" ELSE @]
  /\ missed' = [missed EXCEPT ![p] = @ \/ FirstAnswer(p)]
  /\ UNCHANGED answer

-----------------------------------------------------------------------------

(* The page forgets a request that has settled.                            *)
Settled(r, outcome) ==
  /\ Goto(r, outcome, "done")
  /\ job' = [job EXCEPT ![r] = None]

(* queryClient.invalidateQueries: a read in flight is dropped and started  *)
(* afresh, unless it is the first one: then the query keeps waiting for it *)
(* and takes its answer for fresh.                                         *)
Invalidate(p) ==
  /\ fetch' = [fetch EXCEPT ![p] = IF FirstAnswer(p) THEN "read" ELSE "asked"]
  /\ answer' = [answer EXCEPT ![p] = IF FirstAnswer(p) THEN @ ELSE None]
  /\ missed' = [missed EXCEPT ![p] = @ \/ FirstAnswer(p)]

(* A changed form of RollBack: onSuccess reads the board again instead of  *)
(* onSettled.                                                              *)
RollBackOnly(r) ==
  /\ Settled(r, "error")
  /\ job[r].kind = "drag"
  /\ shown' = [shown EXCEPT ![job[r].page] = job[r].previous]
  /\ UNCHANGED <<db, cache, socket>>

-----------------------------------------------------------------------------
(* What a user does on page p.                                             *)

(* A card is dropped on another column.  onMutate drops the reads in       *)
(* flight, keeps the board for a rollback and moves the card at once.      *)
Drag(r, p, t, s) ==
  /\ OnBoard(p, t)
  /\ shown[p][t] # s
  /\ Send(r, p, "drag", t, s, shown[p])
  /\ fetch' = [fetch EXCEPT ![p] = "none"]
  /\ answer' = [answer EXCEPT ![p] = None]
  /\ shown' = [shown EXCEPT ![p][t] = s]
  /\ UNCHANGED <<db, socket, missed>>

(* The detail panel of a task changes or deletes it.                       *)
Edit(r, p, t, s) ==
  /\ OnBoard(p, t)
  /\ Send(r, p, "edit", t, s, None)
  /\ UNCHANGED <<db, shown, cache, socket>>

Remove(r, p, t) ==
  /\ OnBoard(p, t)
  /\ Send(r, p, "delete", t, Todo, None)
  /\ UNCHANGED <<db, shown, cache, socket>>

(* The form is disabled while its last request is pending.                 *)
Create(r, p, t) ==
  /\ t \notin used
  /\ ~ \E q \in Req : Pending(q) /\ job[q].kind = "create" /\ job[q].page = p
  /\ Send(r, p, "create", t, Todo, None)
  /\ used' = used \cup {t}
  /\ UNCHANGED <<status, shown, cache, socket>>

-----------------------------------------------------------------------------
(* What the server does with it.                                           *)

NotFound(r) == job[r].kind # "create" /\ status[job[r].task] = Absent
NoChange(r) == job[r].kind \in {"drag", "edit"} /\ status[job[r].task] = job[r].to

(* require_task_project_role loads the task, or answers 404; update_task   *)
(* finds out what changes by comparing with what was loaded.               *)
Load(r) ==
  /\ pc[r] = "sent"
  /\ Goto(r, "sent", IF NotFound(r) THEN "error"
                      ELSE IF NoChange(r) THEN "unchanged" ELSE "loaded")
  /\ UNCHANGED <<db, job, shown, cache, socket>>

(* An update of a row deleted since it was loaded raises; a delete of one  *)
(* only warns.                                                             *)
Flush(r) ==
  /\ pc[r] = "loaded"
  /\ RowFree(r)
  /\ Goto(r, "loaded",
          IF job[r].kind \in {"drag", "edit"} /\ status[job[r].task] = Absent
          THEN "error" ELSE "flushed")
  /\ UNCHANGED <<db, job, shown, cache, socket>>

Commit(r) ==
  /\ pc[r] = "flushed"
  /\ Goto(r, "flushed", IF job[r].kind = "delete" THEN "refreshed" ELSE "committed")
  /\ status' = [status EXCEPT ![job[r].task] = After(r)]
  /\ UNCHANGED <<used, job, shown, cache, socket>>

(* db.refresh raises when the row has been deleted since the commit; an    *)
(* update that changed nothing answers without an event.                   *)
Refresh(r) ==
  /\ \/ Goto(r, "unchanged", IF status[job[r].task] = Absent THEN "error" ELSE "ok")
     \/ Goto(r, "committed", IF status[job[r].task] = Absent THEN "error" ELSE "refreshed")
  /\ UNCHANGED <<db, job, shown, cache, socket>>

(* The event reaches the pages that are in the room.                       *)
Publish(r) ==
  /\ Goto(r, "refreshed", "ok")
  /\ inbox' = [p \in Page |-> IF p \in live THEN inbox[p] \cup {r} ELSE inbox[p]]
  /\ Lose(Page \ live)
  /\ UNCHANGED <<db, job, shown, fetch, answer, live>>

-----------------------------------------------------------------------------
(* What the page does with the answer and with events.                     *)

(* onSuccess of every mutation, onSettled of the drag.                     *)
Succeed(r) ==
  /\ Settled(r, "ok")
  /\ Invalidate(job[r].page)
  /\ UNCHANGED <<db, shown, socket>>

(* A drag that failed puts the board back as it was before the drag and    *)
(* reads it again; the other mutations only say that they failed.          *)
RollBack(r) ==
  /\ Settled(r, "error")
  /\ job[r].kind = "drag"
  /\ shown' = [shown EXCEPT ![job[r].page] = job[r].previous]
  /\ Invalidate(job[r].page)
  /\ UNCHANGED <<db, socket>>

GiveUp(r) ==
  /\ Settled(r, "error")
  /\ job[r].kind # "drag"
  /\ UNCHANGED <<db, shown, cache, socket>>

(* The server reads the list for page p.                                   *)
Read(p) ==
  /\ fetch[p] = "asked"
  /\ fetch' = [fetch EXCEPT ![p] = "read"]
  /\ answer' = [answer EXCEPT ![p] = status]
  /\ missed' = [missed EXCEPT ![p] = FALSE]
  /\ UNCHANGED <<db, pc, job, shown, socket>>

Show(p) ==
  /\ fetch[p] = "read"
  /\ fetch' = [fetch EXCEPT ![p] = "none"]
  /\ answer' = [answer EXCEPT ![p] = None]
  /\ shown' = [shown EXCEPT ![p] = answer[p]]
  /\ UNCHANGED <<db, pc, job, missed, socket>>

(* task_created, task_updated or task_deleted.                             *)
Deliver(p, m) ==
  /\ m \in inbox[p]
  /\ inbox' = [inbox EXCEPT ![p] = @ \ {m}]
  /\ Invalidate(p)
  /\ UNCHANGED <<db, pc, job, shown, live>>

(* The window gets the focus back.                                         *)
Refocus(p) ==
  /\ fetch[p] = "none"
  /\ fetch' = [fetch EXCEPT ![p] = "asked"]
  /\ UNCHANGED <<db, pc, job, shown, answer, missed, socket>>

(* The socket opens, for the first time or again: nothing is read for it.  *)
Connect(p) ==
  /\ p \notin live
  /\ live' = live \cup {p}
  /\ UNCHANGED <<db, pc, job, shown, cache, inbox>>

-----------------------------------------------------------------------------
(* Failures.                                                               *)

(* A statement or the commit raises, or the request never gets there.      *)
Abort(r) ==
  /\ "database" \in Faults
  /\ pc[r] \in {"sent", "loaded", "unchanged", "flushed"}
  /\ pc' = [pc EXCEPT ![r] = "error"]
  /\ UNCHANGED <<db, job, shown, cache, socket>>

(* The refresh or the publish raises, or the process dies, after the       *)
(* commit: nobody is told of the change, its author included.              *)
FailAfterCommit(r) ==
  /\ "redis" \in Faults
  /\ pc[r] \in {"committed", "refreshed"}
  /\ pc' = [pc EXCEPT ![r] = "error"]
  /\ Lose(Page)
  /\ UNCHANGED <<db, job, shown, fetch, answer, socket>>

AnswerLost(r) ==
  /\ "network" \in Faults
  /\ Goto(r, "ok", "error")
  /\ UNCHANGED <<db, job, shown, cache, socket>>

(* The read and its retry fail.                                            *)
ReadFails(p) ==
  /\ "network" \in Faults
  /\ fetch[p] = "asked"
  /\ fetch' = [fetch EXCEPT ![p] = "none"]
  /\ missed' = [missed EXCEPT ![p] = TRUE]
  /\ UNCHANGED <<db, pc, job, shown, answer, socket>>

(* The socket closes with what was on its way.                             *)
Disconnect(p) ==
  /\ "socket" \in Faults
  /\ p \in live
  /\ live' = live \ {p}
  /\ inbox' = [inbox EXCEPT ![p] = {}]
  /\ Lose({q \in {p} : inbox[q] # {}})
  /\ UNCHANGED <<db, pc, job, shown, fetch, answer>>

-----------------------------------------------------------------------------

Start(r) ==
  \E p \in Page, t \in Task :
    \/ \E s \in Status : Drag(r, p, t, s) \/ Edit(r, p, t, s)
    \/ Create(r, p, t)
    \/ Remove(r, p, t)

Serve(r) == Load(r) \/ Flush(r) \/ Commit(r) \/ Refresh(r) \/ Publish(r)
Settle(r) == Succeed(r) \/ RollBack(r) \/ GiveUp(r)
Receive(p) == \E m \in Req : Deliver(p, m)

Next ==
  \/ \E r \in Req : Start(r) \/ Serve(r) \/ Settle(r)
                     \/ Abort(r) \/ FailAfterCommit(r) \/ AnswerLost(r)
  \/ \E p \in Page : Read(p) \/ Show(p) \/ Receive(p) \/ Refocus(p) \/ Connect(p)
                     \/ ReadFails(p) \/ Disconnect(p)

(* Event loops and the browser's task queue run what is ready; a request   *)
(* is made once, so the row it waits for is free in the end.               *)
Work(r) == Serve(r) \/ Settle(r)

Worked(r)   == WF_vars(Work(r))
Reads(p)    == WF_vars(Read(p))
Shows(p)    == WF_vars(Show(p))
Receives(p) == WF_vars(Receive(p))

Fairness ==
  /\ \A r \in Req : Worked(r)
  /\ \A p \in Page : Reads(p)
  /\ \A p \in Page : Shows(p)
  /\ \A p \in Page : Receives(p)

Spec == Init /\ [][Next]_vars /\ Fairness

-----------------------------------------------------------------------------
(* Properties.                                                             *)

(* A committed change nobody has been told of yet; an update whose row has *)
(* been deleted since is told of by the deletion.                          *)
Unannounced(r, t) ==
  /\ \/ pc[r] = "committed" /\ status[t] # Absent
     \/ pc[r] = "refreshed"
  /\ job[r].task = t

BeingTold(p, t) ==
  \/ missed[p]
  \/ inbox[p] # {}
  \/ \E r \in Req : Unannounced(r, t)

Dragging(p) == \E r \in Req : Pending(r) /\ job[r].kind = "drag" /\ job[r].page = p

CardHasCause(p, t) ==
  shown[p] # None /\ shown[p][t] # status[t] =>
    fetch[p] # "none" \/ Dragging(p) \/ BeingTold(p, t)

AnswerHasCause(p, t) ==
  fetch[p] = "read" /\ answer[p][t] # status[t] => BeingTold(p, t)

(* A card that differs from the table has a cause that will correct it: a  *)
(* read in flight, a drag of the page's own that has not settled, an event *)
(* or a commit on its way to the page.  Otherwise the page has lost an     *)
(* event.  The same of an answer on its way, which a drag does not excuse. *)
StaleOnlyWithCause == \A p \in Page, t \in Task : CardHasCause(p, t) /\ AnswerHasCause(p, t)

(* In the end every page that has not lost an event shows the table,       *)
(* whatever failed and in whichever order answers and events came.         *)
Converged(p) == shown[p] \in {None, status} \/ missed[p]
EventuallyConverged == <>[](\A p \in Page : Converged(p))

(* What is ready can be done: only a request that waits for a row lock is  *)
(* not.                                                                    *)
CanWork(r)    == ENABLED <<Work(r)>>_vars
CanRead(p)    == ENABLED <<Read(p)>>_vars
CanShow(p)    == ENABLED <<Show(p)>>_vars
CanReceive(p) == ENABLED <<Receive(p)>>_vars
NothingStuck ==
  /\ \A r \in Req : Pending(r) /\ (pc[r] = "loaded" => RowFree(r)) => CanWork(r)
  /\ \A p \in Page : /\ fetch[p] = "asked" => CanRead(p)
                     /\ fetch[p] = "read" => CanShow(p)
                     /\ inbox[p] # {} => CanReceive(p)

(* What holds of each request, of each page, and of each set a page's      *)
(* inbox may be, from some point on, holds of all of them together from    *)
(* some point on: laws of temporal logic, as these are finitely many.      *)
Flushed(r)      == pc[r] = "flushed"
EndsFlushed(r)  == <>[]~Flushed(r)
EndsPending(r)  == <>[]~Pending(r)
Converges(p)    == <>[]Converged(p)
Inboxes         == (SUBSET Req) \ {{}}
Holds(p, S)     == inbox[p] = S
Empties(p, S)   == <>[]~Holds(p, S)
FlushedTogether == (\A r \in Req : EndsFlushed(r)) => <>[](\A r \in Req : ~Flushed(r))
PendingTogether == (\A r \in Req : EndsPending(r)) => <>[](\A r \in Req : ~Pending(r))
PagesTogether   == (\A p \in Page : Converges(p)) => <>[](\A p \in Page : Converged(p))
EmptyTogether(p) == (\A S \in Inboxes : Empties(p, S)) => <>[](\A S \in Inboxes : ~Holds(p, S))
AllTogether ==
  FlushedTogether /\ PendingTogether /\ PagesTogether /\ \A p \in Page : EmptyTogether(p)

(* The table as one atomic object: what the requests do to it one at a     *)
(* time, and never to a task that has been deleted.                        *)
Creating(t) ==
  \E r \in Req :
    /\ Pending(r)
    /\ job[r].kind = "create" /\ job[r].task = t
    /\ pc[r] \in {"sent", "loaded", "flushed"}

Life == [t \in Task |->
          IF status[t] # Absent THEN status[t]
          ELSE IF t \in used /\ ~ Creating(t) THEN "dead" ELSE "unborn"]

Table == INSTANCE TaskTable WITH life <- Life
ImplementsTaskTable == Table!Spec

=============================================================================
