---------------------------- MODULE Notifications ----------------------------
(***************************************************************************)
(* Notifications: what happens after a comment, an invitation, an          *)
(* assignment or the daily reminder.  The change is committed first; then, *)
(* for each recipient in turn, a row is committed, its event is published  *)
(* and a mail is queued.  No transaction spans these steps: whatever fails *)
(* ends the rest of them.                                                  *)
(*                                                                         *)
(* A user's tabs hear the events over a socket and read the unread rows    *)
(* again; the panel marks rows as read, one or all of them.                *)
(***************************************************************************)
EXTENDS Naturals, Sequences, FiniteSets

CONSTANTS
  User,      \* accounts
  Stranger,  \* an e-mail address without an account
  Task,      \* the tasks of one project
  Founders,  \* its first members, and those of its workspace
  Assigned,  \* to whom each task is assigned at first
  DueOn,     \* the day each task is due at first, 0 for none
  LastDay,   \* the last day of a behaviour
  Job,       \* requests, and runs of the reminder
  Asks,      \* what the jobs may be together
  Tab,       \* browser tabs
  Owner,     \* whose tab each is
  Faults     \* what may fail: "server", "listener", "socket", "database"

(* What may lead to notifications; creating and updating a task lead to    *)
(* those of type task_assigned.                                            *)
Kind == {"mention", "workspace_invite", "project_invite",
         "task_created", "task_updated", "task_due_soon"}
Scope == {"workspace", "project"}

Option(S) == {s \in Seq(S) : Len(s) <= 1}

(* What a job asks for.  to are the addresses mentioned or invited, or the *)
(* assignee (the Stranger is nobody); to, due and done are the fields of a *)
(* task, where empty those an update leaves as they are.  due of a run of  *)
(* the reminder is the day its message was queued.                         *)
Ask == [type: Kind, actor: User, task: Task, to: Seq(User \cup {Stranger}),
        due: Option(Nat), done: Option(BOOLEAN)]

ASSUME FoundersAssumption == Founders \subseteq User /\ Stranger \notin User
ASSUME TaskAssumption     == Assigned \in [Task -> Founders \cup {Stranger}] /\ DueOn \in [Task -> Nat]
ASSUME DayAssumption      == LastDay \in Nat
ASSUME OwnerAssumption    == Owner \in [Tab -> User]
ASSUME FiniteAssumption   == IsFiniteSet(Task)

(* A comment's mentions are taken once each; invitations and tasks have    *)
(* one address.  A task is created once, and has no assignee or due date   *)
(* before; the beat queues the reminder once a day.                        *)
ASSUME AsksAssumption ==
  /\ Asks \subseteq [Job -> Ask]
  /\ \A ask \in Asks, j \in Job :
       /\ \A i, k \in DOMAIN ask[j].to : ask[j].to[i] = ask[j].to[k] => i = k
       /\ ask[j].type \in {"workspace_invite", "project_invite", "task_created"} => Len(ask[j].to) = 1
       /\ ask[j].type = "task_updated" => Len(ask[j].to) <= 1
       /\ ask[j].type \in {"task_created", "task_due_soon"} => ask[j].due # <<>>
       /\ ask[j].type = "task_created" =>
            ask[j].done # <<>> /\ Assigned[ask[j].task] = Stranger /\ DueOn[ask[j].task] = 0
       /\ \A k \in Job \ {j} : ask[k].type = ask[j].type =>
            /\ ask[j].type = "task_created" => ask[k].task # ask[j].task
            /\ ask[j].type = "task_due_soon" => ask[k].due # ask[j].due

VARIABLES
  members,       \* the members of the project and of the workspace
  comments,      \* the committed comments, by the job that added them
  assignee, due, \* of each task
  finished,      \* the tasks that are done
  log,           \* the activity entries, by the job that added them
  notifications, \* the committed rows
  read,          \* those with a read_at
  mails,         \* the mails queued for the worker, each for a row
  today,         \* the date
  job, pc,       \* what each job is, and how far
  saw,           \* the task as an update loaded it; the date a run looks for
  list, next,    \* whom it tells of what, and the one it is at
  wire,          \* events published and not relayed yet to a tab
  open,          \* the tabs whose socket is open
  inbox,         \* events sent to a tab and not handled yet
  fetch, found,  \* a tab's query in flight, and the unread rows it found
  loaded, shown, \* whether a tab has an answer, and the unread rows it shows
  mark, chosen,  \* the panel's request in flight, and the rows it selected
  missed         \* history: news that did not make a tab read again

cause  == <<members, comments, assignee, due, finished, log, today>>
jobs   == <<job, pc, saw, list, next>>
cache  == <<fetch, found, loaded, shown>>
panel  == <<mark, chosen>>
socket == <<wire, open, inbox, missed>>
vars   == <<cause, notifications, read, mails, jobs, cache, panel, socket>>

Row          == [assignee: User \cup {Stranger}, due: Nat, done: BOOLEAN]
Recipient    == [user: User \cup {Stranger}, task: Task]
Notification == [job: Job, n: Nat, user: User, task: Task]

TypeOK ==
  /\ members \in [Scope -> SUBSET User]
  /\ comments \subseteq Job /\ log \subseteq Job
  /\ assignee \in [Task -> User \cup {Stranger}] /\ due \in [Task -> Nat] /\ finished \subseteq Task
  /\ notifications \subseteq Notification
  /\ read \subseteq notifications /\ mails \subseteq notifications
  /\ today \in 0 .. LastDay
  /\ job \in [Job -> Ask] /\ saw \in [Job -> Row]
  /\ pc \in [Job -> {"idle", "loaded", "updated", "dated", "committed", "looking", "creating",
                     "stored", "published", "done", "refused", "failed"}]
  /\ list \in [Job -> Seq(Recipient)] /\ next \in [Job -> Nat]
  /\ wire \subseteq notifications \X Tab /\ missed \subseteq notifications \X Tab
  /\ open \subseteq Tab
  /\ inbox \in [Tab -> SUBSET notifications]
  /\ fetch \in [Tab -> {"none", "asked", "answered"}] /\ found \in [Tab -> SUBSET notifications]
  /\ loaded \subseteq Tab /\ shown \in [Tab -> SUBSET notifications]
  /\ mark \in [Tab -> {"none", "selected", "marked"}] /\ chosen \in [Tab -> SUBSET notifications]

Init ==
  /\ members = [s \in Scope |-> Founders]
  /\ comments = {} /\ log = {} /\ notifications = {} /\ read = {} /\ mails = {}
  /\ assignee = Assigned /\ due = DueOn /\ finished = {}
  /\ today = 0
  /\ job \in Asks /\ pc = [j \in Job |-> "idle"]
  /\ saw = [j \in Job |-> [assignee |-> Stranger, due |-> 0, done |-> FALSE]]
  /\ list = [j \in Job |-> <<>>] /\ next = [j \in Job |-> 1]
  /\ wire = {} /\ missed = {} /\ open = {} /\ inbox = [t \in Tab |-> {}]
  /\ fetch = [t \in Tab |-> "asked"] /\ found = [t \in Tab |-> {}]
  /\ loaded = {} /\ shown = [t \in Tab |-> {}]
  /\ mark = [t \in Tab |-> "none"] /\ chosen = [t \in Tab |-> {}]

(***************************************************************************)
(* The changes.  Each is committed together with its activity entry.       *)
(***************************************************************************)
Is(j, types, here) == job[j].type \in types /\ pc[j] = here
Goto(j, there)     == pc' = [pc EXCEPT ![j] = there]

Refuse(j) == Goto(j, "refused") /\ UNCHANGED <<cause, list>>

(* What follows the commit: whom to tell.                                  *)
Tell(j, whom, there) ==
  /\ list' = [list EXCEPT ![j] = whom]
  /\ Goto(j, IF whom = <<>> /\ there # "committed" THEN "done" ELSE there)

Addressed(j) ==
  [i \in DOMAIN job[j].to |-> [user |-> job[j].to[i], task |-> job[j].task]]

(* A task is there once the job that creates it has.                       *)
Exists(t) == \A j \in Job : job[j].type = "task_created" /\ job[j].task = t => j \in log

HasTaskProjectRole(u) == u \in members["project"]
ValidAssignee(u)      == u \in members["project"] \cup {Stranger}

CreateComment(j) ==
  /\ Is(j, {"mention"}, "idle")
  /\ IF Exists(job[j].task) /\ HasTaskProjectRole(job[j].actor)
     THEN /\ comments' = comments \cup {j} /\ log' = log \cup {j}
          /\ Tell(j, Addressed(j), "committed")
          /\ UNCHANGED <<members, assignee, due, finished, today>>
     ELSE Refuse(j)
  /\ UNCHANGED <<notifications, read, mails, job, saw, next, cache, panel, socket>>

ScopeOf(j) == IF job[j].type = "project_invite" THEN "project" ELSE "workspace"

InviteMember(j) ==
  /\ Is(j, {"workspace_invite", "project_invite"}, "idle")
  /\ LET who == job[j].to[1]
         scope == ScopeOf(j)
     IN IF who \in User \ members[scope] /\ job[j].actor \in members[scope]
        THEN /\ members' = [members EXCEPT ![scope] = @ \cup {who}]
             /\ log' = IF scope = "project" THEN log \cup {j} ELSE log
             /\ Tell(j, Addressed(j), "creating")
             /\ UNCHANGED <<comments, assignee, due, finished, today>>
        ELSE Refuse(j)
  /\ UNCHANGED <<notifications, read, mails, job, saw, next, cache, panel, socket>>

Finished(t, yes) == IF yes THEN finished \cup {t} ELSE finished \ {t}

(* A new task's assignee is told as the request named him.                 *)
CreateTask(j) ==
  /\ Is(j, {"task_created"}, "idle")
  /\ LET who == job[j].to[1]
         t   == job[j].task
     IN IF HasTaskProjectRole(job[j].actor) /\ ValidAssignee(who)
        THEN /\ assignee' = [assignee EXCEPT ![t] = who]
             /\ due' = [due EXCEPT ![t] = job[j].due[1]]
             /\ finished' = Finished(t, job[j].done[1])
             /\ log' = log \cup {j}
             /\ Tell(j, IF who \in User \ {job[j].actor} THEN Addressed(j) ELSE <<>>, "committed")
             /\ UNCHANGED <<members, comments, today>>
        ELSE Refuse(j)
  /\ UNCHANGED <<notifications, read, mails, job, saw, next, cache, panel, socket>>

(* require_task_project_role loads the task that is then updated.          *)
LoadTask(j) ==
  /\ Is(j, {"task_updated"}, "idle")
  /\ LET t == job[j].task
     IN IF Exists(t) /\ HasTaskProjectRole(job[j].actor)
        THEN /\ saw' = [saw EXCEPT ![j] = [assignee |-> assignee[t], due |-> due[t], done |-> t \in finished]]
             /\ Goto(j, "loaded")
             /\ UNCHANGED <<cause, list>>
        ELSE Refuse(j) /\ UNCHANGED saw
  /\ UNCHANGED <<notifications, read, mails, job, next, cache, panel, socket>>

(* What an update changes is decided against the task as it was loaded;    *)
(* the other columns are not written.                                      *)
ChangesAssignee(j) == job[j].to \notin {<<>>, <<saw[j].assignee>>}
ChangesDue(j)      == job[j].due \notin {<<>>, <<saw[j].due>>}
ChangesStatus(j)   == job[j].done \notin {<<>>, <<saw[j].done>>}

(* An update that changes nothing is answered, without entry or event.     *)
UpdateTask(j) ==
  /\ Is(j, {"task_updated"}, "loaded")
  /\ LET t == job[j].task
     IN IF job[j].to # <<>> => ValidAssignee(job[j].to[1])
        THEN IF ChangesAssignee(j) \/ ChangesDue(j) \/ ChangesStatus(j)
             THEN /\ assignee' = IF ChangesAssignee(j) THEN [assignee EXCEPT ![t] = job[j].to[1]] ELSE assignee
                  /\ due' = IF ChangesDue(j) THEN [due EXCEPT ![t] = job[j].due[1]] ELSE due
                  /\ finished' = IF ChangesStatus(j) THEN Finished(t, job[j].done[1]) ELSE finished
                  /\ log' = log \cup {j}
                  /\ Goto(j, "updated")
                  /\ UNCHANGED <<members, comments, today, list>>
             ELSE Goto(j, "done") /\ UNCHANGED <<cause, list>>
        ELSE Refuse(j)
  /\ UNCHANGED <<notifications, read, mails, job, saw, next, cache, panel, socket>>

(* The task is read again after the commit.  Its assignee is told if this  *)
(* job changed it, whoever it is by now.                                   *)
Refresh(j) ==
  /\ Is(j, {"task_updated"}, "updated")
  /\ LET who == assignee[job[j].task]
     IN Tell(j, IF ChangesAssignee(j) /\ who \in User \ {job[j].actor}
                THEN <<[user |-> who, task |-> job[j].task]>> ELSE <<>>, "committed")
  /\ UNCHANGED <<cause, notifications, read, mails, job, saw, next, cache, panel, socket>>

(* Mutant: Whatever is due by tomorrow is due.                            *)
ListDueBy(day) == {t \in Task \ finished : due[t] <= day /\ assignee[t] \in User}

ListDueOn(day) == {t \in Task \ finished : due[t] = day /\ assignee[t] \in User}

Orders(S) == {s \in [1 .. Cardinality(S) -> S] : \A i, k \in DOMAIN s : s[i] = s[k] => i = k}

(* The worker takes a run's message, on the day it was queued or later.    *)
(* Tomorrow is the day after that.                                         *)
SendDueSoonReminders(j) ==
  /\ Is(j, {"task_due_soon"}, "idle")
  /\ today >= job[j].due[1]
  /\ saw' = [saw EXCEPT ![j].due = today + 1]
  /\ Goto(j, "dated")
  /\ UNCHANGED <<cause, notifications, read, mails, job, list, next, cache, panel, socket>>

(* The run reads the tasks due then, with their assignees, and takes them  *)
(* one at a time.                                                          *)
ListDueSoon(j) ==
  /\ Is(j, {"task_due_soon"}, "dated")
  /\ \E s \in Orders(ListDueOn(saw[j].due)) :
       Tell(j, [i \in DOMAIN s |-> [user |-> assignee[s[i]], task |-> s[i]]], "creating")
  /\ UNCHANGED <<cause, notifications, read, mails, job, saw, next, cache, panel, socket>>

(* A day passes; bound: while a run is to come, and until the last day.    *)
NextDay ==
  /\ today < LastDay
  /\ \E j \in Job : Is(j, {"task_due_soon"}, "idle") /\ job[j].due[1] <= LastDay
  /\ today' = today + 1
  /\ UNCHANGED <<members, comments, assignee, due, finished, log>>
  /\ UNCHANGED <<notifications, read, mails, jobs, cache, panel, socket>>

(***************************************************************************)
(* The dispatch.                                                           *)
(***************************************************************************)
Head1(j) == list[j][next[j]]
Fresh(j) == [job |-> j, n |-> next[j], user |-> Head1(j).user, task |-> Head1(j).task]

(* The event of the change goes out to the project's room; then come the   *)
(* recipients.                                                             *)
PublishEvent(j) ==
  /\ pc[j] = "committed"
  /\ Goto(j, IF list[j] = <<>> THEN "done"
             ELSE IF job[j].type = "mention" THEN "looking" ELSE "creating")
  /\ UNCHANGED <<cause, notifications, read, mails, job, saw, list, next, cache, panel, socket>>

Following(j) ==
  IF next[j] = Len(list[j]) THEN Goto(j, "done") /\ UNCHANGED next
  ELSE /\ next' = [next EXCEPT ![j] = @ + 1]
       /\ Goto(j, IF job[j].type = "mention" THEN "looking" ELSE "creating")

(* Mutant: A mention does not look whether its address has an account.    *)
NotifyEveryAddress(j) ==
  /\ pc[j] = "looking"
  /\ Goto(j, "creating")
  /\ UNCHANGED <<cause, notifications, read, mails, job, saw, list, next, cache, panel, socket>>

(* Mutant: A mention does not ask whether its address is of a member.     *)
NotifyAnyAccount(j) ==
  /\ pc[j] = "looking"
  /\ IF Head1(j).user \in User \ {job[j].actor} THEN Goto(j, "creating") /\ UNCHANGED next ELSE Following(j)
  /\ UNCHANGED <<cause, notifications, read, mails, job, saw, list, cache, panel, socket>>

(* The author's own address, and one that is not of a member, are passed   *)
(* over.                                                                   *)
NotifyMentions(j) ==
  /\ pc[j] = "looking"
  /\ IF Head1(j).user \in members["project"] \ {job[j].actor} THEN Goto(j, "creating") /\ UNCHANGED next
     ELSE Following(j)
  /\ UNCHANGED <<cause, notifications, read, mails, job, saw, list, cache, panel, socket>>

Create(j) ==
  /\ pc[j] = "creating"
  /\ notifications' = notifications \cup {Fresh(j)}
  /\ Goto(j, "stored")
  /\ UNCHANGED <<cause, read, mails, job, saw, list, next, cache, panel, socket>>

TabsOf(u) == {t \in Tab : Owner[t] = u}

PublishNotification(j) ==
  /\ pc[j] = "stored"
  /\ wire' = wire \cup ({Fresh(j)} \X TabsOf(Fresh(j).user))
  /\ Goto(j, "published")
  /\ UNCHANGED <<cause, notifications, read, mails, job, saw, list, next, cache, panel, open, inbox, missed>>

QueueMail(j) ==
  /\ pc[j] = "published"
  /\ mails' = mails \cup {Fresh(j)}
  /\ Following(j)
  /\ UNCHANGED <<cause, notifications, read, job, saw, list, cache, panel, socket>>

(* The server, Redis or the database fails under a job: what was committed *)
(* stays, the rest is never done.                                          *)
Fail(j) ==
  /\ "server" \in Faults
  /\ pc[j] \in {"loaded", "updated", "dated", "committed", "looking", "creating", "stored", "published"}
  /\ Goto(j, "failed")
  /\ missed' = IF pc[j] = "stored" THEN missed \cup ({Fresh(j)} \X TabsOf(Fresh(j).user)) ELSE missed
  /\ UNCHANGED <<cause, notifications, read, mails, job, saw, list, next, cache, panel, wire, open, inbox>>

(***************************************************************************)
(* The relay and the tabs.                                                 *)
(***************************************************************************)
ListByUser(u) == {n \in notifications : n.user = u}
Unread(u)     == ListByUser(u) \ read

(* A listener hands an event to the sockets its user has then.             *)
SendToUser(n, t) ==
  /\ <<n, t>> \in wire
  /\ wire' = wire \ {<<n, t>>}
  /\ IF t \in open
     THEN inbox' = [inbox EXCEPT ![t] = @ \cup {n}] /\ UNCHANGED missed
     ELSE missed' = missed \cup {<<n, t>>} /\ UNCHANGED inbox
  /\ UNCHANGED <<cause, notifications, read, mails, jobs, cache, panel, open>>

(* The listener is not there to hear an event: it died, or restarts.       *)
LoseEvent(n, t) ==
  /\ "listener" \in Faults
  /\ <<n, t>> \in wire
  /\ wire' = wire \ {<<n, t>>} /\ missed' = missed \cup {<<n, t>>}
  /\ UNCHANGED <<cause, notifications, read, mails, jobs, cache, panel, open, inbox>>

Connect(t) ==
  /\ t \notin open
  /\ open' = open \cup {t}
  /\ UNCHANGED <<cause, notifications, read, mails, jobs, cache, panel, wire, inbox, missed>>

(* The socket is lost with what it still carried; the hook opens another.  *)
Disconnect(t) ==
  /\ "socket" \in Faults
  /\ t \in open
  /\ open' = open \ {t}
  /\ missed' = missed \cup (inbox[t] \X {t})
  /\ inbox' = [inbox EXCEPT ![t] = {}]
  /\ UNCHANGED <<cause, notifications, read, mails, jobs, cache, panel, wire>>

(* Mutant: A read in flight is left to run.                               *)
InvalidateKeepingFetch(t) == fetch' = [fetch EXCEPT ![t] = IF @ = "none" THEN "asked" ELSE @]

(* invalidateQueries: the query is read afresh, one in flight is dropped   *)
(* for that, except the first, which is left to run.                       *)
Invalidate(t) ==
  fetch' = [fetch EXCEPT ![t] = IF @ = "none" \/ t \in loaded THEN "asked" ELSE @]

HandleEvent(t) == \E n \in inbox[t] :
  /\ inbox' = [inbox EXCEPT ![t] = @ \ {n}]
  /\ Invalidate(t)
  /\ missed' = IF t \notin loaded /\ fetch[t] = "answered" THEN missed \cup {<<n, t>>} ELSE missed
  /\ UNCHANGED <<cause, notifications, read, mails, jobs, found, loaded, shown, panel, wire, open>>

(* The window gets the focus and the answer is older than the staleTime.   *)
Refocus(t) ==
  /\ fetch[t] = "none"
  /\ fetch' = [fetch EXCEPT ![t] = "asked"]
  /\ UNCHANGED <<cause, notifications, read, mails, jobs, found, loaded, shown, panel, socket>>

(* The server answers from what is committed; the count and the list are   *)
(* asked for together and taken as one.                                    *)
GetUnread(t) ==
  /\ fetch[t] = "asked"
  /\ fetch' = [fetch EXCEPT ![t] = "answered"] /\ found' = [found EXCEPT ![t] = Unread(Owner[t])]
  /\ UNCHANGED <<cause, notifications, read, mails, jobs, loaded, shown, panel, socket>>

Show(t) ==
  /\ fetch[t] = "answered"
  /\ fetch' = [fetch EXCEPT ![t] = "none"] /\ found' = [found EXCEPT ![t] = {}]
  /\ loaded' = loaded \cup {t} /\ shown' = [shown EXCEPT ![t] = found[t]]
  /\ UNCHANGED <<cause, notifications, read, mails, jobs, panel, socket>>

(* A click on an unread row of the panel.                                  *)
MarkRead(t) == \E n \in shown[t] :
  /\ mark[t] = "none"
  /\ mark' = [mark EXCEPT ![t] = "marked"]
  /\ read' = read \cup {n}
  /\ UNCHANGED <<cause, notifications, mails, jobs, cache, chosen, socket>>

(* A click on "Mark all read": the server selects the unread rows, then    *)
(* writes those and commits.                                               *)
SelectUnread(t) ==
  /\ mark[t] = "none" /\ shown[t] # {}
  /\ mark' = [mark EXCEPT ![t] = "selected"] /\ chosen' = [chosen EXCEPT ![t] = Unread(Owner[t])]
  /\ UNCHANGED <<cause, notifications, read, mails, jobs, cache, socket>>

CommitRead(t) ==
  /\ mark[t] = "selected"
  /\ mark' = [mark EXCEPT ![t] = "marked"] /\ chosen' = [chosen EXCEPT ![t] = {}]
  /\ read' = read \cup chosen[t]
  /\ UNCHANGED <<cause, notifications, mails, jobs, cache, socket>>

(* Mutant: The panel clears its badge instead of asking again.            *)
ClearBadge(t) ==
  /\ mark[t] = "marked"
  /\ mark' = [mark EXCEPT ![t] = "none"]
  /\ shown' = [shown EXCEPT ![t] = {}]
  /\ UNCHANGED <<cause, notifications, read, mails, jobs, fetch, found, loaded, chosen, socket>>

(* The answer arrives; the panel invalidates its own queries.              *)
Marked(t) ==
  /\ mark[t] = "marked"
  /\ mark' = [mark EXCEPT ![t] = "none"]
  /\ Invalidate(t)
  /\ UNCHANGED <<cause, notifications, read, mails, jobs, found, loaded, shown, chosen, socket>>

(* The session fails before the commit, or the answer is lost after it:    *)
(* the panel's handler ends without invalidating.                          *)
MarkFails(t) ==
  /\ "database" \in Faults
  /\ mark[t] # "none"
  /\ mark' = [mark EXCEPT ![t] = "none"] /\ chosen' = [chosen EXCEPT ![t] = {}]
  /\ missed' = IF mark[t] = "marked" THEN missed \cup (((shown[t] \cup found[t]) \cap read) \X {t})
                                     ELSE missed
  /\ UNCHANGED <<cause, notifications, read, mails, jobs, cache, wire, open, inbox>>

Change(j) ==
  \/ CreateComment(j) \/ InviteMember(j) \/ CreateTask(j) \/ LoadTask(j) \/ UpdateTask(j)
  \/ SendDueSoonReminders(j) \/ ListDueSoon(j)
Dispatch(j) ==
  \/ Refresh(j) \/ PublishEvent(j) \/ NotifyMentions(j) \/ Create(j) \/ PublishNotification(j)
  \/ QueueMail(j)
Query(t)    == GetUnread(t) \/ Show(t)
Click(t)    == MarkRead(t) \/ SelectUnread(t)
Answer(t)   == CommitRead(t) \/ Marked(t)

Next ==
  \/ \E j \in Job : Change(j) \/ Dispatch(j) \/ Fail(j)
  \/ NextDay
  \/ \E n \in notifications, t \in Tab : SendToUser(n, t) \/ LoseEvent(n, t)
  \/ \E t \in Tab : Connect(t) \/ Disconnect(t) \/ HandleEvent(t) \/ Refocus(t)
                      \/ Query(t) \/ Click(t) \/ Answer(t) \/ MarkFails(t)

(* Servers and browsers go on with what they started; users and faults     *)
(* need not act.  Invalidations may drop a query again and again, but not  *)
(* forever: hence the strong fairness of its answer.                       *)
Relay(t) == \E n \in notifications : SendToUser(n, t)

Dispatched(j) == WF_vars(Dispatch(j))
Relayed(t)    == WF_vars(Relay(t))
Handled(t)    == WF_vars(HandleEvent(t))
Answered(t)   == WF_vars(GetUnread(t))
Rendered(t)   == SF_vars(Show(t))

Fairness ==
  /\ \A j \in Job : Dispatched(j)
  /\ \A t \in Tab : Relayed(t)
  /\ \A t \in Tab : Handled(t)
  /\ \A t \in Tab : Answered(t)
  /\ \A t \in Tab : Rendered(t)

Spec == Init /\ [][Next]_vars /\ Fairness

(***************************************************************************)
(* Properties                                                              *)
(***************************************************************************)
RowsOf(j)   == {n \in notifications : n.job = j}
CommentsOf(t) == {j \in comments : job[j].task = t}

(* The jobs that have written a task's assignee.                           *)
Assigners(t) == {a \in log : job[a].task = t /\ job[a].type \in {"task_created", "task_updated"}
                                /\ (job[a].type = "task_created" \/ ChangesAssignee(a))}

(* What must have been committed for a row of a job.  An update that       *)
(* assigned the task may tell of another's assignment: whoever had it when *)
(* it read the task again.                                                 *)
Caused(n) ==
  LET j == n.job IN
  CASE job[j].type = "mention" -> j \in CommentsOf(n.task) /\ n.user \in members["project"]
    [] job[j].type \in {"workspace_invite", "project_invite"} -> n.user \in members[ScopeOf(j)]
    [] job[j].type \in {"task_created", "task_updated"} ->
         j \in Assigners(n.task) /\ \E a \in Assigners(n.task) : job[a].to = <<n.user>>
    [] OTHER -> n.user \in members["project"]

(* A row has a committed cause that concerns its user, who is not the one  *)
(* who caused it; each address gets at most one, in the order of the   *)
(* addresses.  However a job ends, nobody before the point it reached was  *)
(* left out who was a member all along, and a job that was not cut off     *)
(* told everyone on its list, with a row and with a mail.                  *)
RowsHaveCauses == \A j \in Job :
  /\ \A n \in RowsOf(j) :
       /\ Caused(n) /\ (job[j].type # "task_due_soon" => n.user # job[j].actor)
       /\ n.n <= next[j] /\ list[j][n.n] = [user |-> n.user, task |-> n.task]
  /\ \A m, n \in RowsOf(j) : m.n = n.n \/ (job[j].type # "task_due_soon" /\ m.user = n.user) => m = n
  /\ \A i \in DOMAIN list[j] :
       /\ i < next[j] \/ pc[j] = "done"
       /\ list[j][i].user \in Founders
       /\ job[j].type = "task_due_soon" \/ list[j][i].user # job[j].actor
       =>
         \E n \in mails : n.job = j /\ n.user = list[j][i].user /\ n.task = list[j][i].task
  /\ job[j].type # "workspace_invite" /\ RowsOf(j) # {} /\ job[j].type # "task_due_soon" => j \in log

(* Of overlapping assignments the first may tell the assignee of the last, *)
(* and its own nobody.  But whoever has a task in the end, if it was given *)
(* to him, gave it to himself or is on the list of a job that did, unless  *)
(* that job has still to read the task again or was cut off.               *)
AssigneesTold == \A t \in Task :
  assignee[t] \in User /\ Assigners(t) # {} => \E a \in Assigners(t) :
    /\ job[a].to = <<assignee[t]>>
    /\ \/ job[a].actor = assignee[t] \/ pc[a] \in {"updated", "failed"}
       \/ list[a] = <<[user |-> assignee[t], task |-> t]>>

(* Rows say what happened, and who has a task was told so.                 *)
RowsMatchCauses == RowsHaveCauses /\ AssigneesTold

(* Rows of the reminder, and the runs that were taken after the day they   *)
(* were queued.                                                            *)
Reminders == {n \in notifications : job[n.job].type = "task_due_soon"}
Late(j)   == saw[j].due > job[j].due[1] + 1

(* Who is reminded twice of a task, by whichever runs, is so because one   *)
(* of two runs on one date was late, or because the task was moved to      *)
(* another date by a logged update.                                        *)
RemindedAgainForCause == \A m, n \in Reminders : m # n /\ m.task = n.task =>
  /\ m.job # n.job
  /\ IF saw[m.job].due = saw[n.job].due THEN Late(m.job) \/ Late(n.job)
     ELSE \E u \in log : /\ job[u].type = "task_updated" /\ job[u].task = m.task
                         /\ job[u].due \in {<<saw[m.job].due>>, <<saw[n.job].due>>}

(* "A task due tomorrow matches on exactly one run" (crud/task.py), as     *)
(* PROGRESS.md and docs/PHASE-5.md have it: without the exceptions.        *)
RemindedOnce == \A m, n \in Reminders : m.task = n.task => m = n

(* The rows whose news has still to reach a tab.                           *)
Coming(t) ==
  inbox[t] \cup {n \in notifications : <<n, t>> \in wire}
           \cup {n \in notifications : pc[n.job] = "stored" /\ next[n.job] = n.n}

Missed(t) == {n \in notifications : <<n, t>> \in missed}

(* A tab at rest shows the unread rows of its user.  What it lacks is on   *)
(* its way or was missed; what it shows although it is read was marked by  *)
(* a request of its own whose answer is to come or was lost, or by one of  *)
(* another tab.                                                            *)
BadgeExplained == \A t \in loaded : fetch[t] = "none" =>
  /\ Unread(Owner[t]) \ shown[t] \subseteq Coming(t) \cup Missed(t)
  /\ TabsOf(Owner[t]) = {t} /\ mark[t] # "marked" =>
       shown[t] \subseteq Unread(Owner[t]) \cup Missed(t)

(* News of a row reaches a tab that is there to hear it: it shows the row, *)
(* unless the row is read, the tab loses its socket, or the job or the     *)
(* event is lost.                                                          *)
NewsFor(t, j) == pc[j] = "stored" /\ t \in open \cap loaded /\ Owner[t] = Fresh(j).user
Heard(t, n)   == t \notin open \/ n \in shown[t] \cup read \/ <<n, t>> \in missed
CatchesUp(t, j) ==
  NewsFor(t, j) ~> (t \notin open \/ \E n \in RowsOf(j) : n.user = Owner[t] /\ Heard(t, n))
OpenTabsCatchUp == \A t \in Tab, j \in Job : CatchesUp(t, j)

(* Where news has still to be published, relayed, handled, read or shown,  *)
(* the step that does it can be taken.                                     *)
CanDispatch(j) == ENABLED <<Dispatch(j)>>_vars
CanRelay(t)    == ENABLED <<Relay(t)>>_vars
CanHandle(t)   == ENABLED <<HandleEvent(t)>>_vars
CanAnswer(t)   == ENABLED <<GetUnread(t)>>_vars
CanShow(t)     == ENABLED <<Show(t)>>_vars
NoNewsStuck ==
  /\ \A j \in Job : pc[j] = "stored" => CanDispatch(j)
  /\ \A t \in Tab : /\ (\E n \in notifications : <<n, t>> \in wire) => CanRelay(t)
                    /\ inbox[t] # {} => CanHandle(t)
                    /\ fetch[t] = "asked" => CanAnswer(t)
                    /\ fetch[t] = "answered" => CanShow(t)
=============================================================================
