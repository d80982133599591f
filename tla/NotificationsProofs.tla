------------------------- MODULE NotificationsProofs -------------------------
(***************************************************************************)
(* Proofs about Notifications, for any users, jobs and tabs, any number of *)
(* them to a user.                                                         *)
(*                                                                         *)
(* The argument for the rows: a job's list is made once and never touched  *)
(* again; next says how far it got (Written, Mailed), and whoever is on    *)
(* the list for a reason keeps it, for nobody leaves and no assignment is  *)
(* taken from the log (Reasons).  For the assignees: the last who wrote a  *)
(* task's assignee finds what it wrote when it reads the task again        *)
(* (Given).  For the reminder: a task's date is its first, of which there  *)
(* is one, or one that a logged update wrote (Dates), and two runs of one  *)
(* date were not queued on one day (Listed).  For the badge: a row that a  *)
(* tab does not show is known to be on its way, or its loss has been       *)
(* recorded (Badge).                                                       *)
(***************************************************************************)
EXTENDS Notifications, TLAPS, FiniteSetTheorems

Reminds(j)  == job[j].type = "task_due_soon"
Audience(j) == IF job[j].type = "workspace_invite" THEN members["workspace"] ELSE members["project"]
MayHear(j, u) == u \in Audience(j) /\ (Reminds(j) \/ u # job[j].actor)

Places ==
  /\ \A s \in Scope : Founders \subseteq members[s]
  /\ \A t \in Task : assignee[t] \in members["project"] \cup {Stranger}

(* Who wrote a task's assignee, and what becomes of the news of it.        *)
Edits(j)   == job[j].type \in {"task_created", "task_updated"}
Assigns(j) == job[j].type = "task_created" \/ (job[j].type = "task_updated" /\ ChangesAssignee(j))
Informs(a, t) ==
  \/ job[a].actor = assignee[t] \/ pc[a] \in {"updated", "failed"}
  \/ list[a] = <<[user |-> assignee[t], task |-> t]>>
Given(t) == Assigners(t) # {} => \E a \in Assigners(t) :
  job[a].to = <<assignee[t]>> /\ (assignee[t] \in User => Informs(a, t))

(* The dates a task has had: its first, and those of updates.              *)
Creates(c, t) == job[c].type = "task_created" /\ job[c].task = t
First(t) == {d \in Nat : \/ (\E c \in log : Creates(c, t) /\ job[c].due = <<d>>)
                        \/ (DueOn[t] = d /\ \A c \in Job : ~Creates(c, t))}
Moved(t) == {d \in Nat : \E u \in log : job[u].type = "task_updated" /\ job[u].task = t /\ job[u].due = <<d>>}
Dates(t) == First(t) \cup Moved(t)

Tasks == \A t \in Task : Given(t) /\ due[t] \in {0} \cup Dates(t)

(* What a job tells, and of whom it is at.                                 *)
Stage == {"idle", "loaded", "updated", "dated", "committed", "looking", "creating",
          "stored", "published", "done", "refused", "failed"}
Early == {"idle", "loaded", "updated", "dated", "refused"}
Listed(j) ==
  /\ pc[j] \in Early => list[j] = <<>> /\ next[j] = 1
  /\ pc[j] = "committed" => next[j] = 1
  /\ pc[j] \in {"idle", "loaded"} => j \notin log
  /\ pc[j] = "updated" => j \in log
  /\ pc[j] \in {"looking", "creating", "stored", "published"} => next[j] \in DOMAIN list[j]
  /\ pc[j] = "looking" => job[j].type = "mention"
  /\ ~Edits(j) /\ ~Reminds(j) => list[j] \in {<<>>, Addressed(j)}
  /\ Edits(j) => list[j] = <<>> \/ \E u \in User : list[j] = <<[user |-> u, task |-> job[j].task]>>
  /\ Reminds(j) => \A i, k \in DOMAIN list[j] : list[j][i].task = list[j][k].task => i = k
  /\ Reminds(j) /\ pc[j] # "idle" => saw[j].due >= job[j].due[1] + 1

Reasons(j) == list[j] # <<>> =>
  /\ job[j].type = "mention" => j \in comments
  /\ job[j].type # "mention" => \A i \in DOMAIN list[j] : MayHear(j, list[j][i].user)
  /\ pc[j] \in {"creating", "stored", "published"} => MayHear(j, list[j][next[j]].user)
  /\ job[j].type \notin {"workspace_invite", "task_due_soon"} => j \in log
  /\ Edits(j) => \A t \in Task : job[j].task = t =>
       j \in Assigners(t) /\ \E a \in Assigners(t) : job[a].to = <<list[j][1].user>>
  /\ Reminds(j) => \A i \in DOMAIN list[j], t \in Task : list[j][i].task = t => saw[j].due \in Dates(t)

Written(j) ==
  /\ \A n \in notifications : n.job = j =>
       /\ n.n \in DOMAIN list[j] /\ n.n <= next[j]
       /\ list[j][n.n] = [user |-> n.user, task |-> n.task]
       /\ MayHear(j, n.user)
       /\ n.n = next[j] => pc[j] \in {"stored", "published", "done", "failed"}
  /\ pc[j] \in {"stored", "published"} => Fresh(j) \in notifications

Mailed(j) == \A i \in DOMAIN list[j] :
  /\ i < next[j] \/ pc[j] = "done"
  /\ list[j][i].user \in Founders /\ (Reminds(j) \/ list[j][i].user # job[j].actor)
  => \E n \in mails : n.job = j /\ n.user = list[j][i].user /\ n.task = list[j][i].task

Work(j) == Listed(j) /\ Reasons(j) /\ Written(j) /\ Mailed(j)

(* What a tab shows, or is about to, against what is unread.               *)
Badge(t) ==
  /\ t \notin loaded => fetch[t] # "none" /\ shown[t] = {} /\ mark[t] = "none"
  /\ shown[t] \cup found[t] \cup chosen[t] \subseteq ListByUser(Owner[t])
  /\ fetch[t] = "none" => Unread(Owner[t]) \ shown[t] \subseteq Coming(t) \cup Missed(t)
  /\ fetch[t] = "answered" => Unread(Owner[t]) \ found[t] \subseteq Coming(t) \cup Missed(t)
  /\ TabsOf(Owner[t]) = {t} /\ mark[t] # "marked" =>
       /\ fetch[t] = "none" => shown[t] \subseteq Unread(Owner[t]) \cup Missed(t)
       /\ fetch[t] = "answered" => found[t] \subseteq Unread(Owner[t]) \cup Missed(t)

IInv ==
  /\ TypeOK /\ job \in Asks /\ Places /\ Tasks
  /\ \A j \in Job : Work(j)
  /\ \A t \in Tab : Badge(t)

\* Before the first job nothing is listed, stored or shown.
LEMMA InitIInv == Init => IInv
<1> SUFFICES ASSUME Init
             PROVE  IInv
  OBVIOUS
<1> USE DEF Init
<1>1. TypeOK
  <2>1. saw \in [Job -> Row]
    BY DEF Row
  <2>2. job \in [Job -> Ask] /\ members \in [Scope -> SUBSET User] /\ today \in 0 .. LastDay
    BY AsksAssumption, FoundersAssumption, DayAssumption
  <2>3. assignee \in [Task -> User \cup {Stranger}] /\ due \in [Task -> Nat]
    BY TaskAssumption, FoundersAssumption
  <2>4. /\ pc \in [Job -> Stage] /\ list \in [Job -> Seq(Recipient)] /\ next \in [Job -> Nat]
    BY DEF Stage
  <2>5. /\ fetch \in [Tab -> {"none", "asked", "answered"}] /\ found \in [Tab -> SUBSET notifications]
        /\ mark \in [Tab -> {"none", "selected", "marked"}] /\ chosen \in [Tab -> SUBSET notifications]
        /\ inbox \in [Tab -> SUBSET notifications] /\ shown \in [Tab -> SUBSET notifications]
    OBVIOUS
  <2>6. /\ comments = {} /\ log = {} /\ finished = {} /\ notifications = {} /\ read = {} /\ mails = {}
        /\ wire = {} /\ missed = {} /\ open = {} /\ loaded = {}
    OBVIOUS
  <2> HIDE DEF Init
  <2> QED BY <2>1, <2>2, <2>3, <2>4, <2>5, <2>6 DEF TypeOK, Stage
<1>2. job \in Asks /\ Places
  BY TaskAssumption DEF Places, Scope
<1>3. Tasks
  <2> SUFFICES ASSUME NEW t \in Task
               PROVE  Given(t) /\ due[t] \in {0} \cup Dates(t)
    BY DEF Tasks
  <2>1. Given(t)
    BY DEF Given, Assigners
  <2>2. CASE \E c \in Job : Creates(c, t)
    BY <2>1, <2>2, AsksAssumption DEF Creates
  <2>3. CASE \A c \in Job : ~Creates(c, t)
    BY <2>1, <2>3, TaskAssumption DEF Dates, First
  <2> QED BY <2>2, <2>3
<1>4. ASSUME NEW j \in Job
      PROVE  Work(j)
  BY DEF Work, Listed, Reasons, Written, Mailed, Early
<1>5. ASSUME NEW t \in Tab
      PROVE  Badge(t)
  BY DEF Badge, ListByUser
<1> QED BY <1>1, <1>2, <1>3, <1>4, <1>5 DEF IInv

(* The row that a job is at.                                               *)
LEMMA FreshLemma ==
  ASSUME IInv, NEW j \in Job, pc[j] \in {"creating", "stored", "published"}
  PROVE  /\ Fresh(j) \in Notification /\ Fresh(j).job = j /\ Fresh(j).n = next[j]
         /\ Fresh(j).user = list[j][next[j]].user /\ Fresh(j).task = list[j][next[j]].task
         /\ MayHear(j, Fresh(j).user)
<1> USE DEF IInv
<1>1. Listed(j) /\ Reasons(j)
  BY DEF Work
<1>2. next[j] \in DOMAIN list[j] /\ list[j] # <<>> /\ list[j] \in Seq(Recipient)
  BY <1>1 DEF Listed, TypeOK
<1>3. MayHear(j, list[j][next[j]].user)
  BY <1>1, <1>2 DEF Reasons
<1>4. list[j][next[j]] \in Recipient /\ next[j] \in Nat
  BY <1>2
<1>5. list[j][next[j]].user \in User
  BY <1>3 DEF MayHear, Audience, TypeOK, Scope
<1> QED BY <1>3, <1>4, <1>5 DEF Fresh, Head1, Notification, Recipient

(* What is logged stays, and with it who assigned a task and its dates.    *)
LEMMA LogFrame ==
  ASSUME IInv, job' = job, log \subseteq log', \A a \in log : saw'[a] = saw[a]
  PROVE  /\ \A t : Assigners(t) \subseteq Assigners(t)'
         /\ \A t : Dates(t) \subseteq Dates(t)'
<1>1. \A a \in log : ChangesAssignee(a)' <=> ChangesAssignee(a)
  BY DEF ChangesAssignee
<1>2. ASSUME NEW t
      PROVE  Dates(t) \subseteq Dates(t)'
  <2>1. First(t) \subseteq First(t)'
    BY DEF First, Creates
  <2>2. Moved(t) \subseteq Moved(t)'
    BY DEF Moved
  <2> QED BY <2>1, <2>2 DEF Dates
<1>3. \A t : Assigners(t) \subseteq Assigners(t)'
  BY <1>1 DEF Assigners
<1> QED BY <1>2, <1>3

(* What a step that assigns no task and moves no date leaves of the tasks. *)
LEMMA TasksFrame ==
  ASSUME IInv, UNCHANGED <<assignee, due, job>>, log \subseteq log',
         \A a \in log : saw'[a] = saw[a],
         \A a \in log' \ log : ~Assigns(a)',
         \A a \in log : Edits(a) => /\ list'[a] = list[a]
                                    /\ pc[a] \in {"updated", "failed"} => pc'[a] \in {"updated", "failed"}
  PROVE  Tasks'
<1> SUFFICES ASSUME NEW t \in Task
             PROVE  Given(t)' /\ due'[t] \in {0} \cup Dates(t)'
  BY DEF Tasks
<1>1. Given(t) /\ due[t] \in {0} \cup Dates(t)
  BY DEF IInv, Tasks
<1>2. due'[t] \in {0} \cup Dates(t)'
  BY <1>1, LogFrame
<1>3. Assigners(t)' = Assigners(t)
  <2>1. Assigners(t) \subseteq Assigners(t)'
    BY LogFrame
  <2>2. \A a \in log : ChangesAssignee(a)' <=> ChangesAssignee(a)
    BY DEF ChangesAssignee
  <2>3. \A a \in Assigners(t)' : a \in log
    BY DEF Assigners, Assigns
  <2>4. Assigners(t)' \subseteq Assigners(t)
    BY <2>2, <2>3 DEF Assigners
  <2> QED BY <2>1, <2>4
<1>4. ASSUME NEW a \in Assigners(t), Informs(a, t)
      PROVE  Informs(a, t)'
  <2>1. a \in log /\ Edits(a)
    BY DEF Assigners, Edits
  <2> QED BY <1>4, <2>1 DEF Informs
<1>5. Given(t)'
  BY <1>1, <1>3, <1>4 DEF Given
<1> QED BY <1>2, <1>5

(* What a step of another job leaves of a job's work.                      *)
LEMMA WorkFrame ==
  ASSUME IInv, NEW k \in Job, job' = job,
         pc'[k] = pc[k], saw'[k] = saw[k], list'[k] = list[k], next'[k] = next[k],
         \A s \in Scope : members[s] \subseteq members'[s],
         comments \subseteq comments', log \subseteq log', k \in log' => k \in log,
         \A a \in log : saw'[a] = saw[a],
         mails \subseteq mails', notifications \subseteq notifications',
         \A n \in notifications' \ notifications : n.job # k
  PROVE  Work(k)'
<1> USE DEF IInv
<1>1. Listed(k) /\ Reasons(k) /\ Written(k) /\ Mailed(k)
  BY DEF Work
<1>2. \A u : MayHear(k, u) => MayHear(k, u)'
  BY DEF MayHear, Audience, Reminds, Scope
<1>3. Listed(k)'
  BY <1>1 DEF Listed, Addressed, Reminds, Edits, Early
<1>4. Reasons(k)'
  <2>1. \A t : Assigners(t) \subseteq Assigners(t)' /\ Dates(t) \subseteq Dates(t)'
    BY LogFrame
  <2> QED BY <1>1, <1>2, <2>1 DEF Reasons, Edits, Reminds
<1>5. Written(k)'
  BY <1>1, <1>2 DEF Written, Fresh, Head1
<1>6. Mailed(k)'
  BY <1>1 DEF Mailed, Reminds
<1> QED BY <1>3, <1>4, <1>5, <1>6 DEF Work

(* What a step of a tab, or the date, leaves of the jobs.                  *)
LEMMA TabFrame ==
  ASSUME IInv, UNCHANGED <<members, comments, assignee, due, log, notifications, mails, jobs>>
  PROVE  job' \in Asks /\ Places' /\ Tasks' /\ \A j \in Job : Work(j)'
<1> USE DEF IInv, jobs
<1>1. job' \in Asks /\ Places'
  BY DEF Places
<1>2. Tasks'
  BY TasksFrame
<1>3. ASSUME NEW j \in Job
      PROVE  Work(j)'
  BY WorkFrame
<1> QED BY <1>1, <1>2, <1>3

(* What a step of a job that has no news on its way leaves of the tabs.    *)
LEMMA BadgeFrame ==
  ASSUME IInv, NEW j \in Job, pc[j] # "stored",
         \A k \in Job \ {j} : pc'[k] = pc[k] /\ next'[k] = next[k],
         UNCHANGED <<notifications, read, cache, panel, wire, inbox, missed>>,
         NEW t \in Tab
  PROVE  Badge(t)'
<1> USE DEF IInv, cache, panel
<1>1. Badge(t)
  OBVIOUS
<1>2. Coming(t) \subseteq Coming(t)'
  BY DEF Coming, TypeOK, Notification
<1>3. Missed(t)' = Missed(t) /\ Unread(Owner[t])' = Unread(Owner[t])
      /\ ListByUser(Owner[t])' = ListByUser(Owner[t])
  BY DEF Missed, Unread, ListByUser
<1> QED BY <1>1, <1>2, <1>3 DEF Badge, TabsOf

(***************************************************************************)
(* The changes.                                                            *)
(***************************************************************************)
\* A job's next stage is its own.
LEMMA GotoLemma ==
  ASSUME IInv, NEW j \in Job, NEW there \in Stage, Goto(j, there)
  PROVE  /\ pc' \in [Job -> Stage] /\ pc'[j] = there
         /\ \A k \in Job \ {j} : pc'[k] = pc[k]
  BY DEF IInv, TypeOK, Goto, Stage

\* A job's list is its own.
LEMMA TellLemma ==
  ASSUME IInv, NEW j \in Job, NEW whom \in Seq(Recipient), NEW there \in {"committed", "creating"},
         Tell(j, whom, there)
  PROVE  /\ pc' \in [Job -> Stage] /\ list' \in [Job -> Seq(Recipient)]
         /\ list'[j] = whom
         /\ pc'[j] = IF whom = <<>> /\ there # "committed" THEN "done" ELSE there
         /\ \A k \in Job \ {j} : pc'[k] = pc[k] /\ list'[k] = list[k]
<1>1. list' = [list EXCEPT ![j] = whom] /\ Goto(j, IF whom = <<>> /\ there # "committed" THEN "done" ELSE there)
  BY DEF Tell
<1>2. (IF whom = <<>> /\ there # "committed" THEN "done" ELSE there) \in Stage
  BY DEF Stage
<1>3. list' \in [Job -> Seq(Recipient)] /\ list'[j] = whom /\ \A k \in Job \ {j} : list'[k] = list[k]
  BY <1>1 DEF IInv, TypeOK
<1> QED BY <1>1, <1>2, <1>3, GotoLemma

\* A job that tells its users in the order it was given tells each of them of its own task.
LEMMA AddressedLemma ==
  ASSUME IInv, NEW j \in Job
  PROVE  /\ Addressed(j) \in Seq(Recipient) /\ DOMAIN Addressed(j) = DOMAIN job[j].to
         /\ \A i \in DOMAIN Addressed(j) :
              Addressed(j)[i].user = job[j].to[i] /\ Addressed(j)[i].task = job[j].task
         /\ job[j].type \in {"workspace_invite", "project_invite", "task_created"} =>
              /\ job[j].to = <<job[j].to[1]>>
              /\ Addressed(j) = <<[user |-> job[j].to[1], task |-> job[j].task]>>
<1> USE DEF IInv
<1>1. job[j] \in Ask
  BY DEF TypeOK
<1>2. job[j].to \in Seq(User \cup {Stranger}) /\ job[j].task \in Task
  BY <1>1 DEF Ask
<1>3. /\ DOMAIN Addressed(j) = DOMAIN job[j].to
      /\ \A i \in DOMAIN Addressed(j) :
              Addressed(j)[i].user = job[j].to[i] /\ Addressed(j)[i].task = job[j].task
  BY DEF Addressed
<1>4. Addressed(j) \in Seq(Recipient)
  <2>1. \A i \in 1 .. Len(job[j].to) : [user |-> job[j].to[i], task |-> job[j].task] \in Recipient
    BY <1>2 DEF Recipient
  <2>2. DOMAIN job[j].to = 1 .. Len(job[j].to) /\ Len(job[j].to) \in Nat
    BY <1>2
  <2> QED BY <2>1, <2>2 DEF Addressed
<1>5. ASSUME job[j].type \in {"workspace_invite", "project_invite", "task_created"}
      PROVE  /\ job[j].to = <<job[j].to[1]>>
             /\ Addressed(j) = <<[user |-> job[j].to[1], task |-> job[j].task]>>
  <2>1. Len(job[j].to) = 1
    BY <1>5, AsksAssumption
  <2>2. DOMAIN job[j].to = 1 .. 1 /\ job[j].to = <<job[j].to[1]>>
    BY <1>2, <2>1
  <2>3. Addressed(j) = [i \in 1 .. 1 |-> [user |-> job[j].to[i], task |-> job[j].task]]
    BY <2>2 DEF Addressed
  <2>4. Addressed(j) = <<[user |-> job[j].to[1], task |-> job[j].task]>>
    BY <2>3
  <2> QED BY <2>2, <2>4
<1> QED BY <1>3, <1>4, <1>5

(* A job that has no list yet makes a change, or its list.                 *)
LEMMA ChangeInv ==
  ASSUME IInv, NEW j \in Job, pc[j] \in {"idle", "loaded", "updated", "dated"},
         UNCHANGED <<notifications, read, mails, job, next, cache, panel, socket>>,
         \A s \in Scope : members[s] \subseteq members'[s],
         comments \subseteq comments', log \subseteq log', log' \subseteq log \cup {j},
         \A a \in log : saw'[a] = saw[a],
         \A k \in Job \ {j} : pc'[k] = pc[k] /\ saw'[k] = saw[k] /\ list'[k] = list[k],
         pc'[j] \in {"loaded", "updated", "dated", "committed", "creating", "done", "refused"},
         pc'[j] = "done" => list'[j] = <<>>,
         TypeOK', Places', Tasks', Listed(j)', Reasons(j)'
  PROVE  IInv'
<1> USE DEF IInv
<1>1. Listed(j) /\ Written(j) /\ next[j] = 1 /\ list[j] = <<>>
  BY DEF Work, Listed, Early
<1>2. Written(j)'
  <2>1. \A n \in notifications : n.job # j
    BY <1>1 DEF Written
  <2> QED BY <2>1 DEF Written
<1>3. Mailed(j)'
  <2>1. next'[j] = 1 /\ DOMAIN list'[j] \subseteq Nat \ {0}
    BY <1>1 DEF TypeOK
  <2>2. \A i \in DOMAIN list'[j] : ~(i < next'[j] \/ pc'[j] = "done")
    BY <2>1
  <2> QED BY <2>2 DEF Mailed
<1>4. ASSUME NEW k \in Job
      PROVE  Work(k)'
  <2>1. CASE k = j
    BY <2>1, <1>2, <1>3 DEF Work
  <2>2. CASE k # j
    BY <2>2, WorkFrame
  <2> QED BY <2>1, <2>2
<1>5. ASSUME NEW t \in Tab
      PROVE  Badge(t)'
  BY BadgeFrame DEF socket
<1> QED BY <1>4, <1>5

\* A job that is refused, has loaded its task or has nothing to change tells nobody.
LEMMA QuietInv ==
  ASSUME IInv, NEW j \in Job, pc[j] \in {"idle", "loaded"}, ~Reminds(j),
         NEW there \in {"loaded", "done", "refused"}, Goto(j, there), UNCHANGED <<cause, list>>,
         UNCHANGED <<notifications, read, mails, job, next, cache, panel, socket>>,
         saw' \in [Job -> Row], \A k \in Job \ {j} : saw'[k] = saw[k]
  PROVE  IInv'
<1> USE DEF IInv
<1>1. UNCHANGED <<members, comments, assignee, due, finished, log, today>>
  BY DEF cause
<1>2. /\ pc' \in [Job -> Stage] /\ pc'[j] = there
      /\ \A k \in Job \ {j} : pc'[k] = pc[k] /\ list'[k] = list[k]
  BY GotoLemma DEF Stage
<1>3. TypeOK'
  BY <1>1, <1>2 DEF TypeOK, Stage, cache, panel, socket
<1>4. list[j] = <<>> /\ next[j] = 1 /\ j \notin log
  BY DEF Work, Listed, Early
<1>5. \A a \in log : saw'[a] = saw[a] /\ (pc[a] \in {"updated", "failed"} => pc'[a] \in {"updated", "failed"})
  BY <1>2, <1>4 DEF TypeOK
<1>6. Places' /\ Tasks'
  BY <1>1, <1>5, TasksFrame DEF Places
<1>7. Listed(j)' /\ Reasons(j)'
  BY <1>1, <1>2, <1>4 DEF Listed, Reasons, Reminds, Edits, Early
<1> QED BY <1>1, <1>2, <1>3, <1>4, <1>5, <1>6, <1>7, ChangeInv

\* A comment's job lists the addresses it mentions; who is told is decided later.
LEMMA CreateCommentInv ==
  ASSUME IInv, NEW j \in Job, CreateComment(j)
  PROVE  IInv'
<1> USE DEF IInv
<1>1. /\ job[j].type = "mention" /\ pc[j] = "idle" /\ ~Reminds(j) /\ ~Edits(j)
      /\ UNCHANGED <<notifications, read, mails, job, saw, next, cache, panel, socket>>
  BY DEF CreateComment, Is, Reminds, Edits
<1>2. CASE Refuse(j)
  BY <1>1, <1>2, QuietInv DEF Refuse, TypeOK
<1>3. CASE /\ comments' = comments \cup {j} /\ log' = log \cup {j}
           /\ Tell(j, Addressed(j), "committed")
           /\ UNCHANGED <<members, assignee, due, finished, today>>
  <2>1. Addressed(j) \in Seq(Recipient) /\ Addressed(j)' = Addressed(j)
    BY <1>1, AddressedLemma DEF Addressed
  <2>2. /\ pc' \in [Job -> Stage] /\ list' \in [Job -> Seq(Recipient)]
        /\ list'[j] = Addressed(j) /\ pc'[j] = "committed"
        /\ \A k \in Job \ {j} : pc'[k] = pc[k] /\ list'[k] = list[k]
    BY <1>3, <2>1, TellLemma
  <2>3. TypeOK'
    BY <1>1, <1>3, <2>2 DEF TypeOK, Stage, cache, panel, socket
  <2>4. next[j] = 1 /\ j \notin log
    BY <1>1 DEF Work, Listed, Early
  <2>5. Places' /\ Tasks'
    <3>1. \A a \in log' \ log : ~Assigns(a)'
      BY <1>1, <1>3 DEF Assigns
    <3>2. \A a \in log : a \in Job \ {j}
      BY <2>4 DEF TypeOK
    <3> QED BY <1>1, <1>3, <2>2, <3>1, <3>2, TasksFrame DEF Places
  <2>6. Listed(j)'
    BY <1>1, <1>3, <2>1, <2>2, <2>4 DEF Listed, Reminds, Edits, Early
  <2>7. Reasons(j)'
    BY <1>1, <1>3, <2>2 DEF Reasons, Reminds, Edits
  <2> QED BY <1>1, <1>3, <2>2, <2>3, <2>5, <2>6, <2>7, ChangeInv
<1> QED BY <1>2, <1>3 DEF CreateComment

\* An invitation lists the user it has just made a member.
LEMMA InviteMemberInv ==
  ASSUME IInv, NEW j \in Job, InviteMember(j)
  PROVE  IInv'
<1> USE DEF IInv
<1> DEFINE who == job[j].to[1]
           scope == ScopeOf(j)
<1>1. /\ job[j].type \in {"workspace_invite", "project_invite"} /\ pc[j] = "idle"
      /\ ~Reminds(j) /\ ~Edits(j)
      /\ UNCHANGED <<notifications, read, mails, job, saw, next, cache, panel, socket>>
  BY DEF InviteMember, Is, Reminds, Edits
<1>2. CASE Refuse(j)
  BY <1>1, <1>2, QuietInv DEF Refuse, TypeOK
<1>3. CASE /\ who \in User \ members[scope] /\ job[j].actor \in members[scope]
           /\ members' = [members EXCEPT ![scope] = @ \cup {who}]
           /\ log' = IF scope = "project" THEN log \cup {j} ELSE log
           /\ Tell(j, Addressed(j), "creating")
           /\ UNCHANGED <<comments, assignee, due, finished, today>>
  <2>1. Addressed(j) \in Seq(Recipient) /\ Addressed(j)' = Addressed(j)
        /\ Addressed(j) = <<[user |-> who, task |-> job[j].task]>> /\ Addressed(j) # <<>>
    BY <1>1, AddressedLemma DEF Addressed
  <2>2. /\ pc' \in [Job -> Stage] /\ list' \in [Job -> Seq(Recipient)]
        /\ list'[j] = Addressed(j) /\ pc'[j] = "creating"
        /\ \A k \in Job \ {j} : pc'[k] = pc[k] /\ list'[k] = list[k]
    BY <1>3, <2>1, TellLemma
  <2>3. scope \in Scope /\ scope = (IF job[j].type = "project_invite" THEN "project" ELSE "workspace")
    BY DEF ScopeOf, Scope
  <2> HIDE DEF scope
  <2>4. /\ members' \in [Scope -> SUBSET User] /\ members'[scope] = members[scope] \cup {who}
        /\ \A s \in Scope \ {scope} : members'[s] = members[s]
    BY <1>3, <2>3 DEF TypeOK
  <2>5. TypeOK'
    <3>1. log' \subseteq Job
      BY <1>3 DEF TypeOK
    <3> QED BY <1>1, <1>3, <2>2, <2>4, <3>1 DEF TypeOK, Stage, cache, panel, socket
  <2>6. next[j] = 1 /\ j \notin log
    BY <1>1 DEF Work, Listed, Early
  <2>7. \A s \in Scope : members[s] \subseteq members'[s]
    BY <2>3, <2>4
  <2>8. Places' /\ Tasks'
    <3>1. \A a \in log' \ log : ~Assigns(a)'
      BY <1>1, <1>3 DEF Assigns
    <3>2. \A a \in log : a \in Job \ {j}
      BY <2>6 DEF TypeOK
    <3>3. Places'
      BY <1>3, <2>7 DEF Places, Scope
    <3> QED BY <1>1, <1>3, <2>2, <3>1, <3>2, <3>3, TasksFrame
  <2>9. DOMAIN Addressed(j) = {1} /\ Addressed(j)[1].user = who
    BY <2>1
  <2>10. Listed(j)'
    BY <1>1, <2>1, <2>2, <2>6, <2>9 DEF Listed, Reminds, Edits, Early
  <2>11. Reasons(j)'
    <3>1. MayHear(j, who)'
      BY <1>1, <1>3, <2>3, <2>4 DEF MayHear, Audience, Scope
    <3>2. job[j].type # "workspace_invite" => j \in log'
      BY <1>1, <1>3, <2>3
    <3>3. \A i \in DOMAIN list'[j] : MayHear(j, list[j][i].user)'
      <4> SUFFICES ASSUME NEW i \in DOMAIN list'[j]
                   PROVE  MayHear(j, list[j][i].user)'
        OBVIOUS
      <4>1. list'[j][i].user = who
        BY <2>2, <2>9
      <4> QED BY <1>1, <3>1, <4>1 DEF MayHear, Audience, Reminds
    <3>4. MayHear(j, list[j][next[j]].user)'
      <4>1. 1 \in DOMAIN list'[j] /\ next'[j] = 1
        BY <1>1, <2>2, <2>6, <2>9
      <4>2. list'[j][next'[j]].user = who
        BY <2>2, <2>9, <4>1
      <4> QED BY <1>1, <3>1, <4>2 DEF MayHear, Audience, Reminds
    <3> QED BY <1>1, <3>2, <3>3, <3>4 DEF Reasons, Reminds, Edits
  <2>12. /\ comments \subseteq comments' /\ log \subseteq log' /\ log' \subseteq log \cup {j}
    BY <1>3
  <2> QED BY <1>1, <2>2, <2>5, <2>7, <2>8, <2>10, <2>11, <2>12, ChangeInv
<1> QED BY <1>2, <1>3 DEF InviteMember

(* What an edit of a task leaves of those it does not assign.              *)
LEMMA GivenFrame ==
  ASSUME IInv, NEW j \in Job, pc[j] \in {"idle", "loaded"}, UNCHANGED <<job, saw>>,
         log' = log \cup {j}, \A k \in Job \ {j} : pc'[k] = pc[k] /\ list'[k] = list[k],
         NEW t \in Task, assignee'[t] = assignee[t], j \notin Assigners(t)'
  PROVE  Given(t)'
<1> USE DEF IInv
<1>1. Given(t) /\ j \notin log /\ log \subseteq Job
  BY DEF Tasks, Work, Listed, TypeOK
<1>2. Assigners(t)' = Assigners(t)
  <2>1. \A a : ChangesAssignee(a)' <=> ChangesAssignee(a)
    BY DEF ChangesAssignee
  <2>2. ASSUME NEW a
        PROVE  a \in Assigners(t)' <=> a \in Assigners(t)
    BY <1>1, <2>1 DEF Assigners
  <2> QED BY <2>2
<1>3. ASSUME NEW a \in Assigners(t), Informs(a, t)
      PROVE  Informs(a, t)'
  <2>1. a \in Job \ {j}
    BY <1>1 DEF Assigners
  <2> QED BY <1>3, <2>1 DEF Informs
<1> QED BY <1>1, <1>2, <1>3 DEF Given

\* A new task's assignee is on the list of the job that created it, but for its author.
LEMMA CreateTaskInv ==
  ASSUME IInv, NEW j \in Job, CreateTask(j)
  PROVE  IInv'
<1> USE DEF IInv
<1>0. PICK who, t : who = job[j].to[1] /\ t = job[j].task
  OBVIOUS
<1>1. /\ job[j].type = "task_created" /\ pc[j] = "idle" /\ ~Reminds(j) /\ Edits(j)
      /\ UNCHANGED <<notifications, read, mails, job, saw, next, cache, panel, socket>>
  BY DEF CreateTask, Is, Reminds, Edits
<1>2. CASE Refuse(j)
  BY <1>1, <1>2, QuietInv DEF Refuse, TypeOK
<1>3. CASE /\ HasTaskProjectRole(job[j].actor) /\ ValidAssignee(who)
           /\ assignee' = [assignee EXCEPT ![t] = who]
           /\ due' = [due EXCEPT ![t] = job[j].due[1]]
           /\ finished' = Finished(t, job[j].done[1])
           /\ log' = log \cup {j}
           /\ Tell(j, IF who \in User \ {job[j].actor} THEN Addressed(j) ELSE <<>>, "committed")
           /\ UNCHANGED <<members, comments, today>>
  <2> DEFINE whom == IF who \in User \ {job[j].actor} THEN Addressed(j) ELSE <<>>
  <2>1. /\ job[j].to = <<who>> /\ Addressed(j) \in Seq(Recipient)
        /\ Addressed(j) = <<[user |-> who, task |-> t]>>
    BY <1>0, <1>1, AddressedLemma
  <2>2. t \in Task /\ job[j].due[1] \in Nat /\ job[j].due = <<job[j].due[1]>>
    <3>1. job[j] \in Ask /\ job[j].due # <<>>
      BY <1>1, AsksAssumption DEF TypeOK
    <3>2. job[j].task \in Task /\ job[j].due \in Seq(Nat) /\ Len(job[j].due) <= 1
      BY <3>1 DEF Ask, Option
    <3> QED BY <1>0, <3>1, <3>2
  <2>3. who \in members["project"] \cup {Stranger} /\ who \in User \cup {Stranger}
    BY <1>3 DEF ValidAssignee, TypeOK, Scope
  <2>4. whom \in Seq(Recipient)
    BY <2>1
  <2>5. whom = (IF who \in User \ {job[j].actor} THEN <<[user |-> who, task |-> t]>> ELSE <<>>)
    BY <2>1
  <2> HIDE DEF whom
  <2>6. /\ pc' \in [Job -> Stage] /\ list' \in [Job -> Seq(Recipient)]
        /\ list'[j] = whom /\ pc'[j] = "committed"
        /\ \A k \in Job \ {j} : pc'[k] = pc[k] /\ list'[k] = list[k]
    BY <1>3, <2>4, TellLemma DEF whom
  <2>7. /\ assignee'[t] = who /\ \A x \in Task \ {t} : assignee'[x] = assignee[x]
        /\ due'[t] = job[j].due[1] /\ \A x \in Task \ {t} : due'[x] = due[x]
    BY <1>3, <2>2 DEF TypeOK
  <2>8. TypeOK'
    <3>1. assignee' \in [Task -> User \cup {Stranger}] /\ due' \in [Task -> Nat]
      BY <1>3, <2>2, <2>3 DEF TypeOK
    <3>2. finished' \subseteq Task /\ log' \subseteq Job
      BY <1>3, <2>2 DEF TypeOK, Finished
    <3> QED BY <1>1, <1>3, <2>6, <3>1, <3>2 DEF TypeOK, Stage, cache, panel, socket
  <2>9. next[j] = 1 /\ j \notin log
    BY <1>1 DEF Work, Listed, Early
  <2>10. Places'
    BY <1>3, <2>2, <2>3, <2>7 DEF Places
  <2>11. j \in Assigners(t)' /\ \A x : x # t => j \notin Assigners(x)'
    BY <1>0, <1>1, <1>3 DEF Assigners
  <2>12. Tasks'
    <3>1. \A x : Dates(x) \subseteq Dates(x)'
      BY <1>1, <1>3, LogFrame
    <3>2. due'[t] \in Dates(t)'
      BY <1>0, <1>1, <1>3, <2>2, <2>7 DEF Dates, First, Creates
    <3>3. Informs(j, t)' \/ who \notin User
      BY <1>1, <2>5, <2>6, <2>7 DEF Informs
    <3>4. Given(t)'
      BY <1>1, <2>1, <2>7, <2>11, <3>3 DEF Given
    <3>5. ASSUME NEW x \in Task \ {t}
          PROVE  Given(x)' /\ due'[x] \in {0} \cup Dates(x)'
      <4>1. Given(x)'
        BY <1>1, <1>3, <2>6, <2>7, <2>11, GivenFrame
      <4> QED BY <2>7, <3>1, <4>1 DEF Tasks
    <3> QED BY <3>2, <3>4, <3>5 DEF Tasks
  <2>13. Listed(j)'
    BY <1>0, <1>1, <1>3, <2>5, <2>6, <2>9 DEF Listed, Reminds, Edits, Early
  <2>14. Reasons(j)'
    <3> SUFFICES ASSUME whom # <<>>
                 PROVE  Reasons(j)'
      BY <2>6 DEF Reasons
    <3>1. whom = <<[user |-> who, task |-> t]>> /\ who \in User \ {job[j].actor}
      BY <2>5
    <3>2. MayHear(j, who)'
      BY <1>1, <1>3, <2>3, <3>1, FoundersAssumption DEF MayHear, Audience
    <3>3. \A i \in DOMAIN list'[j] : MayHear(j, list[j][i].user)'
      <4> SUFFICES ASSUME NEW i \in DOMAIN list'[j]
                   PROVE  MayHear(j, list[j][i].user)'
        OBVIOUS
      <4>1. list'[j][i].user = who
        BY <2>6, <3>1
      <4> QED BY <1>1, <3>2, <4>1 DEF MayHear, Audience, Reminds
    <3>4. \E a \in Assigners(t)' : job'[a].to = <<list'[j][1].user>>
      BY <1>1, <2>1, <2>6, <2>11, <3>1
    <3>5. j \in log'
      BY <1>3
    <3> QED BY <1>0, <1>1, <2>6, <2>11, <3>3, <3>4, <3>5 DEF Reasons, Reminds, Edits
  <2>15. \A s \in Scope : members[s] \subseteq members'[s]
    BY <1>3
  <2> QED BY <1>1, <1>3, <2>6, <2>8, <2>10, <2>12, <2>13, <2>14, <2>15, ChangeInv
<1> QED BY <1>0, <1>2, <1>3 DEF CreateTask

\* An update loads its task first.
LEMMA LoadTaskInv ==
  ASSUME IInv, NEW j \in Job, LoadTask(j)
  PROVE  IInv'
<1> USE DEF IInv
<1> DEFINE t == job[j].task
           row == [assignee |-> assignee[t], due |-> due[t], done |-> t \in finished]
<1>1. /\ pc[j] = "idle" /\ ~Reminds(j)
      /\ UNCHANGED <<notifications, read, mails, job, next, cache, panel, socket>>
  BY DEF LoadTask, Is, Reminds
<1>2. CASE Refuse(j) /\ UNCHANGED saw
  BY <1>1, <1>2, QuietInv DEF Refuse, TypeOK
<1>3. CASE saw' = [saw EXCEPT ![j] = row] /\ Goto(j, "loaded") /\ UNCHANGED <<cause, list>>
  <2>1. row \in Row
    <3>1. t \in Task
      BY DEF TypeOK, Ask
    <3> QED BY <3>1 DEF TypeOK, Row
  <2> HIDE DEF row
  <2>2. saw' \in [Job -> Row] /\ \A k \in Job \ {j} : saw'[k] = saw[k]
    BY <1>3, <2>1 DEF TypeOK
  <2> QED BY <1>1, <1>3, <2>2, QuietInv
<1> QED BY <1>2, <1>3 DEF LoadTask

\* An update writes what it changes; whom it tells is decided after the commit.
LEMMA UpdateTaskInv ==
  ASSUME IInv, NEW j \in Job, UpdateTask(j)
  PROVE  IInv'
<1> USE DEF IInv
<1>0. PICK t : t = job[j].task
  OBVIOUS
<1>1. /\ job[j].type = "task_updated" /\ pc[j] = "loaded" /\ ~Reminds(j) /\ Edits(j)
      /\ UNCHANGED <<notifications, read, mails, job, saw, next, cache, panel, socket>>
  BY DEF UpdateTask, Is, Reminds, Edits
<1>2. CASE Refuse(j) \/ (Goto(j, "done") /\ UNCHANGED <<cause, list>>)
  BY <1>1, <1>2, QuietInv DEF Refuse, TypeOK
<1>3. CASE /\ job[j].to # <<>> => ValidAssignee(job[j].to[1])
           /\ assignee' = IF ChangesAssignee(j) THEN [assignee EXCEPT ![t] = job[j].to[1]] ELSE assignee
           /\ due' = IF ChangesDue(j) THEN [due EXCEPT ![t] = job[j].due[1]] ELSE due
           /\ finished' = IF ChangesStatus(j) THEN Finished(t, job[j].done[1]) ELSE finished
           /\ log' = log \cup {j}
           /\ Goto(j, "updated")
           /\ UNCHANGED <<members, comments, today, list>>
  <2>1. /\ t \in Task
        /\ job[j].due # <<>> => job[j].due[1] \in Nat /\ job[j].due = <<job[j].due[1]>>
        /\ job[j].to # <<>> => job[j].to = <<job[j].to[1]>>
    <3>1. job[j] \in Ask /\ Len(job[j].to) <= 1
      BY <1>1, AsksAssumption DEF TypeOK
    <3>2. /\ job[j].task \in Task /\ job[j].due \in Seq(Nat) /\ Len(job[j].due) <= 1
          /\ job[j].to \in Seq(User \cup {Stranger})
      BY <3>1 DEF Ask, Option
    <3> QED BY <1>0, <3>1, <3>2
  <2>2. ChangesAssignee(j) => /\ job[j].to[1] \in members["project"] \cup {Stranger}
                              /\ job[j].to[1] \in User \cup {Stranger} /\ job[j].to # <<>>
    BY <1>3 DEF ChangesAssignee, ValidAssignee, TypeOK, Scope
  <2>3. /\ pc' \in [Job -> Stage] /\ pc'[j] = "updated"
        /\ \A k \in Job \ {j} : pc'[k] = pc[k] /\ list'[k] = list[k]
    BY <1>3, GotoLemma DEF Stage
  <2>4. /\ assignee'[t] = (IF ChangesAssignee(j) THEN job[j].to[1] ELSE assignee[t])
        /\ \A x \in Task \ {t} : assignee'[x] = assignee[x]
        /\ due'[t] = (IF ChangesDue(j) THEN job[j].due[1] ELSE due[t])
        /\ \A x \in Task \ {t} : due'[x] = due[x]
    BY <1>3, <2>1 DEF TypeOK
  <2>5. ChangesDue(j) => job[j].due # <<>>
    BY DEF ChangesDue
  <2>6. TypeOK'
    <3>1. assignee' \in [Task -> User \cup {Stranger}]
      BY <1>3, <2>1, <2>2 DEF TypeOK
    <3>2. due' \in [Task -> Nat]
      BY <1>3, <2>1, <2>5 DEF TypeOK
    <3>3. finished' \subseteq Task /\ log' \subseteq Job
      BY <1>3, <2>1 DEF TypeOK, Finished
    <3> QED BY <1>1, <1>3, <2>3, <3>1, <3>2, <3>3 DEF TypeOK, Stage, cache, panel, socket
  <2>7. next[j] = 1 /\ list[j] = <<>> /\ j \notin log
    BY <1>1 DEF Work, Listed, Early
  <2>8. Places'
    BY <1>3, <2>1, <2>2, <2>4 DEF Places
  <2>9. /\ ChangesAssignee(j) => j \in Assigners(t)'
        /\ \A x : x # t \/ ~ChangesAssignee(j) => j \notin Assigners(x)'
    BY <1>0, <1>1, <1>3 DEF Assigners, ChangesAssignee
  <2>10. Tasks'
    <3> SUFFICES ASSUME NEW x \in Task
                 PROVE  Given(x)' /\ due'[x] \in {0} \cup Dates(x)'
      BY DEF Tasks
    <3>1. Given(x)'
      <4>1. CASE x = t /\ ChangesAssignee(j)
        <5>1. Informs(j, t)'
          BY <2>3 DEF Informs
        <5>2. job'[j].to = <<assignee'[t]>>
          BY <1>1, <2>1, <2>2, <2>4, <4>1
        <5> QED BY <2>9, <4>1, <5>1, <5>2 DEF Given
      <4>2. CASE x # t \/ ~ChangesAssignee(j)
        <5>1. assignee'[x] = assignee[x] /\ j \notin Assigners(x)'
          BY <2>4, <2>9, <4>2
        <5> QED BY <1>1, <1>3, <2>3, <5>1, GivenFrame
      <4> QED BY <4>1, <4>2
    <3>2. due'[x] \in {0} \cup Dates(x)'
      <4>1. \A y : Dates(y) \subseteq Dates(y)'
        BY <1>1, <1>3, LogFrame
      <4>2. CASE due'[x] = due[x]
        BY <4>1, <4>2 DEF Tasks
      <4>3. CASE x = t /\ ChangesDue(j)
        <5>1. job'[j].due = <<due'[x]>> /\ j \in log' /\ due'[x] \in Nat
          BY <1>1, <1>3, <2>1, <2>4, <2>5, <4>3
        <5> QED BY <1>0, <1>1, <4>3, <5>1 DEF Dates, Moved
      <4> QED BY <2>4, <4>2, <4>3
    <3> QED BY <3>1, <3>2
  <2>11. Listed(j)' /\ Reasons(j)'
    BY <1>1, <1>3, <2>3, <2>7 DEF Listed, Reasons, Reminds, Edits, Early
  <2>12. \A s \in Scope : members[s] \subseteq members'[s]
    BY <1>3
  <2> QED BY <1>1, <1>3, <2>3, <2>6, <2>8, <2>10, <2>11, <2>12, ChangeInv
<1> QED BY <1>0, <1>2, <1>3 DEF UpdateTask

\* Who has the task when it is read again was given it, and is told.
LEMMA RefreshInv ==
  ASSUME IInv, NEW j \in Job, Refresh(j)
  PROVE  IInv'
<1> USE DEF IInv
<1>0. PICK t, who : t = job[j].task /\ who = assignee[t]
  OBVIOUS
<1> DEFINE whom == IF ChangesAssignee(j) /\ who \in User \ {job[j].actor}
                   THEN <<[user |-> who, task |-> t]>> ELSE <<>>
<1>1. /\ job[j].type = "task_updated" /\ pc[j] = "updated" /\ ~Reminds(j) /\ Edits(j)
      /\ Tell(j, whom, "committed")
      /\ UNCHANGED <<cause, notifications, read, mails, job, saw, next, cache, panel, socket>>
  BY <1>0 DEF Refresh, Is, Reminds, Edits
<1>2. UNCHANGED <<members, comments, assignee, due, finished, log, today>>
  BY <1>1 DEF cause
<1>3. t \in Task
  BY <1>0 DEF TypeOK, Ask
<1>4. whom \in Seq(Recipient)
  <2>1. CASE who \in User
    <3>1. [user |-> who, task |-> t] \in Recipient
      BY <1>3, <2>1 DEF Recipient
    <3> QED BY <3>1
  <2> QED BY <2>1
<1>5. whom # <<>> => /\ ChangesAssignee(j) /\ who \in User /\ who # job[j].actor
                     /\ whom = <<[user |-> who, task |-> t]>>
  OBVIOUS
<1>6. ChangesAssignee(j) /\ who \in User /\ who # job[j].actor => whom = <<[user |-> who, task |-> t]>>
  OBVIOUS
<1> HIDE DEF whom
<1>7. /\ pc' \in [Job -> Stage] /\ list' \in [Job -> Seq(Recipient)]
      /\ list'[j] = whom /\ pc'[j] = "committed"
      /\ \A k \in Job \ {j} : pc'[k] = pc[k] /\ list'[k] = list[k]
  BY <1>1, <1>4, TellLemma
<1>8. TypeOK'
  BY <1>1, <1>2, <1>7 DEF TypeOK, Stage, cache, panel, socket
<1>9. next[j] = 1 /\ j \in log
  BY <1>1 DEF Work, Listed, Early
<1>10. /\ \A x : Assigners(x)' = Assigners(x)
       /\ ChangesAssignee(j) => j \in Assigners(t)
       /\ \A x : j \in Assigners(x) => x = t /\ ChangesAssignee(j)
  <2>1. \A a : ChangesAssignee(a)' <=> ChangesAssignee(a)
    BY <1>1 DEF ChangesAssignee
  <2> QED BY <1>0, <1>1, <1>2, <1>9, <2>1 DEF Assigners
<1>11. Tasks'
  <2> SUFFICES ASSUME NEW x \in Task
               PROVE  Given(x)' /\ due'[x] \in {0} \cup Dates(x)'
    BY DEF Tasks
  <2>1. Given(x) /\ due[x] \in {0} \cup Dates(x)
    BY DEF Tasks
  <2>2. ASSUME NEW a \in Assigners(x), assignee[x] \in User, Informs(a, x)
        PROVE  Informs(a, x)'
    <3>1. CASE a = j
      BY <1>0, <1>1, <1>2, <1>6, <1>7, <1>10, <2>2, <3>1 DEF Informs
    <3>2. CASE a # j
      <4>1. a \in Job \ {j}
        BY <3>2 DEF Assigners, TypeOK
      <4> QED BY <1>1, <1>2, <1>7, <2>2, <4>1 DEF Informs
    <3> QED BY <3>1, <3>2
  <2>3. Given(x)'
    BY <1>1, <1>2, <1>10, <2>1, <2>2 DEF Given
  <2>4. due'[x] \in {0} \cup Dates(x)'
    BY <1>1, <1>2, <2>1, LogFrame
  <2> QED BY <2>3, <2>4
<1>12. Listed(j)'
  BY <1>0, <1>1, <1>5, <1>7, <1>9 DEF Listed, Reminds, Edits, Early
<1>13. Reasons(j)'
  <2> SUFFICES ASSUME whom # <<>>
               PROVE  Reasons(j)'
    BY <1>7 DEF Reasons
  <2>1. MayHear(j, who)'
    BY <1>0, <1>1, <1>2, <1>3, <1>5, FoundersAssumption DEF MayHear, Audience, Places
  <2>2. \A i \in DOMAIN list'[j] : MayHear(j, list[j][i].user)'
    <3> SUFFICES ASSUME NEW i \in DOMAIN list'[j]
                 PROVE  MayHear(j, list[j][i].user)'
      OBVIOUS
    <3>1. list'[j][i].user = who
      BY <1>5, <1>7
    <3> QED BY <1>1, <2>1, <3>1 DEF MayHear, Audience, Reminds
  <2>3. \E a \in Assigners(t)' : job'[a].to = <<list'[j][1].user>>
    <3>1. Given(t) /\ j \in Assigners(t)
      BY <1>3, <1>5, <1>10 DEF Tasks
    <3>2. PICK a \in Assigners(t) : job[a].to = <<who>>
      BY <1>0, <3>1 DEF Given
    <3>3. list'[j][1].user = who
      BY <1>5, <1>7
    <3> QED BY <1>1, <1>10, <3>2, <3>3
  <2>4. j \in Assigners(t)' /\ j \in log'
    <3>1. j \in Assigners(t)
      BY <1>5, <1>10
    <3> QED BY <1>2, <1>9, <1>10, <3>1
  <2> QED BY <1>0, <1>1, <1>7, <2>2, <2>3, <2>4 DEF Reasons, Reminds, Edits
<1>14. Places' /\ \A s \in Scope : members[s] \subseteq members'[s]
  BY <1>2 DEF Places
<1> QED BY <1>1, <1>2, <1>7, <1>8, <1>11, <1>12, <1>13, <1>14, ChangeInv

\* A run looks for the day after the one it is taken on.
LEMMA SendDueSoonRemindersInv ==
  ASSUME IInv, NEW j \in Job, SendDueSoonReminders(j)
  PROVE  IInv'
<1> USE DEF IInv
<1>1. /\ pc[j] = "idle" /\ Reminds(j) /\ ~Edits(j)
      /\ today >= job[j].due[1]
      /\ saw' = [saw EXCEPT ![j].due = today + 1]
      /\ Goto(j, "dated")
      /\ UNCHANGED <<cause, notifications, read, mails, job, list, next, cache, panel, socket>>
  BY DEF SendDueSoonReminders, Is, Reminds, Edits
<1>2. UNCHANGED <<members, comments, assignee, due, finished, log, today>>
  BY <1>1 DEF cause
<1>3. job[j].due[1] \in Nat /\ today \in Nat
  <2>1. job[j] \in Ask /\ job[j].due # <<>> /\ today \in 0 .. LastDay
    BY <1>1, AsksAssumption DEF TypeOK, Reminds
  <2>2. job[j].due \in Seq(Nat)
    BY <2>1 DEF Ask, Option
  <2> QED BY <2>1, <2>2, DayAssumption
<1>4. /\ pc' \in [Job -> Stage] /\ pc'[j] = "dated"
      /\ \A k \in Job \ {j} : pc'[k] = pc[k] /\ list'[k] = list[k]
  BY <1>1, GotoLemma DEF Stage
<1>5. /\ saw' \in [Job -> Row] /\ saw'[j].due = today + 1
      /\ \A k \in Job \ {j} : saw'[k] = saw[k]
  <2>1. [saw[j] EXCEPT !.due = today + 1] \in Row /\ [saw[j] EXCEPT !.due = today + 1].due = today + 1
    <3>1. saw[j] \in Row
      BY DEF TypeOK
    <3> QED BY <1>3, <3>1 DEF Row
  <2>2. saw' = [saw EXCEPT ![j] = [saw[j] EXCEPT !.due = today + 1]]
    BY <1>1
  <2> QED BY <2>1, <2>2 DEF TypeOK
<1>6. TypeOK'
  BY <1>1, <1>2, <1>4, <1>5 DEF TypeOK, Stage, cache, panel, socket
<1>7. next[j] = 1 /\ list[j] = <<>> /\ j \notin log
  BY <1>1 DEF Work, Listed, Early
<1>8. \A a \in log : saw'[a] = saw[a] /\ pc'[a] = pc[a]
  BY <1>4, <1>5, <1>7 DEF TypeOK
<1>9. Places' /\ Tasks'
  BY <1>1, <1>2, <1>8, TasksFrame DEF Places
<1>10. Listed(j)' /\ Reasons(j)'
  BY <1>1, <1>2, <1>3, <1>4, <1>5, <1>7 DEF Listed, Reasons, Reminds, Edits, Early
<1> QED BY <1>1, <1>2, <1>4, <1>5, <1>6, <1>8, <1>9, <1>10, ChangeInv

\* A run lists the assignees of the tasks that have its date, each task once.
LEMMA ListDueSoonInv ==
  ASSUME IInv, NEW j \in Job, ListDueSoon(j)
  PROVE  IInv'
<1> USE DEF IInv
<1>1. /\ pc[j] = "dated" /\ Reminds(j) /\ ~Edits(j)
      /\ UNCHANGED <<cause, notifications, read, mails, job, saw, next, cache, panel, socket>>
  BY DEF ListDueSoon, Is, Reminds, Edits
<1>2. UNCHANGED <<members, comments, assignee, due, finished, log, today>>
  BY <1>1 DEF cause
<1>3. PICK s \in Orders(ListDueOn(saw[j].due)) :
        Tell(j, [i \in DOMAIN s |-> [user |-> assignee[s[i]], task |-> s[i]]], "creating")
  BY DEF ListDueSoon
<1> DEFINE whom == [i \in DOMAIN s |-> [user |-> assignee[s[i]], task |-> s[i]]]
<1>4. PICK c \in Nat : /\ s \in [1 .. c -> ListDueOn(saw[j].due)]
                       /\ \A i, k \in 1 .. c : s[i] = s[k] => i = k
  <2>1. Cardinality(ListDueOn(saw[j].due)) \in Nat
    <3>1. ListDueOn(saw[j].due) \subseteq Task
      BY DEF ListDueOn
    <3> QED BY <3>1, FiniteAssumption, FS_Subset, FS_CardinalityType
  <2> QED BY <2>1 DEF Orders
<1>5. \A i \in 1 .. c : /\ s[i] \in Task /\ due[s[i]] = saw[j].due
                        /\ assignee[s[i]] \in User /\ assignee[s[i]] \in members["project"]
  <2>1. \A t \in ListDueOn(saw[j].due) : /\ t \in Task /\ due[t] = saw[j].due
                                         /\ assignee[t] \in User /\ assignee[t] \in members["project"]
    BY FoundersAssumption DEF ListDueOn, Places
  <2> QED BY <1>4, <2>1
<1>6. /\ whom \in Seq(Recipient) /\ DOMAIN whom = 1 .. c
      /\ \A i \in 1 .. c : whom[i].task = s[i] /\ whom[i].user = assignee[s[i]]
  <2>1. \A i \in 1 .. c : [user |-> assignee[s[i]], task |-> s[i]] \in Recipient
    BY <1>5 DEF Recipient
  <2>2. DOMAIN s = 1 .. c
    BY <1>4
  <2>3. whom \in [1 .. c -> Recipient]
    BY <2>1, <2>2
  <2>4. whom \in Seq(Recipient)
    BY <2>3
  <2> QED BY <2>2, <2>4
<1> HIDE DEF whom
<1>7. /\ pc' \in [Job -> Stage] /\ list' \in [Job -> Seq(Recipient)]
      /\ list'[j] = whom /\ pc'[j] = (IF whom = <<>> THEN "done" ELSE "creating")
      /\ \A k \in Job \ {j} : pc'[k] = pc[k] /\ list'[k] = list[k]
  <2>1. Tell(j, whom, "creating")
    BY <1>3 DEF whom
  <2> QED BY <1>6, <2>1, TellLemma
<1>8. TypeOK'
  BY <1>1, <1>2, <1>7 DEF TypeOK, Stage, cache, panel, socket
<1>9. next[j] = 1 /\ saw[j].due >= job[j].due[1] + 1 /\ saw[j].due # 0 /\ list[j] = <<>>
  <2>1. job[j] \in Ask /\ job[j].due # <<>> /\ saw[j] \in Row
    BY <1>1, AsksAssumption DEF TypeOK, Reminds
  <2>2. job[j].due \in Seq(Nat) /\ saw[j].due \in Nat
    BY <2>1 DEF Ask, Option, Row
  <2>3. job[j].due[1] \in Nat
    BY <2>1, <2>2
  <2>4. next[j] = 1 /\ saw[j].due >= job[j].due[1] + 1 /\ list[j] = <<>>
    BY <1>1 DEF Work, Listed, Early
  <2> QED BY <2>2, <2>3, <2>4
<1>10. Places' /\ Tasks'
  <2>1. \A a \in log : Edits(a) => a \in Job \ {j}
    BY <1>1 DEF TypeOK
  <2> QED BY <1>1, <1>2, <1>7, <2>1, TasksFrame DEF Places
<1>11. Listed(j)'
  <2>1. whom # <<>> => 1 \in DOMAIN whom
    BY <1>6
  <2>2. \A i, k \in DOMAIN whom : whom[i].task = whom[k].task => i = k
    BY <1>4, <1>6
  <2> QED BY <1>1, <1>2, <1>7, <1>9, <2>1, <2>2 DEF Listed, Reminds, Edits, Early
<1>12. Reasons(j)'
  <2>1. \A u \in members["project"] : MayHear(j, u)'
    BY <1>1, <1>2 DEF MayHear, Audience, Reminds
  <2>2. whom # <<>> => 1 \in DOMAIN whom
    BY <1>6
  <2>3. \A i \in DOMAIN list'[j] : MayHear(j, list[j][i].user)'
    <3> SUFFICES ASSUME NEW i \in DOMAIN list'[j]
                 PROVE  MayHear(j, list[j][i].user)'
      OBVIOUS
    <3>1. list'[j][i].user \in members["project"]
      BY <1>5, <1>6, <1>7
    <3> QED BY <1>1, <1>2, <3>1 DEF MayHear, Audience, Reminds
  <2>5. \A i \in DOMAIN list'[j], t \in Task : list'[j][i].task = t => saw'[j].due \in Dates(t)'
    <3> SUFFICES ASSUME NEW i \in DOMAIN list'[j], NEW t \in Task, list'[j][i].task = t
                 PROVE  saw'[j].due \in Dates(t)'
      OBVIOUS
    <3>1. due[t] = saw[j].due
      BY <1>5, <1>6, <1>7
    <3>2. saw[j].due \in Dates(t)
      BY <1>9, <3>1 DEF Tasks
    <3> QED BY <1>1, <1>2, <3>2, LogFrame
  <2>4. pc'[j] \in {"creating", "stored", "published"} => MayHear(j, list[j][next[j]].user)'
    <3>1. pc'[j] \in {"creating", "stored", "published"} => next'[j] \in DOMAIN list'[j]
      BY <1>1, <1>7, <1>9, <2>2
    <3> QED BY <2>3, <3>1
  <2> QED BY <1>1, <2>3, <2>5, <2>4 DEF Reasons, Reminds, Edits
<1>13. \A q \in Scope : members[q] \subseteq members'[q]
  BY <1>2
<1> QED BY <1>1, <1>2, <1>7, <1>8, <1>10, <1>11, <1>12, <1>13, ChangeInv

(***************************************************************************)
(* The dispatch.                                                           *)
(***************************************************************************)
LEMMA DispatchInv ==
  ASSUME IInv, NEW j \in Job, UNCHANGED <<cause, job, saw, list>>,
         \A k \in Job \ {j} : pc'[k] = pc[k] /\ next'[k] = next[k],
         pc[j] \in {"updated", "failed"} => pc'[j] \in {"updated", "failed"},
         mails \subseteq mails', notifications \subseteq notifications',
         \A n \in notifications' \ notifications : n.job = j,
         TypeOK', Listed(j)', Reasons(j)', Written(j)', Mailed(j)',
         \A t \in Tab : Badge(t)'
  PROVE  IInv'
<1> USE DEF IInv
<1>1. UNCHANGED <<members, comments, assignee, due, finished, log, today>>
  BY DEF cause
<1>2. ASSUME NEW k \in Job
      PROVE  Work(k)'
  <2>1. CASE k = j
    BY <2>1 DEF Work
  <2>2. CASE k # j
    BY <2>2, <1>1, WorkFrame
  <2> QED BY <2>1, <2>2
<1>3. Places' /\ Tasks'
  <2>1. \A a \in log : pc[a] \in {"updated", "failed"} => pc'[a] \in {"updated", "failed"}
    BY DEF TypeOK
  <2> QED BY <1>1, <2>1, TasksFrame DEF Places
<1> QED BY <1>2, <1>3

(* The reasons for a list, while nothing is changed: whose turn it is.     *)
LEMMA ReasonsFrame ==
  ASSUME IInv, NEW j \in Job, UNCHANGED <<cause, job, saw, list>>,
         list[j] # <<>> /\ pc'[j] \in {"creating", "stored", "published"}
           => MayHear(j, list[j][next'[j]].user)
  PROVE  Reasons(j)' /\ \A u : MayHear(j, u)' <=> MayHear(j, u)
<1>1. Reasons(j) /\ UNCHANGED <<members, comments, assignee, due, finished, log, today>>
  BY DEF IInv, Work, cause
<1>2. \A u : MayHear(j, u)' <=> MayHear(j, u)
  BY <1>1 DEF MayHear, Audience, Reminds
<1>3. \A t : Assigners(t) \subseteq Assigners(t)' /\ Dates(t) \subseteq Dates(t)'
  BY <1>1, LogFrame
<1>4. Reasons(j)'
  BY <1>1, <1>2, <1>3 DEF Reasons, Edits, Reminds
<1> QED BY <1>2, <1>4

(* The row a job is at is the only one of its number.                      *)
LEMMA FreshOnly ==
  ASSUME IInv, NEW n \in notifications, n.n = next[n.job]
  PROVE  n = Fresh(n.job)
<1> USE DEF IInv
<1>1. n \in Notification /\ n.job \in Job
  BY DEF TypeOK, Notification
<1>2. list[n.job][n.n] = [user |-> n.user, task |-> n.task]
  BY <1>1 DEF Work, Written
<1>3. n = [job |-> n.job, n |-> n.n, user |-> n.user, task |-> n.task]
  BY <1>1 DEF Notification
<1> QED BY <1>2, <1>3 DEF Fresh, Head1

(* The news of a row goes out, or is lost with its job.                    *)
LEMMA NewsLemma ==
  ASSUME IInv, NEW j \in Job, pc[j] = "stored",
         \A k \in Job \ {j} : pc'[k] = pc[k] /\ next'[k] = next[k],
         UNCHANGED <<notifications, read, cache, panel, inbox>>,
         wire \subseteq wire', missed \subseteq missed',
         \A t \in TabsOf(Fresh(j).user) : <<Fresh(j), t>> \in wire' \cup missed',
         NEW t \in Tab
  PROVE  Badge(t)'
<1> USE DEF IInv, cache, panel
<1>1. Badge(t)
  OBVIOUS
<1>2. Missed(t) \subseteq Missed(t)' /\ Unread(Owner[t])' = Unread(Owner[t])
      /\ ListByUser(Owner[t])' = ListByUser(Owner[t])
  BY DEF Missed, Unread, ListByUser
<1>3. ASSUME NEW n \in Unread(Owner[t]), n \in Coming(t) \cup Missed(t)
      PROVE  n \in Coming(t)' \cup Missed(t)'
  <2>1. n \in notifications /\ n.user = Owner[t] /\ n.job \in Job
    BY DEF Unread, ListByUser, TypeOK, Notification
  <2>2. CASE n \in Missed(t)
    BY <2>2, <1>2
  <2>3. CASE n \in inbox[t] \/ <<n, t>> \in wire
    BY <2>1, <2>3 DEF Coming
  <2>4. CASE pc[n.job] = "stored" /\ next[n.job] = n.n
    <3>1. CASE n.job = j
      <4>1. n = Fresh(j)
        BY <2>1, <2>4, <3>1, FreshOnly
      <4>2. <<n, t>> \in wire' \cup missed'
        BY <2>1, <4>1 DEF TabsOf
      <4> QED BY <2>1, <4>2 DEF Coming, Missed
    <3>2. CASE n.job # j
      BY <2>1, <2>4, <3>2 DEF Coming
    <3> QED BY <3>1, <3>2
  <2> QED BY <1>3, <2>2, <2>3, <2>4 DEF Coming
<1> QED BY <1>1, <1>2, <1>3 DEF Badge, TabsOf

\* The room's event touches no notification.
LEMMA PublishEventInv ==
  ASSUME IInv, NEW j \in Job, PublishEvent(j)
  PROVE  IInv'
<1> USE DEF IInv
<1>1. /\ pc[j] = "committed"
      /\ UNCHANGED <<cause, notifications, read, mails, job, saw, list, next, cache, panel, socket>>
      /\ pc' = [pc EXCEPT ![j] = IF list[j] = <<>> THEN "done"
                                 ELSE IF job[j].type = "mention" THEN "looking" ELSE "creating"]
  BY DEF PublishEvent, Goto
<1>2. /\ list[j] = <<>> => pc'[j] = "done"
      /\ list[j] # <<>> /\ job[j].type = "mention" => pc'[j] = "looking"
      /\ list[j] # <<>> /\ job[j].type # "mention" => pc'[j] = "creating"
      /\ \A k \in Job \ {j} : pc'[k] = pc[k] /\ next'[k] = next[k]
  BY <1>1 DEF TypeOK
<1>3. TypeOK'
  BY <1>1 DEF TypeOK, Stage, cause, cache, panel, socket
<1>4. Listed(j) /\ Reasons(j) /\ Written(j) /\ Mailed(j) /\ next[j] = 1
  BY <1>1 DEF Work, Listed
<1>5. list[j] # <<>> => 1 \in DOMAIN list[j]
  BY DEF TypeOK
<1>6. Listed(j)'
  BY <1>1, <1>2, <1>4, <1>5 DEF Listed, Reminds, Edits, Early, Addressed
<1>7. \A u : MayHear(j, u)' <=> MayHear(j, u)
  BY <1>1 DEF MayHear, Audience, Reminds, cause
<1>8. Reasons(j)'
  BY <1>1, <1>2, <1>4, <1>5, ReasonsFrame DEF Reasons
<1>9. Written(j)'
  BY <1>1, <1>2, <1>4, <1>7 DEF Written
<1>10. Mailed(j)'
  BY <1>1, <1>2, <1>4 DEF Mailed, Reminds
<1>11. ASSUME NEW t \in Tab
       PROVE  Badge(t)'
  BY <1>1, <1>2, BadgeFrame DEF socket
<1> QED BY <1>1, <1>2, <1>3, <1>6, <1>8, <1>9, <1>10, <1>11, DispatchInv

(* The recipient a job was at has been dealt with.                         *)
LEMMA FollowingLemma ==
  ASSUME IInv, NEW j \in Job, pc[j] \in {"looking", "published"}, Following(j),
         UNCHANGED <<cause, job, saw, list, notifications>>, mails \subseteq mails',
         list[j][next[j]].user \in Founders /\ (Reminds(j) \/ list[j][next[j]].user # job[j].actor)
         => \E n \in mails' :
              n.job = j /\ n.user = list[j][next[j]].user /\ n.task = list[j][next[j]].task
  PROVE  /\ pc' \in [Job -> Stage]
         /\ next' \in [Job -> Nat]
         /\ \A k \in Job \ {j} : pc'[k] = pc[k] /\ next'[k] = next[k]
         /\ Listed(j)' /\ Reasons(j)' /\ Written(j)' /\ Mailed(j)'
<1> USE DEF IInv
<1>1. Listed(j) /\ Reasons(j) /\ Written(j) /\ Mailed(j)
  BY DEF Work
<1>2. /\ list[j] \in Seq(Recipient) /\ next[j] \in DOMAIN list[j] /\ next[j] \in Nat /\ list[j] # <<>>
      /\ DOMAIN list[j] = 1 .. Len(list[j]) /\ Len(list[j]) \in Nat
  BY <1>1 DEF Listed, TypeOK
<1>3. \/ next[j] = Len(list[j]) /\ next' = next /\ pc' = [pc EXCEPT ![j] = "done"]
      \/ /\ next[j] # Len(list[j]) /\ next' = [next EXCEPT ![j] = next[j] + 1]
         /\ pc' = [pc EXCEPT ![j] = IF job[j].type = "mention" THEN "looking" ELSE "creating"]
  BY DEF Following, Goto
<1>4. /\ pc' \in [Job -> Stage]
      /\ next' \in [Job -> Nat]
      /\ \A k \in Job \ {j} : pc'[k] = pc[k] /\ next'[k] = next[k]
  <2>1. CASE next' = next /\ pc' = [pc EXCEPT ![j] = "done"]
    BY <2>1 DEF TypeOK, Stage
  <2>2. CASE /\ next' = [next EXCEPT ![j] = next[j] + 1]
             /\ pc' = [pc EXCEPT ![j] = IF job[j].type = "mention" THEN "looking" ELSE "creating"]
    <3>1. next[j] + 1 \in Nat
      BY <1>2
    <3>2. next' \in [Job -> Nat]
      BY <2>2, <3>1 DEF TypeOK
    <3>3. pc' \in [Job -> Stage]
      BY <2>2 DEF TypeOK, Stage
    <3>4. \A k \in Job \ {j} : pc'[k] = pc[k] /\ next'[k] = next[k]
      BY <2>2 DEF TypeOK
    <3> QED BY <3>2, <3>3, <3>4
  <2> QED BY <1>3, <2>1, <2>2
<1>5. \/ next[j] = Len(list[j]) /\ next'[j] = next[j] /\ pc'[j] = "done"
      \/ /\ next[j] < Len(list[j]) /\ next'[j] = next[j] + 1
         /\ pc'[j] = (IF job[j].type = "mention" THEN "looking" ELSE "creating")
  BY <1>2, <1>3 DEF TypeOK
<1>6. \A u : MayHear(j, u)' <=> MayHear(j, u)
  BY DEF MayHear, Audience, Reminds, cause
<1>7. Listed(j)'
  <2>1. next'[j] \in DOMAIN list[j] /\ pc'[j] \in {"looking", "creating", "done"}
        /\ (pc'[j] = "looking" => job[j].type = "mention")
    BY <1>2, <1>5
  <2>2. pc[j] # "idle" /\ UNCHANGED <<log, today>> /\ Addressed(j)' = Addressed(j)
    BY DEF cause, Addressed
  <2> QED BY <1>1, <2>1, <2>2 DEF Listed, Reminds, Edits, Early
<1>8. Reasons(j)'
  <2>1. next'[j] \in DOMAIN list[j]
    BY <1>2, <1>5
  <2> QED BY <2>1, <1>1, <1>2, <1>5, ReasonsFrame DEF Reasons
<1>9. Written(j)'
  <2> SUFFICES ASSUME NEW n \in notifications, n.job = j
               PROVE  /\ n.n \in DOMAIN list[j] /\ n.n <= next'[j]
                      /\ list[j][n.n] = [user |-> n.user, task |-> n.task]
                      /\ MayHear(j, n.user)
                      /\ n.n = next'[j] => pc'[j] \in {"stored", "published", "done", "failed"}
    BY <1>5, <1>6 DEF Written
  <2>1. n.n \in Nat /\ n.n <= next[j]
    BY <1>1 DEF Written, TypeOK, Notification
  <2> QED BY <2>1, <1>1, <1>2, <1>5 DEF Written
<1>10. Mailed(j)'
  <2> SUFFICES ASSUME NEW i \in DOMAIN list[j],
                      i < next'[j] \/ pc'[j] = "done",
                      list[j][i].user \in Founders /\ (Reminds(j) \/ list[j][i].user # job[j].actor)
               PROVE  \E n \in mails' : n.job = j /\ n.user = list[j][i].user /\ n.task = list[j][i].task
    BY DEF Mailed, Reminds
  <2>1. i < next[j] \/ i = next[j]
    BY <1>2, <1>5
  <2>2. CASE i < next[j]
    BY <2>2, <1>1 DEF Mailed
  <2>3. CASE i = next[j]
    BY <2>3
  <2> QED BY <2>1, <2>2, <2>3
<1> QED BY <1>4, <1>7, <1>8, <1>9, <1>10

\* Only a mentioned member other than the author has a turn.
LEMMA NotifyMentionsInv ==
  ASSUME IInv, NEW j \in Job, NotifyMentions(j)
  PROVE  IInv'
<1> USE DEF IInv
<1>1. /\ pc[j] = "looking"
      /\ UNCHANGED <<cause, notifications, read, mails, job, saw, list, cache, panel, socket>>
  BY DEF NotifyMentions
<1>2. Listed(j) /\ Reasons(j) /\ Written(j) /\ Mailed(j) /\ job[j].type = "mention"
  BY <1>1 DEF Work, Listed
<1>3. CASE /\ list[j][next[j]].user \in members["project"] \ {job[j].actor}
           /\ pc' = [pc EXCEPT ![j] = "creating"] /\ UNCHANGED next
  <2>1. pc'[j] = "creating" /\ \A k \in Job \ {j} : pc'[k] = pc[k] /\ next'[k] = next[k]
    BY <1>3 DEF TypeOK
  <2>2. TypeOK'
    BY <1>1, <1>3 DEF TypeOK, Stage, cause, cache, panel, socket
  <2>3. Listed(j)'
    BY <1>1, <1>2, <1>3, <2>1 DEF Listed, Reminds, Edits, Early, Addressed
  <2>4. \A u : MayHear(j, u)' <=> MayHear(j, u)
    BY <1>1 DEF MayHear, Audience, Reminds, cause
  <2>5. MayHear(j, list[j][next[j]].user)
    BY <1>2, <1>3 DEF MayHear, Audience
  <2>6. Reasons(j)'
    BY <1>1, <1>3, <2>1, <2>5, ReasonsFrame
  <2>7. Written(j)'
    BY <1>1, <1>2, <1>3, <2>1, <2>4 DEF Written
  <2>8. Mailed(j)'
    BY <1>1, <1>2, <1>3, <2>1 DEF Mailed, Reminds
  <2>9. ASSUME NEW t \in Tab
        PROVE  Badge(t)'
    BY <1>1, <2>1, BadgeFrame DEF socket
  <2> QED BY <1>1, <2>1, <2>2, <2>3, <2>6, <2>7, <2>8, <2>9, DispatchInv
<1>4. CASE list[j][next[j]].user \notin members["project"] \ {job[j].actor} /\ Following(j)
  <2>1. ~(list[j][next[j]].user \in Founders /\ (Reminds(j) \/ list[j][next[j]].user # job[j].actor))
    BY <1>2, <1>4 DEF Reminds, Places, Scope
  <2>2. /\ pc' \in [Job -> Stage]
        /\ next' \in [Job -> Nat]
        /\ \A k \in Job \ {j} : pc'[k] = pc[k] /\ next'[k] = next[k]
        /\ Listed(j)' /\ Reasons(j)' /\ Written(j)' /\ Mailed(j)'
    BY <1>1, <1>4, <2>1, FollowingLemma
  <2>3. TypeOK'
    BY <1>1, <2>2 DEF TypeOK, Stage, cause, cache, panel, socket
  <2>4. ASSUME NEW t \in Tab
        PROVE  Badge(t)'
    BY <1>1, <2>2, BadgeFrame DEF socket
  <2> QED BY <1>1, <2>2, <2>3, <2>4, DispatchInv
<1> QED BY <1>3, <1>4 DEF NotifyMentions, Head1, Goto

\* The row committed is for the user whose turn it is.
LEMMA CreateInv ==
  ASSUME IInv, NEW j \in Job, Create(j)
  PROVE  IInv'
<1> USE DEF IInv
<1> DEFINE new == Fresh(j)
<1>1. /\ pc[j] = "creating"
      /\ notifications' = notifications \cup {new}
      /\ pc' = [pc EXCEPT ![j] = "stored"]
      /\ UNCHANGED <<cause, read, mails, job, saw, list, next, cache, panel, socket>>
  BY DEF Create, Goto
<1>2. /\ new \in Notification /\ new.job = j /\ new.n = next[j]
      /\ new.user = list[j][next[j]].user /\ new.task = list[j][next[j]].task
      /\ MayHear(j, new.user)
  BY <1>1, FreshLemma
<1>3. Fresh(j)' = new
  BY <1>1 DEF Fresh, Head1
<1> HIDE DEF new
<1>4. Listed(j) /\ Reasons(j) /\ Written(j) /\ Mailed(j)
  BY DEF Work
<1>5. pc'[j] = "stored" /\ \A k \in Job \ {j} : pc'[k] = pc[k] /\ next'[k] = next[k]
  BY <1>1 DEF TypeOK
<1>6. TypeOK'
  BY <1>1, <1>2 DEF TypeOK, Stage, cause, cache, panel, socket
<1>7. Listed(j)'
  BY <1>1, <1>4, <1>5 DEF Listed, Reminds, Edits, Early, Addressed
<1>8. \A u : MayHear(j, u)' <=> MayHear(j, u)
  BY <1>1 DEF MayHear, Audience, Reminds, cause
<1>9. Reasons(j)'
  BY <1>1, <1>4, <1>5, ReasonsFrame DEF Reasons
<1>10. Written(j)'
  <2>1. next[j] \in DOMAIN list[j] /\ next[j] \in Nat /\ list[j] \in Seq(Recipient)
    BY <1>1, <1>4 DEF Listed, TypeOK
  <2>2. list[j][next[j]] \in Recipient
    BY <2>1
  <2>3. list[j][new.n] = [user |-> new.user, task |-> new.task]
    BY <2>2, <1>2 DEF Recipient
  <2>4. ASSUME NEW n \in notifications', n.job = j
        PROVE  /\ n.n \in DOMAIN list[j] /\ n.n <= next[j]
               /\ list[j][n.n] = [user |-> n.user, task |-> n.task]
               /\ MayHear(j, n.user)
    <3>1. CASE n = new
      BY <3>1, <1>2, <2>1, <2>3
    <3>2. CASE n \in notifications
      BY <2>4, <3>2, <1>4 DEF Written
    <3> QED BY <3>1, <3>2, <1>1
  <2>5. Fresh(j)' \in notifications'
    BY <1>1, <1>3
  <2> QED BY <1>1, <1>5, <1>8, <2>4, <2>5 DEF Written
<1>11. Mailed(j)'
  BY <1>1, <1>4, <1>5 DEF Mailed, Reminds
<1>12. ASSUME NEW t \in Tab
       PROVE  Badge(t)'
  <2>1. Badge(t)
    OBVIOUS
  <2>2. Missed(t)' = Missed(t) \/ Missed(t)' = Missed(t) \cup {new}
    BY <1>1 DEF Missed, socket
  <2>3. Missed(t) \subseteq Missed(t)' /\ Unread(Owner[t]) \subseteq Unread(Owner[t])'
        /\ Unread(Owner[t])' \subseteq Unread(Owner[t]) \cup {new}
        /\ ListByUser(Owner[t]) \subseteq ListByUser(Owner[t])'
    BY <1>1, <2>2 DEF Unread, ListByUser
  <2>4. Coming(t) \subseteq Coming(t)' /\ new \in Coming(t)'
    <3>1. new \in Coming(t)'
      BY <1>1, <1>2, <1>5 DEF Coming
    <3>2. Coming(t) \subseteq Coming(t)'
      BY <1>1, <1>5 DEF Coming, socket, TypeOK, Notification
    <3> QED BY <3>1, <3>2
  <2>5. UNCHANGED <<fetch, found, loaded, shown, mark, chosen>>
    BY <1>1 DEF cache, panel
  <2> QED BY <2>1, <2>3, <2>4, <2>5 DEF Badge, TabsOf
<1>13. notifications \subseteq notifications' /\ mails \subseteq mails'
       /\ \A n \in notifications' \ notifications : n.job = j
  BY <1>1, <1>2
<1> QED BY <1>1, <1>5, <1>6, <1>7, <1>9, <1>10, <1>11, <1>12, <1>13, DispatchInv

(* A step after which a job is further, or no more, with the same row.     *)
LEMMA SameRow ==
  ASSUME IInv, NEW j \in Job, NEW there \in {"published", "failed"},
         there = "published" => pc[j] = "stored",
         pc[j] \in {"loaded", "updated", "dated", "committed", "looking", "creating", "stored", "published"},
         pc' = [pc EXCEPT ![j] = there],
         UNCHANGED <<cause, notifications, mails, job, saw, list, next>>
  PROVE  /\ \A k \in Job \ {j} : pc'[k] = pc[k] /\ next'[k] = next[k]
         /\ Listed(j)' /\ Reasons(j)' /\ Written(j)' /\ Mailed(j)'
<1> USE DEF IInv
<1>1. Listed(j) /\ Reasons(j) /\ Written(j) /\ Mailed(j)
  BY DEF Work
<1>2. pc'[j] = there /\ \A k \in Job \ {j} : pc'[k] = pc[k] /\ next'[k] = next[k]
  BY DEF TypeOK
<1>3. Listed(j)'
  BY <1>1, <1>2 DEF Listed, Reminds, Edits, Early, Addressed
<1>4. \A u : MayHear(j, u)' <=> MayHear(j, u)
  BY DEF MayHear, Audience, Reminds, cause
<1>5. Reasons(j)'
  BY <1>1, <1>2, ReasonsFrame DEF Reasons
<1>6. Written(j)'
  <2>1. Fresh(j)' = Fresh(j)
    BY DEF Fresh, Head1
  <2>2. there = "published" => Fresh(j) \in notifications
    BY <1>1 DEF Written
  <2>3. \A n \in notifications : n.job = j =>
          /\ n.n \in DOMAIN list[j] /\ n.n <= next[j]
          /\ list[j][n.n] = [user |-> n.user, task |-> n.task]
          /\ MayHear(j, n.user)'
    BY <1>1, <1>4 DEF Written
  <2> QED BY <1>2, <2>1, <2>2, <2>3 DEF Written
<1>7. Mailed(j)'
  BY <1>1, <1>2 DEF Mailed, Reminds
<1> QED BY <1>2, <1>3, <1>5, <1>6, <1>7

\* A published row is on the wire to the tabs of its user.
LEMMA PublishNotificationInv ==
  ASSUME IInv, NEW j \in Job, PublishNotification(j)
  PROVE  IInv'
<1> USE DEF IInv
<1>1. /\ pc[j] = "stored"
      /\ wire' = wire \cup ({Fresh(j)} \X TabsOf(Fresh(j).user))
      /\ pc' = [pc EXCEPT ![j] = "published"]
      /\ UNCHANGED <<cause, notifications, read, mails, job, saw, list, next, cache, panel, open, inbox, missed>>
  BY DEF PublishNotification, Goto
<1>2. /\ \A k \in Job \ {j} : pc'[k] = pc[k] /\ next'[k] = next[k]
      /\ Listed(j)' /\ Reasons(j)' /\ Written(j)' /\ Mailed(j)'
  BY <1>1, SameRow
<1>3. Fresh(j) \in notifications
  BY <1>1 DEF Work, Written
<1>4. TypeOK'
  <2>1. wire' \subseteq notifications \X Tab
    BY <1>1, <1>3 DEF TypeOK, TabsOf
  <2> QED BY <1>1, <2>1 DEF TypeOK, Stage, cause, cache, panel
<1>5. ASSUME NEW t \in Tab
      PROVE  Badge(t)'
  <2>1. wire \subseteq wire' /\ missed \subseteq missed'
        /\ \A x \in TabsOf(Fresh(j).user) : <<Fresh(j), x>> \in wire' \cup missed'
    BY <1>1
  <2> QED BY <1>1, <1>2, <2>1, NewsLemma
<1> QED BY <1>1, <1>2, <1>4, <1>5, DispatchInv

\* A job that fails leaves the rows it has committed, and tells no more.
LEMMA FailInv ==
  ASSUME IInv, NEW j \in Job, Fail(j)
  PROVE  IInv'
<1> USE DEF IInv
<1>1. /\ pc[j] \in {"loaded", "updated", "dated", "committed", "looking", "creating", "stored", "published"}
      /\ pc' = [pc EXCEPT ![j] = "failed"]
      /\ missed' = IF pc[j] = "stored" THEN missed \cup ({Fresh(j)} \X TabsOf(Fresh(j).user)) ELSE missed
      /\ UNCHANGED <<cause, notifications, read, mails, job, saw, list, next, cache, panel, wire, open, inbox>>
  BY DEF Fail, Goto
<1>2. /\ \A k \in Job \ {j} : pc'[k] = pc[k] /\ next'[k] = next[k]
      /\ Listed(j)' /\ Reasons(j)' /\ Written(j)' /\ Mailed(j)'
  BY <1>1, SameRow
<1>3. TypeOK'
  <2>1. missed' \subseteq notifications \X Tab
    <3>1. pc[j] = "stored" => Fresh(j) \in notifications
      BY DEF Work, Written
    <3> QED BY <1>1, <3>1 DEF TypeOK, TabsOf
  <2> QED BY <1>1, <2>1 DEF TypeOK, Stage, cause, cache, panel
<1>4. ASSUME NEW t \in Tab
      PROVE  Badge(t)'
  <2>1. CASE pc[j] = "stored"
    <3>1. wire \subseteq wire' /\ missed \subseteq missed'
          /\ \A x \in TabsOf(Fresh(j).user) : <<Fresh(j), x>> \in wire' \cup missed'
      BY <1>1, <2>1
    <3> QED BY <1>1, <1>2, <2>1, <3>1, NewsLemma
  <2>2. CASE pc[j] # "stored"
    BY <1>1, <1>2, <2>2, BadgeFrame
  <2> QED BY <2>1, <2>2
<1> QED BY <1>1, <1>2, <1>3, <1>4, DispatchInv

\* The mail is for the row just committed; the next user's turn comes.
LEMMA QueueMailInv ==
  ASSUME IInv, NEW j \in Job, QueueMail(j)
  PROVE  IInv'
<1> USE DEF IInv
<1>1. /\ pc[j] = "published" /\ Following(j)
      /\ mails' = mails \cup {Fresh(j)}
      /\ UNCHANGED <<cause, notifications, read, job, saw, list, cache, panel, socket>>
  BY DEF QueueMail
<1>2. /\ Fresh(j) \in notifications
      /\ Fresh(j).job = j
      /\ Fresh(j).user = list[j][next[j]].user /\ Fresh(j).task = list[j][next[j]].task
  BY <1>1, FreshLemma DEF Work, Written
<1>3. /\ pc' \in [Job -> Stage]
      /\ next' \in [Job -> Nat]
      /\ \A k \in Job \ {j} : pc'[k] = pc[k] /\ next'[k] = next[k]
      /\ Listed(j)' /\ Reasons(j)' /\ Written(j)' /\ Mailed(j)'
  <2>1. \E n \in mails' : n.job = j /\ n.user = list[j][next[j]].user /\ n.task = list[j][next[j]].task
    BY <1>1, <1>2
  <2>2. mails \subseteq mails'
    BY <1>1
  <2> QED BY <1>1, <2>1, <2>2, FollowingLemma
<1>4. TypeOK'
  BY <1>1, <1>2, <1>3 DEF TypeOK, Stage, cause, cache, panel, socket
<1>5. ASSUME NEW t \in Tab
      PROVE  Badge(t)'
  BY <1>1, <1>3, BadgeFrame DEF socket
<1> QED BY <1>1, <1>3, <1>4, <1>5, DispatchInv

(***************************************************************************)
(* The relay and the tabs.                                                 *)
(***************************************************************************)
(* A step of one tab concerns its own badge, and of the others' only what  *)
(* it marks as read.                                                       *)
LEMMA TabInv ==
  ASSUME IInv, NEW t \in Tab, UNCHANGED <<members, comments, assignee, due, log, notifications, mails, jobs>>, TypeOK', Badge(t)',
         \A x \in Tab \ {t} :
           /\ fetch'[x] = fetch[x] /\ found'[x] = found[x] /\ shown'[x] = shown[x]
           /\ mark'[x] = mark[x] /\ chosen'[x] = chosen[x] /\ (x \in loaded' <=> x \in loaded)
           /\ inbox'[x] = inbox[x] /\ \A n : <<n, x>> \in wire => <<n, x>> \in wire',
         missed \subseteq missed', read \subseteq read',
         \A n \in read' \ read : n.user = Owner[t]
  PROVE  IInv'
<1> USE DEF IInv
<1>1. ASSUME NEW x \in Tab \ {t}
      PROVE  Badge(x)'
  <2>1. Badge(x)
    OBVIOUS
  <2>2. Coming(x) \subseteq Coming(x)' /\ Missed(x) \subseteq Missed(x)'
    BY DEF Coming, Missed, jobs
  <2>3. Unread(Owner[x])' \subseteq Unread(Owner[x]) /\ ListByUser(Owner[x])' = ListByUser(Owner[x])
    BY DEF Unread, ListByUser
  <2>4. TabsOf(Owner[x]) = {x} => Unread(Owner[x])' = Unread(Owner[x])
    <3>1. TabsOf(Owner[x]) = {x} => Owner[t] # Owner[x]
      BY DEF TabsOf
    <3> QED BY <3>1 DEF Unread, ListByUser
  <2> QED BY <2>1, <2>2, <2>3, <2>4 DEF Badge, TabsOf
<1> QED BY <1>1, TabFrame

(* What a tab shows stays explained when news moves on, or is lost.        *)
LEMMA StillExplained ==
  ASSUME IInv, NEW t \in Tab,
         UNCHANGED <<notifications, read, cache, panel>>,
         \A n \in notifications : n \in Coming(t) => n \in Coming(t)' \cup Missed(t)',
         missed \subseteq missed'
  PROVE  Badge(t)'
<1> USE DEF IInv, cache, panel
<1>1. Badge(t)
  OBVIOUS
<1>2. Missed(t) \subseteq Missed(t)' /\ Unread(Owner[t])' = Unread(Owner[t])
      /\ ListByUser(Owner[t])' = ListByUser(Owner[t]) /\ Unread(Owner[t]) \subseteq notifications
  BY DEF Missed, Unread, ListByUser
<1> QED BY <1>1, <1>2 DEF Badge, TabsOf

\* A day that passes changes no job's work.
LEMMA NextDayInv ==
  ASSUME IInv, NextDay
  PROVE  IInv'
<1> USE DEF IInv
<1>1. /\ today < LastDay /\ today' = today + 1
      /\ UNCHANGED <<members, comments, assignee, due, finished, log>>
      /\ UNCHANGED <<notifications, read, mails, jobs, cache, panel, socket>>
  BY DEF NextDay
<1>2. TypeOK'
  <2>1. today' \in 0 .. LastDay
    BY <1>1, DayAssumption DEF TypeOK
  <2> QED BY <1>1, <2>1 DEF TypeOK, jobs, cache, panel, socket
<1>3. ASSUME NEW t \in Tab
      PROVE  Badge(t)'
  <2>1. Coming(t)' = Coming(t) /\ missed' = missed
    BY <1>1 DEF Coming, jobs, socket
  <2> QED BY <1>1, <2>1, StillExplained
<1> QED BY <1>1, <1>2, <1>3, TabFrame

\* An event handed to a tab waits in its queue.
LEMMA SendToUserInv ==
  ASSUME IInv, NEW n \in notifications, NEW t \in Tab, SendToUser(n, t)
  PROVE  IInv'
<1> USE DEF IInv
<1>1. /\ wire' = wire \ {<<n, t>>}
      /\ \/ inbox' = [inbox EXCEPT ![t] = inbox[t] \cup {n}] /\ missed' = missed
         \/ missed' = missed \cup {<<n, t>>} /\ inbox' = inbox
      /\ UNCHANGED <<cause, notifications, read, mails, jobs, cache, panel, open>>
  BY DEF SendToUser
<1>2. TypeOK'
  <2>1. inbox' \in [Tab -> SUBSET notifications]
    <3>1. inbox[t] \cup {n} \subseteq notifications
      BY DEF TypeOK
    <3> QED BY <1>1, <3>1 DEF TypeOK
  <2>2. wire' \subseteq notifications \X Tab /\ missed' \subseteq notifications \X Tab
    BY <1>1 DEF TypeOK
  <2> QED BY <1>1, <2>1, <2>2 DEF TypeOK, cause, jobs, cache, panel
<1>3. Badge(t)'
  <2>1. n \in inbox'[t] \/ <<n, t>> \in missed'
    BY <1>1 DEF TypeOK
  <2>2. inbox[t] \subseteq inbox'[t] /\ missed \subseteq missed'
    BY <1>1 DEF TypeOK
  <2>3. \A m \in notifications : m \in Coming(t) => m \in Coming(t)' \cup Missed(t)'
    BY <1>1, <2>1, <2>2 DEF Coming, Missed, jobs
  <2> QED BY <1>1, <2>2, <2>3, StillExplained
<1>4. \A x \in Tab \ {t} : inbox'[x] = inbox[x] /\ \A m : <<m, x>> \in wire => <<m, x>> \in wire'
  BY <1>1 DEF TypeOK
<1>5. missed \subseteq missed'
  BY <1>1
<1> QED BY <1>1, <1>2, <1>3, <1>4, <1>5, TabInv DEF cause, cache, panel

\* An event lost on the way is counted as missed.
LEMMA LoseEventInv ==
  ASSUME IInv, NEW n \in notifications, NEW t \in Tab, LoseEvent(n, t)
  PROVE  IInv'
<1> USE DEF IInv
<1>1. /\ wire' = wire \ {<<n, t>>} /\ missed' = missed \cup {<<n, t>>}
      /\ UNCHANGED <<cause, notifications, read, mails, jobs, cache, panel, open, inbox>>
  BY DEF LoseEvent
<1>2. TypeOK'
  BY <1>1 DEF TypeOK, cause, jobs, cache, panel
<1>3. Badge(t)'
  <2>1. \A m \in notifications : m \in Coming(t) => m \in Coming(t)' \cup Missed(t)'
    BY <1>1 DEF Coming, Missed, jobs
  <2> QED BY <1>1, <2>1, StillExplained
<1> QED BY <1>1, <1>2, <1>3, TabInv DEF cause, cache, panel

\* A socket that opens changes nothing that is shown.
LEMMA ConnectInv ==
  ASSUME IInv, NEW t \in Tab, Connect(t)
  PROVE  IInv'
<1> USE DEF IInv
<1>1. /\ open' = open \cup {t}
      /\ UNCHANGED <<cause, notifications, read, mails, jobs, cache, panel, wire, inbox, missed>>
  BY DEF Connect
<1>2. TypeOK'
  BY <1>1 DEF TypeOK, cause, jobs, cache, panel
<1>3. Badge(t)'
  <2>1. \A m \in notifications : m \in Coming(t) => m \in Coming(t)' \cup Missed(t)'
    BY <1>1 DEF Coming, jobs
  <2> QED BY <1>1, <2>1, StillExplained
<1> QED BY <1>1, <1>2, <1>3, TabInv DEF cause, cache, panel

\* A socket that closes drops its queue, counted as missed.
LEMMA DisconnectInv ==
  ASSUME IInv, NEW t \in Tab, Disconnect(t)
  PROVE  IInv'
<1> USE DEF IInv
<1>1. /\ open' = open \ {t}
      /\ missed' = missed \cup (inbox[t] \X {t})
      /\ inbox' = [inbox EXCEPT ![t] = {}]
      /\ UNCHANGED <<cause, notifications, read, mails, jobs, cache, panel, wire>>
  BY DEF Disconnect
<1>2. TypeOK'
  <2>1. missed' \subseteq notifications \X Tab /\ inbox' \in [Tab -> SUBSET notifications]
    BY <1>1 DEF TypeOK
  <2> QED BY <1>1, <2>1 DEF TypeOK, cause, jobs, cache, panel
<1>3. Badge(t)'
  <2>1. \A m \in notifications : m \in Coming(t) => m \in Coming(t)' \cup Missed(t)'
    BY <1>1 DEF Coming, Missed, jobs
  <2> QED BY <1>1, <2>1, StillExplained
<1>4. \A x \in Tab \ {t} : inbox'[x] = inbox[x]
  BY <1>1 DEF TypeOK
<1> QED BY <1>1, <1>2, <1>3, <1>4, TabInv DEF cause, cache, panel

(* A query that will be answered afresh has nothing to explain.            *)
LEMMA AskedLemma ==
  ASSUME IInv, NEW t \in Tab, t \in loaded', fetch'[t] = "asked",
         UNCHANGED <<notifications, found, shown, chosen>>
  PROVE  Badge(t)'
<1>1. Badge(t)
  BY DEF IInv
<1>2. ListByUser(Owner[t])' = ListByUser(Owner[t])
  BY DEF ListByUser
<1> QED BY <1>1, <1>2 DEF Badge

\* An event starts the panel's read afresh, unless the first read swallows it.
LEMMA HandleEventInv ==
  ASSUME IInv, NEW t \in Tab, HandleEvent(t)
  PROVE  IInv'
<1> USE DEF IInv
<1>1. PICK n \in inbox[t] :
        /\ inbox' = [inbox EXCEPT ![t] = inbox[t] \ {n}]
        /\ fetch' = [fetch EXCEPT ![t] = IF fetch[t] = "none" \/ t \in loaded THEN "asked" ELSE fetch[t]]
        /\ missed' = IF t \notin loaded /\ fetch[t] = "answered" THEN missed \cup {<<n, t>>} ELSE missed
        /\ UNCHANGED <<cause, notifications, read, mails, jobs, found, loaded, shown, panel, wire, open>>
  BY DEF HandleEvent, Invalidate
<1>2. TypeOK'
  <2>1. fetch' \in [Tab -> {"none", "asked", "answered"}] /\ inbox' \in [Tab -> SUBSET notifications]
    BY <1>1 DEF TypeOK
  <2>2. missed' \subseteq notifications \X Tab
    BY <1>1 DEF TypeOK
  <2> QED BY <1>1, <2>1, <2>2 DEF TypeOK, cause, jobs, panel
<1>3. Badge(t) /\ missed \subseteq missed'
  BY <1>1
<1>4. Badge(t)'
  <2>1. CASE t \in loaded
    <3>1. fetch'[t] = "asked"
      BY <1>1, <2>1 DEF TypeOK
    <3> QED BY <1>1, <2>1, <3>1, AskedLemma DEF panel
  <2>2. CASE t \notin loaded
    <3>1. fetch[t] # "none" /\ fetch'[t] = fetch[t]
      BY <1>1, <1>3, <2>2 DEF TypeOK, Badge
    <3>2. ListByUser(Owner[t])' = ListByUser(Owner[t]) /\ Unread(Owner[t])' = Unread(Owner[t])
          /\ Unread(Owner[t]) \subseteq notifications /\ Missed(t) \subseteq Missed(t)'
      BY <1>1 DEF ListByUser, Unread, Missed
    <3>3. fetch[t] = "answered" =>
            \A m \in notifications : m \in Coming(t) => m \in Coming(t)' \cup Missed(t)'
      BY <1>1, <2>2 DEF Coming, Missed, jobs, TypeOK
    <3> QED BY <1>1, <1>3, <2>2, <3>1, <3>2, <3>3 DEF Badge, TabsOf, panel
  <2> QED BY <2>1, <2>2
<1>5. \A x \in Tab \ {t} : inbox'[x] = inbox[x] /\ fetch'[x] = fetch[x]
  BY <1>1 DEF TypeOK
<1> QED BY <1>1, <1>2, <1>3, <1>4, <1>5, TabInv DEF cause, panel

\* The focus starts a read, and what was missed is made good by it.
LEMMA RefocusInv ==
  ASSUME IInv, NEW t \in Tab, Refocus(t)
  PROVE  IInv'
<1> USE DEF IInv
<1>1. /\ fetch[t] = "none" /\ fetch' = [fetch EXCEPT ![t] = "asked"]
      /\ UNCHANGED <<cause, notifications, read, mails, jobs, found, loaded, shown, panel, socket>>
  BY DEF Refocus
<1>2. TypeOK'
  BY <1>1 DEF TypeOK, cause, jobs, panel, socket
<1>3. fetch'[t] = "asked" /\ \A x \in Tab \ {t} : fetch'[x] = fetch[x]
  BY <1>1 DEF TypeOK
<1>4. Badge(t)'
  <2>1. t \in loaded
    BY <1>1 DEF Badge
  <2> QED BY <1>1, <1>3, <2>1, AskedLemma DEF panel
<1> QED BY <1>1, <1>2, <1>3, <1>4, TabInv DEF cause, panel, socket

\* The answer is the rows as they are when it is read.
LEMMA GetUnreadInv ==
  ASSUME IInv, NEW t \in Tab, GetUnread(t)
  PROVE  IInv'
<1> USE DEF IInv
<1>1. /\ fetch' = [fetch EXCEPT ![t] = "answered"] /\ found' = [found EXCEPT ![t] = Unread(Owner[t])]
      /\ UNCHANGED <<cause, notifications, read, mails, jobs, loaded, shown, panel, socket>>
  BY DEF GetUnread
<1>2. Unread(Owner[t]) \subseteq ListByUser(Owner[t]) /\ ListByUser(Owner[t]) \subseteq notifications
  BY DEF Unread, ListByUser
<1>3. TypeOK'
  BY <1>1, <1>2 DEF TypeOK, cause, jobs, panel, socket
<1>4. fetch'[t] = "answered" /\ found'[t] = Unread(Owner[t])
      /\ \A x \in Tab \ {t} : fetch'[x] = fetch[x] /\ found'[x] = found[x]
  BY <1>1 DEF TypeOK
<1>5. Badge(t)'
  <2>1. ListByUser(Owner[t])' = ListByUser(Owner[t]) /\ Unread(Owner[t])' = Unread(Owner[t])
    BY <1>1 DEF ListByUser, Unread
  <2>2. Badge(t)
    OBVIOUS
  <2> QED BY <1>1, <1>2, <1>4, <2>1, <2>2 DEF Badge, TabsOf, panel
<1> QED BY <1>1, <1>3, <1>4, <1>5, TabInv DEF cause, panel, socket

\* The screen shows the answer, and what held of the one holds of the other.
LEMMA ShowInv ==
  ASSUME IInv, NEW t \in Tab, Show(t)
  PROVE  IInv'
<1> USE DEF IInv
<1>1. /\ fetch[t] = "answered"
      /\ fetch' = [fetch EXCEPT ![t] = "none"] /\ found' = [found EXCEPT ![t] = {}]
      /\ loaded' = loaded \cup {t} /\ shown' = [shown EXCEPT ![t] = found[t]]
      /\ UNCHANGED <<cause, notifications, read, mails, jobs, panel, socket>>
  BY DEF Show
<1>2. TypeOK'
  BY <1>1 DEF TypeOK, cause, jobs, panel, socket
<1>3. fetch'[t] = "none" /\ found'[t] = {} /\ shown'[t] = found[t] /\ t \in loaded'
      /\ \A x \in Tab \ {t} : /\ fetch'[x] = fetch[x] /\ found'[x] = found[x] /\ shown'[x] = shown[x]
                              /\ (x \in loaded' <=> x \in loaded)
  BY <1>1 DEF TypeOK
<1>4. Badge(t)'
  <2>1. ListByUser(Owner[t])' = ListByUser(Owner[t]) /\ Unread(Owner[t])' = Unread(Owner[t])
        /\ Coming(t)' = Coming(t) /\ Missed(t)' = Missed(t)
    BY <1>1 DEF ListByUser, Unread, Coming, Missed, jobs, socket
  <2>2. Badge(t)
    OBVIOUS
  <2> QED BY <1>1, <1>3, <2>1, <2>2 DEF Badge, TabsOf, panel
<1> QED BY <1>1, <1>2, <1>3, <1>4, TabInv DEF cause, panel, socket

(* What a tab marks as read was unread, or shown, and its user's.          *)
LEMMA ReadLemma ==
  ASSUME IInv, NEW t \in Tab, mark'[t] = "marked", t \in loaded,
         UNCHANGED <<cause, notifications, mails, jobs, cache, socket>>,
         \A x \in Tab \ {t} : mark'[x] = mark[x] /\ chosen'[x] = chosen[x],
         NEW S, S \subseteq ListByUser(Owner[t]), read' = read \cup S,
         chosen'[t] \subseteq chosen[t], TypeOK'
  PROVE  IInv'
<1> USE DEF IInv
<1>1. Badge(t)'
  <2>1. ListByUser(Owner[t])' = ListByUser(Owner[t]) /\ Unread(Owner[t])' \subseteq Unread(Owner[t])
        /\ Coming(t)' = Coming(t) /\ Missed(t)' = Missed(t)
    BY DEF ListByUser, Unread, Coming, Missed, jobs, socket
  <2>2. Badge(t)
    OBVIOUS
  <2> QED BY <2>1, <2>2 DEF Badge, cache
<1>2. \A n \in read' \ read : n.user = Owner[t]
  BY DEF ListByUser
<1> QED BY <1>1, <1>2, TabInv DEF cause, cache, socket

\* A click marks a row it shows; the tab's next read follows.
LEMMA MarkReadInv ==
  ASSUME IInv, NEW t \in Tab, MarkRead(t)
  PROVE  IInv'
<1> USE DEF IInv
<1>1. PICK n \in shown[t] :
        /\ mark' = [mark EXCEPT ![t] = "marked"]
        /\ read' = read \cup {n}
        /\ UNCHANGED <<cause, notifications, mails, jobs, cache, chosen, socket>>
  BY DEF MarkRead
<1>2. {n} \subseteq ListByUser(Owner[t]) /\ t \in loaded /\ n \in notifications
  BY DEF Badge, TypeOK
<1>3. TypeOK'
  BY <1>1, <1>2 DEF TypeOK, cause, jobs, cache, socket
<1>4. mark'[t] = "marked" /\ \A x \in Tab \ {t} : mark'[x] = mark[x]
  BY <1>1 DEF TypeOK
<1>5. chosen'[t] \subseteq chosen[t] /\ \A x \in Tab \ {t} : chosen'[x] = chosen[x]
  BY <1>1
<1> QED BY <1>1, <1>2, <1>3, <1>4, <1>5, ReadLemma

\* Mark all read picks the rows that are unread now.
LEMMA SelectUnreadInv ==
  ASSUME IInv, NEW t \in Tab, SelectUnread(t)
  PROVE  IInv'
<1> USE DEF IInv
<1>1. /\ mark[t] = "none" /\ shown[t] # {}
      /\ mark' = [mark EXCEPT ![t] = "selected"] /\ chosen' = [chosen EXCEPT ![t] = Unread(Owner[t])]
      /\ UNCHANGED <<cause, notifications, read, mails, jobs, cache, socket>>
  BY DEF SelectUnread
<1>2. Unread(Owner[t]) \subseteq ListByUser(Owner[t]) /\ ListByUser(Owner[t]) \subseteq notifications
  BY DEF Unread, ListByUser
<1>3. TypeOK'
  BY <1>1, <1>2 DEF TypeOK, cause, jobs, cache, socket
<1>4. mark'[t] = "selected" /\ chosen'[t] = Unread(Owner[t])
      /\ \A x \in Tab \ {t} : mark'[x] = mark[x] /\ chosen'[x] = chosen[x]
  BY <1>1 DEF TypeOK
<1>5. Badge(t)'
  <2>1. ListByUser(Owner[t])' = ListByUser(Owner[t]) /\ Unread(Owner[t])' = Unread(Owner[t])
        /\ Coming(t)' = Coming(t) /\ Missed(t)' = Missed(t)
    BY <1>1 DEF ListByUser, Unread, Coming, Missed, jobs, socket
  <2>2. Badge(t)
    OBVIOUS
  <2> QED BY <1>1, <1>2, <1>4, <2>1, <2>2 DEF Badge, TabsOf, cache
<1> QED BY <1>1, <1>3, <1>4, <1>5, TabInv DEF cause, cache, socket

\* It marks the rows it picked.
LEMMA CommitReadInv ==
  ASSUME IInv, NEW t \in Tab, CommitRead(t)
  PROVE  IInv'
<1> USE DEF IInv
<1>1. /\ mark[t] = "selected"
      /\ mark' = [mark EXCEPT ![t] = "marked"] /\ chosen' = [chosen EXCEPT ![t] = {}]
      /\ read' = read \cup chosen[t]
      /\ UNCHANGED <<cause, notifications, mails, jobs, cache, socket>>
  BY DEF CommitRead
<1>2. chosen[t] \subseteq ListByUser(Owner[t]) /\ t \in loaded /\ chosen[t] \subseteq notifications
  BY <1>1 DEF Badge, TypeOK
<1>3. TypeOK'
  BY <1>1, <1>2 DEF TypeOK, cause, jobs, cache, socket
<1>4. mark'[t] = "marked" /\ chosen'[t] \subseteq chosen[t]
      /\ \A x \in Tab \ {t} : mark'[x] = mark[x] /\ chosen'[x] = chosen[x]
  BY <1>1 DEF TypeOK
<1> QED BY <1>1, <1>2, <1>3, <1>4, ReadLemma

\* The answer to a click starts the panel's read afresh.
LEMMA MarkedInv ==
  ASSUME IInv, NEW t \in Tab, Marked(t)
  PROVE  IInv'
<1> USE DEF IInv
<1>1. /\ mark[t] = "marked" /\ mark' = [mark EXCEPT ![t] = "none"]
      /\ fetch' = [fetch EXCEPT ![t] = IF fetch[t] = "none" \/ t \in loaded THEN "asked" ELSE fetch[t]]
      /\ UNCHANGED <<cause, notifications, read, mails, jobs, found, loaded, shown, chosen, socket>>
  BY DEF Marked, Invalidate
<1>2. t \in loaded
  BY <1>1 DEF Badge
<1>3. TypeOK'
  BY <1>1 DEF TypeOK, cause, jobs, socket
<1>4. fetch'[t] = "asked" /\ \A x \in Tab \ {t} : mark'[x] = mark[x] /\ fetch'[x] = fetch[x]
  BY <1>1, <1>2 DEF TypeOK
<1>5. Badge(t)'
  BY <1>1, <1>2, <1>4, AskedLemma
<1> QED BY <1>1, <1>3, <1>4, <1>5, TabInv DEF cause, socket

\* A click that fails leaves rows marked only where the tab is counted as having missed it.
LEMMA MarkFailsInv ==
  ASSUME IInv, NEW t \in Tab, MarkFails(t)
  PROVE  IInv'
<1> USE DEF IInv
<1>1. /\ mark[t] # "none"
      /\ mark' = [mark EXCEPT ![t] = "none"] /\ chosen' = [chosen EXCEPT ![t] = {}]
      /\ missed' = IF mark[t] = "marked" THEN missed \cup (((shown[t] \cup found[t]) \cap read) \X {t})
                                         ELSE missed
      /\ UNCHANGED <<cause, notifications, read, mails, jobs, cache, wire, open, inbox>>
  BY DEF MarkFails
<1>2. TypeOK'
  <2>1. missed' \subseteq notifications \X Tab
    BY <1>1 DEF TypeOK
  <2> QED BY <1>1, <2>1 DEF TypeOK, cause, jobs, cache
<1>3. mark'[t] = "none" /\ chosen'[t] = {} /\ missed \subseteq missed'
      /\ \A x \in Tab \ {t} : mark'[x] = mark[x] /\ chosen'[x] = chosen[x]
  BY <1>1 DEF TypeOK
<1>4. Badge(t)'
  <2>1. ListByUser(Owner[t])' = ListByUser(Owner[t]) /\ Unread(Owner[t])' = Unread(Owner[t])
        /\ Coming(t)' = Coming(t) /\ Missed(t) \subseteq Missed(t)'
    BY <1>1 DEF ListByUser, Unread, Coming, Missed, jobs
  <2>2. Badge(t)
    OBVIOUS
  <2>3. mark[t] = "marked" => \A n \in shown[t] \cup found[t] :
          n \in Unread(Owner[t]) \cup Missed(t)'
    <3>1. \A n \in shown[t] \cup found[t] : n \in ListByUser(Owner[t]) /\ n \in notifications
      BY <2>2 DEF Badge, ListByUser
    <3> QED BY <1>1, <3>1 DEF Unread, Missed
  <2> QED BY <1>1, <1>3, <2>1, <2>2, <2>3 DEF Badge, TabsOf, cache
<1> QED BY <1>1, <1>2, <1>3, <1>4, TabInv DEF cause, cache

\* The invariant is about the variables alone.
LEMMA StutterInv ==
  ASSUME IInv, UNCHANGED vars
  PROVE  IInv'
<1> USE DEF IInv
<1>1. UNCHANGED <<cause, notifications, mails, jobs>> /\ UNCHANGED <<read, cache, panel, socket>>
  BY DEF vars
<1>2. TypeOK'
  BY <1>1 DEF TypeOK, cause, jobs, cache, panel, socket
<1>3. ASSUME NEW t \in Tab
      PROVE  Badge(t)'
  <2>1. Coming(t)' = Coming(t) /\ missed' = missed
    BY <1>1 DEF Coming, jobs, socket
  <2> QED BY <1>1, <2>1, StillExplained
<1> QED BY <1>1, <1>2, <1>3, TabFrame DEF cause

\* Every step keeps the invariant: one lemma per action.
LEMMA NextInv == IInv /\ [Next]_vars => IInv'
<1> SUFFICES ASSUME IInv, [Next]_vars
             PROVE  IInv'
  OBVIOUS
<1>1. ASSUME NEW j \in Job, Change(j) \/ Dispatch(j) \/ Fail(j)
      PROVE  IInv'
  BY <1>1, CreateCommentInv, InviteMemberInv, CreateTaskInv, LoadTaskInv, UpdateTaskInv,
     SendDueSoonRemindersInv, ListDueSoonInv, RefreshInv,
     PublishEventInv, NotifyMentionsInv, CreateInv, PublishNotificationInv, QueueMailInv, FailInv
     DEF Change, Dispatch
<1>2. ASSUME NEW n \in notifications, NEW t \in Tab, SendToUser(n, t) \/ LoseEvent(n, t)
      PROVE  IInv'
  BY <1>2, SendToUserInv, LoseEventInv
<1>3. ASSUME NEW t \in Tab,
             \/ Connect(t) \/ Disconnect(t) \/ HandleEvent(t) \/ Refocus(t)
             \/ Query(t) \/ Click(t) \/ Answer(t) \/ MarkFails(t)
      PROVE  IInv'
  BY <1>3, ConnectInv, DisconnectInv, HandleEventInv, RefocusInv, GetUnreadInv, ShowInv,
     MarkReadInv, SelectUnreadInv, CommitReadInv, MarkedInv, MarkFailsInv DEF Query, Click, Answer
<1>4. CASE UNCHANGED vars
  BY <1>4, StutterInv
<1> QED BY <1>1, <1>2, <1>3, <1>4, NextDayInv DEF Next

\* The invariant holds in every reachable state.
LEMMA Invariance == Spec => []IInv
  BY InitIInv, NextInv, PTL DEF Spec

(* The types are kept, for any number of jobs and tabs.                    *)
THEOREM TypeCorrect == Spec => []TypeOK
<1>1. IInv => TypeOK
  BY DEF IInv
<1> QED BY <1>1, Invariance, PTL

\* Rows have causes, which concern their users.
LEMMA CausedLemma ==
  ASSUME IInv, NEW n \in notifications
  PROVE  Caused(n) /\ (job[n.job].type # "task_due_soon" => n.user # job[n.job].actor)
<1> USE DEF IInv
<1> DEFINE j == n.job
<1>1. n \in Notification /\ j \in Job /\ job[j].type \in Kind /\ n.user \in User
  BY DEF TypeOK, Notification, Ask
<1> HIDE DEF j
<1>2. Listed(j) /\ Reasons(j) /\ Written(j)
  BY <1>1 DEF Work
<1>3. /\ n.n \in DOMAIN list[j] /\ list[j][n.n].user = n.user /\ list[j][n.n].task = n.task
      /\ MayHear(j, n.user) /\ list[j] # <<>>
  <2>1. n \in notifications /\ n.job = j
    BY DEF j
  <2>2. /\ n.n \in DOMAIN list[j] /\ list[j][n.n] = [user |-> n.user, task |-> n.task]
        /\ MayHear(j, n.user)
    BY <1>2, <2>1 DEF Written
  <2> QED BY <2>2
<1>4. job[j].type # "task_due_soon" => n.user # job[j].actor
  BY <1>3 DEF MayHear, Reminds
<1>5. CASE job[j].type = "mention"
  <2>1. list[j] = Addressed(j)
    BY <1>2, <1>3, <1>5 DEF Listed, Reminds, Edits
  <2>2. \A i \in DOMAIN Addressed(j) : Addressed(j)[i].task = job[j].task
    BY <1>1, AddressedLemma
  <2>3. n.task = job[j].task
    BY <1>3, <2>1, <2>2
  <2> QED BY <1>2, <1>3, <1>4, <1>5, <2>3 DEF Caused, CommentsOf, MayHear, Audience, Reasons, j
<1>6. CASE Edits(j)
  <2>1. PICK u \in User : list[j] = <<[user |-> u, task |-> job[j].task]>>
    BY <1>2, <1>3, <1>6 DEF Listed
  <2>2. n.n = 1 /\ n.task = job[j].task /\ n.user = list[j][1].user
    BY <1>3, <2>1
  <2>3. j \in Assigners(n.task) /\ \E a \in Assigners(n.task) : job[a].to = <<n.user>>
    <3>1. n.task \in Task
      BY <1>1 DEF Notification
    <3> QED BY <1>2, <1>3, <1>6, <2>2, <3>1 DEF Reasons
  <2> QED BY <1>4, <1>6, <2>3 DEF Caused, Edits, j
<1>7. CASE job[j].type # "mention" /\ ~Edits(j)
  BY <1>1, <1>3, <1>4, <1>7 DEF Caused, MayHear, Audience, ScopeOf, Kind, Edits, j
<1> QED BY <1>5, <1>6, <1>7

\* A job has one row for each address.
LEMMA OneRowEach ==
  ASSUME IInv, NEW m \in notifications, NEW n \in notifications, m.job = n.job,
         m.n = n.n \/ (job[n.job].type # "task_due_soon" /\ m.user = n.user)
  PROVE  m = n
<1> USE DEF IInv
<1> DEFINE j == n.job
<1>1. m \in Notification /\ n \in Notification /\ j \in Job
  BY DEF TypeOK, Notification
<1> HIDE DEF j
<1>2. Listed(j) /\ Written(j)
  BY <1>1 DEF Work
<1>3. /\ m.n \in DOMAIN list[j] /\ list[j][m.n] = [user |-> m.user, task |-> m.task]
      /\ n.n \in DOMAIN list[j] /\ list[j][n.n] = [user |-> n.user, task |-> n.task]
  BY <1>2 DEF Written, j
<1>4. m.n = n.n
  <2>1. CASE job[j].type # "task_due_soon" /\ m.user = n.user /\ ~Edits(j)
    <3>1. list[j] = Addressed(j)
      BY <1>2, <1>3, <2>1 DEF Listed, Reminds
    <3>2. /\ DOMAIN Addressed(j) = DOMAIN job[j].to
          /\ \A i \in DOMAIN Addressed(j) : Addressed(j)[i].user = job[j].to[i]
      BY <1>1, AddressedLemma
    <3>3. m.n \in DOMAIN Addressed(j) /\ Addressed(j)[m.n].user = m.user
          /\ n.n \in DOMAIN Addressed(j) /\ Addressed(j)[n.n].user = n.user
      BY <1>3, <3>1
    <3>4. job[j].to[m.n] = job[j].to[n.n]
      BY <2>1, <3>2, <3>3
    <3>5. \A i, k \in DOMAIN job[j].to : job[j].to[i] = job[j].to[k] => i = k
      BY <1>1, AsksAssumption
    <3> QED BY <3>2, <3>3, <3>4, <3>5
  <2>2. CASE Edits(j)
    <3>1. list[j] # <<>>
      BY <1>3
    <3>2. PICK u \in User : list[j] = <<[user |-> u, task |-> job[j].task]>>
      BY <1>2, <2>2, <3>1 DEF Listed
    <3>3. DOMAIN list[j] = {1}
      BY <3>2
    <3> QED BY <1>3, <3>3
  <2> QED BY <2>1, <2>2 DEF j
<1>5. m.user = n.user /\ m.task = n.task
  BY <1>3, <1>4
<1>6. /\ m = [job |-> m.job, n |-> m.n, user |-> m.user, task |-> m.task]
      /\ n = [job |-> n.job, n |-> n.n, user |-> n.user, task |-> n.task]
  BY <1>1 DEF Notification
<1> QED BY <1>4, <1>5, <1>6

(* Every row has a cause, nobody is passed over, whatever fails, and who   *)
(* has a task was told so, however the jobs that assigned it overlap.      *)
THEOREM RowsMatchCausesEver == Spec => []RowsMatchCauses
<1>1. ASSUME IInv
      PROVE  RowsHaveCauses
  <2> USE <1>1 DEF IInv
  <2> SUFFICES ASSUME NEW j \in Job
               PROVE  /\ \A n \in RowsOf(j) :
                           /\ Caused(n) /\ (job[j].type # "task_due_soon" => n.user # job[j].actor)
                           /\ n.n <= next[j] /\ list[j][n.n] = [user |-> n.user, task |-> n.task]
                      /\ \A m, n \in RowsOf(j) :
                           m.n = n.n \/ (job[j].type # "task_due_soon" /\ m.user = n.user) => m = n
                      /\ \A i \in DOMAIN list[j] :
                           /\ i < next[j] \/ pc[j] = "done"
                           /\ list[j][i].user \in Founders
                           /\ job[j].type = "task_due_soon" \/ list[j][i].user # job[j].actor
                           =>
                             \E n \in mails : n.job = j /\ n.user = list[j][i].user /\ n.task = list[j][i].task
                      /\ job[j].type # "workspace_invite" /\ RowsOf(j) # {} /\ job[j].type # "task_due_soon" =>
                           j \in log
    BY DEF RowsHaveCauses
  <2>1. Listed(j) /\ Reasons(j) /\ Written(j) /\ Mailed(j)
    BY DEF Work
  <2>2. ASSUME NEW n \in RowsOf(j)
        PROVE  /\ n.n <= next[j] /\ list[j][n.n] = [user |-> n.user, task |-> n.task]
               /\ list[j] # <<>>
               /\ Caused(n) /\ (job[j].type # "task_due_soon" => n.user # job[j].actor)
    BY <2>1, CausedLemma DEF RowsOf, Written
  <2>3. \A m, n \in RowsOf(j) : m.n = n.n \/ (job[j].type # "task_due_soon" /\ m.user = n.user) => m = n
    BY OneRowEach DEF RowsOf
  <2>4. \A i \in DOMAIN list[j] :
          /\ i < next[j] \/ pc[j] = "done"
          /\ list[j][i].user \in Founders
          /\ job[j].type = "task_due_soon" \/ list[j][i].user # job[j].actor
          => \E n \in mails : n.job = j /\ n.user = list[j][i].user /\ n.task = list[j][i].task
    BY <2>1 DEF Mailed, Reminds
  <2>5. job[j].type # "workspace_invite" /\ RowsOf(j) # {} /\ job[j].type # "task_due_soon" => j \in log
    BY <2>1, <2>2 DEF Reasons
  <2> QED BY <2>2, <2>3, <2>4, <2>5
<1>2. ASSUME IInv
      PROVE  AssigneesTold
  BY <1>2 DEF IInv, Tasks, Given, Informs, AssigneesTold
<1>3. IInv => RowsMatchCauses
  BY <1>1, <1>2 DEF RowsMatchCauses
<1> QED BY <1>3, Invariance, PTL

(* Whoever is reminded twice of a task, on however many days and by        *)
(* however many runs, is so because a run was late, or the task was moved. *)
THEOREM RemindedAgainForCauseEver == Spec => []RemindedAgainForCause
<1>1. ASSUME IInv
      PROVE  RemindedAgainForCause
  <2> USE <1>1 DEF IInv
  <2> SUFFICES ASSUME NEW m \in Reminders, NEW n \in Reminders, m # n, m.task = n.task
               PROVE  /\ m.job # n.job
                      /\ IF saw[m.job].due = saw[n.job].due THEN Late(m.job) \/ Late(n.job)
                         ELSE \E u \in log : /\ job[u].type = "task_updated" /\ job[u].task = m.task
                                             /\ job[u].due \in {<<saw[m.job].due>>, <<saw[n.job].due>>}
    BY DEF RemindedAgainForCause
  <2>1. m \in notifications /\ n \in notifications /\ m \in Notification /\ n \in Notification
    BY DEF TypeOK, Reminders
  <2>2. m.job \in Job /\ n.job \in Job /\ Reminds(m.job) /\ Reminds(n.job)
    BY <2>1 DEF Notification, Reminds, Reminders
  <2>3. /\ m.n \in DOMAIN list[m.job] /\ list[m.job][m.n] = [user |-> m.user, task |-> m.task]
        /\ n.n \in DOMAIN list[n.job] /\ list[n.job][n.n] = [user |-> n.user, task |-> n.task]
    BY <2>1, <2>2 DEF Work, Written
  <2>4. list[m.job][m.n].task = m.task /\ list[n.job][n.n].task = m.task
        /\ list[m.job] # <<>> /\ list[n.job] # <<>>
    BY <2>3
  <2>5. m.job # n.job
    <3>1. m.job = n.job => m.n = n.n
      BY <2>2, <2>3, <2>4 DEF Work, Listed
    <3> QED BY <2>1, <3>1, OneRowEach
  <2>6. m.task \in Task /\ saw[m.job].due \in Dates(m.task) /\ saw[n.job].due \in Dates(m.task)
    <3>1. m.task \in Task
      BY <2>1 DEF Notification
    <3>2. Reasons(m.job) /\ Reasons(n.job)
      BY <2>2 DEF Work
    <3> QED BY <2>2, <2>3, <2>4, <3>1, <3>2 DEF Reasons
  <2>7. CASE saw[m.job].due = saw[n.job].due
    <3>1. ASSUME NEW j \in Job, Reminds(j), list[j] # <<>>
          PROVE  /\ job[j].due = <<job[j].due[1]>> /\ job[j].due[1] \in Nat /\ saw[j].due \in Nat
                 /\ saw[j].due >= job[j].due[1] + 1
      <4>1. job[j] \in Ask /\ job[j].due # <<>> /\ saw[j] \in Row
        BY <3>1, AsksAssumption DEF TypeOK, Reminds
      <4>2. job[j].due \in Seq(Nat) /\ Len(job[j].due) <= 1 /\ saw[j].due \in Nat
        BY <4>1 DEF Ask, Option, Row
      <4>3. job[j].due = <<job[j].due[1]>> /\ job[j].due[1] \in Nat
        BY <4>1, <4>2
      <4> QED BY <3>1, <4>2, <4>3 DEF Work, Listed, Early
    <3>2. job[m.job].due # job[n.job].due
      BY <2>2, <2>5, AsksAssumption DEF Reminds
    <3>3. /\ job[m.job].due = <<job[m.job].due[1]>> /\ job[m.job].due[1] \in Nat
          /\ job[n.job].due = <<job[n.job].due[1]>> /\ job[n.job].due[1] \in Nat
      BY <2>2, <2>4, <3>1
    <3>4. job[m.job].due[1] # job[n.job].due[1]
      BY <3>2, <3>3
    <3>5. /\ saw[m.job].due \in Nat /\ saw[m.job].due >= job[m.job].due[1] + 1
          /\ saw[n.job].due \in Nat /\ saw[n.job].due >= job[n.job].due[1] + 1
      BY <2>2, <2>4, <3>1
    <3> QED BY <2>5, <2>7, <3>3, <3>4, <3>5 DEF Late
  <2>8. CASE saw[m.job].due # saw[n.job].due
    <3>1. ~(saw[m.job].due \in First(m.task) /\ saw[n.job].due \in First(m.task))
      <4> SUFFICES ASSUME saw[m.job].due \in First(m.task), saw[n.job].due \in First(m.task)
                   PROVE  FALSE
        OBVIOUS
      <4>1. CASE \A c \in Job : ~Creates(c, m.task)
        <5>1. \A c \in log : ~Creates(c, m.task)
          BY <4>1 DEF TypeOK
        <5> QED BY <2>8, <5>1 DEF First
      <4>2. CASE \E c \in Job : Creates(c, m.task)
        <5>1. PICK a \in log : Creates(a, m.task) /\ job[a].due = <<saw[m.job].due>>
          BY <4>2 DEF First
        <5>2. PICK c \in log : Creates(c, m.task) /\ job[c].due = <<saw[n.job].due>>
          BY <4>2 DEF First
        <5>3. a = c
          BY <5>1, <5>2, AsksAssumption DEF Creates, TypeOK
        <5> QED BY <2>8, <5>1, <5>2, <5>3
      <4> QED BY <4>1, <4>2
    <3>2. saw[m.job].due \in Moved(m.task) \/ saw[n.job].due \in Moved(m.task)
      BY <2>6, <3>1 DEF Dates
    <3> QED BY <2>5, <2>8, <3>2 DEF Moved
  <2> QED BY <2>7, <2>8
<1> QED BY <1>1, Invariance, PTL

(* Every tab at rest shows what is unread but for what is on its way or    *)
(* was lost, for any number of users and tabs.                             *)
THEOREM BadgeExplainedEver == Spec => []BadgeExplained
<1>1. ASSUME IInv
      PROVE  BadgeExplained
  BY <1>1 DEF IInv, BadgeExplained, Badge, TypeOK
<1> QED BY <1>1, Invariance, PTL
(***************************************************************************)
(* The news.  It has four stages: the row is stored and its event still to *)
(* be published; the event is on the wire to a tab; the tab has an event   *)
(* to handle; the tab is reading again.  That a stage ends rests on one    *)
(* step of a server or of the tab, that it ends in a later one on the      *)
(* invariant.  A tab that reads may be made to read again any number of    *)
(* times, which keeps it in the last stage.                                *)
(***************************************************************************)
Told(t, n) == n \in notifications /\ t \in loaded /\ n.user = Owner[t]

Stored(t, j, n)   == Told(t, n) /\ pc[j] = "stored" /\ Fresh(j) = n
OnWire(t, n)      == Told(t, n) /\ <<n, t>> \in wire
InInbox(t, n)     == Told(t, n) /\ inbox[t] # {}
Reading(t, n)     == Told(t, n) /\ fetch[t] = "asked"
ReadAnswer(t, n)  == Told(t, n) /\ fetch[t] = "answered" /\ n \in found[t] \cup read

\* What is stored, and who has loaded, stays.
LEMMA ToldStep ==
  ASSUME NEW t \in Tab, NEW n \in Notification, IInv, [Next]_vars
  PROVE  /\ Told(t, n) => Told(t, n)'
         /\ read \subseteq read' /\ missed \subseteq missed'
<1>1. notifications \subseteq notifications' /\ loaded \subseteq loaded' /\ read \subseteq read' /\ missed \subseteq missed'
  <2>1. ASSUME NEW j \in Job, Change(j) \/ Dispatch(j) \/ Fail(j)
        PROVE  notifications \subseteq notifications' /\ loaded \subseteq loaded' /\ read \subseteq read' /\ missed \subseteq missed'
    BY <2>1 DEF Change, Dispatch, Fail, CreateComment, InviteMember, CreateTask, LoadTask, UpdateTask,
       SendDueSoonReminders, ListDueSoon, Refresh,
       PublishEvent, NotifyMentions, Create, PublishNotification, QueueMail, cache, socket
  <2>2. ASSUME NEW m \in notifications, NEW x \in Tab, SendToUser(m, x) \/ LoseEvent(m, x)
        PROVE  notifications \subseteq notifications' /\ loaded \subseteq loaded' /\ read \subseteq read' /\ missed \subseteq missed'
    BY <2>2 DEF SendToUser, LoseEvent, cache
  <2>3. ASSUME NEW x \in Tab,
               \/ Connect(x) \/ Disconnect(x) \/ HandleEvent(x) \/ Refocus(x)
               \/ Query(x) \/ Click(x) \/ Answer(x) \/ MarkFails(x)
        PROVE  notifications \subseteq notifications' /\ loaded \subseteq loaded' /\ read \subseteq read' /\ missed \subseteq missed'
    BY <2>3 DEF Connect, Disconnect, HandleEvent, Refocus, Query, GetUnread, Show, Click, MarkRead, SelectUnread,
       Answer, CommitRead, Marked, MarkFails, cache, socket
  <2>4. CASE UNCHANGED vars \/ NextDay
    BY <2>4 DEF vars, NextDay, cache, socket
  <2> QED BY <2>1, <2>2, <2>3, <2>4 DEF Next
<1> QED BY <1>1 DEF Told

\* A tab that has been read for shows what it read, unless the row is read meanwhile.
LEMMA TabSteps ==
  ASSUME NEW t \in Tab, IInv, [Next]_vars
  PROVE  /\ t \in open /\ t \in open' => inbox[t] \subseteq inbox'[t] \/ HandleEvent(t)
         /\ \/ fetch'[t] = fetch[t] /\ found'[t] = found[t] /\ shown'[t] = shown[t]
            \/ fetch'[t] = "asked" /\ (fetch[t] = "none" \/ t \in loaded)
            \/ GetUnread(t)
            \/ Show(t)
<1> USE DEF IInv, TypeOK
<1> DEFINE Kept == fetch'[t] = fetch[t] /\ found'[t] = found[t] /\ shown'[t] = shown[t]
           Asked == fetch'[t] = "asked" /\ (fetch[t] = "none" \/ t \in loaded)
           Goal == /\ t \in open /\ t \in open' => inbox[t] \subseteq inbox'[t] \/ HandleEvent(t)
                   /\ Kept \/ Asked \/ GetUnread(t) \/ Show(t)
<1>1. ASSUME NEW j \in Job, Change(j) \/ Dispatch(j) \/ Fail(j)
      PROVE  Goal
  BY <1>1 DEF Change, Dispatch, Fail, CreateComment, InviteMember, CreateTask, LoadTask, UpdateTask,
     SendDueSoonReminders, ListDueSoon, Refresh,
     PublishEvent, NotifyMentions, Create, PublishNotification, QueueMail, cache, socket
<1>2. ASSUME NEW m \in notifications, NEW x \in Tab, SendToUser(m, x) \/ LoseEvent(m, x)
      PROVE  Goal
  <2>1. UNCHANGED <<fetch, found, shown>>
    BY <1>2 DEF SendToUser, LoseEvent, cache
  <2>2. inbox' = inbox \/ inbox' = [inbox EXCEPT ![x] = @ \cup {m}]
    BY <1>2 DEF SendToUser, LoseEvent
  <2>3. inbox[t] \subseteq inbox'[t]
    BY <2>2
  <2> QED BY <2>1, <2>3
<1>3. ASSUME NEW x \in Tab, Connect(x) \/ Disconnect(x)
      PROVE  Goal
  BY <1>3 DEF Connect, Disconnect, cache
<1>4. ASSUME NEW x \in Tab, HandleEvent(x)
      PROVE  Goal
  <2>1. CASE x = t
    <3>1. found' = found /\ shown' = shown /\ DOMAIN fetch = Tab
          /\ fetch' = [fetch EXCEPT ![t] = IF fetch[t] = "none" \/ t \in loaded THEN "asked" ELSE fetch[t]]
      BY <1>4, <2>1 DEF HandleEvent, Invalidate
    <3>2. fetch'[t] = IF fetch[t] = "none" \/ t \in loaded THEN "asked" ELSE fetch[t]
      BY <3>1
    <3>3. Kept \/ Asked
      BY <3>1, <3>2
    <3> QED BY <1>4, <2>1, <3>3
  <2>2. CASE x # t
    BY <1>4, <2>2 DEF HandleEvent, Invalidate
  <2> QED BY <2>1, <2>2
<1>5. ASSUME NEW x \in Tab, Refocus(x)
      PROVE  Goal
  BY <1>5 DEF Refocus, socket
<1>6. ASSUME NEW x \in Tab, Query(x)
      PROVE  Goal
  BY <1>6 DEF Query, GetUnread, Show, socket
<1>7. ASSUME NEW x \in Tab, Click(x) \/ CommitRead(x) \/ MarkFails(x)
      PROVE  Goal
  BY <1>7 DEF Click, MarkRead, SelectUnread, CommitRead, MarkFails, cache, socket
<1>8. ASSUME NEW x \in Tab, Marked(x)
      PROVE  Goal
  BY <1>8 DEF Marked, Invalidate, socket
<1>9. CASE UNCHANGED vars \/ NextDay
  BY <1>9 DEF vars, NextDay, cache, socket
<1> QED BY <1>1, <1>2, <1>3, <1>4, <1>5, <1>6, <1>7, <1>8, <1>9 DEF Next, Answer


\* A stored row's event stays to be published until it is, or its job fails.
LEMMA StoredStep ==
  ASSUME NEW t \in Tab, NEW j \in Job, NEW n \in Notification
  PROVE  /\ IInv /\ [Next]_vars /\ Stored(t, j, n)
              => Stored(t, j, n)' \/ OnWire(t, n)' \/ Heard(t, n)'
         /\ IInv /\ <<Dispatch(j)>>_vars /\ Stored(t, j, n) => OnWire(t, n)'
<1> USE DEF IInv, TypeOK
<1>1. ASSUME IInv, [Next]_vars, Stored(t, j, n)
      PROVE  /\ Stored(t, j, n)' \/ OnWire(t, n)' \/ Heard(t, n)'
             /\ <<Dispatch(j)>>_vars => OnWire(t, n)'
  <2>1. Told(t, n)' /\ Fresh(j) = n /\ pc[j] = "stored" /\ t \in TabsOf(n.user)
    BY <1>1, ToldStep DEF Stored, TabsOf, Told
  <2>2. ASSUME PublishNotification(j)
        PROVE  OnWire(t, n)'
    BY <2>1, <2>2 DEF PublishNotification, OnWire
  <2>3. ASSUME Dispatch(j)
        PROVE  OnWire(t, n)'
    BY <2>1, <2>2, <2>3 DEF Dispatch, Refresh, PublishEvent, NotifyMentions, Create, QueueMail, Is
  <2>4. CASE Fail(j)
    BY <1>1, <2>1, <2>3, <2>4 DEF Fail, Heard
  <2>5. CASE pc'[j] = pc[j] /\ next'[j] = next[j] /\ list'[j] = list[j]
    BY <1>1, <2>1, <2>3, <2>5 DEF Stored, Fresh, Head1
  <2>6. Dispatch(j) \/ Fail(j) \/ (pc'[j] = pc[j] /\ next'[j] = next[j] /\ list'[j] = list[j])
    <3> DEFINE Kept == pc'[j] = pc[j] /\ next'[j] = next[j] /\ list'[j] = list[j]
    <3>1. ASSUME NEW k \in Job, Change(k)
          PROVE  Kept
      <4>1. k # j
        BY <2>1, <3>1 DEF Change, CreateComment, InviteMember, CreateTask, LoadTask, UpdateTask,
           SendDueSoonReminders, ListDueSoon, Is
      <4> QED BY <1>1, <3>1, <4>1 DEF Change, CreateComment, InviteMember, CreateTask, LoadTask, UpdateTask,
                 SendDueSoonReminders, ListDueSoon, Refuse, Tell, Goto
    <3>2. ASSUME NEW k \in Job \ {j}, Dispatch(k) \/ Fail(k)
          PROVE  Kept
      BY <1>1, <3>2 DEF Dispatch, Fail, Refresh, PublishEvent, NotifyMentions, Create, PublishNotification,
         QueueMail, Following, Tell, Goto
    <3>3. ASSUME NEW m \in notifications, NEW x \in Tab, SendToUser(m, x) \/ LoseEvent(m, x)
          PROVE  Kept
      BY <3>3 DEF SendToUser, LoseEvent, jobs
    <3>4. ASSUME NEW x \in Tab,
                 \/ Connect(x) \/ Disconnect(x) \/ HandleEvent(x) \/ Refocus(x)
                 \/ Query(x) \/ Click(x) \/ Answer(x) \/ MarkFails(x)
          PROVE  Kept
      BY <3>4 DEF Connect, Disconnect, HandleEvent, Refocus, Query, GetUnread, Show, Click, MarkRead,
         SelectUnread, Answer, CommitRead, Marked, MarkFails, jobs
    <3>5. CASE UNCHANGED vars \/ NextDay
      BY <3>5 DEF vars, NextDay, jobs
    <3> QED BY <1>1, <3>1, <3>2, <3>3, <3>4, <3>5 DEF Next
  <2> QED BY <2>3, <2>4, <2>5, <2>6
<1>2. <<Dispatch(j)>>_vars => [Next]_vars
  BY DEF Next
<1> QED BY <1>1, <1>2

\* An event stays on the wire until its tab's listener gets it, or it is lost.
LEMMA OnWireStep ==
  ASSUME NEW t \in Tab, NEW n \in Notification
  PROVE  /\ IInv /\ [Next]_vars /\ OnWire(t, n)
              => OnWire(t, n)' \/ InInbox(t, n)' \/ Heard(t, n)'
         /\ IInv /\ <<Relay(t)>>_vars /\ OnWire(t, n) => InInbox(t, n)' \/ Heard(t, n)'
<1> USE DEF IInv, TypeOK
<1>1. ASSUME IInv, [Next]_vars, OnWire(t, n)
      PROVE  OnWire(t, n)' \/ InInbox(t, n)' \/ Heard(t, n)'
  <2>1. Told(t, n)' /\ n \in notifications /\ <<n, t>> \in wire
    BY <1>1, ToldStep DEF OnWire, Told
  <2>2. ASSUME NEW m \in notifications, NEW x \in Tab, SendToUser(m, x) \/ LoseEvent(m, x),
               <<n, t>> \notin wire'
        PROVE  InInbox(t, n)' \/ Heard(t, n)'
    <3>1. m = n /\ x = t
      BY <2>1, <2>2 DEF SendToUser, LoseEvent
    <3>2. CASE SendToUser(m, x) /\ t \in open
      <4>1. n \in inbox'[t]
        BY <1>1, <3>1, <3>2 DEF SendToUser
      <4> QED BY <2>1, <4>1 DEF InInbox
    <3>3. CASE (SendToUser(m, x) /\ t \notin open) \/ LoseEvent(m, x)
      BY <3>1, <3>3 DEF SendToUser, LoseEvent, Heard
    <3> QED BY <2>2, <3>2, <3>3
  <2>3. CASE wire \subseteq wire'
    BY <2>1, <2>3 DEF OnWire
  <2>4. CASE ~(wire \subseteq wire')
    <3>1. ASSUME NEW k \in Job, Change(k) \/ Dispatch(k) \/ Fail(k)
          PROVE  FALSE
      BY <2>4, <3>1 DEF Change, CreateComment, InviteMember, CreateTask, LoadTask, UpdateTask,
         SendDueSoonReminders, ListDueSoon, Refresh,
         Dispatch, Fail, PublishEvent, NotifyMentions, Create, PublishNotification, QueueMail, socket
    <3>2. ASSUME NEW x \in Tab,
                 \/ Connect(x) \/ Disconnect(x) \/ HandleEvent(x) \/ Refocus(x)
                 \/ Query(x) \/ Click(x) \/ Answer(x) \/ MarkFails(x)
          PROVE  FALSE
      BY <2>4, <3>2 DEF Connect, Disconnect, HandleEvent, Refocus, Query, GetUnread, Show, Click, MarkRead,
         SelectUnread, Answer, CommitRead, Marked, MarkFails, socket
    <3>3. CASE UNCHANGED vars \/ NextDay
      BY <2>4, <3>3 DEF vars, NextDay, socket
    <3>4. ~OnWire(t, n)' => InInbox(t, n)' \/ Heard(t, n)'
      BY <1>1, <2>1, <2>2, <3>1, <3>2, <3>3 DEF Next, OnWire
    <3> QED BY <3>4
  <2> QED BY <2>3, <2>4
<1>2. ASSUME IInv, <<Relay(t)>>_vars, OnWire(t, n)
      PROVE  InInbox(t, n)' \/ Heard(t, n)'
  <2>1. PICK m \in notifications : SendToUser(m, t)
    BY <1>2 DEF Relay
  <2>2. [Next]_vars
    BY <2>1 DEF Next
  <2>3. Told(t, n)'
    BY <1>2, <2>2, ToldStep DEF OnWire
  <2>4. CASE t \in open
    <3>1. inbox' = [inbox EXCEPT ![t] = @ \cup {m}]
      BY <2>1, <2>4 DEF SendToUser
    <3>2. DOMAIN inbox = Tab
      BY <1>2
    <3>3. m \in inbox'[t]
      BY <3>1, <3>2
    <3> QED BY <2>3, <3>3 DEF InInbox
  <2>5. CASE t \notin open
    BY <2>1, <2>5 DEF SendToUser, Heard
  <2> QED BY <2>4, <2>5
<1> QED BY <1>1, <1>2

\* A tab that handles an event reads again.
LEMMA InInboxStep ==
  ASSUME NEW t \in Tab, NEW n \in Notification
  PROVE  /\ IInv /\ [Next]_vars /\ InInbox(t, n) /\ ~Heard(t, n)
              => InInbox(t, n)' \/ Reading(t, n)' \/ ReadAnswer(t, n)' \/ Heard(t, n)'
         /\ IInv /\ <<HandleEvent(t)>>_vars /\ InInbox(t, n)
              => Reading(t, n)' \/ ReadAnswer(t, n)'
<1> USE DEF IInv, TypeOK
<1>1. ASSUME IInv, HandleEvent(t), InInbox(t, n), Told(t, n)'
      PROVE  Reading(t, n)'
  <2>1. t \in loaded
    BY <1>1 DEF InInbox, Told
  <2> QED BY <1>1, <2>1 DEF HandleEvent, Invalidate, Reading
<1>2. ASSUME IInv, [Next]_vars, InInbox(t, n), ~Heard(t, n)
      PROVE  InInbox(t, n)' \/ Reading(t, n)' \/ Heard(t, n)'
  <2>1. Told(t, n)'
    BY <1>2, ToldStep DEF InInbox
  <2>2. t \in open /\ (t \in open' => inbox[t] \subseteq inbox'[t] \/ HandleEvent(t))
    BY <1>2, TabSteps DEF Heard
  <2> QED BY <1>1, <1>2, <2>1, <2>2 DEF InInbox, Heard
<1>3. <<HandleEvent(t)>>_vars => [Next]_vars /\ HandleEvent(t)
  BY DEF Next
<1>4. IInv /\ [Next]_vars /\ InInbox(t, n) => Told(t, n)'
  BY ToldStep DEF InInbox
<1> QED BY <1>1, <1>2, <1>3, <1>4

\* A tab that reads shows the row next, or reads again, or the row is read.
LEMMA ReadingStep ==
  ASSUME NEW t \in Tab, NEW n \in Notification
  PROVE  /\ IInv /\ [Next]_vars /\ Reading(t, n)
              => Reading(t, n)' \/ ReadAnswer(t, n)'
         /\ IInv /\ [Next]_vars /\ ReadAnswer(t, n)
              => Reading(t, n)' \/ ReadAnswer(t, n)' \/ Heard(t, n)'
         /\ IInv /\ <<GetUnread(t)>>_vars /\ Reading(t, n) => ReadAnswer(t, n)'
         /\ IInv /\ <<Show(t)>>_vars /\ ReadAnswer(t, n) => Heard(t, n)'
         /\ Reading(t, n) => ~<<Show(t)>>_vars
<1> USE DEF IInv, TypeOK
<1>1. ASSUME IInv, GetUnread(t), Reading(t, n), Told(t, n)'
      PROVE  ReadAnswer(t, n)'
  <2>1. n \in Unread(Owner[t]) \/ n \in read
    BY <1>1 DEF Reading, Told, Unread, ListByUser
  <2> QED BY <1>1, <2>1 DEF GetUnread, ReadAnswer, panel
<1>2. ASSUME IInv, Show(t), ReadAnswer(t, n)
      PROVE  Heard(t, n)'
  BY <1>2 DEF Show, ReadAnswer, Heard
<1>3. IInv /\ [Next]_vars /\ (Reading(t, n) \/ ReadAnswer(t, n)) => Told(t, n)' /\ read \subseteq read'
  BY ToldStep DEF Reading, ReadAnswer
<1>4. ASSUME IInv, [Next]_vars, Reading(t, n)
      PROVE  Reading(t, n)' \/ ReadAnswer(t, n)'
  <2>1. ~Show(t)
    BY <1>4 DEF Reading, Show
  <2> QED BY <1>1, <1>3, <1>4, <2>1, TabSteps DEF Reading
<1>5. ASSUME IInv, [Next]_vars, ReadAnswer(t, n)
      PROVE  Reading(t, n)' \/ ReadAnswer(t, n)' \/ Heard(t, n)'
  <2>1. ~GetUnread(t)
    BY <1>5 DEF ReadAnswer, GetUnread
  <2> QED BY <1>2, <1>3, <1>5, <2>1, TabSteps DEF Reading, ReadAnswer
<1>6. (<<GetUnread(t)>>_vars => [Next]_vars) /\ (<<Show(t)>>_vars => [Next]_vars)
  BY DEF Next, Query
<1>7. Reading(t, n) => ~Show(t)
  BY DEF Reading, Show
<1> QED BY <1>1, <1>2, <1>3, <1>4, <1>5, <1>6, <1>7


(* The rows a job may write, and what it means that one of them has come   *)
(* to a tab.                                                               *)
NotesOf(j)    == {n \in Notification : n.job = j}
HeardOf(t, j) == t \notin open \/ \E n \in RowsOf(j) : n.user = Owner[t] /\ Heard(t, n)
NewsEnds(t, j, n)   == Stored(t, j, n) ~> HeardOf(t, j)
NewsGoesOn(t, j, n) == Stored(t, j, n) => <>HeardOf(t, j)
ReadingEnds(t, n)   == Reading(t, n) \/ ReadAnswer(t, n) ~> Heard(t, n)

\* A tab that reads comes to show the row, though it be made to read again and again.
LEMMA ReadingEndsEver ==
  Spec /\ []NoNewsStuck => \A t \in Tab, n \in Notification : ReadingEnds(t, n)
<1> SUFFICES ASSUME NEW x \in Tab, NEW m \in Notification
             PROVE  Spec /\ []NoNewsStuck => ReadingEnds(x, m)
  OBVIOUS
<1>1. (\A t \in Tab : Answered(t)) => Answered(x)
  OBVIOUS
<1>2. (\A t \in Tab : Rendered(t)) => Rendered(x)
  OBVIOUS
<1>3. /\ NoNewsStuck /\ Reading(x, m) => CanAnswer(x)
      /\ NoNewsStuck /\ ReadAnswer(x, m) => CanShow(x)
  BY DEF NoNewsStuck, Reading, ReadAnswer
<1>4. /\ IInv /\ [Next]_vars /\ Reading(x, m)
           => Reading(x, m)' \/ ReadAnswer(x, m)'
      /\ IInv /\ [Next]_vars /\ ReadAnswer(x, m)
           => Reading(x, m)' \/ ReadAnswer(x, m)' \/ Heard(x, m)'
      /\ IInv /\ <<GetUnread(x)>>_vars /\ Reading(x, m) => ReadAnswer(x, m)'
      /\ IInv /\ <<Show(x)>>_vars /\ ReadAnswer(x, m) => Heard(x, m)'
      /\ Reading(x, m) => ~<<Show(x)>>_vars
  BY ReadingStep
<1> QED BY <1>1, <1>2, <1>3, <1>4, Invariance, PTL
        DEF Spec, Fairness, Answered, Rendered, CanAnswer, CanShow, ReadingEnds

\* Stage by stage, the news of a row comes to a tab that hears it.
LEMMA NewsEndsEver ==
  Spec /\ []NoNewsStuck => \A t \in Tab, j \in Job : \A n \in NotesOf(j) : NewsEnds(t, j, n)
<1> SUFFICES ASSUME NEW x \in Tab, NEW i \in Job, NEW m \in NotesOf(i)
             PROVE  Spec /\ []NoNewsStuck => NewsEnds(x, i, m)
  OBVIOUS
<1>1. (\A j \in Job : Dispatched(j)) => Dispatched(i)
  OBVIOUS
<1>2. (\A t \in Tab : Relayed(t)) => Relayed(x)
  OBVIOUS
<1>3. (\A t \in Tab : Handled(t)) => Handled(x)
  OBVIOUS
<1>4. m \in Notification /\ m.job = i
  BY DEF NotesOf
<1>5. (\A t \in Tab, n \in Notification : ReadingEnds(t, n)) => ReadingEnds(x, m)
  BY <1>4
<1>6. /\ NoNewsStuck /\ Stored(x, i, m) => CanDispatch(i)
      /\ NoNewsStuck /\ OnWire(x, m) => CanRelay(x)
      /\ NoNewsStuck /\ InInbox(x, m) => CanHandle(x)
  BY DEF NoNewsStuck, Stored, OnWire, InInbox, Told
<1>7. /\ IInv /\ [Next]_vars /\ Stored(x, i, m)
           => Stored(x, i, m)' \/ OnWire(x, m)' \/ Heard(x, m)'
      /\ IInv /\ <<Dispatch(i)>>_vars /\ Stored(x, i, m) => OnWire(x, m)'
  BY <1>4, StoredStep
<1>8. /\ IInv /\ [Next]_vars /\ OnWire(x, m)
           => OnWire(x, m)' \/ InInbox(x, m)' \/ Heard(x, m)'
      /\ IInv /\ <<Relay(x)>>_vars /\ OnWire(x, m) => InInbox(x, m)' \/ Heard(x, m)'
  BY <1>4, OnWireStep
<1>9. /\ IInv /\ [Next]_vars /\ InInbox(x, m) /\ ~Heard(x, m)
           => InInbox(x, m)' \/ Reading(x, m)' \/ ReadAnswer(x, m)' \/ Heard(x, m)'
      /\ IInv /\ <<HandleEvent(x)>>_vars /\ InInbox(x, m)
           => Reading(x, m)' \/ ReadAnswer(x, m)'
  BY <1>4, InInboxStep
<1>10. IInv /\ [Next]_vars /\ Told(x, m) => Told(x, m)'
  BY <1>4, ToldStep
<1>11. /\ Stored(x, i, m) => Told(x, m)
       /\ Told(x, m) /\ Heard(x, m) => HeardOf(x, i)
  BY <1>4 DEF Stored, Told, HeardOf, RowsOf
<1>12. Spec /\ []NoNewsStuck => (Stored(x, i, m) ~> OnWire(x, m) \/ Heard(x, m))
  BY <1>1, <1>6, <1>7, Invariance, PTL DEF Spec, Fairness, Dispatched, CanDispatch
<1>13. Spec /\ []NoNewsStuck => (OnWire(x, m) ~> InInbox(x, m) \/ Heard(x, m))
  BY <1>2, <1>6, <1>8, Invariance, PTL DEF Spec, Fairness, Relayed, CanRelay
<1>14. Spec /\ []NoNewsStuck
         => (InInbox(x, m) ~> Reading(x, m) \/ ReadAnswer(x, m) \/ Heard(x, m))
  BY <1>3, <1>6, <1>9, Invariance, PTL DEF Spec, Fairness, Handled, CanHandle
<1>15. Spec /\ []NoNewsStuck => ReadingEnds(x, m)
  BY <1>5, ReadingEndsEver
<1>16. Spec => [](Told(x, m) => []Told(x, m))
  BY <1>10, Invariance, PTL DEF Spec
<1> QED BY <1>11, <1>12, <1>13, <1>14, <1>15, <1>16, PTL DEF NewsEnds, ReadingEnds

(* However often jobs fail, sockets are lost and tabs read again, the news *)
(* of a stored row reaches every tab that is there to hear it, or its loss *)
(* is one of those recorded.                                               *)
THEOREM OpenTabsCatchUpEver == Spec /\ []NoNewsStuck => OpenTabsCatchUp
<1> SUFFICES ASSUME NEW x \in Tab, NEW i \in Job
             PROVE  Spec /\ []NoNewsStuck => CatchesUp(x, i)
  BY DEF OpenTabsCatchUp
<1>1. (\A t \in Tab, j \in Job : \A n \in NotesOf(j) : NewsEnds(t, j, n))
        => \A n \in NotesOf(i) : NewsEnds(x, i, n)
  OBVIOUS
<1>2. (\A n \in NotesOf(i) : NewsEnds(x, i, n)) => \A n \in NotesOf(i) : []NewsGoesOn(x, i, n)
  BY PTL DEF NewsEnds, NewsGoesOn
<1>3. (\A n \in NotesOf(i) : []NewsGoesOn(x, i, n)) => [](\A n \in NotesOf(i) : NewsGoesOn(x, i, n))
  OBVIOUS
<1>4. (\A n \in NotesOf(i) : NewsGoesOn(x, i, n))
        => ((\E n \in NotesOf(i) : Stored(x, i, n)) => <>HeardOf(x, i))
  BY DEF NewsGoesOn
<1>5. [](\A n \in NotesOf(i) : NewsGoesOn(x, i, n))
        => []((\E n \in NotesOf(i) : Stored(x, i, n)) => <>HeardOf(x, i))
  BY <1>4, PTL
<1>6. IInv /\ NewsFor(x, i) => \E n \in NotesOf(i) : Stored(x, i, n)
  <2> SUFFICES ASSUME IInv, NewsFor(x, i)
               PROVE  \E n \in NotesOf(i) : Stored(x, i, n)
    OBVIOUS
  <2>1. pc[i] = "stored"
    BY DEF NewsFor
  <2>2. Fresh(i) \in NotesOf(i)
    BY <2>1, FreshLemma DEF NotesOf
  <2>3. Fresh(i) \in notifications
    BY <2>1 DEF IInv, Work, Written
  <2>4. Stored(x, i, Fresh(i))
    BY <2>3 DEF NewsFor, Stored, Told
  <2> QED BY <2>2, <2>4
<1>7. Spec /\ []NoNewsStuck => \A n \in NotesOf(i) : NewsEnds(x, i, n)
  BY <1>1, NewsEndsEver
<1> QED BY <1>2, <1>3, <1>5, <1>6, <1>7, Invariance, PTL DEF CatchesUp, HeardOf

==============================================================================
