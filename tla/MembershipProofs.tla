-------------------------- MODULE MembershipProofs --------------------------
(***************************************************************************)
(* What Membership's run checks of four requests, for any users, names and *)
(* requests, asked in any order.                                           *)
(***************************************************************************)
EXTENDS Membership, SequenceTheorems, TLAPS

(* What a request may rely on once it has passed a look-up: rows stay.     *)
Standing == \A r \in Req :
  /\ At(r, {"workspace"}, "ready") \/ At(r, {"workspace"}, "flushed") =>
       \E o \in organizations : o.id = job[r].scope
  /\ pc[r] \in {"checked", "ready", "flushed"} =>
       /\ job[r].kind = "project" =>
            HasWorkspaceRole(job[r].actor, job[r].scope, "member")
       /\ job[r].kind \in {"label", "project member"} =>
            HasProjectRole(job[r].actor, job[r].scope, "admin")
       /\ job[r].kind = "workspace member" =>
            HasWorkspaceRole(job[r].actor, job[r].scope, "admin")
  /\ pc[r] \in {"ready", "flushed"} /\ job[r].kind \in {"workspace member", "project member"} =>
       job[r].who \in User

(* Rows are there only once their request has committed, and only a        *)
(* request that is done has its answer.                                    *)
Progress == \A r \in Req :
  /\ r \in StoredIds => pc[r] \in {"stored", "done"}
  /\ answer[r] # "none" => pc[r] = "done"

(* What a request has committed its user is shown.                         *)
Delivered == \A r \in Req : pc[r] = "stored" => Shown(r)

(* Whoever has flushed rows holds their key alone.                         *)
KeysHeld ==
  /\ \A r \in Req : pc[r] = "flushed" => ~Taken(r)
  /\ \A q, r \in Req : pc[q] = "flushed" /\ pc[r] = "flushed" /\ Key(q) = Key(r) => q = r

(* Rows have their parents and their creators' memberships.                *)
Rooted ==
  /\ \A m \in workspaceMembers : \E w \in workspaces : w.id = m.workspace
  /\ \A m \in projectMembers : \E p \in projects : p.id = m.project
  /\ \A w \in workspaces : \E o \in organizations : o.id = w.organization
  /\ \A o \in organizations : \E w \in workspaces :
       w.organization = o.id /\ w.slug = General /\ HasWorkspaceRole(o.owner, w.id, "owner")
  /\ \A w \in workspaces : HasWorkspaceRole(job[w.id].actor, w.id, "owner")
  /\ \A p \in projects : /\ HasProjectRole(job[p.id].actor, p.id, "owner")
                         /\ HasWorkspaceRole(job[p.id].actor, p.workspace, "member")

(* What LogTrue says of one entry, and more: it names the request's user.  *)
EntryTrue(e, prs, pms, ls) ==
  /\ e.actor = job[e.id].actor
  /\ \E m \in pms : m.project = e.project /\ m.user = e.actor /\ Rank[m.role] >= Rank["admin"]
  /\ CASE e.action = "project_created" -> \E p \in prs : p.id = e.id /\ e.project = p.id
       [] e.action = "label_created"   -> \E l \in ls : l.project = e.project /\ l.id = e.id
       [] OTHER -> \E m \in pms : m.project = e.project /\ m.id = e.id

LogInv ==
  /\ Ids(feed) = Ids(projects) \cup Ids(projectMembers) \cup Ids(labels)
  /\ \A e \in feed : EntryTrue(e, projects, projectMembers, labels)

IInv == /\ TypeOK /\ Standing /\ Progress /\ Delivered /\ KeysHeld /\ Rooted
        /\ UniqueKeys /\ LogInv /\ AnswersTrue

\* What slugify and the loop of suffixes make is a slug.
LEMMA SlugType ==
  ASSUME TypeOK, NEW r \in Req
  PROVE  /\ Slugify(r, job[r].name) \in Slug
         /\ Candidate(r) \in Slug
         /\ General \in Slug
<1>1. Seq(Word \cup Nat) \subseteq Slug /\ Seq(Word) \subseteq Slug
  BY SeqMonotonic DEF Slug
<1>2. job[r].name \in Slug
  BY <1>1, NameAssumption DEF TypeOK, Job
<1>3. <<r>> \in Slug
  BY DEF Slug
<1>4. Slugify(r, job[r].name) \in Slug
  BY <1>2, <1>3 DEF Slugify
<1>5. suffix[r] \in Word \cup Nat \cup Req
  BY DEF TypeOK
<1>6. Append(Slugify(r, job[r].name), suffix[r]) \in Slug
  BY <1>4, <1>5 DEF Slug
<1> QED
  BY <1>1, <1>4, <1>6, NameAssumption DEF Candidate

(* One request moves at a time, and rows are only added.                   *)
Moves(r) ==
  /\ pc[r] # "done"
  /\ \A q \in Req \ {r} : pc'[q] = pc[q] /\ answer'[q] = answer[q] /\ suffix'[q] = suffix[q]
  /\ job' = job
  /\ organizations \subseteq organizations' /\ workspaces \subseteq workspaces'
  /\ workspaceMembers \subseteq workspaceMembers' /\ projects \subseteq projects'
  /\ projectMembers \subseteq projectMembers' /\ labels \subseteq labels' /\ feed \subseteq feed'

\* Every step is one request's, and rows are only ever added.
LEMMA OneMoves ==
  ASSUME TypeOK, NEW r \in Req, Arrive(r) \/ Serve(r) \/ Fail(r)
  PROVE  Moves(r)
<1>1. CASE Arrive(r)
  BY <1>1 DEF Moves, Arrive, PostOrganization, PostWorkspace, PostProject, PostLabel,
     PostWorkspaceMember, PostProjectMember, Receive, Go, Finish, TypeOK, tables
<1>2. CASE ProbeSlug(r) \/ FindParent(r) \/ LookUpInvitee(r) \/ Flush(r)
  BY <1>2 DEF Moves, ProbeSlug, FindParent, LookUpInvitee, Flush, Go, Finish, At, TypeOK, tables
<1>3. CASE Commit(r)
  BY <1>3 DEF Moves, Commit, CreateOrganization, CreateWorkspace, CreateProject, CreateLabel,
     InviteToWorkspace, InviteToProject, AddWorkspaceMember, AddProjectMember, Log,
     Stores, At, Go, TypeOK
<1>4. CASE Respond(r) \/ Fail(r)
  BY <1>4 DEF Moves, Respond, Fail, Finish, TypeOK, tables
<1> QED
  BY <1>1, <1>2, <1>3, <1>4 DEF Serve

RowsTyped ==
  /\ organizations \subseteq Organization /\ workspaces \subseteq Workspace
  /\ workspaceMembers \subseteq WorkspaceMembership /\ projects \subseteq Project
  /\ projectMembers \subseteq ProjectMembership /\ labels \subseteq Label
  /\ feed \subseteq ActivityLog

\* A commit adds rows of the right types.
LEMMA RowsStep ==
  ASSUME TypeOK, Standing, NEW r \in Req, Commit(r)
  PROVE  RowsTyped'
<1>1. RowsTyped /\ job[r] \in Job
  BY DEF TypeOK, RowsTyped
<1>2. /\ job[r].actor \in User /\ job[r].scope \in Req /\ job[r].name \in Name
      /\ job[r].role \in Role
  BY <1>1 DEF Job
<1>3. CASE CreateOrganization(r)
  <2>1. [id |-> r, slug |-> Candidate(r), owner |-> job[r].actor] \in Organization
    BY <1>2, SlugType DEF Organization
  <2>2. [id |-> r, organization |-> r, slug |-> General] \in Workspace
    BY SlugType DEF Workspace
  <2>3. [id |-> r, workspace |-> r, user |-> job[r].actor, role |-> "owner"] \in WorkspaceMembership
    BY <1>2 DEF WorkspaceMembership, Role
  <2> QED
    BY <1>1, <1>3, <2>1, <2>2, <2>3 DEF CreateOrganization, AddWorkspaceMember, RowsTyped
<1>4. CASE CreateWorkspace(r)
  <2>1. [id |-> r, organization |-> job[r].scope, slug |-> Slugify(r, job[r].name)] \in Workspace
    BY <1>2, SlugType DEF Workspace
  <2>2. [id |-> r, workspace |-> r, user |-> job[r].actor, role |-> "owner"] \in WorkspaceMembership
    BY <1>2 DEF WorkspaceMembership, Role
  <2> QED
    BY <1>1, <1>4, <2>1, <2>2 DEF CreateWorkspace, AddWorkspaceMember, RowsTyped
<1>5. CASE CreateProject(r)
  <2>1. [id |-> r, workspace |-> job[r].scope, slug |-> Slugify(r, job[r].name)] \in Project
    BY <1>2, SlugType DEF Project
  <2>2. [id |-> r, project |-> r, user |-> job[r].actor, role |-> "owner"] \in ProjectMembership
    BY <1>2 DEF ProjectMembership, Role
  <2>3. [id |-> r, project |-> r, actor |-> job[r].actor, action |-> "project_created"] \in ActivityLog
    BY <1>2 DEF ActivityLog
  <2> QED
    BY <1>1, <1>5, <2>1, <2>2, <2>3 DEF CreateProject, AddProjectMember, Log, RowsTyped
<1>6. CASE CreateLabel(r)
  <2>1. [id |-> r, project |-> job[r].scope, name |-> job[r].name] \in Label
    BY <1>2 DEF Label
  <2>2. [id |-> r, project |-> job[r].scope, actor |-> job[r].actor,
         action |-> "label_created"] \in ActivityLog
    BY <1>2 DEF ActivityLog
  <2> QED
    BY <1>1, <1>6, <2>1, <2>2 DEF CreateLabel, Log, RowsTyped
<1>7. CASE InviteToWorkspace(r)
  <2>1. job[r].who \in User
    BY <1>7 DEF InviteToWorkspace, Stores, At, Standing
  <2>2. [id |-> r, workspace |-> job[r].scope, user |-> job[r].who,
         role |-> job[r].role] \in WorkspaceMembership
    BY <1>2, <2>1 DEF WorkspaceMembership
  <2> QED
    BY <1>1, <1>7, <2>2 DEF InviteToWorkspace, AddWorkspaceMember, RowsTyped
<1>8. CASE InviteToProject(r)
  <2>1. job[r].who \in User
    BY <1>8 DEF InviteToProject, Stores, At, Standing
  <2>2. [id |-> r, project |-> job[r].scope, user |-> job[r].who,
         role |-> job[r].role] \in ProjectMembership
    BY <1>2, <2>1 DEF ProjectMembership
  <2>3. [id |-> r, project |-> job[r].scope, actor |-> job[r].actor,
         action |-> "member_invited"] \in ActivityLog
    BY <1>2 DEF ActivityLog
  <2> QED
    BY <1>1, <1>8, <2>2, <2>3 DEF InviteToProject, AddProjectMember, Log, RowsTyped
<1> QED
  BY <1>3, <1>4, <1>5, <1>6, <1>7, <1>8 DEF Commit

\* Every step keeps the types.
LEMMA TypeStep ==
  ASSUME TypeOK, Standing, NEW r \in Req, Arrive(r) \/ Serve(r) \/ Fail(r)
  PROVE  TypeOK'
<1>1. CASE Arrive(r)
  BY <1>1 DEF Arrive, PostOrganization, PostWorkspace, PostProject, PostLabel,
     PostWorkspaceMember, PostProjectMember, Receive, Go, Finish, TypeOK, tables
<1>2. CASE ProbeSlug(r)
  <2>1. suffix' \in [Req -> Nat \ {0}]
    BY <1>2 DEF ProbeSlug, TypeOK
  <2> QED
    BY <1>2, <2>1 DEF ProbeSlug, Go, TypeOK, tables
<1>3. CASE FindParent(r) \/ LookUpInvitee(r)
  BY <1>3 DEF FindParent, LookUpInvitee, Go, Finish, TypeOK, tables
<1>4. CASE Flush(r)
  BY <1>4 DEF Flush, Go, Finish, TypeOK, tables
<1>5. CASE Commit(r)
  <2>1. pc' = [pc EXCEPT ![r] = "stored"] /\ UNCHANGED <<job, suffix, answer>>
    BY <1>5 DEF Commit, CreateOrganization, CreateWorkspace, CreateProject, CreateLabel,
       InviteToWorkspace, InviteToProject, Stores, Go
  <2> QED
    BY <1>5, <2>1, RowsStep DEF RowsTyped, TypeOK
<1>6. CASE Respond(r) \/ Fail(r)
  BY <1>6 DEF Respond, Fail, Finish, TypeOK, tables
<1> QED
  BY <1>1, <1>2, <1>3, <1>4, <1>5, <1>6 DEF Serve

(* Rows being added, what held of them holds on.                           *)
LEMMA RolesKeep ==
  ASSUME NEW r \in Req, Moves(r), NEW u, NEW s, NEW least
  PROVE  /\ HasWorkspaceRole(u, s, least) => HasWorkspaceRole(u, s, least)'
         /\ HasProjectRole(u, s, least) => HasProjectRole(u, s, least)'
BY DEF Moves, HasWorkspaceRole, HasProjectRole, WorkspaceMembersOf, ProjectMembersOf

\* A membership once found stays: nobody is removed.
LEMMA MembersKeep ==
  ASSUME NEW r \in Req, Moves(r), NEW q \in Req, AlreadyMember(job[q])
  PROVE  AlreadyMember(job[q])'
BY DEF Moves, AlreadyMember, WorkspaceMembersOf, ProjectMembersOf

\* A key once taken stays taken: no row is removed.
LEMMA TakenKeep ==
  ASSUME NEW r \in Req, Moves(r), NEW q \in Req \ {r}, Taken(q)
  PROVE  Taken(q)'
<1>1. Candidate(q)' = Candidate(q) /\ job'[q] = job[q] /\ Slugify(q, job[q].name)' = Slugify(q, job[q].name)
  BY DEF Moves, Candidate, Slugify
<1>2. AlreadyMember(job[q]) => AlreadyMember(job[q])'
  BY MembersKeep
<1> QED
  BY <1>1, <1>2 DEF Taken, Moves, ProjectsIn, LabelsOf

\* A role a request was checked for is held while it runs.
LEMMA StandingStep ==
  ASSUME TypeOK, Standing, NEW r \in Req, Arrive(r) \/ Serve(r) \/ Fail(r)
  PROVE  Standing'
<1>1. Moves(r)
  BY OneMoves
<1>2. \A q \in Req \ {r} : /\ pc'[q] = pc[q] /\ job'[q] = job[q]
  BY <1>1 DEF Moves
<1>3. job'[r] = job[r] /\ organizations \subseteq organizations'
  BY <1>1 DEF Moves
<1>4. CASE pc'[r] \in {"stored", "done"}
  BY <1>1, <1>2, <1>3, <1>4, RolesKeep DEF Standing, At
<1>5. CASE pc'[r] = pc[r]
  BY <1>1, <1>2, <1>3, <1>5, RolesKeep DEF Standing, At
<1>6. CASE pc[r] = "idle" /\ pc'[r] \in {"checked", "ready"}
  <2>1. Arrive(r)
    BY <1>6 DEF Serve, Fail, ProbeSlug, FindParent, LookUpInvitee, Flush, Commit, CreateOrganization,
       CreateWorkspace, CreateProject, CreateLabel, InviteToWorkspace, InviteToProject, Stores, At,
       Respond
  <2>2. /\ job[r].kind = "project" => HasWorkspaceRole(job[r].actor, job[r].scope, "member")
        /\ job[r].kind \in {"label", "project member"} =>
             HasProjectRole(job[r].actor, job[r].scope, "admin")
        /\ job[r].kind = "workspace member" =>
             HasWorkspaceRole(job[r].actor, job[r].scope, "admin")
        /\ pc'[r] = "ready" => job[r].kind = "label"
    BY <1>6, <2>1 DEF Arrive, PostOrganization, PostWorkspace, PostProject, PostLabel,
       PostWorkspaceMember, PostProjectMember, Receive, Go, Finish, TypeOK
  <2> QED
    BY <1>1, <1>2, <1>3, <1>6, <2>2, RolesKeep DEF Standing, At
<1>7. CASE pc[r] = "checked" /\ pc'[r] = "ready"
  <2>1. ProbeSlug(r) \/ FindParent(r) \/ LookUpInvitee(r)
    BY <1>7 DEF TypeOK, Arrive, PostOrganization, PostWorkspace, PostProject, PostLabel,
       PostWorkspaceMember, PostProjectMember, Receive, Serve, Fail, Finish, Flush, Commit, CreateOrganization,
       CreateWorkspace, CreateProject, CreateLabel, InviteToWorkspace, InviteToProject, Stores, At,
       Respond
  <2>2. job[r].kind = "workspace" => \E o \in organizations : o.id = job[r].scope
    BY <1>7, <2>1 DEF ProbeSlug, FindParent, LookUpInvitee, At, Finish, TypeOK
  <2>3. job[r].kind \in {"workspace member", "project member"} => job[r].who \in User
    BY <1>7, <2>1 DEF ProbeSlug, FindParent, LookUpInvitee, At, Finish, TypeOK, Job
  <2> QED
    BY <1>1, <1>2, <1>3, <1>7, <2>2, <2>3, RolesKeep DEF Standing, At
<1>8. CASE pc[r] = "ready" /\ pc'[r] = "flushed"
  BY <1>1, <1>2, <1>3, <1>8, RolesKeep DEF Standing, At
<1>9. \/ pc'[r] \in {"stored", "done"} \/ pc'[r] = pc[r]
      \/ pc[r] = "idle" /\ pc'[r] \in {"checked", "ready"}
      \/ pc[r] = "checked" /\ pc'[r] = "ready"
      \/ pc[r] = "ready" /\ pc'[r] = "flushed"
  BY DEF TypeOK, Arrive, PostOrganization, PostWorkspace, PostProject, PostLabel,
     PostWorkspaceMember, PostProjectMember, Receive, Serve, Fail, Finish, Flush, Commit, CreateOrganization,
     CreateWorkspace, CreateProject, CreateLabel, InviteToWorkspace, InviteToProject, Stores, At,
     Respond, ProbeSlug, FindParent, LookUpInvitee, Go
<1> QED
  BY <1>4, <1>5, <1>6, <1>7, <1>8, <1>9

\* The ids of a table with one more row.
LEMMA IdsAdd ==
  ASSUME NEW S, NEW x
  PROVE  Ids(S \cup {x}) = Ids(S) \cup {x.id}
BY DEF Ids

(* The ids a step may add are those of the request that commits.           *)
LEMMA NewIds ==
  ASSUME NEW r \in Req, Arrive(r) \/ Serve(r) \/ Fail(r)
  PROVE  /\ Commit(r) => StoredIds' = StoredIds \cup {r}
         /\ ~Commit(r) => UNCHANGED tables
<1>1. ~Commit(r) => UNCHANGED tables
  BY DEF Arrive, PostOrganization, PostWorkspace, PostProject, PostLabel,
     PostWorkspaceMember, PostProjectMember, Receive, Serve, Fail, ProbeSlug, FindParent,
     LookUpInvitee, Flush, Respond
<1>2. ASSUME Commit(r) PROVE StoredIds' = StoredIds \cup {r}
  <2>1. ASSUME NEW s, NEW u, NEW role, AddWorkspaceMember(r, s, u, role)
        PROVE  Ids(workspaceMembers)' = Ids(workspaceMembers) \cup {r}
    <3>1. Ids(workspaceMembers') = Ids(workspaceMembers) \cup {r}
      BY <2>1, IdsAdd DEF AddWorkspaceMember
    <3> QED
      BY <3>1 DEF Ids
  <2>2. ASSUME NEW s, NEW u, NEW role, AddProjectMember(r, s, u, role)
        PROVE  Ids(projectMembers)' = Ids(projectMembers) \cup {r}
    <3>1. Ids(projectMembers') = Ids(projectMembers) \cup {r}
      BY <2>2, IdsAdd DEF AddProjectMember
    <3> QED
      BY <3>1 DEF Ids
  <2>3. CASE CreateOrganization(r)
    <3>1. Ids(organizations)' = Ids(organizations) \cup {r} /\ Ids(workspaces)' = Ids(workspaces) \cup {r}
      BY <2>3, IdsAdd DEF CreateOrganization
    <3> QED
      BY <2>1, <2>3, <3>1 DEF CreateOrganization, StoredIds
  <2>4. CASE CreateWorkspace(r)
    <3>1. Ids(workspaces)' = Ids(workspaces) \cup {r}
      BY <2>4, IdsAdd DEF CreateWorkspace
    <3> QED
      BY <2>1, <2>4, <3>1 DEF CreateWorkspace, StoredIds
  <2>5. CASE CreateProject(r)
    <3>1. Ids(projects)' = Ids(projects) \cup {r}
      BY <2>5, IdsAdd DEF CreateProject
    <3> QED
      BY <2>2, <2>5, <3>1 DEF CreateProject, StoredIds
  <2>6. CASE CreateLabel(r)
    <3>1. Ids(labels)' = Ids(labels) \cup {r}
      BY <2>6, IdsAdd DEF CreateLabel
    <3> QED
      BY <2>6, <3>1 DEF CreateLabel, StoredIds
  <2>7. CASE InviteToWorkspace(r)
    BY <2>1, <2>7 DEF InviteToWorkspace, StoredIds
  <2>8. CASE InviteToProject(r)
    BY <2>2, <2>8 DEF InviteToProject, StoredIds
  <2> QED
    BY <1>2, <2>3, <2>4, <2>5, <2>6, <2>7, <2>8 DEF Commit
<1> QED
  BY <1>1, <1>2

\* Only a request that has committed has rows, and only one that is done an answer.
LEMMA ProgressStep ==
  ASSUME TypeOK, Progress, NEW r \in Req, Arrive(r) \/ Serve(r) \/ Fail(r)
  PROVE  Progress'
<1>1. Moves(r)
  BY OneMoves
<1>2. CASE Commit(r)
  <2>1. pc[r] = "flushed" /\ pc'[r] = "stored" /\ answer' = answer
    BY <1>2 DEF Commit, CreateOrganization, CreateWorkspace, CreateProject, CreateLabel,
       InviteToWorkspace, InviteToProject, Stores, At, Go, TypeOK
  <2> QED
    BY <1>1, <1>2, <2>1, NewIds DEF Moves, Progress
<1>3. CASE ~Commit(r)
  <2>1. StoredIds' = StoredIds
    BY <1>3, NewIds DEF tables, StoredIds
  <2>2. /\ pc'[r] # "stored"
        /\ answer'[r] = answer[r] \/ pc'[r] = "done"
        /\ pc[r] = "stored" => pc'[r] = "done"
    BY <1>3 DEF TypeOK, Arrive, PostOrganization, PostWorkspace, PostProject, PostLabel,
       PostWorkspaceMember, PostProjectMember, Receive, Serve, Fail, Finish, Flush, At,
       Respond, ProbeSlug, FindParent, LookUpInvitee, Go
  <2> QED
    BY <1>1, <2>1, <2>2 DEF Moves, Progress
<1> QED
  BY <1>2, <1>3

(* What a request is about to change is there already: only rows of other  *)
(* requests are its parents.                                               *)
LEMMA ScopeStored ==
  ASSUME TypeOK, Standing, Progress, Rooted, NEW q \in Req, pc[q] = "flushed",
         job[q].kind # "organization"
  PROVE  job[q].scope \in StoredIds
<1>1. job[q].kind \in {"workspace", "project", "label", "workspace member", "project member"}
  BY DEF TypeOK, Job
<1>2. CASE job[q].kind = "workspace"
  BY <1>2 DEF Standing, At, StoredIds, Ids
<1>3. CASE job[q].kind \in {"project", "workspace member"}
  <2>1. \E m \in workspaceMembers : m.workspace = job[q].scope
    BY <1>3 DEF Standing, HasWorkspaceRole, WorkspaceMembersOf
  <2> QED
    BY <2>1 DEF Rooted, StoredIds, Ids
<1>4. CASE job[q].kind \in {"label", "project member"}
  <2>1. \E m \in projectMembers : m.project = job[q].scope
    BY <1>4 DEF Standing, HasProjectRole, ProjectMembersOf
  <2> QED
    BY <2>1 DEF Rooted, StoredIds, Ids
<1> QED
  BY <1>1, <1>2, <1>3, <1>4

\* Two requests of one kind with these parts in common are after one key.
LEMMA KeyEqual ==
  ASSUME NEW q \in Req, NEW r \in Req, job[q].kind = job[r].kind,
         job[q].kind = "organization" \/ job[q].scope = job[r].scope,
         job[q].kind = "organization" => Candidate(q) = Candidate(r),
         job[q].kind = "label" => job[q].name = job[r].name,
         job[q].kind \in {"workspace", "project"} =>
           Slugify(q, job[q].name) = Slugify(r, job[r].name),
         job[q].kind \notin {"organization", "label", "workspace", "project"} =>
           job[q].who = job[r].who
  PROVE  Key(q) = Key(r)
<1>1. CASE job[q].kind = "organization"
  BY <1>1 DEF Key
<1>2. CASE job[q].kind = "label"
  BY <1>2 DEF Key
<1>3. CASE job[q].kind \in {"workspace", "project"}
  BY <1>3 DEF Key
<1>4. CASE job[q].kind \notin {"organization", "label", "workspace", "project"}
  BY <1>4 DEF Key
<1> QED
  BY <1>1, <1>2, <1>3, <1>4

(* Where a row of the next state comes from.                               *)
LEMMA NewRows ==
  ASSUME NEW r \in Req, Commit(r)
  PROVE
  /\ \A o \in organizations' : o \in organizations \/
       /\ CreateOrganization(r)
       /\ o = [id |-> r, slug |-> Candidate(r), owner |-> job[r].actor]
  /\ \A w \in workspaces' : w \in workspaces
       \/ /\ CreateOrganization(r)
          /\ w = [id |-> r, organization |-> r, slug |-> General]
       \/ /\ CreateWorkspace(r)
          /\ w = [id |-> r, organization |-> job[r].scope, slug |-> Slugify(r, job[r].name)]
  /\ \A m \in workspaceMembers' : m \in workspaceMembers
       \/ /\ CreateOrganization(r) \/ CreateWorkspace(r)
          /\ m = [id |-> r, workspace |-> r, user |-> job[r].actor, role |-> "owner"]
       \/ /\ InviteToWorkspace(r)
          /\ m = [id |-> r, workspace |-> job[r].scope, user |-> job[r].who, role |-> job[r].role]
  /\ \A p \in projects' : p \in projects \/
       /\ CreateProject(r)
       /\ p = [id |-> r, workspace |-> job[r].scope, slug |-> Slugify(r, job[r].name)]
  /\ \A m \in projectMembers' : m \in projectMembers
       \/ /\ CreateProject(r)
          /\ m = [id |-> r, project |-> r, user |-> job[r].actor, role |-> "owner"]
       \/ /\ InviteToProject(r)
          /\ m = [id |-> r, project |-> job[r].scope, user |-> job[r].who, role |-> job[r].role]
  /\ \A l \in labels' : l \in labels \/
       /\ CreateLabel(r)
       /\ l = [id |-> r, project |-> job[r].scope, name |-> job[r].name]
  /\ \A e \in feed' : e \in feed
       \/ /\ CreateProject(r)
          /\ e = [id |-> r, project |-> r, actor |-> job[r].actor, action |-> "project_created"]
       \/ /\ CreateLabel(r)
          /\ e = [id |-> r, project |-> job[r].scope, actor |-> job[r].actor,
                  action |-> "label_created"]
       \/ /\ InviteToProject(r)
          /\ e = [id |-> r, project |-> job[r].scope, actor |-> job[r].actor,
                  action |-> "member_invited"]
<1>1. CASE CreateOrganization(r)
  BY <1>1 DEF CreateOrganization, AddWorkspaceMember
<1>2. CASE CreateWorkspace(r)
  BY <1>2 DEF CreateWorkspace, AddWorkspaceMember
<1>3. CASE CreateProject(r)
  BY <1>3 DEF CreateProject, AddProjectMember, Log
<1>4. CASE CreateLabel(r)
  BY <1>4 DEF CreateLabel, Log
<1>5. CASE InviteToWorkspace(r)
  BY <1>5 DEF InviteToWorkspace, AddWorkspaceMember
<1>6. CASE InviteToProject(r)
  BY <1>6 DEF InviteToProject, AddProjectMember, Log
<1> QED
  BY <1>1, <1>2, <1>3, <1>4, <1>5, <1>6 DEF Commit

(* A commit takes no key but its own away from the requests that wait for  *)
(* their commit.                                                           *)
LEMMA OthersFree ==
  ASSUME TypeOK, Standing, Progress, Rooted, KeysHeld, NEW r \in Req, Commit(r),
         NEW q \in Req \ {r}, pc[q] = "flushed"
  PROVE  ~Taken(q)'
<1>1. pc[r] = "flushed" /\ job' = job /\ suffix' = suffix
  BY DEF Commit, CreateOrganization, CreateWorkspace, CreateProject, CreateLabel,
     InviteToWorkspace, InviteToProject, Stores, At
<1>2. ~Taken(q) /\ Key(q) # Key(r)
  BY <1>1 DEF KeysHeld
<1>3. r \notin StoredIds
  BY <1>1 DEF Progress
<1>4. job[q].kind # "organization" => job[q].scope # r
  BY <1>3, ScopeStored
<1>5. Candidate(q)' = Candidate(q) /\ Slugify(q, job[q].name)' = Slugify(q, job[q].name)
  BY <1>1 DEF Candidate, Slugify
<1>6. job[q].kind \in {"organization", "workspace", "project", "label",
                      "workspace member", "project member"}
  BY DEF TypeOK, Job
<1> USE DEF At, Stores
<1>7. CASE job[q].kind = "organization"
  <2>1. \A o \in organizations : o.slug # Candidate(q)
    BY <1>2, <1>7 DEF Taken
  <2>2. CreateOrganization(r) => Candidate(r) # Candidate(q)
    BY <1>2, <1>7, KeyEqual DEF CreateOrganization
  <2>3. \A o \in organizations' : o.slug # Candidate(q)
    BY <2>1, <2>2, NewRows
  <2> QED
    BY <1>1, <1>5, <1>7, <2>3 DEF Taken
<1>8. CASE job[q].kind = "workspace"
  <2>1. \A w \in workspaces :
          ~(w.organization = job[q].scope /\ w.slug = Slugify(q, job[q].name))
    BY <1>2, <1>8 DEF Taken
  <2>2. CreateWorkspace(r) =>
          ~(job[r].scope = job[q].scope /\ Slugify(r, job[r].name) = Slugify(q, job[q].name))
    BY <1>2, <1>8, KeyEqual DEF CreateWorkspace
  <2>3. \A w \in workspaces' :
          ~(w.organization = job[q].scope /\ w.slug = Slugify(q, job[q].name))
    BY <1>4, <1>8, <2>1, <2>2, NewRows
  <2> QED
    BY <1>1, <1>5, <1>8, <2>3 DEF Taken
<1>9. CASE job[q].kind = "project"
  <2>1. \A p \in projects :
          ~(p.workspace = job[q].scope /\ p.slug = Slugify(q, job[q].name))
    BY <1>2, <1>9 DEF Taken, ProjectsIn
  <2>2. CreateProject(r) =>
          ~(job[r].scope = job[q].scope /\ Slugify(r, job[r].name) = Slugify(q, job[q].name))
    BY <1>2, <1>9, KeyEqual DEF CreateProject
  <2>3. \A p \in projects' :
          ~(p.workspace = job[q].scope /\ p.slug = Slugify(q, job[q].name))
    BY <2>1, <2>2, NewRows
  <2> QED
    BY <1>1, <1>5, <1>9, <2>3 DEF Taken, ProjectsIn
<1>10. CASE job[q].kind = "label"
  <2>1. \A l \in labels : ~(l.project = job[q].scope /\ l.name = job[q].name)
    BY <1>2, <1>10 DEF Taken, LabelsOf
  <2>2. CreateLabel(r) => ~(job[r].scope = job[q].scope /\ job[r].name = job[q].name)
    BY <1>2, <1>10, KeyEqual DEF CreateLabel
  <2>3. \A l \in labels' : ~(l.project = job[q].scope /\ l.name = job[q].name)
    BY <2>1, <2>2, NewRows
  <2> QED
    BY <1>1, <1>10, <2>3 DEF Taken, LabelsOf
<1>11. CASE job[q].kind = "workspace member"
  <2>1. \A m \in workspaceMembers : ~(m.workspace = job[q].scope /\ m.user = job[q].who)
    BY <1>2, <1>11 DEF Taken, AlreadyMember, WorkspaceMembersOf
  <2>2. InviteToWorkspace(r) => ~(job[r].scope = job[q].scope /\ job[r].who = job[q].who)
    BY <1>2, <1>11, KeyEqual DEF InviteToWorkspace
  <2>3. \A m \in workspaceMembers' :
          \/ m \in workspaceMembers
          \/ m.workspace = r
          \/ InviteToWorkspace(r) /\ m.workspace = job[r].scope /\ m.user = job[r].who
    BY NewRows
  <2>4. \A m \in workspaceMembers' : ~(m.workspace = job[q].scope /\ m.user = job[q].who)
    BY <1>4, <1>11, <2>1, <2>2, <2>3
  <2> QED
    BY <1>1, <1>11, <2>4 DEF Taken, AlreadyMember, WorkspaceMembersOf
<1>12. CASE job[q].kind = "project member"
  <2>1. \A m \in projectMembers : ~(m.project = job[q].scope /\ m.user = job[q].who)
    BY <1>2, <1>12 DEF Taken, AlreadyMember, ProjectMembersOf
  <2>2. InviteToProject(r) => ~(job[r].scope = job[q].scope /\ job[r].who = job[q].who)
    BY <1>2, <1>12, KeyEqual DEF InviteToProject
  <2>3. \A m \in projectMembers' :
          \/ m \in projectMembers
          \/ m.project = r
          \/ InviteToProject(r) /\ m.project = job[r].scope /\ m.user = job[r].who
    BY NewRows
  <2>4. \A m \in projectMembers' : ~(m.project = job[q].scope /\ m.user = job[q].who)
    BY <1>4, <1>12, <2>1, <2>2, <2>3
  <2> QED
    BY <1>1, <1>12, <2>4 DEF Taken, AlreadyMember, ProjectMembersOf
<1> QED
  BY <1>6, <1>7, <1>8, <1>9, <1>10, <1>11, <1>12

\* At most one request has flushed a key, and a flushed key is free.
LEMMA KeysStep ==
  ASSUME TypeOK, Standing, Progress, Rooted, KeysHeld, NEW r \in Req,
         Arrive(r) \/ Serve(r) \/ Fail(r)
  PROVE  KeysHeld'
<1>1. Moves(r)
  BY OneMoves
<1>2. \A q \in Req \ {r} : pc'[q] = pc[q] /\ Key(q)' = Key(q)
  BY <1>1 DEF Moves, Key, Candidate, Slugify
<1>3. CASE Commit(r)
  <2>1. pc'[r] = "stored"
    BY <1>3 DEF Commit, CreateOrganization, CreateWorkspace, CreateProject, CreateLabel,
       InviteToWorkspace, InviteToProject, Stores, Go, TypeOK
  <2> QED
    BY <1>2, <1>3, <2>1, OthersFree DEF KeysHeld
<1>4. CASE ~Commit(r)
  <2>1. UNCHANGED <<tables, job>>
    BY <1>1, <1>4, NewIds DEF Moves
  <2>2. \A q \in Req \ {r} : Taken(q)' = Taken(q)
    <3> TAKE q \in Req \ {r}
    <3>1. suffix'[q] = suffix[q]
      BY <1>1 DEF Moves
    <3> QED
      BY <2>1, <3>1 DEF Taken, Candidate, Slugify, ProjectsIn, LabelsOf, AlreadyMember,
         WorkspaceMembersOf, ProjectMembersOf, tables
  <2>3. CASE pc'[r] = "flushed"
    <3>1. Flush(r)
      BY <1>4, <2>3 DEF TypeOK, Arrive, PostOrganization, PostWorkspace, PostProject, PostLabel,
         PostWorkspaceMember, PostProjectMember, Receive, Serve, Fail, Finish, At,
         Respond, ProbeSlug, FindParent, LookUpInvitee, Go
    <3>2. /\ suffix' = suffix
          /\ \A q \in Req : pc[q] = "flushed" => Key(q) # Key(r)
          /\ ~Taken(r)
      BY <2>3, <3>1 DEF Flush, Finish, TypeOK
    <3>3. Key(r)' = Key(r) /\ Taken(r)' = Taken(r)
      BY <2>1, <3>2 DEF Key, Taken, Candidate, Slugify, ProjectsIn, LabelsOf, AlreadyMember,
         WorkspaceMembersOf, ProjectMembersOf, tables
    <3> QED
      BY <1>2, <2>2, <3>2, <3>3 DEF KeysHeld
  <2>4. CASE pc'[r] # "flushed"
    BY <1>2, <2>2, <2>4 DEF KeysHeld
  <2> QED
    BY <2>3, <2>4
<1> QED
  BY <1>3, <1>4

(* The rows a commit adds are there.                                       *)
LEMMA RowsAdded ==
  ASSUME NEW r \in Req
  PROVE
  /\ CreateOrganization(r) =>
       /\ [id |-> r, slug |-> Candidate(r), owner |-> job[r].actor] \in organizations'
       /\ [id |-> r, organization |-> r, slug |-> General] \in workspaces'
       /\ [id |-> r, workspace |-> r, user |-> job[r].actor, role |-> "owner"] \in workspaceMembers'
  /\ CreateWorkspace(r) =>
       /\ [id |-> r, organization |-> job[r].scope,
           slug |-> Slugify(r, job[r].name)] \in workspaces'
       /\ [id |-> r, workspace |-> r, user |-> job[r].actor, role |-> "owner"] \in workspaceMembers'
  /\ CreateProject(r) =>
       /\ [id |-> r, workspace |-> job[r].scope, slug |-> Slugify(r, job[r].name)] \in projects'
       /\ [id |-> r, project |-> r, user |-> job[r].actor, role |-> "owner"] \in projectMembers'
  /\ CreateLabel(r) =>
       [id |-> r, project |-> job[r].scope, name |-> job[r].name] \in labels'
  /\ InviteToWorkspace(r) =>
       [id |-> r, workspace |-> job[r].scope, user |-> job[r].who, role |-> job[r].role]
         \in workspaceMembers'
  /\ InviteToProject(r) =>
       [id |-> r, project |-> job[r].scope, user |-> job[r].who, role |-> job[r].role]
         \in projectMembers'
BY Zenon DEF CreateOrganization, CreateWorkspace, CreateProject, CreateLabel, InviteToWorkspace,
   InviteToProject, AddWorkspaceMember, AddProjectMember

(* The roles as predicates of the rows they are read from.                 *)
WorkspaceRole(rows, u, s, least) ==
  \E m \in rows : m.workspace = s /\ m.user = u /\ Rank[m.role] >= Rank[least]
ProjectRole(rows, u, s, least) ==
  \E m \in rows : m.project = s /\ m.user = u /\ Rank[m.role] >= Rank[least]

\* A role depends on the rows of memberships alone.
LEMMA RolesOfRows ==
  /\ \A u, s, least : HasWorkspaceRole(u, s, least) <=> WorkspaceRole(workspaceMembers, u, s, least)
  /\ \A u, s, least : HasProjectRole(u, s, least) <=> ProjectRole(projectMembers, u, s, least)
BY DEF HasWorkspaceRole, HasProjectRole, WorkspaceRole, ProjectRole, WorkspaceMembersOf,
   ProjectMembersOf

(* Rooted of given rows.                                                   *)
RootedRows(orgs, wss, wms, prs, pms) ==
  /\ \A m \in wms : \E w \in wss : w.id = m.workspace
  /\ \A m \in pms : \E p \in prs : p.id = m.project
  /\ \A w \in wss : \E o \in orgs : o.id = w.organization
  /\ \A o \in orgs : \E w \in wss :
       w.organization = o.id /\ w.slug = General /\ WorkspaceRole(wms, o.owner, w.id, "owner")
  /\ \A w \in wss : WorkspaceRole(wms, job[w.id].actor, w.id, "owner")
  /\ \A p \in prs : /\ ProjectRole(pms, job[p.id].actor, p.id, "owner")
                     /\ WorkspaceRole(wms, job[p.id].actor, p.workspace, "member")

\* Rooted depends on the five tables alone.
LEMMA RootedOfRows ==
  Rooted <=> RootedRows(organizations, workspaces, workspaceMembers, projects, projectMembers)
BY DEF Rooted, RootedRows, HasWorkspaceRole, HasProjectRole, WorkspaceRole, ProjectRole,
   WorkspaceMembersOf, ProjectMembersOf

\* A new row hangs from rows whose creator is a member all the way up.
LEMMA RootedStep ==
  ASSUME TypeOK, Standing, Progress, Rooted, NEW r \in Req, Arrive(r) \/ Serve(r) \/ Fail(r)
  PROVE  Rooted'
<1>1. Moves(r)
  BY OneMoves
<1>2. CASE ~Commit(r)
  BY <1>1, <1>2, NewIds DEF Moves, tables, Rooted, HasWorkspaceRole, HasProjectRole,
     WorkspaceMembersOf, ProjectMembersOf
<1>3. CASE Commit(r)
  <2> DEFINE wms == workspaceMembers'
             pms == projectMembers'
  <2>1. /\ pc[r] = "flushed" /\ job' = job
        /\ organizations \subseteq organizations' /\ workspaces \subseteq workspaces'
        /\ projects \subseteq projects'
        /\ workspaceMembers \subseteq wms /\ projectMembers \subseteq pms
    BY <1>1, <1>3 DEF Moves, Commit, CreateOrganization, CreateWorkspace, CreateProject, CreateLabel,
       InviteToWorkspace, InviteToProject, Stores, At
  <2>2. \A u, s, least : WorkspaceRole(workspaceMembers, u, s, least) => WorkspaceRole(wms, u, s, least)
    BY <2>1 DEF WorkspaceRole
  <2>3. \A u, s, least : ProjectRole(projectMembers, u, s, least) => ProjectRole(pms, u, s, least)
    BY <2>1 DEF ProjectRole
  <2>4. ASSUME CreateOrganization(r) \/ CreateWorkspace(r)
        PROVE  WorkspaceRole(wms, job[r].actor, r, "owner") /\ \E w \in workspaces' : w.id = r
    <3>1. PICK m \in wms : m = [id |-> r, workspace |-> r, user |-> job[r].actor, role |-> "owner"]
      BY <2>4, RowsAdded
    <3>2. m.workspace = r /\ m.user = job[r].actor /\ Rank[m.role] >= Rank["owner"]
      BY <3>1 DEF Rank
    <3>3. WorkspaceRole(wms, job[r].actor, r, "owner")
      BY <3>1, <3>2 DEF WorkspaceRole
    <3>4. \E w \in workspaces' : w.id = r
      BY <2>4, RowsAdded
    <3> QED
      BY <3>3, <3>4
  <2>5. ASSUME CreateProject(r)
        PROVE  ProjectRole(pms, job[r].actor, r, "owner") /\ \E p \in projects' : p.id = r
    <3>1. PICK m \in pms : m = [id |-> r, project |-> r, user |-> job[r].actor, role |-> "owner"]
      BY <2>5, RowsAdded
    <3>2. m.project = r /\ m.user = job[r].actor /\ Rank[m.role] >= Rank["owner"]
      BY <3>1 DEF Rank
    <3>3. ProjectRole(pms, job[r].actor, r, "owner")
      BY <3>1, <3>2 DEF ProjectRole
    <3>4. \E p \in projects' : p.id = r
      BY <2>5, RowsAdded
    <3> QED
      BY <3>3, <3>4
  <2>6. RootedRows(organizations, workspaces, workspaceMembers, projects, projectMembers)
    BY RootedOfRows
  <2> HIDE DEF wms, pms
  <2>7. \A m \in wms : \E w \in workspaces' : w.id = m.workspace
    <3>1. InviteToWorkspace(r) => \E m \in workspaceMembers : m.workspace = job[r].scope
      BY <2>1 DEF InviteToWorkspace, Stores, At, Standing, HasWorkspaceRole, WorkspaceMembersOf
    <3>2. \A m \in wms :
            \/ \E n \in workspaceMembers : n.workspace = m.workspace
            \/ (CreateOrganization(r) \/ CreateWorkspace(r)) /\ m.workspace = r
      BY <1>3, <3>1, NewRows DEF wms, pms
    <3> QED
      BY <2>1, <2>4, <2>6, <3>2 DEF RootedRows
  <2>8. \A m \in pms : \E p \in projects' : p.id = m.project
    <3>1. InviteToProject(r) => \E m \in projectMembers : m.project = job[r].scope
      BY <2>1 DEF InviteToProject, Stores, At, Standing, HasProjectRole, ProjectMembersOf
    <3>2. \A m \in pms :
            \/ \E n \in projectMembers : n.project = m.project
            \/ CreateProject(r) /\ m.project = r
      BY <1>3, <3>1, NewRows DEF wms, pms
    <3> QED
      BY <2>1, <2>5, <2>6, <3>2 DEF RootedRows
  <2>9. \A w \in workspaces' : \E o \in organizations' : o.id = w.organization
    <3>1. CreateWorkspace(r) => \E o \in organizations : o.id = job[r].scope
      BY <2>1 DEF CreateWorkspace, Stores, At, Standing
    <3>2. CreateOrganization(r) => \E o \in organizations' : o.id = r
      BY RowsAdded
    <3>3. \A w \in workspaces' :
            \/ w \in workspaces
            \/ CreateOrganization(r) /\ w.organization = r
            \/ CreateWorkspace(r) /\ w.organization = job[r].scope
      BY <1>3, NewRows
    <3> QED
      BY <2>1, <2>6, <3>1, <3>2, <3>3 DEF RootedRows
  <2>10. \A o \in organizations' : \E w \in workspaces' :
          w.organization = o.id /\ w.slug = General /\ WorkspaceRole(wms, o.owner, w.id, "owner")
    <3>1. \A o \in organizations : \E w \in workspaces' :
            w.organization = o.id /\ w.slug = General /\ WorkspaceRole(wms, o.owner, w.id, "owner")
      BY <2>1, <2>2, <2>6 DEF RootedRows
    <3>2. CreateOrganization(r) => \E w \in workspaces' :
            w.id = r /\ w.organization = r /\ w.slug = General
      BY RowsAdded
    <3>3. \A o \in organizations' : o \in organizations \/
            (CreateOrganization(r) /\ o.id = r /\ o.owner = job[r].actor)
      BY <1>3, NewRows
    <3> QED
      BY <2>4, <3>1, <3>2, <3>3
  <2>11. \A w \in workspaces' : WorkspaceRole(wms, job[w.id].actor, w.id, "owner")
    <3>1. \A w \in workspaces' : w \in workspaces \/
            ((CreateOrganization(r) \/ CreateWorkspace(r)) /\ w.id = r)
      BY <1>3, NewRows
    <3> QED
      BY <2>2, <2>4, <2>6, <3>1 DEF RootedRows
  <2>12. \A p \in projects' : /\ ProjectRole(pms, job[p.id].actor, p.id, "owner")
                              /\ WorkspaceRole(wms, job[p.id].actor, p.workspace, "member")
    <3>1. CreateProject(r) => WorkspaceRole(wms, job[r].actor, job[r].scope, "member")
      BY <2>1, <2>2, RolesOfRows DEF CreateProject, Stores, At, Standing
    <3>2. \A p \in projects' : p \in projects \/
            (CreateProject(r) /\ p.id = r /\ p.workspace = job[r].scope)
      BY <1>3, NewRows
    <3> QED
      BY <2>2, <2>3, <2>5, <2>6, <3>1, <3>2 DEF RootedRows
  <2>13. RootedRows(organizations', workspaces', wms, projects', pms)
    BY <2>7, <2>8, <2>9, <2>10, <2>11, <2>12 DEF RootedRows
  <2>14. RootedRows(organizations, workspaces, workspaceMembers, projects, projectMembers)'
    BY <2>1, <2>13 DEF RootedRows, wms, pms, WorkspaceRole, ProjectRole
  <2> QED
    BY <2>14, RootedOfRows, PTL
<1> QED
  BY <1>2, <1>3

\* A commit stores its key where no row has it.
LEMMA UniqueStep ==
  ASSUME TypeOK, Standing, Progress, Rooted, KeysHeld, UniqueKeys, NEW r \in Req,
         Arrive(r) \/ Serve(r) \/ Fail(r)
  PROVE  UniqueKeys'
<1>1. CASE ~Commit(r)
  BY <1>1, NewIds DEF tables, UniqueKeys
<1>2. CASE Commit(r)
  <2> USE DEF At, Stores
  <2>1. pc[r] = "flushed" /\ job' = job /\ ~Taken(r)
    BY <1>2 DEF Commit, CreateOrganization, CreateWorkspace, CreateProject, CreateLabel,
       InviteToWorkspace, InviteToProject, KeysHeld
  <2>2. r \notin StoredIds
    BY <2>1 DEF Progress
  <2>3. /\ \A w \in workspaces : w.organization # r
        /\ \A m \in workspaceMembers : m.workspace # r
        /\ \A m \in projectMembers : m.project # r
    BY <2>2 DEF Rooted, StoredIds, Ids
  <2>4. ASSUME NEW a \in organizations', NEW b \in organizations', a.slug = b.slug PROVE a = b
    <3>1. CreateOrganization(r) => \A o \in organizations : o.slug # Candidate(r)
      BY <2>1 DEF CreateOrganization, Taken
    <3> QED
      BY <1>2, <2>4, <3>1, NewRows DEF UniqueKeys
  <2>5. ASSUME NEW a \in workspaces', NEW b \in workspaces',
               a.organization = b.organization, a.slug = b.slug
        PROVE  a = b
    <3>1. CreateWorkspace(r) => \A w \in workspaces :
            ~(w.organization = job[r].scope /\ w.slug = Slugify(r, job[r].name))
      BY <2>1 DEF CreateWorkspace, Taken
    <3>2. ~(CreateOrganization(r) /\ CreateWorkspace(r))
      BY DEF CreateOrganization, CreateWorkspace
    <3> QED
      BY <1>2, <2>3, <2>5, <3>1, <3>2, NewRows DEF UniqueKeys
  <2>6. ASSUME NEW a \in projects', NEW b \in projects', a.workspace = b.workspace, a.slug = b.slug
        PROVE  a = b
    <3>1. CreateProject(r) => \A p \in projects :
            ~(p.workspace = job[r].scope /\ p.slug = Slugify(r, job[r].name))
      BY <2>1 DEF CreateProject, Taken, ProjectsIn
    <3> QED
      BY <1>2, <2>6, <3>1, NewRows DEF UniqueKeys
  <2>7. ASSUME NEW a \in labels', NEW b \in labels', a.project = b.project, a.name = b.name
        PROVE  a = b
    <3>1. CreateLabel(r) => \A l \in labels : ~(l.project = job[r].scope /\ l.name = job[r].name)
      BY <2>1 DEF CreateLabel, Taken, LabelsOf
    <3> QED
      BY <1>2, <2>7, <3>1, NewRows DEF UniqueKeys
  <2>8. ASSUME NEW a \in workspaceMembers', NEW b \in workspaceMembers',
               a.workspace = b.workspace, a.user = b.user
        PROVE  a = b
    <3>1. InviteToWorkspace(r) => \A m \in workspaceMembers :
            ~(m.workspace = job[r].scope /\ m.user = job[r].who)
      BY <2>1 DEF InviteToWorkspace, Taken, AlreadyMember, WorkspaceMembersOf
    <3>2. /\ ~(CreateOrganization(r) /\ InviteToWorkspace(r))
          /\ ~(CreateWorkspace(r) /\ InviteToWorkspace(r))
      BY DEF CreateOrganization, CreateWorkspace, InviteToWorkspace
    <3> QED
      BY <1>2, <2>3, <2>8, <3>1, <3>2, NewRows DEF UniqueKeys
  <2>9. ASSUME NEW a \in projectMembers', NEW b \in projectMembers',
               a.project = b.project, a.user = b.user
        PROVE  a = b
    <3>1. InviteToProject(r) => \A m \in projectMembers :
            ~(m.project = job[r].scope /\ m.user = job[r].who)
      BY <2>1 DEF InviteToProject, Taken, AlreadyMember, ProjectMembersOf
    <3>2. ~(CreateProject(r) /\ InviteToProject(r))
      BY DEF CreateProject, InviteToProject
    <3> QED
      BY <1>2, <2>3, <2>9, <3>1, <3>2, NewRows DEF UniqueKeys
  <2> QED
    BY <2>4, <2>5, <2>6, <2>7, <2>8, <2>9 DEF UniqueKeys
<1> QED
  BY <1>1, <1>2

\* Whoever is admin or owner is a member.
LEMMA MemberToo ==
  ASSUME TypeOK, NEW u, NEW s
  PROVE  /\ HasWorkspaceRole(u, s, "admin") => HasWorkspaceRole(u, s, "member")
         /\ HasProjectRole(u, s, "admin") => HasProjectRole(u, s, "member")
         /\ HasWorkspaceRole(u, s, "owner") => HasWorkspaceRole(u, s, "member")
         /\ HasProjectRole(u, s, "owner") => HasProjectRole(u, s, "member")
<1>1. \A role \in Role : Rank[role] \in Nat
  BY DEF Role, Rank
<1>2. /\ \A m \in workspaceMembers : Rank[m.role] >= Rank["member"]
      /\ \A m \in projectMembers : Rank[m.role] >= Rank["member"]
  BY <1>1 DEF TypeOK, WorkspaceMembership, ProjectMembership, Rank
<1> QED
  BY <1>2 DEF HasWorkspaceRole, HasProjectRole, WorkspaceMembersOf, ProjectMembersOf

(* What is shown to a user stays shown.                                    *)
LEMMA ShownKeep ==
  ASSUME NEW r \in Req, Moves(r), NEW q \in Req, Shown(q)
  PROVE  Shown(q)'
<1>1. job' = job
  BY DEF Moves
<1>2. \A u, s : /\ HasWorkspaceRole(u, s, "member") => HasWorkspaceRole(u, s, "member")'
                /\ HasProjectRole(u, s, "member") => HasProjectRole(u, s, "member")'
  BY RolesKeep
<1>3. \A u, o : WorkspacesOf(u, o) \subseteq WorkspacesOf(u, o)'
  BY DEF Moves, WorkspacesOf, WorkspaceMembersOf
<1>4. \A u : OrganizationsOf(u) \subseteq OrganizationsOf(u)'
  BY <1>3 DEF Moves, OrganizationsOf
<1>5. /\ \A u, s : ListProjects(u, s) \subseteq ListProjects(u, s)'
      /\ \A u, s : GetProject(u, s) \subseteq GetProject(u, s)'
      /\ \A u, s : ListLabels(u, s) \subseteq ListLabels(u, s)'
      /\ \A u, s : ListWorkspaceMembers(u, s) \subseteq ListWorkspaceMembers(u, s)'
      /\ \A u, s : ListProjectMembers(u, s) \subseteq ListProjectMembers(u, s)'
  BY <1>2 DEF Moves, ListProjects, GetProject, ListLabels, ListWorkspaceMembers, ListProjectMembers,
     ProjectsIn, LabelsOf, WorkspaceMembersOf, ProjectMembersOf
<1> QED
  BY <1>1, <1>3, <1>4, <1>5 DEF Shown

\* A request that has committed finds its rows shown to its user.
LEMMA DeliveredStep ==
  ASSUME TypeOK, TypeOK', Standing, Rooted, Delivered, NEW r \in Req,
         Arrive(r) \/ Serve(r) \/ Fail(r)
  PROVE  Delivered'
<1>1. Moves(r)
  BY OneMoves
<1>2. CASE ~Commit(r)
  <2>1. pc'[r] # "stored"
    BY <1>2 DEF TypeOK, Arrive, PostOrganization, PostWorkspace, PostProject, PostLabel,
       PostWorkspaceMember, PostProjectMember, Receive, Serve, Fail, Finish, Flush, At,
       Respond, ProbeSlug, FindParent, LookUpInvitee, Go
  <2> QED
    BY <1>1, <2>1, ShownKeep DEF Moves, Delivered
<1>3. CASE Commit(r)
  <2>1. /\ pc[r] = "flushed" /\ job' = job
        /\ workspaceMembers \subseteq workspaceMembers' /\ projectMembers \subseteq projectMembers'
    BY <1>1, <1>3 DEF Moves, Commit, CreateOrganization, CreateWorkspace, CreateProject, CreateLabel,
       InviteToWorkspace, InviteToProject, Stores, At
  <2>2. ASSUME CreateOrganization(r) PROVE Shown(r)'
    <3>1. \E o \in organizations' : o.id = r /\ o.owner = job[r].actor
      BY <2>2, RowsAdded
    <3>2. job[r].kind = "organization"
      BY <2>2 DEF CreateOrganization, Stores, At
    <3> QED
      BY <2>1, <3>1, <3>2 DEF Shown, OrganizationsOf
  <2>3. ASSUME CreateWorkspace(r) PROVE Shown(r)'
    <3>1. \E w \in workspaces' : w.id = r /\ w.organization = job[r].scope
      BY <2>3, RowsAdded
    <3>2. \E m \in workspaceMembers' : m.workspace = r /\ m.user = job[r].actor
      BY <2>3, RowsAdded
    <3>3. job[r].kind = "workspace"
      BY <2>3 DEF CreateWorkspace, Stores, At
    <3> QED
      BY <2>1, <3>1, <3>2, <3>3 DEF Shown, WorkspacesOf, WorkspaceMembersOf
  <2>4. ASSUME CreateProject(r) PROVE Shown(r)'
    <3>1. job[r].kind = "project" /\ HasWorkspaceRole(job[r].actor, job[r].scope, "member")
      BY <2>1, <2>4 DEF CreateProject, Stores, At, Standing
    <3>2. \E m \in workspaceMembers' : /\ m.workspace = job[r].scope /\ m.user = job[r].actor
                                       /\ Rank[m.role] >= Rank["member"]
      <4>1. HasWorkspaceRole(job[r].actor, job[r].scope, "member")
        BY <3>1, MemberToo
      <4> QED
        BY <2>1, <4>1 DEF HasWorkspaceRole, WorkspaceMembersOf
    <3>3. PICK p \in projects' : p.id = r /\ p.workspace = job[r].scope
      BY <2>4, RowsAdded
    <3>4. PICK m \in projectMembers' :
            m = [id |-> r, project |-> r, user |-> job[r].actor, role |-> "owner"]
      BY <2>4, RowsAdded
    <3>5. m.project = r /\ m.user = job[r].actor /\ Rank[m.role] >= Rank["member"]
      BY <3>4 DEF Rank
    <3> QED
      BY <2>1, <3>1, <3>2, <3>3, <3>4, <3>5 DEF Shown, ListProjects, GetProject, ProjectsIn,
         HasProjectRole, ProjectMembersOf, HasWorkspaceRole, WorkspaceMembersOf
  <2>5. ASSUME CreateLabel(r) PROVE Shown(r)'
    <3>1. job[r].kind = "label" /\ HasProjectRole(job[r].actor, job[r].scope, "admin")
      BY <2>1, <2>5 DEF CreateLabel, Stores, At, Standing
    <3>2. \E m \in projectMembers' : /\ m.project = job[r].scope /\ m.user = job[r].actor
                                     /\ Rank[m.role] >= Rank["member"]
      <4>1. HasProjectRole(job[r].actor, job[r].scope, "member")
        BY <3>1, MemberToo
      <4> QED
        BY <2>1, <4>1 DEF HasProjectRole, ProjectMembersOf
    <3>3. \E l \in labels' : l.id = r /\ l.project = job[r].scope
      BY <2>5, RowsAdded
    <3> QED
      BY <2>1, <3>1, <3>2, <3>3 DEF Shown, ListLabels, LabelsOf, HasProjectRole, ProjectMembersOf
  <2>6. ASSUME InviteToWorkspace(r) PROVE Shown(r)'
    <3>1. job[r].kind = "workspace member" /\ HasWorkspaceRole(job[r].actor, job[r].scope, "admin")
      BY <2>1, <2>6 DEF InviteToWorkspace, Stores, At, Standing
    <3>2. \E m \in workspaceMembers' : /\ m.workspace = job[r].scope /\ m.user = job[r].actor
                                       /\ Rank[m.role] >= Rank["member"]
      <4>1. HasWorkspaceRole(job[r].actor, job[r].scope, "member")
        BY <3>1, MemberToo
      <4> QED
        BY <2>1, <4>1 DEF HasWorkspaceRole, WorkspaceMembersOf
    <3>3. \E m \in workspaceMembers' : /\ m.id = r /\ m.workspace = job[r].scope
                                       /\ m.user = job[r].who
      BY <2>6, RowsAdded
    <3> QED
      BY <2>1, <3>1, <3>2, <3>3 DEF Shown, ListWorkspaceMembers, HasWorkspaceRole, WorkspaceMembersOf
  <2>7. ASSUME InviteToProject(r) PROVE Shown(r)'
    <3>1. job[r].kind = "project member" /\ HasProjectRole(job[r].actor, job[r].scope, "admin")
      BY <2>1, <2>7 DEF InviteToProject, Stores, At, Standing
    <3>2. \E m \in projectMembers' : /\ m.project = job[r].scope /\ m.user = job[r].actor
                                     /\ Rank[m.role] >= Rank["member"]
      <4>1. HasProjectRole(job[r].actor, job[r].scope, "member")
        BY <3>1, MemberToo
      <4> QED
        BY <2>1, <4>1 DEF HasProjectRole, ProjectMembersOf
    <3>3. \E m \in projectMembers' : /\ m.id = r /\ m.project = job[r].scope
                                     /\ m.user = job[r].who
      BY <2>7, RowsAdded
    <3> QED
      BY <2>1, <3>1, <3>2, <3>3 DEF Shown, ListProjectMembers, HasProjectRole, ProjectMembersOf
  <2>8. Shown(r)'
    BY <1>3, <2>2, <2>3, <2>4, <2>5, <2>6, <2>7 DEF Commit
  <2> QED
    BY <1>1, <2>8, ShownKeep DEF Moves, Delivered
<1> QED
  BY <1>2, <1>3

\* An answer once true stays true.
LEMMA AnswersStep ==
  ASSUME TypeOK, Progress, Progress', Delivered, AnswersTrue, NEW r \in Req,
         Arrive(r) \/ Serve(r) \/ Fail(r)
  PROVE  AnswersTrue'
<1>1. Moves(r)
  BY OneMoves
<1>2. ASSUME NEW q \in Req \ {r}
      PROVE  /\ answer'[q] = "created" => Shown(q)'
             /\ answer'[q] \in {"refused", "forbidden", "missing", "conflict", "raced"} =>
                  q \notin StoredIds'
             /\ answer'[q] = "refused" => job'[q].who = Stranger \/ AlreadyMember(job[q])'
             /\ answer'[q] \in {"conflict", "raced"} => Taken(q)'
  <2>1. answer'[q] = answer[q] /\ job' = job
    BY <1>1 DEF Moves
  <2>2. q \in StoredIds' <=> q \in StoredIds
    BY NewIds DEF tables, StoredIds, Ids
  <2>3. AlreadyMember(job[q]) => AlreadyMember(job[q])'
    BY <1>1, MembersKeep
  <2>4. Taken(q) => Taken(q)'
    BY <1>1, TakenKeep
  <2>5. Shown(q) => Shown(q)'
    BY <1>1, ShownKeep
  <2> QED
    BY <2>1, <2>2, <2>3, <2>4, <2>5 DEF AnswersTrue
<1>3. CASE answer'[r] = answer[r]
  <2>1. answer'[r] = "none"
    BY <1>1, <1>3 DEF Moves, Progress, TypeOK
  <2> QED
    BY <1>2, <2>1 DEF AnswersTrue
<1>4. CASE answer'[r] # answer[r]
  <2>1. ~Commit(r)
    BY <1>4 DEF Commit, CreateOrganization, CreateWorkspace, CreateProject, CreateLabel,
       InviteToWorkspace, InviteToProject, Stores, Go
  <2>2. UNCHANGED <<tables, job>> /\ StoredIds' = StoredIds
    BY <1>1, <2>1, NewIds DEF Moves, tables, StoredIds, Ids
  <2>3. AlreadyMember(job[r])' = AlreadyMember(job[r])
    BY <2>2 DEF AlreadyMember, WorkspaceMembersOf, ProjectMembersOf, tables
  <2>4. suffix' = suffix => Taken(r)' = Taken(r)
    BY <2>2, <2>3 DEF Taken, Candidate, Slugify, ProjectsIn, LabelsOf, tables
  <2>5. /\ answer'[r] = "created" => pc[r] = "stored"
        /\ answer'[r] \in {"refused", "forbidden", "missing", "conflict", "raced"} =>
             pc[r] \in {"idle", "checked", "ready"}
        /\ answer'[r] = "refused" => job[r].who = Stranger \/ AlreadyMember(job[r])
        /\ answer'[r] \in {"conflict", "raced"} => Taken(r) /\ suffix' = suffix
    BY <1>4, <2>1 DEF TypeOK, Arrive, PostOrganization, PostWorkspace, PostProject, PostLabel,
       PostWorkspaceMember, PostProjectMember, Receive, Serve, Fail, Finish, Flush, At,
       Respond, ProbeSlug, FindParent, LookUpInvitee, Go
  <2>6. /\ pc[r] = "stored" => Shown(r)'
        /\ pc[r] \in {"idle", "checked", "ready"} => r \notin StoredIds
    BY <1>1, ShownKeep DEF Progress, Delivered
  <2> QED
    BY <1>2, <2>2, <2>3, <2>4, <2>5, <2>6 DEF AnswersTrue
<1> QED
  BY <1>3, <1>4

\* The entry and the row are stored by one commit, or neither is.
LEMMA LogStep ==
  ASSUME TypeOK, Standing, LogInv, NEW r \in Req, Arrive(r) \/ Serve(r) \/ Fail(r)
  PROVE  LogInv'
<1>1. Moves(r)
  BY OneMoves
<1>2. CASE ~Commit(r)
  <2>1. UNCHANGED <<projects, projectMembers, labels, feed, job>>
    BY <1>1, <1>2, NewIds DEF Moves, tables
  <2> QED
    BY <2>1 DEF LogInv, EntryTrue, Ids
<1>3. CASE Commit(r)
  <2>1. /\ job' = job /\ pc[r] = "flushed"
        /\ projects \subseteq projects' /\ projectMembers \subseteq projectMembers'
        /\ labels \subseteq labels'
    BY <1>1, <1>3 DEF Moves, Commit, CreateOrganization, CreateWorkspace, CreateProject, CreateLabel,
       InviteToWorkspace, InviteToProject, Stores, At
  <2>2. Ids(feed') = Ids(projects') \cup Ids(projectMembers') \cup Ids(labels')
    <3>1. CASE CreateOrganization(r) \/ CreateWorkspace(r) \/ InviteToWorkspace(r)
      BY <3>1 DEF CreateOrganization, CreateWorkspace, InviteToWorkspace, LogInv
    <3>2. CASE CreateProject(r)
      <4>1. /\ Ids(projects') = Ids(projects) \cup {r}
            /\ Ids(projectMembers') = Ids(projectMembers) \cup {r}
            /\ Ids(feed') = Ids(feed) \cup {r} /\ labels' = labels
        BY <3>2, IdsAdd DEF CreateProject, AddProjectMember, Log
      <4> QED
        BY <4>1 DEF LogInv
    <3>3. CASE CreateLabel(r)
      <4>1. /\ Ids(labels') = Ids(labels) \cup {r} /\ Ids(feed') = Ids(feed) \cup {r}
            /\ projects' = projects /\ projectMembers' = projectMembers
        BY <3>3, IdsAdd DEF CreateLabel, Log
      <4> QED
        BY <4>1 DEF LogInv
    <3>4. CASE InviteToProject(r)
      <4>1. /\ Ids(projectMembers') = Ids(projectMembers) \cup {r}
            /\ Ids(feed') = Ids(feed) \cup {r}
            /\ projects' = projects /\ labels' = labels
        BY <3>4, IdsAdd DEF InviteToProject, AddProjectMember, Log
      <4> QED
        BY <4>1 DEF LogInv
    <3> QED
      BY <1>3, <3>1, <3>2, <3>3, <3>4 DEF Commit
  <2>3. ASSUME NEW e \in feed
        PROVE  EntryTrue(e, projects', projectMembers', labels')
    BY <2>1 DEF LogInv, EntryTrue
  <2>4. ASSUME CreateProject(r), NEW e \in feed',
               e = [id |-> r, project |-> r, actor |-> job[r].actor, action |-> "project_created"]
        PROVE  EntryTrue(e, projects', projectMembers', labels')
    <3>1. PICK m \in projectMembers' :
            m = [id |-> r, project |-> r, user |-> job[r].actor, role |-> "owner"]
      BY <2>4, RowsAdded
    <3>2. PICK p \in projects' : p.id = r
      BY <2>4, RowsAdded
    <3> QED
      BY <2>4, <3>1, <3>2 DEF EntryTrue, Rank
  <2>5. ASSUME CreateLabel(r), NEW e \in feed',
               e = [id |-> r, project |-> job[r].scope, actor |-> job[r].actor,
                    action |-> "label_created"]
        PROVE  EntryTrue(e, projects', projectMembers', labels')
    <3>1. \E m \in projectMembers' : /\ m.project = job[r].scope /\ m.user = job[r].actor
                                     /\ Rank[m.role] >= Rank["admin"]
      BY <2>1, <2>5 DEF CreateLabel, Stores, At, Standing, HasProjectRole, ProjectMembersOf
    <3>2. PICK l \in labels' : l.id = r /\ l.project = job[r].scope
      BY <2>5, RowsAdded
    <3> QED
      BY <2>5, <3>1, <3>2 DEF EntryTrue
  <2>6. ASSUME InviteToProject(r), NEW e \in feed',
               e = [id |-> r, project |-> job[r].scope, actor |-> job[r].actor,
                    action |-> "member_invited"]
        PROVE  EntryTrue(e, projects', projectMembers', labels')
    <3>1. \E m \in projectMembers' : /\ m.project = job[r].scope /\ m.user = job[r].actor
                                     /\ Rank[m.role] >= Rank["admin"]
      BY <2>1, <2>6 DEF InviteToProject, Stores, At, Standing, HasProjectRole, ProjectMembersOf
    <3>2. PICK m \in projectMembers' : m.id = r /\ m.project = job[r].scope
      BY <2>6, RowsAdded
    <3> QED
      BY <2>6, <3>1, <3>2 DEF EntryTrue
  <2>7. \A e \in feed' : EntryTrue(e, projects', projectMembers', labels')
    BY <1>3, <2>3, <2>4, <2>5, <2>6, NewRows
  <2> QED
    BY <2>1, <2>2, <2>7 DEF LogInv, EntryTrue, Ids
<1> QED
  BY <1>2, <1>3

(* With the invariant, whoever created something finds it by the lists.    *)
LEMMA Found ==
  ASSUME Rooted
  PROVE  CreatorsFindTheirWork
<1>1. \A u : \A w \in workspaces : HasWorkspaceRole(u, w.id, "member") \/ HasWorkspaceRole(u, w.id, "owner") =>
        \E o \in OrganizationsOf(u) : w \in WorkspacesOf(u, o.id)
  <2> SUFFICES ASSUME NEW w \in workspaces, NEW u,
                      HasWorkspaceRole(u, w.id, "member") \/ HasWorkspaceRole(u, w.id, "owner")
               PROVE  \E o \in OrganizationsOf(u) : w \in WorkspacesOf(u, o.id)
    OBVIOUS
  <2>1. PICK o \in organizations : o.id = w.organization
    BY DEF Rooted
  <2>2. w \in WorkspacesOf(u, o.id)
    BY <2>1 DEF WorkspacesOf, HasWorkspaceRole
  <2> QED
    BY <2>1, <2>2 DEF OrganizationsOf
<1>2. \A o \in organizations : \E w \in WorkspacesOf(o.owner, o.id) :
        w.slug = General /\ HasWorkspaceRole(o.owner, w.id, "owner")
  BY DEF Rooted, WorkspacesOf, HasWorkspaceRole
<1>3. ASSUME NEW p \in projects
      PROVE  \E o \in OrganizationsOf(job[p.id].actor) :
               \E w \in WorkspacesOf(job[p.id].actor, o.id) :
                 p \in ListProjects(job[p.id].actor, w.id)
  <2>1. HasWorkspaceRole(job[p.id].actor, p.workspace, "member")
    BY DEF Rooted
  <2>2. PICK w \in workspaces : w.id = p.workspace
    BY <2>1 DEF Rooted, HasWorkspaceRole, WorkspaceMembersOf
  <2> QED
    BY <1>1, <2>1, <2>2 DEF ListProjects, ProjectsIn
<1> QED
  BY <1>1, <1>2, <1>3 DEF Rooted, CreatorsFindTheirWork

\* The empty tables satisfy the invariant.
LEMMA InitInv == Init => IInv
<1> SUFFICES ASSUME Init PROVE IInv
  OBVIOUS
<1>1. TypeOK
  BY AsksAssumption DEF Init, TypeOK
<1>2. Standing /\ KeysHeld
  BY DEF Init, Standing, At, KeysHeld
<1>3. Rooted /\ UniqueKeys
  BY DEF Init, Rooted, UniqueKeys
<1>4. Progress /\ AnswersTrue /\ LogInv
  BY DEF Init, Progress, AnswersTrue, LogInv, StoredIds, Ids
<1>5. Delivered
  BY DEF Init, Delivered
<1> QED
  BY <1>1, <1>2, <1>3, <1>4, <1>5 DEF IInv

(* The inductive invariant holds of every reachable state.                 *)
THEOREM IInvHolds == Spec => []IInv
<1>1. IInv /\ [Next]_vars => IInv'
  <2> SUFFICES ASSUME IInv, [Next]_vars PROVE IInv'
    OBVIOUS
  <2>1. CASE UNCHANGED vars
    <3> USE <2>1 DEF vars, tables
    <3>1. TypeOK'
      BY DEF IInv, TypeOK
    <3>2. Standing'
      BY DEF IInv, Standing, At, HasWorkspaceRole, HasProjectRole, WorkspaceMembersOf,
         ProjectMembersOf
    <3>3. Progress'
      BY DEF IInv, Progress, StoredIds, Ids
    <3>4. KeysHeld'
      <4>1. \A r \in Req : Key(r)' = Key(r)
        BY DEF Key, Candidate, Slugify
      <4>2. \A r \in Req : Taken(r)' = Taken(r)
        BY DEF Taken, Candidate, Slugify, ProjectsIn, LabelsOf, AlreadyMember,
           WorkspaceMembersOf, ProjectMembersOf
      <4> QED
        BY <4>1, <4>2 DEF IInv, KeysHeld
    <3>5. Rooted' /\ UniqueKeys'
      BY DEF IInv, Rooted, UniqueKeys, HasWorkspaceRole, HasProjectRole, WorkspaceMembersOf,
         ProjectMembersOf
    <3>6. LogInv'
      BY DEF IInv, LogInv, EntryTrue, Ids
    <3>7. \A r \in Req : Shown(r)' = Shown(r)
      BY DEF Shown, OrganizationsOf, WorkspacesOf, ListProjects, GetProject, ListLabels,
         ListWorkspaceMembers, ListProjectMembers, ProjectsIn, LabelsOf, WorkspaceMembersOf,
         ProjectMembersOf, HasWorkspaceRole, HasProjectRole
    <3>8. AnswersTrue'
      <4>1. \A r \in Req : Taken(r)' = Taken(r) /\ AlreadyMember(job[r])' = AlreadyMember(job[r])
        BY DEF Taken, Candidate, Slugify, ProjectsIn, LabelsOf, AlreadyMember,
           WorkspaceMembersOf, ProjectMembersOf
      <4>2. StoredIds' = StoredIds
        BY DEF StoredIds, Ids
      <4> QED
        BY <3>7, <4>1, <4>2 DEF IInv, AnswersTrue
    <3>9. Delivered'
      BY <3>7 DEF IInv, Delivered
    <3> QED
      BY <3>1, <3>2, <3>3, <3>4, <3>5, <3>6, <3>8, <3>9 DEF IInv
  <2>2. ASSUME NEW r \in Req, Arrive(r) \/ Serve(r) \/ Fail(r) PROVE IInv'
    BY <2>2, TypeStep, StandingStep, ProgressStep, DeliveredStep, KeysStep, RootedStep, UniqueStep, LogStep,
       AnswersStep DEF IInv
  <2> QED
    BY <2>1, <2>2 DEF Next, Quiet
<1> QED
  BY InitInv, <1>1, PTL DEF Spec

(* Every row and every request has its type: no invitation adds somebody   *)
(* without an account.                                                     *)
THEOREM TypeCorrect == Spec => []TypeOK
<1>1. IInv => TypeOK
  BY DEF IInv
<1> QED
  BY IInvHolds, <1>1, PTL

(* However many requests race for a slug, a membership or a label, one     *)
(* row has it.                                                             *)
THEOREM UniqueKeysEver == Spec => []UniqueKeys
<1>1. IInv => UniqueKeys
  BY DEF IInv
<1> QED
  BY IInvHolds, <1>1, PTL

(* Creators own what they created and find it by the lists.                *)
THEOREM CreatorsFindTheirWorkEver == Spec => []CreatorsFindTheirWork
<1>1. IInv => CreatorsFindTheirWork
  BY Found DEF IInv
<1> QED
  BY IInvHolds, <1>1, PTL

(* Every answer is true when it is given and stays so.                     *)
THEOREM AnswersTrueEver == Spec => []AnswersTrue
<1>1. IInv => AnswersTrue
  BY DEF IInv
<1> QED
  BY IInvHolds, <1>1, PTL

(* The activity log is the changes that were stored, no more and no less,  *)
(* each under the user who had the right to make it.                       *)
THEOREM LogTrueEver == Spec => []LogTrue
<1>1. ASSUME IInv, NEW e \in feed
      PROVE  /\ HasProjectRole(e.actor, e.project, "admin")
             /\ e \in ListActivity(e.actor, e.project)
  <2>1. HasProjectRole(e.actor, e.project, "admin")
    BY <1>1 DEF IInv, LogInv, EntryTrue, HasProjectRole, ProjectMembersOf
  <2> QED
    BY <1>1, <2>1, MemberToo DEF IInv, ListActivity, FeedOf
<1>2. IInv => LogTrue
  BY <1>1 DEF IInv, LogInv, LogTrue, EntryTrue, ProjectMembersOf, LabelsOf, FeedOf
<1> QED
  BY IInvHolds, <1>2, PTL

(* The roles of Directory are those of Membership.                         *)
LEMMA SameRoles ==
  /\ \A u, w, least : Rows!InWorkspace(u, w, least) <=> HasWorkspaceRole(u, w, least)
  /\ \A u, p, least : Rows!InProject(u, p, least) <=> HasProjectRole(u, p, least)
BY DEF Rows!InWorkspace, Rows!InProject, Rows!Rank, Rank, HasWorkspaceRole, HasProjectRole,
   WorkspaceMembersOf, ProjectMembersOf

(* A commit finds everything its request was admitted for, though each was *)
(* looked at some steps ago, and is the atomic step of Directory.          *)
LEMMA AddStep ==
  ASSUME TypeOK, Standing, Progress, KeysHeld, Rooted, NEW r \in Req, Commit(r)
  PROVE  Rows!Fresh(r) /\ Rows!Add(r) /\ job' = job
<1>1. pc[r] = "flushed" /\ job' = job
  BY DEF Commit, CreateOrganization, CreateWorkspace, CreateProject, CreateLabel,
     InviteToWorkspace, InviteToProject, Stores, At
<1>2. r \notin StoredIds /\ ~Taken(r)
  BY <1>1 DEF Progress, KeysHeld
<1>3. Rows!Fresh(r)
  BY <1>2 DEF StoredIds, Ids, Rows!Fresh
<1>4. ASSUME NEW u, NEW s
      PROVE  /\ HasWorkspaceRole(u, s, "member") \/ HasWorkspaceRole(u, s, "admin") =>
                  \E w \in workspaces : w.id = s
             /\ HasProjectRole(u, s, "member") \/ HasProjectRole(u, s, "admin") =>
                  \E p \in projects : p.id = s
  <2>1. /\ \A m \in workspaceMembers : \E w \in workspaces : w.id = m.workspace
        /\ \A m \in projectMembers : \E p \in projects : p.id = m.project
    BY DEF Rooted
  <2>2. ASSUME HasWorkspaceRole(u, s, "member") \/ HasWorkspaceRole(u, s, "admin")
        PROVE  \E w \in workspaces : w.id = s
    <3>1. PICK m \in workspaceMembers : m.workspace = s
      BY <2>2 DEF HasWorkspaceRole, WorkspaceMembersOf
    <3> QED
      BY <2>1, <3>1
  <2>3. ASSUME HasProjectRole(u, s, "member") \/ HasProjectRole(u, s, "admin")
        PROVE  \E p \in projects : p.id = s
    <3>1. PICK m \in projectMembers : m.project = s
      BY <2>3 DEF HasProjectRole, ProjectMembersOf
    <3> QED
      BY <2>1, <3>1
  <2> QED
    BY <2>2, <2>3
<1>5. CASE CreateOrganization(r)
  <2>1. job[r].kind = "organization"
    BY <1>5 DEF CreateOrganization, Stores, At
  <2> DEFINE o == [id |-> r, slug |-> Candidate(r), owner |-> job[r].actor]
  <2>2. organizations' = organizations \cup {o}
    BY <1>5 DEF CreateOrganization
  <2>3. o \in organizations' \ organizations
    BY <1>2, <2>2 DEF StoredIds, Ids
  <2>4. \A x \in organizations : x.slug # o.slug
    BY <1>2, <2>1 DEF Taken
  <2>5. Rows!AddOrganization(r)
    BY <1>5, <2>2, <2>3, <2>4 DEF CreateOrganization, AddWorkspaceMember, Rows!AddOrganization,
       Rows!JoinsWorkspace
  <2> QED
    BY <1>1, <1>3, <2>1, <2>5 DEF Rows!Add
<1>6. CASE CreateWorkspace(r)
  <2>1. job[r].kind = "workspace" /\ \E o \in organizations : o.id = job[r].scope
    BY <1>6 DEF CreateWorkspace, Stores, At, Standing
  <2>2. ~ \E w \in workspaces : w.organization = job[r].scope /\ w.slug = Slugify(r, job[r].name)
    BY <1>2, <2>1 DEF Taken
  <2>3. Rows!AddWorkspace(r)
    BY <1>6, <2>1, <2>2 DEF CreateWorkspace, AddWorkspaceMember, Rows!AddWorkspace,
       Rows!JoinsWorkspace
  <2> QED
    BY <1>1, <1>3, <2>1, <2>3 DEF Rows!Add
<1>7. CASE CreateProject(r)
  <2>1. job[r].kind = "project" /\ HasWorkspaceRole(job[r].actor, job[r].scope, "member")
    BY <1>7 DEF CreateProject, Stores, At, Standing
  <2>2. ~ \E p \in projects : p.workspace = job[r].scope /\ p.slug = Slugify(r, job[r].name)
    BY <1>2, <2>1 DEF Taken, ProjectsIn
  <2>3. Rows!AddProject(r)
    BY <1>4, <1>7, <2>1, <2>2, SameRoles DEF CreateProject, AddProjectMember, Log,
       Rows!AddProject, Rows!JoinsProject, Rows!Logged
  <2> QED
    BY <1>1, <1>3, <2>1, <2>3 DEF Rows!Add
<1>8. CASE CreateLabel(r)
  <2>1. job[r].kind = "label" /\ HasProjectRole(job[r].actor, job[r].scope, "admin")
    BY <1>8 DEF CreateLabel, Stores, At, Standing
  <2>2. ~ \E l \in labels : l.project = job[r].scope /\ l.name = job[r].name
    BY <1>2, <2>1 DEF Taken, LabelsOf
  <2>3. Rows!AddLabel(r)
    BY <1>4, <1>8, <2>1, <2>2, SameRoles DEF CreateLabel, Log, Rows!AddLabel, Rows!Logged
  <2> QED
    BY <1>1, <1>3, <2>1, <2>3 DEF Rows!Add
<1>9. CASE InviteToWorkspace(r)
  <2>1. /\ job[r].kind = "workspace member" /\ job[r].who \in User
        /\ HasWorkspaceRole(job[r].actor, job[r].scope, "admin")
    BY <1>9 DEF InviteToWorkspace, Stores, At, Standing
  <2>2. ~HasWorkspaceRole(job[r].who, job[r].scope, "member")
    BY <1>2, <2>1 DEF Taken, AlreadyMember, HasWorkspaceRole
  <2>3. Rows!AddWorkspaceMember(r)
    BY <1>4, <1>9, <2>1, <2>2, SameRoles DEF InviteToWorkspace, AddWorkspaceMember,
       Rows!AddWorkspaceMember, Rows!JoinsWorkspace
  <2> QED
    BY <1>1, <1>3, <2>1, <2>3 DEF Rows!Add
<1>10. CASE InviteToProject(r)
  <2>1. /\ job[r].kind = "project member" /\ job[r].who \in User
        /\ HasProjectRole(job[r].actor, job[r].scope, "admin")
    BY <1>10 DEF InviteToProject, Stores, At, Standing
  <2>2. ~HasProjectRole(job[r].who, job[r].scope, "member")
    BY <1>2, <2>1 DEF Taken, AlreadyMember, HasProjectRole
  <2>3. Rows!AddProjectMember(r)
    BY <1>4, <1>10, <2>1, <2>2, SameRoles DEF InviteToProject, AddProjectMember, Log,
       Rows!AddProjectMember, Rows!JoinsProject, Rows!Logged
  <2> QED
    BY <1>1, <1>3, <2>1, <2>3 DEF Rows!Add
<1> QED
  BY <1>5, <1>6, <1>7, <1>8, <1>9, <1>10 DEF Commit

(* The concurrent endpoints refine the atomic directory: a commit is its   *)
(* one step, everything before and after it a stutter.                     *)
THEOREM ImplementsDirectoryEver == Spec => ImplementsDirectory
<1>1. Init => Rows!Init
  BY DEF Init, Rows!Init
<1>2. IInv /\ [Next]_vars => [Rows!Next]_(Rows!vars)
  <2> SUFFICES ASSUME IInv, [Next]_vars
               PROVE  Rows!Next \/ UNCHANGED Rows!vars
    OBVIOUS
  <2>1. CASE UNCHANGED vars \/ Quiet
    BY <2>1 DEF Quiet, vars, tables, Rows!vars
  <2>2. ASSUME NEW r \in Req, Arrive(r) \/ Serve(r) \/ Fail(r)
        PROVE  Rows!Next \/ UNCHANGED Rows!vars
    <3>1. CASE Commit(r)
      BY <3>1, AddStep DEF IInv, Rows!Next
    <3>2. CASE ~Commit(r)
      BY <2>2, <3>2, NewIds, OneMoves DEF IInv, Moves, tables, Rows!vars
    <3> QED
      BY <3>1, <3>2
  <2> QED
    BY <2>1, <2>2 DEF Next
<1> QED
  BY IInvHolds, <1>1, <1>2, PTL DEF Spec, ImplementsDirectory, Rows!Spec
=============================================================================
