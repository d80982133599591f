----------------------------- MODULE Membership -----------------------------
(***************************************************************************)
(* Organizations, workspaces, projects, their members and labels, and the  *)
(* activity log: the rows each endpoint adds, the roles it asks for, and   *)
(* what concurrent requests meet on the way to their commit.  No endpoint  *)
(* removes a row or changes one.                                           *)
(*                                                                         *)
(* A request runs in one transaction.  It looks at the committed rows one  *)
(* query at a time, flushes its own rows to the database, where any other  *)
(* request with the same unique key then waits, and commits.  An id is the *)
(* request that created the row: it is as fresh as a uuid.                 *)
(***************************************************************************)
EXTENDS Naturals, Sequences

CONSTANTS
  User,      \* accounts
  Stranger,  \* an e-mail address without an account
  Req,       \* requests
  Word,      \* what names are made of
  Name,      \* names, as the sequences of words their slugs are made of
  General,   \* the name of an organization's first workspace
  Asks,      \* what the requests may ask for together
  Faults     \* {"database"} when it may fail under a request

ASSUME NameAssumption == Name \subseteq Seq(Word \cup Nat) /\ General \in Seq(Word)
ASSUME StrangerAssumption == Stranger \notin User

Role == {"member", "admin", "owner"}
Rank == [member |-> 0, admin |-> 1, owner |-> 2]

Slug == Seq(Word \cup Nat \cup Req)

(* A name without a letter or a digit gets a random slug.                  *)
Slugify(r, n) == IF n = <<>> THEN <<r>> ELSE n

Organization        == [id: Req, slug: Slug, owner: User]
Workspace           == [id: Req, organization: Req, slug: Slug]
WorkspaceMembership == [id: Req, workspace: Req, user: User, role: Role]
Project             == [id: Req, workspace: Req, slug: Slug]
ProjectMembership   == [id: Req, project: Req, user: User, role: Role]
Label               == [id: Req, project: Req, name: Name]
ActivityLog         == [id: Req, project: Req, actor: User,
                        action: {"project_created", "member_invited", "label_created"}]

(* What a request asks for: its kind tells the endpoint, scope is the id   *)
(* in the path, name that of what is created, who and role those invited.  *)
Job == [kind: {"organization", "workspace", "project", "label",
               "workspace member", "project member"},
        actor: User, scope: Req, name: Name, who: User \cup {Stranger}, role: Role]

ASSUME AsksAssumption == Asks \subseteq [Req -> Job]

VARIABLES
  organizations, workspaces, workspaceMembers,      \* the committed rows
  projects, projectMembers, labels, feed,
  pc,        \* how far each request is
  job,       \* what it asks for
  suffix,    \* the suffix an organization's slug is tried with
  answer     \* what its client was told

tables == <<organizations, workspaces, workspaceMembers, projects, projectMembers, labels, feed>>
vars   == <<tables, pc, job, suffix, answer>>

TypeOK ==
  /\ organizations \subseteq Organization
  /\ workspaces \subseteq Workspace
  /\ workspaceMembers \subseteq WorkspaceMembership
  /\ projects \subseteq Project
  /\ projectMembers \subseteq ProjectMembership
  /\ labels \subseteq Label
  /\ feed \subseteq ActivityLog
  /\ pc \in [Req -> {"idle", "checked", "ready", "flushed", "stored", "done"}]
  /\ job \in [Req -> Job]
  /\ suffix \in [Req -> Nat \ {0}]
  /\ answer \in [Req -> {"none", "created", "refused", "forbidden", "missing",
                         "conflict", "raced", "failed"}]

Init ==
  /\ organizations = {} /\ workspaces = {} /\ workspaceMembers = {}
  /\ projects = {} /\ projectMembers = {} /\ labels = {} /\ feed = {}
  /\ pc = [r \in Req |-> "idle"]
  /\ job \in Asks
  /\ suffix = [r \in Req |-> 1]
  /\ answer = [r \in Req |-> "none"]

(***************************************************************************)
(* The queries.                                                            *)
(***************************************************************************)
WorkspaceMembersOf(w) == {m \in workspaceMembers : m.workspace = w}
ProjectMembersOf(p)   == {m \in projectMembers : m.project = p}
WorkspacesOf(u, o) ==
  {w \in workspaces : w.organization = o /\ \E m \in WorkspaceMembersOf(w.id) : m.user = u}
OrganizationsOf(u) ==
  {o \in organizations : o.owner = u} \cup {o \in organizations : WorkspacesOf(u, o.id) # {}}
ProjectsIn(w) == {p \in projects : p.workspace = w}
LabelsOf(p)   == {l \in labels : l.project = p}
FeedOf(p)     == {e \in feed : e.project = p}

HasWorkspaceRole(u, w, least) ==
  \E m \in WorkspaceMembersOf(w) : m.user = u /\ Rank[m.role] >= Rank[least]
HasProjectRole(u, p, least) ==
  \E m \in ProjectMembersOf(p) : m.user = u /\ Rank[m.role] >= Rank[least]

(* What the reading endpoints show a user; the lists of organizations and  *)
(* of workspaces are the queries themselves.                               *)
ListProjects(u, w) == {p \in ProjectsIn(w) : HasWorkspaceRole(u, w, "member")}
GetProject(u, id)  == {p \in projects : p.id = id /\ HasProjectRole(u, id, "member")}
ListWorkspaceMembers(u, w) == {m \in WorkspaceMembersOf(w) : HasWorkspaceRole(u, w, "member")}
ListProjectMembers(u, p)   == {m \in ProjectMembersOf(p) : HasProjectRole(u, p, "member")}
ListLabels(u, p)   == {l \in LabelsOf(p) : HasProjectRole(u, p, "member")}
ListActivity(u, p) == {e \in FeedOf(p) : HasProjectRole(u, p, "member")}

(***************************************************************************)
(* The endpoints: a request arrives and its role is checked.               *)
(***************************************************************************)
Finish(r, a) == pc' = [pc EXCEPT ![r] = "done"] /\ answer' = [answer EXCEPT ![r] = a]
Go(r, there) == pc' = [pc EXCEPT ![r] = there] /\ UNCHANGED answer

Receive(r, kind, permitted, there) ==
  /\ pc[r] = "idle" /\ job[r].kind = kind
  /\ IF permitted THEN Go(r, there) ELSE Finish(r, "forbidden")
  /\ UNCHANGED <<tables, job, suffix>>

PostOrganization(r) == Receive(r, "organization", TRUE, "checked")

(* Any user may add a workspace to any organization.                       *)
PostWorkspace(r) == Receive(r, "workspace", TRUE, "checked")

(* Mutant: Projects are open to whoever knows the workspace.              *)
PostProjectAnywhere(r) == Receive(r, "project", TRUE, "checked")

PostProject(r) ==
  Receive(r, "project", HasWorkspaceRole(job[r].actor, job[r].scope, "member"), "checked")

PostLabel(r) ==
  Receive(r, "label", HasProjectRole(job[r].actor, job[r].scope, "admin"), "ready")

PostWorkspaceMember(r) ==
  Receive(r, "workspace member", HasWorkspaceRole(job[r].actor, job[r].scope, "admin"), "checked")

PostProjectMember(r) ==
  Receive(r, "project member", HasProjectRole(job[r].actor, job[r].scope, "admin"), "checked")

(***************************************************************************)
(* The services.  First what is looked up before a row is added.           *)
(***************************************************************************)
At(r, kinds, here) == pc[r] = here /\ job[r].kind \in kinds

Candidate(r) ==
  LET slug == Slugify(r, job[r].name)
  IN IF suffix[r] = 1 THEN slug ELSE Append(slug, suffix[r])

ProbeSlug(r) ==
  /\ At(r, {"organization"}, "checked")
  /\ IF \E o \in organizations : o.slug = Candidate(r)
     THEN suffix' = [suffix EXCEPT ![r] = @ + 1] /\ UNCHANGED <<pc, answer>>
     ELSE Go(r, "ready") /\ UNCHANGED suffix
  /\ UNCHANGED <<tables, job>>

FindParent(r) ==
  /\ At(r, {"workspace", "project"}, "checked")
  /\ LET rows == IF job[r].kind = "workspace" THEN organizations ELSE workspaces
     IN IF \E row \in rows : row.id = job[r].scope THEN Go(r, "ready") ELSE Finish(r, "missing")
  /\ UNCHANGED <<tables, job, suffix>>

AlreadyMember(j) ==
  \E m \in (IF j.kind = "workspace member" THEN WorkspaceMembersOf(j.scope)
                                           ELSE ProjectMembersOf(j.scope)) : m.user = j.who

(* Mutant: An invitation does not look whether the address has an account.*)
LookUpMemberOnly(r) ==
  /\ At(r, {"workspace member", "project member"}, "checked")
  /\ IF AlreadyMember(job[r]) THEN Finish(r, "refused") ELSE Go(r, "ready")
  /\ UNCHANGED <<tables, job, suffix>>

LookUpInvitee(r) ==
  /\ At(r, {"workspace member", "project member"}, "checked")
  /\ IF job[r].who = Stranger \/ AlreadyMember(job[r]) THEN Finish(r, "refused") ELSE Go(r, "ready")
  /\ UNCHANGED <<tables, job, suffix>>

(* What the database holds unique of the row a request adds.               *)
Key(r) ==
  <<job[r].kind>> \o
    CASE job[r].kind = "organization" -> <<Candidate(r)>>
      [] job[r].kind = "label" -> <<job[r].scope, job[r].name>>
      [] job[r].kind \in {"workspace", "project"} -> <<job[r].scope, Slugify(r, job[r].name)>>
      [] OTHER -> <<job[r].scope, job[r].who>>

Taken(r) ==
  LET j == job[r] IN
  CASE j.kind = "organization" -> \E o \in organizations : o.slug = Candidate(r)
    [] j.kind = "workspace" ->
         \E w \in workspaces : w.organization = j.scope /\ w.slug = Slugify(r, j.name)
    [] j.kind = "project" -> \E p \in ProjectsIn(j.scope) : p.slug = Slugify(r, j.name)
    [] j.kind = "label" -> \E l \in LabelsOf(j.scope) : l.name = j.name
    [] OTHER -> AlreadyMember(j)

(* Mutant: The probe for a free slug is trusted; the column is not unique.*)
FlushUnlessLabelTaken(r) ==
  /\ pc[r] = "ready"
  /\ IF ~(job[r].kind = "label" /\ Taken(r)) THEN Go(r, "flushed") ELSE Finish(r, "conflict")
  /\ UNCHANGED <<tables, job, suffix>>

(* Mutant: A request does not wait for the one that holds its key.        *)
FlushImpatiently(r) ==
  /\ pc[r] = "ready"
  /\ IF ~Taken(r) /\ \A q \in Req : pc[q] = "flushed" => Key(q) # Key(r) THEN Go(r, "flushed")
     ELSE Finish(r, IF job[r].kind = "label" THEN "conflict" ELSE "raced")
  /\ UNCHANGED <<tables, job, suffix>>

(* The rows reach the database.  It makes the request wait for another     *)
(* that holds its key, and refuses rows whose key is taken; only labels    *)
(* have a handler for that.                                                *)
Flush(r) ==
  /\ pc[r] = "ready"
  /\ \A q \in Req : pc[q] = "flushed" => Key(q) # Key(r)
  /\ IF ~Taken(r) THEN Go(r, "flushed")
     ELSE Finish(r, IF job[r].kind = "label" THEN "conflict" ELSE "raced")
  /\ UNCHANGED <<tables, job, suffix>>

Stores(r, kind) ==
  /\ At(r, {kind}, "flushed")
  /\ Go(r, "stored")
  /\ UNCHANGED <<job, suffix>>

AddWorkspaceMember(r, w, u, role) ==
  workspaceMembers' = workspaceMembers \cup {[id |-> r, workspace |-> w, user |-> u, role |-> role]}

AddProjectMember(r, p, u, role) ==
  projectMembers' = projectMembers \cup {[id |-> r, project |-> p, user |-> u, role |-> role]}

Log(r, p, action) ==
  feed' = feed \cup {[id |-> r, project |-> p, actor |-> job[r].actor, action |-> action]}

CreateOrganization(r) ==
  /\ Stores(r, "organization")
  /\ organizations' =
       organizations \cup {[id |-> r, slug |-> Candidate(r), owner |-> job[r].actor]}
  /\ workspaces' = workspaces \cup {[id |-> r, organization |-> r, slug |-> General]}
  /\ AddWorkspaceMember(r, r, job[r].actor, "owner")
  /\ UNCHANGED <<projects, projectMembers, labels, feed>>

CreateWorkspace(r) ==
  /\ Stores(r, "workspace")
  /\ workspaces' = workspaces \cup
       {[id |-> r, organization |-> job[r].scope, slug |-> Slugify(r, job[r].name)]}
  /\ AddWorkspaceMember(r, r, job[r].actor, "owner")
  /\ UNCHANGED <<organizations, projects, projectMembers, labels, feed>>

CreateProject(r) ==
  /\ Stores(r, "project")
  /\ projects' = projects \cup
       {[id |-> r, workspace |-> job[r].scope, slug |-> Slugify(r, job[r].name)]}
  /\ AddProjectMember(r, r, job[r].actor, "owner")
  /\ Log(r, r, "project_created")
  /\ UNCHANGED <<organizations, workspaces, workspaceMembers, labels>>

CreateLabel(r) ==
  /\ Stores(r, "label")
  /\ labels' = labels \cup {[id |-> r, project |-> job[r].scope, name |-> job[r].name]}
  /\ Log(r, job[r].scope, "label_created")
  /\ UNCHANGED <<organizations, workspaces, workspaceMembers, projects, projectMembers>>

InviteToWorkspace(r) ==
  /\ Stores(r, "workspace member")
  /\ AddWorkspaceMember(r, job[r].scope, job[r].who, job[r].role)
  /\ UNCHANGED <<organizations, workspaces, projects, projectMembers, labels, feed>>

(* Mutant: The invitation is stored without its entry.                    *)
InviteSilently(r) ==
  /\ Stores(r, "project member")
  /\ AddProjectMember(r, job[r].scope, job[r].who, job[r].role)
  /\ UNCHANGED <<organizations, workspaces, workspaceMembers, projects, labels, feed>>

InviteToProject(r) ==
  /\ Stores(r, "project member")
  /\ AddProjectMember(r, job[r].scope, job[r].who, job[r].role)
  /\ Log(r, job[r].scope, "member_invited")
  /\ UNCHANGED <<organizations, workspaces, workspaceMembers, projects, labels>>

Commit(r) ==
  \/ CreateOrganization(r) \/ CreateWorkspace(r) \/ CreateProject(r)
  \/ CreateLabel(r) \/ InviteToWorkspace(r) \/ InviteToProject(r)

Respond(r) ==
  /\ pc[r] = "stored"
  /\ Finish(r, "created")
  /\ UNCHANGED <<tables, job, suffix>>

(* The session or the server is lost under a request.  After the commit    *)
(* this loses the answer only, and the notification of an invitation.      *)
Fail(r) ==
  /\ "database" \in Faults
  /\ pc[r] \in {"checked", "ready", "flushed", "stored"}
  /\ Finish(r, "failed")
  /\ UNCHANGED <<tables, job, suffix>>

Arrive(r) ==
  \/ PostOrganization(r) \/ PostWorkspace(r) \/ PostProject(r)
  \/ PostLabel(r) \/ PostWorkspaceMember(r) \/ PostProjectMember(r)

Serve(r) == ProbeSlug(r) \/ FindParent(r) \/ LookUpInvitee(r) \/ Flush(r) \/ Commit(r) \/ Respond(r)

(* Every request has been answered; the server waits for the next.         *)
Quiet == (\A r \in Req : pc[r] = "done") /\ UNCHANGED vars

Next == Quiet \/ \E r \in Req : Arrive(r) \/ Serve(r) \/ Fail(r)

Spec == Init /\ [][Next]_vars

(***************************************************************************)
(* Properties                                                              *)
(***************************************************************************)

(* However requests interleave and wherever they fail, the rows are the    *)
(* atomic Directory: what a request looked up before an await (its user's  *)
(* role, the row it adds to, a free slug, an invitee who is no member) it  *)
(* still finds when it commits.                                            *)
Rows == INSTANCE Directory
ImplementsDirectory == Rows!Spec

(* However requests race, no two rows share what must be unique: slugs in  *)
(* an organization or a workspace, a user's membership, a label's name.    *)
UniqueKeys ==
  /\ \A a, b \in organizations : a.slug = b.slug => a = b
  /\ \A a, b \in workspaces : a.organization = b.organization /\ a.slug = b.slug => a = b
  /\ \A a, b \in projects : a.workspace = b.workspace /\ a.slug = b.slug => a = b
  /\ \A a, b \in labels : a.project = b.project /\ a.name = b.name => a = b
  /\ \A a, b \in workspaceMembers : a.workspace = b.workspace /\ a.user = b.user => a = b
  /\ \A a, b \in projectMembers : a.project = b.project /\ a.user = b.user => a = b

(* Whoever created a workspace or a project owns it and finds it by the    *)
(* lists: the organization, the workspace in it, the project in that.  And *)
(* every organization has the General workspace with its owner in it.      *)
CreatorsFindTheirWork ==
  /\ \A o \in organizations : \E w \in WorkspacesOf(o.owner, o.id) :
       w.slug = General /\ HasWorkspaceRole(o.owner, w.id, "owner")
  /\ \A w \in workspaces : LET u == job[w.id].actor IN
       /\ HasWorkspaceRole(u, w.id, "owner")
       /\ \E o \in OrganizationsOf(u) : w \in WorkspacesOf(u, o.id)
  /\ \A p \in projects : LET u == job[p.id].actor IN
       /\ HasProjectRole(u, p.id, "owner")
       /\ \E o \in OrganizationsOf(u) : \E w \in WorkspacesOf(u, o.id) : p \in ListProjects(u, w.id)

Ids(rows) == {row.id : row \in rows}
StoredIds == Ids(organizations) \cup Ids(workspaces) \cup Ids(workspaceMembers)
               \cup Ids(projects) \cup Ids(projectMembers) \cup Ids(labels)

(* What a request created, as the lists show it to its user.               *)
Shown(r) ==
  LET j == job[r] IN
  CASE j.kind = "organization" -> \E o \in OrganizationsOf(j.actor) : o.id = r
    [] j.kind = "workspace" -> \E w \in WorkspacesOf(j.actor, j.scope) : w.id = r
    [] j.kind = "project" ->
         \E p \in ListProjects(j.actor, j.scope) : p.id = r /\ p \in GetProject(j.actor, r)
    [] j.kind = "label" -> \E l \in ListLabels(j.actor, j.scope) : l.id = r
    [] j.kind = "workspace member" ->
         \E m \in ListWorkspaceMembers(j.actor, j.scope) : m.id = r /\ m.user = j.who
    [] OTHER -> \E m \in ListProjectMembers(j.actor, j.scope) : m.id = r /\ m.user = j.who

(* An answer says what became of the request, now and later: 201 that its  *)
(* user is shown what it created, 400 that the invitee has no account or   *)
(* is a member, 409 or an integrity error that a row holds the key; a      *)
(* request that is refused leaves nothing behind.                          *)
AnswersTrue == \A r \in Req :
  /\ answer[r] = "created" => Shown(r)
  /\ answer[r] \in {"refused", "forbidden", "missing", "conflict", "raced"} => r \notin StoredIds
  /\ answer[r] = "refused" => job[r].who = Stranger \/ AlreadyMember(job[r])
  /\ answer[r] \in {"conflict", "raced"} => Taken(r)

(* The log of a project has one entry for each of its changes that was     *)
(* stored and none for another, by somebody who had the role for it.       *)
LogTrue ==
  /\ Ids(feed) = Ids(projects) \cup Ids(projectMembers) \cup Ids(labels)
  /\ \A e \in feed :
       /\ HasProjectRole(e.actor, e.project, "admin") /\ e \in ListActivity(e.actor, e.project)
       /\ CASE e.action = "project_created" -> \E p \in projects : p.id = e.id /\ e.project = p.id
            [] e.action = "label_created"   -> \E l \in LabelsOf(e.project) : l.id = e.id
            [] OTHER -> \E m \in ProjectMembersOf(e.project) : m.id = e.id
  /\ \A p \in projects : \A e \in FeedOf(p.id) : e.actor = job[e.id].actor
=============================================================================
