------------------------------ MODULE Directory ------------------------------
(***************************************************************************)
(* What the endpoints promise about organizations, workspaces, projects,   *)
(* their members and labels: a request takes effect in one step or not at  *)
(* all, as if its user's role, the row it adds to and the unique key were  *)
(* looked at in that very moment.  No row is ever changed or removed.      *)
(***************************************************************************)
EXTENDS Naturals

CONSTANTS User, Req, General, Slugify(_, _)

VARIABLES
  organizations, workspaces, workspaceMembers, projects, projectMembers, labels, feed,
  job        \* what each request asks for, once and for all

vars == <<organizations, workspaces, workspaceMembers, projects, projectMembers, labels, feed, job>>

Init ==
  /\ organizations = {} /\ workspaces = {} /\ workspaceMembers = {}
  /\ projects = {} /\ projectMembers = {} /\ labels = {} /\ feed = {}

Rank == [member |-> 0, admin |-> 1, owner |-> 2]

InWorkspace(u, w, least) ==
  \E m \in workspaceMembers : m.workspace = w /\ m.user = u /\ Rank[m.role] >= Rank[least]
InProject(u, p, least) ==
  \E m \in projectMembers : m.project = p /\ m.user = u /\ Rank[m.role] >= Rank[least]

(* Nothing has been added for r yet.                                       *)
Fresh(r) ==
  /\ \A row \in organizations : row.id # r
  /\ \A row \in workspaces : row.id # r
  /\ \A row \in workspaceMembers : row.id # r
  /\ \A row \in projects : row.id # r
  /\ \A row \in projectMembers : row.id # r
  /\ \A row \in labels : row.id # r

JoinsWorkspace(r, w, u, role) ==
  workspaceMembers' = workspaceMembers \cup {[id |-> r, workspace |-> w, user |-> u, role |-> role]}
JoinsProject(r, p, u, role) ==
  projectMembers' = projectMembers \cup {[id |-> r, project |-> p, user |-> u, role |-> role]}
Logged(r, p, action) ==
  feed' = feed \cup {[id |-> r, project |-> p, actor |-> job[r].actor, action |-> action]}

(* Under some slug that no other organization has, with a first workspace. *)
AddOrganization(r) ==
  /\ \E o \in organizations' \ organizations :
       /\ organizations' = organizations \cup {o}
       /\ o.id = r /\ o.owner = job[r].actor
       /\ \A x \in organizations : x.slug # o.slug
  /\ workspaces' = workspaces \cup {[id |-> r, organization |-> r, slug |-> General]}
  /\ JoinsWorkspace(r, r, job[r].actor, "owner")
  /\ UNCHANGED <<projects, projectMembers, labels, feed>>

AddWorkspace(r) ==
  LET slug == Slugify(r, job[r].name) IN
  /\ \E o \in organizations : o.id = job[r].scope
  /\ ~ \E w \in workspaces : w.organization = job[r].scope /\ w.slug = slug
  /\ workspaces' = workspaces \cup {[id |-> r, organization |-> job[r].scope, slug |-> slug]}
  /\ JoinsWorkspace(r, r, job[r].actor, "owner")
  /\ UNCHANGED <<organizations, projects, projectMembers, labels, feed>>

AddProject(r) ==
  LET slug == Slugify(r, job[r].name) IN
  /\ InWorkspace(job[r].actor, job[r].scope, "member")
  /\ \E w \in workspaces : w.id = job[r].scope
  /\ ~ \E p \in projects : p.workspace = job[r].scope /\ p.slug = slug
  /\ projects' = projects \cup {[id |-> r, workspace |-> job[r].scope, slug |-> slug]}
  /\ JoinsProject(r, r, job[r].actor, "owner")
  /\ Logged(r, r, "project_created")
  /\ UNCHANGED <<organizations, workspaces, workspaceMembers, labels>>

AddLabel(r) ==
  /\ InProject(job[r].actor, job[r].scope, "admin")
  /\ \E p \in projects : p.id = job[r].scope
  /\ ~ \E l \in labels : l.project = job[r].scope /\ l.name = job[r].name
  /\ labels' = labels \cup {[id |-> r, project |-> job[r].scope, name |-> job[r].name]}
  /\ Logged(r, job[r].scope, "label_created")
  /\ UNCHANGED <<organizations, workspaces, workspaceMembers, projects, projectMembers>>

AddWorkspaceMember(r) ==
  /\ InWorkspace(job[r].actor, job[r].scope, "admin")
  /\ \E w \in workspaces : w.id = job[r].scope
  /\ job[r].who \in User /\ ~InWorkspace(job[r].who, job[r].scope, "member")
  /\ JoinsWorkspace(r, job[r].scope, job[r].who, job[r].role)
  /\ UNCHANGED <<organizations, workspaces, projects, projectMembers, labels, feed>>

AddProjectMember(r) ==
  /\ InProject(job[r].actor, job[r].scope, "admin")
  /\ \E p \in projects : p.id = job[r].scope
  /\ job[r].who \in User /\ ~InProject(job[r].who, job[r].scope, "member")
  /\ JoinsProject(r, job[r].scope, job[r].who, job[r].role)
  /\ Logged(r, job[r].scope, "member_invited")
  /\ UNCHANGED <<organizations, workspaces, workspaceMembers, projects, labels>>

(* What r adds, by the kind of its request.                                *)
Add(r) ==
  CASE job[r].kind = "organization"     -> AddOrganization(r)
    [] job[r].kind = "workspace"        -> AddWorkspace(r)
    [] job[r].kind = "project"          -> AddProject(r)
    [] job[r].kind = "label"            -> AddLabel(r)
    [] job[r].kind = "workspace member" -> AddWorkspaceMember(r)
    [] job[r].kind = "project member"   -> AddProjectMember(r)

Next == \E r \in Req : Fresh(r) /\ Add(r) /\ UNCHANGED job

Spec == Init /\ [][Next]_vars
=============================================================================
