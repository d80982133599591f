# CollabFlow: a TLA+ model of its concurrent core

CollabFlow is a project board: a FastAPI backend (`src/backend`), several
processes of it at once, over Postgres, Redis and an object store, with a Celery
worker beside it, and a React client (`src/frontend`) that caches what it reads
and listens on WebSockets. Almost every line of it is ordinary; what is hard is
what happens between the lines, at the `await`s, where another request, another
process or another tab runs. This directory models those parts in TLA+, checks
them with TLC and proves what the runs check with TLAPS.

## The system and its parts

| Part | State it keeps | Operations | Talks to | What makes it correct |
|---|---|---|---|---|
| Presence (`ws/presence.py`, `api/routers/ws.py`) | Redis hash user → open connections | join, leave, list | the room's channel | nobody is counted without a connection; the last to leave takes the user out |
| Project room (`ws/connection_manager.py`, `ws/redis_listener.py`, `ws/events.py`) | sockets per process, a subscription per process | connect, disconnect, publish, relay | presence, every page | each socket gets a gapless run of the channel; one dead socket harms no other |
| Tasks and board (`services/task_service.py`, `crud/task.py`, `ProjectPage.tsx`, `KanbanBoard.tsx`, `TaskDetailPanel.tsx`) | task rows; each page's cached list | create, update, delete; drag with rollback, refetch | the room, attachments, notifications | the table is atomic; every page ends up showing it |
| Attachments (`services/attachment_service.py`, `core/storage.py`, `delete_task`) | rows in Postgres, objects in the bucket | upload, remove, delete with the task | the room, tasks | which rows may lack an object, which objects may lack a row |
| Notifications (`services/notification_service.py`, `ws/notification_manager.py`, `NotificationsPanel.tsx`) | rows with `read_at`, sockets per user, the badge | create and dispatch, mark read, mark all read | Redis, Celery | created only for what is durable, for members, and for all of them; the badge agrees with the rows or the reason is known |
| Comments and mentions (`services/comment_service.py`) | comment rows | create | room, notifications | announced once committed; members only are notified |
| Activity feed (`crud/activity.py`) | append-only rows | log, list | every service | an entry exactly for each committed change, by somebody who had the role |
| Accounts and password reset (`services/auth_service.py`, `core/security.py`) | user row, password hash | register, log in, refresh, reset | mail | an address has one account; a reset link dies with the password it was mailed for |
| Client session (`api/client.ts`, `tokenStore.ts`, `AuthContext.tsx`) | tokens in localStorage, one refresh promise, the user | request, coalesced refresh, log in, log out | accounts | one refresh at a time, shared; the stored pair is one session's; a good session ends for a reason |
| Reconnecting socket (`ws/useWebSocket.ts`) | socket, timer, attempt, status | connect, close, back off | room, notifications | one socket per hook; the status it shows is its own |
| Membership and roles (`core/deps.py`, organization, workspace and project services) | memberships with roles | create, invite, check | accounts, notifications | creators own and find what they created; one membership per user; answers that are true |
| Labels (`services/label_service.py`) | names per project | create, list | membership, activity | one label of a name, and a refusal that is true |
| Workers (`workers/`) | a daily job, queued mails | remind, send | notifications | a reminder once per task, and for every task due |
| Schemas, configuration, presentation | none | — | — | — |

The parts meet in three ways. They *share rows*: each request has a session of
its own, transactions are READ COMMITTED, nothing is locked but by Postgres
itself. They *publish*: after the commit, a JSON event on the project's Redis
channel, relayed by every process to its sockets. And pages *read again*: an
event carries no state that the client uses (presence excepted), it only makes
react-query fetch once more.

The behaviours that are hard: two handlers interleaving at any await; a check
made on a value read before an await; an event published after the commit, and
therefore possibly never; two stores without a common transaction; a process
that dies and comes back with an empty connection manager but the same Redis
hash; answers and events that overtake one another on the client; optimistic
state that must be taken back. `PROJECT.json` lists them under `hazards`, each
at its line, with the properties that watch it, or the reason none does yet.

## Modules

    Presence ──EXTENDS── ProjectRoom          MCPresence, MCProjectRoom
        └── PresenceProofs ──EXTENDS── ProjectRoomProofs
    Attachments ── AttachmentsProofs          MCAttachments
    Board ──INSTANCE── TaskTable              MCBoard
        └── BoardProofs
    Membership ──INSTANCE── Directory         MCMembership
        └── MembershipProofs
    Accounts ── AccountsProofs                MCAccounts
    Notifications ── NotificationsProofs      MCNotifications
    Session ── SessionProofs                  MCSession

The `MC*` modules name the model values and give the functions among the
constants their values; the `.cfg` files are the runs. Each module also holds
wrong versions of some of its actions, under a heading "changed forms" or
"plausible mistakes", or beside the action they resemble with a comment that
begins "Mutant:". They confirm that each property notices one; nothing else
refers to them. A theorem is about the module as it is run: the proofs' modules
extend it and change nothing; `ProjectRoomProofs` extends `PresenceProofs` as
`ProjectRoom` does `Presence`.

The modules meet in what they leave to each other. `Board` takes for granted that
a request may use the project, `Membership` says who may; `Notifications` starts
where an invitation of `Membership`, an update of `Board` or a comment has
committed; `Session` holds what `Accounts` hands out; the events of `Board` and
`Notifications` go through the relay that `ProjectRoom` models await by await,
and are lost there for the reasons `ProjectRoom` has.

### Presence

One `Conn` is one run of the handler `project_websocket`; a tab that reconnects
is another `Conn`. `pc[c]` is the await it has reached:

| Action | Code |
|---|---|
| `Accept`, `Join`, `ListOnline`, `SendSnapshot`, `Announce` | `ws.py` 26–52: accept and register, `HINCRBY +1`, `HKEYS`, send the snapshot, publish *joined* when the count was 1 |
| `Disconnect` | the `finally` block, up to its first await |
| `Decrement`, `Delete` | `presence.leave`: `HINCRBY -1`, and `HDEL` when the answer is ≤ 0, as two commands |
| `Farewell` | publish *left* when the count was ≤ 0 |
| `ClientLeaves` | the client goes away, at any moment |
| `SendFails`, `RedisFails`, `Crash` | an exception where the code does not catch it; the process dies |

`fields` and `refs` are the hash: a missing field reads as 0 to `HINCRBY`.
`count` and `snapshot` are the handler's local variables, cleared once dead so
that states that differ only in them are one state. `RedisFails` raises before
the command takes effect.

### ProjectRoom

Adds what the processes and pages do: `registered` (the `ConnectionManager`s),
`listening`, `cursor` and `sending` (the listener task of each process, in its
loop of sends), `view` (`onlineUserIds` of a page) and `rest` (the page's last
answer of `GET /presence`). `Online` is the list it shows, which is `rest`
whenever `onlineUserIds` is empty, before the snapshot and after it alike.
`GetPresence` reads the hash and is answered in one step: an answer that is under
way leaves the page with the one it had. Redis pub/sub delivers in order
to a subscriber that is connected, so the channel is one log with a cursor per
process; a process that restarts begins at its end. `RoomImplementsPresence`
states that this module refines `Presence`.

### Attachments

Each request is a program counter through `upload_attachment`,
`delete_attachment` or `delete_task`. What a request has flushed but not
committed is in no variable but its own; the locks a flush takes are
(`ShareFree`, `ExcludeFree`, `RowFree`): a row inserted with a foreign key shares
the lock of the row it refers to, a delete excludes it. `Subtree` is the cascade
to subtasks. `StorageRaises`, `PurgeRaises` and `Abort` fail a request at each
place it can fail; a `put_object` that raises has stored nothing. The checks on
a file's size and type, and the presigned links, change no state and are left
out. Two flushes of one transaction that meet no lock of each other's are one
step: the activity entry and the row in `FlushRemove`; and `FlushDelete` takes the
locks of a subtree together, where the code's cascade takes them one after
another.

### Board and TaskTable

The table, the requests that change it and, for each page, one entry of
react-query's cache: `shown` (its data), `fetch` and `answer` (its read in
flight).

| Action | Code |
|---|---|
| `Drag` | `statusMutation.onMutate`: `cancelQueries`, keep `previous`, write the new status into the cache |
| `Edit`, `Remove`, `Create` | the panel's and the form's mutations, not optimistic |
| `Load`, `Flush`, `Commit`, `Refresh`, `Publish` | the dependency that loads the task, then `create_task`, `update_task` or `delete_task` at its awaits |
| `Succeed`, `RollBack`, `GiveUp` | `onSuccess`, `onError` and `onSettled` |
| `Read`, `Show` | `list_by_project`, and its answer |
| `Deliver` | `task_created`, `task_updated`, `task_deleted` |
| `Connect`, `Disconnect` | `useWebSocket`: nothing is read again when the socket opens |
| `Refocus` | `refetchOnWindowFocus`, react-query's default |

`Invalidate` follows `invalidateQueries` of react-query 5: a read in flight is
cancelled and started afresh, *unless the query has no data yet*; then the read
goes on and its answer counts as fresh, although it may be older than the
event. `missed[p]` is a history variable: an event of a committed change was
lost to `p` (published while its socket was closed, dropped with the socket,
swallowed by a first read, or never published), and `p` has not read since.
Nothing in the system looks at it; the properties say what holds without such a
loss, and `ProjectRoom` models when the channel loses one.

`TaskTable` is the abstract object: each task unborn, in a column, or dead,
moved by atomic steps. `Life` in `Board` is the refinement mapping.

Abstractions: a task is its status (title, priority, assignee, due date and
position travel with it through the same transactions); a page has one set of
filters; a project is small enough for one page of results; a request is sent
once.

### Membership

Every endpoint that adds an organization, a workspace, a project, a member or a
label, with the activity entry that goes into the same transaction. There is no
endpoint that removes or changes any of them, and no action does.

| Action | Code |
|---|---|
| `PostOrganization`, `PostWorkspace`, `PostProject`, `PostLabel`, `PostWorkspaceMember`, `PostProjectMember` | the routers, with the role each asks for (`core/deps.py`, `core/roles.py`). Adding a workspace asks for none |
| `ProbeSlug` | one turn of the loop in `create_organization`: the slug, then the slug with 2, 3, ... |
| `FindParent` | `create_workspace` and `create_project` load what they add to, or answer 404 |
| `LookUpInvitee` | the address has an account, and the account no membership yet |
| `Flush` | the insert: it waits for another request that has flushed the same unique key, and is refused if the key is then taken; labels answer 409, the others have no handler and answer 500 (`raced`) |
| `CreateOrganization`, `CreateWorkspace`, `CreateProject`, `CreateLabel`, `InviteToWorkspace`, `InviteToProject` | the commit of all a request flushed, the activity entry with it |
| `Respond`, `Fail` | the answer; the database or the server is lost under the request |

An id is the request that created the row: both are fresh and never change. A
name is a sequence of words, what `slugify` makes of it; the empty one stands
for a name without a letter or a digit, whose slug is random. The reading
endpoints are the operators `OrganizationsOf` to `ListActivity`, and the
properties speak of rows as those lists show them to a user.

`Directory` is the abstract object: each request adds its rows in one step or
never, and its user's role, the row it adds to, the invitee and the unique key
are looked at in that step. In `Membership` these looks are up to four steps
apart, with any other request between; `ImplementsDirectory` says that nobody
can tell. The refinement is the identity on the tables and on `job`.

### Accounts

Registration, login, refresh, the mailed link and the reset. An account is the
request that registered it. A hash is its password and the request that salted
it; a reset token carries the fingerprint of the hash, here the hash itself.

| Action | Code |
|---|---|
| `RegisterLooks`, `Flush`, `CommitRegister` | `register_user`: look up the address, insert, commit. The unique index makes the second of two inserts wait and then fail, which has no handler |
| `Login`, `Refresh` | `authenticate`, `refresh_access_token` |
| `ForgotPassword` | mails a link if the address has an account; answers the same if not |
| `ResetLooks`, `Flush`, `CommitReset` | `reset_password`: decode, load the account, compare the fingerprint; write the hash; commit. A second update of the row waits for the first and is then done all the same |
| `Respond`, `Fail`, `Expire` | the answer; a lost database; a token past its time |

A request comes with any token that was ever given out, whatever its type, or
with none that is any good. `before[r]` is a history variable: the requests that
were stored when `r` looked.

### Notifications

| Action | Code |
|---|---|
| `CreateComment`, `InviteMember`, `CreateTask` | `create_comment`, the two invitations, `create_task`, each up to its commit |
| `LoadTask`, `UpdateTask`, `Refresh` | `update_task`: the task as `require_task_project_role` loads it; what differs from that is written and committed; the task is read again, and its assignee of then is told if this request changed the assignee |
| `SendDueSoonReminders`, `ListDueSoon` | a worker takes a message of the beat, on the day it was queued or any later one, and computes tomorrow from that day; it reads the assigned tasks due then that are not done |
| `NextDay` | a day passes |
| `PublishEvent` | the room's event, after the commit |
| `NotifyMentions` | the next mentioned address: is it of a member, and not the author? |
| `Create`, `PublishNotification`, `QueueMail` | `notification_service.notify`: the row and its commit, the Redis message, the mail's task |
| `Fail` | an exception or the end of the process between any two of these: the rest is not done |
| `SendToUser`, `LoseEvent`, `Connect`, `Disconnect` | `notification_manager` hands an event to the sockets open then; it is lost with the listener or the socket |
| `HandleEvent`, `Marked`, `Refocus` | `invalidateQueries`, and the focus |
| `GetUnread`, `Show` | the panel's two queries, asked together and taken as one; their answer |
| `MarkRead`, `SelectUnread`, `CommitRead`, `MarkFails` | the click on a row; *mark all read*, which selects and then writes; its failure |

`list[j]` is whom a job tells of what, and `next[j]` the one it is at. For
comments, invitations and new tasks it is fixed by the request and its commit; for
an update by what it reads afterwards, so that of two overlapping assignments the
first may tell the second's assignee; for a run of the reminder by its query.
`saw[j]` is what a job decides by: the task as an update loaded it, or the date a
run looks for. Assignee, due date and status of a task change while jobs run; a
message of the reminder waits as long as the worker is down, so that two may run on
one date. Tasks are not deleted here (`Board` has that). `missed` is a history variable as in `Board`: news that did not make a
tab read again, because it was never published, came while the socket was
closed, or was swallowed by the first read of the badge, which react-query does
not start afresh.

### Session

The two stored tokens (`access`, `refresh`), which the tabs of a browser share,
and per tab the page, the user it shows, `refreshPromise` and its requests. A
request is data, `restoreSession`'s or `login`'s `/me`, or the login itself; a
refresh call is kept under the request that started it, and a waiting request
names the one it awaits.

| Action | Code |
|---|---|
| `Load`, `Leave` | a page load: `AuthProvider`'s effect and `restoreSession`; the user reloads, or `location.assign` has been called |
| `Fetch`, `SubmitLogin`, `Logout` | a request behind `ProtectedRoute`; the login form; `logout` |
| `Serve`, `ServeRefresh` | `get_current_user`, `authenticate`, `refresh_access_token` |
| `ExpireAccess`, `ExpireRefresh` | tokens reach their `exp` |
| `DataArrives`, `UserArrives`, `LoggedIn` | an answer 2xx and what the caller does with it |
| `AwaitRefresh` | the response interceptor on a first 401: joins the promise or starts the call |
| `Rejected` | any other failure; `restoreSession`'s `catch` clears the tokens |
| `RefreshGranted`, `RefreshRefused` | the call settles: `setAccess`, or `clear` and `location.assign`; the promise is reset and all that awaited it go on, in one task of the browser |

A token is its account and whether it has expired; the tokens of one type and
account held at one moment expire together. A login answered 401 for a wrong
password passes through the same interceptor and refreshes a stored session,
as in the code. The interceptor shares a refresh only while it is in flight: a
401 that arrives later starts another, which the comment at `client.ts` 24–27
does not say; the model has it, and no property forbids it.

## Runs

| Run | Shows |
|---|---|
| `presence` | Two tabs of one user on two processes beside another user, all failures: counts never exceed connections, no ghost, no *joined* that stands for ever, and the last to leave empties the hash |
| `presence_offline_early` (violation) | `presence.py` 14–16 says a user is offline only once every tab has closed. A join between the `HINCRBY -1` and the `HDEL` of another tab loses its count |
| `room_tabs` | Three connections over two processes: when nothing is in flight, `onlineUserIds` of a page agrees with the hash about every user with a single tab, unless an event came before its snapshot or the user's handler died; the list shown does too if the page's own user is such a one; and a page's own join never precedes its snapshot |
| `room_faults` | Two connections on one process with every failure: each socket is sent a gapless run of the channel, nobody is left behind by a dead socket, every event is relayed while the listener lives, and the room refines `Presence` |
| `attachments` | Three requests on a task, its subtask and a key, both stores failing: exactly which inconsistencies between row and object can be left, and by whom; what is announced as removed or deleted is so for good; every request ends |
| `attachments_cleanup` (violation) | `PROGRESS.md` 383 and `models/attachment.py` 15 say deleting a task cleans up its files. Those of its subtasks stay |
| `board_pages` | Two pages, two concurrent requests: a card that differs from the table always has a correction on its way |
| `board_faults` | One page, two requests, all failures: the endpoints refine the atomic table, and a page that lost no event converges to it |
| `membership` | An organization, a request in it or beside it, and two that race for one key: the tables are the atomic `Directory` (no key is taken twice, nobody adds without the role), creators own and find what they created, every answer is true now and later, and the log has exactly what was stored |
| `accounts` | Two registrations or a login, links, a refresh and up to three resets with any token: one account to an address, its password from its owner, and links that die with the password |
| `notifications` | Two or three jobs that meet in one recipient with a tab or in one task, every failure: rows have causes, nobody is passed over and who has a task was told; who is reminded twice is so because a run was late or a date moved; the badge is right or the reason is known; and news reaches a tab that is there to hear it |
| `session` | Two accounts and two requests at a time in one tab: one refresh in flight, shared by all that wait; the stored pair stays one session's except through a refresh that answers too late; a good session is dropped only for the causes listed; every request settles |

Six more definitions state what the repository says of itself and the code does
not do; they stand in the modules with the behaviour that breaks them, and TLC
finds each violated when it is put into a run: `KeptLive` in `ProjectRoom`
(`ProjectPage.tsx` 192-194 says the list is live from the moment of connection;
an event relayed before the snapshot is overwritten by the older snapshot),
`TakesOver` there (the same lines say that the answer of `GET /presence` is just
what fills the gap before the snapshot; a user whom the departure of another of
his tabs took off the hash is not in the list of his own page, and when the last
other user leaves, that list is empty and the page shows the old answer, with
whoever was in it), `RelayedForLife` there (`redis_listener.py` 20 says the listener runs for the
lifetime of the app; one Redis error ends it) and `NoRecordWithoutFile` in
`Attachments` (`attachment_service.py` 50-51 names rows without files as what to
avoid; a task deletion that fails after its purge leaves them) and `RemindedOnce`
in `Notifications` (`crud/task.py` 121-123, `PROGRESS.md` 319 and
`docs/PHASE-5.md` 112 count on a task's date matching exactly one run; a message
that waited for the worker runs on the same date as the next, and an update may
move the date to that of a later run). `ViewsAgree`, `EventuallyRelayed`,
`DanglingOnlyByTaskDeletion` and `RemindedAgainForCause` are what does hold.

### Bounds, and why they are enough

- `presence`: what can go wrong needs the two halves of one `leave` and one other
  tab of the same user; the third connection is a user who sees it. Each `Conn`
  is used once, so the run is finite without further bounds.
- `room_tabs`: `ObserverStays` keeps one client connected while the others come
  and go; without an observer there is no list to be wrong. The answer of
  `GET /presence` is bounded to the two cases that the list shown depends on: an
  observer whose user another tab has taken off the hash, and whose page is told
  of the last other user (`TakesOver` is violated there); and one whose user has
  that tab only, and whose page was told of somebody who has gone since (there it
  must not fall back). Two processes make relays overtake handlers.
- `room_faults`: one process and two connections: a loop of sends with one socket
  that dies and one that lives, a listener that fails, a restart. Events are at
  most two per connection, the bound in `EventuallyRelayed`.
- `attachments`: a row can be between two others' steps with three requests. The
  bound `KeysLeft` starts an upload only while a key is left. With one key
  `PurgeRaises` deletes nothing before it fails; the partial purge is covered by
  the proofs, which are for any keys.
- `board_pages`: staleness on a page needs a change by someone else and one of
  its own: two pages, two requests, one task that may not exist yet. Pages and
  requests are interchangeable there, and the run has invariants only, so
  symmetry is sound. `board_faults` has one page: pages affect each other only
  through the table, and its own edit whose answer is lost
  (`AnswerLost`) is to it what another page's edit is. The proofs cover
  any number of each.

- `session`: sharing a refresh needs two requests; mixing sessions needs two
  accounts and a tab in which one follows the other. A second tab acts on the
  first only through the store, as that tab's own log-in and log-out do; the
  proofs are for any number of tabs. Nothing there is counted, so the run needs
  no further bound.

- `membership`: an organization, so that there is a scope; a second request that
  opens another scope, adds a member or changes who may do what; and two
  requests of one kind by either user in either scope. A race for a key needs
  two, and no row depends on a chain longer than organization, workspace,
  project: the label or invitation of a project is the fourth. Requests may also
  name a scope that was never created or is of another kind.
- `accounts`: six requests of given kinds in any order: two registrations that
  may be of one address, two links that may be of one password, and two or three
  resets with any token there is. A link is misused by two resets; a third,
  with another link, is what a property about earlier ones needs.
- `notifications`: nine sets of jobs, of two or three, chosen so that they concern
  the user whose tab is watched or one task: an address invited while the comment
  that mentions it is being sent; two invitations; a comment and an assignment;
  two assignments of one task, and an assignment of a task that is being created;
  a creation, an assignment and a finish under the reminder's eyes; and two
  messages of the reminder with a due date moved between them. Where two jobs are
  enough the third is a message for the day after `LastDay` (`Nothing`), which
  never runs. `LastDay` = 2: the first message may wait until the second's day;
  `NextDay` is bounded by it, and by there being a message to come. One tab: tabs
  of one user meet only in the rows, and the proof is for any number, as it is for
  any jobs, tasks and days.

Deadlock is checked in `session`, `membership`, `accounts` and `notifications`,
where somebody can always act or all is answered (`Quiet`). Elsewhere
connections and requests are used up, and a run in which all have ended simply
stops.

### Fairness

`Presence` and `ProjectRoom` assume weak fairness of each handler's next step
and of each process's listener: the event loop runs every task whose await has
completed, and none of their steps waits for another's. Nothing is assumed of
clients, of faults or of a process restarting. In `Attachments`
and `Board` a request is made once and takes its locks in one flush, so weak
fairness of each request is enough: a lock somebody waits for is free for good
in the end. A page's reads, answers and incoming messages are handled by the
browser's task queue. `Session` assumes weak fairness of the server's and of the
client's steps of each request; nothing of users, of expiry or of the page that
replaces one being left. `Notifications` assumes weak fairness of each job's
dispatch, of the relay and of the browser's handling of events and reads, and
strong fairness of `Show`: each event and each click of the panel may drop the
read in flight and start another, so an answer is only repeatedly about to be
shown. What that leaves out is a user who marks a row again before every answer,
for ever; with weak fairness TLC shows that behaviour. `Membership` and `Accounts` make no claim
of liveness and assume no fairness. No fairness is given to `Refocus`, `Connect` or to any
user's action.

## Proofs

Each theorem is for every value of the constants, under the assumptions named
where they are declared (finite `Conn`; types of `Owner`, `Host` and `Subtree`;
`None` and `Absent` distinct from data). The runs evaluate those assumptions.

**PresenceProofs.** `TypeCorrect`. `CountBounded` (`NeverOvercounted`) is
inductive given the types: each step that raises a count adds a holder, each
that removes a holder lowers the count or zeroes it, with the lemmas about
cardinality in `BoundKept`. `NoGhost` is not inductive alone: the decrement
that finds 0 must know that the count it lowers was not someone else's.
`FieldsInv` is the strengthening: a field whose count is ≤ 0 has a handler about
to delete it, and a missing field reads 0. `NoStaleJoinEver` adds two lemmas about the log:
appending another user's event leaves a user's last word alone, and
appending *left* takes it back.

**ProjectRoomProofs.** `RoomStepIsPresenceStep`: each step of the room is a step
of `Presence` or changes nothing there, so the invariants of `Presence` hold in
the room (`RoomKeepsPresence`). `RoomInv` adds `Loops` (whom a loop of sends may
still name), `Departed` (whose sockets can be dead) and `InStep`: a socket in the
line of its process has been sent nothing yet, or everything up to `Pos`, the
process's cursor or one past it once the loop under way has come to this socket.
`NoneLeftBehindEver` and `ContiguousRelayEver` are about `Pos`; connecting and
disconnecting in the middle of a loop is what makes it necessary.
`OwnJoinAfterSnapshotEver` needs `Announcers`: whoever has published was greeted.
`ViewsAgreeEver` follows an event from the handler that causes it to the page:
`Solo` says what the channel holds of a user with one connection at each await of
its handler, `Pages` that a page is right about that user, or has an event of its
still to hear, or was sent one before its snapshot. A page that is right about
its own user has a list that is not empty, so the old answer of `GET /presence`
is not shown. All faults are in; the exceptions, a user whose handler died and a
page whose own user has other tabs, are in the property itself.

**AttachmentsProofs.** The invariant `IInv` is needed because the safety
properties speak of two stores while a request's knowledge is in its local
variables: `UploadOwns` (between its two writes an upload shares its key with
nobody), `RemoverKnows` and `DeleterKnows` (what a remover and a task deletion
have already done), `Locks` (who excludes whom, and that a shared task exists),
`RowsHaveTasks` (the foreign key), `RemovedInv` and `DeletedStaysDeleted`. Each
has a lemma with a step per action. `DanglingOnlyByTaskDeletionEver`,
`OrphanAccountedEver`, `RemovedMeansGoneEver` and `DeletedMeansEmptyEver`
follow.

**BoardProofs.** `TableInv` is the server's half: `Locks` (one holder of a row),
`RowHeld` (an update that has flushed holds a row that exists) and `Fresh` (a
task being created has an id of its own and no row). `DragInv` and `AnswerInv`
are the page's: a pending drag has a copy of a board and a board to put it on.
With them `StaleOnlyWithCause` is inductive; its second half, about answers on
their way, is what `Show` needs. `RestingBoardsAreRightEver` is its consequence
for a page with nothing pending: optimistic moves, rollbacks, reads and events,
in any order, have left exactly the table. `ImplementsTaskTableEver` maps each
step to a step of `TaskTable` or to none; `RowHeld` is why an update never
moves a dead task, `Fresh` why a rolled back creation is the end of its id.

**MembershipProofs.** The rows never change, so what is hard is what a request
carries from its look-up to its commit. `Standing` and `Progress` say what each
program counter rests on (a role once checked is held for good, since nobody is
removed), `KeysHeld` that no two requests have flushed one key and that a
flushed key is free, `Rooted` that every row hangs from rows of an organization
whose creator is a member all the way up, and `Delivered` where the row of an
answered request is. `UniqueKeys` and `LogInv` are inductive with them.
`ImplementsDirectoryEver` is what it all comes to: `AddStep` shows each of the six
commits to be the step of `Directory` for its request (the role and the parent
by `Standing` and `Rooted`, the free key by `KeysHeld`, the fresh id by
`Progress`), and every other step leaves the tables alone.
`AnswersTrueEver` and `CreatorsFindTheirWorkEver` then compare the stored rows
with the lists a user sees. No limit on users, requests or names: the loop of
`ProbeSlug` is proved for any number of turns.

**AccountsProofs.** `AccountsTrueEver` rests on `Rows` (an account is stored by
its registration) and `Addresses` (of two registrations of one address at most
one has flushed, and none while the address has an account). For
`LinksDieWithPasswordEver` the argument is about who made which hash: a hash names
the request that stored it (`Hashes`), a link carries the hash its account had when
it was asked for (`Links`). As long as a link still fits its account, every stored
reset of that account was stored when the link was asked for (`Fits`); a reset
that has passed its check has that of its link for good (`Inherits`), whatever
commits before it does.

**NotificationsProofs.** `Listed` (whom a job tells is decided once, each once),
`Reasons` (why a listed user may be told), `Written` and `Mailed` (what the steps
before `next` have left) give the first part of `RowsMatchCausesEver`; for the
second, `Given` says of each task that a logged job wrote its present assignee and
has told him, or will find him when it reads the task again, for whoever writes
last reads what it wrote. `RemindedAgainForCauseEver` rests on `Dates` (a task is
due on its first date, of which there is one, or on one that a logged update gave
it) and on the runs of one date having been queued on different days.
`BadgeExplainedEver` is inductive with `Badge`, which says of an answer on its way
what the property says of one on the screen.

**SessionProofs.** `OneRefreshPerTab` needs `PromiseKept`: a promise stands only
while a call of its own tab is out, so that whoever joins it is going to be
woken. `Answers` says what an answer on its way rests on: a granted refresh has a
key, a refused one's key has expired. From it `TornOnlyByLateRefreshEver` and
`LiveSessionLostWithCauseEver` follow step by step, for any number of tabs: a
refresh refused to a key that is still the stored one cannot have been good.

### Liveness

Every liveness property of the runs is a theorem as well, under two kinds of
hypotheses that stand in its statement. Neither can be proved with this version
of the prover, and neither says anything about the order in which things happen.

- *What is ready can be done*: `NoHandlerStuck`, `RoomBlocksNoHandler`,
  `NoListenerStuck`, `NoRequestStuck`, `NothingStuck`, `NoNewsStuck`,
  `NoAnswerStuck`. Each says of a step with a fairness condition in which states
  it is `ENABLED`, an operator the prover does not expand. They are state
  predicates: put under `INVARIANT` in the run of their module, TLC finds them
  true there. `RoomBlocksNoHandler` compares two `ENABLED`s: what `ProjectRoom`
  adds to a handler's step takes no step away from it.
- *Finitely many things that end, end together*: `AllTogether` (in `Presence`
  and in `Board`), `AllSomewhere`, `AllReleased`. For each `c` of a finite set,
  `<>[]P(c)`; then `<>[](\A c : P(c))`. It is a law of temporal logic, whatever
  `P` and the system are; its proof is an induction over the set with temporal
  formulas, for which the prover has no rule. What `P` is, and that `<>[]P(c)`
  holds of each `c`, is proved. The sets are finite in every instance: handlers,
  requests, pages, events on their way.

The arguments:

- `EventuallyOfflineEver`. Once a user's clients are all gone, each handler left
  of them goes from await to await and returns (`StageEndsEver`,
  `FollowsEver`); once all have, `NoGhost` leaves no field. That argument needs
  the safety theorem: progress alone would not rule out a field nobody is left
  to delete.
- `EventuallyRelayedEver`. A process's listener moves through pairs of a cursor
  and the sockets still to be sent to, which are fixed when a loop begins:
  sockets that come and go meanwhile change neither, and one that is dead is
  passed like the others. So no pair is met twice (`PlacePassed`), and finitely
  many lie before event `k`.
- `RoomImplements`. `RoomStepIsPresenceStep` for the steps; for the fairness,
  each handler step of the room is the same handler's step of `Presence`
  (`HandlerProgress`), and is ready when that is.
- `EveryRequestEndsEver`. A request that holds locks waits for none, because
  each takes all it needs in one flush; so holders end (`ReleasesEver`). From
  then on nobody waits, and each request goes through its program counters.
- `EventuallyConvergedEver`. In four stages: flushes end (`FlushesEnd`), as the
  holder of a row waits for nobody; then each request is settled
  (`RequestsEnd`); from then on the table stands still and an inbox only
  shrinks (`InboxEmpties`); and with nothing more on its way a page is right, or
  reads the table as it stays, or has missed an event for good
  (`RestConverges`). `RestCases`, that these are all the cases, is
  `StaleOnlyWithCause` again.
- `OpenTabsCatchUpEver`. A row's news is told by the job that stored it
  (`StoredStep`), is on its way (`OnWireStep`), in the tab's inbox
  (`InInboxStep`), and then in what the tab reads (`ReadingStep`); every read
  that is asked for again includes it, so it does not matter which read is the
  one that is shown (`ReadingEndsEver`, where strong fairness of `Show` is used).
- `EveryRequestSettlesEver`. A request is with the server, with the client, or
  awaits a refresh. By `OneRefreshPerTab` the refresh it awaits is out, so that
  call's answer, when it is handled, sends on everybody who awaits it
  (`WaitEndsEver`); one that was sent again awaits no other refresh.

**Only model-checked**: the hypotheses named above, and the two findings. Every
property of the passing runs is also proved.

## Not modelled

- The reconnecting socket's backoff, effect cleanup and status
  (`useWebSocket.ts`): what the others see of it, a socket that is open or not, is
  in `Board` and `Notifications`.
- Positions in a column, subtasks and labels on the board: data that follows the
  same transactions as the status. Two tasks created at once get one position,
  which nothing relies on.
- The order of a page of the activity feed, which is the order in which the
  transactions began; `Membership` has which entries there are. Entries of task
  updates and attachments go with the commits in `Board` and `Attachments`.
- How addresses are found in a comment's text, and how mails are rendered and
  sent.
- Validation of inputs, settings, logging, migrations, wiring at start, rendering:
  no state of their own.

Postgres row locks and unique indexes, react-query's cache and browsers that go
away are modelled from how the code uses them, and marked external in
`PROJECT.json`.

## What the modelling met

Besides the runs marked as violations and the six definitions above:

- A registration or an invitation that loses the race for its unique key ends in
  an unhandled integrity error, and its client sees a 500; only labels answer 409.
  The tables stay right (`ImplementsDirectory`, `UniqueKeysEver`, `AccountsTrue`).
- A reset link works once but for overlapping uses: two requests that both
  compared the fingerprint before either committed both succeed, and the later
  commit's password stands. `LinksDieWithPassword` states exactly this.
- The first read of the badge is not started afresh by an event; the panel may
  lack a row until its next read.
- *Mark all read* leaves a row unread that was committed between its select and
  its update; the panel asks again afterwards and shows it.
- A reminder that fails halfway, or a day on which it does not run, is not made up
  for: a message that waits for the worker looks for the tasks due the day after it
  is taken, so those of the day it missed are never reminded of, and those of the
  day it runs on are reminded of twice if that day's own message runs too.
- Of two overlapping assignments of one task, the first to commit may read the
  other's assignee when it reads the task again: the second's assignee is then told
  twice, and its own not at all. That is as it should be for who has the task in
  the end (`RowsMatchCauses` says he was told), but not for a title that says "You
  were assigned" to somebody who is told again. An assignment to whom the task was
  loaded with is silently nothing, whatever was committed meanwhile.

## Plan

What is left, in order:

1. The socket hook (`useWebSocket.ts`): one live socket per hook at most, a
   status that is its own and not that of the socket its cleanup closed, and a
   connection that comes back once the server does. Composed with `ProjectRoom`
   it would replace the `Conn` that is used once by a tab that returns.
2. Positions on the board, subtasks and labels of a task, as rows that race.
3. The order of the activity feed's pages, and what an entry between two of them
   does to a reader.
