# Verification of Band for WezTerm

Band for WezTerm puts Band chat rooms and managed coding agents in terminal
panes. Each pane is a process of its own; what they share is the user's
keyring, files in the user's state directory, one supervisor process that owns
the managed workers, and the Band platform. This directory holds TLA+ models of
the parts of that system whose steps interleave, the TLC runs that check them
on small instances, and proofs, checked by TLAPS, of what matters most for every
instance. `PROJECT.json` lists, for every definition, the source lines it
stands for; line numbers below are those of `src/src/band_wezterm/`.

Check a run with `tlc -config <run>.cfg <MC module>`, a proof with
`tlapm <module>Proofs.tla`.

## Inventory

| Part | Source | State it keeps | Operations | What is hard | What makes it correct | Modules |
|---|---|---|---|---|---|---|
| supervisor server | `supervisor/runtime.py`, `protocol.py` | worker records in memory and in a file, the lifecycle lock | LIST, START, STOP, STOP_ALL, SHUTDOWN; probe, reconcile, save, restart | crashes between spawn, record and save; failing saves; pids reused; hung workers; retries under a lock | no answered worker is lost, STOP_ALL reaches everyone, the lock is released | Supervisor |
| managed worker | `agent/runner.py` | worker state, its endpoint, the stop event | start, mark_running, STATUS, STOP, fail | STOP before or during the boot | a worker that was told to stop exits | Supervisor |
| supervisor client | `supervisor/client.py`, `lifecycle.py`, `ipc.py` | a lock file, the endpoint | connect (adopt or start), requests | several panes start a supervisor at once; deadlines shorter than a boot | at most one supervisor serves | SupervisorConnect |
| host authentication | `auth/host_auth.py`, `credentials.py` | token generation, shared refresh, keyring entry | get_access_token, sign_in, cancel_sign_in, sign_out | refreshes, sign-ins and sign-outs overlap, in and between processes | an ended session never returns to the keyring, accepted tokens are kept, one refresh per token | HostAuth, UserSession |
| platform client | `client.py` | HTTP client, realtime socket, room subscriptions | REST calls, subscribe, unsubscribe, reconnect | socket lost between awaits, tokens that change while a request is under way | every subscribed room is attached to the current socket once | Realtime, ControlSession, Registration, RoomsCatalog |
| control application | `tui/control_app.py`, `screens/sign_in.py`, `screens/warmup.py` | the surface, the ready flag, warm-up and poll workers | sign-in, warm-up, enter, sign-out, authentication rejected, reconcile | answers that arrive after the surface changed | nothing is shown or polled while signed out | ControlSession, AgentActions |
| managed agent actions | `tui/managed_agent_actions.py` | run state and pending actions per agent | start, stop, delete | preflight awaits between check and use; a stop during a start | a stop belongs to its start; a deleted agent has no worker | AgentActions |
| rooms | `tui/screens/rooms.py`, `tui/stores.py` | list with cursor, search, selection | load, more, search, delete, create | pages, searches and deletions out of order | a deleted room leaves, a search finds every page, paging is not blocked | RoomsCatalog |
| room screen | `tui/screens/rooms.py`, `tui/stores.py` | messages, roster, rows, filter | load, older, send, add and remove participants, events | pages, events and mutations out of order; screens that follow one another | no message or participant of the room is lost or shown twice | RoomTimeline, RoomRoster, ChatView |
| agents screen | `tui/screens/agents.py` | agents, directory, selection, search | load, discover, search | loads that are replaced; rows that lag behind the store | rows follow the store, deleted agents leave | AgentsCatalog |
| registration, deletion | `tui/screens/register_agent.py`, `resource_operations.py`, `agent_draft.py` | the draft; platform agent, key, profile | wizard steps, submit, reconfigure, delete | a step accepted twice; one step of several fails | settings fit together; no half-registered agent stays | AgentWizard, Registration |
| managed profiles | `managed_profiles.py`, `local_storage.py` | a JSON file and a snapshot per process | load, record, remove | two processes write snapshots of the same file | a profile changes by its own operation only | Registration |
| OpenCode server, model catalogs | `agent/opencode_server.py`, `catalogs/service.py` | child process, endpoint, lock; cache | ensure, close; load | cancellation at every await, children that die or ignore signals | one server, and its owner knows it; loaded once | OpenCodeServer |
| Codex worktrees | `harnesses/codex_worktrees.py`, `codex_git_consent.py` | git worktrees on disk | consent, resolve, remove | a killed worker, deleted directories | git never refuses a worktree for ever | CodexWorktrees |
| WezTerm setup | `setup_wezterm.py` | the user's configuration, the plugin's git repository | ensure, publish, write, commit | edits of the user, killed runs | the user's own lines are kept, what is handed out is committed | WeztermConfig, PluginRepo |
| local state, preferences | `local_state.py`, `preferences.py` | stars, filter | save | | the filter is the one chosen last | ChatView (filter) |
| command line, adapters, consoles, panes, roles | `__main__.py`, `cli.py`, `agent/adapters.py`, `osc.py`, `roles.py`, ... | none | formatting, tables, input and output | | | |

The interface talks to the supervisor by one JSON line per connection on a
local socket (`supervisor/client.py` to `runtime.py`), the supervisor to each
worker in the same way (`runtime.py` to `runner.py`). Panes share no memory:
sign-in state is the keyring entry, profiles and stars are files.

## Runs

Components that share no state are checked side by side in one run: a module
(Flows, Records, Session) has a variable `part`, a behaviour is a behaviour of
one part, and the state of the others stays what it was. Flows and Records have
all constants of their parts, and their theorems hold for every value of these;
MCFlows and MCRecords give the values of the runs.

| Run | Module | Parts | Expected |
|---|---|---|---|
| `supervisor_parts` | MCSupervisorParts | two agents without faults; one with them | pass |
| `supervisor_live` | MCSupervisor | Supervisor under fairness | pass |
| `supervisor_twice` | MCSupervisor | | violation |
| `hostauth_one` | MCHostAuth | one process | pass |
| `hostauth_shared` | MCHostAuth | two processes | violation |
| `session` | Session | ControlSession over two sign-ins, and over one under fairness; OpenCodeServer, SupervisorConnect | pass |
| `session_signout` | MCControlSession | | violation |
| `realtime_view` | MCRealtime | three modes | pass |
| `flows` | MCFlows | AgentActions, AgentsCatalog, AgentWizard, RoomsCatalog | pass |
| `records` | MCRecords | RoomTimeline, RoomRoster, ChatView, Registration, WeztermConfig, PluginRepo, CodexWorktrees | pass |
| `timeline_scroll` | MCRoomTimeline | | violation |
| `roster_switch` | MCRoomRoster | | violation |

A liveness property of one part has the form `part = "x" /\ Fairness => P`, so
each part is checked under its own fairness only.

The five runs that expect a violation are the findings of `PROJECT.json`. The
modules state further claims of the code's comments, tests and documents that
TLC refutes; they are in no run and are listed, with the constants that show
each, under "Known divergences".

## What is modelled

### Supervisor.tla: the supervisor and its workers

| Model | Code |
|---|---|
| `mem`, `disk` | `SupervisorState.workers` in the process, and in the state file |
| `proc` | the processes behind the pids: worker of an agent, or of another program |
| `req`, `todo`, ... | the request that holds `_lifecycle_lock` and what is left of it |
| `BeginList` ... `StopAllDone` | `_dispatch` and the helpers it calls, cut at each await |
| `ProbeReturns` | one `_reconcile_worker` of the `gather` in `_refresh_workers` |
| `Save` | `_save_state`, which may fail |
| `Crash`, `Restart` | the end of the process anywhere, and `_load_or_create_state` |
| `WorkerMoves`, `SigtermArrives`, `ProcessGone` | `agent/runner.py`, as seen from outside |

One request runs at a time because the code takes the lock around the whole of
`_dispatch`; the probes of one refresh are concurrent. What is abstracted:
silence stands for a time-out, a refused connection and a lost answer alike;
the two grace periods are flags that age independently for each pid; POSIX only;
a PermissionError from `killpg` and an unreadable state file are left out; a new
worker of an agent never gets a pid that a stale record of the same agent still
names (its socket name would differ); other programs take pids that some record
names. `acked` marks a worker whose START was answered, by the START that spawned
it or by a later one that found its record. A START whose save failed leaves its
record in memory, so the START that the user tries again is answered without a
save: `saved` says of each worker whether its record was written ("yes"), was not
("no"), or was not when a crash came ("lost").

| Run | Bounds | Shows |
|---|---|---|
| `supervisor_parts`, faults | 1 agent, 2 pids that other programs may take over, 1 crash, 1 failing save | no answered worker is forgotten before it was told to stop or died; one whose save failed is kept in memory, and only a crash loses it |
| `supervisor_parts`, agents | 2 agents, 2 pids, no fault, no second worker of an agent | concurrent probes; STOP_ALL leaves no worker that was not told |
| `supervisor_live` | 1 agent, 2 pids, fairness | the lock is released; `stopping` ends if `agent.stop()` returns; a worker that was told to stop exits if that and its clean-up end |
| `supervisor_twice` | expected violation | a worker that boots longer than the grace is given up; a second START makes two |

The two rows are one run: its CONSTRAINT does not go on from a state that has a
fault and a second agent, nor from one with a second worker of an agent and a
second agent or a failed save. A second pid is what a stale record, a reused pid or a second worker needs, a
second agent what concurrent probes need; one crash and one failed save cover
each place where they can fall, because the bound does not say where.
Fairness: sockets have time-outs, the interface polls every two seconds, clocks
advance, SIGTERM arrives, and a worker that serves its endpoint runs its event
loop. `Fairness` does not say that a worker boots, answers or ends: `agent.stop()`
and the `gather` behind it (`runner.py:277`) have no time-out, and while they hang
the worker goes on answering STATUS, so the polls leave it in `stopping`. What
depends on them has them as a hypothesis: `StoppingEnds` that `agent.stop()`
returns (`AgentStops`), `ToldWorkersExit` also that the rest of the clean-up ends.
`LockIsReleased` needs neither.

### HostAuth.tla and UserSession.tla: the user's tokens

| Model | Code |
|---|---|
| `gen[h]` | `_token_generation` of one process |
| `flight`, `shared` | refresh tasks; `_refresh_flight` |
| `caller` | calls of `get_access_token` that wait |
| `attempt` | calls of `sign_in` |
| `stored` | the keyring entry, shared by the processes |
| `accepted` | which rotation of each session's refresh token the platform accepts |

Each action runs from one await to the next. `_lock` is never held across an
await, so it does not appear. A token pair is a session number and the number of
rotations; `fresh` says whether the access token is more than a minute from its
end. The platform may rotate a refresh token or not, revoke a session, and lose
an answer after having rotated. `UserSession` is what the user may expect: one
session at a time, that of the newest sign-in, and an ended one never returns.
`Session` in HostAuth maps `stored` and the sign-ins that could still succeed to
it.

| Run | Bounds | Shows |
|---|---|---|
| `hostauth_one` | 1 process, 2 requests, 2 refreshes, 2 sign-ins, 2 expiries, 1 sign-out | `UserSession` is implemented; one refresh per token; accepted tokens are kept; every request is answered |
| `hostauth_shared` | 2 processes, expected violation | a refresh of one process survives a sign-out of the other |

Two of each are what an overlap needs; two expiries let a second generation of
refreshes start while the first is in flight. Fairness: HTTP requests time out
and the event loop resumes what is ready.

### ControlSession.tla: one view and its session

| Model | Code |
|---|---|
| `tokens`, `gen`, `accepted` | the keyring entry, `token_generation`, what the platform accepts |
| `user`, `ready`, `stack`, `room` | `user_id`, `_surface_ready`, the screens, `initial_room_id` |
| `enter` | `sign_in` and `enter_surface`, from the warm-up and from the sign-in screen |
| `ending` | `_return_to_sign_in`, for the user or after a rejection |
| `rejections`, `due` | posted `AuthenticationRejected` messages, by generation; the worker of an accepted one has not begun |
| `call` | platform calls of the screens and of the flights: refresh, token, sent |
| `socket` | the generation of the realtime socket, which `_bearer_token` asks for |
| `workers`, `server` | a managed worker runs; the view's OpenCode server runs |
| `late` | history: a call or flight of an ended session had an effect |

An action runs from one await of a coroutine to the next. Reading the token
(`GetToken`, `RefreshDone`) and tagging the call with the generation found when
it resumes (`Tag`) are two steps where the code awaits between them: after a
refresh, and when a socket of another generation is shut down first. Checking a
rejection (`RejectionAccepted`) and the worker that ends the session
(`RejectionEnds`) are two steps as well. Two orders that no schedule produces are
excluded by guards: the user's next key is read after the messages posted before
it (`ReadsKey`), and the worker of an accepted rejection has begun before an
answer of the browser arrives (`BrowserDone`, `RetryWarmup`). A session is the
number of the sign-in that brought it. Left out: the initial agent flow (CREATE,
CONFIGURE), stars, the polling of workers, and the detail of HostAuth's shared
refresh, which HostAuth has.

| Run | Bounds | Shows |
|---|---|---|
| `session`, "view" | 1 request and the calls of both flights, 2 sign-ins, 1 refresh, 1 failed STOP_ALL, initial room, another process that signs out | until something late happens: a ready surface belongs to the signed-in user (`TimelySurfaceIsSignedIn`), the rooms of a user are those of a ready surface (`SurfaceFollowsWorkers`), a rejection only ends a session that is over (`TimelyRejectionsAreCurrent`) |
| `session`, "live" | the same with 1 session, fairness | entering ends if the wait for the browser's callback does; endings end; a view leaves a session that the platform ended |
| `session_signout` | expected violation | a worker started while the sign-out waits for the OpenCode server survives it |

A flight may be hit by a rejection, a sign-out, a revocation or an expiry at each
of its awaits; two sign-ins are what a rejection of an earlier session needs. The
code does let four things of an ended session take effect, and `late` marks
exactly these: a superseded refresh reports under the generation it finds
(`RefreshLost`), a refresh stores tokens that another process had removed
(`RefreshDone`), a call is tagged with a newer generation than its token's session
had (`Tag`), and the initial room is pushed over the gate (`InitialRoomFound`). The
"view" part does not go on after such a step, since its properties claim nothing
then; without `~late` they are refuted (see below). `SurfaceFollowsWorkers` says
nothing after a STOP_ALL that failed, either: the code breaks it then.

Fairness is weak for every flight, ending and request (their awaits have
time-outs) and strong for `Rejected`: the rooms screen polls, and a platform that
ended a session says so to a request that is repeated for ever, though any single
one may fail otherwise. The `finally` clause of `sign_in` awaits the callback's
thread without a time-out (`host_auth.py:155`), so `CleanedUp` is not fair, and
`EnteringAlwaysEnds` has its fairness as a hypothesis.

### Realtime.tla: the socket and the topics

| Model | Code |
|---|---|
| `phx`, `sockets` | `_phx` and its generation; the Phoenix clients opened, their topics |
| `rooms` | `_realtime_rooms` |
| `view` | each room screen: connecting, live, failed, closed |
| `call` | `subscribe_room` of a screen, or the reconnect of a request's `_bearer_token` |
| `leaving` | `unsubscribe_room` of a screen being closed |

`todo` is the rest of a coroutine: the rooms still to be joined, by the loop over
the registered rooms (which Python ends with an error when the set has changed
its size) or by the subscription. A coroutine that does not await keeps the
event loop (`EventLoop`); therefore fairness is strong, as a coroutine that is
ready is not overtaken for ever. The two topics of a room are joined and left
together, a room screen is opened from the list only when no other is open, and
the reconnects that the Phoenix library makes itself are left out.

`realtime_view` checks every property over two rooms and one request, in three
modes: nothing fails or overlaps; things fail; things fail and screens overlap.
At most two rotations (one where screens overlap); five sockets are never all
used, so their bound cuts nothing. `LiveRoomsAreJoined`, `OneSocket` and
`ClosedRoomsAreReleased` say in which circumstances the code ensures them; each
fails outside (see below). `OneSocket` says that no two coroutines connect at once
and that no socket but the client's own is open, for requests and screens that
find the socket stale together; what it leaves out is a screen that acts while a
request reconnects after a rotation. A second rotation is admitted for one request
only; two requests and two rotations are where the proof of `LiveRoomsAreJoined`
found a case the run is too small for. `CallsEnd` holds in all.

### RoomTimeline.tla: the messages of an open room

| Model | Code |
|---|---|
| `history`, `events`, `joined` | the platform's messages and their versions; the announcements under way |
| `shown` | `RoomsStore._messages` |
| `cursor`, `hasOlder`, `loading` | `_next_messages_cursor`, `_has_older_messages`, `_loading_older_messages` |
| `reload`, `older`, `sending` | the workers of `_load_messages`, `_load_older_messages`, `_send_message` |

A request is answered (the page is composed) in one step and applied in another,
so everything may happen in between. A worker that was cancelled unwinds for a
while before its `finally` clause (`unwinding`), and the worker that replaces it
begins (`begun`) and reads `_loading_older_messages` (`Looks`) before or after
that. `missed`, `own` and `raced` are history variables that state where the code
does not ensure the timeline: what was never announced, the version of the user's
own messages, and a reload whose answer was older than a row it dropped, or that
overlapped the request of an older page.

| Run | Bounds | Shows |
|---|---|---|
| `records`, timeline | pages of 1, 2 to 3 messages, 2 versions, topics lost once | from the cursor on, the timeline is complete and current when nothing is under way and the last reload raced with nothing; the loading flag is up exactly while a request is out or a cancelled worker has to clear it |
| `timeline_scroll` | expected violation | scrolling again gives up the older page under way |

With pages of one message, three messages make a latest page, an older one and
one that arrives meanwhile. One room is open; other rooms' events are dropped
by the screen's first guard. Screen order (the time stamps) and rendering are
left out.


### SupervisorConnect.tla: one supervisor for all panes

| Model | Code |
|---|---|
| `at`, `lock` | `SupervisorClient.connect` of each pane or command; the lock file |
| `server` | the boot of each `SupervisorServer` process: spawned, saved, bound, serving |
| `file` | the endpoint that the state file names |

A ping of the endpoint decides whether a supervisor is adopted; a live one may
fail to answer in time. What it serves is module Supervisor. `deserted` is a
history variable: somebody left a boot, or a live supervisor was not heard, and
from there on the code cannot exclude a second one. In `session` with two clients
and three supervisors: at most one supervisor is up or coming up and the file
names it (`OneSupervisor`, part of `ServersAreOwned`); every connect ends
(`ConnectEnds`). Three supervisors are one that died and one for each client.
Fairness: each wait has a deadline in the code.

### AgentActions.tla: start, stop and delete a managed agent

| Model | Code |
|---|---|
| `worker`, `profile` | the supervisor's worker and the durable profile, as these answer |
| `shown`, `wanted`, `begun`, `deleting` | `AgentsStore.running_ids`, `stop_after_start_ids`, `starting_ids`, `deleting_ids` |
| `start` | `_start_managed_agent`: preflight, consent, START, and the stop that was asked for meanwhile |
| `stop`, `delete`, `confirm` | the exclusive workers of the agents screen and its confirmation |
| `poll` | a LIST answer of `_reconcile_workers` that is not applied yet |

`flows` has one agent (agents do not share state here), two harnesses, two
preflight attempts and one change of the profile or death of the worker, in
two modes: requests fail and flows are cancelled, or the user starts an agent
while it is being deleted, which the code lets happen.
A stop that was asked for during a start is carried out before the start ends,
unless the answer of START or of that stop was lost, and a deleted agent has no
worker that was not told to stop unless the user started it during the deletion
(`rash`): `RunStateIsTrue`. Without that exception it does not hold
(`DeletingStops`, see below). Also the pane stops showing a worker that is gone and
every start ends or waits for the user (`RunStateSettles`). Fairness: coroutines proceed, the interface polls, and a
worker that was told to stop exits; the user may never answer.

### AgentsCatalog.tla and RoomsCatalog.tla: lists that are loaded and searched

| Model | Code |
|---|---|
| `agents`, `directory`, `source`, `search`, `selected` | `AgentsStore` |
| `rows`, `row`, `dirty` | the list view and the render that is due |
| `listLoad`, `dirLoad` | the exclusive workers `_load_agents` and `_load_directory` |
| `rooms`, `selected`, `more`, `loadingMore` | `RoomsStore.rooms`, `_next_rooms_cursor`, the flag of `_load_more_rooms` |
| `load`, `unwinding` | the worker of group `rooms-load`, and a cancelled one before its `finally` |
| `pending`, `deletion`, `creation` | the workers that delete and create a room |

A page is composed in one step and applied in a later one. `flows` has two
agents, of which one matches the search, and two rooms on pages of one. What the
agents screen shows follows the store, and an agent that the platform lost
leaves (`CatalogSettles`); the flag that refuses another page has a worker, a
room deleted here does not return with an older page, a search finds the rooms of
every page, a room that is listed twice is listed once again (`RoomsSettle`).
Fairness is strong, for a load that is replaced starts again: the poll comes
every ten seconds, and a load that takes less is not replaced for ever.

### AgentWizard.tla: registering in steps

| Model | Code |
|---|---|
| `step`, `custom`, `draft` | the screen's step, its custom input, `AgentDraft` |
| `accepts`, `swift` | selections that `call_after_refresh` accepts later; presses before that |
| `flow`, `sent`, `submitting`, `made` | the submission and what it has done |
| `lost` | agents that a lost answer or a failed clean-up left on the platform |

A model value carries the harness it was offered for, an effort the harness and
the model. One harness with two dimensions, one with a single one and one press
ahead of the screen: the submitted settings fit together and one wizard
registers once, besides the agents it left behind (`SubmissionIsSound`), also if
presses are doubled; the wizard is given back (`SubmittingEnds`, requests end or
time out). The answer of the registration may be lost (`client.py:257`) and the
clean-up of a failed record may fail (`register_agent.py:577`): the user may submit
again, and a second agent is registered; `MaxLost` bounds how often. That the
settings fit is claimed for `swift = 0` only: a doubled press chooses a value for
the step after (`SettingsFit`, see below).

### OpenCodeServer.tla: the child process and the cached catalog

| Model | Code |
|---|---|
| `locked` | `OpenCodeServerManager._lock` |
| `child`, `slot`, `endpoint` | the processes, `_process`, `_endpoint` |
| `closing` | the child that `_close_locked` waits for |
| `loading`, `catalog` | the lock and the cache of `catalogs/service.py` |

Every task may be cancelled at each await, a child may die or ignore SIGTERM. In `session` with
two loads, one close and three children (one that died, one for each load): a
child that runs and was not told to stop is the one in the slot and the catalog
is not loaded again (`ServersAreOwned`); close returns (`WaitsEnd`). Fairness:
asyncio locks are first in, first out; each wait has a time-out or is for a
child that got SIGKILL.

### RoomRoster.tla: participants of rooms that follow one another

| Model | Code |
|---|---|
| `people` | the platform's participants of each room |
| `screen`, `participants` | each room screen; `RoomsStore.participants`, which they share |
| `load`, `mutation`, `busy`, `event` | `_load_roster`; `_add_participant`, `_remove_participant`; `_roster_mutation_pending`; a roster event |

Two rooms opened one after the other, one person, one change by others. The
roster is the platform's when nothing is under way, and a change is refused only
while another one is (`RosterSettles`, part of `RecordsAgree`). `failed` and `mixed` except a load that
failed and the answer of a popped screen; the latter is the run `roster_switch`,
which expects `RosterBelongsToRoom` to be violated.

### ChatView.tla: the rows of the timeline

| Model | Code |
|---|---|
| `held`, `updated` | the store's messages and which have a newer text |
| `allowed`, `saved`, `previous` | the filter's types, the stored preference, `_pre_verbose_types` |
| `rendered`, `list` | what `_render_chat` believes to have drawn; the `ListView` |
| `drawing`, `dirty` | a render that awaits the list; a render that is due |

`_render_chat` appends, inserts or refills depending on what changed; the store,
the filter and the expanded rows may change while it waits. Three messages (a
tool call, a participant, another), one update: when nothing is under way the
list shows what the filter allows, and leaving the verbose view restores what
the user had chosen last (`ChatIsDrawn`, part of `RecordsAgree`).

### Registration.tla: platform, keyring, profiles

| Model | Code |
|---|---|
| `agents`, `retired` | the platform's agents |
| `keys`, `file` | keyring entries, `managed_agents.json` |
| `memory` | `ManagedAgentStore._profiles`, one snapshot for each open pane |
| `task` | registration, reconfiguration or deletion of a pane, by step |

A call may be refused, the answer of a registration, of its roll-back or of a
deletion may be lost, a save may fail, a pane may be closed at each step, and a
profile of an earlier vocabulary is normalised by the loading pane. With two ids,
two panes and three operations: a stored key lasts as its agent, a profile changes
by its own operation, snapshot and file agree, and every agent is registered as a
whole or not at all unless an operation on that very agent was broken off
(`RegistrationIsWhole`). `broken` has the agents with a lost answer, a failed
clean-up, key drop or forget, a pane closed half-way or a deletion elsewhere: the
code leaves them half registered, and the property says that nothing happens to
the others. `diverged` says that two panes were open at once, whose snapshots
overwrite one another.

### WeztermConfig.tla and PluginRepo.tla: the setup of WezTerm

| Model | Code |
|---|---|
| `file`, `edits` | the user's configuration as a sequence of kinds of lines |
| `setup` | `ensure_band_plugin_config`: read, publish or write |
| `Upsert` and its helpers | `_upsert_managed_block` and the regular expressions it applies |
| `work`, `git`, `index`, `head`, `lock` | the plugin's directory, `.git`, index, commit, lock file |
| `handed` | the repository was handed to WezTerm |

Configurations are all sequences of up to three lines of an ordinary file, of up
to two lines with the remains of earlier setups, and of three lines with long
comments, each with one line typed by the user: two remains and one edit make
every order of an opening and a closing marker around a line. Publishing a first
configuration makes a placeholder and replaces it in a second step where links
are not supported. The setup converges to one block, keeps the user's own lines in
order, and keeps a file that Lua accepts acceptable, with a block that runs, if no
return is in a long comment (`UpsertIsSound`, which with the types is
`SetupIsSound`). A user's own line (`Own`) is one that is in no block and not
between a lone opening marker and a later END or return; it is defined without the
expressions of the code. Two runs over two paths, killed anywhere: what is handed
out is committed (`HandedOutIsCommitted`, part of `RecordsAgree`).

### CodexWorktrees.tla: a directory for each agent and room

| Model | Code |
|---|---|
| `repo`, `declined` | the launch directory; agents whose user declined `git init` |
| `worker`, `room`, `answer` | the steps of `resolve`; what the SDK keeps for a room |
| `dir`, `registered`, `branches` | directories, git's list of worktrees, branches |

Two agents and one room (worktrees of different rooms differ like those of
different agents). git is never asked for a worktree that it lists, a directory
that exists is listed with its branch, and the directory a worker was given
exists until the user deletes it (`WorkspacesAreSound`, part of `RecordsAgree`).

## Known divergences

The runs with an expected violation are the findings of `PROJECT.json`. While
the modules were written, more was found that the code does otherwise than its
comments, tests and documents say. The modules state what these say as a property
each; TLC finds it violated with the constants given here (the other bounds 0, no
flag set), so no run has it. The properties of the passing runs name the
condition that keeps the case out, or claim something weaker.

| Property | The repository says | What the code does | Seen with |
|---|---|---|---|
| `AnsweredWorkersAreOnDisk` (Supervisor) | `protocol.py:37` "Durable locator for one detached worker process." | a START whose save failed is answered from memory when it is tried again (`runtime.py:191`, `:244`) | 1 agent, 2 pids, `MaxFailures = 1` |
| `UnrelatedAreSpared` (Supervisor) | `runtime.py:351` "Terminate a verified worker group without risking an unrelated process." | the pid of a stale record may lead a group of another program, which is signalled (`runtime.py:353`) | 1 agent, 2 pids, `MaxCrashes = 1`, `ReusePids` |
| `RejectionsAreCurrent`, `SurfaceIsSignedIn` (ControlSession) | `client.py:223` "ignored stale authentication rejection"; `sign_in.py:24` "Blocking gate: no platform call happens until sign-in succeeds." | a refresh that a sign-out superseded reports its loss under the generation it finds then, and so ends the next session (`client.py:194`) | 1 request, `MaxSessions = 2`, `MaxRefreshes = 1` |
| `GateIsAlone` (ControlSession) | `control_app.py:357` "Clear a no-longer-valid session and show the sign-in gate." | the room a view was opened for is pushed over the gate when the session ended meanwhile (`control_app.py:274`) | `MaxSessions = 1`, `InitialRoom` |
| `CancelledSignOutChangesNothing` (ControlSession) | `control_app.py:366` "Managed agents could not be stopped; sign-out was cancelled." | the surface stays not ready for good (`control_app.py:361`) | `MaxSessions = 1`, `MaxStopFailures = 1` |
| `EnteringEnds` (ControlSession, `FairSpec`) | `sign_in.py:20` "Sign-in opens your browser. Press Esc to cancel and try again." | the `finally` clause of `sign_in` awaits the callback's thread without a time-out (`host_auth.py:155`) | `MaxSessions = 1` |
| `RoomsStayLive` (Realtime) | `client.py:489` "Keep one room's topics live across reconnects and detail remounts." | a reload that cancels a subscription leaves the room registered, and a registered room is not joined again (`client.py:490`, `:496`) | 1 room, no request, `mode = {"overlap"}` |
| `TopicsAreAttachedOnce` (Realtime) | `client.py:501` "Attach both room topics to the current socket exactly once." | two coroutines may both open a socket (`client.py:481`) | 1 room, 1 request, `MaxGen = 1`, `MaxSockets = 4`, `mode = {"overlap"}` |
| `NewestIsShown` (RoomTimeline) | `src/README.md:108` "The timeline follows the newest event." | a reload's answer that was composed before an event drops the row of that event (`stores.py:374`) | `Limit = 1`, `FirstLength = 1`, `MaxMessages = 2` |
| `SettingsFit` (AgentWizard) | `harnesses/models.py:41` "Selected values keyed by dimension; empty selects adapter defaults." | a doubled press puts the choice of one step into the next, a model into the reasoning for example (`register_agent.py:218`) | one harness with two dimensions, `MaxSwift = 1`, registering |
| `DeletingStops` (AgentActions) | `docs/cli.md:177` "Stop and delete one managed agent." | an agent that is started while it is deleted keeps its worker (`managed_agent_actions.py:56`) | 1 agent, `mode = {"eager"}` |
| `KeysAreInUse` (Registration) | `client.py:278` "Unregister a managed agent and drop its stored API key." | when the answer of the deletion is lost the key stays, and the next attempt gets a 404 and does not drop it (`client.py:279`) | 1 id, 1 pane, `MaxTasks = 2` |
| `PublishKeepsFile` (WeztermConfig) | `setup_wezterm.py:415` "Write ``content`` to a temp file, then create ``path`` exclusively." | the placeholder is replaced with whatever was written to it meanwhile (`setup_wezterm.py:441`) | no file, 1 edit, 1 setup |
| `BlockRuns` (WeztermConfig) | `tests/unit/test_setup_wezterm.py:555` "assert not (comment_open < managed < comment_close)" | the block is inserted before a `return` in a long comment (`setup_wezterm.py:569`) | a file of a return and one in a long comment |
| `OrphansKeepLines` (WeztermConfig) | `tests/unit/test_setup_wezterm.py:346` "test_ensure_orphan_begin_preserves_trailing_lines" | a lone opening marker takes the lines up to a later return with it (`setup_wezterm.py:513`) | a file of the marker, a line, a return |

Further divergences that a property names as a condition, or that lie outside the
models.

Supervisor and sign-in:

- A pane that gives up a boot frees the lock file, and the next one starts a
  second supervisor over the same state file (`supervisor/client.py:174`):
  `OneSupervisor` without `deserted`.
- Cancelling one request for a token cancels the refresh the others share
  (`host_auth.py:188`).
- After a second sign-in the installed rooms screen keeps the store of the first
  session (`control_app.py:374`, `rooms.py:579`).

Realtime and rooms:

- A reconnect that fails once after a rotation is not repeated (`client.py:234`);
  a subscription on a replaced socket discards the registration but not the
  topics of the new one (`client.py:497`); with two rotations and two requests, a
  join on the socket that the second rotation replaced fails late and leaves the
  topics on the new one. Dropping the antecedents of the three properties of
  Realtime shows each.
- A closed room screen's worker may still write to the store that the next room
  uses, until `unsubscribe_room` returns (`rooms.py:986`): `roster_switch`.
- `_load_rooms` after a room was created or deleted replaces a search by the
  first page, and so does reaching the end of the list (`rooms.py:749`), also
  when there is nothing more; the poll restarts a search that takes more than ten
  seconds; `add_room` lists a room twice that a page brought first; two presses
  of Enter may create two rooms. `RoomsSettle` says that the list recovers.
- The `finally` clause of a cancelled load clears the loading label of its
  successor.
- `_pre_verbose_types` is forgotten when the room is left; when a filter hides
  every message after an empty first draw the list keeps saying that there are no
  messages yet; older pages and filter changes count as new activity; rows are
  not redrawn when only names or mentions change.

Agents, setup, worktrees:

- A registration whose answer is lost, or whose clean-up fails, leaves an agent on
  the platform, and the user who submits again registers a second one
  (`client.py:257`, `register_agent.py:577`): `lost` of AgentWizard, `broken` of
  Registration.
- A selection followed by Escape before the refresh makes `HarnessId` raise, which
  ends the application (`register_agent.py:218`).
- Two panes hold snapshots of one `managed_agents.json`: the save of one drops
  what the other recorded (`managed_profiles.py:93`); the class calls these
  profiles durable (`:55`).
- The comment at `setup_wezterm.py:64` does not hold of a block whose opening
  marker is followed by the user's `return`: it is taken for a whole block.
- An edit saved between setup's read and write is lost (`setup_wezterm.py:401`);
  git's `index.lock`, left by a kill, blocks later setups.
- git add or commit failing after `git init` leaves a repository without a
  commit; nobody is asked again and all rooms share the directory
  (`codex_worktrees.py:145`). A directory that git was killed while filling is
  taken for the worktree (`codex_worktrees.py:106`).

## What is proved

All theorems hold for every value of the constants their assumptions allow; each
strengthening was checked by TLC as an invariant before it was proved.

| Module | Theorems | Assumptions, and the argument |
|---|---|---|
| SupervisorProofs | `TypeOK`, `AnsweredWorkersAreKept`, `StopAllTellsEveryWorker` | Any agents, pids and bounds. `Inductive` says what is on record at each point of a request: an answered worker is in memory, and on disk as well from the save that preceded its answer on, unless that save failed; only then can a crash lose it (`saved`). |
| HostAuthProofs | `TypeOK`, `OneRefreshPerToken`, `AcceptedSessionIsKept`, `SessionIsSafe` (the refinement of UserSession) | One process. The refreshes of the current generation speak of the stored tokens (`CurrentOK`); those of a generation use one token one after the other (`GenerationsOK`); an older generation's refresh is about a session that is over (`OrphansOK`); while a sign-in may succeed nothing else touches the keyring (`OpenOK`). |
| ControlSessionProofs | `TypeOK`; `TimelySurfaceIsSignedIn`, `SurfaceFollowsWorkers`, `TimelyRejectionsAreCurrent` | Any requests, sign-ins, refreshes and failures. Types hold throughout; `SessionInv` adds `Inductive` as long as nothing late happened. It has one part for each piece of state: what the stack of screens may be (`StackOK`), which calls speak of the stored tokens (`CallsOK`), on which screen each flight is and that one of the current generation has the stored tokens or is due to be rejected (`FlightsOK`, `WarmupOK`, `SignInOK`), that a message or worker of a rejection of the current generation finds its session over (`RejectionsOK`), and that a ready surface or one being entered belongs to the stored tokens (`SurfaceOK`, `SessionsOK`). |
| SessionProofs | `PartsTypeOK`, `ServersAreOwned` | The rest of the composition that the run `session` checks. Any tasks, children, clients and supervisors; `SessionAssumption` (`None` is none of them, a load is not a close). OpenCode: who is past the manager's lock holds it (`LockHeld`), who asks for a catalog holds that of the catalogs and none is cached yet (`CatalogHeld`), the child being stopped is the one taken from the manager (`CloseIsKnown`), and the manager's fields are cleared before a child is awaited or spawned (`SlotIsClear`). Supervisor: who is past the check holds the lock (`HolderLooks`), a boot is awaited by its holder as long as nobody deserted (`BootIsAwaited`), and a live supervisor is the one the file names (`SavedIsNamed`). |
| FlowsProofs | `TypeOK`, `RunStateIsTrue` (an invariant and an action property), `SubmissionIsSound`, and the safety half of `RoomsSettle` | Any agents (`None` is not one), harnesses, models, rooms, page sizes, attempts, presses and failures. Agents: where a deletion is past its STOP, the worker was told, and a START under way is then one that the user began during the deletion (`TellsAreOrderly`); a start in any place is in `starting_ids`. Wizard: the draft fits the step (`WizardSteps`), at most one submission is under way or done (`OneSubmission`), and a selection still to be accepted is one the present step offers unless a press was swift (`WizardOffers`). Rooms: the flag is up while a worker loads or unwinds (`FlagTellsTheLoad`), and a forgotten room is in no list or answer that may still be applied (`RoomsForgotten`). |
| RoomTimelineProofs | `TypeOK`, `LoadingHasWorker`, `TimelineIsComplete` | Any history and page size, any number of lost connections. The flag, which the worker that scrolling starts reads before it goes on (`Looks`), is up only while a worker is in a load or unwinds from one; that no load begins under a flag that another one set is what keeps a single worker behind it. Completeness: behind an event about a message comes its newest version unless that was missed (`EventsLead`), no row is ahead of the platform (`RowsArePast`), an older page under way ends where the rows shown begin (`OlderFollows`), the latest page has every row that may be shown by the time it is applied (`ReloadCovers`); so the rows shown, those of a reload's answer and those shown with an older page's answer are each complete but for what is due (`RowsAreComplete`), and when nothing is under way only what was missed is due. |
| RealtimeProofs | `TypeOK`, `OneSocket`, `ClosedRoomsAreReleased`, `LiveRoomsAreJoined` | Any rooms, requests, rotations and sockets. `Inv` has a part that always holds (one screen, the current socket is open), one while no screen acts after a rotation (who connects is alone, and no socket but the current one is open), one before the first rotation (who is active has its own room's screen), and one for behaviours without overlaps and failing reconnects (exactly one coroutine carries the registered rooms forward, and each of them is joined or still on its list). A circumstance that has ended never returns, so each part is kept on its own. |
| RecordsProofs | `PartsTypeOK`, `RecordsAgree`, `RegistrationIsWhole` (an action property and an invariant) | Any messages, people, visits, panes, agents, runs, paths, rooms, with what `RecordsAssumption` says of `None`. Roster: one screen is up and the answers on their way are the platform's (`AnswersAreCurrent`). Registration: each step of a task fixes what exists so far (`TaskShapes`, `Halfway`), one pane is open unless `diverged` (`OnePane`), and a task that ends half-way has put its agent in `broken`. Chat: the rows are those of the render that is under way or drawn (`RowsFollow`). Repository: each step of the holder of the lock has established what the next one relies on (`StepsDone`). Worktrees: the steps of `resolve` make exactly what is missing, and a worker that is off keeps no directory. |

Flows, Records and Session are proved as compositions: their parts share no
variable, so each has an inductive invariant of its own that the steps of the
others leave alone.

Only model-checked: liveness and everything under fairness, which the prover
cannot reach; and `UpsertIsSound`, because what `Upsert` computes for a file of
any length is an induction over the file.

## Not modelled, and why

- Command line, listing, adapters, harness preflights, OSC consoles, panes, roles,
  settings, identity: formatting, parsing or input and output, without state that
  two steps share; the steps that use them take any of their outcomes.
- Message composer, mention picker, scroll position, stars, colours: presentation
  of what the stores hold.
- The initial agent flow of a view (CREATE, CONFIGURE): it opens AgentWizard.
- Windows process handling, carriage returns, several
  revisions of the plugin, a worktree that git keeps locked after SIGKILL.

## Plan

An abstract life cycle of a worker that Supervisor implements and AgentActions
uses; the initial agent flow; a well-founded argument that the managed
block of WeztermConfig is one.
