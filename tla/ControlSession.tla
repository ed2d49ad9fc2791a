--------------------------- MODULE ControlSession ---------------------------
(***************************************************************************)
(* One Band view (src/src/band_wezterm/tui/control_app.py): how it opens   *)
(* over a stored session or behind the sign-in gate, and how a sign-out or *)
(* a rejected credential takes it back to the gate.                        *)
(*                                                                         *)
(* The coroutines of the view run on one event loop, so each action runs   *)
(* from one await of the code to the next: the warm-up flight, the sign-in *)
(* screen's worker, the user's sign-out, the handler of a rejection and    *)
(* the platform calls of all of them overlap between them.                 *)
(*                                                                         *)
(* A session is the number of the browser sign-in that brought it.  The    *)
(* token store and its generation are HostAuth's, seen from one view.  The *)
(* realtime socket is only what a platform call asks of it: whether it was *)
(* opened under another generation.                                        *)
(***************************************************************************)
EXTENDS Naturals, FiniteSets, Sequences

CONSTANTS
    Requests,        \* platform requests of the screens, at a time
    MaxSessions,     \* bound on the browser sign-ins begun
    MaxRefreshes,    \* bound on the requests that find the token expired
    MaxStopFailures, \* bound on the STOP_ALL requests that fail
    InitialRoom      \* whether a view may have been opened for one room

Slots == {"warmup", "signin"}
Callers == Slots \cup Requests

ASSUME ControlSessionAssumption ==
    /\ Requests \cap Slots = {}
    /\ MaxSessions \in Nat \ {0}
    /\ MaxRefreshes \in Nat
    /\ MaxStopFailures \in Nat
    /\ InitialRoom \in BOOLEAN

VARIABLES
    tokens,     \* the session of the stored tokens, or 0
    gen,        \* host_auth.token_generation
    sessions,   \* browser sign-ins begun
    accepted,   \* sessions the platform accepts
    user,       \* self.user_id: the session it was read with, or 0
    ready,      \* self._surface_ready
    stack,      \* the screens above Textual's default screen
    enter,      \* enter_surface, from the warm-up and from the sign-in gate
    ending,     \* _return_to_sign_in: where it is, for the user or a rejection
    rejections, \* generations of the AuthenticationRejected messages posted
    due,        \* the worker of an accepted rejection has not begun
    call,       \* the platform calls of the flights and of the screens
    socket,     \* the generation of the realtime socket, if there is one
    workers,    \* a managed worker runs
    server,     \* the view's OpenCode server runs
    asked,      \* history: the user asked to sign out, and was not told no
    late,       \* history: a call or a flight of an ended session had an effect
    room,       \* self.initial_room_id is set
    failures,   \* failed STOP_ALL requests so far
    refreshes   \* refreshes so far

auth == <<tokens, gen, sessions, accepted>>
view == <<user, ready, stack, room>>
local == <<workers, server>>
counts == <<failures, refreshes>>
endings == <<ending, rejections, due, asked>>
calls == <<enter, call, socket, late>>
flows == <<endings, calls>>
vars == <<auth, view, local, counts, flows>>

Sessions == 1..MaxSessions

\* sign_in is in "browser" until the tokens are stored or it fails, and then
\* in its finally clause ("stored", "failed"); enter_surface begins, asks who
\* the user is, connects to the supervisor and asks for the initial room.
Flight == [phase : {"none", "browser", "stored", "failed", "begin", "whoami",
                    "connect", "chats"},
           session : 0..MaxSessions, gen : Nat]

\* A call waits for a refresh, has its token but is not tagged with the
\* generation yet, or is sent.
Call == [phase : {"none", "refresh", "token", "sent"},
         session : 0..MaxSessions, gen : Nat]

At(phase) == [phase |-> phase, session |-> 0, gen |-> 0]
NoFlight == At("none")
NoCall == [phase |-> "none", session |-> 0, gen |-> 0]

TypeOK ==
    /\ tokens \in 0..MaxSessions
    /\ gen \in Nat
    /\ sessions \in 0..MaxSessions
    /\ accepted \in SUBSET Sessions
    /\ user \in 0..MaxSessions
    /\ ready \in BOOLEAN
    /\ stack \in Seq({"warmup", "sign_in", "rooms", "detail", "settings"})
    /\ enter \in [Slots -> Flight]
    /\ ending \in {"none", "stopping", "closing", "expiring"}
    /\ rejections \in SUBSET Nat
    /\ due \in BOOLEAN
    /\ call \in [Callers -> Call]
    /\ socket \in SUBSET Nat
    /\ workers \in BOOLEAN
    /\ server \in BOOLEAN
    /\ asked \in BOOLEAN
    /\ late \in BOOLEAN
    /\ room \in BOOLEAN
    /\ failures \in 0..MaxStopFailures
    /\ refreshes \in 0..MaxRefreshes

Moves(s, phase) == enter' = [enter EXCEPT ![s] = At(phase)]

\* on_mount: warm up over stored tokens, or ask for a sign-in.
Init ==
    /\ tokens \in {0, 1}
    /\ gen = 0
    /\ sessions = tokens
    /\ accepted \in SUBSET ({tokens} \ {0})
    /\ user = 0
    /\ ready = FALSE
    /\ stack = IF tokens = 0 THEN <<"sign_in">> ELSE <<"warmup">>
    /\ enter = [s \in Slots |->
           IF s = "warmup" /\ tokens # 0 THEN At("begin") ELSE NoFlight]
    /\ ending = "none"
    /\ rejections = {}
    /\ due = FALSE
    /\ call = [c \in Callers |-> NoCall]
    /\ socket = {}
    /\ workers \in BOOLEAN
    /\ server = FALSE
    /\ asked = FALSE
    /\ late = FALSE
    /\ room \in {FALSE, InitialRoom}
    /\ failures = 0
    /\ refreshes = 0

Top == stack[Len(stack)]
OnSurface == Top \in {"rooms", "detail"}
Ending == ending # "none"

\* The application reads a key after the messages that were posted before it.
ReadsKey == rejections = {}

\* Faulty variants (Bug...) precede the definitions they vary; only
\* PROJECT.json refers to them.
BugNotifyAny(g) == rejections' = rejections \cup {gen}
BugNotifyNever(g) == UNCHANGED rejections

\* _notify_authentication_rejected posts a rejection of the current
\* generation and ignores any other.
Notify(g) ==
    rejections' = IF g = gen THEN rejections \cup {g} ELSE rejections

-----------------------------------------------------------------------------
(* Platform calls: of the screens, and whoami and list_my_chats of the     *)
(* flights that enter the surface.                                         *)

BugFailed(c) ==
    /\ call' = [call EXCEPT ![c] = [@ EXCEPT !.phase = "failed"]]
    /\ UNCHANGED enter
BugStaysBusy(c) ==
    /\ call' = [call EXCEPT ![c] = NoCall]
    /\ enter' = [s \in Slots |->
           IF s = c /\ enter[s].phase # "whoami" THEN NoFlight ELSE enter[s]]

\* The call is over, and with it the flight that made it: its screen shows an
\* error and may be asked again.
Over(c) ==
    /\ call' = [call EXCEPT ![c] = NoCall]
    /\ enter' = [s \in Slots |-> IF s = c THEN NoFlight ELSE enter[s]]

\* The token is stored, or it is expired and refreshed first.  A call tags
\* itself right after it got the token, unless it has to await the end of a
\* realtime socket of another generation (_bearer_token).
GetToken(c) ==
    /\ tokens # 0
    /\ \/ /\ call' = [call EXCEPT ![c] =
                 [phase |-> IF socket \subseteq {gen} THEN "sent" ELSE "token",
                  session |-> tokens, gen |-> gen]]
          /\ socket' = socket \cap {gen}
          /\ UNCHANGED refreshes
       \/ /\ refreshes < MaxRefreshes
          /\ refreshes' = refreshes + 1
          /\ call' = [call EXCEPT ![c] =
                 [phase |-> "refresh", session |-> tokens, gen |-> gen]]
          /\ UNCHANGED socket

\* A poll or an action of a screen.
Ask(r) ==
    /\ OnSurface
    /\ call[r].phase = "none"
    /\ IF tokens # 0
       THEN GetToken(r) /\ UNCHANGED rejections
       ELSE Notify(gen) /\ UNCHANGED <<call, socket, refreshes>>
    /\ UNCHANGED <<auth, view, local, failures, enter, ending, due, asked, late>>

\* The refresh succeeds and nothing has superseded it: its tokens are stored
\* under a new generation, and every call that shares it has its token.  Late,
\* if another process had removed the tokens.
RefreshDone(c) ==
    /\ call[c].phase = "refresh"
    /\ call[c].session \in accepted
    /\ call[c].gen = gen
    /\ gen' = gen + 1
    /\ tokens' = call[c].session
    /\ call' = [q \in Callers |->
           IF call[q].phase = "refresh" /\ call[q].gen = gen
           THEN [phase |-> "token", session |-> call[q].session, gen |-> gen + 1]
           ELSE call[q]]
    /\ late' = (late \/ tokens # call[c].session)
    /\ UNCHANGED <<sessions, accepted, view, local, counts, endings, enter,
                   socket>>

\* _tag_credential_generation reads the generation again when the call
\* resumes; late, if the token belongs to a session that is over.
Tag(c) ==
    /\ call[c].phase = "token"
    /\ call' = [call EXCEPT ![c] =
           [phase |-> "sent", session |-> @.session, gen |-> gen]]
    /\ socket' = socket \cap {gen}
    /\ late' = (late \/ (call[c].gen # gen /\ tokens # call[c].session))
    /\ UNCHANGED <<auth, view, local, counts, endings, enter>>

\* The refresh was superseded, or the platform refuses the refresh token,
\* which is removed: _fetch_token reports a missing session with the
\* generation it finds then, which is late in the first case.
RefreshLost(c) ==
    /\ call[c].phase = "refresh"
    /\ \/ call[c].gen # gen
       \/ call[c].session \notin accepted
    /\ tokens' = IF call[c].gen = gen THEN 0 ELSE tokens
    /\ Notify(gen)
    /\ Over(c)
    /\ late' = (late \/ call[c].gen # gen)
    /\ UNCHANGED <<gen, sessions, accepted, view, local, counts, ending, due,
                   asked, socket>>

\* 401, observed on the response.
Rejected(c) ==
    /\ call[c].phase = "sent"
    /\ call[c].session \notin accepted
    /\ Notify(call[c].gen)
    /\ Over(c)
    /\ UNCHANGED <<auth, view, local, counts, ending, due, asked, socket, late>>

\* Answered, or failed for a reason that says nothing about the session.
Answered(c) ==
    /\ call[c].phase # "none"
    /\ c \in Requests /\ call[c].phase = "sent" => call[c].session \in accepted
    /\ Over(c)
    /\ UNCHANGED <<auth, view, local, counts, endings, socket, late>>

-----------------------------------------------------------------------------
(* Entering the surface.                                                   *)

\* enter_surface, up to its first await: who is the user?
Begins(s) ==
    /\ IF tokens # 0
       THEN GetToken(s) /\ Moves(s, "whoami") /\ UNCHANGED rejections
       ELSE Notify(gen) /\ Over(s) /\ UNCHANGED <<socket, refreshes>>
    /\ UNCHANGED <<tokens, accepted, view, local, failures, ending, due, asked,
                   late>>

\* The flight that on_mount starts.
WarmupBegins ==
    /\ enter["warmup"].phase = "begin"
    /\ Begins("warmup")
    /\ UNCHANGED <<gen, sessions>>

\* start_warmup: Enter on the warm-up screen retries a failed flight, which
\* the user reads long after the worker of its rejection has begun.
RetryWarmup ==
    /\ ReadsKey
    /\ ~due
    /\ Top = "warmup"
    /\ ~ready
    /\ enter["warmup"].phase = "none"
    /\ Begins("warmup")
    /\ UNCHANGED <<gen, sessions>>

\* Enter on the gate: a browser sign-in, unless tokens are stored already.
PressSignIn ==
    /\ ReadsKey
    /\ Top = "sign_in"
    /\ enter["signin"].phase = "none"
    /\ \/ tokens # 0 /\ Begins("signin") /\ UNCHANGED <<gen, sessions>>
       \/ /\ tokens = 0
          /\ sessions < MaxSessions
          /\ sessions' = sessions + 1
          /\ gen' = gen + 1
          /\ enter' = [enter EXCEPT !["signin"] =
                 [phase |-> "browser", session |-> sessions + 1,
                  gen |-> gen + 1]]
          /\ UNCHANGED <<tokens, accepted, view, local, counts, endings, call,
                         socket, late>>

\* The browser sign-in brings tokens, which are stored unless a newer
\* generation superseded it.  The worker of a rejection that was accepted
\* before has begun long before an answer of the browser arrives.
BrowserDone ==
    LET e == enter["signin"]
    IN  /\ e.phase = "browser"
        /\ ~due
        /\ accepted' = accepted \cup {e.session}
        /\ IF e.gen = gen
           THEN tokens' = e.session /\ Moves("signin", "stored")
           ELSE Moves("signin", "failed") /\ UNCHANGED tokens
        /\ UNCHANGED <<gen, sessions, view, local, counts, endings, call,
                       socket, late>>

\* Cancelled with Escape, timed out or refused.
BrowserFails ==
    /\ enter["signin"].phase = "browser"
    /\ Moves("signin", "failed")
    /\ UNCHANGED <<auth, view, local, counts, endings, call, socket, late>>

\* The finally clause of sign_in: the thread that waits for the browser's
\* callback has ended, and the loopback server is closed.  Over stored tokens
\* the surface is entered.
CleanedUp ==
    /\ \/ enter["signin"].phase = "stored" /\ Begins("signin")
       \/ /\ enter["signin"].phase = "failed"
          /\ Moves("signin", "none")
          /\ UNCHANGED <<tokens, accepted, view, local, counts, endings, call,
                         socket, late>>
    /\ UNCHANGED <<gen, sessions>>

WhoamiDone(s) ==
    /\ enter[s].phase = "whoami"
    /\ call[s].phase = "sent"
    /\ call[s].session \in accepted
    /\ user' = call[s].session
    /\ call' = [call EXCEPT ![s] = NoCall]
    /\ Moves(s, "connect")
    /\ UNCHANGED <<auth, ready, stack, room, local, counts, endings, socket,
                   late>>

\* The supervisor does not come up, or does not list its workers.
ConnectFails(s) ==
    /\ enter[s].phase = "connect"
    /\ Over(s)
    /\ UNCHANGED <<auth, view, local, counts, endings, socket, late>>

\* The supervisor is connected and its workers listed: the surface is ready
\* and shown, and the room the view was opened for is asked for.
SurfaceReady(s) ==
    /\ enter[s].phase = "connect"
    /\ ready' = TRUE
    /\ stack' = <<"rooms">>
    /\ room' = FALSE
    /\ IF room /\ tokens # 0
       THEN GetToken(s) /\ Moves(s, "chats") /\ UNCHANGED rejections
       ELSE /\ Over(s)
            /\ IF room THEN Notify(gen) ELSE UNCHANGED rejections
            /\ UNCHANGED <<socket, refreshes>>
    /\ UNCHANGED <<auth, user, local, failures, ending, due, asked, late>>

\* _open_initial_room pushes the room if the user still has it, above
\* whatever is shown then.
InitialRoomFound(s) ==
    /\ enter[s].phase = "chats"
    /\ call[s].phase = "sent"
    /\ call[s].session \in accepted
    /\ stack' = Append(stack, "detail")
    /\ late' = (late \/ stack[1] # "rooms")
    /\ Over(s)
    /\ UNCHANGED <<auth, user, ready, room, local, counts, endings, socket>>

-----------------------------------------------------------------------------
(* Ending the session.                                                     *)

\* The tokens are gone, and only the gate is shown.
ToGate ==
    /\ tokens' = 0
    /\ gen' = gen + 1
    /\ user' = 0
    /\ stack' = <<"sign_in">>
    /\ server' = FALSE
    /\ asked' = FALSE
    /\ ending' = "none"
    /\ UNCHANGED <<sessions, accepted, room>>

\* The sign-out button of the settings screen pops it and runs _sign_out,
\* which stops the workers first and does nothing while a session is ending.
PressSignOut ==
    /\ ReadsKey
    /\ Top = "settings"
    /\ stack' = SubSeq(stack, 1, Len(stack) - 1)
    /\ asked' = TRUE
    /\ IF Ending THEN UNCHANGED <<ready, ending>>
       ELSE ready' = FALSE /\ ending' = "stopping"
    /\ UNCHANGED <<auth, user, room, local, counts, rejections, due, calls>>

\* on_authentication_rejected: a rejection of another generation, or one
\* while another is being handled, is dropped; else a worker is started.
HandlingRejection == due \/ ending = "expiring"

RejectionIgnored(g) ==
    /\ g \in rejections
    /\ g # gen \/ HandlingRejection
    /\ rejections' = rejections \ {g}
    /\ UNCHANGED <<auth, view, local, counts, ending, due, asked, calls>>

RejectionAccepted(g) ==
    /\ g \in rejections
    /\ g = gen
    /\ ~HandlingRejection
    /\ rejections' = rejections \ {g}
    /\ due' = TRUE
    /\ UNCHANGED <<auth, view, local, counts, ending, asked, calls>>

BugClearFirst ==
    /\ due
    /\ Ending
    /\ due' = FALSE
    /\ ready' = FALSE
    /\ ending' = "none"
    /\ UNCHANGED <<auth, user, stack, room, local, counts, rejections, asked,
                   calls>>

\* _handle_authentication_rejected begins while a session is ending.
RejectionDropped ==
    /\ due
    /\ Ending
    /\ due' = FALSE
    /\ UNCHANGED <<auth, view, local, counts, ending, rejections, asked, calls>>

BugRejectionEnds ==
    /\ due
    /\ ~Ending
    /\ due' = FALSE
    /\ IF server
       THEN /\ ending' = "expiring"
            /\ UNCHANGED <<auth, view, local, asked>>
       ELSE ToGate /\ UNCHANGED <<ready, workers>>
    /\ UNCHANGED <<counts, rejections, calls>>

\* It ends the session, up to its first await: closing the OpenCode server
\* takes time when it runs.
RejectionEnds ==
    /\ due
    /\ ~Ending
    /\ due' = FALSE
    /\ ready' = FALSE
    /\ IF server
       THEN /\ ending' = "expiring"
            /\ UNCHANGED <<auth, user, stack, room, local, asked>>
       ELSE ToGate /\ UNCHANGED workers
    /\ UNCHANGED <<counts, rejections, calls>>

BugWaitsAgain ==
    /\ ending = "stopping"
    /\ workers' = FALSE
    /\ UNCHANGED <<auth, view, server, counts, flows>>

\* The supervisor has stopped every worker.
WorkersStopped ==
    /\ ending = "stopping"
    /\ workers' = FALSE
    /\ IF server
       THEN ending' = "closing" /\ UNCHANGED <<auth, view, server, asked>>
       ELSE ToGate /\ UNCHANGED ready
    /\ UNCHANGED <<counts, rejections, due, calls>>

\* STOP_ALL fails: the user is told that the sign-out was cancelled.
StopFails ==
    /\ ending = "stopping"
    /\ failures < MaxStopFailures
    /\ failures' = failures + 1
    /\ asked' = FALSE
    /\ ending' = "none"
    /\ UNCHANGED <<auth, view, local, refreshes, rejections, due, calls>>

ServerClosed ==
    /\ ending \in {"closing", "expiring"}
    /\ ToGate
    /\ UNCHANGED <<ready, workers, counts, rejections, due, calls>>

-----------------------------------------------------------------------------
(* The user on the surface, and the world outside.                         *)

Navigates(screens) ==
    /\ ReadsKey
    /\ stack' = screens
    /\ UNCHANGED <<auth, user, ready, room, local, counts, flows>>

OpenRoom == Top = "rooms" /\ Navigates(Append(stack, "detail"))

OpenSettings == OnSurface /\ Navigates(Append(stack, "settings"))

Back ==
    /\ Top \in {"detail", "settings"}
    /\ Navigates(SubSeq(stack, 1, Len(stack) - 1))

\* A room subscribes to its topics: the socket is opened with the generation
\* that is current when its token is read.
OpenSocket ==
    /\ OnSurface
    /\ tokens # 0
    /\ socket = {}
    /\ socket' = {gen}
    /\ UNCHANGED <<auth, view, local, counts, endings, enter, call, late>>

\* A worker is started from an agent or room screen.
StartWorker ==
    /\ OnSurface
    /\ ~workers
    /\ workers' = TRUE
    /\ UNCHANGED <<auth, view, server, counts, flows>>

\* The agent form loads OpenCode's models from a server of the view.
StartServer ==
    /\ OnSurface
    /\ ~server
    /\ ending \notin {"closing", "expiring"}
    /\ server' = TRUE
    /\ UNCHANGED <<auth, view, workers, counts, flows>>

\* The platform ends a session.
Revoke(s) ==
    /\ s \in accepted
    /\ accepted' = accepted \ {s}
    /\ UNCHANGED <<tokens, gen, sessions, view, local, counts, flows>>

\* Another process of the user empties the keyring entry.
SignedOutElsewhere ==
    /\ tokens # 0
    /\ tokens' = 0
    /\ UNCHANGED <<gen, sessions, accepted, view, local, counts, flows>>

-----------------------------------------------------------------------------
CallStep(c) ==
    RefreshDone(c) \/ Tag(c) \/ RefreshLost(c) \/ Rejected(c) \/ Answered(c)

EnterStep(s) ==
    \/ WhoamiDone(s) \/ ConnectFails(s) \/ SurfaceReady(s) \/ InitialRoomFound(s)
    \/ CallStep(s)
    \/ s = "warmup" /\ WarmupBegins
    \/ s = "signin" /\ (BrowserDone \/ BrowserFails)

RejectionMessage ==
    \E g \in rejections : RejectionIgnored(g) \/ RejectionAccepted(g)

RejectionWorker == RejectionDropped \/ RejectionEnds

EndStep == WorkersStopped \/ StopFails \/ ServerClosed

Next ==
    \/ RetryWarmup \/ PressSignIn \/ PressSignOut \/ CleanedUp
    \/ \E s \in Slots : EnterStep(s)
    \/ RejectionMessage \/ RejectionWorker
    \/ EndStep
    \/ \E r \in Requests : Ask(r) \/ CallStep(r)
    \/ OpenRoom \/ OpenSettings \/ Back \/ OpenSocket
    \/ StartWorker \/ StartServer
    \/ \E s \in accepted : Revoke(s)
    \/ SignedOutElsewhere

Spec == Init /\ [][Next]_vars

(***************************************************************************)
(* Fairness: requests and the wait for the browser have timeouts, as have  *)
(* the supervisor's answers; messages and workers are run in turn, the     *)
(* rooms screen polls, and a platform that ended a session says so to a    *)
(* request that keeps being made.  The thread that waits for the browser's *)
(* callback has no timeout once a connection is open: what depends on its  *)
(* end says so (CallbackEnds).                                             *)
(***************************************************************************)
Fairness ==
    /\ \A s \in Slots : WF_vars(EnterStep(s))
    /\ WF_vars(RejectionMessage) /\ WF_vars(RejectionWorker) /\ WF_vars(EndStep)
    /\ \A r \in Requests : /\ WF_vars(Top = "rooms" /\ Ask(r))
                           /\ WF_vars(CallStep(r))
                           /\ SF_vars(Rejected(r))

FairSpec == Spec /\ Fairness

CallbackEnds == WF_vars(CleanedUp)

-----------------------------------------------------------------------------
(* Properties.                                                             *)

\* A ready surface belongs to a user, and its requests are made with that
\* user's tokens unless another process removed them: no platform call
\* happens before a sign-in succeeds (SignInScreen, enter_surface).
SurfaceIsSignedIn == ready => user # 0 /\ tokens \in {0, user}

\* ... for as long as nothing late was reported or shown: no other step of a
\* flight that an ended session left behind makes a surface ready.
TimelySurfaceIsSignedIn == ~late => SurfaceIsSignedIn

RoomsOfUser == Len(stack) > 0 /\ stack[1] = "rooms" /\ user # 0

\* While no session is ending, the screens of a signed-in user are shown by
\* a ready surface, so they follow the workers (_reconcile_workers), unless a
\* sign-out has failed.
SurfaceFollowsWorkers == ~late /\ failures = 0 /\ RoomsOfUser /\ ~Ending => ready

\* A sign-out that is cancelled leaves the surface as it was
\* (_return_to_sign_in).
CancelledSignOutChangesNothing == ~late /\ RoomsOfUser /\ ~Ending => ready

\* A rejection only ends a session that the platform no longer accepts, or
\* one whose tokens are gone (_observe_response, on_authentication_rejected).
RejectionsAreCurrent == [][ RejectionEnds => tokens \notin accepted ]_vars

\* ... for as long as nothing late was reported or shown.
TimelyRejectionsAreCurrent ==
    [][ ~late /\ RejectionEnds => tokens \notin accepted ]_vars

\* Signing out stops the managed workers before it clears access (_sign_out).
SignOutStopsWorkers ==
    [][ asked /\ stack # <<"sign_in">> /\ stack' = <<"sign_in">>
        => ~workers' ]_vars

\* A user who is not signed in sees the warm-up or the gate and nothing above
\* it (_return_to_sign_in).
GateIsAlone == user = 0 => Len(stack) = 1

\* A flight that enters the surface ends, so the gate and the warm-up screen
\* can be used again (SignInScreen._sign_in, _restore_surface).
EnteringEnds ==
    \A s \in Slots : enter[s].phase # "none" ~> enter[s].phase = "none"

\* A sign-out or a rejection under way ends.
EndingEnds == Ending ~> ~Ending

RoomsOfEndedSession == Top = "rooms" /\ tokens \notin accepted

\* A view does not stay on the rooms of a session that the platform ended or
\* another process signed out of.
EndedSessionLeaves == RoomsOfEndedSession ~> ~RoomsOfEndedSession

=============================================================================
