------------------------------ MODULE Realtime ------------------------------
(***************************************************************************)
(* The realtime socket of a view (src/src/band_wezterm/client.py) and the  *)
(* room screens that keep their room attached to it                        *)
(* (src/src/band_wezterm/tui/screens/rooms.py).                            *)
(*                                                                         *)
(* A coroutine is a room screen's subscribe_room or a request whose        *)
(* _bearer_token reconnects the socket after a credential rotation.  It    *)
(* runs without interruption up to its next await: fetching a token,       *)
(* opening a socket, or joining the topics of a room.  While one runs, the *)
(* others wait (EventLoop).  The two topics of a room are joined and left  *)
(* together.                                                               *)
(***************************************************************************)
EXTENDS Naturals, FiniteSets, Sequences, SequencesExt

CONSTANTS
    Rooms,      \* rooms that have a screen
    Calls,      \* requests that may reconnect the socket
    None,       \* the end of a loop over the rooms
    MaxSockets, \* bound on the sockets opened
    MaxGen,     \* bound on the credential's generation
    Modes       \* what may go wrong in a behaviour: "fail" for tokens,
                \* connections and joins that fail, "overlap" for screens that
                \* are opened, reloaded or closed while a coroutine waits

ASSUME RealtimeAssumption ==
    /\ MaxSockets \in Nat
    /\ MaxGen \in Nat
    /\ Modes \subseteq SUBSET {"fail", "overlap"}
    /\ None \notin Rooms
    /\ Rooms \cap Calls = {}

VARIABLES
    mode,     \* one of Modes
    gen,      \* host_auth.token_generation
    phx,      \* self._phx, or 0
    sockets,  \* the sockets opened: generation, rooms joined, not shut down
    rooms,    \* self._realtime_rooms
    view,     \* the screen of each room
    leaving,  \* rooms whose screen is in unsubscribe_room
    call      \* the coroutines

vars == <<mode, gen, phx, sockets, rooms, view, leaving, call>>

Coroutines == Rooms \cup Calls
Entry == [room : Rooms \cup {None}, checked : BOOLEAN, size : Nat]
Socket == [gen : 0..MaxGen, joined : SUBSET Rooms, open : BOOLEAN]
Call == [phase : {"idle", "fetch", "connect", "attach", "join"},
         todo : Seq(Entry), gen : 0..MaxGen, socket : 0..MaxSockets]
NoCall == [phase |-> "idle", todo |-> <<>>, gen |-> 0, socket |-> 0]

TypeOK ==
    /\ mode \in Modes
    /\ gen \in 0..MaxGen
    /\ sockets \in Seq(Socket)
    /\ phx \in 0..Len(sockets)
    /\ Len(sockets) <= MaxSockets
    /\ rooms \subseteq Rooms
    /\ view \in [Rooms -> {"closed", "connecting", "live", "failed"}]
    /\ leaving \subseteq Rooms
    /\ call \in [Coroutines -> Call]

Init ==
    /\ mode \in Modes
    /\ gen = 0
    /\ phx = 0
    /\ sockets = <<>>
    /\ rooms = {}
    /\ view = [r \in Rooms |-> "closed"]
    /\ leaving = {}
    /\ call = [c \in Coroutines |-> NoCall]

EventLoop == \A c \in Coroutines : call[c].phase # "attach"
Quiet == leaving = {} /\ \A c \in Coroutines : call[c].phase = "idle"
MayFail == "fail" \in mode
OneRequest == \A c, d \in Calls : c = d
MayAct == EventLoop /\ ("overlap" \in mode \/ Quiet)

Current == phx # 0 /\ sockets[phx].gen = gen

\* Faulty variants (Bug...) precede the definitions they vary; only
\* PROJECT.json refers to them.
BugShutDown(s) == sockets

ShutDown(s) ==
    IF s = 0 THEN sockets ELSE [sockets EXCEPT ![s].open = FALSE]

\* Both topics of a room are left on the current socket.
LeaveTopics(r) ==
    IF phx = 0 THEN sockets ELSE [sockets EXCEPT ![phx].joined = @ \ {r}]

\* _disconnect_realtime, and _ensure_realtime up to its token.
Reconnect(c, todo) ==
    /\ phx' = 0
    /\ sockets' = ShutDown(phx)
    /\ call' = [call EXCEPT ![c] = [NoCall EXCEPT !.phase = "fetch",
                                                  !.todo = todo]]

BugStaysRegistered(c, v) ==
    /\ call' = [call EXCEPT ![c] = NoCall]
    /\ view' = IF c \in Rooms /\ view[c] = "connecting"
               THEN [view EXCEPT ![c] = v] ELSE view
    /\ UNCHANGED rooms

\* The coroutine returns (v = "live") or raises (v = "failed"): a screen
\* shows which, and a room that could not be attached is discarded.
Returns(c, v) ==
    /\ call' = [call EXCEPT ![c] = NoCall]
    /\ view' = IF c \in Rooms /\ view[c] = "connecting"
               THEN [view EXCEPT ![c] = v] ELSE view
    /\ rooms' = IF v = "failed" THEN rooms \ {c} ELSE rooms

-----------------------------------------------------------------------------
(* subscribe_room and _bearer_token up to their first await.               *)

\* subscribe_room: nothing for a registered room, otherwise _ensure_realtime
\* and, if that did not connect, the topics of the room.
Subscribe(r) ==
    IF r \in rooms
    THEN /\ view' = [view EXCEPT ![r] = "live"]
         /\ call' = [call EXCEPT ![r] = NoCall]
         /\ UNCHANGED <<phx, sockets, rooms>>
    ELSE /\ view' = [view EXCEPT ![r] = "connecting"]
         /\ rooms' = rooms \cup {r}
         /\ IF Current
            THEN /\ call' = [call EXCEPT ![r] =
                        [NoCall EXCEPT !.phase = "attach",
                             !.todo = <<[room |-> r, checked |-> TRUE,
                                         size |-> 0]>>]]
                 /\ UNCHANGED <<phx, sockets>>
            ELSE Reconnect(r, <<>>)

\* on_mount: a room is opened from the rooms screen, so no other is open.
OpenScreen(r) ==
    /\ MayAct
    /\ \A q \in Rooms : view[q] = "closed"
    /\ call[r].phase = "idle"
    /\ Subscribe(r)
    /\ UNCHANGED <<gen, leaving>>

\* action_reload restarts the exclusive worker: one that is running is
\* cancelled, which is no Exception to subscribe_room.
Reload(r) ==
    /\ MayAct
    /\ view[r] # "closed"
    /\ Subscribe(r)
    /\ UNCHANGED <<gen, leaving>>

\* on_unmount: the listener is released, then the room; a worker still
\* running is cancelled after that.
CloseScreen(r) ==
    /\ MayAct
    /\ view[r] # "closed"
    /\ view' = [view EXCEPT ![r] = "closed"]
    /\ rooms' = rooms \ {r}
    /\ IF r \in rooms /\ phx # 0
       THEN leaving' = leaving \cup {r} /\ UNCHANGED call
       ELSE call' = [call EXCEPT ![r] = NoCall] /\ UNCHANGED leaving
    /\ UNCHANGED <<gen, phx, sockets>>

\* The end of unsubscribe_room, and of the screen with the worker it still
\* has: a screen that opened the room again meanwhile keeps its own.
Left(r) ==
    /\ EventLoop
    /\ r \in leaving
    /\ leaving' = leaving \ {r}
    /\ sockets' = LeaveTopics(r)
    /\ call' = IF view[r] = "closed" THEN [call EXCEPT ![r] = NoCall] ELSE call
    /\ UNCHANGED <<gen, phx, rooms, view>>

\* _bearer_token resets the socket of an older generation, and opens another
\* one if anybody listens.
RequestResets(c) ==
    /\ EventLoop
    /\ call[c].phase = "idle"
    /\ phx # 0
    /\ ~Current
    /\ IF \E r \in Rooms : view[r] \in {"connecting", "live"}
       THEN Reconnect(c, <<>>)
       ELSE phx' = 0 /\ sockets' = ShutDown(phx) /\ UNCHANGED call
    /\ UNCHANGED <<gen, rooms, view, leaving>>

\* The bound on the rotations: one where screens overlap.
Rotations == IF "overlap" \in mode /\ MaxGen > 1 THEN 1 ELSE MaxGen

\* HostAuth refreshes, signs out or signs in.
Rotate ==
    /\ EventLoop
    /\ gen < Rotations
    /\ gen' = gen + 1
    /\ UNCHANGED <<phx, sockets, rooms, view, leaving, call>>

-----------------------------------------------------------------------------
(* _ensure_realtime.                                                       *)

TokenFetched(c) ==
    /\ EventLoop
    /\ call[c].phase = "fetch"
    /\ call' = [call EXCEPT ![c].phase = "connect", ![c].gen = gen]
    /\ UNCHANGED <<gen, phx, sockets, rooms, view, leaving>>

BugLoop(order) == <<>>
BugLoopSize(order) ==
    [i \in 1..(Len(order) + 1) |->
        [room |-> IF i <= Len(order) THEN order[i] ELSE None,
         checked |-> i > Len(order), size |-> i - 2]]

\* The loop over the rooms: their topics, then the end, where Python notices
\* that the set has changed its size.
Loop(order) ==
    [i \in 1..(Len(order) + 1) |->
        [room |-> IF i <= Len(order) THEN order[i] ELSE None,
         checked |-> FALSE, size |-> Len(order) + 1]]

\* The socket is open: it becomes the current one, whatever was.
Connected(c) ==
    /\ EventLoop
    /\ call[c].phase = "connect"
    /\ Len(sockets) < MaxSockets
    /\ sockets' = Append(sockets, [gen |-> call[c].gen, joined |-> {},
                                   open |-> TRUE])
    /\ phx' = Len(sockets) + 1
    /\ \E order \in SetToSeqs(rooms) :
          call' = [call EXCEPT ![c].phase = "attach",
                               ![c].todo = Loop(order) \o @]
    /\ UNCHANGED <<gen, rooms, view, leaving>>

\* No token, or no connection.
ConnectFails(c) ==
    /\ EventLoop
    /\ MayFail
    /\ call[c].phase \in {"fetch", "connect"}
    /\ Returns(c, "failed")
    /\ UNCHANGED <<gen, phx, sockets, leaving>>

-----------------------------------------------------------------------------
(* _subscribe_room_topics, for the rooms of a loop or for one.             *)

Changed(e) == ~e.checked /\ Cardinality(rooms) + 1 # e.size

\* The running coroutine goes on to its next await or its end.
Attach(c) ==
    LET todo == call[c].todo
        e == Head(todo)
    IN  /\ call[c].phase = "attach"
        /\ \/ /\ todo = <<>>
              /\ Returns(c, "live")
              /\ UNCHANGED <<phx, sockets>>
           \/ /\ todo # <<>>
              /\ Changed(e) \/ (e.checked /\ phx = 0)
              /\ Returns(c, "failed")
              /\ UNCHANGED <<phx, sockets>>
           \/ /\ todo # <<>>
              /\ ~Changed(e)
              /\ e.room = None
              /\ call' = [call EXCEPT ![c].todo = Tail(todo)]
              /\ UNCHANGED <<phx, sockets, rooms, view>>
           \/ /\ todo # <<>>
              /\ ~Changed(e)
              /\ e.room # None
              /\ ~e.checked
              /\ ~Current
              /\ Reconnect(c, <<[e EXCEPT !.checked = TRUE]>> \o Tail(todo))
              /\ UNCHANGED <<rooms, view>>
           \/ /\ todo # <<>>
              /\ ~Changed(e)
              /\ e.room # None
              /\ Current \/ (e.checked /\ phx # 0)
              /\ call' = [call EXCEPT ![c].phase = "join", ![c].socket = phx]
              /\ UNCHANGED <<phx, sockets, rooms, view>>
        /\ UNCHANGED <<gen, leaving>>

\* The socket answers both joins.
Joined(c) ==
    LET s == call[c].socket
        r == Head(call[c].todo).room
    IN  /\ EventLoop
        /\ call[c].phase = "join"
        /\ sockets[s].open
        /\ sockets' = [sockets EXCEPT ![s].joined = @ \cup {r}]
        /\ call' = [call EXCEPT ![c].phase = "attach", ![c].todo = Tail(@)]
        /\ UNCHANGED <<gen, phx, rooms, view, leaving>>

BugJoinWaits(c) ==
    /\ EventLoop
    /\ call[c].phase = "join"
    /\ sockets[call[c].socket].open
    /\ MayFail
    /\ Returns(c, "failed")
    /\ UNCHANGED <<gen, phx, sockets, leaving>>

\* A join fails, and always on a socket that was shut down: the topics of the
\* room are left on the current socket.
JoinFails(c) ==
    LET r == Head(call[c].todo).room
    IN  /\ EventLoop
        /\ call[c].phase = "join"
        /\ MayFail \/ ~sockets[call[c].socket].open
        /\ sockets' = LeaveTopics(r)
        /\ Returns(c, "failed")
        /\ UNCHANGED <<gen, phx, leaving>>

-----------------------------------------------------------------------------
Advances(c) ==
    \/ TokenFetched(c) \/ Connected(c) \/ ConnectFails(c) \/ Attach(c)
    \/ Joined(c) \/ JoinFails(c)

Step ==
    \/ \E r \in Rooms : \/ OpenScreen(r) \/ Reload(r) \/ CloseScreen(r)
                        \/ Left(r)
    \/ \E c \in Calls : RequestResets(c)
    \/ \E c \in Coroutines : Advances(c)
    \/ Rotate

Next == Step /\ UNCHANGED mode

Spec == Init /\ [][Next]_vars

\* Token requests, connections and joins have timeouts, and the event loop
\* comes back to a coroutine however often another one runs.
Fairness == \A c \in Coroutines : SF_vars(Advances(c) /\ UNCHANGED mode)
FairSpec == Spec /\ Fairness

-----------------------------------------------------------------------------
(* Properties.                                                             *)

\* A room screen that reports no realtime error gets the events of its room:
\* once nothing is under way, the room is joined on the current socket
\* (subscribe_room, _ensure_realtime).  This is so unless a reload overlaps a
\* subscription, a reconnect after a rotation fails, or a second rotation
\* makes a request reset the socket on which another request joins: that join
\* fails later and leaves the topics on the socket that is current by then.
LiveRoomsAreJoined ==
    /\ Quiet
    /\ "overlap" \notin mode
    /\ MayFail => gen = 0
    /\ gen > 1 => OneRequest
    =>
        \A r \in Rooms : view[r] = "live" =>
            phx # 0 /\ r \in sockets[phx].joined

\* ... in any circumstances: the topics of a room are kept live across
\* reconnects and remounts (subscribe_room).
RoomsStayLive ==
    Quiet => \A r \in Rooms : view[r] = "live" =>
                 phx # 0 /\ r \in sockets[phx].joined

\* Two coroutines never connect at once, and no socket is open besides the
\* current one, so that an event reaches the listeners once
\* (_ensure_realtime): whichever requests find the socket stale while another
\* reconnects or joins, unless a screen acts after a rotation.
OneSocket ==
    ("overlap" \in mode => gen = 0) =>
        /\ \A c, d \in Coroutines :
               {call[c].phase, call[d].phase} \subseteq {"fetch", "connect"} => c = d
        /\ \A s \in 1..Len(sockets) : sockets[s].open => s = phx

\* The topics of a room are attached to one socket (_subscribe_room_topics).
TopicsAreAttachedOnce ==
    \A s, t \in 1..Len(sockets) :
        sockets[s].open /\ sockets[t].open /\ s # t =>
            sockets[s].joined \cap sockets[t].joined = {}

\* A screen that failed or was closed leaves no registration and no topic
\* behind (unsubscribe_room), unless a rotation replaced the socket of a
\* subscription that fails.
ClosedRoomsAreReleased ==
    Quiet /\ gen = 0 =>
        \A r \in Rooms : view[r] \in {"closed", "failed"} =>
            /\ r \notin rooms
            /\ \A s \in 1..Len(sockets) :
                   sockets[s].open => r \notin sockets[s].joined

\* Every subscription and every reconnect comes to an end.
CallsEnd == \A c \in Coroutines : call[c].phase # "idle" ~> call[c].phase = "idle"

=============================================================================
