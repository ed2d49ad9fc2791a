---------------------------- MODULE RealtimeProofs ----------------------------
(***************************************************************************)
(* Proofs about the realtime socket of Realtime.  The inductive invariant  *)
(* Inv has a part that always holds (Shape) and one for each of the three  *)
(* circumstances that the properties name: no screen acts while a request  *)
(* reconnects (Regular), before the first rotation (gen = 0), and nothing  *)
(* overlaps and no reconnect fails (Serene).  A circumstance that has      *)
(* ended never comes back, so each part is kept on its own.                *)
(***************************************************************************)
EXTENDS Realtime, FiniteSetTheorems, TLAPS

Active(c) == call[c].phase # "idle"
Connecting(c) == call[c].phase \in {"fetch", "connect"}
Joining(c) == call[c].phase = "join"
Todo(c) == call[c].todo
Target(c) == Head(Todo(c)).room

\* A coroutine that carries the attachment of the rooms forward: it opens a
\* socket, or joins on one that is open.
Leads(c) ==
    \/ Connecting(c)
    \/ call[c].phase = "attach"
    \/ Joining(c) /\ sockets[call[c].socket].open

-----------------------------------------------------------------------------
(* What always holds.                                                      *)

OneScreen ==
    \A q, r \in Rooms : view[q] # "closed" /\ view[r] # "closed" => q = r

RegisteredHaveScreen == \A r \in rooms : view[r] \in {"connecting", "live"}

CurrentIsOpen == phx # 0 => sockets[phx].open

GenerationsArePast ==
    /\ \A s \in 1..Len(sockets) : sockets[s].gen <= gen
    /\ \A c \in Coroutines : call[c].gen <= gen

IdleIsClear ==
    \A c \in Coroutines : call[c].phase = "idle" => call[c] = NoCall

JoinsHaveTarget ==
    \A c \in Coroutines : Joining(c) =>
        /\ call[c].socket \in 1..Len(sockets)
        /\ Todo(c) # <<>>
        /\ Target(c) # None

OneRuns ==
    \A c, d \in Coroutines :
        call[c].phase = "attach" /\ call[d].phase = "attach" => c = d

Shape ==
    /\ OneScreen /\ RegisteredHaveScreen /\ CurrentIsOpen
    /\ GenerationsArePast /\ IdleIsClear /\ JoinsHaveTarget /\ OneRuns

-----------------------------------------------------------------------------
(* No screen acts while a request reconnects.                              *)

Regular == "overlap" \in mode => gen = 0

OnlyCurrentOpen == \A s \in 1..Len(sockets) : sockets[s].open => s = phx

ConnectsAlone ==
    \A c \in Coroutines : Connecting(c) =>
        /\ phx = 0
        /\ \A d \in Coroutines : Connecting(d) => c = d

AttachHasSocket == \A c \in Coroutines : call[c].phase = "attach" => phx # 0

\* A screen that connects is the one that is shown.
OwnConnect ==
    gen = 0 => \A c \in Coroutines : Connecting(c) =>
        c \in Rooms /\ view[c] = "connecting" /\ c \in rooms

RegularInv == OnlyCurrentOpen /\ ConnectsAlone /\ AttachHasSocket /\ OwnConnect

-----------------------------------------------------------------------------
(* Before the first rotation.                                              *)

ActiveHasScreen ==
    \A c \in Coroutines : Active(c) =>
        /\ c \in Rooms
        /\ \/ view[c] = "connecting" /\ c \in rooms
           \/ view[c] = "closed" /\ c \in leaving

OwnEntries ==
    \A c \in Coroutines :
        /\ Connecting(c) => Todo(c) = <<>>
        /\ \A i \in 1..Len(Todo(c)) :
              /\ Todo(c)[i].room \in {c, None}
              /\ ~Todo(c)[i].checked => Todo(c)[i].size = 2

OwnJoins == \A c \in Coroutines : Joining(c) => call[c].socket = phx

JoinedAreRegistered ==
    \A s \in 1..Len(sockets) :
        sockets[s].open => sockets[s].joined \subseteq rooms \cup leaving

FreshInv == ActiveHasScreen /\ OwnEntries /\ OwnJoins /\ JoinedAreRegistered

-----------------------------------------------------------------------------
(* Nothing overlaps, and no reconnect fails.                               *)

Serene ==
    /\ "overlap" \notin mode
    /\ MayFail => gen = 0
    /\ gen > 1 => OneRequest

LeavesAlone ==
    leaving # {} =>
        /\ \A c \in Coroutines : ~Active(c)
        /\ \A r \in Rooms : view[r] = "closed"

LiveIsRegistered == \A r \in Rooms : view[r] = "live" => r \in rooms

ActiveIsRegistered ==
    \A r \in Rooms : Active(r) => view[r] = "connecting" /\ r \in rooms

OneLeads == \A c, d \in Coroutines : Leads(c) /\ Leads(d) => c = d

EntriesAreValid ==
    \A c \in Coroutines : \A i \in 1..Len(Todo(c)) :
        /\ Todo(c)[i].room # None => view[Todo(c)[i].room] # "closed"
        /\ ~Todo(c)[i].checked => rooms = {} \/ Todo(c)[i].size = 2

\* A request never joins on a socket that was shut down.
RequestsJoinOpen ==
    \A c \in Calls : Joining(c) => sockets[call[c].socket].open

RequestsAreCurrent ==
    gen <= 1 => \A c \in Calls : Active(c) =>
        /\ gen = 1
        /\ call[c].phase = "connect" => call[c].gen = 1
        /\ call[c].phase \in {"attach", "join"} => Current

\* What becomes of a registered room: it is joined, a coroutine will join it,
\* or its own subscription is about to fail.
Pending(c, r) ==
    /\ Leads(c)
    /\ \/ Connecting(c)
       \/ \E i \in 1..Len(Todo(c)) : Todo(c)[i].room = r

RoomsAreCared ==
    \A r \in rooms :
        \/ phx # 0 /\ r \in sockets[phx].joined
        \/ \E c \in Coroutines : Pending(c, r)
        \/ Joining(r) /\ ~sockets[call[r].socket].open

SereneInv ==
    /\ LeavesAlone /\ LiveIsRegistered /\ ActiveIsRegistered /\ OneLeads
    /\ EntriesAreValid /\ RequestsJoinOpen /\ RequestsAreCurrent
    /\ RoomsAreCared

Inv ==
    /\ TypeOK
    /\ Shape
    /\ Regular => RegularInv
    /\ gen = 0 => FreshInv
    /\ Serene => SereneInv

-----------------------------------------------------------------------------
(* Lemmas about the operators.                                             *)

\* At most one room is registered: the one whose screen is shown.
LEMMA OneRoom ==
    ASSUME TypeOK, OneScreen, RegisteredHaveScreen
    PROVE  rooms = {} \/ \E r \in Rooms : rooms = {r}
<1>1. SUFFICES ASSUME NEW r \in rooms
               PROVE  rooms = {r}
  BY DEF TypeOK
<1>2. \A q \in rooms : view[q] # "closed" /\ q \in Rooms
  BY DEF TypeOK, RegisteredHaveScreen
<1>3. QED
  BY <1>2 DEF OneScreen

\* The orders of a loop over at most one room.
LEMMA OneOrder ==
    ASSUME rooms = {} \/ \E r \in Rooms : rooms = {r},
           NEW order \in SetToSeqs(rooms)
    PROVE  \/ rooms = {} /\ order = <<>>
           \/ \E r \in Rooms : rooms = {r} /\ order = <<r>>
<1>1. CASE rooms = {}
  <2>1. Cardinality(rooms) = 0
    BY <1>1, FS_EmptySet
  <2>2. order \in [1..0 -> rooms]
    BY <2>1 DEF SetToSeqs
  <2>3. QED
    BY <1>1, <2>2
<1>2. ASSUME NEW r \in Rooms, rooms = {r}
      PROVE  order = <<r>>
  <2>1. Cardinality(rooms) = 1
    BY <1>2, FS_Singleton
  <2>2. order \in [1..1 -> {r}]
    BY <1>2, <2>1 DEF SetToSeqs
  <2>3. order \in Seq({r}) /\ Len(order) = 1 /\ order[1] = r
    BY <2>2
  <2>4. QED
    BY <2>3
<1>3. QED
  BY <1>1, <1>2

\* A loop over at most one room, as the entries it leaves to do.
LEMMA OneLoop ==
    ASSUME TypeOK, OneScreen, RegisteredHaveScreen,
           NEW order \in SetToSeqs(rooms)
    PROVE  /\ Loop(order) \in Seq(Entry)
           /\ \A i \in 1..Len(Loop(order)) :
                 /\ ~Loop(order)[i].checked
                 /\ Loop(order)[i].room \in rooms \cup {None}
                 /\ rooms = {} \/ Loop(order)[i].size = 2
           /\ \A r \in rooms : \E i \in 1..Len(Loop(order)) :
                 Loop(order)[i].room = r
<1>1. \/ rooms = {} /\ order = <<>>
      \/ \E r \in Rooms : rooms = {r} /\ order = <<r>>
  BY OneRoom, OneOrder
<1>2. CASE rooms = {} /\ order = <<>>
  <2>1. Loop(order) = [i \in 1..1 |-> [room |-> None, checked |-> FALSE,
                                       size |-> 1]]
    BY <1>2 DEF Loop
  <2>2. [room |-> None, checked |-> FALSE, size |-> 1] \in Entry
    BY DEF Entry
  <2>3. Loop(order) \in Seq(Entry) /\ Len(Loop(order)) = 1
    BY <2>1, <2>2
  <2>4. \A i \in 1..1 : Loop(order)[i] = [room |-> None, checked |-> FALSE,
                                          size |-> 1]
    BY <2>1
  <2>5. QED
    BY <1>2, <2>3, <2>4
<1>3. ASSUME NEW r \in Rooms, rooms = {r}, order = <<r>>
      PROVE  /\ Loop(order) \in Seq(Entry)
             /\ Len(Loop(order)) = 2
             /\ Loop(order)[1] = [room |-> r, checked |-> FALSE, size |-> 2]
             /\ Loop(order)[2] = [room |-> None, checked |-> FALSE, size |-> 2]
  <2>1. Len(order) = 1 /\ order[1] = r
    BY <1>3
  <2>2. Loop(order) = [i \in 1..2 |-> [room |-> IF i <= 1 THEN r ELSE None,
                                       checked |-> FALSE, size |-> 2]]
    <3>1. Len(order) + 1 = 2
      BY <2>1
    <3>2. \A i \in 1..2 : (IF i <= Len(order) THEN order[i] ELSE None)
                           = (IF i <= 1 THEN r ELSE None)
      BY <2>1
    <3>3. QED
      BY <3>1, <3>2 DEF Loop
  <2>3. \A i \in 1..2 : [room |-> IF i <= 1 THEN r ELSE None,
                         checked |-> FALSE, size |-> 2] \in Entry
    BY DEF Entry
  <2>4. Loop(order) \in Seq(Entry) /\ Len(Loop(order)) = 2
    BY <2>2, <2>3
  <2>5. QED
    BY <2>2, <2>4
<1>4. QED
  <2>1. SUFFICES ASSUME NEW r \in Rooms, rooms = {r}, order = <<r>>
                 PROVE  /\ Loop(order) \in Seq(Entry)
                        /\ \A i \in 1..Len(Loop(order)) :
                              /\ ~Loop(order)[i].checked
                              /\ Loop(order)[i].room \in rooms \cup {None}
                              /\ Loop(order)[i].size = 2
                        /\ \A q \in rooms : \E i \in 1..Len(Loop(order)) :
                              Loop(order)[i].room = q
    BY <1>1, <1>2
  <2>2. /\ Loop(order) \in Seq(Entry)
        /\ Len(Loop(order)) = 2
        /\ Loop(order)[1] = [room |-> r, checked |-> FALSE, size |-> 2]
        /\ Loop(order)[2] = [room |-> None, checked |-> FALSE, size |-> 2]
    BY <1>3, <2>1, Zenon
  <2>3. \A i \in 1..Len(Loop(order)) : i = 1 \/ i = 2
    BY <2>2
  <2>4. 1 \in 1..Len(Loop(order))
    BY <2>2
  <2>5. QED
    BY <2>1, <2>2, <2>3, <2>4

-----------------------------------------------------------------------------
(* Type correctness.                                                       *)

LEMMA NoCallType == NoCall \in Call
BY RealtimeAssumption DEF NoCall, Call

LEMMA SocketTypes ==
    ASSUME TypeOK
    PROVE  /\ sockets \in [1..Len(sockets) -> Socket]
           /\ Len(sockets) \in Nat
           /\ phx # 0 => phx \in 1..Len(sockets)
BY DEF TypeOK

\* What replacing one socket does.
LEMMA SocketUpdate ==
    ASSUME TypeOK, NEW s \in 1..Len(sockets), NEW f \in Socket
    PROVE  /\ [sockets EXCEPT ![s] = f] \in Seq(Socket)
           /\ Len([sockets EXCEPT ![s] = f]) = Len(sockets)
           /\ \A t \in 1..Len(sockets) :
                 [sockets EXCEPT ![s] = f][t] = IF t = s THEN f ELSE sockets[t]
BY DEF TypeOK

LEMMA ShutDownEffect ==
    ASSUME TypeOK
    PROVE  /\ ShutDown(phx) \in Seq(Socket)
           /\ Len(ShutDown(phx)) = Len(sockets)
           /\ \A s \in 1..Len(sockets) :
                 /\ ShutDown(phx)[s].gen = sockets[s].gen
                 /\ ShutDown(phx)[s].joined = sockets[s].joined
                 /\ ShutDown(phx)[s].open = (sockets[s].open /\ s # phx)
<1> DEFINE f == [sockets[phx] EXCEPT !.open = FALSE]
<1>1. CASE phx = 0
  <2>1. \A s \in 1..Len(sockets) : sockets[s].open = (sockets[s].open /\ s # 0)
    <3>1. \A s \in 1..Len(sockets) : sockets[s].open \in BOOLEAN /\ s # 0
      BY SocketTypes DEF Socket
    <3>2. QED
      BY <3>1
  <2>2. QED
    BY <1>1, <2>1, SocketTypes DEF ShutDown, TypeOK
<1>2. CASE phx # 0
  <2>1. phx \in 1..Len(sockets) /\ sockets[phx] \in Socket
    BY <1>2, SocketTypes
  <2>2. /\ f \in Socket /\ f.gen = sockets[phx].gen
        /\ f.joined = sockets[phx].joined /\ f.open = FALSE
    BY <2>1 DEF Socket
  <2>3. ShutDown(phx) = [sockets EXCEPT ![phx] = f]
    BY <1>2 DEF ShutDown
  <2>4. \A s \in 1..Len(sockets) : sockets[s].open \in BOOLEAN
    BY SocketTypes DEF Socket
  <2> HIDE DEF f
  <2>5. /\ ShutDown(phx) \in Seq(Socket) /\ Len(ShutDown(phx)) = Len(sockets)
        /\ \A s \in 1..Len(sockets) :
              ShutDown(phx)[s] = IF s = phx THEN f ELSE sockets[s]
    BY <2>1, <2>2, <2>3, SocketUpdate
  <2>6. QED
    BY <2>2, <2>4, <2>5
<1>3. QED
  BY <1>1, <1>2

LEMMA LeaveTopicsEffect ==
    ASSUME TypeOK, NEW r
    PROVE  /\ LeaveTopics(r) \in Seq(Socket)
           /\ Len(LeaveTopics(r)) = Len(sockets)
           /\ \A s \in 1..Len(sockets) :
                 /\ LeaveTopics(r)[s].gen = sockets[s].gen
                 /\ LeaveTopics(r)[s].open = sockets[s].open
                 /\ LeaveTopics(r)[s].joined =
                       IF s = phx THEN sockets[s].joined \ {r}
                       ELSE sockets[s].joined
<1> DEFINE f == [sockets[phx] EXCEPT !.joined = sockets[phx].joined \ {r}]
<1>1. CASE phx = 0
  BY <1>1, SocketTypes DEF LeaveTopics, TypeOK
<1>2. CASE phx # 0
  <2>1. phx \in 1..Len(sockets) /\ sockets[phx] \in Socket
    BY <1>2, SocketTypes
  <2>2. /\ f \in Socket /\ f.gen = sockets[phx].gen
        /\ f.joined = sockets[phx].joined \ {r} /\ f.open = sockets[phx].open
    BY <2>1 DEF Socket
  <2>3. LeaveTopics(r) = [sockets EXCEPT ![phx] = f]
    BY <1>2 DEF LeaveTopics
  <2> HIDE DEF f
  <2>4. /\ LeaveTopics(r) \in Seq(Socket)
        /\ Len(LeaveTopics(r)) = Len(sockets)
        /\ \A s \in 1..Len(sockets) :
              LeaveTopics(r)[s] = IF s = phx THEN f ELSE sockets[s]
    BY <2>1, <2>2, <2>3, SocketUpdate
  <2>5. QED
    BY <2>2, <2>4
<1>3. QED
  BY <1>1, <1>2

LEMMA JoinedEffect ==
    ASSUME TypeOK, NEW c \in Coroutines, Joined(c),
           call[c].socket \in 1..Len(sockets), Target(c) \in Rooms
    PROVE  /\ sockets' \in Seq(Socket)
           /\ Len(sockets') = Len(sockets)
           /\ \A s \in 1..Len(sockets) :
                 /\ sockets'[s].gen = sockets[s].gen
                 /\ sockets'[s].open = sockets[s].open
                 /\ sockets'[s].joined =
                       IF s = call[c].socket
                       THEN sockets[s].joined \cup {Target(c)}
                       ELSE sockets[s].joined
<1> DEFINE t == call[c].socket
           f == [sockets[t] EXCEPT !.joined = sockets[t].joined \cup {Target(c)}]
<1>1. sockets[t] \in Socket
  BY SocketTypes
<1>2. /\ f \in Socket /\ f.gen = sockets[t].gen /\ f.open = sockets[t].open
      /\ f.joined = sockets[t].joined \cup {Target(c)}
  BY <1>1 DEF Socket
<1>3. sockets' = [sockets EXCEPT ![t] = f]
  BY DEF Joined, Target, Todo
<1> HIDE DEF f
<1>4. /\ sockets' \in Seq(Socket) /\ Len(sockets') = Len(sockets)
      /\ \A s \in 1..Len(sockets) :
            sockets'[s] = IF s = t THEN f ELSE sockets[s]
  BY <1>2, <1>3, SocketUpdate
<1>5. QED
  BY <1>2, <1>4

LEMMA ReconnectTypes ==
    ASSUME TypeOK, NEW c \in Coroutines, NEW todo \in Seq(Entry),
           Reconnect(c, todo)
    PROVE  /\ sockets' \in Seq(Socket) /\ Len(sockets') = Len(sockets)
           /\ phx' = 0
           /\ call' \in [Coroutines -> Call]
           /\ call'[c].phase = "fetch" /\ call'[c].todo = todo
           /\ call'[c].gen = 0
           /\ \A d \in Coroutines : d # c => call'[d] = call[d]
           /\ \A s \in 1..Len(sockets) :
                 /\ sockets'[s].gen = sockets[s].gen
                 /\ sockets'[s].joined = sockets[s].joined
                 /\ sockets'[s].open = (sockets[s].open /\ s # phx)
<1> DEFINE f == [NoCall EXCEPT !.phase = "fetch", !.todo = todo]
<1>1. f \in Call /\ f.phase = "fetch" /\ f.todo = todo /\ f.gen = 0
  BY NoCallType DEF NoCall, Call
<1>2. call' = [call EXCEPT ![c] = f] /\ sockets' = ShutDown(phx) /\ phx' = 0
  BY DEF Reconnect
<1> HIDE DEF f
<1>3. call' \in [Coroutines -> Call] /\ call'[c] = f
  BY <1>1, <1>2 DEF TypeOK
<1>4. \A d \in Coroutines : d # c => call'[d] = call[d]
  BY <1>2 DEF TypeOK
<1>5. QED
  BY <1>1, <1>2, <1>3, <1>4, ShutDownEffect

LEMMA SubscribeTypes ==
    ASSUME TypeOK, NEW r \in Rooms, Subscribe(r)
    PROVE  /\ sockets' \in Seq(Socket) /\ Len(sockets') = Len(sockets)
           /\ phx' \in 0..Len(sockets)
           /\ rooms' \subseteq Rooms
           /\ view' \in [Rooms -> {"closed", "connecting", "live", "failed"}]
           /\ call' \in [Coroutines -> Call]
<1>1. <<>> \in Seq(Entry) /\ r \in Coroutines
  BY DEF Coroutines
<1>2. [room |-> r, checked |-> TRUE, size |-> 0] \in Entry
  BY DEF Entry
<1>3. <<[room |-> r, checked |-> TRUE, size |-> 0]>> \in Seq(Entry)
  BY <1>2
<1>4. [NoCall EXCEPT !.phase = "attach",
                     !.todo = <<[room |-> r, checked |-> TRUE,
                                 size |-> 0]>>] \in Call
  BY <1>3, NoCallType DEF NoCall, Call
<1>5. CASE r \in rooms
  BY <1>1, <1>5, NoCallType DEF Subscribe, TypeOK
<1>6. CASE r \notin rooms /\ Current
  BY <1>1, <1>4, <1>6 DEF Subscribe, TypeOK
<1>7. CASE r \notin rooms /\ ~Current
  <2>1. Reconnect(r, <<>>)
    BY <1>7 DEF Subscribe
  <2>2. /\ sockets' \in Seq(Socket) /\ Len(sockets') = Len(sockets)
        /\ phx' = 0 /\ call' \in [Coroutines -> Call]
    BY <1>1, <2>1, ReconnectTypes, Zenon
  <2>3. QED
    BY <1>7, <2>2 DEF Subscribe, TypeOK
<1>8. QED
  BY <1>5, <1>6, <1>7

LEMMA ReturnsTypes ==
    ASSUME TypeOK, NEW c \in Coroutines, NEW v \in {"live", "failed"},
           Returns(c, v)
    PROVE  /\ rooms' \subseteq Rooms
           /\ view' \in [Rooms -> {"closed", "connecting", "live", "failed"}]
           /\ call' \in [Coroutines -> Call]
BY NoCallType DEF TypeOK, Returns

LEMMA AttachTypes ==
    ASSUME TypeOK, NEW c \in Coroutines, Attach(c), UNCHANGED mode
    PROVE  TypeOK'
<1> DEFINE todo == call[c].todo
           e == Head(todo)
<1>1. call[c] \in Call /\ todo \in Seq(Entry)
  BY DEF TypeOK, Call
<1>2. todo # <<>> => e \in Entry /\ Tail(todo) \in Seq(Entry)
  BY <1>1
<1>3. UNCHANGED <<gen, leaving, mode>>
  BY DEF Attach
<1>4. ASSUME NEW v \in {"live", "failed"}, Returns(c, v),
             UNCHANGED <<phx, sockets>>
      PROVE  TypeOK'
  BY <1>3, <1>4, ReturnsTypes DEF TypeOK
<1>5. CASE /\ todo # <<>>
           /\ call' = [call EXCEPT ![c].todo = Tail(todo)]
           /\ UNCHANGED <<phx, sockets, rooms, view>>
  BY <1>1, <1>2, <1>3, <1>5 DEF TypeOK, Call
<1>6. CASE /\ todo # <<>>
           /\ Reconnect(c, <<[e EXCEPT !.checked = TRUE]>> \o Tail(todo))
           /\ UNCHANGED <<rooms, view>>
  <2>1. [e EXCEPT !.checked = TRUE] \in Entry
    BY <1>2, <1>6 DEF Entry
  <2>2. <<[e EXCEPT !.checked = TRUE]>> \o Tail(todo) \in Seq(Entry)
    BY <1>2, <1>6, <2>1
  <2>3. /\ sockets' \in Seq(Socket) /\ Len(sockets') = Len(sockets)
        /\ phx' = 0 /\ call' \in [Coroutines -> Call]
    BY <1>6, <2>2, ReconnectTypes, Zenon
  <2>4. QED
    BY <1>3, <1>6, <2>3 DEF TypeOK
<1>7. CASE /\ call' = [call EXCEPT ![c].phase = "join", ![c].socket = phx]
           /\ UNCHANGED <<phx, sockets, rooms, view>>
  <2>1. phx \in 0..MaxSockets
    BY RealtimeAssumption DEF TypeOK
  <2>2. call' \in [Coroutines -> Call]
    BY <1>1, <1>7, <2>1 DEF TypeOK, Call
  <2>3. QED
    BY <1>3, <1>7, <2>2 DEF TypeOK
<1>8. QED
  BY <1>4, <1>5, <1>6, <1>7 DEF Attach

LEMMA TypeStep ==
    ASSUME TypeOK, Shape, Next
    PROVE  TypeOK'
<1> USE DEF Next
<1>1. ASSUME NEW r \in Rooms, OpenScreen(r) \/ Reload(r)
      PROVE  TypeOK'
  <2>1. Subscribe(r) /\ UNCHANGED <<gen, leaving>>
    BY <1>1 DEF OpenScreen, Reload
  <2>2. QED
    BY <2>1, SubscribeTypes DEF TypeOK
<1>2. ASSUME NEW r \in Rooms, CloseScreen(r)
      PROVE  TypeOK'
  BY <1>2, NoCallType DEF CloseScreen, TypeOK
<1>3. ASSUME NEW r \in Rooms, Left(r)
      PROVE  TypeOK'
  BY <1>3, NoCallType, LeaveTopicsEffect DEF Left, TypeOK
<1>4. ASSUME NEW c \in Calls, RequestResets(c)
      PROVE  TypeOK'
  <2>1. c \in Coroutines /\ <<>> \in Seq(Entry)
    BY DEF Coroutines
  <2>2. UNCHANGED <<gen, rooms, view, leaving>>
    BY <1>4 DEF RequestResets
  <2>3. CASE Reconnect(c, <<>>)
    <3>1. /\ sockets' \in Seq(Socket) /\ Len(sockets') = Len(sockets)
          /\ phx' = 0 /\ call' \in [Coroutines -> Call]
      BY <2>1, <2>3, ReconnectTypes, Zenon
    <3>2. QED
      BY <2>2, <3>1 DEF TypeOK
  <2>4. CASE phx' = 0 /\ sockets' = ShutDown(phx) /\ UNCHANGED call
    BY <2>2, <2>4, ShutDownEffect DEF TypeOK
  <2>5. QED
    BY <1>4, <2>3, <2>4 DEF RequestResets
<1>5. CASE Rotate
  <2>1. MaxGen \in Nat /\ gen \in 0..MaxGen /\ gen < MaxGen /\ gen' = gen + 1
    BY <1>5, RealtimeAssumption DEF Rotate, Rotations, TypeOK
  <2>2. gen' \in 0..MaxGen
    BY <2>1
  <2>3. QED
    BY <1>5, <2>2 DEF Rotate, TypeOK
<1>6. ASSUME NEW c \in Coroutines, TokenFetched(c)
      PROVE  TypeOK'
  <2>1. call[c] \in Call /\ gen \in 0..MaxGen
    BY DEF TypeOK
  <2>2. call' \in [Coroutines -> Call]
    BY <1>6, <2>1 DEF TokenFetched, TypeOK, Call
  <2>3. QED
    BY <1>6, <2>2 DEF TokenFetched, TypeOK
<1>7. ASSUME NEW c \in Coroutines, Connected(c)
      PROVE  TypeOK'
  <2>1. PICK order \in SetToSeqs(rooms) :
            call' = [call EXCEPT ![c].phase = "attach",
                                 ![c].todo = Loop(order) \o @]
    BY <1>7 DEF Connected
  <2>2. Loop(order) \in Seq(Entry)
    BY OneLoop DEF Shape
  <2>3. call[c] \in Call /\ call[c].todo \in Seq(Entry)
    BY DEF TypeOK, Call
  <2>4. Loop(order) \o call[c].todo \in Seq(Entry)
    BY <2>2, <2>3
  <2>5. call' \in [Coroutines -> Call]
    BY <2>1, <2>3, <2>4 DEF TypeOK, Call
  <2>6. [gen |-> call[c].gen, joined |-> {}, open |-> TRUE] \in Socket
    BY <2>3 DEF Call, Socket
  <2>7. /\ sockets' \in Seq(Socket) /\ Len(sockets') = Len(sockets) + 1
        /\ phx' = Len(sockets) + 1
    BY <1>7, <2>6 DEF Connected, TypeOK
  <2>8. QED
    BY <1>7, <2>5, <2>7, RealtimeAssumption DEF Connected, TypeOK
<1>8. ASSUME NEW c \in Coroutines, ConnectFails(c)
      PROVE  TypeOK'
  <2>1. Returns(c, "failed") /\ UNCHANGED <<gen, phx, sockets, leaving>>
    BY <1>8 DEF ConnectFails
  <2>2. QED
    BY <2>1, ReturnsTypes DEF TypeOK
<1>9. ASSUME NEW c \in Coroutines, Attach(c)
      PROVE  TypeOK'
  BY <1>9, AttachTypes
<1>10. ASSUME NEW c \in Coroutines, Joined(c)
       PROVE  TypeOK'
  <2>1. /\ call[c] \in Call /\ Todo(c) \in Seq(Entry) /\ Todo(c) # <<>>
        /\ call[c].socket \in 1..Len(sockets) /\ Target(c) # None
    BY <1>10 DEF TypeOK, Call, Shape, JoinsHaveTarget, Joining, Joined, Todo
  <2>2. Head(Todo(c)) \in Entry /\ Tail(Todo(c)) \in Seq(Entry)
    BY <2>1
  <2>3. Target(c) \in Rooms
    BY <2>1, <2>2 DEF Target, Entry
  <2>4. call' \in [Coroutines -> Call]
    BY <1>10, <2>1, <2>2 DEF Joined, TypeOK, Call, Todo
  <2>5. sockets' \in Seq(Socket) /\ Len(sockets') = Len(sockets)
    BY <1>10, <2>1, <2>3, JoinedEffect
  <2>6. QED
    BY <1>10, <2>4, <2>5 DEF Joined, TypeOK
<1>11. ASSUME NEW c \in Coroutines, JoinFails(c)
       PROVE  TypeOK'
  <2>1. /\ Returns(c, "failed") /\ UNCHANGED <<gen, phx, leaving>>
        /\ sockets' = LeaveTopics(Target(c))
    BY <1>11 DEF JoinFails, Target, Todo
  <2>2. QED
    BY <2>1, ReturnsTypes, LeaveTopicsEffect DEF TypeOK
<1>12. QED
  BY <1>1, <1>2, <1>3, <1>4, <1>5, <1>6, <1>7, <1>8, <1>9, <1>10, <1>11
     DEF Step, Advances

-----------------------------------------------------------------------------
(* What the steps do to the coroutines, the sockets and the screens.       *)

Others(c) == \A d \in Coroutines : d # c => call'[d] = call[d]

LEMMA CallTypes ==
    ASSUME TypeOK, NEW c \in Coroutines
    PROVE  /\ call[c] \in Call
           /\ Todo(c) \in Seq(Entry)
           /\ Len(Todo(c)) \in Nat
           /\ \A i \in 1..Len(Todo(c)) : Todo(c)[i] \in Entry
           /\ call[c].gen \in 0..MaxGen
           /\ call[c].socket \in 0..MaxSockets
           /\ call[c].phase \in {"idle", "fetch", "connect", "attach", "join"}
BY DEF TypeOK, Call, Todo

LEMMA NoCallFields ==
    /\ NoCall.phase = "idle" /\ NoCall.todo = <<>>
    /\ NoCall.gen = 0 /\ NoCall.socket = 0
BY DEF NoCall

LEMMA TailEntries ==
    ASSUME NEW todo \in Seq(Entry), todo # <<>>
    PROVE  /\ Len(Tail(todo)) = Len(todo) - 1
           /\ \A i \in 1..Len(Tail(todo)) :
                 Tail(todo)[i] = todo[i + 1] /\ i + 1 \in 1..Len(todo)
           /\ Head(todo) = todo[1]
           /\ 1 \in 1..Len(todo)
           /\ \A i \in 1..Len(todo) :
                 i = 1 \/ (i - 1 \in 1..Len(Tail(todo))
                           /\ Tail(todo)[i - 1] = todo[i])
OBVIOUS

LEMMA ReturnsEffect ==
    ASSUME TypeOK, NEW c \in Coroutines, NEW v, Returns(c, v)
    PROVE  /\ call'[c] = NoCall /\ Others(c)
           /\ \A r \in Rooms :
                 view'[r] = IF r = c /\ view[r] = "connecting" THEN v
                            ELSE view[r]
           /\ rooms' = IF v = "failed" THEN rooms \ {c} ELSE rooms
<1>1. call'[c] = NoCall /\ Others(c)
  BY DEF Returns, Others, TypeOK
<1>2. \A r \in Rooms :
          view'[r] = IF r = c /\ view[r] = "connecting" THEN v ELSE view[r]
  BY DEF Returns, TypeOK
<1>3. QED
  BY <1>1, <1>2 DEF Returns

LEMMA TokenFetchedEffect ==
    ASSUME TypeOK, NEW c \in Coroutines, TokenFetched(c)
    PROVE  /\ call'[c].phase = "connect" /\ call'[c].gen = gen
           /\ call'[c].todo = call[c].todo
           /\ Others(c)
<1>1. call[c] \in Call
  BY DEF TypeOK
<1>2. call'[c].phase = "connect" /\ call'[c].gen = gen
      /\ call'[c].todo = call[c].todo
  BY <1>1 DEF TokenFetched, TypeOK, Call
<1>3. QED
  BY <1>2 DEF TokenFetched, TypeOK, Others

LEMMA ConnectedEffect ==
    ASSUME TypeOK, Shape, NEW c \in Coroutines, Connected(c)
    PROVE  /\ phx' = Len(sockets) + 1
           /\ Len(sockets') = Len(sockets) + 1
           /\ \A s \in 1..Len(sockets) : sockets'[s] = sockets[s]
           /\ sockets'[phx'] = [gen |-> call[c].gen, joined |-> {},
                                open |-> TRUE]
           /\ call'[c].phase = "attach" /\ call'[c].gen = call[c].gen
           /\ Others(c)
           /\ \E order \in SetToSeqs(rooms) :
                 call'[c].todo = Loop(order) \o Todo(c)
<1>1. call[c] \in Call
  BY DEF TypeOK
<1>2. PICK order \in SetToSeqs(rooms) :
          call' = [call EXCEPT ![c].phase = "attach",
                               ![c].todo = Loop(order) \o @]
  BY DEF Connected
<1>3. /\ call'[c].phase = "attach" /\ call'[c].gen = call[c].gen
      /\ call'[c].todo = Loop(order) \o Todo(c)
  BY <1>1, <1>2 DEF TypeOK, Call, Todo
<1>4. Others(c)
  BY <1>2 DEF TypeOK, Others
<1>5. /\ phx' = Len(sockets) + 1
      /\ Len(sockets') = Len(sockets) + 1
      /\ \A s \in 1..Len(sockets) : sockets'[s] = sockets[s]
      /\ sockets'[Len(sockets) + 1] = [gen |-> call[c].gen, joined |-> {},
                                       open |-> TRUE]
  BY DEF Connected, TypeOK
<1>6. QED
  BY <1>3, <1>4, <1>5

LEMMA JoinedCall ==
    ASSUME TypeOK, NEW c \in Coroutines, Joined(c)
    PROVE  /\ call'[c].phase = "attach" /\ call'[c].gen = call[c].gen
           /\ call'[c].todo = Tail(Todo(c))
           /\ Others(c)
<1>1. call[c] \in Call
  BY DEF TypeOK
<1>2. /\ call'[c].phase = "attach" /\ call'[c].gen = call[c].gen
      /\ call'[c].todo = Tail(Todo(c))
  BY <1>1 DEF Joined, TypeOK, Call, Todo
<1>3. QED
  BY <1>2 DEF Joined, TypeOK, Others

\* What a running coroutine may do.
LEMMA AttachEffect ==
    ASSUME TypeOK, NEW c \in Coroutines, Attach(c)
    PROVE  /\ call[c].phase = "attach" /\ UNCHANGED <<gen, leaving>>
           /\ \/ /\ Todo(c) = <<>>
                 /\ Returns(c, "live") /\ UNCHANGED <<phx, sockets>>
              \/ /\ Todo(c) # <<>>
                 /\ Changed(Head(Todo(c)))
                       \/ (Head(Todo(c)).checked /\ phx = 0)
                 /\ Returns(c, "failed") /\ UNCHANGED <<phx, sockets>>
              \/ /\ Todo(c) # <<>> /\ Target(c) = None
                 /\ call'[c].phase = "attach" /\ call'[c].gen = call[c].gen
                 /\ call'[c].todo = Tail(Todo(c)) /\ Others(c)
                 /\ UNCHANGED <<phx, sockets, rooms, view>>
              \/ /\ Todo(c) # <<>> /\ Target(c) # None /\ ~Current
                 /\ Reconnect(c, <<[Head(Todo(c)) EXCEPT !.checked = TRUE]>>
                                     \o Tail(Todo(c)))
                 /\ UNCHANGED <<rooms, view>>
              \/ /\ Todo(c) # <<>> /\ Target(c) # None /\ phx # 0
                 /\ call'[c].phase = "join" /\ call'[c].gen = call[c].gen
                 /\ call'[c].todo = Todo(c) /\ call'[c].socket = phx
                 /\ Others(c)
                 /\ UNCHANGED <<phx, sockets, rooms, view>>
<1>1. call[c] \in Call
  BY DEF TypeOK
<1>2. ASSUME call' = [call EXCEPT ![c].todo = Tail(Todo(c))],
             call[c].phase = "attach"
      PROVE  /\ call'[c].phase = "attach" /\ call'[c].gen = call[c].gen
             /\ call'[c].todo = Tail(Todo(c)) /\ Others(c)
  BY <1>1, <1>2 DEF TypeOK, Call, Others
<1>3. ASSUME call' = [call EXCEPT ![c].phase = "join", ![c].socket = phx]
      PROVE  /\ call'[c].phase = "join" /\ call'[c].gen = call[c].gen
             /\ call'[c].todo = Todo(c) /\ call'[c].socket = phx
             /\ Others(c)
  BY <1>1, <1>3 DEF TypeOK, Call, Others, Todo
<1>4. call[c].phase = "attach" /\ UNCHANGED <<gen, leaving>>
  BY DEF Attach
<1>5. \/ /\ Todo(c) = <<>>
         /\ Returns(c, "live") /\ UNCHANGED <<phx, sockets>>
      \/ /\ Todo(c) # <<>>
         /\ Changed(Head(Todo(c))) \/ (Head(Todo(c)).checked /\ phx = 0)
         /\ Returns(c, "failed") /\ UNCHANGED <<phx, sockets>>
      \/ /\ Todo(c) # <<>> /\ Target(c) = None
         /\ call' = [call EXCEPT ![c].todo = Tail(Todo(c))]
         /\ UNCHANGED <<phx, sockets, rooms, view>>
      \/ /\ Todo(c) # <<>> /\ Target(c) # None /\ ~Current
         /\ Reconnect(c, <<[Head(Todo(c)) EXCEPT !.checked = TRUE]>>
                             \o Tail(Todo(c)))
         /\ UNCHANGED <<rooms, view>>
      \/ /\ Todo(c) # <<>> /\ Target(c) # None
         /\ Current \/ (Head(Todo(c)).checked /\ phx # 0)
         /\ call' = [call EXCEPT ![c].phase = "join", ![c].socket = phx]
         /\ UNCHANGED <<phx, sockets, rooms, view>>
  BY Zenon DEF Attach, Target, Todo
<1>6. Current => phx # 0
  BY DEF Current
<1>7. QED
  BY <1>2, <1>3, <1>4, <1>5, <1>6

\* What a subscription does up to its first await.
LEMMA SubscribeEffect ==
    ASSUME TypeOK, NEW r \in Rooms, Subscribe(r)
    PROVE  /\ Others(r)
           /\ \A q \in Rooms : q # r => view'[q] = view[q]
           /\ \/ /\ r \in rooms /\ view'[r] = "live" /\ call'[r] = NoCall
                 /\ UNCHANGED <<phx, sockets, rooms>>
              \/ /\ r \notin rooms /\ rooms' = rooms \cup {r}
                 /\ view'[r] = "connecting"
                 /\ Current /\ UNCHANGED <<phx, sockets>>
                 /\ call'[r].phase = "attach" /\ call'[r].gen = 0
                 /\ call'[r].todo = <<[room |-> r, checked |-> TRUE,
                                       size |-> 0]>>
              \/ /\ r \notin rooms /\ rooms' = rooms \cup {r}
                 /\ view'[r] = "connecting"
                 /\ ~Current /\ Reconnect(r, <<>>)
<1>1. r \in Coroutines /\ <<>> \in Seq(Entry)
  BY DEF Coroutines
<1>2. \A q \in Rooms : q # r => view'[q] = view[q]
  BY DEF Subscribe, TypeOK
<1>3. CASE r \in rooms
  BY <1>1, <1>2, <1>3 DEF Subscribe, TypeOK, Others
<1>4. CASE r \notin rooms /\ Current
  <2> DEFINE f == [NoCall EXCEPT !.phase = "attach",
                       !.todo = <<[room |-> r, checked |-> TRUE, size |-> 0]>>]
  <2>1. /\ f.phase = "attach" /\ f.gen = 0
        /\ f.todo = <<[room |-> r, checked |-> TRUE, size |-> 0]>>
    BY DEF NoCall
  <2>2. /\ call' = [call EXCEPT ![r] = f] /\ UNCHANGED <<phx, sockets>>
        /\ rooms' = rooms \cup {r} /\ view'[r] = "connecting"
    BY <1>4 DEF Subscribe, TypeOK
  <2> HIDE DEF f
  <2>3. call'[r] = f /\ Others(r)
    BY <1>1, <2>2 DEF TypeOK, Others
  <2>4. QED
    BY <1>2, <1>4, <2>1, <2>2, <2>3
<1>5. CASE r \notin rooms /\ ~Current
  <2>1. /\ Reconnect(r, <<>>) /\ rooms' = rooms \cup {r}
        /\ view'[r] = "connecting"
    BY <1>5 DEF Subscribe, TypeOK
  <2>2. Others(r)
    BY <1>1, <2>1, ReconnectTypes, Zenon DEF Others
  <2>3. QED
    BY <1>2, <1>5, <2>1, <2>2
<1>6. QED
  BY <1>3, <1>4, <1>5

-----------------------------------------------------------------------------
(* The shape is kept.                                                      *)

\* A coroutine that returns.
LEMMA ReturnsShape ==
    ASSUME TypeOK, Shape, NEW c \in Coroutines, NEW v \in {"live", "failed"},
           Returns(c, v), UNCHANGED <<gen, phx>>,
           Len(sockets') = Len(sockets),
           \A s \in 1..Len(sockets) : /\ sockets'[s].gen = sockets[s].gen
                                      /\ sockets'[s].open = sockets[s].open
    PROVE  Shape'
<1>1. /\ call'[c] = NoCall /\ Others(c)
      /\ \A r \in Rooms : view'[r] = IF r = c /\ view[r] = "connecting" THEN v
                                     ELSE view[r]
      /\ rooms' = IF v = "failed" THEN rooms \ {c} ELSE rooms
  BY ReturnsEffect
<1>2. OneScreen'
  BY <1>1 DEF Shape, OneScreen
<1>3. RegisteredHaveScreen'
  BY <1>1 DEF Shape, RegisteredHaveScreen, TypeOK
<1>4. CurrentIsOpen'
  BY SocketTypes DEF Shape, CurrentIsOpen
<1>5. GenerationsArePast'
  BY <1>1, NoCallFields DEF Shape, GenerationsArePast, Others, TypeOK
<1>6. IdleIsClear' /\ OneRuns'
  BY <1>1, NoCallFields DEF Shape, IdleIsClear, OneRuns, Others
<1>7. JoinsHaveTarget'
  BY <1>1, NoCallFields
     DEF Shape, JoinsHaveTarget, Others, Joining, Todo, Target
<1>8. QED
  BY <1>2, <1>3, <1>4, <1>5, <1>6, <1>7 DEF Shape

\* A coroutine that disconnects the socket and opens another.
LEMMA ReconnectShape ==
    ASSUME TypeOK, Shape, NEW c \in Coroutines, NEW todo \in Seq(Entry),
           Reconnect(c, todo), UNCHANGED gen
    PROVE  /\ CurrentIsOpen' /\ GenerationsArePast' /\ IdleIsClear'
           /\ JoinsHaveTarget' /\ OneRuns'
<1>1. /\ Len(sockets') = Len(sockets) /\ phx' = 0
      /\ call'[c].phase = "fetch" /\ call'[c].gen = 0 /\ Others(c)
      /\ \A s \in 1..Len(sockets) : sockets'[s].gen = sockets[s].gen
  BY ReconnectTypes, Zenon DEF Others
<1>2. CurrentIsOpen'
  BY <1>1 DEF CurrentIsOpen
<1>3. GenerationsArePast'
  BY <1>1 DEF Shape, GenerationsArePast, Others, TypeOK
<1>4. IdleIsClear' /\ OneRuns'
  BY <1>1 DEF Shape, IdleIsClear, OneRuns, Others
<1>5. JoinsHaveTarget'
  BY <1>1 DEF Shape, JoinsHaveTarget, Others, Joining, Todo, Target
<1>6. QED
  BY <1>2, <1>3, <1>4, <1>5

LEMMA SubscribeShape ==
    ASSUME TypeOK, Shape, NEW r \in Rooms, Subscribe(r), EventLoop,
           \A q \in Rooms : view[q] # "closed" => q = r, UNCHANGED gen
    PROVE  Shape'
<1>1. /\ Others(r) /\ r \in Coroutines
      /\ \A q \in Rooms : q # r => view'[q] = view[q]
  BY SubscribeEffect DEF Coroutines
<1>2. OneScreen'
  BY <1>1 DEF OneScreen
<1>3. ASSUME rooms' \subseteq rooms \cup {r}, view'[r] \in {"connecting", "live"}
      PROVE  RegisteredHaveScreen'
  BY <1>1, <1>3 DEF Shape, RegisteredHaveScreen, TypeOK
<1>4. CASE /\ r \in rooms /\ view'[r] = "live" /\ call'[r] = NoCall
           /\ UNCHANGED <<phx, sockets, rooms>>
  <2>1. RegisteredHaveScreen'
    BY <1>3, <1>4
  <2>2. CurrentIsOpen'
    BY <1>4 DEF Shape, CurrentIsOpen
  <2>3. GenerationsArePast'
    BY <1>1, <1>4, NoCallFields DEF Shape, GenerationsArePast, Others, TypeOK
  <2>4. IdleIsClear' /\ OneRuns'
    BY <1>1, <1>4, NoCallFields DEF Shape, IdleIsClear, OneRuns, Others
  <2>5. JoinsHaveTarget'
    BY <1>1, <1>4, NoCallFields
       DEF Shape, JoinsHaveTarget, Others, Joining, Todo, Target
  <2>6. QED
    BY <1>2, <2>1, <2>2, <2>3, <2>4, <2>5 DEF Shape
<1>5. CASE /\ r \notin rooms /\ rooms' = rooms \cup {r}
           /\ view'[r] = "connecting" /\ UNCHANGED <<phx, sockets>>
           /\ call'[r].phase = "attach" /\ call'[r].gen = 0
  <2>1. RegisteredHaveScreen'
    BY <1>3, <1>5
  <2>2. CurrentIsOpen'
    BY <1>5 DEF Shape, CurrentIsOpen
  <2>3. GenerationsArePast'
    BY <1>1, <1>5 DEF Shape, GenerationsArePast, Others, TypeOK
  <2>4. IdleIsClear' /\ OneRuns'
    BY <1>1, <1>5 DEF Shape, IdleIsClear, OneRuns, Others, EventLoop
  <2>5. JoinsHaveTarget'
    BY <1>1, <1>5 DEF Shape, JoinsHaveTarget, Others, Joining, Todo, Target
  <2>6. QED
    BY <1>2, <2>1, <2>2, <2>3, <2>4, <2>5 DEF Shape
<1>6. CASE /\ rooms' = rooms \cup {r} /\ view'[r] = "connecting"
           /\ Reconnect(r, <<>>)
  <2>1. RegisteredHaveScreen'
    BY <1>3, <1>6
  <2>2. <<>> \in Seq(Entry)
    OBVIOUS
  <2>3. /\ CurrentIsOpen' /\ GenerationsArePast' /\ IdleIsClear'
        /\ JoinsHaveTarget' /\ OneRuns'
    BY <1>1, <1>6, <2>2, ReconnectShape, Zenon
  <2>4. QED
    BY <1>2, <2>1, <2>3 DEF Shape
<1>7. QED
  BY <1>4, <1>5, <1>6, SubscribeEffect

LEMMA ShapeScreens ==
    ASSUME TypeOK, Shape, NEW r \in Rooms,
           OpenScreen(r) \/ Reload(r) \/ CloseScreen(r) \/ Left(r)
    PROVE  Shape'
<1>1. r \in Coroutines
  BY DEF Coroutines
<1>2. CASE OpenScreen(r) \/ Reload(r)
  <2>1. Subscribe(r) /\ EventLoop /\ UNCHANGED gen
    BY <1>2 DEF OpenScreen, Reload, MayAct
  <2>2. \A q \in Rooms : view[q] # "closed" => q = r
    BY <1>2 DEF OpenScreen, Reload, Shape, OneScreen
  <2>3. QED
    BY <2>1, <2>2, SubscribeShape
<1>3. CASE CloseScreen(r)
  <2>1. /\ view' = [view EXCEPT ![r] = "closed"] /\ rooms' = rooms \ {r}
        /\ UNCHANGED <<gen, phx, sockets>>
        /\ Others(r) /\ (call'[r] = NoCall \/ call'[r] = call[r])
    BY <1>1, <1>3 DEF CloseScreen, TypeOK, Others
  <2>2. OneScreen' /\ RegisteredHaveScreen'
    BY <2>1 DEF Shape, OneScreen, RegisteredHaveScreen, TypeOK
  <2>3. CurrentIsOpen'
    BY <2>1 DEF Shape, CurrentIsOpen
  <2>4. GenerationsArePast'
    BY <2>1, NoCallFields DEF Shape, GenerationsArePast, Others, TypeOK
  <2>5. IdleIsClear' /\ OneRuns'
    BY <2>1, NoCallFields DEF Shape, IdleIsClear, OneRuns, Others
  <2>6. JoinsHaveTarget'
    BY <2>1, NoCallFields
       DEF Shape, JoinsHaveTarget, Others, Joining, Todo, Target
  <2>7. QED
    BY <2>2, <2>3, <2>4, <2>5, <2>6 DEF Shape
<1>4. CASE Left(r)
  <2>1. /\ UNCHANGED <<gen, phx, rooms, view>> /\ sockets' = LeaveTopics(r)
        /\ Others(r) /\ (call'[r] = NoCall \/ call'[r] = call[r])
    BY <1>1, <1>4 DEF Left, TypeOK, Others
  <2>2. /\ Len(sockets') = Len(sockets)
        /\ \A s \in 1..Len(sockets) : /\ sockets'[s].gen = sockets[s].gen
                                      /\ sockets'[s].open = sockets[s].open
    BY <2>1, LeaveTopicsEffect
  <2>3. OneScreen' /\ RegisteredHaveScreen'
    BY <2>1 DEF Shape, OneScreen, RegisteredHaveScreen
  <2>4. CurrentIsOpen'
    BY <2>1, <2>2, SocketTypes DEF Shape, CurrentIsOpen
  <2>5. GenerationsArePast'
    BY <2>1, <2>2, NoCallFields DEF Shape, GenerationsArePast, Others, TypeOK
  <2>6. IdleIsClear' /\ OneRuns'
    BY <2>1, NoCallFields DEF Shape, IdleIsClear, OneRuns, Others
  <2>7. JoinsHaveTarget'
    BY <2>1, <2>2, NoCallFields
       DEF Shape, JoinsHaveTarget, Others, Joining, Todo, Target
  <2>8. QED
    BY <2>3, <2>4, <2>5, <2>6, <2>7 DEF Shape
<1>5. QED
  BY <1>2, <1>3, <1>4

LEMMA ShapeRequests ==
    ASSUME TypeOK, Shape, (\E c \in Calls : RequestResets(c)) \/ Rotate
    PROVE  Shape'
<1>1. ASSUME NEW c \in Calls, RequestResets(c)
      PROVE  Shape'
  <2>1. c \in Coroutines /\ UNCHANGED <<gen, rooms, view>> /\ <<>> \in Seq(Entry)
    BY <1>1 DEF RequestResets, Coroutines
  <2>2. OneScreen' /\ RegisteredHaveScreen'
    BY <2>1 DEF Shape, OneScreen, RegisteredHaveScreen
  <2>3. CASE Reconnect(c, <<>>)
    <3>1. /\ CurrentIsOpen' /\ GenerationsArePast' /\ IdleIsClear'
          /\ JoinsHaveTarget' /\ OneRuns'
      BY <2>1, <2>3, ReconnectShape, Zenon
    <3>2. QED
      BY <2>2, <3>1 DEF Shape
  <2>4. CASE phx' = 0 /\ sockets' = ShutDown(phx) /\ UNCHANGED call
    <3>1. /\ Len(sockets') = Len(sockets)
          /\ \A s \in 1..Len(sockets) : sockets'[s].gen = sockets[s].gen
      BY <2>4, ShutDownEffect
    <3>2. CurrentIsOpen' /\ GenerationsArePast'
      BY <2>1, <2>4, <3>1 DEF Shape, CurrentIsOpen, GenerationsArePast
    <3>3. IdleIsClear' /\ OneRuns' /\ JoinsHaveTarget'
      BY <2>4, <3>1
         DEF Shape, IdleIsClear, OneRuns, JoinsHaveTarget, Joining, Todo, Target
    <3>4. QED
      BY <2>2, <3>2, <3>3 DEF Shape
  <2>5. QED
    BY <1>1, <2>3, <2>4 DEF RequestResets
<1>2. CASE Rotate
  <2>1. UNCHANGED <<phx, sockets, rooms, view, call>> /\ gen' = gen + 1
    BY <1>2 DEF Rotate
  <2>2. GenerationsArePast'
    <3>1. gen \in Nat /\ gen' \in Nat /\ gen < gen'
      BY <2>1 DEF TypeOK
    <3>2. \A s \in 1..Len(sockets) : sockets[s].gen \in Nat
      BY SocketTypes DEF Socket
    <3>3. \A c \in Coroutines : call[c].gen \in Nat
      BY CallTypes
    <3>4. QED
      BY <2>1, <3>1, <3>2, <3>3 DEF Shape, GenerationsArePast
  <2>3. OneScreen' /\ RegisteredHaveScreen' /\ CurrentIsOpen'
    BY <2>1 DEF Shape, OneScreen, RegisteredHaveScreen, CurrentIsOpen
  <2>4. IdleIsClear' /\ OneRuns' /\ JoinsHaveTarget'
    BY <2>1
       DEF Shape, IdleIsClear, OneRuns, JoinsHaveTarget, Joining, Todo, Target
  <2>5. QED
    BY <2>2, <2>3, <2>4 DEF Shape
<1>3. QED
  BY <1>1, <1>2

LEMMA ShapeConnects ==
    ASSUME TypeOK, Shape, NEW c \in Coroutines,
           TokenFetched(c) \/ Connected(c) \/ ConnectFails(c)
    PROVE  Shape'
<1>1. CASE TokenFetched(c)
  <2>1. /\ call'[c].phase = "connect" /\ call'[c].gen = gen /\ Others(c)
        /\ UNCHANGED <<gen, phx, sockets, rooms, view>>
    BY <1>1, TokenFetchedEffect DEF TokenFetched
  <2>2. OneScreen' /\ RegisteredHaveScreen' /\ CurrentIsOpen'
    BY <2>1 DEF Shape, OneScreen, RegisteredHaveScreen, CurrentIsOpen
  <2>3. GenerationsArePast'
    BY <2>1 DEF Shape, GenerationsArePast, Others, TypeOK
  <2>4. IdleIsClear' /\ OneRuns'
    BY <2>1 DEF Shape, IdleIsClear, OneRuns, Others
  <2>5. JoinsHaveTarget'
    BY <2>1 DEF Shape, JoinsHaveTarget, Others, Joining, Todo, Target
  <2>6. QED
    BY <2>2, <2>3, <2>4, <2>5 DEF Shape
<1>2. CASE Connected(c)
  <2>1. /\ phx' = Len(sockets) + 1
        /\ Len(sockets') = Len(sockets) + 1
        /\ \A s \in 1..Len(sockets) : sockets'[s] = sockets[s]
        /\ sockets'[phx'] = [gen |-> call[c].gen, joined |-> {}, open |-> TRUE]
        /\ call'[c].phase = "attach" /\ call'[c].gen = call[c].gen
        /\ Others(c)
        /\ UNCHANGED <<gen, rooms, view>>
    BY <1>2, ConnectedEffect DEF Connected
  <2>2. OneScreen' /\ RegisteredHaveScreen' /\ CurrentIsOpen'
    BY <2>1 DEF Shape, OneScreen, RegisteredHaveScreen, CurrentIsOpen
  <2>3. \A s \in 1..Len(sockets') : s \in 1..Len(sockets) \/ s = phx'
    BY <2>1, SocketTypes
  <2>4. GenerationsArePast'
    <3>1. sockets'[phx'].gen = call[c].gen
      BY <2>1
    <3>2. \A s \in 1..Len(sockets') : sockets'[s].gen <= gen'
      BY <2>1, <2>3, <3>1 DEF Shape, GenerationsArePast
    <3>3. \A d \in Coroutines : call'[d].gen <= gen'
      BY <2>1 DEF Shape, GenerationsArePast, Others
    <3>4. QED
      BY <3>2, <3>3, Zenon DEF GenerationsArePast
  <2>5. IdleIsClear' /\ OneRuns'
    <3>1. \A d \in Coroutines : call[d].phase # "attach"
      BY <1>2 DEF Connected, EventLoop
    <3>2. QED
      BY <2>1, <3>1 DEF Shape, IdleIsClear, OneRuns, Others
  <2>6. JoinsHaveTarget'
    BY <2>1, SocketTypes
       DEF Shape, JoinsHaveTarget, Others, Joining, Todo, Target
  <2>7. QED
    BY <2>2, <2>4, <2>5, <2>6 DEF Shape
<1>3. CASE ConnectFails(c)
  BY <1>3, ReturnsShape DEF ConnectFails
<1>4. QED
  BY <1>1, <1>2, <1>3

LEMMA ShapeJoins ==
    ASSUME TypeOK, Shape, NEW c \in Coroutines, Joined(c) \/ JoinFails(c)
    PROVE  Shape'
<1>1. CASE Joined(c)
  <2>1. call[c].socket \in 1..Len(sockets) /\ Target(c) \in Rooms
    <3>1. call[c].socket \in 1..Len(sockets) /\ Todo(c) # <<>> /\ Target(c) # None
      BY <1>1 DEF Joined, Shape, JoinsHaveTarget, Joining
    <3>2. Head(Todo(c)) \in Entry
      BY <3>1, CallTypes
    <3>3. QED
      BY <3>1, <3>2 DEF Target, Entry
  <2>2. /\ call'[c].phase = "attach" /\ call'[c].gen = call[c].gen /\ Others(c)
        /\ UNCHANGED <<gen, phx, rooms, view>>
    BY <1>1, JoinedCall DEF Joined
  <2>3. /\ Len(sockets') = Len(sockets)
        /\ \A s \in 1..Len(sockets) : /\ sockets'[s].gen = sockets[s].gen
                                      /\ sockets'[s].open = sockets[s].open
    BY <1>1, <2>1, JoinedEffect
  <2>4. OneScreen' /\ RegisteredHaveScreen'
    BY <2>2 DEF Shape, OneScreen, RegisteredHaveScreen
  <2>5. CurrentIsOpen'
    BY <2>2, <2>3, SocketTypes DEF Shape, CurrentIsOpen
  <2>6. GenerationsArePast'
    BY <2>2, <2>3 DEF Shape, GenerationsArePast, Others
  <2>7. IdleIsClear' /\ OneRuns'
    BY <1>1, <2>2 DEF Shape, IdleIsClear, OneRuns, Others, Joined, EventLoop
  <2>8. JoinsHaveTarget'
    BY <2>2, <2>3 DEF Shape, JoinsHaveTarget, Others, Joining, Todo, Target
  <2>9. QED
    BY <2>4, <2>5, <2>6, <2>7, <2>8 DEF Shape
<1>2. CASE JoinFails(c)
  <2>1. /\ Returns(c, "failed") /\ UNCHANGED <<gen, phx>>
        /\ sockets' = LeaveTopics(Target(c))
    BY <1>2 DEF JoinFails, Target, Todo
  <2>2. /\ Len(sockets') = Len(sockets)
        /\ \A s \in 1..Len(sockets) : /\ sockets'[s].gen = sockets[s].gen
                                      /\ sockets'[s].open = sockets[s].open
    BY <2>1, LeaveTopicsEffect
  <2>3. QED
    BY <2>1, <2>2, ReturnsShape
<1>3. QED
  BY <1>1, <1>2

\* The entry that a reconnect puts back in front of the others.
LEMMA PutBack ==
    ASSUME NEW todo \in Seq(Entry), todo # <<>>
    PROVE  LET t == <<[Head(todo) EXCEPT !.checked = TRUE]>> \o Tail(todo)
           IN  /\ t \in Seq(Entry) /\ Len(t) = Len(todo)
               /\ \A i \in 1..Len(todo) :
                     /\ t[i].room = todo[i].room
                     /\ t[i].size = todo[i].size
                     /\ todo[i].checked => t[i].checked
<1> DEFINE e == [Head(todo) EXCEPT !.checked = TRUE]
           t == <<e>> \o Tail(todo)
<1>1. Head(todo) \in Entry /\ Head(todo) = todo[1] /\ Tail(todo) \in Seq(Entry)
  OBVIOUS
<1>2. /\ e \in Entry /\ e.checked = TRUE
      /\ e.room = todo[1].room /\ e.size = todo[1].size
  BY <1>1 DEF Entry
<1> HIDE DEF e
<1>3. t \in Seq(Entry) /\ Len(t) = Len(todo)
  BY <1>1, <1>2
<1>4. \A i \in 1..Len(todo) : t[i] = IF i = 1 THEN e ELSE todo[i]
  BY <1>1, <1>2
<1>5. \A i \in 1..Len(todo) : /\ t[i].room = todo[i].room
                              /\ t[i].size = todo[i].size
                              /\ todo[i].checked => t[i].checked
  BY <1>2, <1>4
<1>6. QED
  BY <1>3, <1>5 DEF e

LEMMA ShapeAttach ==
    ASSUME TypeOK, Shape, NEW c \in Coroutines, Attach(c)
    PROVE  Shape'
<1>1. call[c].phase = "attach" /\ UNCHANGED gen
  BY AttachEffect
<1>2. ASSUME NEW v \in {"live", "failed"}, Returns(c, v),
             UNCHANGED <<phx, sockets>>
      PROVE  Shape'
  BY <1>1, <1>2, ReturnsShape
<1>3. CASE /\ call'[c].phase = "attach" /\ call'[c].gen = call[c].gen
           /\ Others(c) /\ UNCHANGED <<phx, sockets, rooms, view>>
  <2>1. OneScreen' /\ RegisteredHaveScreen' /\ CurrentIsOpen'
    BY <1>3 DEF Shape, OneScreen, RegisteredHaveScreen, CurrentIsOpen
  <2>2. GenerationsArePast'
    BY <1>1, <1>3 DEF Shape, GenerationsArePast, Others
  <2>3. IdleIsClear' /\ OneRuns'
    BY <1>1, <1>3 DEF Shape, IdleIsClear, OneRuns, Others
  <2>4. JoinsHaveTarget'
    BY <1>3 DEF Shape, JoinsHaveTarget, Others, Joining, Todo, Target
  <2>5. QED
    BY <2>1, <2>2, <2>3, <2>4 DEF Shape
<1>4. CASE /\ Todo(c) # <<>>
           /\ Reconnect(c, <<[Head(Todo(c)) EXCEPT !.checked = TRUE]>>
                               \o Tail(Todo(c)))
           /\ UNCHANGED <<rooms, view>>
  <2>1. <<[Head(Todo(c)) EXCEPT !.checked = TRUE]>> \o Tail(Todo(c))
            \in Seq(Entry)
    BY <1>4, CallTypes, PutBack
  <2>2. /\ CurrentIsOpen' /\ GenerationsArePast' /\ IdleIsClear'
        /\ JoinsHaveTarget' /\ OneRuns'
    BY <1>1, <1>4, <2>1, ReconnectShape, Zenon
  <2>3. OneScreen' /\ RegisteredHaveScreen'
    BY <1>4 DEF Shape, OneScreen, RegisteredHaveScreen
  <2>4. QED
    BY <2>2, <2>3 DEF Shape
<1>5. CASE /\ Todo(c) # <<>> /\ Target(c) # None /\ phx # 0
           /\ call'[c].phase = "join" /\ call'[c].gen = call[c].gen
           /\ call'[c].todo = Todo(c) /\ call'[c].socket = phx
           /\ Others(c)
           /\ UNCHANGED <<phx, sockets, rooms, view>>
  <2>1. OneScreen' /\ RegisteredHaveScreen' /\ CurrentIsOpen'
    BY <1>5 DEF Shape, OneScreen, RegisteredHaveScreen, CurrentIsOpen
  <2>2. GenerationsArePast'
    BY <1>1, <1>5 DEF Shape, GenerationsArePast, Others
  <2>3. IdleIsClear' /\ OneRuns'
    BY <1>1, <1>5 DEF Shape, IdleIsClear, OneRuns, Others
  <2>4. JoinsHaveTarget'
    BY <1>5, SocketTypes
       DEF Shape, JoinsHaveTarget, Others, Joining, Todo, Target
  <2>5. QED
    BY <2>1, <2>2, <2>3, <2>4 DEF Shape
<1>6. QED
  BY <1>2, <1>3, <1>4, <1>5, AttachEffect

LEMMA ShapeStep ==
    ASSUME TypeOK, Shape, Next
    PROVE  Shape'
BY ShapeScreens, ShapeRequests, ShapeConnects, ShapeJoins, ShapeAttach
   DEF Next, Step, Advances

-----------------------------------------------------------------------------
(* No screen acts while a request reconnects.                              *)

\* Before the first rotation a socket is current.
LEMMA FreshIsCurrent ==
    ASSUME TypeOK, Shape, gen = 0, phx # 0
    PROVE  Current
<1>1. phx \in 1..Len(sockets) /\ sockets[phx] \in Socket
  BY SocketTypes
<1>2. sockets[phx].gen \in Nat /\ sockets[phx].gen <= 0
  BY <1>1 DEF Shape, GenerationsArePast, Socket
<1>3. QED
  BY <1>2 DEF Current

LEMMA RegularOverlap ==
    ASSUME Regular', gen \in Nat, gen' = gen \/ gen' = gen + 1, UNCHANGED mode
    PROVE  Regular
BY DEF Regular

LEMMA RegularReturns ==
    ASSUME TypeOK, Shape, RegularInv, NEW c \in Coroutines,
           NEW v \in {"live", "failed"}, Returns(c, v), UNCHANGED <<gen, phx>>,
           Len(sockets') = Len(sockets),
           \A s \in 1..Len(sockets) : sockets'[s].open = sockets[s].open
    PROVE  RegularInv'
<1>1. /\ call'[c] = NoCall /\ Others(c)
      /\ \A r \in Rooms : view'[r] = IF r = c /\ view[r] = "connecting" THEN v
                                     ELSE view[r]
      /\ rooms' = IF v = "failed" THEN rooms \ {c} ELSE rooms
  BY ReturnsEffect
<1>2. OnlyCurrentOpen'
  BY DEF RegularInv, OnlyCurrentOpen
<1>3. ConnectsAlone' /\ AttachHasSocket'
  BY <1>1, NoCallFields
     DEF RegularInv, ConnectsAlone, AttachHasSocket, Others, Connecting
<1>4. OwnConnect'
  BY <1>1, NoCallFields DEF RegularInv, OwnConnect, Others, Connecting
<1>5. QED
  BY <1>2, <1>3, <1>4 DEF RegularInv

LEMMA RegularReconnect ==
    ASSUME TypeOK, Shape, RegularInv, NEW c \in Coroutines,
           NEW todo \in Seq(Entry), Reconnect(c, todo),
           \A d \in Coroutines : ~Connecting(d),
           \A d \in Coroutines : call[d].phase = "attach" => d = c
    PROVE  OnlyCurrentOpen' /\ ConnectsAlone' /\ AttachHasSocket'
<1>1. /\ Len(sockets') = Len(sockets) /\ phx' = 0
      /\ call'[c].phase = "fetch" /\ Others(c)
      /\ \A s \in 1..Len(sockets) :
            sockets'[s].open = (sockets[s].open /\ s # phx)
  BY ReconnectTypes, Zenon DEF Others
<1>2. OnlyCurrentOpen'
  BY <1>1 DEF RegularInv, OnlyCurrentOpen
<1>3. ConnectsAlone' /\ AttachHasSocket'
  BY <1>1 DEF ConnectsAlone, AttachHasSocket, Others, Connecting
<1>4. QED
  BY <1>2, <1>3

\* No coroutine connects when a screen subscribes to its room.
LEMMA SubscribesAlone ==
    ASSUME TypeOK, Shape, Regular, RegularInv, MayAct, NEW r \in Rooms,
           \A q \in Rooms : view[q] # "closed" => q = r, r \notin rooms
    PROVE  \A c \in Coroutines : ~Connecting(c)
<1>1. CASE "overlap" \in mode
  BY <1>1 DEF Regular, RegularInv, OwnConnect
<1>2. CASE Quiet
  BY <1>2 DEF Quiet, Connecting
<1>3. QED
  BY <1>1, <1>2 DEF MayAct

LEMMA RegularSubscribe ==
    ASSUME TypeOK, Shape, Regular, RegularInv, MayAct, NEW r \in Rooms,
           Subscribe(r), \A q \in Rooms : view[q] # "closed" => q = r,
           UNCHANGED gen
    PROVE  RegularInv'
<1>1. /\ Others(r) /\ r \in Coroutines
      /\ \A q \in Rooms : q # r => view'[q] = view[q]
  BY SubscribeEffect DEF Coroutines
<1>2. CASE /\ r \in rooms /\ view'[r] = "live" /\ call'[r] = NoCall
           /\ UNCHANGED <<phx, sockets, rooms>>
  <2>1. OnlyCurrentOpen'
    BY <1>2 DEF RegularInv, OnlyCurrentOpen
  <2>2. ConnectsAlone' /\ AttachHasSocket'
    BY <1>1, <1>2, NoCallFields
       DEF RegularInv, ConnectsAlone, AttachHasSocket, Others, Connecting
  <2>3. OwnConnect'
    BY <1>1, <1>2, NoCallFields DEF RegularInv, OwnConnect, Others, Connecting
  <2>4. QED
    BY <2>1, <2>2, <2>3 DEF RegularInv
<1>3. CASE /\ r \notin rooms
           /\ Current /\ UNCHANGED <<phx, sockets>> /\ call'[r].phase = "attach"
  <2>1. \A c \in Coroutines : ~Connecting(c)
    BY <1>3, SubscribesAlone
  <2>2. \A c \in Coroutines : ~Connecting(c)'
    BY <1>1, <1>3, <2>1 DEF Others, Connecting
  <2>3. OnlyCurrentOpen' /\ ConnectsAlone' /\ OwnConnect'
    BY <1>3, <2>2 DEF RegularInv, OnlyCurrentOpen, ConnectsAlone, OwnConnect
  <2>4. AttachHasSocket'
    BY <1>1, <1>3 DEF RegularInv, AttachHasSocket, Others, Current
  <2>5. QED
    BY <2>3, <2>4 DEF RegularInv
<1>4. CASE /\ r \notin rooms /\ rooms' = rooms \cup {r}
           /\ view'[r] = "connecting" /\ ~Current /\ Reconnect(r, <<>>)
  <2>1. \A c \in Coroutines : ~Connecting(c)
    BY <1>4, SubscribesAlone
  <2>2. <<>> \in Seq(Entry) /\ \A d \in Coroutines : call[d].phase # "attach"
    BY DEF MayAct, EventLoop
  <2>3. OnlyCurrentOpen' /\ ConnectsAlone' /\ AttachHasSocket'
    BY <1>1, <1>4, <2>1, <2>2, RegularReconnect
  <2>4. OwnConnect'
    BY <1>1, <1>4, <2>1 DEF OwnConnect, Others, Connecting
  <2>5. QED
    BY <2>3, <2>4 DEF RegularInv
<1>5. QED
  BY <1>2, <1>3, <1>4, SubscribeEffect

LEMMA RegularScreens ==
    ASSUME TypeOK, Shape, Regular, RegularInv, NEW r \in Rooms,
           OpenScreen(r) \/ Reload(r) \/ CloseScreen(r) \/ Left(r)
    PROVE  RegularInv'
<1>1. r \in Coroutines
  BY DEF Coroutines
<1>2. CASE OpenScreen(r) \/ Reload(r)
  <2>1. Subscribe(r) /\ MayAct /\ UNCHANGED gen
    BY <1>2 DEF OpenScreen, Reload
  <2>2. \A q \in Rooms : view[q] # "closed" => q = r
    BY <1>2 DEF OpenScreen, Reload, Shape, OneScreen
  <2>3. QED
    BY <2>1, <2>2, RegularSubscribe
<1>3. CASE CloseScreen(r)
  <2>1. /\ view[r] # "closed" /\ rooms' = rooms \ {r}
        /\ UNCHANGED <<gen, phx, sockets>> /\ Others(r)
        /\ \A q \in Rooms : q # r => view'[q] = view[q]
        /\ \/ call'[r] = NoCall
           \/ call'[r] = call[r] /\ phx # 0
    BY <1>1, <1>3 DEF CloseScreen, TypeOK, Others
  <2>2. OnlyCurrentOpen'
    BY <2>1 DEF RegularInv, OnlyCurrentOpen
  <2>3. ConnectsAlone' /\ AttachHasSocket'
    BY <2>1, NoCallFields
       DEF RegularInv, ConnectsAlone, AttachHasSocket, Others, Connecting
  <2>4. OwnConnect'
    BY <2>1, NoCallFields
       DEF RegularInv, OwnConnect, ConnectsAlone, Others, Connecting
  <2>5. QED
    BY <2>2, <2>3, <2>4 DEF RegularInv
<1>4. CASE Left(r)
  <2>1. /\ UNCHANGED <<gen, phx, rooms, view>> /\ sockets' = LeaveTopics(r)
        /\ Others(r) /\ (call'[r] = NoCall \/ call'[r] = call[r])
    BY <1>1, <1>4 DEF Left, TypeOK, Others
  <2>2. OnlyCurrentOpen'
    <3>1. /\ Len(sockets') = Len(sockets)
          /\ \A s \in 1..Len(sockets) : sockets'[s].open = sockets[s].open
      BY <2>1, LeaveTopicsEffect
    <3>2. QED
      BY <2>1, <3>1 DEF RegularInv, OnlyCurrentOpen
  <2>3. ConnectsAlone' /\ AttachHasSocket' /\ OwnConnect'
    BY <2>1, NoCallFields
       DEF RegularInv, ConnectsAlone, AttachHasSocket, OwnConnect, Others,
           Connecting
  <2>4. QED
    BY <2>2, <2>3 DEF RegularInv
<1>5. QED
  BY <1>2, <1>3, <1>4

LEMMA RegularRequests ==
    ASSUME TypeOK, Shape, RegularInv,
           (\E c \in Calls : RequestResets(c)) \/ Rotate
    PROVE  RegularInv'
<1>1. ASSUME NEW c \in Calls, RequestResets(c)
      PROVE  RegularInv'
  <2>1. /\ c \in Coroutines /\ UNCHANGED gen /\ <<>> \in Seq(Entry)
        /\ phx # 0 /\ ~Current /\ \A d \in Coroutines : call[d].phase # "attach"
    BY <1>1 DEF RequestResets, Coroutines, EventLoop
  <2>2. \A d \in Coroutines : ~Connecting(d)
    BY <2>1 DEF RegularInv, ConnectsAlone
  <2>3. OwnConnect'
    BY <2>1, FreshIsCurrent DEF OwnConnect
  <2>4. CASE Reconnect(c, <<>>)
    <3>1. OnlyCurrentOpen' /\ ConnectsAlone' /\ AttachHasSocket'
      BY <2>1, <2>2, <2>4, RegularReconnect
    <3>2. QED
      BY <2>3, <3>1 DEF RegularInv
  <2>5. CASE phx' = 0 /\ sockets' = ShutDown(phx) /\ UNCHANGED call
    <3>1. OnlyCurrentOpen'
      BY <2>5, ShutDownEffect DEF RegularInv, OnlyCurrentOpen
    <3>2. ConnectsAlone' /\ AttachHasSocket'
      BY <2>1, <2>2, <2>5 DEF ConnectsAlone, AttachHasSocket, Connecting
    <3>3. QED
      BY <2>3, <3>1, <3>2 DEF RegularInv
  <2>6. QED
    BY <1>1, <2>4, <2>5 DEF RequestResets
<1>2. CASE Rotate
  <2>1. UNCHANGED <<phx, sockets, call>> /\ gen' = gen + 1 /\ gen \in Nat
    BY <1>2 DEF Rotate, TypeOK
  <2>2. OnlyCurrentOpen' /\ ConnectsAlone' /\ AttachHasSocket'
    BY <2>1
       DEF RegularInv, OnlyCurrentOpen, ConnectsAlone, AttachHasSocket, Connecting
  <2>3. OwnConnect'
    BY <2>1 DEF OwnConnect
  <2>4. QED
    BY <2>2, <2>3 DEF RegularInv
<1>3. QED
  BY <1>1, <1>2

LEMMA RegularConnects ==
    ASSUME TypeOK, Shape, RegularInv, NEW c \in Coroutines,
           TokenFetched(c) \/ Connected(c) \/ ConnectFails(c)
    PROVE  RegularInv'
<1>1. CASE TokenFetched(c)
  <2>1. /\ call[c].phase = "fetch" /\ call'[c].phase = "connect" /\ Others(c)
        /\ UNCHANGED <<gen, phx, sockets, rooms, view>>
    BY <1>1, TokenFetchedEffect DEF TokenFetched
  <2>2. OnlyCurrentOpen'
    BY <2>1 DEF RegularInv, OnlyCurrentOpen
  <2>3. ConnectsAlone' /\ AttachHasSocket' /\ OwnConnect'
    BY <2>1 DEF RegularInv, ConnectsAlone, AttachHasSocket, OwnConnect, Others,
                Connecting
  <2>4. QED
    BY <2>2, <2>3 DEF RegularInv
<1>2. CASE Connected(c)
  <2>1. /\ phx' = Len(sockets) + 1
        /\ Len(sockets') = Len(sockets) + 1
        /\ \A s \in 1..Len(sockets) : sockets'[s] = sockets[s]
        /\ call'[c].phase = "attach" /\ Others(c)
    BY <1>2, ConnectedEffect
  <2>2. Connecting(c)
    BY <1>2 DEF Connected, Connecting
  <2>3. \A s \in 1..Len(sockets) : ~sockets[s].open
    BY <2>2 DEF RegularInv, ConnectsAlone, OnlyCurrentOpen
  <2>4. OnlyCurrentOpen'
    BY <2>1, <2>3, SocketTypes DEF OnlyCurrentOpen
  <2>5. \A d \in Coroutines : ~Connecting(d)'
    BY <2>1, <2>2 DEF RegularInv, ConnectsAlone, Others, Connecting
  <2>6. ConnectsAlone' /\ AttachHasSocket' /\ OwnConnect'
    BY <2>1, <2>5, SocketTypes DEF ConnectsAlone, AttachHasSocket, OwnConnect
  <2>7. QED
    BY <2>4, <2>6 DEF RegularInv
<1>3. CASE ConnectFails(c)
  BY <1>3, RegularReturns DEF ConnectFails
<1>4. QED
  BY <1>1, <1>2, <1>3

\* The target of a join, and the socket it is for.
LEMMA JoinTarget ==
    ASSUME TypeOK, Shape, NEW c \in Coroutines, Joining(c)
    PROVE  /\ call[c].socket \in 1..Len(sockets)
           /\ Todo(c) # <<>> /\ Target(c) \in Rooms
           /\ 1 \in 1..Len(Todo(c)) /\ Todo(c)[1].room = Target(c)
<1>1. call[c].socket \in 1..Len(sockets) /\ Todo(c) # <<>> /\ Target(c) # None
  BY DEF Shape, JoinsHaveTarget
<1>2. Head(Todo(c)) \in Entry /\ 1 \in 1..Len(Todo(c)) /\ Head(Todo(c)) = Todo(c)[1]
  BY <1>1, CallTypes
<1>3. QED
  BY <1>1, <1>2 DEF Target, Entry

LEMMA RegularJoins ==
    ASSUME TypeOK, Shape, RegularInv, NEW c \in Coroutines,
           Joined(c) \/ JoinFails(c)
    PROVE  RegularInv'
<1>1. CASE Joined(c)
  <2>1. /\ call[c].socket \in 1..Len(sockets) /\ sockets[call[c].socket].open
        /\ Target(c) \in Rooms
    BY <1>1, JoinTarget DEF Joined, Joining
  <2>2. phx # 0
    BY <2>1 DEF RegularInv, OnlyCurrentOpen
  <2>3. /\ call'[c].phase = "attach" /\ Others(c)
        /\ UNCHANGED <<gen, phx, rooms, view>>
    BY <1>1, JoinedCall DEF Joined
  <2>4. OnlyCurrentOpen'
    BY <1>1, <2>1, <2>3, JoinedEffect DEF RegularInv, OnlyCurrentOpen
  <2>5. ConnectsAlone' /\ AttachHasSocket' /\ OwnConnect'
    BY <2>2, <2>3 DEF RegularInv, ConnectsAlone, AttachHasSocket, OwnConnect,
                      Others, Connecting
  <2>6. QED
    BY <2>4, <2>5 DEF RegularInv
<1>2. CASE JoinFails(c)
  <2>1. /\ Returns(c, "failed") /\ UNCHANGED <<gen, phx>>
        /\ sockets' = LeaveTopics(Target(c))
    BY <1>2 DEF JoinFails, Target, Todo
  <2>2. QED
    BY <2>1, LeaveTopicsEffect, RegularReturns
<1>3. QED
  BY <1>1, <1>2

LEMMA RegularAttach ==
    ASSUME TypeOK, Shape, RegularInv, NEW c \in Coroutines, Attach(c)
    PROVE  RegularInv'
<1>1. /\ call[c].phase = "attach" /\ UNCHANGED gen /\ phx # 0
      /\ \A d \in Coroutines : call[d].phase = "attach" => d = c
  BY AttachEffect DEF Shape, OneRuns, RegularInv, AttachHasSocket
<1>2. ASSUME NEW v \in {"live", "failed"}, Returns(c, v),
             UNCHANGED <<phx, sockets>>
      PROVE  RegularInv'
  BY <1>1, <1>2, RegularReturns
<1>3. CASE /\ call'[c].phase \in {"attach", "join"} /\ Others(c)
           /\ UNCHANGED <<phx, sockets, rooms, view>>
  <2>1. OnlyCurrentOpen'
    BY <1>3 DEF RegularInv, OnlyCurrentOpen
  <2>2. ConnectsAlone' /\ AttachHasSocket' /\ OwnConnect'
    BY <1>1, <1>3 DEF RegularInv, ConnectsAlone, AttachHasSocket, OwnConnect,
                      Others, Connecting
  <2>3. QED
    BY <2>1, <2>2 DEF RegularInv
<1>4. CASE /\ Todo(c) # <<>> /\ ~Current
           /\ Reconnect(c, <<[Head(Todo(c)) EXCEPT !.checked = TRUE]>>
                               \o Tail(Todo(c)))
  <2>1. <<[Head(Todo(c)) EXCEPT !.checked = TRUE]>> \o Tail(Todo(c))
            \in Seq(Entry)
    BY <1>4, CallTypes, PutBack
  <2>2. \A d \in Coroutines : ~Connecting(d)
    BY <1>1 DEF RegularInv, ConnectsAlone
  <2>3. OnlyCurrentOpen' /\ ConnectsAlone' /\ AttachHasSocket'
    BY <1>1, <1>4, <2>1, <2>2, RegularReconnect
  <2>4. OwnConnect'
    BY <1>1, <1>4, FreshIsCurrent DEF OwnConnect
  <2>5. QED
    BY <2>3, <2>4 DEF RegularInv
<1>5. QED
  BY <1>2, <1>3, <1>4, AttachEffect

LEMMA RegularStep ==
    ASSUME TypeOK, Shape, Regular, RegularInv, Next
    PROVE  RegularInv'
BY RegularScreens, RegularRequests, RegularConnects, RegularJoins,
   RegularAttach
   DEF Next, Step, Advances

-----------------------------------------------------------------------------
(* Before the first rotation.                                              *)

\* A coroutine that returns, but for the topics that are left joined.
LEMMA FreshReturns ==
    ASSUME TypeOK, FreshInv, NEW c \in Coroutines, NEW v, Returns(c, v),
           UNCHANGED <<phx, leaving>>
    PROVE  ActiveHasScreen' /\ OwnEntries' /\ OwnJoins'
<1>1. /\ call'[c] = NoCall /\ Others(c)
      /\ \A r \in Rooms : view'[r] = IF r = c /\ view[r] = "connecting" THEN v
                                     ELSE view[r]
      /\ rooms' = IF v = "failed" THEN rooms \ {c} ELSE rooms
  BY ReturnsEffect
<1>2. ActiveHasScreen'
  BY <1>1, NoCallFields DEF FreshInv, ActiveHasScreen, Active, Others
<1>3. OwnEntries'
  BY <1>1, NoCallFields DEF FreshInv, OwnEntries, Connecting, Todo, Others
<1>4. OwnJoins'
  BY <1>1, NoCallFields DEF FreshInv, OwnJoins, Joining, Others
<1>5. QED
  BY <1>2, <1>3, <1>4

\* A registered coroutine is the only one that is registered.
LEMMA OwnRoom ==
    ASSUME TypeOK, Shape, NEW c \in rooms
    PROVE  rooms = {c} /\ Cardinality(rooms) + 1 = 2
<1>1. rooms = {c}
  BY OneRoom DEF Shape
<1>2. Cardinality({c}) = 1
  BY FS_Singleton
<1>3. QED
  BY <1>1, <1>2

LEMMA FreshSubscribe ==
    ASSUME TypeOK, Shape, RegularInv, FreshInv, gen = 0, NEW r \in Rooms,
           Subscribe(r), UNCHANGED leaving
    PROVE  FreshInv'
<1>1. /\ Others(r) /\ r \in Coroutines
      /\ \A q \in Rooms : q # r => view'[q] = view[q]
  BY SubscribeEffect DEF Coroutines
<1>2. CASE /\ r \in rooms /\ view'[r] = "live" /\ call'[r] = NoCall
           /\ UNCHANGED <<phx, sockets, rooms>>
  <2>1. ActiveHasScreen'
    BY <1>1, <1>2, NoCallFields DEF FreshInv, ActiveHasScreen, Active, Others
  <2>2. OwnEntries'
    BY <1>1, <1>2, NoCallFields
       DEF FreshInv, OwnEntries, Connecting, Todo, Others
  <2>3. OwnJoins' /\ JoinedAreRegistered'
    BY <1>1, <1>2, NoCallFields
       DEF FreshInv, OwnJoins, JoinedAreRegistered, Joining, Others
  <2>4. QED
    BY <2>1, <2>2, <2>3 DEF FreshInv
<1>3. CASE /\ rooms' = rooms \cup {r} /\ view'[r] = "connecting"
           /\ UNCHANGED <<phx, sockets>> /\ call'[r].phase = "attach"
           /\ call'[r].todo = <<[room |-> r, checked |-> TRUE, size |-> 0]>>
  <2>1. ActiveHasScreen'
    BY <1>1, <1>3 DEF FreshInv, ActiveHasScreen, Active, Others
  <2>2. OwnEntries'
    BY <1>1, <1>3 DEF FreshInv, OwnEntries, Connecting, Todo, Others
  <2>3. OwnJoins' /\ JoinedAreRegistered'
    BY <1>1, <1>3 DEF FreshInv, OwnJoins, JoinedAreRegistered, Joining, Others
  <2>4. QED
    BY <2>1, <2>2, <2>3 DEF FreshInv
<1>4. CASE /\ rooms' = rooms \cup {r} /\ view'[r] = "connecting"
           /\ ~Current /\ Reconnect(r, <<>>)
  <2>1. phx = 0
    BY <1>4, FreshIsCurrent
  <2>2. <<>> \in Seq(Entry)
    OBVIOUS
  <2>3. /\ Len(sockets') = Len(sockets) /\ phx' = 0
        /\ call'[r].phase = "fetch" /\ call'[r].todo = <<>>
        /\ \A s \in 1..Len(sockets) : sockets'[s].open => sockets[s].open
    BY <1>1, <1>4, <2>2, ReconnectTypes
  <2>4. ActiveHasScreen'
    BY <1>1, <1>4, <2>3 DEF FreshInv, ActiveHasScreen, Active, Others
  <2>5. OwnEntries'
    BY <1>1, <2>3 DEF FreshInv, OwnEntries, Connecting, Todo, Others
  <2>6. OwnJoins'
    BY <1>1, <2>1, <2>3 DEF FreshInv, OwnJoins, Joining, Others
  <2>7. \A s \in 1..Len(sockets) : ~sockets[s].open
    BY <2>1 DEF RegularInv, OnlyCurrentOpen
  <2>8. JoinedAreRegistered'
    BY <2>3, <2>7 DEF JoinedAreRegistered
  <2>9. QED
    BY <2>4, <2>5, <2>6, <2>8 DEF FreshInv
<1>5. QED
  BY <1>2, <1>3, <1>4, SubscribeEffect

LEMMA FreshScreens ==
    ASSUME TypeOK, Shape, RegularInv, FreshInv, gen = 0, NEW r \in Rooms,
           OpenScreen(r) \/ Reload(r) \/ CloseScreen(r) \/ Left(r)
    PROVE  FreshInv'
<1>1. r \in Coroutines
  BY DEF Coroutines
<1>2. CASE OpenScreen(r) \/ Reload(r)
  BY <1>2, FreshSubscribe DEF OpenScreen, Reload
<1>3. CASE CloseScreen(r)
  <2>1. /\ view[r] # "closed" /\ view'[r] = "closed" /\ rooms' = rooms \ {r}
        /\ UNCHANGED <<phx, sockets>> /\ Others(r)
        /\ \A q \in Rooms : q # r => view'[q] = view[q]
        /\ \/ /\ call'[r] = NoCall /\ leaving' = leaving
              /\ phx = 0 \/ r \notin rooms
           \/ call'[r] = call[r] /\ leaving' = leaving \cup {r}
    BY <1>1, <1>3 DEF CloseScreen, TypeOK, Others
  <2>2. ActiveHasScreen'
    BY <2>1, NoCallFields DEF FreshInv, ActiveHasScreen, Active, Others
  <2>3. OwnEntries'
    BY <2>1, NoCallFields DEF FreshInv, OwnEntries, Connecting, Todo, Others
  <2>4. OwnJoins'
    BY <2>1, NoCallFields DEF FreshInv, OwnJoins, Joining, Others
  <2>5. JoinedAreRegistered'
    BY <2>1 DEF FreshInv, JoinedAreRegistered, RegularInv, OnlyCurrentOpen
  <2>6. QED
    BY <2>2, <2>3, <2>4, <2>5 DEF FreshInv
<1>4. CASE Left(r)
  <2>1. /\ UNCHANGED <<phx, rooms, view>> /\ sockets' = LeaveTopics(r)
        /\ leaving' = leaving \ {r} /\ Others(r)
        /\ \/ call'[r] = NoCall
           \/ call'[r] = call[r] /\ view[r] # "closed"
    BY <1>1, <1>4 DEF Left, TypeOK, Others
  <2>2. /\ Len(sockets') = Len(sockets)
        /\ \A s \in 1..Len(sockets) :
              /\ sockets'[s].open = sockets[s].open
              /\ s = phx => sockets'[s].joined = sockets[s].joined \ {r}
    BY <2>1, LeaveTopicsEffect
  <2>3. ActiveHasScreen'
    BY <2>1, NoCallFields DEF FreshInv, ActiveHasScreen, Active, Others
  <2>4. OwnEntries'
    BY <2>1, NoCallFields DEF FreshInv, OwnEntries, Connecting, Todo, Others
  <2>5. OwnJoins'
    BY <2>1, NoCallFields DEF FreshInv, OwnJoins, Joining, Others
  <2>6. JoinedAreRegistered'
    BY <2>1, <2>2
       DEF FreshInv, JoinedAreRegistered, RegularInv, OnlyCurrentOpen
  <2>7. QED
    BY <2>3, <2>4, <2>5, <2>6 DEF FreshInv
<1>5. QED
  BY <1>2, <1>3, <1>4

LEMMA FreshConnects ==
    ASSUME TypeOK, Shape, RegularInv, FreshInv, gen = 0, NEW c \in Coroutines,
           TokenFetched(c) \/ Connected(c) \/ ConnectFails(c)
    PROVE  FreshInv'
<1>1. CASE TokenFetched(c)
  <2>1. /\ call[c].phase = "fetch" /\ call'[c].phase = "connect" /\ Others(c)
        /\ call'[c].todo = call[c].todo
        /\ UNCHANGED <<phx, sockets, rooms, view, leaving>>
    BY <1>1, TokenFetchedEffect DEF TokenFetched
  <2>2. ActiveHasScreen'
    BY <2>1 DEF FreshInv, ActiveHasScreen, Active, Others
  <2>3. OwnEntries'
    BY <2>1 DEF FreshInv, OwnEntries, Connecting, Todo, Others
  <2>4. OwnJoins' /\ JoinedAreRegistered'
    BY <2>1 DEF FreshInv, OwnJoins, JoinedAreRegistered, Joining, Others
  <2>5. QED
    BY <2>2, <2>3, <2>4 DEF FreshInv
<1>2. CASE Connected(c)
  <2>1. /\ call[c].phase = "connect" /\ UNCHANGED <<rooms, view, leaving>>
        /\ phx' = Len(sockets) + 1
        /\ Len(sockets') = Len(sockets) + 1
        /\ \A s \in 1..Len(sockets) : sockets'[s] = sockets[s]
        /\ sockets'[phx'] = [gen |-> call[c].gen, joined |-> {}, open |-> TRUE]
        /\ call'[c].phase = "attach" /\ Others(c)
    BY <1>2, ConnectedEffect DEF Connected
  <2>2. Connecting(c) /\ phx = 0 /\ c \in rooms /\ Todo(c) = <<>>
    BY <2>1 DEF Connecting, RegularInv, ConnectsAlone, OwnConnect, FreshInv,
                OwnEntries
  <2>3. PICK order \in SetToSeqs(rooms) : call'[c].todo = Loop(order) \o Todo(c)
    BY <1>2, ConnectedEffect
  <2>4. /\ Loop(order) \in Seq(Entry)
        /\ \A i \in 1..Len(Loop(order)) :
              /\ Loop(order)[i].room \in rooms \cup {None}
              /\ rooms = {} \/ Loop(order)[i].size = 2
    BY OneLoop DEF Shape
  <2>5. /\ rooms = {c} /\ call'[c].todo = Loop(order)
    BY <2>2, <2>3, <2>4, OwnRoom
  <2>6. ActiveHasScreen'
    BY <2>1, <2>2 DEF FreshInv, ActiveHasScreen, Active, Others
  <2>7. OwnEntries'
    <3>1. \A i \in 1..Len(call'[c].todo) :
              /\ call'[c].todo[i].room \in {c, None}
              /\ call'[c].todo[i].size = 2
      BY <2>4, <2>5
    <3>2. QED
      BY <2>1, <3>1 DEF FreshInv, OwnEntries, Connecting, Todo, Others
  <2>8. OwnJoins'
    <3>1. \A d \in Coroutines : ~Joining(d)
      BY <2>2, JoinTarget DEF FreshInv, OwnJoins
    <3>2. QED
      BY <2>1, <3>1 DEF OwnJoins, Joining, Others
  <2>9. JoinedAreRegistered'
    BY <2>1, SocketTypes DEF FreshInv, JoinedAreRegistered
  <2>10. QED
    BY <2>6, <2>7, <2>8, <2>9 DEF FreshInv
<1>3. CASE ConnectFails(c)
  <2>1. /\ Connecting(c) /\ Returns(c, "failed")
        /\ UNCHANGED <<phx, sockets, leaving>>
    BY <1>3 DEF ConnectFails, Connecting
  <2>2. ActiveHasScreen' /\ OwnEntries' /\ OwnJoins'
    BY <2>1, FreshReturns
  <2>3. \A s \in 1..Len(sockets) : ~sockets[s].open
    BY <2>1 DEF RegularInv, ConnectsAlone, OnlyCurrentOpen
  <2>4. JoinedAreRegistered'
    BY <2>1, <2>3 DEF JoinedAreRegistered
  <2>5. QED
    BY <2>2, <2>4 DEF FreshInv
<1>4. QED
  BY <1>1, <1>2, <1>3

LEMMA FreshJoins ==
    ASSUME TypeOK, Shape, RegularInv, FreshInv, NEW c \in Coroutines,
           Joined(c) \/ JoinFails(c)
    PROVE  FreshInv'
<1>1. /\ call[c].socket \in 1..Len(sockets) /\ Target(c) \in Rooms
      /\ Todo(c) # <<>> /\ Todo(c) \in Seq(Entry)
      /\ Joining(c)
  BY JoinTarget, CallTypes DEF Joined, JoinFails, Joining
<1>2. Target(c) = c /\ c \in rooms \cup leaving
  BY <1>1, JoinTarget, RealtimeAssumption
     DEF FreshInv, OwnEntries, ActiveHasScreen, Active, Joining
<1>3. CASE Joined(c)
  <2>1. /\ call'[c].phase = "attach" /\ call'[c].todo = Tail(Todo(c))
        /\ Others(c) /\ UNCHANGED <<phx, rooms, view, leaving>>
    BY <1>3, JoinedCall DEF Joined
  <2>2. ActiveHasScreen'
    BY <1>1, <2>1 DEF FreshInv, ActiveHasScreen, Active, Others, Joining
  <2>3. OwnEntries'
    <3>1. \A i \in 1..Len(Tail(Todo(c))) :
              Tail(Todo(c))[i] = Todo(c)[i + 1] /\ i + 1 \in 1..Len(Todo(c))
      BY <1>1, TailEntries
    <3>2. \A i \in 1..Len(call'[c].todo) :
              /\ call'[c].todo[i].room \in {c, None}
              /\ ~call'[c].todo[i].checked => call'[c].todo[i].size = 2
      BY <2>1, <3>1 DEF FreshInv, OwnEntries
    <3>3. ~Connecting(c)'
      BY <2>1 DEF Connecting
    <3>4. \A d \in Coroutines : d # c => Todo(d)' = Todo(d)
                                       /\ Connecting(d)' = Connecting(d)
      BY <2>1 DEF Todo, Connecting, Others
    <3>5. QED
      BY <3>2, <3>3, <3>4 DEF FreshInv, OwnEntries, Todo
  <2>4. OwnJoins'
    BY <2>1 DEF FreshInv, OwnJoins, Joining, Others
  <2>5. JoinedAreRegistered'
    <3>1. /\ Len(sockets') = Len(sockets)
          /\ \A s \in 1..Len(sockets) :
                /\ sockets'[s].open = sockets[s].open
                /\ sockets'[s].joined \subseteq sockets[s].joined \cup {c}
      BY <1>1, <1>2, <1>3, JoinedEffect
    <3>2. QED
      BY <1>2, <2>1, <3>1 DEF FreshInv, JoinedAreRegistered
  <2>6. QED
    BY <2>2, <2>3, <2>4, <2>5 DEF FreshInv
<1>4. CASE JoinFails(c)
  <2>1. /\ Returns(c, "failed") /\ UNCHANGED <<phx, leaving>>
        /\ sockets' = LeaveTopics(Target(c))
    BY <1>4 DEF JoinFails, Target, Todo
  <2>2. ActiveHasScreen' /\ OwnEntries' /\ OwnJoins'
    BY <2>1, FreshReturns
  <2>3. /\ Len(sockets') = Len(sockets)
        /\ \A s \in 1..Len(sockets) :
              /\ sockets'[s].open = sockets[s].open
              /\ s = phx => sockets'[s].joined = sockets[s].joined \ {c}
    BY <1>2, <2>1, LeaveTopicsEffect
  <2>4. rooms' = rooms \ {c}
    BY <2>1 DEF Returns
  <2>5. JoinedAreRegistered'
    BY <2>1, <2>3, <2>4
       DEF FreshInv, JoinedAreRegistered, RegularInv, OnlyCurrentOpen
  <2>6. QED
    BY <2>2, <2>5 DEF FreshInv
<1>5. QED
  BY <1>3, <1>4

LEMMA FreshAttach ==
    ASSUME TypeOK, Shape, RegularInv, FreshInv, gen = 0, NEW c \in Coroutines,
           Attach(c)
    PROVE  FreshInv'
<1>1. /\ call[c].phase = "attach" /\ UNCHANGED leaving /\ phx # 0 /\ Current
      /\ Todo(c) \in Seq(Entry)
  BY AttachEffect, FreshIsCurrent, CallTypes DEF RegularInv, AttachHasSocket
<1>2. CASE Returns(c, "live") /\ UNCHANGED <<phx, sockets>>
  <2>1. ActiveHasScreen' /\ OwnEntries' /\ OwnJoins' /\ rooms' = rooms
    BY <1>1, <1>2, FreshReturns, ReturnsEffect
  <2>2. JoinedAreRegistered'
    BY <1>1, <1>2, <2>1 DEF FreshInv, JoinedAreRegistered
  <2>3. QED
    BY <2>1, <2>2 DEF FreshInv
<1>3. CASE /\ Todo(c) # <<>>
           /\ Changed(Head(Todo(c))) \/ (Head(Todo(c)).checked /\ phx = 0)
           /\ Returns(c, "failed") /\ UNCHANGED <<phx, sockets>>
  <2>1. ActiveHasScreen' /\ OwnEntries' /\ OwnJoins'
    BY <1>1, <1>3, FreshReturns
  <2>2. Changed(Head(Todo(c))) /\ Head(Todo(c)) = Todo(c)[1]
        /\ 1 \in 1..Len(Todo(c))
    BY <1>1, <1>3
  <2>3. Todo(c)[1].size = 2 /\ Cardinality(rooms) + 1 # 2
    BY <2>2 DEF FreshInv, OwnEntries, Changed
  <2>4. c \notin rooms
    BY <2>3, OwnRoom
  <2>5. rooms' = rooms
    BY <1>3, <2>4 DEF Returns
  <2>6. JoinedAreRegistered'
    BY <1>1, <1>3, <2>5 DEF FreshInv, JoinedAreRegistered
  <2>7. QED
    BY <2>1, <2>6 DEF FreshInv
<1>4. CASE /\ call'[c].phase \in {"attach", "join"}
           /\ \/ call'[c].todo = Todo(c)
              \/ Todo(c) # <<>> /\ call'[c].todo = Tail(Todo(c))
           /\ call'[c].phase = "join" => call'[c].socket = phx
           /\ Others(c) /\ UNCHANGED <<phx, sockets, rooms, view>>
  <2>1. ActiveHasScreen'
    BY <1>1, <1>4 DEF FreshInv, ActiveHasScreen, Active, Others
  <2>2. OwnEntries'
    <3>1. Todo(c) # <<>> =>
              \A i \in 1..Len(Tail(Todo(c))) :
                  Tail(Todo(c))[i] = Todo(c)[i + 1] /\ i + 1 \in 1..Len(Todo(c))
      BY <1>1, TailEntries
    <3>2. \A i \in 1..Len(call'[c].todo) :
              /\ call'[c].todo[i].room \in {c, None}
              /\ ~call'[c].todo[i].checked => call'[c].todo[i].size = 2
      BY <1>4, <3>1 DEF FreshInv, OwnEntries
    <3>3. QED
      BY <1>4, <3>2 DEF FreshInv, OwnEntries, Connecting, Todo, Others
  <2>3. OwnJoins' /\ JoinedAreRegistered'
    BY <1>1, <1>4 DEF FreshInv, OwnJoins, JoinedAreRegistered, Joining, Others
  <2>4. QED
    BY <2>1, <2>2, <2>3 DEF FreshInv
<1>5. QED
  BY <1>1, <1>2, <1>3, <1>4, AttachEffect

LEMMA FreshStep ==
    ASSUME TypeOK, Shape, RegularInv, FreshInv, gen = 0, gen' = 0, Next
    PROVE  FreshInv'
<1>1. ASSUME NEW c \in Calls, RequestResets(c)
      PROVE  FALSE
  BY <1>1, FreshIsCurrent DEF RequestResets
<1>2. ~Rotate
  BY DEF Rotate
<1>3. QED
  BY <1>1, <1>2, FreshScreens, FreshConnects, FreshJoins, FreshAttach
     DEF Next, Step, Advances

-----------------------------------------------------------------------------
(* Nothing overlaps, and no reconnect fails.                               *)

LEMMA SereneIsRegular == Serene => Regular
BY DEF Serene, Regular

LEMMA SereneBefore ==
    ASSUME Serene', gen \in Nat, gen' = gen \/ gen' = gen + 1, UNCHANGED mode
    PROVE  Serene
BY DEF Serene, MayFail, OneRequest

\* A coroutine that leads is active, an active request leads, and nobody
\* leaves a room meanwhile.
LEMMA SereneActive ==
    ASSUME SereneInv
    PROVE  /\ \A c \in Coroutines : Leads(c) => Active(c)
           /\ \A c \in Coroutines : Active(c) => leaving = {}
<1>1. \A c \in Coroutines : Leads(c) => Active(c)
  BY DEF Leads, Active, Connecting, Joining
<1>2. \A c \in Coroutines : Active(c) => leaving = {}
  BY DEF SereneInv, LeavesAlone
<1>3. QED
  BY <1>1, <1>2

LEMMA ActiveRequestLeads ==
    ASSUME TypeOK, SereneInv, NEW c \in Calls, Active(c)
    PROVE  Leads(c)
<1>1. c \in Coroutines
  BY DEF Coroutines
<1>2. call[c].phase \in {"fetch", "connect", "attach", "join"}
  BY <1>1, CallTypes DEF Active
<1>3. QED
  BY <1>2 DEF SereneInv, RequestsJoinOpen, Leads, Connecting, Joining

\* A coroutine that returns, but for the rooms that are left registered.
LEMMA SereneReturns ==
    ASSUME TypeOK, Shape, SereneInv, NEW c \in Coroutines, Active(c),
           NEW v \in {"live", "failed"}, Returns(c, v),
           UNCHANGED <<gen, phx, leaving>>,
           Len(sockets') = Len(sockets),
           \A s \in 1..Len(sockets) : /\ sockets'[s].gen = sockets[s].gen
                                      /\ sockets'[s].open = sockets[s].open
    PROVE  /\ LeavesAlone' /\ LiveIsRegistered' /\ ActiveIsRegistered'
           /\ OneLeads' /\ EntriesAreValid' /\ RequestsJoinOpen'
           /\ RequestsAreCurrent'
<1>1. /\ call'[c] = NoCall /\ Others(c)
      /\ \A r \in Rooms : view'[r] = IF r = c /\ view[r] = "connecting" THEN v
                                     ELSE view[r]
      /\ rooms' = IF v = "failed" THEN rooms \ {c} ELSE rooms
  BY ReturnsEffect
<1>2. LeavesAlone'
  BY SereneActive DEF LeavesAlone
<1>3. LiveIsRegistered'
  BY <1>1 DEF SereneInv, LiveIsRegistered, ActiveIsRegistered
<1>4. ActiveIsRegistered'
  BY <1>1, NoCallFields
     DEF SereneInv, ActiveIsRegistered, Active, Others, Coroutines
<1>5. \A d \in Coroutines : Joining(d) => call[d].socket \in 1..Len(sockets)
  BY JoinTarget
<1>6. OneLeads'
  BY <1>1, <1>5, NoCallFields
     DEF SereneInv, OneLeads, Leads, Connecting, Joining, Others
<1>7. EntriesAreValid'
  <2>1. \A r \in Rooms : view[r] # "closed" => view'[r] # "closed"
    BY <1>1
  <2>2. \A d \in Coroutines : \A i \in 1..Len(Todo(d)) :
            Todo(d)[i].room # None => Todo(d)[i].room \in Rooms
    BY CallTypes DEF Entry
  <2>3. \A d \in Coroutines : \A i \in 1..Len(Todo(d)') :
            d # c /\ Todo(d)' = Todo(d)
    BY <1>1, NoCallFields DEF Others, Todo
  <2>4. rooms = {} => rooms' = {}
    BY <1>1
  <2>5. QED
    BY <2>1, <2>2, <2>3, <2>4 DEF SereneInv, EntriesAreValid
<1>8. RequestsJoinOpen'
  BY <1>1, <1>5, NoCallFields
     DEF SereneInv, RequestsJoinOpen, Joining, Others, Coroutines
<1>9. RequestsAreCurrent'
  <2>1. Current' = Current
    BY SocketTypes DEF Current
  <2>2. QED
    BY <1>1, <2>1, NoCallFields
       DEF SereneInv, RequestsAreCurrent, Active, Others, Coroutines
<1>10. QED
  BY <1>2, <1>3, <1>4, <1>6, <1>7, <1>8, <1>9

\* A screen that gives up leaves no room registered.
LEMMA ScreenFails ==
    ASSUME TypeOK, Shape, SereneInv, NEW c \in Rooms, Active(c),
           Returns(c, "failed")
    PROVE  rooms' = {}
<1>1. c \in rooms /\ rooms' = rooms \ {c}
  BY DEF SereneInv, ActiveIsRegistered, Returns
<1>2. QED
  BY <1>1, OwnRoom

\* A step after which the only coroutine at work is r, or none is.
LEMMA SereneAlone ==
    ASSUME SereneInv, NEW r, r \notin Calls, leaving' = {}, gen' = gen,
           \A c \in Coroutines : c # r => ~Active(c)' /\ Todo(c)' = <<>>,
           Active(r)' => view'[r] = "connecting" /\ r \in rooms'
    PROVE  /\ LeavesAlone' /\ ActiveIsRegistered' /\ OneLeads'
           /\ RequestsJoinOpen' /\ RequestsAreCurrent'
<1>1. \A c \in Calls : ~Active(c)'
  BY DEF Coroutines
<1>2. \A c \in Coroutines : Leads(c)' => c = r
  BY DEF Leads, Active, Connecting, Joining
<1>3. LeavesAlone' /\ ActiveIsRegistered' /\ OneLeads'
  BY <1>2 DEF LeavesAlone, ActiveIsRegistered, OneLeads, Coroutines
<1>4. RequestsJoinOpen' /\ RequestsAreCurrent'
  BY <1>1 DEF RequestsJoinOpen, RequestsAreCurrent, Joining, Active
<1>5. QED
  BY <1>3, <1>4

LEMMA SereneSubscribe ==
    ASSUME TypeOK, Shape, SereneInv, Quiet, NEW r \in Rooms, Subscribe(r),
           \A q \in Rooms : view[q] # "closed" => q = r,
           UNCHANGED <<gen, leaving>>
    PROVE  SereneInv'
<1>1. /\ Others(r) /\ r \in Coroutines /\ r \notin Calls
      /\ \A q \in Rooms : q # r => view'[q] = view[q]
  BY SubscribeEffect, RealtimeAssumption DEF Coroutines
<1>2. \A c \in Coroutines : c # r => ~Active(c)' /\ Todo(c)' = <<>>
  BY <1>1, NoCallFields DEF Quiet, Shape, IdleIsClear, Active, Todo, Others
<1>3. rooms \subseteq {r} /\ leaving' = {}
  BY DEF Shape, RegisteredHaveScreen, TypeOK, Quiet
<1>4. ASSUME Active(r)' => view'[r] = "connecting" /\ r \in rooms',
             view'[r] = "live" => r \in rooms'
      PROVE  /\ LeavesAlone' /\ ActiveIsRegistered' /\ OneLeads'
             /\ RequestsJoinOpen' /\ RequestsAreCurrent'
             /\ LiveIsRegistered'
  <2>1. /\ LeavesAlone' /\ ActiveIsRegistered' /\ OneLeads'
        /\ RequestsJoinOpen' /\ RequestsAreCurrent'
    BY <1>1, <1>2, <1>3, <1>4, SereneAlone
  <2>2. LiveIsRegistered'
    BY <1>1, <1>4 DEF LiveIsRegistered
  <2>3. QED
    BY <2>1, <2>2
<1>5. CASE /\ r \in rooms /\ view'[r] = "live" /\ call'[r] = NoCall
           /\ UNCHANGED <<phx, sockets, rooms>>
  <2>1. ~Active(r)' /\ Todo(r)' = <<>>
    BY <1>5, NoCallFields DEF Active, Todo
  <2>2. EntriesAreValid'
    BY <1>2, <2>1 DEF EntriesAreValid
  <2>3. phx # 0 /\ r \in sockets[phx].joined
    BY <1>1, <1>5, SereneActive
       DEF SereneInv, RoomsAreCared, Quiet, Active, Joining, Pending
  <2>4. RoomsAreCared'
    BY <1>3, <1>5, <2>3 DEF RoomsAreCared
  <2>5. QED
    BY <1>4, <1>5, <2>1, <2>2, <2>4 DEF SereneInv
<1>6. CASE /\ rooms' = rooms \cup {r} /\ view'[r] = "connecting"
           /\ call'[r].phase = "attach"
           /\ call'[r].todo = <<[room |-> r, checked |-> TRUE, size |-> 0]>>
  <2>1. Leads(r)'
    BY <1>6 DEF Leads
  <2>2. /\ Len(Todo(r)') = 1 /\ Todo(r)'[1].room = r
        /\ Todo(r)'[1].checked = TRUE
    BY <1>6 DEF Todo
  <2>3. EntriesAreValid'
    BY <1>2, <1>6, <2>2 DEF EntriesAreValid
  <2>4. Pending(r, r)'
    BY <2>1, <2>2 DEF Pending
  <2>5. RoomsAreCared'
    BY <1>1, <1>3, <1>6, <2>4 DEF RoomsAreCared
  <2>6. QED
    BY <1>4, <1>6, <2>3, <2>5 DEF SereneInv
<1>7. CASE /\ rooms' = rooms \cup {r} /\ view'[r] = "connecting"
           /\ Reconnect(r, <<>>)
  <2>1. <<>> \in Seq(Entry)
    OBVIOUS
  <2>2. call'[r].phase = "fetch" /\ call'[r].todo = <<>>
    BY <1>1, <1>7, <2>1, ReconnectTypes
  <2>3. EntriesAreValid'
    BY <1>2, <2>2 DEF EntriesAreValid, Todo
  <2>4. Pending(r, r)'
    BY <2>2 DEF Pending, Leads, Connecting
  <2>5. RoomsAreCared'
    BY <1>1, <1>3, <1>7, <2>4 DEF RoomsAreCared
  <2>6. QED
    BY <1>4, <1>7, <2>3, <2>5 DEF SereneInv
<1>8. QED
  BY <1>5, <1>6, <1>7, SubscribeEffect

LEMMA SereneScreens ==
    ASSUME TypeOK, Shape, Serene, SereneInv, NEW r \in Rooms,
           OpenScreen(r) \/ Reload(r) \/ CloseScreen(r) \/ Left(r)
    PROVE  SereneInv'
<1>1. r \in Coroutines
  BY DEF Coroutines
<1>2. CASE OpenScreen(r) \/ Reload(r)
  <2>1. Subscribe(r) /\ Quiet /\ UNCHANGED <<gen, leaving>>
    BY <1>2 DEF OpenScreen, Reload, MayAct, Serene
  <2>2. \A q \in Rooms : view[q] # "closed" => q = r
    BY <1>2 DEF OpenScreen, Reload, Shape, OneScreen
  <2>3. QED
    BY <2>1, <2>2, SereneSubscribe
<1>3. CASE CloseScreen(r)
  <2>1. /\ Quiet /\ view[r] # "closed" /\ view'[r] = "closed"
        /\ rooms' = rooms \ {r} /\ Others(r)
        /\ \A q \in Rooms : q # r => view'[q] = view[q]
        /\ call'[r] = NoCall \/ call'[r] = call[r]
    BY <1>1, <1>3 DEF CloseScreen, MayAct, Serene, TypeOK, Others
  <2>2. \A q \in Rooms : view'[q] = "closed"
    BY <2>1 DEF Shape, OneScreen
  <2>3. rooms' = {}
    BY <2>1 DEF Shape, RegisteredHaveScreen, OneScreen, TypeOK
  <2>4. \A c \in Coroutines : ~Active(c)' /\ Todo(c)' = <<>>
    BY <2>1, NoCallFields DEF Quiet, Shape, IdleIsClear, Active, Todo, Others
  <2>5. LeavesAlone' /\ LiveIsRegistered' /\ ActiveIsRegistered'
    BY <2>2, <2>4
       DEF LeavesAlone, LiveIsRegistered, ActiveIsRegistered, Coroutines
  <2>6. OneLeads'
    BY <2>4 DEF OneLeads, Leads, Active, Connecting, Joining
  <2>7. EntriesAreValid' /\ RoomsAreCared'
    BY <2>3, <2>4 DEF EntriesAreValid, RoomsAreCared
  <2>8. RequestsJoinOpen' /\ RequestsAreCurrent'
    BY <2>4
       DEF RequestsJoinOpen, RequestsAreCurrent, Joining, Active, Coroutines
  <2>9. QED
    BY <2>5, <2>6, <2>7, <2>8 DEF SereneInv
<1>4. CASE Left(r)
  <2>1. /\ UNCHANGED <<rooms, view>> /\ Others(r)
        /\ call'[r] = NoCall \/ call'[r] = call[r]
        /\ leaving # {}
    BY <1>1, <1>4 DEF Left, TypeOK, Others
  <2>2. /\ \A q \in Rooms : view[q] = "closed"
        /\ \A c \in Coroutines : ~Active(c)
    BY <2>1 DEF SereneInv, LeavesAlone
  <2>3. rooms = {}
    BY <2>2 DEF Shape, RegisteredHaveScreen, TypeOK
  <2>4. \A c \in Coroutines : ~Active(c)' /\ Todo(c)' = <<>>
    BY <2>1, <2>2, NoCallFields DEF Shape, IdleIsClear, Active, Todo, Others
  <2>5. LeavesAlone' /\ LiveIsRegistered' /\ ActiveIsRegistered'
    BY <2>1, <2>2, <2>4
       DEF LeavesAlone, LiveIsRegistered, ActiveIsRegistered, Coroutines
  <2>6. OneLeads'
    BY <2>4 DEF OneLeads, Leads, Active, Connecting, Joining
  <2>7. EntriesAreValid' /\ RoomsAreCared'
    BY <2>1, <2>3, <2>4 DEF EntriesAreValid, RoomsAreCared
  <2>8. RequestsJoinOpen' /\ RequestsAreCurrent'
    BY <2>4
       DEF RequestsJoinOpen, RequestsAreCurrent, Joining, Active, Coroutines
  <2>9. QED
    BY <2>5, <2>6, <2>7, <2>8 DEF SereneInv
<1>5. QED
  BY <1>2, <1>3, <1>4

\* A request that resets the socket is the only one: the socket another one
\* joins on is current (RequestsAreCurrent) or there is no other (OneRequest).
LEMMA ResetsAlone ==
    ASSUME TypeOK, Shape, RegularInv, Serene, SereneInv, NEW c \in Calls,
           RequestResets(c), NEW d \in Calls
    PROVE  ~Active(d)
<1>1. /\ phx # 0 /\ ~Current /\ ~Active(c) /\ d \in Coroutines
      /\ call[d].phase # "attach"
  BY DEF RequestResets, Active, EventLoop, Coroutines
<1>2. CASE gen > 1
  BY <1>1, <1>2 DEF Serene, OneRequest
<1>3. CASE gen <= 1
  <2>1. ~Joining(d)
    BY <1>1, <1>3 DEF SereneInv, RequestsAreCurrent, Joining, Active
  <2>2. ~Connecting(d)
    BY <1>1 DEF RegularInv, ConnectsAlone
  <2>3. QED
    BY <1>1, <2>1, <2>2, CallTypes DEF Joining, Connecting, Active
<1>4. gen \in Nat
  BY DEF TypeOK
<1>5. QED
  BY <1>2, <1>3, <1>4

LEMMA SereneRequests ==
    ASSUME TypeOK, Shape, RegularInv, Serene, SereneInv, NEW c \in Calls,
           RequestResets(c)
    PROVE  SereneInv'
<1>1. /\ c \in Coroutines /\ c \notin Rooms /\ <<>> \in Seq(Entry)
      /\ UNCHANGED <<gen, rooms, view, leaving>>
      /\ phx # 0 /\ ~Current
      /\ \A d \in Coroutines : call[d].phase # "attach"
  BY RealtimeAssumption DEF RequestResets, Coroutines, EventLoop
<1>2. \A d \in Calls : ~Active(d)
  BY ResetsAlone
<1>3. \A d \in Coroutines : ~Connecting(d)
  BY <1>1 DEF RegularInv, ConnectsAlone
<1>4. \A d \in Coroutines : Joining(d) =>
          /\ call[d].socket \in 1..Len(sockets)
          /\ sockets[call[d].socket].open => call[d].socket = phx
  BY JoinTarget DEF RegularInv, OnlyCurrentOpen
<1>5. gen # 0 /\ gen \in Nat
  BY <1>1, FreshIsCurrent DEF TypeOK
<1>6. CASE /\ \E r \in Rooms : view[r] \in {"connecting", "live"}
           /\ Reconnect(c, <<>>)
  <2>1. /\ call'[c].phase = "fetch" /\ call'[c].todo = <<>> /\ Others(c)
        /\ \A s \in 1..Len(sockets) :
              sockets'[s].open = (sockets[s].open /\ s # phx)
    BY <1>1, <1>6, ReconnectTypes, Zenon DEF Others
  <2>2. leaving = {}
    BY <1>6 DEF SereneInv, LeavesAlone
  <2>3. LeavesAlone' /\ LiveIsRegistered'
    BY <1>1, <2>2 DEF SereneInv, LeavesAlone, LiveIsRegistered
  <2>4. ActiveIsRegistered'
    BY <1>1, <2>1
       DEF SereneInv, ActiveIsRegistered, Active, Others, Coroutines
  <2>5. \A d \in Coroutines : Leads(d)' => d = c
    BY <1>1, <1>3, <1>4, <2>1 DEF Leads, Connecting, Joining, Others
  <2>6. OneLeads'
    BY <2>5 DEF OneLeads
  <2>7. EntriesAreValid'
    BY <1>1, <2>1 DEF SereneInv, EntriesAreValid, Todo, Others
  <2>8. \A d \in Calls : d # c => ~Active(d)'
    BY <1>2, <2>1 DEF Active, Others, Coroutines
  <2>9. RequestsJoinOpen' /\ RequestsAreCurrent'
    BY <1>1, <1>5, <2>1, <2>8
       DEF RequestsJoinOpen, RequestsAreCurrent, Joining, Active
  <2>10. \A r : Pending(c, r)'
    BY <2>1 DEF Pending, Leads, Connecting
  <2>11. RoomsAreCared'
    BY <1>1, <2>10 DEF RoomsAreCared
  <2>12. QED
    BY <2>3, <2>4, <2>6, <2>7, <2>9, <2>11 DEF SereneInv
<1>7. CASE /\ ~\E r \in Rooms : view[r] \in {"connecting", "live"}
           /\ phx' = 0 /\ sockets' = ShutDown(phx) /\ UNCHANGED call
  <2>1. \A s \in 1..Len(sockets) :
            sockets'[s].open = (sockets[s].open /\ s # phx)
    BY <1>7, ShutDownEffect
  <2>2. rooms = {}
    BY <1>7 DEF Shape, RegisteredHaveScreen, TypeOK
  <2>3. LeavesAlone' /\ LiveIsRegistered' /\ ActiveIsRegistered'
    BY <1>1, <1>7
       DEF SereneInv, LeavesAlone, LiveIsRegistered, ActiveIsRegistered, Active
  <2>4. \A d \in Coroutines : ~Leads(d)'
    BY <1>1, <1>3, <1>4, <1>7, <2>1 DEF Leads, Connecting, Joining
  <2>5. OneLeads'
    BY <2>4 DEF OneLeads
  <2>6. EntriesAreValid' /\ RoomsAreCared'
    BY <1>1, <1>7, <2>2
       DEF SereneInv, EntriesAreValid, RoomsAreCared, Todo
  <2>7. RequestsJoinOpen' /\ RequestsAreCurrent'
    BY <1>2, <1>7 DEF RequestsJoinOpen, RequestsAreCurrent, Joining, Active
  <2>8. QED
    BY <2>3, <2>5, <2>6, <2>7 DEF SereneInv
<1>8. QED
  BY <1>6, <1>7 DEF RequestResets

LEMMA SereneRotates ==
    ASSUME TypeOK, SereneInv, Rotate
    PROVE  SereneInv'
<1>1. /\ UNCHANGED <<phx, sockets, rooms, view, leaving, call>>
      /\ gen' = gen + 1 /\ gen \in Nat
  BY DEF Rotate, TypeOK
<1>2. LeavesAlone' /\ LiveIsRegistered' /\ ActiveIsRegistered'
  BY <1>1
     DEF SereneInv, LeavesAlone, LiveIsRegistered, ActiveIsRegistered, Active
<1>3. OneLeads' /\ RequestsJoinOpen' /\ RoomsAreCared'
  BY <1>1 DEF SereneInv, OneLeads, RequestsJoinOpen, RoomsAreCared, Pending,
              Leads, Connecting, Joining, Todo
<1>4. EntriesAreValid'
  BY <1>1 DEF SereneInv, EntriesAreValid, Todo
<1>5. RequestsAreCurrent'
  BY <1>1 DEF SereneInv, RequestsAreCurrent, Active
<1>6. QED
  BY <1>2, <1>3, <1>4, <1>5 DEF SereneInv

LEMMA SereneFetched ==
    ASSUME TypeOK, Shape, SereneInv, NEW c \in Coroutines, TokenFetched(c)
    PROVE  SereneInv'
<1>1. /\ call[c].phase = "fetch" /\ call'[c].phase = "connect"
      /\ call'[c].todo = call[c].todo /\ call'[c].gen = gen /\ Others(c)
      /\ UNCHANGED <<gen, phx, sockets, rooms, view, leaving>>
  BY TokenFetchedEffect DEF TokenFetched
<1>2. \A d \in Coroutines : /\ Active(d)' = Active(d)
                            /\ Connecting(d)' = Connecting(d)
                            /\ Joining(d)' = Joining(d)
                            /\ Joining(d) => call'[d] = call[d]
                            /\ Leads(d)' = Leads(d)
                            /\ Todo(d)' = Todo(d)
  BY <1>1 DEF Active, Connecting, Joining, Leads, Todo, Others
<1>3. LeavesAlone' /\ LiveIsRegistered' /\ ActiveIsRegistered'
  BY <1>1, <1>2
     DEF SereneInv, LeavesAlone, LiveIsRegistered, ActiveIsRegistered,
         Coroutines
<1>4. OneLeads'
  BY <1>2 DEF SereneInv, OneLeads
<1>5. EntriesAreValid'
  BY <1>1, <1>2 DEF SereneInv, EntriesAreValid
<1>6. RequestsJoinOpen'
  BY <1>1, <1>2 DEF SereneInv, RequestsJoinOpen, Coroutines
<1>7. RequestsAreCurrent'
  BY <1>1, <1>2
     DEF SereneInv, RequestsAreCurrent, Active, Current, Others, Coroutines
<1>8. \A d \in Coroutines : \A r : Pending(d, r)' = Pending(d, r)
  BY <1>2 DEF Pending
<1>9. RoomsAreCared'
  BY <1>1, <1>2, <1>8 DEF SereneInv, RoomsAreCared, Coroutines, TypeOK
<1>10. QED
  BY <1>3, <1>4, <1>5, <1>6, <1>7, <1>9 DEF SereneInv

LEMMA SereneConnected ==
    ASSUME TypeOK, Shape, RegularInv, SereneInv, NEW c \in Coroutines,
           Connected(c)
    PROVE  SereneInv'
<1>1. /\ call[c].phase = "connect" /\ UNCHANGED <<gen, rooms, view, leaving>>
      /\ phx' = Len(sockets) + 1
      /\ Len(sockets') = Len(sockets) + 1
      /\ \A s \in 1..Len(sockets) : sockets'[s] = sockets[s]
      /\ sockets'[phx'] = [gen |-> call[c].gen, joined |-> {}, open |-> TRUE]
      /\ call'[c].phase = "attach" /\ Others(c)
  BY ConnectedEffect DEF Connected
<1>2. PICK order \in SetToSeqs(rooms) : call'[c].todo = Loop(order) \o Todo(c)
  BY ConnectedEffect
<1>3. /\ Loop(order) \in Seq(Entry)
      /\ \A i \in 1..Len(Loop(order)) :
            /\ Loop(order)[i].room \in rooms \cup {None}
            /\ rooms = {} \/ Loop(order)[i].size = 2
      /\ \A r \in rooms : \E i \in 1..Len(Loop(order)) : Loop(order)[i].room = r
  BY OneLoop DEF Shape
<1>4. Connecting(c) /\ Leads(c) /\ Active(c) /\ phx = 0
  BY <1>1 DEF Connecting, Leads, Active, RegularInv, ConnectsAlone
<1>5. \A d \in Coroutines : Joining(d) =>
          /\ call[d].socket \in 1..Len(sockets)
          /\ sockets'[call[d].socket] = sockets[call[d].socket]
  BY <1>1, JoinTarget
<1>6. \A d \in Coroutines : d # c => /\ Leads(d)' = Leads(d)
                                     /\ Active(d)' = Active(d)
                                     /\ Todo(d)' = Todo(d)
                                     /\ call'[d] = call[d]
  BY <1>1, <1>5 DEF Leads, Active, Connecting, Joining, Todo, Others
<1>7. LeavesAlone' /\ LiveIsRegistered'
  BY <1>1, <1>4, SereneActive DEF SereneInv, LeavesAlone, LiveIsRegistered
<1>8. ActiveIsRegistered'
  BY <1>1, <1>4, <1>6 DEF SereneInv, ActiveIsRegistered, Coroutines
<1>9. \A d \in Coroutines : Leads(d) => d = c
  BY <1>4 DEF SereneInv, OneLeads
<1>10. OneLeads'
  BY <1>6, <1>9 DEF OneLeads
<1>11. EntriesAreValid'
  <2>1. \A i \in 1..Len(Loop(order)) :
            Loop(order)[i].room # None => view[Loop(order)[i].room] # "closed"
    BY <1>3 DEF Shape, RegisteredHaveScreen
  <2>2. Todo(c) \in Seq(Entry)
    BY CallTypes
  <2>3. \A i \in 1..Len(Todo(c)') :
            \/ i \in 1..Len(Loop(order)) /\ Todo(c)'[i] = Loop(order)[i]
            \/ \E j \in 1..Len(Todo(c)) : Todo(c)'[i] = Todo(c)[j]
    <3>1. Todo(c)' = Loop(order) \o Todo(c)
      BY <1>2 DEF Todo
    <3>2. ASSUME NEW i \in 1..Len(Todo(c)'), i \notin 1..Len(Loop(order))
          PROVE  /\ i - Len(Loop(order)) \in 1..Len(Todo(c))
                 /\ Todo(c)'[i] = Todo(c)[i - Len(Loop(order))]
      BY <1>3, <2>2, <3>1, <3>2
    <3>3. QED
      BY <1>3, <2>2, <3>1, <3>2
  <2>4. \A i \in 1..Len(Todo(c)') :
            /\ Todo(c)'[i].room # None => view[Todo(c)'[i].room] # "closed"
            /\ ~Todo(c)'[i].checked => rooms = {} \/ Todo(c)'[i].size = 2
    BY <1>3, <2>1, <2>3 DEF SereneInv, EntriesAreValid
  <2>5. QED
    BY <1>1, <1>6, <2>4 DEF SereneInv, EntriesAreValid
<1>12. RequestsJoinOpen'
  BY <1>1, <1>5, <1>6 DEF SereneInv, RequestsJoinOpen, Joining, Coroutines
<1>13. RequestsAreCurrent'
  <2>1. \A d \in Calls : d # c => ~Active(d)'
    BY <1>6, <1>9, ActiveRequestLeads DEF Coroutines
  <2>2. c \in Calls /\ gen <= 1 => gen = 1 /\ call[c].gen = 1
    BY <1>1, <1>4 DEF SereneInv, RequestsAreCurrent
  <2>3. c \in Calls /\ gen <= 1 => gen = 1 /\ Current'
    BY <1>1, <2>2, SocketTypes DEF Current
  <2>4. QED
    BY <1>1, <2>1, <2>3 DEF RequestsAreCurrent
<1>14. RoomsAreCared'
  <2>1. ASSUME NEW r \in rooms
        PROVE  Pending(c, r)'
    <3>1. PICK i \in 1..Len(Loop(order)) : Loop(order)[i].room = r
      BY <1>3
    <3>2. i \in 1..Len(Todo(c)') /\ Todo(c)'[i] = Loop(order)[i]
      BY <1>2, <1>3, CallTypes DEF Todo
    <3>3. QED
      BY <1>1, <3>1, <3>2 DEF Pending, Leads
  <2>2. QED
    BY <1>1, <2>1 DEF RoomsAreCared
<1>15. QED
  BY <1>7, <1>8, <1>10, <1>11, <1>12, <1>13, <1>14 DEF SereneInv

\* Only a screen can fail to connect or to join: a request is active after a
\* rotation only, and joins on a socket that is open.
LEMMA RequestsDoNotFail ==
    ASSUME TypeOK, Shape, Serene, SereneInv, NEW c \in Coroutines,
           ConnectFails(c) \/ JoinFails(c)
    PROVE  c \in Rooms /\ Active(c)
<1>1. Active(c)
  BY DEF ConnectFails, JoinFails, Active
<1>2. ASSUME c \in Calls
      PROVE  FALSE
  <2>1. MayFail
    BY <1>2 DEF ConnectFails, JoinFails, SereneInv, RequestsJoinOpen, Joining
  <2>2. QED
    BY <1>1, <1>2, <2>1 DEF Serene, SereneInv, RequestsAreCurrent
<1>3. QED
  BY <1>1, <1>2 DEF Coroutines

LEMMA SereneFails ==
    ASSUME TypeOK, Shape, Serene, SereneInv, NEW c \in Coroutines,
           ConnectFails(c) \/ JoinFails(c)
    PROVE  SereneInv'
<1>1. c \in Rooms /\ Active(c)
  BY RequestsDoNotFail
<1>2. /\ Returns(c, "failed") /\ UNCHANGED <<gen, phx, leaving>>
      /\ sockets' = sockets \/ sockets' = LeaveTopics(Target(c))
  BY DEF ConnectFails, JoinFails, Target, Todo
<1>3. /\ Len(sockets') = Len(sockets)
      /\ \A s \in 1..Len(sockets) : /\ sockets'[s].gen = sockets[s].gen
                                    /\ sockets'[s].open = sockets[s].open
  <2>1. CASE sockets' = sockets
    BY <2>1
  <2>2. CASE sockets' = LeaveTopics(Target(c))
    BY <2>2, LeaveTopicsEffect
  <2>3. QED
    BY <1>2, <2>1, <2>2
<1>4. /\ LeavesAlone' /\ LiveIsRegistered' /\ ActiveIsRegistered'
      /\ OneLeads' /\ EntriesAreValid' /\ RequestsJoinOpen'
      /\ RequestsAreCurrent'
  BY <1>1, <1>2, <1>3, SereneReturns
<1>5. rooms' = {}
  BY <1>1, <1>2, ScreenFails
<1>6. QED
  BY <1>4, <1>5 DEF SereneInv, RoomsAreCared

\* A step of the coroutine that leads, which goes on leading with the entries
\* it had or with all but the first.
LEMMA SereneGoesOn ==
    ASSUME TypeOK, Shape, SereneInv, NEW c \in Coroutines, Leads(c), Leads(c)',
           call'[c].phase \in {"attach", "join"},
           call[c].phase \in {"attach", "join"},
           \/ call'[c].todo = Todo(c)
           \/ Todo(c) # <<>> /\ call'[c].todo = Tail(Todo(c)),
           Others(c), UNCHANGED <<gen, phx, rooms, view, leaving>>,
           Len(sockets') = Len(sockets),
           \A s \in 1..Len(sockets) : /\ sockets'[s].gen = sockets[s].gen
                                      /\ sockets'[s].open = sockets[s].open
    PROVE  /\ LeavesAlone' /\ LiveIsRegistered' /\ ActiveIsRegistered'
           /\ OneLeads' /\ EntriesAreValid' /\ RequestsJoinOpen'
           /\ RequestsAreCurrent'
<1>1. \A d \in Coroutines : Joining(d) => call[d].socket \in 1..Len(sockets)
  BY JoinTarget
<1>2. \A d \in Coroutines : d # c => /\ Leads(d)' = Leads(d)
                                     /\ Active(d)' = Active(d)
                                     /\ Todo(d)' = Todo(d)
                                     /\ call'[d] = call[d]
  BY <1>1 DEF Leads, Active, Connecting, Joining, Todo, Others
<1>3. Active(c) /\ leaving = {}
  BY SereneActive
<1>4. LeavesAlone' /\ LiveIsRegistered'
  BY <1>3 DEF SereneInv, LeavesAlone, LiveIsRegistered
<1>5. ActiveIsRegistered'
  BY <1>2, <1>3 DEF SereneInv, ActiveIsRegistered, Coroutines
<1>6. \A d \in Coroutines : Leads(d) => d = c
  BY DEF SereneInv, OneLeads
<1>7. OneLeads'
  BY <1>2, <1>6 DEF OneLeads
<1>8. EntriesAreValid'
  <2>1. Todo(c) \in Seq(Entry)
    BY CallTypes
  <2>2. \A i \in 1..Len(Todo(c)') : \E j \in 1..Len(Todo(c)) :
            Todo(c)'[i] = Todo(c)[j]
    <3>1. CASE Todo(c)' = Todo(c)
      BY <3>1
    <3>2. CASE Todo(c) # <<>> /\ Todo(c)' = Tail(Todo(c))
      <4>1. \A i \in 1..Len(Tail(Todo(c))) :
                Tail(Todo(c))[i] = Todo(c)[i + 1] /\ i + 1 \in 1..Len(Todo(c))
        BY <2>1, <3>2, TailEntries
      <4>2. QED
        BY <3>2, <4>1
    <3>3. QED
      BY <3>1, <3>2 DEF Todo
  <2>3. QED
    BY <1>2, <2>2 DEF SereneInv, EntriesAreValid
<1>9. RequestsJoinOpen'
  <2>1. Joining(c)' => sockets'[call'[c].socket].open
    BY DEF Leads, Joining, Connecting
  <2>2. QED
    BY <1>1, <1>2, <2>1 DEF SereneInv, RequestsJoinOpen, Joining, Coroutines
<1>10. RequestsAreCurrent'
  <2>1. Current' = Current
    BY SocketTypes DEF Current
  <2>2. QED
    BY <1>2, <1>3, <2>1
       DEF SereneInv, RequestsAreCurrent, Active, Coroutines
<1>11. QED
  BY <1>4, <1>5, <1>7, <1>8, <1>9, <1>10

LEMMA SereneJoined ==
    ASSUME TypeOK, Shape, RegularInv, SereneInv, NEW c \in Coroutines, Joined(c)
    PROVE  SereneInv'
<1>1. /\ Joining(c) /\ call[c].socket \in 1..Len(sockets)
      /\ Target(c) \in Rooms /\ Todo(c) # <<>> /\ Todo(c) \in Seq(Entry)
      /\ Todo(c)[1].room = Target(c)
      /\ sockets[call[c].socket].open
  BY JoinTarget, CallTypes DEF Joined, Joining
<1>2. call[c].socket = phx
  BY <1>1 DEF RegularInv, OnlyCurrentOpen
<1>3. /\ call'[c].phase = "attach" /\ call'[c].todo = Tail(Todo(c))
      /\ Others(c) /\ UNCHANGED <<gen, phx, rooms, view, leaving>>
  BY JoinedCall DEF Joined
<1>4. /\ Len(sockets') = Len(sockets)
      /\ \A s \in 1..Len(sockets) : /\ sockets'[s].gen = sockets[s].gen
                                    /\ sockets'[s].open = sockets[s].open
      /\ sockets'[phx].joined = sockets[phx].joined \cup {Target(c)}
  BY <1>1, <1>2, JoinedEffect
<1>5. Leads(c) /\ Leads(c)'
  BY <1>1, <1>3 DEF Leads
<1>6. /\ LeavesAlone' /\ LiveIsRegistered' /\ ActiveIsRegistered'
      /\ OneLeads' /\ EntriesAreValid' /\ RequestsJoinOpen'
      /\ RequestsAreCurrent'
  BY <1>1, <1>3, <1>4, <1>5, SereneGoesOn DEF Joining
<1>7. RoomsAreCared'
  <2>1. \A d \in Coroutines : Leads(d) => d = c
    BY <1>5 DEF SereneInv, OneLeads
  <2>2. ASSUME NEW r \in rooms, Pending(c, r)
        PROVE  Pending(c, r)' \/ r = Target(c)
    <3>1. PICK i \in 1..Len(Todo(c)) : Todo(c)[i].room = r
      BY <1>1, <2>2 DEF Pending, Connecting, Joining
    <3>2. \/ i = 1
          \/ /\ i - 1 \in 1..Len(Tail(Todo(c)))
             /\ Tail(Todo(c))[i - 1] = Todo(c)[i]
      BY <1>1, <3>1, TailEntries
    <3>3. CASE i = 1
      BY <1>1, <3>1, <3>3
    <3>4. CASE /\ i - 1 \in 1..Len(Tail(Todo(c)))
               /\ Tail(Todo(c))[i - 1] = Todo(c)[i]
      <4>1. i - 1 \in 1..Len(Todo(c)') /\ Todo(c)'[i - 1].room = r
        BY <1>3, <3>1, <3>4 DEF Todo
      <4>2. QED
        BY <1>5, <4>1 DEF Pending
    <3>5. QED
      BY <3>2, <3>3, <3>4
  <2>3. ASSUME NEW r \in rooms, Joining(r), ~sockets[call[r].socket].open
        PROVE  Joining(r)' /\ ~sockets'[call'[r].socket].open
    <3>1. r # c /\ r \in Coroutines
      BY <1>1, <2>3 DEF TypeOK, Coroutines
    <3>2. call'[r] = call[r] /\ call[r].socket \in 1..Len(sockets)
      BY <1>3, <2>3, <3>1, JoinTarget DEF Others
    <3>3. QED
      BY <1>4, <2>3, <3>2 DEF Joining
  <2>4. \A r \in rooms : r \in sockets[phx].joined => r \in sockets'[phx].joined
    BY <1>4
  <2>5. phx # 0 /\ Target(c) \in sockets'[phx].joined
    BY <1>1, <1>2, <1>4
  <2>6. \A r \in rooms : \A d \in Coroutines : Pending(d, r) => d = c
    BY <2>1 DEF Pending
  <2>7. ASSUME NEW r \in rooms
        PROVE  \/ r \in sockets'[phx].joined
               \/ Pending(c, r)'
               \/ Joining(r)' /\ ~sockets'[call'[r].socket].open
    BY <2>2, <2>3, <2>4, <2>5, <2>6 DEF SereneInv, RoomsAreCared
  <2>8. QED
    BY <1>3, <2>5, <2>7 DEF RoomsAreCared
<1>8. QED
  BY <1>6, <1>7 DEF SereneInv

\* While a coroutine runs, a room is joined or to be joined by this coroutine,
\* or its subscription is about to fail.
LEMMA CaredWhileAttaching ==
    ASSUME TypeOK, SereneInv, NEW c \in Coroutines, call[c].phase = "attach",
           NEW r \in rooms
    PROVE  \/ phx # 0 /\ r \in sockets[phx].joined
           \/ \E i \in 1..Len(Todo(c)) : Todo(c)[i].room = r
           \/ r # c /\ Joining(r) /\ ~sockets[call[r].socket].open
<1>1. Leads(c) /\ ~Connecting(c) /\ ~Joining(c)
  BY DEF Leads, Connecting, Joining
<1>2. \A d \in Coroutines : Pending(d, r) => d = c
  BY <1>1 DEF SereneInv, OneLeads, Pending
<1>3. QED
  BY <1>1, <1>2 DEF SereneInv, RoomsAreCared, Pending

LEMMA SereneAttach ==
    ASSUME TypeOK, Shape, RegularInv, SereneInv, NEW c \in Coroutines, Attach(c)
    PROVE  SereneInv'
<1>1. /\ call[c].phase = "attach" /\ UNCHANGED <<gen, leaving>> /\ phx # 0
      /\ Todo(c) \in Seq(Entry) /\ Leads(c) /\ Active(c) /\ ~Connecting(c)
      /\ leaving = {}
  BY AttachEffect, CallTypes, SereneActive
     DEF RegularInv, AttachHasSocket, Leads, Active, Connecting
<1>2. \A d \in Coroutines : Leads(d) => d = c
  BY <1>1 DEF SereneInv, OneLeads
<1>3. ASSUME NEW v \in {"live", "failed"}, Returns(c, v),
             UNCHANGED <<phx, sockets>>
      PROVE  /\ LeavesAlone' /\ LiveIsRegistered' /\ ActiveIsRegistered'
             /\ OneLeads' /\ EntriesAreValid' /\ RequestsJoinOpen'
             /\ RequestsAreCurrent'
  BY <1>1, <1>3, SereneReturns
<1>4. CASE /\ Todo(c) = <<>>
           /\ Returns(c, "live") /\ UNCHANGED <<phx, sockets>>
  <2>1. Others(c) /\ rooms' = rooms
    BY <1>4, ReturnsEffect
  <2>2. ASSUME NEW r \in rooms
        PROVE  \/ r \in sockets[phx].joined
               \/ r # c /\ Joining(r) /\ ~sockets[call[r].socket].open
    BY <1>1, <1>4, CaredWhileAttaching
  <2>3. \A r \in rooms : r # c => call'[r] = call[r]
    BY <2>1 DEF Others, TypeOK, Coroutines
  <2>4. RoomsAreCared'
    BY <1>1, <1>4, <2>1, <2>2, <2>3 DEF RoomsAreCared, Joining
  <2>5. QED
    BY <1>3, <1>4, <2>4 DEF SereneInv
<1>5. CASE /\ Todo(c) # <<>>
           /\ Changed(Head(Todo(c))) \/ (Head(Todo(c)).checked /\ phx = 0)
           /\ Returns(c, "failed") /\ UNCHANGED <<phx, sockets>>
  <2>1. /\ Changed(Head(Todo(c))) /\ Head(Todo(c)) = Todo(c)[1]
        /\ 1 \in 1..Len(Todo(c))
    BY <1>1, <1>5
  <2>2. rooms = {} \/ Cardinality(rooms) + 1 # 2
    BY <2>1 DEF SereneInv, EntriesAreValid, Changed
  <2>3. rooms = {}
    BY <2>2, OwnRoom
  <2>4. rooms' = {}
    BY <1>5, <2>3 DEF Returns
  <2>5. QED
    BY <1>3, <1>5, <2>4 DEF SereneInv, RoomsAreCared
<1>6. CASE /\ Todo(c) # <<>> /\ Target(c) = None
           /\ call'[c].phase = "attach"
           /\ call'[c].todo = Tail(Todo(c)) /\ Others(c)
           /\ UNCHANGED <<phx, sockets, rooms, view>>
  <2>1. Leads(c)'
    BY <1>6 DEF Leads
  <2>2. /\ LeavesAlone' /\ LiveIsRegistered' /\ ActiveIsRegistered'
        /\ OneLeads' /\ EntriesAreValid' /\ RequestsJoinOpen'
        /\ RequestsAreCurrent'
    BY <1>1, <1>6, <2>1, SereneGoesOn
  <2>3. ASSUME NEW r \in rooms, NEW i \in 1..Len(Todo(c)), Todo(c)[i].room = r
        PROVE  Pending(c, r)'
    <3>1. i # 1
      BY <1>1, <1>6, <2>3, RealtimeAssumption DEF Target, TypeOK
    <3>2. /\ i - 1 \in 1..Len(Tail(Todo(c)))
          /\ Tail(Todo(c))[i - 1] = Todo(c)[i]
      BY <1>1, <1>6, <3>1, TailEntries
    <3>3. i - 1 \in 1..Len(Todo(c)') /\ Todo(c)'[i - 1].room = r
      BY <1>6, <2>3, <3>2 DEF Todo
    <3>4. QED
      BY <2>1, <3>3 DEF Pending
  <2>4. \A r \in rooms : r # c => call'[r] = call[r]
    BY <1>6 DEF Others, TypeOK, Coroutines
  <2>5. RoomsAreCared'
    BY <1>1, <1>6, <2>3, <2>4, CaredWhileAttaching DEF RoomsAreCared, Joining
  <2>6. QED
    BY <2>2, <2>5 DEF SereneInv
<1>7. CASE /\ Todo(c) # <<>> /\ ~Current
           /\ Reconnect(c, <<[Head(Todo(c)) EXCEPT !.checked = TRUE]>>
                               \o Tail(Todo(c)))
           /\ UNCHANGED <<rooms, view>>
  <2> DEFINE t == <<[Head(Todo(c)) EXCEPT !.checked = TRUE]>> \o Tail(Todo(c))
  <2>1. /\ t \in Seq(Entry) /\ Len(t) = Len(Todo(c))
        /\ \A i \in 1..Len(Todo(c)) : /\ t[i].room = Todo(c)[i].room
                                      /\ t[i].size = Todo(c)[i].size
                                      /\ Todo(c)[i].checked => t[i].checked
    BY <1>1, <1>7, PutBack
  <2> HIDE DEF t
  <2>2. Reconnect(c, t)
    BY <1>7 DEF t
  <2>3. /\ Len(sockets') = Len(sockets)
        /\ call'[c].phase = "fetch" /\ call'[c].todo = t /\ Others(c)
        /\ \A s \in 1..Len(sockets) :
              sockets'[s].open = (sockets[s].open /\ s # phx)
    BY <2>1, <2>2, ReconnectTypes, Zenon DEF Others
  <2>4. \A d \in Coroutines : Joining(d) => call[d].socket \in 1..Len(sockets)
    BY JoinTarget
  <2>5. ASSUME NEW d \in Coroutines, d # c, Leads(d)'
        PROVE  FALSE
    <3>1. call'[d] = call[d]
      BY <2>3, <2>5 DEF Others
    <3>2. Joining(d) => sockets'[call[d].socket].open
                            = (sockets[call[d].socket].open
                               /\ call[d].socket # phx)
      BY <2>3, <2>4
    <3>3. Leads(d)
      BY <2>5, <3>1, <3>2 DEF Leads, Connecting, Joining
    <3>4. QED
      BY <1>2, <2>5, <3>3
  <2>6. OneLeads'
    BY <2>5 DEF OneLeads
  <2>7. LeavesAlone' /\ LiveIsRegistered'
    BY <1>1, <1>7 DEF SereneInv, LeavesAlone, LiveIsRegistered
  <2>8. ActiveIsRegistered'
    BY <1>1, <1>7, <2>3
       DEF SereneInv, ActiveIsRegistered, Active, Others, Coroutines
  <2>9. EntriesAreValid'
    <3>1. \A i \in 1..Len(t) :
              /\ t[i].room # None => view[t[i].room] # "closed"
              /\ ~t[i].checked => rooms = {} \/ t[i].size = 2
      BY <2>1 DEF SereneInv, EntriesAreValid
    <3>2. QED
      BY <1>7, <2>3, <3>1 DEF SereneInv, EntriesAreValid, Todo, Others
  <2>10. \A d \in Calls : Active(d) => d = c
    BY <1>2, ActiveRequestLeads DEF Coroutines
  <2>11. \A d \in Calls : d # c => ~Active(d)'
    BY <2>3, <2>10 DEF Active, Others, Coroutines
  <2>12. RequestsJoinOpen'
    BY <2>3, <2>11 DEF RequestsJoinOpen, Joining, Active
  <2>13. c \in Calls => ~(gen <= 1)
    BY <1>1, <1>7 DEF SereneInv, RequestsAreCurrent
  <2>14. RequestsAreCurrent'
    BY <1>1, <2>11, <2>13 DEF RequestsAreCurrent
  <2>15. \A r : Pending(c, r)'
    BY <2>3 DEF Pending, Leads, Connecting
  <2>16. RoomsAreCared'
    BY <1>7, <2>15 DEF RoomsAreCared
  <2>17. QED
    BY <2>6, <2>7, <2>8, <2>9, <2>12, <2>14, <2>16 DEF SereneInv
<1>8. CASE /\ Todo(c) # <<>> /\ phx # 0
           /\ call'[c].phase = "join"
           /\ call'[c].todo = Todo(c) /\ call'[c].socket = phx
           /\ Others(c)
           /\ UNCHANGED <<phx, sockets, rooms, view>>
  <2>1. Leads(c)'
    BY <1>8 DEF Leads, Joining, Shape, CurrentIsOpen
  <2>2. /\ LeavesAlone' /\ LiveIsRegistered' /\ ActiveIsRegistered'
        /\ OneLeads' /\ EntriesAreValid' /\ RequestsJoinOpen'
        /\ RequestsAreCurrent'
    BY <1>1, <1>8, <2>1, SereneGoesOn
  <2>3. \A r \in rooms : \A i \in 1..Len(Todo(c)) :
            Todo(c)[i].room = r => Pending(c, r)'
    BY <1>8, <2>1 DEF Pending, Todo
  <2>4. \A r \in rooms : r # c => call'[r] = call[r]
    BY <1>8 DEF Others, TypeOK, Coroutines
  <2>5. RoomsAreCared'
    BY <1>1, <1>8, <2>3, <2>4, CaredWhileAttaching DEF RoomsAreCared, Joining
  <2>6. QED
    BY <2>2, <2>5 DEF SereneInv
<1>9. QED
  BY <1>4, <1>5, <1>6, <1>7, <1>8, AttachEffect

LEMMA SereneStep ==
    ASSUME TypeOK, Shape, RegularInv, Serene, SereneInv, Next
    PROVE  SereneInv'
BY SereneScreens, SereneRequests, SereneRotates, SereneFetched,
   SereneConnected, SereneFails, SereneJoined, SereneAttach
   DEF Next, Step, Advances

-----------------------------------------------------------------------------
(* The theorems.                                                           *)

LEMMA InitInv == Init => Inv
<1> SUFFICES ASSUME Init
             PROVE  Inv
  OBVIOUS
<1>1. \A c \in Coroutines : call[c] = NoCall
  BY DEF Init
<1>2. TypeOK
  BY NoCallType, RealtimeAssumption DEF Init, TypeOK
<1>3. Shape
  <2>1. OneScreen /\ RegisteredHaveScreen /\ CurrentIsOpen
    BY DEF Init, OneScreen, RegisteredHaveScreen, CurrentIsOpen
  <2>2. GenerationsArePast
    BY <1>1, NoCallFields DEF Init, GenerationsArePast
  <2>3. IdleIsClear /\ OneRuns /\ JoinsHaveTarget
    BY <1>1, NoCallFields DEF IdleIsClear, OneRuns, JoinsHaveTarget, Joining
  <2>4. QED
    BY <2>1, <2>2, <2>3 DEF Shape
<1>4. RegularInv
  BY <1>1, NoCallFields
     DEF Init, RegularInv, OnlyCurrentOpen, ConnectsAlone, AttachHasSocket,
         OwnConnect, Connecting
<1>5. FreshInv
  BY <1>1, NoCallFields
     DEF Init, FreshInv, ActiveHasScreen, OwnEntries, OwnJoins,
         JoinedAreRegistered, Active, Connecting, Joining, Todo
<1>6. \A c \in Coroutines : ~Active(c) /\ ~Leads(c) /\ Todo(c) = <<>>
  BY <1>1, NoCallFields DEF Active, Leads, Connecting, Joining, Todo
<1>7. SereneInv
  <2>1. LeavesAlone /\ LiveIsRegistered /\ ActiveIsRegistered
    BY <1>6 DEF Init, LeavesAlone, LiveIsRegistered, ActiveIsRegistered,
                Coroutines
  <2>2. OneLeads /\ EntriesAreValid /\ RoomsAreCared
    BY <1>6 DEF Init, OneLeads, EntriesAreValid, RoomsAreCared
  <2>3. RequestsJoinOpen /\ RequestsAreCurrent
    BY <1>6 DEF RequestsJoinOpen, RequestsAreCurrent, Joining, Active,
                Coroutines
  <2>4. QED
    BY <2>1, <2>2, <2>3 DEF SereneInv
<1>8. QED
  BY <1>2, <1>3, <1>4, <1>5, <1>7 DEF Inv

\* A circumstance that has ended does not come back.
LEMMA NextGeneration ==
    ASSUME TypeOK, Next
    PROVE  gen \in Nat /\ (gen' = gen \/ gen' = gen + 1) /\ UNCHANGED mode
<1>1. ASSUME NEW c \in Coroutines, Attach(c)
      PROVE  gen' = gen
  BY <1>1, AttachEffect
<1>2. gen \in Nat /\ UNCHANGED mode
  BY DEF TypeOK, Next
<1>3. QED
  BY <1>1, <1>2
     DEF Next, Step, Advances, OpenScreen, Reload, CloseScreen, Left,
         RequestResets, Rotate, TokenFetched, Connected, ConnectFails, Joined,
         JoinFails

LEMMA InvStep == Inv /\ [Next]_vars => Inv'
<1>1. ASSUME Inv, Next
      PROVE  Inv'
  <2>1. TypeOK /\ Shape /\ TypeOK' /\ Shape'
    BY <1>1, TypeStep, ShapeStep DEF Inv
  <2>2. gen \in Nat /\ (gen' = gen \/ gen' = gen + 1) /\ UNCHANGED mode
    BY <1>1, <2>1, NextGeneration
  <2>3. ASSUME Regular'
        PROVE  RegularInv'
    <3>1. Regular
      BY <2>2, <2>3, RegularOverlap
    <3>2. QED
      BY <1>1, <2>1, <3>1, RegularStep DEF Inv
  <2>4. ASSUME gen' = 0
        PROVE  FreshInv'
    <3>1. gen = 0 /\ Regular
      BY <2>2, <2>4 DEF Regular
    <3>2. QED
      BY <1>1, <2>1, <2>4, <3>1, FreshStep DEF Inv
  <2>5. ASSUME Serene'
        PROVE  SereneInv'
    <3>1. Serene
      BY <2>2, <2>5, SereneBefore
    <3>2. QED
      BY <1>1, <2>1, <3>1, SereneIsRegular, SereneStep DEF Inv
  <2>6. QED
    BY <2>1, <2>3, <2>4, <2>5 DEF Inv
<1>2. ASSUME Inv, UNCHANGED vars
      PROVE  Inv'
  <2>1. UNCHANGED <<mode, gen, phx, sockets, rooms, view, leaving, call>>
    BY <1>2 DEF vars
  <2>2. TypeOK' /\ Shape'
    BY <1>2, <2>1
       DEF Inv, TypeOK, Shape, OneScreen, RegisteredHaveScreen, CurrentIsOpen,
           GenerationsArePast, IdleIsClear, JoinsHaveTarget, OneRuns, Joining,
           Todo, Target
  <2>3. (Regular => RegularInv)'
    BY <1>2, <2>1
       DEF Inv, Regular, RegularInv, OnlyCurrentOpen, ConnectsAlone,
           AttachHasSocket, OwnConnect, Connecting
  <2>4. (gen = 0 => FreshInv)'
    BY <1>2, <2>1
       DEF Inv, FreshInv, ActiveHasScreen, OwnEntries, OwnJoins,
           JoinedAreRegistered, Active, Connecting, Joining, Todo
  <2>5. (Serene => SereneInv)'
    BY <1>2, <2>1
       DEF Inv, Serene, MayFail, SereneInv, LeavesAlone, LiveIsRegistered,
           ActiveIsRegistered, OneLeads, EntriesAreValid, RequestsJoinOpen,
           RequestsAreCurrent, RoomsAreCared, Pending, Leads, Active,
           Connecting, Joining, Todo, Current
  <2>6. QED
    BY <2>2, <2>3, <2>4, <2>5 DEF Inv
<1>3. QED
  BY <1>1, <1>2

THEOREM Invariance == Spec => []Inv
BY InitInv, InvStep, PTL DEF Spec

\* The socket, the rooms registered and the coroutines keep their types: a
\* coroutine that joins has a room to join, on a socket that was opened.
THEOREM TypeCorrect == Spec => []TypeOK
<1>1. Inv => TypeOK
  BY DEF Inv
<1>2. QED
  BY <1>1, Invariance, PTL

\* Requests never connect while another coroutine connects, and screens do not
\* before the first rotation: no socket is open besides the current one.
THEOREM NoSecondSocket == Spec => []OneSocket
<1>1. Inv => OneSocket
  BY DEF Inv, OneSocket, Regular, RegularInv, OnlyCurrentOpen, ConnectsAlone, Connecting
<1>2. QED
  BY <1>1, Invariance, PTL

\* Once nothing is under way, a screen that failed or was closed has left no
\* registration and no topic.
THEOREM NothingLeftBehind == Spec => []ClosedRoomsAreReleased
<1>1. ASSUME Inv
      PROVE  ClosedRoomsAreReleased
  <2>1. \A r \in rooms : view[r] \in {"connecting", "live"}
    BY <1>1 DEF Inv, Shape, RegisteredHaveScreen
  <2>2. Quiet /\ gen = 0 =>
            \A s \in 1..Len(sockets) :
                sockets[s].open => sockets[s].joined \subseteq rooms
    BY <1>1 DEF Inv, FreshInv, JoinedAreRegistered, Quiet
  <2>3. QED
    BY <2>1, <2>2 DEF ClosedRoomsAreReleased
<1>2. QED
  BY <1>1, Invariance, PTL

\* Once nothing is under way, a room whose screen reports no realtime error is
\* joined on the current socket.
THEOREM LiveRoomsGetEvents == Spec => []LiveRoomsAreJoined
<1>1. ASSUME Inv, Quiet, Serene, NEW r \in Rooms, view[r] = "live"
      PROVE  phx # 0 /\ r \in sockets[phx].joined
  <2>1. SereneInv /\ r \in rooms
    BY <1>1 DEF Inv, SereneInv, LiveIsRegistered
  <2>2. \A c \in Coroutines : ~Active(c)
    BY <1>1 DEF Quiet, Active
  <2>3. ~\E c \in Coroutines : Pending(c, r)
    BY <2>1, <2>2, SereneActive DEF Pending
  <2>4. ~Joining(r)
    BY <2>2 DEF Joining, Active, Coroutines
  <2>5. QED
    BY <2>1, <2>3, <2>4 DEF SereneInv, RoomsAreCared
<1>2. Inv => LiveRoomsAreJoined
  BY <1>1 DEF LiveRoomsAreJoined, Serene
<1>3. QED
  BY <1>2, Invariance, PTL

=============================================================================
