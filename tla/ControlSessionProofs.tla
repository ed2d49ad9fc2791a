------------------------ MODULE ControlSessionProofs ------------------------
(***************************************************************************)
(* The surface of a view belongs to its session, for any number of         *)
(* sessions, requests, refreshes and failed sign-outs, for as long as no   *)
(* call or flight of an ended session had an effect (late), which is where *)
(* the code does not ensure it.                                            *)
(***************************************************************************)
EXTENDS ControlSession, TLAPS

ScreenNames == {"warmup", "sign_in", "rooms", "detail", "settings"}

\* The warm-up and the gate are shown alone; above the rooms are a room and
\* the settings.
StackOK ==
  /\ Len(stack) > 0
  /\ stack[1] \in {"warmup", "sign_in", "rooms"}
  /\ stack[1] # "rooms" => Len(stack) = 1
  /\ \A i \in 2..Len(stack) : stack[i] \in {"detail", "settings"}

Screen(s) == IF s = "warmup" THEN "warmup" ELSE "sign_in"

Reported == due \/ gen \in rejections

\* A call of the surface, which belongs to its user as long as it has the
\* current generation or the stored tokens.
OfSurface(c) == c \in Requests \/ (c \in Slots /\ enter[c].phase = "chats")

CallsOK ==
  \A c \in Callers :
    /\ call[c].gen <= gen /\ call[c].session <= sessions
    /\ call[c].phase # "none" => call[c].session > 0
    /\ c \in Slots => (call[c].phase # "none" <=> enter[c].phase \in {"whoami", "chats"})
    /\ /\ OfSurface(c) /\ call[c].phase # "none"
       /\ call[c].gen = gen \/ tokens = call[c].session
       => stack[1] = "rooms" /\ tokens \in {0, call[c].session}

\* A flight that asks who the user is has the current generation and is on its
\* own screen ...
Live(s) ==
  /\ call[s].gen = gen /\ stack[1] = Screen(s) /\ tokens \in {0, call[s].session}
  /\ Reported => call[s].session \notin accepted

\* ... or was left behind, and its session has ended.
Dead(s) ==
  /\ call[s].gen < gen /\ tokens # call[s].session
  /\ call[s].phase = "refresh" \/ call[s].session \notin accepted

FlightsOK ==
  \A s \in Slots :
    /\ enter[s].phase = "whoami" => Live(s) \/ Dead(s)
    /\ enter[s].phase = "connect" =>
         /\ user # 0 /\ tokens \in {0, user} /\ stack[1] = Screen(s) /\ ~Reported

\* The flight that on_mount starts comes before everything else.
WarmupOK ==
  /\ enter["warmup"].phase \notin {"browser", "stored", "failed"}
  /\ enter["warmup"].phase = "begin" => stack[1] = "warmup" /\ ~Reported

\* A browser sign-in is for a session of its own, while none is stored.
SignInOK ==
  LET e == enter["signin"]
  IN  /\ e.phase # "begin"
      /\ e.phase \in {"browser", "stored", "failed"} => stack[1] = "sign_in"
      /\ e.phase = "browser" =>
           /\ tokens = 0 /\ e.session > 0 /\ e.session <= sessions
           /\ \A c \in Callers : call[c].session < e.session
           /\ e.gen = gen => gen \notin rejections

\* What is reported is that the platform does not accept the stored tokens.
RejectionsOK ==
  /\ \A g \in rejections : g <= gen
  /\ Reported => tokens \notin accepted

SurfaceOK ==
  /\ stack[1] = "rooms" => user # 0 /\ tokens \in {0, user}
  /\ stack[1] = "rooms" /\ failures = 0 /\ ~Ending => ready
  /\ ready => stack[1] = "rooms" /\ ~Ending
  /\ Ending \/ server => stack[1] = "rooms"

SessionsOK == tokens <= sessions /\ accepted \subseteq 1..sessions

Inductive ==
  /\ StackOK /\ CallsOK /\ FlightsOK /\ WarmupOK /\ SignInOK /\ RejectionsOK /\ SurfaceOK
  /\ SessionsOK

-----------------------------------------------------------------------------
(* Lemmas about the screens, the calls and the flights.                    *)

\* A browser sign-in is for a session that was begun.
BrowserNamed ==
  \A s \in Slots : enter[s].phase = "browser" => enter[s].session \in Sessions

Types == TypeOK /\ BrowserNamed

SessionInv == Types /\ (~late => Inductive)

\* What the top of the stack says about its bottom.
LEMMA Screens ==
  ASSUME TypeOK, StackOK
  PROVE  /\ Top = "warmup" => stack[1] = "warmup"
         /\ Top = "sign_in" => stack[1] = "sign_in"
         /\ OnSurface \/ Top = "settings" => stack[1] = "rooms"
         /\ Top \in {"detail", "settings"} => Len(stack) > 1
BY DEF TypeOK, StackOK, Top, OnSurface

\* A screen is pushed over the rooms.
LEMMA Pushed ==
  ASSUME TypeOK, StackOK, stack[1] = "rooms", NEW x \in {"detail", "settings"},
         stack' = Append(stack, x)
  PROVE  StackOK' /\ stack'[1] = "rooms"
BY DEF TypeOK, StackOK

\* The top screen is popped.
LEMMA Popped ==
  ASSUME TypeOK, StackOK, Len(stack) > 1, stack' = SubSeq(stack, 1, Len(stack) - 1)
  PROVE  StackOK' /\ stack'[1] = stack[1]
BY DEF TypeOK, StackOK

\* One screen is shown alone.
LEMMA Alone ==
  ASSUME NEW x \in {"warmup", "sign_in", "rooms"}, stack' = <<x>>
  PROVE  stack' \in Seq(ScreenNames) /\ StackOK' /\ stack'[1] = x
BY DEF StackOK, ScreenNames

\* Warm-up, sign-in and requests are different callers.
LEMMA CallerTypes ==
  /\ NoFlight \in Flight /\ NoFlight.phase = "none"
  /\ NoCall \in Call /\ NoCall.phase = "none" /\ NoCall.session = 0 /\ NoCall.gen = 0
  /\ \A p \in {"none", "stored", "failed", "begin", "whoami", "connect", "chats"} :
       At(p) \in Flight /\ At(p).phase = p
  /\ Slots \subseteq Callers /\ Requests \subseteq Callers
  /\ \A r \in Requests : r \notin Slots
BY ControlSessionAssumption DEF Flight, NoFlight, Call, NoCall, At, Callers

\* What the end of a call changes.
LEMMA OverDoes ==
  ASSUME TypeOK, NEW c \in Callers, Over(c)
  PROVE  /\ call' \in [Callers -> Call] /\ call'[c] = NoCall
         /\ \A q \in Callers \ {c} : call'[q] = call[q]
         /\ enter' \in [Slots -> Flight] /\ (c \in Slots => enter'[c] = NoFlight)
         /\ \A s \in Slots \ {c} : enter'[s] = enter[s]
BY CallerTypes DEF TypeOK, Over

\* What a step of a flight changes.
LEMMA MovesDoes ==
  ASSUME TypeOK, NEW s \in Slots,
         NEW p \in {"none", "stored", "failed", "begin", "whoami", "connect", "chats"},
         Moves(s, p)
  PROVE  /\ enter' \in [Slots -> Flight] /\ enter'[s] = At(p) /\ enter'[s].phase = p
         /\ \A t \in Slots \ {s} : enter'[t] = enter[t]
BY CallerTypes DEF TypeOK, Moves

\* What asking for a token changes.
LEMMA GetTokenDoes ==
  ASSUME TypeOK, NEW c \in Callers, GetToken(c)
  PROVE  /\ tokens # 0 /\ call' \in [Callers -> Call]
         /\ call'[c].phase \in {"refresh", "token", "sent"}
         /\ call'[c].session = tokens /\ call'[c].gen = gen
         /\ \A q \in Callers \ {c} : call'[q] = call[q]
         /\ socket' \in SUBSET Nat /\ refreshes' \in 0..MaxRefreshes
<1>1. PICK p \in {"refresh", "token", "sent"} :
        call' = [call EXCEPT ![c] = [phase |-> p, session |-> tokens, gen |-> gen]]
  BY DEF GetToken
<1>2. [phase |-> p, session |-> tokens, gen |-> gen] \in Call
  BY DEF TypeOK, Call
<1>3. socket' = socket \cap {gen} \/ socket' = socket
  BY DEF GetToken
<1>4. refreshes' = refreshes \/ (refreshes < MaxRefreshes /\ refreshes' = refreshes + 1)
  BY DEF GetToken
<1>5. refreshes' \in 0..MaxRefreshes
  BY <1>4, ControlSessionAssumption DEF TypeOK
<1>6. tokens # 0
  BY DEF GetToken
<1> QED
  BY <1>1, <1>2, <1>3, <1>5, <1>6 DEF TypeOK

-----------------------------------------------------------------------------
(* The types.                                                              *)

LEMMA InitTypes == Init => Types
<1> SUFFICES ASSUME Init PROVE Types
  OBVIOUS
<1>1. gen = 0 /\ tokens \in 0..MaxSessions /\ sessions = tokens /\ user = 0
  BY ControlSessionAssumption DEF Init
<1>2. /\ accepted \in SUBSET Sessions
      /\ failures \in 0..MaxStopFailures /\ refreshes \in 0..MaxRefreshes
  BY <1>1, ControlSessionAssumption DEF Init, Sessions
<1>3. enter \in [Slots -> Flight] /\ BrowserNamed
  <2>1. enter = [s \in Slots |-> IF s = "warmup" /\ tokens # 0 THEN At("begin") ELSE NoFlight]
    BY DEF Init
  <2> QED
    BY <2>1, CallerTypes DEF BrowserNamed
<1>4. call \in [Callers -> Call]
  BY CallerTypes DEF Init
<1>5. stack \in Seq({"warmup", "sign_in", "rooms", "detail", "settings"})
  <2>1. CASE tokens = 0 BY <2>1 DEF Init
  <2>2. CASE tokens # 0 BY <2>2 DEF Init
  <2> QED BY <2>1, <2>2
<1>6. /\ ready \in BOOLEAN /\ workers \in BOOLEAN /\ server \in BOOLEAN /\ asked \in BOOLEAN
      /\ room \in BOOLEAN /\ due \in BOOLEAN /\ late \in BOOLEAN
      /\ rejections \in SUBSET Nat /\ socket \in SUBSET Nat
      /\ ending \in {"none", "stopping", "closing", "expiring"}
  BY ControlSessionAssumption DEF Init
<1> QED
  BY <1>1, <1>2, <1>3, <1>4, <1>5, <1>6, ControlSessionAssumption DEF Types, TypeOK

\* Reporting a generation.
LEMMA Reports ==
  ASSUME TypeOK, NEW g \in Nat, Notify(g)
  PROVE  rejections' \in SUBSET Nat
BY DEF TypeOK, Notify

\* The calls of flights and screens.
LEMMA CallsKeepTypes ==
  ASSUME TypeOK, NEW c \in Callers, CallStep(c)
  PROVE  TypeOK'
<1> USE DEF TypeOK
<1>1. call[c] \in Call /\ call[c].gen \in Nat /\ call[c].session \in 0..MaxSessions
  BY DEF Call
<1>2. CASE RefreshDone(c)
  <2>1. \A q \in Callers :
          [phase |-> "token", session |-> call[q].session, gen |-> gen + 1] \in Call
    BY DEF Call
  <2>2. call' \in [Callers -> Call] /\ gen' \in Nat
    BY <1>2, <2>1 DEF RefreshDone
  <2>3. late' \in BOOLEAN /\ tokens' \in 0..MaxSessions
    BY <1>1, <1>2 DEF RefreshDone
  <2> QED
    BY <1>2, <2>2, <2>3 DEF RefreshDone, view, local, counts, endings
<1>3. CASE Tag(c)
  <2>1. [phase |-> "sent", session |-> call[c].session, gen |-> gen] \in Call
    BY <1>1 DEF Call
  <2>2. call' \in [Callers -> Call] /\ socket' \in SUBSET Nat /\ late' \in BOOLEAN
    BY <1>3, <2>1 DEF Tag
  <2> QED
    BY <1>3, <2>2 DEF Tag, auth, view, local, counts, endings
<1>4. CASE RefreshLost(c)
  <2>1. tokens' \in 0..MaxSessions /\ late' \in BOOLEAN
    BY <1>4, ControlSessionAssumption DEF RefreshLost
  <2>2. rejections' \in SUBSET Nat
    BY <1>4, Reports DEF RefreshLost
  <2> QED
    BY <1>4, <2>1, <2>2, OverDoes DEF RefreshLost, view, local, counts
<1>5. CASE Rejected(c)
  <2>1. rejections' \in SUBSET Nat
    BY <1>1, <1>5, Reports DEF Rejected
  <2> QED
    BY <1>5, <2>1, OverDoes DEF Rejected, auth, view, local, counts
<1>6. CASE Answered(c)
  BY <1>6, OverDoes DEF Answered, auth, view, local, counts, endings
<1> QED
  BY <1>2, <1>3, <1>4, <1>5, <1>6 DEF CallStep

LEMMA AskKeepsTypes ==
  ASSUME TypeOK, NEW r \in Requests, Ask(r)
  PROVE  TypeOK'
<1> USE DEF TypeOK
<1>1. r \in Callers
  BY CallerTypes
<1>2. rejections' \in SUBSET Nat
  BY Reports DEF Ask
<1>3. call' \in [Callers -> Call] /\ socket' \in SUBSET Nat /\ refreshes' \in 0..MaxRefreshes
  BY <1>1, GetTokenDoes DEF Ask
<1> QED
  BY <1>2, <1>3 DEF Ask, auth, view, local

\* enter_surface begins.
LEMMA BeginsTypes ==
  ASSUME TypeOK, NEW s \in Slots, Begins(s), UNCHANGED <<gen, sessions>>
  PROVE  TypeOK' /\ enter'[s].phase # "browser" /\ \A t \in Slots \ {s} : enter'[t] = enter[t]
<1> USE DEF TypeOK
<1>1. s \in Callers
  BY CallerTypes
<1>2. rejections' \in SUBSET Nat
  BY Reports DEF Begins
<1>3. /\ call' \in [Callers -> Call] /\ socket' \in SUBSET Nat /\ refreshes' \in 0..MaxRefreshes
      /\ enter' \in [Slots -> Flight] /\ enter'[s].phase # "browser"
      /\ \A t \in Slots \ {s} : enter'[t] = enter[t]
  <2>1. CASE tokens # 0
    BY <1>1, <2>1, GetTokenDoes, MovesDoes DEF Begins
  <2>2. CASE tokens = 0
    BY <1>1, <2>2, OverDoes, CallerTypes DEF Begins
  <2> QED
    BY <2>1, <2>2
<1> QED
  BY <1>2, <1>3 DEF Begins, view, local

\* Entering the surface: the gate.
LEMMA GateKeepsTypes ==
  ASSUME Types, WarmupBegins \/ RetryWarmup \/ PressSignIn \/ BrowserDone \/ BrowserFails \/ CleanedUp
  PROVE  Types'
<1> USE DEF TypeOK
<1>1. "signin" \in Slots /\ "warmup" \in Slots
  BY DEF Slots
<1>2. ASSUME NEW s \in Slots, Begins(s), UNCHANGED <<gen, sessions>>
      PROVE  Types'
  <2>1. TypeOK' /\ enter'[s].phase # "browser" /\ \A t \in Slots \ {s} : enter'[t] = enter[t]
    BY <1>2, BeginsTypes DEF Types
  <2> QED
    BY <2>1 DEF Types, BrowserNamed, Sessions
<1>3. CASE PressSignIn /\ tokens = 0
  <2> DEFINE e == [phase |-> "browser", session |-> sessions + 1, gen |-> gen + 1]
  <2>1. /\ enter' = [enter EXCEPT !["signin"] = e] /\ sessions' = sessions + 1
        /\ gen' = gen + 1 /\ sessions < MaxSessions
        /\ UNCHANGED <<tokens, accepted, view, local, counts, endings, call, socket, late>>
    BY <1>3 DEF PressSignIn
  <2>2. e \in Flight /\ e.session \in Sessions /\ sessions' \in 0..MaxSessions /\ gen' \in Nat
    BY <2>1, ControlSessionAssumption DEF Types, Flight, Sessions
  <2> HIDE DEF e
  <2>3. enter' \in [Slots -> Flight] /\ \A s \in Slots : enter'[s] = enter[s] \/ enter'[s] = e
    BY <2>1, <2>2 DEF Types
  <2>4. TypeOK'
    BY <2>1, <2>2, <2>3 DEF Types, view, local, counts, endings
  <2> QED
    BY <2>2, <2>3, <2>4 DEF Types, BrowserNamed, Sessions
<1>4. CASE BrowserDone
  <2>1. /\ enter' \in [Slots -> Flight] /\ enter'["signin"].phase # "browser"
        /\ \A s \in Slots \ {"signin"} : enter'[s] = enter[s]
    BY <1>1, <1>4, MovesDoes DEF Types, BrowserDone
  <2>2. enter["signin"].session \in Sessions /\ enter["signin"].session \in 0..MaxSessions
    BY <1>1, <1>4 DEF BrowserDone, Types, BrowserNamed, Flight
  <2>3. accepted' \in SUBSET Sessions /\ tokens' \in 0..MaxSessions
    BY <1>4, <2>2 DEF BrowserDone, Types
  <2>4. TypeOK'
    BY <1>4, <2>1, <2>3 DEF Types, BrowserDone, view, local, counts, endings
  <2> QED
    BY <2>1, <2>4 DEF Types, BrowserNamed, Sessions
<1>5. ASSUME Moves("signin", "failed") \/ Moves("signin", "none"),
             UNCHANGED <<auth, view, local, counts, endings, call, socket, late>>
      PROVE  Types'
  <2>1. /\ enter' \in [Slots -> Flight] /\ enter'["signin"].phase # "browser"
        /\ \A s \in Slots \ {"signin"} : enter'[s] = enter[s]
    BY <1>1, <1>5, MovesDoes DEF Types
  <2> QED
    BY <1>5, <2>1 DEF Types, BrowserNamed, Sessions, auth, view, local, counts, endings
<1>6. CASE PressSignIn /\ tokens # 0
  BY <1>1, <1>2, <1>6 DEF PressSignIn
<1>7. CASE WarmupBegins \/ RetryWarmup
  BY <1>1, <1>2, <1>7 DEF WarmupBegins, RetryWarmup
<1>8. CASE BrowserFails \/ CleanedUp
  BY <1>1, <1>2, <1>5, <1>8 DEF BrowserFails, CleanedUp, auth
<1> QED
  BY <1>3, <1>4, <1>6, <1>7, <1>8

\* Entering the surface: the answers.
LEMMA EntryKeepsTypes ==
  ASSUME TypeOK, NEW s \in Slots,
         WhoamiDone(s) \/ ConnectFails(s) \/ SurfaceReady(s) \/ InitialRoomFound(s)
  PROVE  TypeOK' /\ enter'[s].phase # "browser" /\ \A t \in Slots \ {s} : enter'[t] = enter[t]
<1> USE DEF TypeOK
<1>1. s \in Callers /\ call[s] \in Call
  BY CallerTypes
<1>2. CASE WhoamiDone(s)
  <2>1. call' \in [Callers -> Call]
    BY <1>2, CallerTypes DEF WhoamiDone
  <2>2. user' \in 0..MaxSessions
    BY <1>1, <1>2 DEF WhoamiDone, Call
  <2> QED
    BY <1>2, <2>1, <2>2, MovesDoes DEF WhoamiDone, auth, local, counts, endings
<1>3. CASE ConnectFails(s)
  BY <1>1, <1>3, OverDoes, CallerTypes DEF ConnectFails, auth, view, local, counts, endings
<1>4. CASE SurfaceReady(s)
  <2>1. /\ call' \in [Callers -> Call] /\ socket' \in SUBSET Nat /\ refreshes' \in 0..MaxRefreshes
        /\ enter' \in [Slots -> Flight] /\ enter'[s].phase # "browser"
        /\ \A t \in Slots \ {s} : enter'[t] = enter[t]
    <3>1. CASE room /\ tokens # 0
      BY <1>1, <1>4, <3>1, GetTokenDoes, MovesDoes DEF SurfaceReady
    <3>2. CASE ~(room /\ tokens # 0)
      BY <1>1, <1>4, <3>2, OverDoes, CallerTypes DEF SurfaceReady
    <3> QED
      BY <3>1, <3>2
  <2>2. rejections' \in SUBSET Nat
    BY <1>4, Reports DEF SurfaceReady
  <2>3. stack' \in Seq(ScreenNames) /\ ready' \in BOOLEAN /\ room' \in BOOLEAN
    BY <1>4, Alone DEF SurfaceReady
  <2> QED
    BY <1>4, <2>1, <2>2, <2>3 DEF SurfaceReady, auth, local, ScreenNames
<1>5. CASE InitialRoomFound(s)
  <2>1. stack' \in Seq({"warmup", "sign_in", "rooms", "detail", "settings"}) /\ late' \in BOOLEAN
    BY <1>5 DEF InitialRoomFound
  <2> QED
    BY <1>1, <1>5, <2>1, OverDoes, CallerTypes DEF InitialRoomFound, auth, local, counts, endings
<1> QED
  BY <1>2, <1>3, <1>4, <1>5


\* Ending the session.
LEMMA EndingKeepsTypes ==
  ASSUME TypeOK,
         PressSignOut \/ RejectionMessage \/ RejectionWorker \/ EndStep
  PROVE  TypeOK' /\ UNCHANGED enter
<1> USE DEF TypeOK
<1>1. ASSUME ToGate
      PROVE  /\ tokens' \in 0..MaxSessions /\ gen' \in Nat /\ user' \in 0..MaxSessions
             /\ stack' \in Seq(ScreenNames) /\ server' \in BOOLEAN /\ asked' \in BOOLEAN
             /\ ending' \in {"none", "stopping", "closing", "expiring"}
             /\ sessions' = sessions /\ accepted' = accepted /\ room' = room
  <2>1. stack' \in Seq(ScreenNames)
    BY <1>1, Alone DEF ToGate
  <2>2. 0 \in 0..MaxSessions /\ gen + 1 \in Nat
    BY ControlSessionAssumption
  <2> QED
    BY <1>1, <2>1, <2>2 DEF ToGate
<1>2. CASE PressSignOut
  <2>1. stack' \in Seq(ScreenNames)
    BY <1>2 DEF PressSignOut, Top, ScreenNames
  <2>2. /\ ready' \in BOOLEAN /\ asked' \in BOOLEAN
        /\ ending' \in {"none", "stopping", "closing", "expiring"}
    BY <1>2 DEF PressSignOut
  <2> QED
    BY <1>2, <2>1, <2>2 DEF PressSignOut, auth, local, counts, calls, ScreenNames
<1>3. CASE RejectionMessage
  <2>1. rejections' \in SUBSET Nat /\ due' \in BOOLEAN
    BY <1>3 DEF RejectionMessage, RejectionIgnored, RejectionAccepted
  <2> QED
    BY <1>3, <2>1 DEF RejectionMessage, RejectionIgnored, RejectionAccepted,
                      auth, view, local, counts, calls
<1>4. CASE RejectionDropped
  BY <1>4 DEF RejectionDropped, auth, view, local, counts, calls
<1>5. CASE RejectionEnds
  <2>1. CASE server
    BY <1>5, <2>1 DEF RejectionEnds, auth, local, counts, calls
  <2>2. CASE ~server
    BY <1>1, <1>5, <2>2 DEF RejectionEnds, counts, calls, ScreenNames
  <2> QED
    BY <2>1, <2>2
<1>6. CASE WorkersStopped
  <2>1. CASE server
    BY <1>6, <2>1 DEF WorkersStopped, auth, view, counts, calls
  <2>2. CASE ~server
    BY <1>1, <1>6, <2>2 DEF WorkersStopped, counts, calls, ScreenNames
  <2> QED
    BY <2>1, <2>2
<1>7. CASE StopFails
  <2>1. failures' \in 0..MaxStopFailures
    BY <1>7, ControlSessionAssumption DEF StopFails
  <2> QED
    BY <1>7, <2>1 DEF StopFails, auth, view, local, calls
<1>8. CASE ServerClosed
  BY <1>1, <1>8 DEF ServerClosed, counts, calls, ScreenNames
<1>9. UNCHANGED enter
  BY DEF PressSignOut, RejectionMessage, RejectionIgnored, RejectionAccepted, RejectionWorker,
         RejectionDropped, RejectionEnds, EndStep, WorkersStopped, StopFails, ServerClosed, calls
<1> QED
  BY <1>2, <1>3, <1>4, <1>5, <1>6, <1>7, <1>8, <1>9 DEF RejectionWorker, EndStep

\* The user on the surface, and the world outside.
Outside ==
  \/ OpenRoom \/ OpenSettings \/ Back \/ OpenSocket \/ StartWorker \/ StartServer
  \/ \E s \in accepted : Revoke(s)
  \/ SignedOutElsewhere

LEMMA OutsideKeepsTypes ==
  ASSUME TypeOK, Outside
  PROVE  TypeOK' /\ UNCHANGED enter
<1> USE DEF TypeOK
<1>1. CASE OpenRoom \/ OpenSettings \/ Back
  <2>1. stack' \in Seq(ScreenNames)
    <3>1. CASE OpenRoom \/ OpenSettings
      BY <3>1 DEF OpenRoom, OpenSettings, Navigates, ScreenNames
    <3>2. CASE Back
      BY <3>2 DEF Back, Navigates, ScreenNames, Top
    <3> QED
      BY <1>1, <3>1, <3>2
  <2>2. UNCHANGED <<auth, user, ready, room, local, counts, flows>>
    BY <1>1 DEF OpenRoom, OpenSettings, Back, Navigates
  <2> QED
    BY <2>1, <2>2 DEF auth, local, counts, flows, endings, calls, ScreenNames
<1>2. CASE OpenSocket
  BY <1>2 DEF OpenSocket, auth, view, local, counts, endings
<1>3. CASE StartWorker \/ StartServer
  BY <1>3 DEF StartWorker, StartServer, auth, view, counts, flows, endings, calls
<1>4. CASE \E s \in accepted : Revoke(s)
  BY <1>4 DEF Revoke, view, local, counts, flows, endings, calls
<1>5. CASE SignedOutElsewhere
  BY <1>5, ControlSessionAssumption DEF SignedOutElsewhere, view, local, counts, flows, endings, calls
<1> QED
  BY <1>1, <1>2, <1>3, <1>4, <1>5 DEF Outside

\* The steps of the view, by who takes them.
LEMMA Steps ==
  ASSUME TypeOK, Next
  PROVE  \/ WarmupBegins \/ RetryWarmup \/ PressSignIn \/ BrowserDone \/ BrowserFails
            \/ CleanedUp
         \/ \E s \in Slots : WhoamiDone(s) \/ ConnectFails(s) \/ SurfaceReady(s)
                             \/ InitialRoomFound(s)
         \/ \E r \in Requests : Ask(r)
         \/ \E c \in Callers : CallStep(c)
         \/ PressSignOut \/ RejectionMessage \/ RejectionWorker \/ EndStep
         \/ Outside
BY CallerTypes DEF Next, EnterStep, Outside

LEMMA NextTypes == Types /\ [Next]_vars => Types'
<1> SUFFICES ASSUME Types, [Next]_vars PROVE Types'
  OBVIOUS
<1> USE DEF Types
<1>1. CASE UNCHANGED vars
  BY <1>1 DEF vars, auth, view, local, counts, flows, endings, calls, TypeOK, BrowserNamed
<1>2. CASE WarmupBegins \/ RetryWarmup \/ PressSignIn \/ BrowserDone \/ BrowserFails \/ CleanedUp
  BY <1>2, GateKeepsTypes
<1>3. ASSUME NEW s \in Slots,
             WhoamiDone(s) \/ ConnectFails(s) \/ SurfaceReady(s) \/ InitialRoomFound(s)
      PROVE  Types'
  BY <1>3, EntryKeepsTypes DEF BrowserNamed, Sessions
<1>4. ASSUME NEW r \in Requests, Ask(r)
      PROVE  Types'
  BY <1>4, AskKeepsTypes DEF BrowserNamed, Sessions, Ask
<1>5. ASSUME NEW c \in Callers, CallStep(c)
      PROVE  Types'
  <2>1. UNCHANGED enter \/ Over(c)
    BY <1>5 DEF CallStep, RefreshDone, Tag, RefreshLost, Rejected, Answered
  <2>2. ASSUME NEW s \in Slots, enter'[s].phase = "browser"
        PROVE  enter'[s] = enter[s]
    BY <2>1, <2>2, OverDoes, CallerTypes
  <2>3. TypeOK'
    BY <1>5, CallsKeepTypes
  <2> QED
    BY <2>2, <2>3 DEF BrowserNamed, Sessions
<1>6. CASE PressSignOut \/ RejectionMessage \/ RejectionWorker \/ EndStep
  BY <1>6, EndingKeepsTypes DEF BrowserNamed, Sessions
<1>7. CASE Outside
  BY <1>7, OutsideKeepsTypes DEF BrowserNamed, Sessions
<1> QED
  BY <1>1, <1>2, <1>3, <1>4, <1>5, <1>6, <1>7, Steps

\* Every variable keeps its type.
THEOREM SessionHasTypes == Spec => []TypeOK
<1>1. Types => TypeOK
  BY DEF Types
<1> QED
  BY InitTypes, NextTypes, <1>1, PTL DEF Spec

-----------------------------------------------------------------------------
(* The inductive invariant, for as long as nothing late has an effect.     *)

\* The numbers of calls and flights.
LEMMA Fields ==
  ASSUME Types
  PROVE  /\ gen \in Nat /\ sessions \in Nat /\ tokens \in Nat /\ user \in Nat
         /\ \A c \in Callers : call[c].gen \in Nat /\ call[c].session \in Nat
         /\ \A s \in Slots : enter[s].gen \in Nat /\ enter[s].session \in Nat
         /\ 0 \notin accepted
BY ControlSessionAssumption DEF Types, TypeOK, Call, Flight, Sessions

\* The two flights have different screens.
LEMMA Flights ==
  /\ Slots = {"warmup", "signin"}
  /\ Screen("warmup") = "warmup" /\ Screen("signin") = "sign_in"
  /\ \A s, t \in Slots : s # t => Screen(s) # Screen(t)
  /\ \A s \in Slots : Screen(s) # "rooms"
BY DEF Slots, Screen

\* Steps that touch neither calls nor flights.
LEMMA Calm ==
  ASSUME Types, Inductive, UNCHANGED <<enter, call, gen, sessions, user>>,
         tokens' \in {tokens, 0}, accepted' \subseteq accepted, rejections' \subseteq rejections,
         Reported' => Reported, StackOK', stack'[1] = stack[1],
         /\ stack[1] = "rooms" /\ failures' = 0 /\ ~Ending' => ready'
         /\ ready' => stack[1] = "rooms" /\ ~Ending'
         /\ Ending' \/ server' => stack[1] = "rooms"
  PROVE  Inductive'
<1> USE Fields DEF Inductive
<1>1. CallsOK'
  BY DEF CallsOK, OfSurface
<1>2. FlightsOK'
  BY CallerTypes DEF FlightsOK, Live, Dead, CallsOK
<1>3. WarmupOK' /\ SignInOK'
  BY DEF WarmupOK, SignInOK
<1>4. RejectionsOK' /\ SurfaceOK' /\ SessionsOK'
  BY DEF RejectionsOK, SurfaceOK, SessionsOK
<1> QED
  BY <1>1, <1>2, <1>3, <1>4

\* The call of c is over, or was none, and the flight of c is over with it.
Ended(c) ==
  /\ call' \in [Callers -> Call] /\ enter' \in [Slots -> Flight]
  /\ \A q \in Callers \ {c} : call'[q] = call[q]
  /\ call'[c] = NoCall \/ (call[c].phase = "none" /\ call'[c] = call[c])
  /\ \A s \in Slots \ {c} : enter'[s] = enter[s]
  /\ c \in Slots => enter'[c].phase = "none"

\* Steps that end a call, and may report its session: then only the reporter
\* is under way on the screen that is shown.
LEMMA Ends ==
  ASSUME Types, Inductive, NEW c \in Callers, Ended(c),
         UNCHANGED <<gen, sessions, accepted, user, due, ready, ending, failures, server>>,
         tokens' \in {tokens, 0}, StackOK', stack'[1] = stack[1],
         \/ rejections' = rejections
         \/ /\ rejections' = rejections \cup {gen}
            /\ tokens' \notin accepted
            /\ \A s \in Slots \ {c} : stack[1] # Screen(s)
  PROVE  Inductive'
<1> USE Fields DEF Inductive
<1>1. \A s \in Slots : s \in Callers
  BY CallerTypes
<1>2. CallsOK'
  BY <1>1, CallerTypes DEF CallsOK, OfSurface, Ended
<1>3. ASSUME NEW s \in Slots, s # c, enter[s].phase \in {"whoami", "connect", "begin", "browser"}
      PROVE  Reported' => Reported \/ (stack[1] # Screen(s))
  BY <1>3 DEF Reported
<1>4. FlightsOK'
  <2> SUFFICES ASSUME NEW s \in Slots
               PROVE  /\ enter'[s].phase = "whoami" => Live(s)' \/ Dead(s)'
                      /\ enter'[s].phase = "connect" =>
                           /\ user' # 0 /\ tokens' \in {0, user'} /\ stack'[1] = Screen(s)
                           /\ ~Reported'
    BY DEF FlightsOK, Screen
  <2>1. CASE s = c
    BY <2>1 DEF Ended
  <2>2. CASE s # c
    <3>1. enter'[s] = enter[s] /\ call'[s] = call[s]
      BY <1>1, <2>2 DEF Ended
    <3>2. CASE enter[s].phase = "whoami"
      <4>1. call[s].session > 0
        BY <1>1, <3>2 DEF CallsOK
      <4>2. CASE Dead(s)
        BY <1>1, <3>1, <3>2, <4>1, <4>2 DEF Dead
      <4>3. CASE Live(s)
        BY <1>1, <1>3, <2>2, <3>1, <3>2, <4>1, <4>3 DEF Live, Screen
      <4> QED
        BY <3>2, <4>2, <4>3 DEF FlightsOK
    <3>3. CASE enter[s].phase = "connect"
      BY <1>3, <2>2, <3>1, <3>3 DEF FlightsOK
    <3> QED
      BY <3>1, <3>2, <3>3
  <2> QED
    BY <2>1, <2>2
<1>5. WarmupOK'
  BY <1>3, Flights DEF WarmupOK, Ended
<1>6. SignInOK'
  <2>1. CASE c = "signin"
    BY <2>1, Flights DEF SignInOK, Ended
  <2>2. CASE c # "signin"
    <3>1. enter'["signin"] = enter["signin"] /\ "signin" \in Slots
      BY <2>2, Flights DEF Ended
    <3>2. \A q \in Callers : call'[q].session = call[q].session \/ call'[q].session = 0
      BY CallerTypes DEF Ended
    <3> QED
      BY <3>1, <3>2, <2>2, Flights DEF SignInOK
  <2> QED
    BY <2>1, <2>2
<1>7. RejectionsOK' /\ SurfaceOK' /\ SessionsOK'
  BY DEF RejectionsOK, SurfaceOK, SessionsOK, Reported, Ending
<1> QED
  BY <1>2, <1>4, <1>5, <1>6, <1>7

\* Steps that begin a call: of a screen of the surface, or of a flight on its
\* own screen.
LEMMA Starts ==
  ASSUME Types, Inductive, NEW c \in Callers, GetToken(c),
         UNCHANGED <<tokens, gen, sessions, accepted, user, ready, ending, due, failures, server,
                     stack, rejections>>,
         \/ c \in Requests /\ stack[1] = "rooms" /\ enter' = enter
         \/ c \in Slots /\ stack[1] = Screen(c) /\ Moves(c, "whoami")
  PROVE  Inductive'
<1> USE Fields DEF Inductive
<1>1. /\ tokens # 0 /\ call'[c].phase # "none"
      /\ call'[c].session = tokens /\ call'[c].gen = gen
      /\ \A q \in Callers \ {c} : call'[q] = call[q]
  BY GetTokenDoes DEF Types
<1>2. /\ c \in Slots => enter'[c].phase = "whoami"
      /\ \A s \in Slots \ {c} : enter'[s] = enter[s]
  BY MovesDoes, CallerTypes DEF Types
<1>3. \A s \in Slots : s \in Callers /\ s \notin Requests
  BY CallerTypes
<1>4. CallsOK'
  BY <1>1, <1>2, <1>3 DEF CallsOK, OfSurface, SessionsOK
<1>5. FlightsOK'
  <2> SUFFICES ASSUME NEW s \in Slots
               PROVE  /\ enter'[s].phase = "whoami" => Live(s)' \/ Dead(s)'
                      /\ enter'[s].phase = "connect" =>
                           /\ user' # 0 /\ tokens' \in {0, user'} /\ stack'[1] = Screen(s)
                           /\ ~Reported'
    BY DEF FlightsOK, Screen
  <2>1. CASE s = c
    BY <1>1, <1>2, <1>3, <2>1 DEF Live, Reported, RejectionsOK, Screen
  <2>2. CASE s # c
    BY <1>1, <1>2, <1>3, <2>2 DEF FlightsOK, Live, Dead, Reported, Screen
  <2> QED
    BY <2>1, <2>2
<1>6. WarmupOK' /\ SignInOK'
  BY <1>1, <1>2, Flights DEF WarmupOK, SignInOK, Reported
<1>7. RejectionsOK' /\ SurfaceOK' /\ SessionsOK' /\ StackOK'
  BY DEF RejectionsOK, SurfaceOK, SessionsOK, Reported, Ending, StackOK
<1> QED
  BY <1>4, <1>5, <1>6, <1>7

\* Asking for the user begins on the screen of its flight.
LEMMA BeginsKeeps ==
  ASSUME Types, Inductive, NEW s \in Slots, Begins(s), UNCHANGED <<gen, sessions>>,
         stack[1] = Screen(s)
  PROVE  Inductive'
<1>1. s \in Callers
  BY CallerTypes
<1>2. UNCHANGED <<tokens, accepted, user, ready, stack, server, failures, ending, due>>
  BY DEF Begins, view, local
<1>3. CASE tokens # 0
  <2>1. GetToken(s) /\ Moves(s, "whoami") /\ UNCHANGED rejections
    BY <1>3 DEF Begins
  <2> QED
    BY <1>1, <1>2, <2>1, Starts
<1>4. CASE tokens = 0
  <2>1. Over(s) /\ Notify(gen)
    BY <1>4 DEF Begins
  <2>2. Ended(s)
    BY <1>1, <2>1, OverDoes, CallerTypes DEF Ended, Types
  <2>3. rejections' = rejections \cup {gen}
    BY <2>1 DEF Notify
  <2>4. \A t \in Slots \ {s} : stack[1] # Screen(t)
    BY Flights
  <2>5. tokens' \notin accepted
    BY <1>2, <1>4, Fields
  <2>6. StackOK' /\ stack'[1] = stack[1]
    BY <1>2 DEF Inductive, StackOK
  <2> QED
    BY <1>1, <1>2, <2>2, <2>3, <2>4, <2>5, <2>6, Ends
<1> QED
  BY <1>3, <1>4

-----------------------------------------------------------------------------
(* The platform calls.                                                     *)

\* A call that is under way with the current generation: of the surface, or of
\* the flight whose screen is shown.
LEMMA Current ==
  ASSUME Types, Inductive, NEW c \in Callers, call[c].phase # "none", call[c].gen = gen
  PROVE  /\ tokens \in {0, call[c].session}
         /\ \A s \in Slots \ {c} : stack[1] # Screen(s)
         /\ c \in Slots /\ enter[c].phase = "whoami" => Live(c)
<1> USE Fields DEF Inductive
<1>1. CASE OfSurface(c)
  BY <1>1, Flights, CallerTypes DEF CallsOK, OfSurface
<1>2. CASE ~OfSurface(c)
  <2>1. c \in Slots /\ enter[c].phase = "whoami"
    BY <1>2 DEF OfSurface, Callers, CallsOK
  <2>2. Live(c)
    BY <2>1 DEF FlightsOK, Dead
  <2> QED
    BY <2>1, <2>2, Flights DEF Live
<1> QED
  BY <1>1, <1>2

LEMMA RefreshKeeps ==
  ASSUME Types, Inductive, NEW c \in Callers, RefreshDone(c), tokens = call[c].session
  PROVE  Inductive'
<1> USE Fields DEF Inductive
<1>1. /\ call[c].phase = "refresh" /\ call[c].session \in accepted /\ call[c].gen = gen
      /\ gen' = gen + 1 /\ tokens' = tokens
      /\ \A q \in Callers :
           \/ /\ call[q].phase # "refresh" \/ call[q].gen # gen
              /\ call'[q] = call[q]
           \/ /\ call[q].phase = "refresh" /\ call[q].gen = gen
              /\ call'[q].phase = "token" /\ call'[q].session = call[q].session
              /\ call'[q].gen = gen + 1
      /\ UNCHANGED <<sessions, accepted, user, ready, stack, server, failures, ending, due,
                     rejections, enter>>
  BY DEF RefreshDone, view, local, counts, endings
<1>2. tokens \in accepted /\ tokens # 0 /\ ~Reported /\ ~due
  BY <1>1 DEF RejectionsOK, Reported
<1>3. ~Reported'
  BY <1>1, <1>2 DEF Reported, RejectionsOK
<1>4. \A q \in Callers : call'[q].session = call[q].session
                         /\ (call'[q].phase # "none" <=> call[q].phase # "none")
  BY <1>1
<1>5. CallsOK'
  BY <1>1, <1>4 DEF CallsOK, OfSurface
<1>6. FlightsOK'
  <2> SUFFICES ASSUME NEW s \in Slots
               PROVE  /\ enter'[s].phase = "whoami" => Live(s)' \/ Dead(s)'
                      /\ enter'[s].phase = "connect" =>
                           /\ user' # 0 /\ tokens' \in {0, user'} /\ stack'[1] = Screen(s)
                           /\ ~Reported'
    BY DEF FlightsOK, Screen
  <2>1. s \in Callers
    BY CallerTypes
  <2>2. CASE enter[s].phase = "whoami" /\ Live(s)
    <3>1. s = c
      BY <1>1, <2>2, Current DEF Live
    <3>2. call'[s].gen = gen + 1 /\ call'[s].session = call[s].session
      BY <1>1, <3>1
    <3> QED
      BY <1>1, <1>3, <2>2, <3>2 DEF Live, Screen
  <2>3. CASE enter[s].phase = "whoami" /\ Dead(s)
    <3>1. call'[s] = call[s]
      BY <1>1, <2>1, <2>3 DEF Dead
    <3> QED
      BY <1>1, <2>1, <2>3, <3>1 DEF Dead
  <2>4. CASE enter[s].phase # "whoami"
    BY <1>1, <1>3, <2>4 DEF FlightsOK, Screen
  <2> QED
    BY <2>2, <2>3, <2>4 DEF FlightsOK
<1>7. WarmupOK' /\ SignInOK'
  BY <1>1, <1>2, <1>3 DEF WarmupOK, SignInOK
<1>8. SurfaceOK' /\ SessionsOK' /\ StackOK'
  BY <1>1 DEF SurfaceOK, SessionsOK, Ending, StackOK
<1>9. RejectionsOK'
  <2>1. \A g \in rejections : g \in Nat /\ g <= gen
    BY DEF RejectionsOK, Types, TypeOK
  <2> QED
    BY <1>1, <1>3, <2>1 DEF RejectionsOK
<1> QED
  BY <1>5, <1>6, <1>7, <1>8, <1>9

LEMMA TagKeeps ==
  ASSUME Types, Inductive, NEW c \in Callers, Tag(c),
         call[c].gen = gen \/ tokens = call[c].session
  PROVE  Inductive'
<1> USE Fields DEF Inductive
<1>1. /\ call[c].phase = "token"
      /\ call'[c].phase = "sent" /\ call'[c].session = call[c].session /\ call'[c].gen = gen
      /\ \A q \in Callers \ {c} : call'[q] = call[q]
      /\ UNCHANGED <<tokens, gen, sessions, accepted, user, ready, stack, server, failures,
                     ending, due, rejections, enter>>
  BY DEF Tag, Types, TypeOK, auth, view, local, counts, endings
<1>2. CallsOK'
  BY <1>1 DEF CallsOK, OfSurface
<1>3. ASSUME NEW s \in Slots, enter[s].phase = "whoami"
      PROVE  Live(s)' \/ Dead(s)'
  <2>1. s \in Callers /\ (Live(s) \/ Dead(s))
    BY <1>3, CallerTypes DEF FlightsOK
  <2>2. CASE s = c
    BY <1>1, <2>1, <2>2 DEF Live, Dead, Reported, Screen
  <2>3. CASE s # c
    BY <1>1, <2>1, <2>3 DEF Live, Dead, Reported, Screen
  <2> QED
    BY <2>2, <2>3
<1>4. FlightsOK'
  BY <1>1, <1>3 DEF FlightsOK, Reported, Screen
<1>5. WarmupOK' /\ SignInOK'
  BY <1>1 DEF WarmupOK, SignInOK, Reported
<1>6. RejectionsOK' /\ SurfaceOK' /\ SessionsOK' /\ StackOK'
  BY <1>1 DEF RejectionsOK, SurfaceOK, SessionsOK, Reported, Ending, StackOK
<1> QED
  BY <1>2, <1>4, <1>5, <1>6

\* Every step of a call, unless it is late.
LEMMA CallsKeep ==
  ASSUME Types, Inductive, NEW c \in Callers, CallStep(c), ~late'
  PROVE  Inductive'
<1>1. CASE RefreshDone(c)
  BY <1>1, RefreshKeeps DEF RefreshDone
<1>2. CASE Tag(c)
  BY <1>2, TagKeeps DEF Tag
<1>3. ASSUME Over(c), tokens' \in {tokens, 0}, tokens' # tokens => tokens' = 0,
             UNCHANGED <<gen, sessions, accepted, user, ready, stack, server, failures, ending,
                         due>>,
             \/ rejections' = rejections
             \/ /\ rejections' = rejections \cup {gen}
                /\ call[c].phase # "none" /\ call[c].gen = gen /\ call[c].session \notin accepted
      PROVE  Inductive'
  <2>1. Ended(c)
    BY <1>3, OverDoes, CallerTypes DEF Ended, Types
  <2>2. StackOK' /\ stack'[1] = stack[1]
    BY <1>3 DEF Inductive, StackOK
  <2>3. CASE rejections' = rejections
    BY <1>3, <2>1, <2>2, <2>3, Ends
  <2>4. CASE rejections' # rejections
    <3>1. \A s \in Slots \ {c} : stack[1] # Screen(s)
      BY <1>3, <2>4, Current
    <3>2. tokens' \notin accepted
      BY <1>3, <2>4, Current, Fields
    <3> QED
      BY <1>3, <2>1, <2>2, <2>4, <3>1, <3>2, Ends
  <2> QED
    BY <2>3, <2>4
<1>4. CASE RefreshLost(c)
  <2>1. call[c].gen = gen /\ call[c].session \notin accepted /\ call[c].phase # "none"
    BY <1>4 DEF RefreshLost
  <2> QED
    BY <1>3, <1>4, <2>1 DEF RefreshLost, Notify, view, local, counts
<1>5. CASE Rejected(c)
  BY <1>3, <1>5 DEF Rejected, Notify, auth, view, local, counts
<1>6. CASE Answered(c)
  BY <1>3, <1>6 DEF Answered, auth, view, local, counts, endings
<1> QED
  BY <1>1, <1>2, <1>4, <1>5, <1>6 DEF CallStep

LEMMA AskKeeps ==
  ASSUME Types, Inductive, NEW r \in Requests, Ask(r)
  PROVE  Inductive'
<1>1. r \in Callers /\ r \notin Slots
  BY CallerTypes
<1>2. stack[1] = "rooms"
  BY Screens DEF Ask, Types, Inductive
<1>3. UNCHANGED <<tokens, gen, sessions, accepted, user, ready, stack, server, failures, enter,
                  ending, due>>
  BY DEF Ask, auth, view, local
<1>4. CASE tokens # 0
  BY <1>1, <1>2, <1>3, <1>4, Starts DEF Ask
<1>5. CASE tokens = 0
  <2>1. Ended(r) /\ rejections' = rejections \cup {gen}
    BY <1>1, <1>3, <1>5 DEF Ask, Notify, Ended, Types, TypeOK
  <2>2. tokens' \notin accepted /\ \A s \in Slots \ {r} : stack[1] # Screen(s)
    BY <1>2, <1>3, <1>5, Fields, Flights
  <2>3. StackOK' /\ stack'[1] = stack[1]
    BY <1>3 DEF Inductive, StackOK
  <2> QED
    BY <1>1, <1>3, <2>1, <2>2, <2>3, Ends
<1> QED
  BY <1>4, <1>5

-----------------------------------------------------------------------------
(* Entering the surface.                                                   *)

\* The gate and the warm-up.
LEMMA PressKeeps ==
  ASSUME Types, Inductive, PressSignIn, tokens = 0
  PROVE  Inductive'
<1> USE Fields DEF Inductive
<1>1. /\ sessions' = sessions + 1 /\ gen' = gen + 1 /\ rejections = {} /\ stack[1] = "sign_in"
      /\ enter["signin"].phase = "none"
      /\ UNCHANGED <<tokens, accepted, user, ready, stack, server, failures, ending, due,
                     rejections, call>>
  BY Screens DEF PressSignIn, ReadsKey, Types, view, local, counts, endings
<1>2. /\ enter'["signin"].phase = "browser" /\ enter'["signin"].session = sessions + 1
      /\ enter'["signin"].gen = gen + 1
      /\ \A s \in Slots : s # "signin" => enter'[s] = enter[s]
  BY Flights DEF PressSignIn, Types, TypeOK
<1>3. CallsOK'
  BY <1>1, <1>2, Flights DEF CallsOK, OfSurface
<1>4. ASSUME NEW s \in Slots, s # "signin"
      PROVE  /\ enter'[s].phase = "whoami" => Live(s)' \/ Dead(s)'
             /\ enter'[s].phase # "connect"
  <2>1. enter'[s] = enter[s] /\ stack[1] # Screen(s) /\ s \in Callers
    BY <1>1, <1>2, <1>4, Flights, CallerTypes
  <2> QED
    BY <1>1, <2>1 DEF FlightsOK, Live, Dead
<1>5. FlightsOK'
  BY <1>2, <1>4 DEF FlightsOK
<1>6. WarmupOK' /\ SignInOK'
  BY <1>1, <1>2, Flights DEF WarmupOK, SignInOK, CallsOK
<1>7. RejectionsOK' /\ SurfaceOK' /\ SessionsOK' /\ StackOK'
  BY <1>1 DEF RejectionsOK, SurfaceOK, SessionsOK, Ending, StackOK
<1> QED
  BY <1>3, <1>5, <1>6, <1>7

LEMMA BrowserKeeps ==
  ASSUME Types, Inductive, BrowserDone
  PROVE  Inductive'
<1> USE Fields DEF Inductive
<1> DEFINE e == enter["signin"]
<1>1. /\ e.phase = "browser" /\ ~due /\ accepted' = accepted \cup {e.session}
      /\ UNCHANGED <<gen, sessions, user, ready, stack, server, failures, ending, due,
                     rejections, call>>
      /\ \/ e.gen = gen /\ tokens' = e.session
         \/ e.gen # gen /\ tokens' = tokens
  BY DEF BrowserDone, view, local, counts, endings
<1>2. /\ enter'["signin"].phase \in {"stored", "failed"}
      /\ \A s \in Slots : s # "signin" => enter'[s] = enter[s]
  BY Flights, MovesDoes DEF BrowserDone, Types
<1>3. /\ tokens = 0 /\ e.session > 0 /\ e.session <= sessions /\ e.session \in Nat
      /\ \A c \in Callers : call[c].session < e.session
      /\ e.gen = gen => ~Reported
      /\ stack[1] = "sign_in"
  BY <1>1, Flights DEF SignInOK, Reported
<1> HIDE DEF e
<1>4. CallsOK'
  <2> SUFFICES ASSUME NEW c \in Callers
               PROVE  /\ call[c].gen <= gen /\ call[c].session <= sessions
                      /\ call[c].phase # "none" => call[c].session > 0
                      /\ c \in Slots => (call[c].phase # "none"
                                         <=> enter'[c].phase \in {"whoami", "chats"})
                      /\ OfSurface(c)' /\ call[c].phase # "none"
                         => call[c].gen # gen /\ tokens' # call[c].session
    BY <1>1 DEF CallsOK
  <2>1. c \in Slots => (call[c].phase # "none" <=> enter'[c].phase \in {"whoami", "chats"})
    BY <1>1, <1>2, Flights DEF CallsOK, e
  <2>2. OfSurface(c)' => OfSurface(c)
    BY <1>2, Flights DEF OfSurface
  <2>3. call[c].phase # "none" => tokens' # call[c].session
    BY <1>1, <1>3 DEF CallsOK
  <2> QED
    BY <1>3, <2>1, <2>2, <2>3 DEF CallsOK
<1>5. ASSUME NEW s \in Slots, s # "signin"
      PROVE  /\ enter'[s].phase = "whoami" => Live(s)' \/ Dead(s)'
             /\ enter'[s].phase # "connect"
  <2>1. /\ enter'[s] = enter[s] /\ stack[1] # Screen(s) /\ s \in Callers
        /\ call[s].session \in Nat /\ call[s].session < e.session
    BY <1>1, <1>2, <1>3, <1>5, Flights, CallerTypes
  <2> QED
    BY <1>1, <1>3, <2>1 DEF FlightsOK, Live, Dead
<1>6. FlightsOK'
  BY <1>2, <1>5 DEF FlightsOK
<1>7. WarmupOK' /\ SignInOK'
  BY <1>1, <1>2, <1>3, Flights DEF WarmupOK, SignInOK
<1>8. RejectionsOK'
  BY <1>1, <1>3 DEF RejectionsOK, Reported
<1>9. SurfaceOK' /\ StackOK'
  BY <1>1, <1>3 DEF SurfaceOK, Ending, StackOK
<1>10. SessionsOK'
  <2>1. e.session \in 1..sessions /\ accepted \subseteq 1..sessions
    BY <1>3 DEF SessionsOK
  <2>2. tokens' <= sessions
    BY <1>1, <1>3
  <2> QED
    BY <1>1, <2>1, <2>2 DEF SessionsOK
<1> QED
  BY <1>4, <1>6, <1>7, <1>8, <1>9, <1>10

LEMMA GateKeeps ==
  ASSUME Types, Inductive,
         WarmupBegins \/ RetryWarmup \/ PressSignIn \/ BrowserDone \/ BrowserFails \/ CleanedUp
  PROVE  Inductive'
<1>1. CASE WarmupBegins
  BY <1>1, BeginsKeeps, Flights DEF WarmupBegins, Inductive, WarmupOK
<1>2. CASE RetryWarmup
  BY <1>2, BeginsKeeps, Flights, Screens DEF RetryWarmup, Inductive, Types
<1>3. CASE PressSignIn
  <2>1. CASE tokens = 0
    BY <1>3, <2>1, PressKeeps
  <2>2. CASE tokens # 0
    BY <1>3, <2>2, BeginsKeeps, Flights, Screens DEF PressSignIn, Inductive, Types
  <2> QED
    BY <2>1, <2>2
<1>4. CASE BrowserDone
  BY <1>4, BrowserKeeps
<1>5. ASSUME NEW p \in {"failed", "none"}, Moves("signin", p),
             enter["signin"].phase \in {"browser", "failed"},
             UNCHANGED <<auth, view, local, counts, endings, call, socket, late>>
      PROVE  Inductive'
  <2> USE Fields DEF Inductive
  <2>1. UNCHANGED <<tokens, accepted, gen, sessions, user, ready, stack, server, failures, ending,
                    due, rejections, call>>
    BY <1>5 DEF auth, view, local, counts, endings
  <2>2. /\ enter'["signin"].phase = p
        /\ \A s \in Slots : s # "signin" => enter'[s] = enter[s]
    BY <1>5, Flights, MovesDoes DEF Types
  <2>3. CallsOK'
    BY <1>5, <2>1, <2>2, Flights DEF CallsOK, OfSurface
  <2>4. FlightsOK'
    BY <2>1, <2>2 DEF FlightsOK, Live, Dead, Reported, Screen
  <2>5. WarmupOK' /\ SignInOK'
    BY <1>5, <2>1, <2>2, Flights DEF WarmupOK, SignInOK, Reported
  <2>6. RejectionsOK' /\ SurfaceOK' /\ SessionsOK' /\ StackOK'
    BY <2>1 DEF RejectionsOK, SurfaceOK, SessionsOK, Ending, StackOK, Reported
  <2> QED
    BY <2>3, <2>4, <2>5, <2>6
<1>6. CASE BrowserFails
  BY <1>5, <1>6 DEF BrowserFails
<1>7. CASE CleanedUp /\ enter["signin"].phase = "stored"
  BY <1>7, BeginsKeeps, Flights DEF CleanedUp, Inductive, SignInOK
<1>8. CASE CleanedUp /\ enter["signin"].phase = "failed"
  BY <1>5, <1>8 DEF CleanedUp, auth
<1> QED
  BY <1>1, <1>2, <1>3, <1>4, <1>6, <1>7, <1>8 DEF CleanedUp

\* The user is known.
LEMMA WhoamiKeeps ==
  ASSUME Types, Inductive, NEW s \in Slots, WhoamiDone(s)
  PROVE  Inductive'
<1> USE Fields DEF Inductive
<1>1. /\ enter[s].phase = "whoami" /\ call[s].phase = "sent" /\ call[s].session \in accepted
      /\ user' = call[s].session
      /\ UNCHANGED <<tokens, accepted, gen, sessions, ready, stack, server, failures, ending,
                     due, rejections>>
  BY DEF WhoamiDone, auth, local, counts, endings
<1>2. /\ call'[s] = NoCall /\ s \in Callers
      /\ \A q \in Callers \ {s} : call'[q] = call[q]
  BY CallerTypes DEF WhoamiDone, Types, TypeOK
<1>3. /\ enter'[s].phase = "connect"
      /\ \A t \in Slots \ {s} : enter'[t] = enter[t]
  BY MovesDoes DEF WhoamiDone, Types
<1>4. Live(s) /\ ~Reported /\ call[s].session > 0
  BY <1>1, <1>2 DEF FlightsOK, Live, Dead, CallsOK
<1>5. CallsOK'
  BY <1>1, <1>2, <1>3, CallerTypes DEF CallsOK, OfSurface
<1>6. FlightsOK'
  <2>1. ASSUME NEW t \in Slots \ {s}
        PROVE  /\ enter'[t].phase = "whoami" => Live(t)' \/ Dead(t)'
               /\ enter'[t].phase # "connect"
    <3>1. enter'[t] = enter[t] /\ call'[t] = call[t] /\ t \in Callers /\ stack[1] # Screen(t)
      BY <1>2, <1>3, <1>4, <2>1, Flights, CallerTypes DEF Live
    <3> QED
      BY <1>1, <3>1 DEF FlightsOK, Live, Dead
  <2>2. ~Reported'
    BY <1>1, <1>4 DEF Reported
  <2>3. user' # 0 /\ tokens' \in {0, user'} /\ stack'[1] = Screen(s)
    BY <1>1, <1>4 DEF Live
  <2> QED
    BY <1>3, <2>1, <2>2, <2>3 DEF FlightsOK, Screen
<1>7. WarmupOK' /\ SignInOK'
  BY <1>1, <1>2, <1>3, Flights, CallerTypes DEF WarmupOK, SignInOK, Reported
<1>8. RejectionsOK' /\ SurfaceOK' /\ SessionsOK' /\ StackOK'
  BY <1>1, <1>4, Flights DEF RejectionsOK, SurfaceOK, SessionsOK, Ending, StackOK, Reported, Live
<1> QED
  BY <1>5, <1>6, <1>7, <1>8

\* The surface is shown: its flight was the only one on its screen.
LEMMA ReadyKeeps ==
  ASSUME Types, Inductive, NEW s \in Slots, SurfaceReady(s)
  PROVE  Inductive'
<1> USE Fields DEF Inductive
<1>1. /\ enter[s].phase = "connect" /\ ready' = TRUE /\ stack' = <<"rooms">>
      /\ UNCHANGED <<tokens, accepted, gen, sessions, user, server, failures, ending, due>>
  BY DEF SurfaceReady, auth, local
<1>2. /\ user # 0 /\ tokens \in {0, user} /\ stack[1] = Screen(s) /\ ~Reported
      /\ s \in Callers
  BY <1>1, CallerTypes DEF FlightsOK
<1>3. StackOK' /\ stack'[1] = "rooms"
  BY <1>1, Alone
<1>4. /\ \A q \in Callers \ {s} : call'[q] = call[q]
      /\ \A t \in Slots \ {s} : enter'[t] = enter[t]
      /\ \/ /\ tokens # 0 /\ enter'[s].phase = "chats" /\ call'[s].phase # "none"
            /\ call'[s].session = tokens /\ call'[s].gen = gen
            /\ rejections' = rejections
         \/ /\ enter'[s].phase = "none" /\ call'[s] = NoCall
            /\ \/ rejections' = rejections
               \/ tokens = 0 /\ rejections' = rejections \cup {gen}
  <2>1. CASE room /\ tokens # 0
    BY <1>2, <2>1, GetTokenDoes, MovesDoes DEF SurfaceReady, Types
  <2>2. CASE ~(room /\ tokens # 0)
    BY <1>2, <2>2, OverDoes, CallerTypes DEF SurfaceReady, Types, Notify
  <2> QED
    BY <2>1, <2>2
<1>5. \A t \in Slots \ {s} : stack[1] # Screen(t) /\ t \in Callers
  BY <1>2, Flights, CallerTypes
<1>6. \A r \in Requests : r \in Callers /\ r # s
  BY CallerTypes
<1>7. CallsOK'
  BY <1>1, <1>2, <1>3, <1>4, <1>5, <1>6, Flights, CallerTypes
  DEF CallsOK, OfSurface, SessionsOK
<1>8. FlightsOK'
  <2>1. ASSUME NEW t \in Slots \ {s}
        PROVE  /\ enter'[t].phase = "whoami" => Live(t)' \/ Dead(t)'
               /\ enter'[t].phase # "connect"
    BY <1>1, <1>4, <1>5, <2>1 DEF FlightsOK, Live, Dead
  <2> QED
    BY <1>4, <2>1 DEF FlightsOK
<1>9. WarmupOK' /\ SignInOK'
  BY <1>1, <1>2, <1>4, Flights DEF WarmupOK, SignInOK
<1>10. RejectionsOK'
  BY <1>1, <1>2, <1>4 DEF RejectionsOK, Reported
<1>11. SurfaceOK' /\ SessionsOK'
  BY <1>1, <1>2, <1>3, Flights DEF SurfaceOK, SessionsOK, Ending
<1> QED
  BY <1>3, <1>7, <1>8, <1>9, <1>10, <1>11

LEMMA EntryKeeps ==
  ASSUME Types, Inductive, NEW s \in Slots, ~late',
         WhoamiDone(s) \/ ConnectFails(s) \/ SurfaceReady(s) \/ InitialRoomFound(s)
  PROVE  Inductive'
<1>1. s \in Callers
  BY CallerTypes
<1>2. ASSUME Over(s), UNCHANGED <<auth, user, ready, local, counts, endings>>,
             StackOK', stack'[1] = stack[1]
      PROVE  Inductive'
  <2>1. Ended(s)
    BY <1>1, <1>2, OverDoes, CallerTypes DEF Ended, Types
  <2> QED
    BY <1>1, <1>2, <2>1, Ends DEF auth, local, counts, endings
<1>3. CASE ConnectFails(s)
  BY <1>2, <1>3 DEF ConnectFails, view, Inductive, StackOK
<1>4. CASE InitialRoomFound(s)
  <2>1. stack[1] = "rooms" /\ stack' = Append(stack, "detail")
    BY <1>4 DEF InitialRoomFound
  <2>2. StackOK' /\ stack'[1] = stack[1]
    BY <2>1, Pushed DEF Inductive, Types
  <2> QED
    BY <1>2, <1>4, <2>2 DEF InitialRoomFound
<1> QED
  BY <1>3, <1>4, WhoamiKeeps, ReadyKeeps

-----------------------------------------------------------------------------
(* Ending the session, and the world outside.                              *)

\* The gate is shown: what was under way on another screen has ended.
LEMMA ToGateKeeps ==
  ASSUME Types, Inductive, ToGate, UNCHANGED <<enter, call, rejections>>,
         due \/ Ending, ready' \in {ready, FALSE}, ready' => Ending
  PROVE  Inductive'
<1> USE Fields DEF Inductive
<1>1. /\ tokens' = 0 /\ gen' = gen + 1 /\ stack' = <<"sign_in">> /\ ending' = "none"
      /\ server' = FALSE /\ UNCHANGED <<sessions, accepted>>
  BY DEF ToGate
<1>2. StackOK' /\ stack'[1] = "sign_in"
  BY <1>1, Alone
<1>3. Reported \/ stack[1] = "rooms"
  BY DEF SurfaceOK, Reported
<1>4. CallsOK'
  BY <1>1 DEF CallsOK, OfSurface
<1>5. ASSUME NEW s \in Slots
      PROVE  /\ enter[s].phase = "whoami" => Dead(s)'
             /\ enter[s].phase # "connect"
  <2>1. s \in Callers /\ Screen(s) # "rooms"
    BY CallerTypes, Flights
  <2>2. CASE enter[s].phase = "whoami"
    <3>1. call[s].session > 0 /\ (Live(s) \/ Dead(s))
      BY <2>1, <2>2 DEF CallsOK, FlightsOK
    <3>2. call[s].phase = "refresh" \/ call[s].session \notin accepted
      BY <1>3, <2>1, <3>1 DEF Live, Dead
    <3> QED
      BY <1>1, <2>1, <2>2, <3>1, <3>2 DEF CallsOK, Dead
  <2> QED
    BY <1>3, <2>1, <2>2 DEF FlightsOK
<1>6. FlightsOK'
  BY <1>5 DEF FlightsOK
<1>7. \A g \in rejections : g \in Nat /\ g <= gen
  BY DEF RejectionsOK, Types, TypeOK
<1>8. WarmupOK' /\ SignInOK'
  BY <1>1, <1>2, <1>3, <1>7 DEF WarmupOK, SignInOK
<1>9. RejectionsOK'
  BY <1>1, <1>7 DEF RejectionsOK
<1>10. SurfaceOK' /\ SessionsOK'
  <2>1. ~ready'
    BY DEF SurfaceOK, Types, TypeOK
  <2>2. SurfaceOK'
    BY <1>1, <1>2, <2>1 DEF SurfaceOK, Ending
  <2> QED
    BY <1>1, <2>2 DEF SessionsOK
<1> QED
  BY <1>2, <1>4, <1>6, <1>8, <1>9, <1>10

LEMMA EndingKeeps ==
  ASSUME Types, Inductive,
         PressSignOut \/ RejectionMessage \/ RejectionWorker \/ EndStep
  PROVE  Inductive'
<1>1. UNCHANGED <<enter, call>>
  BY DEF PressSignOut, RejectionMessage, RejectionIgnored, RejectionAccepted, RejectionWorker,
         RejectionDropped, RejectionEnds, EndStep, WorkersStopped, StopFails, ServerClosed, calls
<1>2. ASSUME UNCHANGED <<auth, user, server, counts, rejections, due>>,
             StackOK', stack'[1] = stack[1],
             /\ stack[1] = "rooms" /\ failures' = 0 /\ ~Ending' => ready'
             /\ ready' => stack[1] = "rooms" /\ ~Ending'
             /\ Ending' \/ server' => stack[1] = "rooms"
      PROVE  Inductive'
  BY <1>1, <1>2, Calm DEF auth, counts, Reported
<1>3. CASE PressSignOut
  <2>1. stack[1] = "rooms" /\ StackOK' /\ stack'[1] = stack[1]
    BY <1>3, Screens, Popped DEF PressSignOut, Inductive, Types
  <2> QED
    BY <1>2, <1>3, <2>1 DEF PressSignOut, auth, local, counts, Inductive, SurfaceOK, Ending
<1>4. CASE RejectionMessage
  BY <1>1, <1>4, Calm
  DEF RejectionMessage, RejectionIgnored, RejectionAccepted, auth, view, local, counts,
      Reported, Inductive, SurfaceOK, StackOK, Ending
<1>5. CASE RejectionDropped
  BY <1>1, <1>5, Calm
  DEF RejectionDropped, auth, view, local, counts, Reported, Inductive, SurfaceOK, StackOK, Ending
<1>6. CASE RejectionEnds
  <2>1. CASE server
    <3>1. /\ UNCHANGED <<auth, user, stack, local, counts, rejections>>
          /\ due /\ due' = FALSE /\ ready' = FALSE /\ ending' = "expiring"
      BY <1>6, <2>1 DEF RejectionEnds
    <3> QED
      BY <1>1, <2>1, <3>1, Calm
      DEF auth, local, counts, Reported, Inductive, SurfaceOK, StackOK, Ending
  <2>2. CASE ~server
    BY <1>1, <1>6, <2>2, ToGateKeeps DEF RejectionEnds
  <2> QED
    BY <2>1, <2>2
<1>7. CASE WorkersStopped
  <2>1. CASE server
    BY <1>1, <1>7, <2>1, Calm
    DEF WorkersStopped, auth, view, counts, Reported, Inductive, SurfaceOK, StackOK, Ending
  <2>2. CASE ~server
    BY <1>1, <1>7, <2>2, ToGateKeeps DEF WorkersStopped, Types, TypeOK, Ending
  <2> QED
    BY <2>1, <2>2
<1>8. CASE StopFails
  <2>1. failures' # 0
    BY <1>8 DEF StopFails, Types, TypeOK
  <2> QED
    BY <1>1, <1>8, <2>1, Calm
    DEF StopFails, auth, view, local, Reported, Inductive, SurfaceOK, StackOK, Ending
<1>9. CASE ServerClosed
  BY <1>1, <1>9, ToGateKeeps DEF ServerClosed, Types, TypeOK, Ending
<1> QED
  BY <1>3, <1>4, <1>5, <1>6, <1>7, <1>8, <1>9 DEF RejectionWorker, EndStep

LEMMA OutsideKeeps ==
  ASSUME Types, Inductive, Outside
  PROVE  Inductive'
<1>1. UNCHANGED <<enter, call, gen, sessions, user, ready, ending, rejections, due, failures>>
  BY DEF Outside, OpenRoom, OpenSettings, Back, Navigates, OpenSocket, StartWorker, StartServer,
         Revoke, SignedOutElsewhere, auth, view, local, counts, flows, endings, calls
<1>2. tokens' \in {tokens, 0} /\ accepted' \subseteq accepted
  BY DEF Outside, OpenRoom, OpenSettings, Back, Navigates, OpenSocket, StartWorker, StartServer,
         Revoke, SignedOutElsewhere, auth
<1>3. StackOK' /\ stack'[1] = stack[1]
  <2>1. CASE OpenRoom
    <3>1. stack[1] = "rooms" /\ stack' = Append(stack, "detail")
      BY <2>1, Screens DEF OpenRoom, OnSurface, Navigates, Inductive, Types
    <3> QED
      BY <3>1, Pushed DEF Inductive, Types
  <2>2. CASE OpenSettings
    <3>1. stack[1] = "rooms" /\ stack' = Append(stack, "settings")
      BY <2>2, Screens DEF OpenSettings, Navigates, Inductive, Types
    <3> QED
      BY <3>1, Pushed DEF Inductive, Types
  <2>3. CASE Back
    BY <2>3, Screens, Popped DEF Back, Navigates, Inductive, Types
  <2>4. CASE ~(OpenRoom \/ OpenSettings \/ Back)
    BY <2>4 DEF Outside, OpenSocket, StartWorker, StartServer, Revoke, SignedOutElsewhere, view,
                Inductive, StackOK
  <2> QED
    BY <2>1, <2>2, <2>3, <2>4
<1>4. server' => server \/ stack[1] = "rooms"
  BY Screens DEF Outside, OpenRoom, OpenSettings, Back, Navigates, OpenSocket, StartWorker,
                 StartServer, Revoke, SignedOutElsewhere, local, Inductive, Types
<1>5. Reported' => Reported
  BY <1>1 DEF Reported
<1> QED
  BY <1>1, <1>2, <1>3, <1>4, <1>5, Calm DEF Inductive, SurfaceOK, Ending

-----------------------------------------------------------------------------
(* The theorems.                                                           *)

LEMMA InitInductive == Init => Inductive
<1> SUFFICES ASSUME Init PROVE Inductive
  OBVIOUS
<1> USE CallerTypes, Flights DEF Init
<1>1. StackOK
  BY DEF StackOK
<1>2. \A c \in Callers : call[c] = NoCall
  OBVIOUS
<1>3. /\ enter["signin"].phase = "none"
      /\ enter["warmup"].phase = IF tokens # 0 THEN "begin" ELSE "none"
      /\ stack[1] = IF tokens = 0 THEN "sign_in" ELSE "warmup"
  OBVIOUS
<1>4. CallsOK /\ FlightsOK
  BY <1>2, <1>3 DEF CallsOK, FlightsOK
<1>5. WarmupOK /\ SignInOK /\ RejectionsOK
  BY <1>3 DEF WarmupOK, SignInOK, RejectionsOK, Reported
<1>6. SurfaceOK /\ SessionsOK
  BY <1>3 DEF SurfaceOK, SessionsOK, Ending
<1> QED
  BY <1>1, <1>4, <1>5, <1>6 DEF Inductive

LEMMA NextKeeps ==
  ASSUME Types, ~late => Inductive, [Next]_vars, ~late'
  PROVE  Inductive'
<1>1. CASE UNCHANGED vars
  BY <1>1 DEF vars, auth, view, local, counts, flows, endings, calls, Inductive, StackOK, CallsOK,
              FlightsOK, WarmupOK, SignInOK, RejectionsOK, SurfaceOK, SessionsOK, OfSurface, Live,
              Dead, Reported, Ending, Screen
<1>2. CASE Next
  <2>1. ASSUME NEW c \in Callers, CallStep(c) PROVE ~late
    BY <2>1 DEF CallStep, RefreshDone, Tag, RefreshLost, Rejected, Answered, Types, TypeOK
  <2>2. ASSUME NEW s \in Slots,
               WhoamiDone(s) \/ ConnectFails(s) \/ SurfaceReady(s) \/ InitialRoomFound(s)
        PROVE  ~late
    BY <2>2 DEF WhoamiDone, ConnectFails, SurfaceReady, InitialRoomFound, Types, TypeOK
  <2>3. CASE WarmupBegins \/ RetryWarmup \/ PressSignIn \/ BrowserDone \/ BrowserFails \/ CleanedUp
    <3>1. ~late
      BY <2>3 DEF WarmupBegins, RetryWarmup, PressSignIn, BrowserDone, BrowserFails, CleanedUp,
                  Begins
    <3> QED
      BY <2>3, <3>1, GateKeeps
  <2>4. CASE \E r \in Requests : Ask(r)
    BY <2>4, AskKeeps DEF Ask
  <2>5. CASE PressSignOut \/ RejectionMessage \/ RejectionWorker \/ EndStep
    <3>1. ~late
      BY <2>5 DEF PressSignOut, RejectionMessage, RejectionIgnored, RejectionAccepted,
                  RejectionWorker, RejectionDropped, RejectionEnds, EndStep, WorkersStopped,
                  StopFails, ServerClosed, calls
    <3> QED
      BY <2>5, <3>1, EndingKeeps
  <2>6. CASE Outside
    <3>1. ~late
      BY <2>6 DEF Outside, OpenRoom, OpenSettings, Back, Navigates, OpenSocket, StartWorker,
                  StartServer, Revoke, SignedOutElsewhere, flows, calls
    <3> QED
      BY <2>6, <3>1, OutsideKeeps
  <2> QED
    BY <1>2, <2>1, <2>2, <2>3, <2>4, <2>5, <2>6, Steps, CallsKeep, EntryKeeps DEF Types
<1> QED
  BY <1>1, <1>2

LEMMA SessionInvariant == Spec => []SessionInv
<1>1. Init => SessionInv
  BY InitTypes, InitInductive DEF SessionInv
<1>2. SessionInv /\ [Next]_vars => SessionInv'
  BY NextTypes, NextKeeps DEF SessionInv
<1> QED
  BY <1>1, <1>2, PTL DEF Spec

\* Until something of an ended session had an effect, a ready surface belongs
\* to a user and makes its requests with that user's tokens: no step of a
\* flight that a sign-out or a rejection left behind makes a surface ready.
THEOREM ReadySurfaceIsSignedIn == Spec => []TimelySurfaceIsSignedIn
<1>1. SessionInv => TimelySurfaceIsSignedIn
  BY DEF SessionInv, Inductive, SurfaceOK, TimelySurfaceIsSignedIn, SurfaceIsSignedIn
<1> QED
  BY <1>1, SessionInvariant, PTL

\* ... and the screens of a signed-in user are shown by a ready surface while
\* no session is ending and no sign-out has failed.
THEOREM SignedInSurfaceFollowsWorkers == Spec => []SurfaceFollowsWorkers
<1>1. SessionInv => SurfaceFollowsWorkers
  BY DEF SessionInv, Inductive, SurfaceOK, SurfaceFollowsWorkers, RoomsOfUser
<1> QED
  BY <1>1, SessionInvariant, PTL

\* ... and a rejection ends no session that the platform still accepts.
THEOREM RejectionsOnlyEndDeadSessions == Spec => TimelyRejectionsAreCurrent
<1>1. SessionInv /\ [Next]_vars => [~late /\ RejectionEnds => tokens \notin accepted]_vars
  BY DEF SessionInv, Inductive, RejectionsOK, Reported, RejectionEnds
<1> QED
  BY <1>1, SessionInvariant, PTL DEF Spec, TimelyRejectionsAreCurrent
=============================================================================
