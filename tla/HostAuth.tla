------------------------------ MODULE HostAuth ------------------------------
(***************************************************************************)
(* The owner of the user's tokens (src/src/band_wezterm/auth/host_auth.py) *)
(* in each Band process of one user, and the keyring entry the processes   *)
(* share.  Requests for an access token share a refresh; browser sign-ins, *)
(* sign-outs and refreshes overlap, and a generation that every one of     *)
(* them advances decides which may still touch the keyring.                *)
(*                                                                         *)
(* Each action runs from one await of the code to the next.  self._lock is *)
(* never held across an await, so it does not appear.  A token pair is the *)
(* session it belongs to and the number of rotations of its refresh token. *)
(***************************************************************************)
EXTENDS Naturals, FiniteSets

CONSTANTS
    Hosts,       \* processes that share the keyring entry
    Callers,     \* requests for a token, in each process
    Flights,     \* refresh tasks, in each process
    Attempts,    \* browser sign-ins, in each process
    None,
    MaxSessions, \* bound on the sign-ins
    MaxExpiries, \* bound on the times an access token gets close to its end
    MaxSignOuts, \* bound on the sign-outs
    MayCancel    \* whether a view may cancel its request for a token

ASSUME HostAuthAssumption ==
    /\ MaxSessions \in Nat /\ MaxExpiries \in Nat /\ MaxSignOuts \in Nat
    /\ MayCancel \in BOOLEAN
    /\ None \notin Flights
    /\ None \notin Nat
    /\ None \notin [session : Nat, serial : Nat, fresh : BOOLEAN]
    /\ None \notin [session : Nat, serial : Nat]

VARIABLES
    gen,      \* self._token_generation of each process
    flight,   \* the refresh tasks of each process
    shared,   \* self._refresh_flight of each process
    caller,   \* the requests in get_access_token
    attempt,  \* the sign_in calls
    stored,   \* the keyring entry
    accepted, \* the rotation of each session the platform accepts, or None
    newest,   \* sign-ins begun so far
    expiries, \* expiries so far
    signouts  \* sign-outs so far

vars == <<gen, flight, shared, caller, attempt, stored, accepted, newest,
          expiries, signouts>>

Sessions == 1..MaxSessions
Token == [session : Nat, serial : Nat]
Stored == [session : Nat, serial : Nat, fresh : BOOLEAN]
Result == {"none", "ok", "invalid", "superseded", "error", "cancelled"}
Flight == [phase : {"none", "sent", "reply", "done"}, gen : Nat,
           token : Token \cup {None}, reply : Token \cup {None},
           result : Result]
Caller == [on : Flights \cup {None}, gen : Nat]
Attempt == [phase : {"none", "discover", "browser", "reply"}, gen : Nat,
            session : Nat]

NoFlight == [phase |-> "none", gen |-> 0, token |-> None, reply |-> None,
             result |-> "none"]
NoCaller == [on |-> None, gen |-> 0]
NoAttempt == [phase |-> "none", gen |-> 0, session |-> 0]

TypeOK ==
    /\ gen \in [Hosts -> Nat]
    /\ flight \in [Hosts -> [Flights -> Flight]]
    /\ shared \in [Hosts -> Flights \cup {None}]
    /\ caller \in [Hosts -> [Callers -> Caller]]
    /\ attempt \in [Hosts -> [Attempts -> Attempt]]
    /\ stored \in Stored \cup {None}
    /\ accepted \in [Sessions -> Nat \cup {None}]
    /\ newest \in 0..MaxSessions
    /\ expiries \in 0..MaxExpiries
    /\ signouts \in 0..MaxSignOuts

Init ==
    /\ gen = [h \in Hosts |-> 0]
    /\ flight = [h \in Hosts |-> [f \in Flights |-> NoFlight]]
    /\ shared = [h \in Hosts |-> None]
    /\ caller = [h \in Hosts |-> [c \in Callers |-> NoCaller]]
    /\ attempt = [h \in Hosts |-> [i \in Attempts |-> NoAttempt]]
    /\ stored = None
    /\ accepted = [s \in Sessions |-> None]
    /\ newest = 0
    /\ expiries = 0
    /\ signouts = 0

-----------------------------------------------------------------------------
(* get_access_token and the refresh the requests share.                    *)

TokenOf(t) == [session |-> t.session, serial |-> t.serial]
BugFresh(t) == t
Fresh(t) == [session |-> t.session, serial |-> t.serial, fresh |-> TRUE]

Waiting(h, f) == {c \in Callers : caller[h][c].on = f}

\* Faulty variants (Bug...) precede the definitions they vary; only
\* PROJECT.json refers to them.
BugJoinAny(h, f, g) == f # None /\ flight[h][f].phase # "done"
BugNeverJoin(h, f, g) == FALSE

\* A refresh under way that a request of generation g may join.
Joinable(h, f, g) ==
    /\ f # None
    /\ flight[h][f].gen = g
    /\ flight[h][f].phase # "done"

\* A request finds the token expired: it joins the refresh of its
\* generation, or starts one.
AskRefresh(h, c) ==
    /\ caller[h][c].on = None
    /\ stored # None
    /\ ~stored.fresh
    /\ \E f \in Flights :
          /\ IF Joinable(h, shared[h], gen[h])
             THEN f = shared[h] /\ UNCHANGED <<flight, shared>>
             ELSE /\ flight[h][f].phase = "none"
                  /\ flight' = [flight EXCEPT ![h][f] =
                         [phase |-> "sent", gen |-> gen[h],
                          token |-> TokenOf(stored), reply |-> None,
                          result |-> "none"]]
                  /\ shared' = [shared EXCEPT ![h] = f]
          /\ caller' = [caller EXCEPT ![h][c] = [on |-> f, gen |-> gen[h]]]
    /\ UNCHANGED <<gen, attempt, stored, accepted, newest, expiries, signouts>>

\* The request reaches the platform, which may rotate the refresh token.
FlightReaches(h, f) ==
    LET t == flight[h][f].token
        s == t.session
    IN  /\ flight[h][f].phase = "sent"
        /\ \/ /\ accepted[s] # t.serial
              /\ flight' = [flight EXCEPT ![h][f] = [@ EXCEPT
                     !.phase = "reply", !.result = "invalid"]]
              /\ UNCHANGED accepted
           \/ /\ accepted[s] = t.serial
              /\ \E serial \in {t.serial, t.serial + 1} :
                    /\ accepted' = [accepted EXCEPT ![s] = serial]
                    /\ flight' = [flight EXCEPT ![h][f] = [@ EXCEPT
                           !.phase = "reply",
                           !.reply = [session |-> s, serial |-> serial],
                           !.result = "ok"]]
        /\ UNCHANGED <<gen, shared, caller, attempt, stored, newest, expiries,
                       signouts>>

Done(h, f, result) ==
    flight' = [flight EXCEPT ![h][f] = [@ EXCEPT !.phase = "done",
                                                 !.result = result]]

\* Discovery or the exchange raises; the platform may have answered.
FlightFails(h, f) ==
    /\ flight[h][f].phase \in {"sent", "reply"}
    /\ Done(h, f, "error")
    /\ UNCHANGED <<gen, shared, caller, attempt, stored, accepted, newest,
                   expiries, signouts>>

BugMayStore(h, g) == TRUE

\* The guard in _refresh, _store_user_tokens and _clear_user_tokens.
MayStore(h, g) == g = gen[h]

\* The rest of _refresh.
FlightEnds(h, f) ==
    LET r == flight[h][f]
    IN  /\ r.phase = "reply"
        /\ \/ /\ r.result = "ok"
              /\ MayStore(h, r.gen)
              /\ gen' = [gen EXCEPT ![h] = @ + 1]
              /\ stored' = Fresh(r.reply)
              /\ Done(h, f, "ok")
           \/ /\ r.result = "ok"
              /\ ~MayStore(h, r.gen)
              /\ Done(h, f, "superseded")
              /\ UNCHANGED <<gen, stored>>
           \/ /\ r.result = "invalid"
              /\ Done(h, f, "invalid")
              /\ UNCHANGED <<gen, stored>>
        /\ UNCHANGED <<shared, caller, attempt, accepted, newest, expiries,
                       signouts>>

BugLeave(h, c, f, fl) ==
    /\ caller' = [caller EXCEPT ![h][c] = NoCaller]
    /\ shared' = [shared EXCEPT ![h] = IF @ = f THEN None ELSE @]
    /\ flight' = [fl EXCEPT ![h][f] = NoFlight]

\* A request leaves the refresh it waited for: it clears self._refresh_flight,
\* and the task is gone when nobody else waits.
Leave(h, c, f, fl) ==
    /\ caller' = [caller EXCEPT ![h][c] = NoCaller]
    /\ shared' = [shared EXCEPT ![h] = IF @ = f THEN None ELSE @]
    /\ flight' = IF Waiting(h, f) = {c} THEN [fl EXCEPT ![h][f] = NoFlight]
                 ELSE fl

\* The request resumes when its refresh is done; a refresh token that the
\* platform refused is removed.
CallerResumes(h, c) ==
    LET f == caller[h][c].on
    IN  /\ f # None
        /\ flight[h][f].phase = "done"
        /\ Leave(h, c, f, flight)
        /\ stored' = IF /\ flight[h][f].result = "invalid"
                        /\ MayStore(h, caller[h][c].gen)
                     THEN None ELSE stored
        /\ UNCHANGED <<gen, attempt, accepted, newest, expiries, signouts>>

\* The view cancels its request: it awaits the shared task itself, so the
\* task is cancelled too.
CallerCancelled(h, c) ==
    LET f == caller[h][c].on
        r == flight[h][f]
    IN  /\ MayCancel
        /\ f # None
        /\ Leave(h, c, f, IF r.phase = "done" THEN flight
                          ELSE [flight EXCEPT ![h][f] = [@ EXCEPT
                                    !.phase = "done",
                                    !.result = "cancelled"]])
        /\ UNCHANGED <<gen, attempt, stored, accepted, newest, expiries,
                       signouts>>

-----------------------------------------------------------------------------
(* sign_in, sign_out, and the platform.                                    *)

BugSignInKeepsGeneration(h, i) ==
    /\ stored = None
    /\ attempt[h][i].phase = "none"
    /\ newest < MaxSessions
    /\ newest' = newest + 1
    /\ attempt' = [attempt EXCEPT ![h][i] =
           [phase |-> "discover", gen |-> gen[h], session |-> newest + 1]]
    /\ UNCHANGED <<gen, flight, shared, caller, stored, accepted, expiries,
                   signouts>>

\* The sign-in screen calls it when there are no stored tokens.
BeginSignIn(h, i) ==
    /\ stored = None
    /\ attempt[h][i].phase = "none"
    /\ newest < MaxSessions
    /\ newest' = newest + 1
    /\ gen' = [gen EXCEPT ![h] = @ + 1]
    /\ attempt' = [attempt EXCEPT ![h][i] =
           [phase |-> "discover", gen |-> gen[h] + 1, session |-> newest + 1]]
    /\ UNCHANGED <<flight, shared, caller, stored, accepted, expiries,
                   signouts>>

\* Discovery is over: the browser opens, unless a newer sign-in has begun.
OpenBrowser(h, i) ==
    /\ attempt[h][i].phase = "discover"
    /\ MayStore(h, attempt[h][i].gen)
    /\ attempt' = [attempt EXCEPT ![h][i] = [@ EXCEPT !.phase = "browser"]]
    /\ UNCHANGED <<gen, flight, shared, caller, stored, accepted, newest,
                   expiries, signouts>>

\* The user signs in and the code is exchanged for tokens.
CodeExchanged(h, i) ==
    /\ attempt[h][i].phase = "browser"
    /\ attempt' = [attempt EXCEPT ![h][i] = [@ EXCEPT !.phase = "reply"]]
    /\ accepted' = [accepted EXCEPT ![attempt[h][i].session] = 0]
    /\ UNCHANGED <<gen, flight, shared, caller, stored, newest, expiries,
                   signouts>>

\* The tokens are stored, unless a newer sign-in or a sign-out came first.
SignInEnds(h, i) ==
    LET a == attempt[h][i]
    IN  /\ a.phase = "reply"
        /\ attempt' = [attempt EXCEPT ![h][i] = NoAttempt]
        /\ stored' = IF MayStore(h, a.gen)
                     THEN [session |-> a.session, serial |-> 0, fresh |-> TRUE]
                     ELSE stored
        /\ UNCHANGED <<gen, flight, shared, caller, accepted, newest, expiries,
                       signouts>>

\* Cancelled with Escape, superseded after discovery, timed out or refused.
SignInFails(h, i) ==
    /\ attempt[h][i].phase # "none"
    /\ attempt' = [attempt EXCEPT ![h][i] = NoAttempt]
    /\ UNCHANGED <<gen, flight, shared, caller, stored, accepted, newest,
                   expiries, signouts>>

BugSignOutKeepsGeneration(h) ==
    /\ signouts < MaxSignOuts
    /\ signouts' = signouts + 1
    /\ stored' = None
    /\ UNCHANGED <<gen, flight, shared, caller, attempt, accepted, newest,
                   expiries>>

\* By the user, or because the platform rejected a request.
SignOut(h) ==
    /\ signouts < MaxSignOuts
    /\ signouts' = signouts + 1
    /\ gen' = [gen EXCEPT ![h] = @ + 1]
    /\ stored' = None
    /\ UNCHANGED <<flight, shared, caller, attempt, accepted, newest, expiries>>

\* The access token is within a minute of its end.
Expire ==
    /\ stored # None
    /\ stored.fresh
    /\ expiries < MaxExpiries
    /\ expiries' = expiries + 1
    /\ stored' = [stored EXCEPT !.fresh = FALSE]
    /\ UNCHANGED <<gen, flight, shared, caller, attempt, accepted, newest,
                   signouts>>

\* The platform ends a session.
Revoke(s) ==
    /\ accepted[s] # None
    /\ accepted' = [accepted EXCEPT ![s] = None]
    /\ UNCHANGED <<gen, flight, shared, caller, attempt, stored, newest,
                   expiries, signouts>>

-----------------------------------------------------------------------------
FlightStep(h, f) == FlightReaches(h, f) \/ FlightFails(h, f) \/ FlightEnds(h, f)

HostNext(h) ==
    \/ \E f \in Flights : FlightStep(h, f)
    \/ \E c \in Callers : \/ AskRefresh(h, c)
                          \/ CallerResumes(h, c)
                          \/ CallerCancelled(h, c)
    \/ \E i \in Attempts : \/ BeginSignIn(h, i)
                           \/ OpenBrowser(h, i)
                           \/ CodeExchanged(h, i)
                           \/ SignInEnds(h, i)
                           \/ SignInFails(h, i)
    \/ SignOut(h)

Next ==
    \/ \E h \in Hosts : HostNext(h)
    \/ Expire
    \/ \E s \in Sessions : Revoke(s)

Spec == Init /\ [][Next]_vars

\* httpx gives every request a timeout, so a refresh ends.
Fairness ==
    \A h \in Hosts : /\ \A f \in Flights : WF_vars(FlightStep(h, f))
                     /\ \A c \in Callers : WF_vars(CallerResumes(h, c))
FairSpec == Spec /\ Fairness

-----------------------------------------------------------------------------
(* Properties.                                                             *)

\* A sign-in of a process that could still store its tokens.
OpenAttempt(h, i) ==
    attempt[h][i].phase # "none" /\ MayStore(h, attempt[h][i].gen)

\* The session the user sees: its number, the newest sign-in, and whether
\* that sign-in may still succeed.
Session == INSTANCE UserSession WITH
    current <- IF stored = None THEN 0 ELSE stored.session,
    newest <- newest,
    open <- \E h \in Hosts : \E i \in Attempts : OpenAttempt(h, i)

\* One process: whatever refreshes and sign-ins overlap, only the newest
\* sign-in brings a session and an ended session never comes back
\* (_refresh, _store_user_tokens, sign_out).
SessionIsSafe == Session!Spec

\* A refresh token is used for one refresh at a time, so a platform that
\* rotates refresh tokens never sees one twice (_refresh_access_token).
OneRefreshPerToken ==
    \A h \in Hosts : \A f, g \in Flights :
        /\ f # g
        /\ flight[h][f].phase \in {"sent", "reply"}
        /\ flight[h][g].phase \in {"sent", "reply"}
        => flight[h][f].token # flight[h][g].token

KeepsAcceptedSession ==
    \/ stored = None
    \/ stored' # None
    \/ accepted[stored.session] # stored.serial
    \/ \E h \in Hosts : SignOut(h)

\* A session the platform still accepts is only removed from the keyring by
\* a sign-out: the failure of an older refresh never removes newer tokens
\* (get_access_token, _clear_user_tokens).
AcceptedSessionIsKept == [][KeepsAcceptedSession]_vars

\* Every request for a token is answered.
RequestsAreAnswered ==
    \A h \in Hosts : \A c \in Callers :
        caller[h][c].on # None ~> caller[h][c].on = None

\* Signing out removes the local session and invalidates what is in flight:
\* once the keyring is empty, only a sign-in fills it (sign_out, _refresh).
SignedOutStaysOut ==
    [][ stored = None /\ stored' # None
        => \E h \in Hosts : \E i \in Attempts : SignInEnds(h, i) ]_vars

-----------------------------------------------------------------------------
(* The strengthening that makes SessionIsSafe and AcceptedSessionIsKept      *)
(* inductive for one process.                                              *)

Live(h, f) == flight[h][f].phase \in {"sent", "reply"}
Taken(h, f) == flight[h][f].phase # "none"

\* A platform that accepts the rotations acc will never accept this token again.
Dead(acc, t) == acc[t.session] = None \/ acc[t.session] > t.serial

\* It has issued this token.
Issued(acc, t) == acc[t.session] = None \/ acc[t.session] \geq t.serial

\* Sign-ins have sessions of their own, and tokens come after them.
AttemptsOK ==
    \A h \in Hosts : \A i \in Attempts : attempt[h][i].phase # "none" =>
        /\ attempt[h][i].gen \leq gen[h]
        /\ attempt[h][i].session \in 1..newest
        /\ stored # None => stored.session # attempt[h][i].session
        /\ \A f \in Flights : Taken(h, f) =>
              flight[h][f].token.session # attempt[h][i].session
        /\ \A j \in Attempts : i # j /\ attempt[h][j].phase # "none" =>
              /\ attempt[h][i].session # attempt[h][j].session
              /\ attempt[h][i].gen # attempt[h][j].gen

\* While a sign-in may succeed, nothing else may touch the keyring.
OpenOK ==
    \A h \in Hosts : \A i \in Attempts : OpenAttempt(h, i) =>
        /\ attempt[h][i].session = newest
        /\ stored = None
        /\ \A f \in Flights : Taken(h, f) => flight[h][f].gen # gen[h]

\* A refresh and the requests that wait for it.
FlightsOK ==
    \A h \in Hosts : \A f \in Flights : Taken(h, f) =>
        LET r == flight[h][f]
        IN  /\ r.gen \leq gen[h]
            /\ r.token \in Token
            /\ r.token.session \in 1..newest
            /\ Issued(accepted, r.token)
            /\ r.phase = "sent" => r.result = "none"
            /\ r.phase = "reply" => r.result \in {"ok", "invalid"}
            /\ r.phase = "reply" /\ r.result = "ok" =>
                  /\ r.reply \in Token
                  /\ r.reply.session = r.token.session
                  /\ Issued(accepted, r.reply)
            /\ r.result = "invalid" => Dead(accepted, r.token)
            /\ Live(h, f) /\ r.gen = gen[h] => shared[h] = f

WaitersOK ==
    \A h \in Hosts :
        /\ shared[h] # None => Taken(h, shared[h])
        /\ \A c \in Callers : caller[h][c].on # None =>
              /\ Taken(h, caller[h][c].on)
              /\ flight[h][caller[h][c].on].gen = caller[h][c].gen

\* Refreshes of one generation use the same token, one after the other, and
\* none succeeds after one was refused.
GenerationsOK ==
    \A h \in Hosts : \A f, g \in Flights :
        /\ f # g /\ Taken(h, f) /\ Taken(h, g)
        /\ flight[h][f].gen = flight[h][g].gen
        => /\ flight[h][f].token = flight[h][g].token
           /\ ~(Live(h, f) /\ Live(h, g))
           /\ Live(h, f) /\ flight[h][f].result = "ok" =>
                 flight[h][g].result # "invalid"

\* The refreshes of the current generation are about the stored token; it is
\* gone only if the platform refused it.
CurrentOK ==
    \A h \in Hosts : \A f \in Flights :
        Taken(h, f) /\ flight[h][f].gen = gen[h] =>
            /\ stored # None => TokenOf(stored) = flight[h][f].token
            /\ stored = None => Dead(accepted, flight[h][f].token)
            /\ flight[h][f].result = "ok" => Live(h, f) /\ stored # None

StoredOK ==
    stored # None => stored.session \in 1..newest /\ Issued(accepted, stored)

\* A refresh of an older generation is about a session that is over.
OrphansOK ==
    \A h \in Hosts : \A f \in Flights :
        Live(h, f) =>
          /\ flight[h][f].gen # gen[h] /\ stored # None =>
                stored.session # flight[h][f].token.session
          /\ \A g \in Flights : f # g /\ Live(h, g) =>
                flight[h][f].token.session # flight[h][g].token.session

Inductive ==
    /\ TypeOK
    /\ AttemptsOK
    /\ OpenOK
    /\ FlightsOK
    /\ WaitersOK
    /\ GenerationsOK
    /\ CurrentOK
    /\ StoredOK
    /\ OrphansOK
=============================================================================
