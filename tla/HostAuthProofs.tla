--------------------------- MODULE HostAuthProofs ---------------------------
(* Theorems about HostAuth, for every number of requests, sign-ins and      *)
(* refreshes that overlap in a process.                                     *)
EXTENDS HostAuth, TLAPS

LEMMA Records ==
    /\ NoFlight \in Flight /\ NoCaller \in Caller /\ NoAttempt \in Attempt
    /\ \A t \in Stored : TokenOf(t) \in Token
    /\ \A t \in Token : Fresh(t) \in Stored /\ TokenOf(Fresh(t)) = t
    /\ \A t \in Stored : [t EXCEPT !.fresh = FALSE] \in Stored
    /\ \A t \in Token, g \in Nat :
          [phase |-> "sent", gen |-> g, token |-> t, reply |-> None,
           result |-> "none"] \in Flight
    /\ \A f \in Flights, g \in Nat : [on |-> f, gen |-> g] \in Caller
<1>1. NoFlight \in Flight /\ NoCaller \in Caller /\ NoAttempt \in Attempt
  BY DEF NoFlight, NoCaller, NoAttempt, Flight, Caller, Attempt, Result
<1>2. \A t \in Stored : TokenOf(t) \in Token
  BY DEF TokenOf, Token, Stored
<1>3. \A t \in Token : Fresh(t) \in Stored /\ TokenOf(Fresh(t)) = t
  BY DEF TokenOf, Fresh, Token, Stored
<1>4. \A t \in Stored : [t EXCEPT !.fresh = FALSE] \in Stored
  BY DEF Stored
<1>5. \A t \in Token, g \in Nat :
          [phase |-> "sent", gen |-> g, token |-> t, reply |-> None,
           result |-> "none"] \in Flight
  BY DEF Flight, Result
<1>6. \A f \in Flights, g \in Nat : [on |-> f, gen |-> g] \in Caller
  BY DEF Caller
<1> QED BY <1>1, <1>2, <1>3, <1>4, <1>5, <1>6

LEMMA FlightRecords ==
    ASSUME NEW r \in Flight, NEW result \in Result, NEW t \in Token
    PROVE  /\ [r EXCEPT !.phase = "done", !.result = result] \in Flight
           /\ [r EXCEPT !.phase = "reply", !.result = "invalid"] \in Flight
           /\ [r EXCEPT !.phase = "reply", !.reply = t, !.result = "ok"] \in Flight
BY DEF Flight, Result

\* One entry of a table of tables changes.
LEMMA Update ==
    ASSUME NEW A, NEW B, NEW C, NEW F \in [A -> [B -> C]],
           NEW a \in A, NEW b \in B, NEW v \in C
    PROVE  /\ [F EXCEPT ![a][b] = v] \in [A -> [B -> C]]
           /\ [F EXCEPT ![a][b] = v][a][b] = v
           /\ \A x \in A, y \in B :
                 x # a \/ y # b => [F EXCEPT ![a][b] = v][x][y] = F[x][y]
OBVIOUS

\* The requests appear in WaitersOK only.
LEMMA OthersUnchanged ==
    ASSUME Inductive,
           UNCHANGED <<gen, flight, shared, attempt, stored, accepted, newest>>
    PROVE  /\ AttemptsOK' /\ OpenOK' /\ FlightsOK' /\ GenerationsOK'
           /\ CurrentOK' /\ StoredOK' /\ OrphansOK'
<1>1. AttemptsOK'
  BY DEF Inductive, AttemptsOK, Taken
<1>2. OpenOK'
  BY DEF Inductive, OpenOK, OpenAttempt, MayStore, Taken
<1>3. FlightsOK'
  BY DEF Inductive, FlightsOK, Taken, Live, Dead, Issued
<1>4. GenerationsOK'
  BY DEF Inductive, GenerationsOK, Taken, Live
<1>5. CurrentOK'
  BY DEF Inductive, CurrentOK, Taken, Live, Dead
<1>6. StoredOK'
  BY DEF Inductive, StoredOK, Issued
<1>7. OrphansOK'
  BY DEF Inductive, OrphansOK, Live
<1> QED BY <1>1, <1>2, <1>3, <1>4, <1>5, <1>6, <1>7

LEMMA AskInductive ==
    ASSUME Inductive, NEW h \in Hosts, Hosts = {h}, NEW c \in Callers,
           AskRefresh(h, c)
    PROVE  Inductive'
<1> USE DEF Inductive
<1>1. PICK f \in Flights :
          /\ \/ f = shared[h] /\ Joinable(h, f, gen[h])
                /\ UNCHANGED <<flight, shared>>
             \/ /\ ~Joinable(h, shared[h], gen[h])
                /\ flight[h][f].phase = "none"
                /\ flight' = [flight EXCEPT ![h][f] =
                         [phase |-> "sent", gen |-> gen[h],
                          token |-> TokenOf(stored), reply |-> None,
                          result |-> "none"]]
                /\ shared' = [shared EXCEPT ![h] = f]
          /\ caller' = [caller EXCEPT ![h][c] = [on |-> f, gen |-> gen[h]]]
  BY DEF AskRefresh
<1>2. /\ caller[h][c].on = None /\ stored # None /\ stored \in Stored
      /\ gen[h] \in Nat
      /\ UNCHANGED <<gen, attempt, stored, accepted, newest, expiries, signouts>>
  BY DEF AskRefresh, TypeOK
<1>3. /\ caller' \in [Hosts -> [Callers -> Caller]]
      /\ caller'[h][c] = [on |-> f, gen |-> gen[h]]
      /\ \A d \in Callers : d # c => caller'[h][d] = caller[h][d]
  <2>1. [on |-> f, gen |-> gen[h]] \in Caller
    BY <1>2, Records
  <2>2. caller \in [Hosts -> [Callers -> Caller]]
    BY DEF TypeOK
  <2> QED BY <1>1, <2>1, <2>2, Update
<1>4. CASE f = shared[h] /\ Joinable(h, f, gen[h]) /\ UNCHANGED <<flight, shared>>
  <2>1. TypeOK'
    BY <1>2, <1>3, <1>4 DEF TypeOK
  <2>2. /\ AttemptsOK' /\ OpenOK' /\ FlightsOK' /\ GenerationsOK'
        /\ CurrentOK' /\ StoredOK' /\ OrphansOK'
    BY <1>2, <1>4, OthersUnchanged
  <2>3. WaitersOK'
    <3>1. f \in Flights /\ Taken(h, f) /\ flight[h][f].gen = gen[h]
      BY <1>4 DEF WaitersOK, Joinable
    <3>2. \A d \in Callers : caller'[h][d].on # None =>
             /\ Taken(h, caller'[h][d].on)
             /\ flight[h][caller'[h][d].on].gen = caller'[h][d].gen
      BY <1>3, <3>1 DEF WaitersOK
    <3> QED BY <1>2, <1>4, <3>2 DEF WaitersOK, Taken
  <2> QED BY <2>1, <2>2, <2>3
<1>5. CASE /\ ~Joinable(h, shared[h], gen[h])
           /\ flight[h][f].phase = "none"
           /\ flight' = [flight EXCEPT ![h][f] =
                    [phase |-> "sent", gen |-> gen[h],
                     token |-> TokenOf(stored), reply |-> None,
                     result |-> "none"]]
           /\ shared' = [shared EXCEPT ![h] = f]
  <2> DEFINE q == [phase |-> "sent", gen |-> gen[h], token |-> TokenOf(stored),
                   reply |-> None, result |-> "none"]
             t == TokenOf(stored)
  <2>1. /\ t \in Token /\ t.session = stored.session /\ t.serial = stored.serial
        /\ t.session \in 1..newest /\ Issued(accepted, t)
    BY <1>2, Records DEF StoredOK, TokenOf, Issued
  <2>2. /\ flight' \in [Hosts -> [Flights -> Flight]]
        /\ flight'[h][f] = q
        /\ \A g \in Flights : g # f => flight'[h][g] = flight[h][g]
    <3>1. q \in Flight /\ flight \in [Hosts -> [Flights -> Flight]]
      BY <1>2, <2>1, Records DEF TypeOK
    <3> QED BY <1>5, <3>1, Update
  <2>3. shared'[h] = f /\ shared' \in [Hosts -> Flights \cup {None}]
    BY <1>5 DEF TypeOK
  <2>4. TypeOK'
    BY <1>2, <1>3, <2>2, <2>3 DEF TypeOK
  <2>5. \A g \in Flights :
           /\ Taken(h, g)' => g = f \/ Taken(h, g)
           /\ g # f /\ Live(h, g)' => Live(h, g)
    BY <2>2 DEF Taken, Live
  <2>6. \A g \in Flights : ~(Live(h, g) /\ flight[h][g].gen = gen[h])
    BY <1>5, HostAuthAssumption DEF FlightsOK, Live, Taken, Joinable
  <2>7. AttemptsOK'
    BY <1>2, <2>1, <2>2, <2>5 DEF AttemptsOK
  <2>8. OpenOK'
    BY <1>2 DEF OpenOK, OpenAttempt, MayStore
  <2>9. FlightsOK'
    <3>1. SUFFICES ASSUME NEW g \in Flights, Taken(h, g)'
                   PROVE  LET r == flight'[h][g]
                          IN  /\ r.gen \leq gen[h]
                              /\ r.token \in Token
                              /\ r.token.session \in 1..newest
                              /\ Issued(accepted, r.token)
                              /\ r.phase = "sent" => r.result = "none"
                              /\ r.phase = "reply" => r.result \in {"ok", "invalid"}
                              /\ r.phase = "reply" /\ r.result = "ok" =>
                                    /\ r.reply \in Token
                                    /\ r.reply.session = r.token.session
                                    /\ Issued(accepted, r.reply)
                              /\ r.result = "invalid" => Dead(accepted, r.token)
                              /\ Live(h, g)' /\ r.gen = gen[h] => shared'[h] = g
      BY <1>2 DEF FlightsOK
    <3>2. CASE g = f
      BY <1>2, <2>1, <2>2, <2>3, <3>2
    <3>3. CASE g # f
      BY <2>2, <2>5, <2>6, <3>1, <3>3 DEF FlightsOK
    <3> QED BY <3>2, <3>3
  <2>10. WaitersOK'
    <3>1. ~Taken(h, f) /\ Taken(h, f)' /\ flight'[h][f].gen = gen[h]
      BY <1>5, <2>2 DEF Taken
    <3>2. \A d \in Callers : caller'[h][d].on # None =>
             /\ flight'[h][caller'[h][d].on].phase # "none"
             /\ flight'[h][caller'[h][d].on].gen = caller'[h][d].gen
      <4>1. SUFFICES ASSUME NEW d \in Callers, d # c, caller[h][d].on # None
                     PROVE  LET g == caller[h][d].on
                            IN  /\ flight'[h][g].phase # "none"
                                /\ flight'[h][g].gen = caller[h][d].gen
        BY <1>3, <3>1 DEF Taken
      <4>2. caller[h][d].on \in Flights /\ caller[h][d].on # f
        BY <3>1, <4>1 DEF WaitersOK, TypeOK, Caller
      <4> QED BY <2>2, <4>1, <4>2 DEF WaitersOK, Taken
    <3> QED BY <2>3, <3>1, <3>2 DEF WaitersOK, Taken
  <2>11. GenerationsOK'
    <3>1. ASSUME NEW g \in Flights, g # f, Taken(h, g), flight[h][g].gen = gen[h]
          PROVE  flight[h][g].token = t /\ ~Live(h, g)
      BY <1>2, <2>6, <3>1 DEF CurrentOK
    <3> QED
      BY <1>2, <2>2, <2>5, <3>1 DEF GenerationsOK, Taken, Live
  <2>12. CurrentOK'
    <3>1. ASSUME NEW g \in Flights, g # f, Taken(h, g)', flight'[h][g].gen = gen[h]
          PROVE  /\ TokenOf(stored) = flight'[h][g].token
                 /\ flight'[h][g].result = "ok" => Live(h, g)'
      BY <1>2, <2>2, <2>5, <3>1 DEF CurrentOK, Live
    <3> QED BY <1>2, <2>2, <3>1 DEF CurrentOK
  <2>13. StoredOK'
    BY <1>2 DEF StoredOK, Issued
  <2>14. OrphansOK'
    <3>1. ASSUME NEW g \in Flights, g # f, Live(h, g)'
          PROVE  /\ Live(h, g) /\ flight[h][g].gen # gen[h]
                 /\ flight'[h][g] = flight[h][g]
                 /\ flight[h][g].token.session # t.session
      BY <1>2, <2>1, <2>2, <2>5, <2>6, <3>1 DEF OrphansOK
    <3>2. flight'[h][f].gen = gen[h] /\ flight'[h][f].token = t
      BY <2>2
    <3>3. SUFFICES ASSUME NEW g \in Flights, Live(h, g)'
                   PROVE  /\ flight'[h][g].gen # gen[h] =>
                                stored.session # flight'[h][g].token.session
                          /\ \A e \in Flights : g # e /\ Live(h, e)' =>
                                flight'[h][g].token.session
                                  # flight'[h][e].token.session
      BY <1>2 DEF OrphansOK
    <3>4. CASE g = f
      BY <3>1, <3>2, <3>4
    <3>5. CASE g # f
      BY <2>1, <3>1, <3>2, <3>3, <3>5 DEF OrphansOK
    <3> QED BY <3>4, <3>5
  <2> QED
    BY <2>4, <2>7, <2>8, <2>9, <2>10, <2>11, <2>12, <2>13, <2>14
<1> QED BY <1>1, <1>4, <1>5

\* Sign-ins only care for the generation and the token of a refresh.
LEMMA AttemptsFrame ==
    ASSUME Inductive, NEW h \in Hosts, Hosts = {h},
           UNCHANGED <<gen, attempt, newest>>, stored' \in {stored, None},
           \A g \in Flights : Taken(h, g)' =>
               /\ Taken(h, g)
               /\ flight'[h][g].gen = flight[h][g].gen
               /\ flight'[h][g].token = flight[h][g].token
    PROVE  AttemptsOK' /\ OpenOK'
<1>1. AttemptsOK'
  BY DEF Inductive, AttemptsOK
<1>2. OpenOK'
  BY DEF Inductive, OpenOK, OpenAttempt, MayStore
<1> QED BY <1>1, <1>2

\* The platform answers a refresh.
LEMMA ReachesInductive ==
    ASSUME Inductive, NEW h \in Hosts, Hosts = {h}, NEW f \in Flights,
           FlightReaches(h, f)
    PROVE  Inductive'
<1> USE DEF Inductive
<1> DEFINE r == flight[h][f]
           t == r.token
           s == t.session
<1>1. /\ r \in Flight /\ r.phase = "sent" /\ t \in Token /\ Issued(accepted, t)
      /\ Taken(h, f) /\ Live(h, f) /\ r.gen \leq gen[h] /\ r.gen \in Nat
      /\ s \in 1..newest /\ s \in Sessions /\ t.serial \in Nat
      /\ UNCHANGED <<gen, shared, caller, attempt, stored, newest, expiries,
                     signouts>>
  <2>1. r \in Flight /\ r.phase = "sent" /\ Taken(h, f) /\ Live(h, f)
    BY DEF FlightReaches, TypeOK, Taken, Live
  <2>2. t \in Token /\ Issued(accepted, t) /\ r.gen \leq gen[h] /\ s \in 1..newest
    BY <2>1 DEF FlightsOK
  <2> QED
    BY <2>1, <2>2, HostAuthAssumption
    DEF FlightReaches, TypeOK, Flight, Token, Sessions
<1>2. PICK q \in Flight, a \in [Sessions -> Nat \cup {None}] :
         /\ flight' = [flight EXCEPT ![h][f] = q]
         /\ accepted' = a
         /\ q.phase = "reply" /\ q.token = t /\ q.gen = r.gen
         /\ \/ q.result = "invalid" /\ a = accepted /\ accepted[s] # t.serial
            \/ /\ q.result = "ok" /\ accepted[s] = t.serial
               /\ q.reply \in Token /\ q.reply.session = s
               /\ a[s] = q.reply.serial /\ a[s] \in {t.serial, t.serial + 1}
               /\ \A x \in Sessions : x # s => a[x] = accepted[x]
  <2>1. CASE /\ accepted[s] # t.serial
             /\ flight' = [flight EXCEPT ![h][f] = [@ EXCEPT
                     !.phase = "reply", !.result = "invalid"]]
             /\ UNCHANGED accepted
    <3> DEFINE q == [r EXCEPT !.phase = "reply", !.result = "invalid"]
    <3>1. q \in Flight
      BY <1>1, FlightRecords DEF Result
    <3>2. q.phase = "reply" /\ q.token = t /\ q.gen = r.gen /\ q.result = "invalid"
      BY <1>1 DEF Flight
    <3>3. flight' = [flight EXCEPT ![h][f] = q]
      BY <2>1 DEF TypeOK
    <3> HIDE DEF q
    <3> QED BY <2>1, <3>1, <3>2, <3>3 DEF TypeOK
  <2>2. ASSUME NEW serial \in {t.serial, t.serial + 1},
               accepted[s] = t.serial,
               accepted' = [accepted EXCEPT ![s] = serial],
               flight' = [flight EXCEPT ![h][f] = [@ EXCEPT
                   !.phase = "reply",
                   !.reply = [session |-> s, serial |-> serial],
                   !.result = "ok"]]
        PROVE  \E q \in Flight, a \in [Sessions -> Nat \cup {None}] :
         /\ flight' = [flight EXCEPT ![h][f] = q]
         /\ accepted' = a
         /\ q.phase = "reply" /\ q.token = t /\ q.gen = r.gen
         /\ \/ q.result = "invalid" /\ a = accepted /\ accepted[s] # t.serial
            \/ /\ q.result = "ok" /\ accepted[s] = t.serial
               /\ q.reply \in Token /\ q.reply.session = s
               /\ a[s] = q.reply.serial /\ a[s] \in {t.serial, t.serial + 1}
               /\ \A x \in Sessions : x # s => a[x] = accepted[x]
    <3> DEFINE u == [session |-> s, serial |-> serial]
               q == [r EXCEPT !.phase = "reply", !.reply = u, !.result = "ok"]
               a == [accepted EXCEPT ![s] = serial]
    <3>1. u \in Token /\ serial \in Nat
      BY <1>1, <2>2 DEF Token
    <3>2. q \in Flight
      BY <1>1, <3>1, FlightRecords DEF Result
    <3>3. q.phase = "reply" /\ q.token = t /\ q.gen = r.gen /\ q.result = "ok"
          /\ q.reply = u
      BY <1>1 DEF Flight
    <3>4. flight' = [flight EXCEPT ![h][f] = q]
      BY <2>2 DEF TypeOK
    <3>5. /\ a \in [Sessions -> Nat \cup {None}] /\ a[s] = serial
          /\ \A x \in Sessions : x # s => a[x] = accepted[x]
      BY <1>1, <3>1 DEF TypeOK
    <3>6. accepted' = a /\ u.session = s /\ u.serial = serial
      BY <2>2
    <3> HIDE DEF q, a, u
    <3>7. /\ q.reply \in Token /\ q.reply.session = s
          /\ a[s] = q.reply.serial /\ a[s] \in {t.serial, t.serial + 1}
      BY <3>1, <3>3, <3>5, <3>6
    <3>8. /\ flight' = [flight EXCEPT ![h][f] = q]
          /\ accepted' = a
          /\ q.phase = "reply" /\ q.token = t /\ q.gen = r.gen
          /\ q.result = "ok" /\ accepted[s] = t.serial
          /\ \A x \in Sessions : x # s => a[x] = accepted[x]
      BY <2>2, <3>3, <3>4, <3>5, <3>6
    <3> HIDE DEF r, t, s
    <3> QED BY <3>2, <3>5, <3>7, <3>8
  <2>3. \/ /\ accepted[s] # t.serial
           /\ flight' = [flight EXCEPT ![h][f] = [@ EXCEPT
                   !.phase = "reply", !.result = "invalid"]]
           /\ UNCHANGED accepted
        \/ \E serial \in {t.serial, t.serial + 1} :
             /\ accepted[s] = t.serial
             /\ accepted' = [accepted EXCEPT ![s] = serial]
             /\ flight' = [flight EXCEPT ![h][f] = [@ EXCEPT
                   !.phase = "reply",
                   !.reply = [session |-> s, serial |-> serial],
                   !.result = "ok"]]
    BY DEF FlightReaches
  <2>4. CASE \E serial \in {t.serial, t.serial + 1} :
             /\ accepted[s] = t.serial
             /\ accepted' = [accepted EXCEPT ![s] = serial]
             /\ flight' = [flight EXCEPT ![h][f] = [@ EXCEPT
                   !.phase = "reply",
                   !.reply = [session |-> s, serial |-> serial],
                   !.result = "ok"]]
    <3>1. PICK serial \in {t.serial, t.serial + 1} :
             /\ accepted[s] = t.serial
             /\ accepted' = [accepted EXCEPT ![s] = serial]
             /\ flight' = [flight EXCEPT ![h][f] = [@ EXCEPT
                   !.phase = "reply",
                   !.reply = [session |-> s, serial |-> serial],
                   !.result = "ok"]]
      BY <2>4
    <3> QED BY <2>2, <3>1
  <2> QED BY <2>1, <2>3, <2>4
<1>3. /\ flight' \in [Hosts -> [Flights -> Flight]]
      /\ flight'[h][f] = q
      /\ \A g \in Flights : g # f => flight'[h][g] = flight[h][g]
  BY <1>2, Update DEF TypeOK
<1>4. TypeOK'
  BY <1>1, <1>2, <1>3 DEF TypeOK
\* Whatever was dead or issued stays so.
<1>5. ASSUME NEW u, u.session \in 1..newest, u.serial \in Nat
      PROVE  /\ Dead(accepted, u) => Dead(accepted', u)
             /\ Issued(accepted, u) => Issued(accepted', u)
  <2>1. u.session \in Sessions
    BY <1>5, HostAuthAssumption DEF TypeOK, Sessions
  <2> QED BY <1>1, <1>2, <1>5, <2>1, HostAuthAssumption DEF Dead, Issued
<1>6. q.result = "ok" => Issued(accepted', q.reply) /\ accepted[s] # None /\ ~Dead(accepted, t)
  BY <1>1, <1>2, HostAuthAssumption DEF Issued, Dead, Token
<1>7. q.result = "invalid" => Dead(accepted, t)
  BY <1>1, <1>2, HostAuthAssumption DEF Dead, Issued, TypeOK
<1>8. \A g \in Flights :
         /\ Taken(h, g)' <=> Taken(h, g)
         /\ Live(h, g)' <=> Live(h, g)
         /\ flight'[h][g].gen = flight[h][g].gen
         /\ flight'[h][g].token = flight[h][g].token
  BY <1>1, <1>2, <1>3 DEF Taken, Live
<1>9. AttemptsOK' /\ OpenOK'
  BY <1>1, <1>8, AttemptsFrame
<1>10. FlightsOK'
  <2>1. SUFFICES ASSUME NEW g \in Flights, Taken(h, g)'
                 PROVE  LET o == flight'[h][g]
                        IN  /\ o.gen \leq gen[h]
                            /\ o.token \in Token
                            /\ o.token.session \in 1..newest
                            /\ Issued(accepted', o.token)
                            /\ o.phase = "sent" => o.result = "none"
                            /\ o.phase = "reply" => o.result \in {"ok", "invalid"}
                            /\ o.phase = "reply" /\ o.result = "ok" =>
                                  /\ o.reply \in Token
                                  /\ o.reply.session = o.token.session
                                  /\ Issued(accepted', o.reply)
                            /\ o.result = "invalid" => Dead(accepted', o.token)
                            /\ Live(h, g)' /\ o.gen = gen[h] => shared[h] = g
    BY <1>1 DEF FlightsOK
  <2>2. CASE g = f
    BY <1>1, <1>2, <1>3, <1>5, <1>6, <1>7, <2>2 DEF FlightsOK
  <2>3. CASE g # f
    BY <1>3, <1>5, <1>8, <2>1, <2>3 DEF FlightsOK, Token
  <2> QED BY <2>2, <2>3
<1>11. WaitersOK'
  BY <1>1, <1>8 DEF WaitersOK, TypeOK, Caller
<1>12. GenerationsOK'
  <2>1. SUFFICES ASSUME NEW x \in Flights, NEW y \in Flights, x # y,
                        Taken(h, x), Taken(h, y),
                        flight[h][x].gen = flight[h][y].gen
                 PROVE  /\ flight[h][x].token = flight[h][y].token
                        /\ ~(Live(h, x) /\ Live(h, y))
                        /\ Live(h, x) /\ flight'[h][x].result = "ok" =>
                              flight'[h][y].result # "invalid"
    BY <1>8 DEF GenerationsOK
  <2>2. /\ flight[h][x].token = flight[h][y].token
        /\ ~(Live(h, x) /\ Live(h, y))
        /\ Live(h, x) /\ flight[h][x].result = "ok" =>
              flight[h][y].result # "invalid"
    BY <2>1 DEF GenerationsOK
  <2>3. CASE x = f
    BY <1>1, <1>3, <1>6, <2>1, <2>2, <2>3 DEF FlightsOK
  <2>4. CASE x # f
    BY <1>1, <1>3, <2>1, <2>2, <2>4
  <2> QED BY <2>2, <2>3, <2>4
<1>13. CurrentOK'
  <2>1. SUFFICES ASSUME NEW g \in Flights, Taken(h, g), flight[h][g].gen = gen[h]
                 PROVE  /\ stored # None => TokenOf(stored) = flight[h][g].token
                        /\ stored = None => Dead(accepted', flight[h][g].token)
                        /\ flight'[h][g].result = "ok" => Live(h, g) /\ stored # None
    BY <1>1, <1>8 DEF CurrentOK
  <2>2. /\ stored # None => TokenOf(stored) = flight[h][g].token
        /\ stored = None => Dead(accepted, flight[h][g].token)
        /\ flight[h][g].result = "ok" => Live(h, g) /\ stored # None
    BY <2>1 DEF CurrentOK
  <2>3. flight[h][g].token.session \in 1..newest /\ flight[h][g].token.serial \in Nat
    BY <2>1 DEF FlightsOK, Token
  <2>4. CASE g = f
    BY <1>1, <1>3, <1>5, <1>6, <2>2, <2>3, <2>4
  <2>5. CASE g # f
    BY <1>3, <1>5, <2>2, <2>3, <2>5
  <2> QED BY <2>4, <2>5
<1>14. StoredOK'
  BY <1>1, <1>5 DEF StoredOK, TypeOK, Stored
<1>15. OrphansOK'
  BY <1>1, <1>8 DEF OrphansOK
<1> QED BY <1>4, <1>9, <1>10, <1>11, <1>12, <1>13, <1>14, <1>15
\* What is left of a step once the table of refreshes only loses entries or
\* ends refreshes, and the platform at most forgets their sessions.
FlightsSettle(h) ==
    \A g \in Flights : Taken(h, g)' =>
        /\ Taken(h, g)
        /\ flight'[h][g].gen = flight[h][g].gen
        /\ flight'[h][g].token = flight[h][g].token
        /\ \/ flight'[h][g] = flight[h][g]
           \/ /\ flight'[h][g].phase = "done"
              /\ flight'[h][g].result = "invalid" =>
                    flight[h][g].result = "invalid"

PlatformKeeps(h) ==
    \A g \in Flights : Taken(h, g) =>
        \A u \in Token : u.session = flight[h][g].token.session =>
            /\ Dead(accepted, u) => Dead(accepted', u)
            /\ Issued(accepted, u) => Issued(accepted', u)

LEMMA FlightsFrame ==
    ASSUME Inductive, NEW h \in Hosts, Hosts = {h}, TypeOK',
           gen[h] \leq gen'[h], newest \leq newest',
           FlightsSettle(h), PlatformKeeps(h),
           \A g \in Flights : Live(h, g)' /\ shared[h] = g => shared'[h] = g
    PROVE  FlightsOK' /\ GenerationsOK'
<1> USE DEF Inductive
<1>1. gen[h] \in Nat /\ gen'[h] \in Nat /\ newest \in Nat /\ newest' \in Nat
  BY HostAuthAssumption DEF TypeOK
<1>2. FlightsOK'
  <2>1. SUFFICES ASSUME NEW g \in Flights, Taken(h, g)'
                 PROVE  LET o == flight'[h][g]
                        IN  /\ o.gen \leq gen'[h]
                            /\ o.token \in Token
                            /\ o.token.session \in 1..newest'
                            /\ Issued(accepted', o.token)
                            /\ o.phase = "sent" => o.result = "none"
                            /\ o.phase = "reply" => o.result \in {"ok", "invalid"}
                            /\ o.phase = "reply" /\ o.result = "ok" =>
                                  /\ o.reply \in Token
                                  /\ o.reply.session = o.token.session
                                  /\ Issued(accepted', o.reply)
                            /\ o.result = "invalid" => Dead(accepted', o.token)
                            /\ Live(h, g)' /\ o.gen = gen'[h] => shared'[h] = g
    BY DEF FlightsOK
  <2>2. /\ Taken(h, g) /\ flight[h][g] \in Flight
        /\ flight'[h][g].gen = flight[h][g].gen
        /\ flight'[h][g].token = flight[h][g].token
    BY <2>1 DEF FlightsSettle, TypeOK
  <2>3. /\ flight[h][g].token \in Token /\ flight[h][g].gen \leq gen[h]
        /\ flight[h][g].token.session \in 1..newest
        /\ flight[h][g].gen \in Nat
    BY <2>2 DEF FlightsOK, Flight
  <2>4. /\ Issued(accepted', flight[h][g].token)
        /\ flight[h][g].result = "invalid" => Dead(accepted', flight[h][g].token)
    BY <2>2, <2>3 DEF FlightsOK, PlatformKeeps
  <2>5. flight[h][g].phase = "reply" /\ flight[h][g].result = "ok" =>
            /\ flight[h][g].reply \in Token
            /\ flight[h][g].reply.session = flight[h][g].token.session
            /\ Issued(accepted', flight[h][g].reply)
    BY <2>2, <2>3 DEF FlightsOK, PlatformKeeps
  <2>6. flight[h][g].gen \leq gen'[h] /\ flight[h][g].token.session \in 1..newest'
    BY <1>1, <2>3
  <2>7. CASE flight'[h][g] = flight[h][g]
    <3>1. Live(h, g)' /\ flight[h][g].gen = gen'[h] => shared'[h] = g
      <4>1. SUFFICES ASSUME Live(h, g)', flight[h][g].gen = gen'[h]
                     PROVE  shared'[h] = g
        OBVIOUS
      <4>2. Live(h, g) /\ flight[h][g].gen = gen[h]
        BY <1>1, <2>3, <2>7, <4>1 DEF Live
      <4> QED BY <2>2, <4>1, <4>2 DEF FlightsOK
    <3>2. /\ flight[h][g].phase = "sent" => flight[h][g].result = "none"
          /\ flight[h][g].phase = "reply" => flight[h][g].result \in {"ok", "invalid"}
      BY <2>2 DEF FlightsOK
    <3> QED BY <2>3, <2>4, <2>5, <2>6, <2>7, <3>1, <3>2
  <2>8. CASE /\ flight'[h][g].phase = "done"
             /\ flight'[h][g].result = "invalid" => flight[h][g].result = "invalid"
    BY <2>2, <2>3, <2>4, <2>6, <2>8 DEF Live
  <2> QED BY <2>1, <2>7, <2>8 DEF FlightsSettle
<1>3. GenerationsOK'
  <2>1. SUFFICES ASSUME NEW x \in Flights, NEW y \in Flights, x # y,
                        Taken(h, x)', Taken(h, y)',
                        flight'[h][x].gen = flight'[h][y].gen
                 PROVE  /\ flight'[h][x].token = flight'[h][y].token
                        /\ ~(Live(h, x)' /\ Live(h, y)')
                        /\ Live(h, x)' /\ flight'[h][x].result = "ok" =>
                              flight'[h][y].result # "invalid"
    BY DEF GenerationsOK
  <2>2. /\ flight[h][x].token = flight[h][y].token
        /\ ~(Live(h, x) /\ Live(h, y))
        /\ Live(h, x) /\ flight[h][x].result = "ok" =>
              flight[h][y].result # "invalid"
    BY <2>1 DEF GenerationsOK, FlightsSettle
  <2>3. \A g \in {x, y} : Live(h, g)' => Live(h, g) /\ flight'[h][g] = flight[h][g]
    BY <2>1 DEF FlightsSettle, Live
  <2>4. flight'[h][y].result = "invalid" => flight[h][y].result = "invalid"
    BY <2>1 DEF FlightsSettle
  <2>5. /\ flight'[h][x].token = flight[h][x].token
        /\ flight'[h][y].token = flight[h][y].token
    BY <2>1 DEF FlightsSettle
  <2> QED BY <2>2, <2>3, <2>4, <2>5
<1> QED BY <1>2, <1>3

\* Requests may leave their refresh, and a refresh nobody waits for may go.
LEMMA WaitersFrame ==
    ASSUME Inductive, NEW h \in Hosts, Hosts = {h}, FlightsSettle(h),
           shared'[h] \in {shared[h], None},
           \A c \in Callers : caller'[h][c] \in {caller[h][c], NoCaller},
           shared'[h] # None => Taken(h, shared'[h]),
           \A g \in Flights : Taken(h, g) =>
               \/ Taken(h, g)'
               \/ /\ shared'[h] # g
                  /\ \A c \in Callers : caller'[h][c].on # g
    PROVE  WaitersOK'
<1> USE DEF Inductive
<1>1. shared'[h] # None => flight'[h][shared'[h]].phase # "none"
  BY HostAuthAssumption DEF WaitersOK, TypeOK, Taken
<1>2. ASSUME NEW c \in Callers, caller'[h][c].on # None
      PROVE  /\ flight'[h][caller'[h][c].on].phase # "none"
             /\ flight'[h][caller'[h][c].on].gen = caller'[h][c].gen
  <2>1. caller'[h][c] = caller[h][c]
    BY <1>2 DEF NoCaller
  <2>2. PICK g \in Flights : /\ g = caller[h][c].on /\ Taken(h, g)
                             /\ flight[h][g].gen = caller[h][c].gen
    BY <1>2, <2>1 DEF WaitersOK, TypeOK, Caller
  <2>3. Taken(h, g)'
    BY <2>1, <2>2
  <2> QED BY <2>1, <2>2, <2>3 DEF FlightsSettle, Taken
<1> QED BY <1>1, <1>2 DEF WaitersOK, Taken
\* The generation stays; the keyring may be emptied only when the platform
\* refuses the tokens of this generation.
KeyringSettles(h) ==
    \/ stored' = stored
    \/ /\ stored # None /\ stored' # None
       /\ TokenOf(stored') = TokenOf(stored)
    \/ /\ stored' = None
       /\ \A g \in Flights :
             Taken(h, g)' /\ flight[h][g].gen = gen[h] =>
                /\ Dead(accepted, flight[h][g].token)
                /\ flight'[h][g].result # "ok"

LEMMA KeyringFrame ==
    ASSUME Inductive, NEW h \in Hosts, Hosts = {h}, TypeOK',
           gen' = gen, newest \leq newest',
           FlightsSettle(h), PlatformKeeps(h), KeyringSettles(h),
           stored # None /\ Issued(accepted, stored) => Issued(accepted', stored),
           \A g \in Flights : Taken(h, g)' =>
               flight'[h][g] = flight[h][g] \/ flight'[h][g].result # "ok"
    PROVE  CurrentOK' /\ StoredOK' /\ OrphansOK'
<1> USE DEF Inductive
<1>1. stored' # None => /\ stored # None /\ stored'.session = stored.session
                        /\ stored'.serial = stored.serial
                        /\ TokenOf(stored') = TokenOf(stored)
  BY DEF KeyringSettles, TokenOf
<1>2. newest \in Nat /\ newest' \in Nat
  BY HostAuthAssumption DEF TypeOK
<1>3. CurrentOK'
  <2>1. SUFFICES ASSUME NEW g \in Flights, Taken(h, g)', flight'[h][g].gen = gen[h]
                 PROVE  /\ stored' # None => TokenOf(stored') = flight'[h][g].token
                        /\ stored' = None => Dead(accepted', flight'[h][g].token)
                        /\ flight'[h][g].result = "ok" => Live(h, g)' /\ stored' # None
    BY DEF CurrentOK
  <2>2. /\ Taken(h, g) /\ flight[h][g].gen = gen[h]
        /\ flight'[h][g].token = flight[h][g].token
        /\ flight[h][g].token \in Token
        /\ Dead(accepted, flight[h][g].token) => Dead(accepted', flight[h][g].token)
    BY <2>1 DEF FlightsSettle, FlightsOK, PlatformKeeps
  <2>3. /\ stored # None => TokenOf(stored) = flight[h][g].token
        /\ stored = None => Dead(accepted, flight[h][g].token)
        /\ flight[h][g].result = "ok" => Live(h, g) /\ stored # None
    BY <2>2 DEF CurrentOK
  <2>4. stored' = None => Dead(accepted', flight'[h][g].token)
    BY <2>1, <2>2, <2>3 DEF KeyringSettles
  <2>5. flight'[h][g].result = "ok" => Live(h, g)' /\ stored' # None
    BY <2>1, <2>2, <2>3 DEF KeyringSettles, Live
  <2> QED BY <1>1, <2>2, <2>3, <2>4, <2>5
<1>4. StoredOK'
  BY <1>1, <1>2 DEF StoredOK, Issued
<1>5. OrphansOK'
  <2>1. \A g \in Flights : Live(h, g)' =>
           /\ Live(h, g) /\ flight'[h][g].gen = flight[h][g].gen
           /\ flight'[h][g].token = flight[h][g].token
    BY DEF FlightsSettle, Live, Taken
  <2> QED BY <1>1, <2>1 DEF OrphansOK
<1> QED BY <1>3, <1>4, <1>5

\* With a new generation, no refresh may store its tokens any more.
LEMMA NewGeneration ==
    ASSUME Inductive, NEW h \in Hosts, Hosts = {h}, TypeOK',
           gen'[h] = gen[h] + 1, FlightsSettle(h),
           \A g \in Flights : Live(h, g)' /\ stored' # None =>
               stored'.session # flight[h][g].token.session
    PROVE  CurrentOK' /\ OrphansOK'
<1> USE DEF Inductive
<1>1. \A g \in Flights : Taken(h, g)' => flight'[h][g].gen # gen'[h]
  <2>1. SUFFICES ASSUME NEW g \in Flights, Taken(h, g)'
                 PROVE  flight'[h][g].gen # gen[h] + 1
    OBVIOUS
  <2>2. /\ flight'[h][g].gen = flight[h][g].gen /\ flight[h][g].gen \leq gen[h]
        /\ flight[h][g].gen \in Nat /\ gen[h] \in Nat
    BY <2>1 DEF FlightsSettle, FlightsOK, TypeOK, Flight
  <2> QED BY <2>2
<1>2. CurrentOK'
  BY <1>1 DEF CurrentOK
<1>3. OrphansOK'
  <2>1. \A g \in Flights : Live(h, g)' =>
           /\ Live(h, g)
           /\ flight'[h][g].token = flight[h][g].token
    BY DEF FlightsSettle, Live, Taken
  <2> QED BY <2>1 DEF OrphansOK
<1> QED BY <1>2, <1>3

LEMMA FramesHold ==
    ASSUME Inductive, NEW h \in Hosts
    PROVE  /\ flight' = flight => FlightsSettle(h)
           /\ accepted' = accepted => PlatformKeeps(h)
BY DEF FlightsSettle, PlatformKeeps, Taken

\* The entry of one refresh is replaced.
LEMMA OneSettles ==
    ASSUME Inductive, NEW h \in Hosts, NEW f \in Flights, NEW q \in Flight,
           flight' = [flight EXCEPT ![h][f] = q],
           q.phase # "none" =>
               /\ Taken(h, f) /\ q.phase = "done"
               /\ q.gen = flight[h][f].gen /\ q.token = flight[h][f].token
               /\ q.result = "invalid" => flight[h][f].result = "invalid"
    PROVE  /\ flight' \in [Hosts -> [Flights -> Flight]]
           /\ flight'[h][f] = q
           /\ \A g \in Flights : g # f => flight'[h][g] = flight[h][g]
           /\ FlightsSettle(h)
<1>1. /\ flight' \in [Hosts -> [Flights -> Flight]]
      /\ flight'[h][f] = q
      /\ \A g \in Flights : g # f => flight'[h][g] = flight[h][g]
  BY Update DEF Inductive, TypeOK
<1> QED BY <1>1 DEF FlightsSettle, Taken
\* A refresh ends and stores nothing.
LEMMA DoneInductive ==
    ASSUME Inductive, NEW h \in Hosts, Hosts = {h}, NEW f \in Flights,
           Taken(h, f), NEW result \in Result \ {"ok"}, Done(h, f, result),
           result = "invalid" => flight[h][f].result = "invalid",
           UNCHANGED <<gen, shared, caller, attempt, stored, accepted, newest,
                       expiries, signouts>>
    PROVE  Inductive'
<1> USE DEF Inductive
<1> DEFINE q == [flight[h][f] EXCEPT !.phase = "done", !.result = result]
<1>1. /\ q \in Flight /\ q.phase = "done" /\ q.result = result
      /\ q.gen = flight[h][f].gen /\ q.token = flight[h][f].token
      /\ flight' = [flight EXCEPT ![h][f] = q]
  <2>1. flight[h][f] \in Flight /\ flight \in [Hosts -> [Flights -> Flight]]
    BY DEF TypeOK
  <2>2. q \in Flight
    BY <2>1, FlightRecords DEF Flight
  <2>3. flight' = [flight EXCEPT ![h][f] = q]
    BY <2>1 DEF Done
  <2> QED BY <2>1, <2>2, <2>3 DEF Flight
<1> HIDE DEF q
<1>2. /\ flight' \in [Hosts -> [Flights -> Flight]]
      /\ flight'[h][f] = q
      /\ \A g \in Flights : g # f => flight'[h][g] = flight[h][g]
      /\ FlightsSettle(h) /\ PlatformKeeps(h)
  BY <1>1, OneSettles, FramesHold
<1>3. TypeOK'
  BY <1>2 DEF TypeOK
<1>4. gen[h] \in Nat /\ newest \in Nat
  BY HostAuthAssumption DEF TypeOK
<1>5. AttemptsOK' /\ OpenOK'
  BY <1>2, AttemptsFrame DEF FlightsSettle
<1>6. FlightsOK' /\ GenerationsOK'
  BY <1>2, <1>3, <1>4, FlightsFrame
<1>7. \A g \in Flights : Taken(h, g) => Taken(h, g)'
  BY <1>1, <1>2 DEF Taken
<1>8. WaitersOK'
  BY <1>2, <1>7, WaitersFrame DEF WaitersOK
<1>9. CurrentOK' /\ StoredOK' /\ OrphansOK'
  BY <1>1, <1>2, <1>3, <1>4, KeyringFrame DEF KeyringSettles
<1> QED BY <1>3, <1>5, <1>6, <1>8, <1>9

LEMMA FailsInductive ==
    ASSUME Inductive, NEW h \in Hosts, Hosts = {h}, NEW f \in Flights,
           FlightFails(h, f)
    PROVE  Inductive'
BY DoneInductive DEF FlightFails, Taken, Result

\* The refresh succeeds: it advances the generation and stores its tokens.
LEMMA StoresInductive ==
    ASSUME Inductive, NEW h \in Hosts, Hosts = {h}, NEW f \in Flights,
           flight[h][f].phase = "reply", flight[h][f].result = "ok",
           flight[h][f].gen = gen[h],
           gen' = [gen EXCEPT ![h] = @ + 1],
           stored' = Fresh(flight[h][f].reply), Done(h, f, "ok"),
           UNCHANGED <<shared, caller, attempt, accepted, newest, expiries,
                       signouts>>
    PROVE  Inductive'
<1> USE DEF Inductive
<1> DEFINE q == [flight[h][f] EXCEPT !.phase = "done", !.result = "ok"]
           t == flight[h][f].token
           u == flight[h][f].reply
<1>1. /\ q \in Flight /\ q.phase = "done" /\ q.result = "ok"
      /\ q.gen = flight[h][f].gen /\ q.token = flight[h][f].token
      /\ flight' = [flight EXCEPT ![h][f] = q]
  <2>1. flight[h][f] \in Flight /\ flight \in [Hosts -> [Flights -> Flight]]
    BY DEF TypeOK
  <2>2. q \in Flight
    <3>1. "ok" \in Result
      BY DEF Result
    <3> QED BY <2>1, <3>1 DEF Flight
  <2>3. flight' = [flight EXCEPT ![h][f] = q]
    BY <2>1 DEF Done
  <2> QED BY <2>1, <2>2, <2>3 DEF Flight
<1> HIDE DEF q
<1>2. Taken(h, f) /\ Live(h, f)
  BY DEF Taken, Live
<1>3. /\ flight' \in [Hosts -> [Flights -> Flight]]
      /\ flight'[h][f] = q
      /\ \A g \in Flights : g # f => flight'[h][g] = flight[h][g]
      /\ FlightsSettle(h) /\ PlatformKeeps(h)
  BY <1>1, <1>2, OneSettles, FramesHold
<1>4. /\ gen[h] \in Nat /\ newest \in Nat
      /\ gen' \in [Hosts -> Nat] /\ gen'[h] = gen[h] + 1
  BY HostAuthAssumption DEF TypeOK
<1>5. /\ u \in Token /\ u.session = t.session /\ Issued(accepted, u)
      /\ t.session \in 1..newest
  BY <1>2 DEF FlightsOK
<1>6. /\ stored' \in Stored /\ stored' # None /\ stored'.session = t.session
      /\ stored'.serial = u.serial
  BY <1>5, Records, HostAuthAssumption DEF Fresh, Stored
<1>7. TypeOK'
  BY <1>3, <1>4, <1>6 DEF TypeOK
<1>8. FlightsOK' /\ GenerationsOK'
  BY <1>3, <1>4, <1>7, FlightsFrame
<1>9. \A g \in Flights : Taken(h, g) <=> Taken(h, g)'
  BY <1>1, <1>2, <1>3 DEF Taken
<1>10. WaitersOK'
  BY <1>3, <1>9, WaitersFrame DEF WaitersOK
<1>11. stored # None /\ TokenOf(stored) = t
  BY <1>2 DEF CurrentOK
<1>12. stored.session = t.session
  BY <1>11 DEF TokenOf
<1>13. ASSUME NEW g \in Flights, Live(h, g)'
       PROVE  flight[h][g].token.session # t.session
  <2>1. g # f /\ Live(h, g)
    BY <1>1, <1>3, <1>13 DEF Live
  <2> QED BY <1>2, <2>1 DEF OrphansOK
<1>14. CurrentOK' /\ OrphansOK'
  BY <1>3, <1>4, <1>6, <1>7, <1>13, NewGeneration
<1>15. StoredOK'
  BY <1>5, <1>6 DEF StoredOK, Issued
<1>16. AttemptsOK'
  <2>1. SUFFICES ASSUME NEW i \in Attempts, attempt[h][i].phase # "none"
                 PROVE  /\ attempt[h][i].gen \leq gen'[h]
                        /\ attempt[h][i].session \in 1..newest
                        /\ stored'.session # attempt[h][i].session
                        /\ \A g \in Flights : Taken(h, g)' =>
                              flight'[h][g].token.session # attempt[h][i].session
                        /\ \A j \in Attempts : i # j /\ attempt[h][j].phase # "none" =>
                              /\ attempt[h][i].session # attempt[h][j].session
                              /\ attempt[h][i].gen # attempt[h][j].gen
    BY DEF AttemptsOK
  <2>2. attempt[h][i].gen \in Nat /\ attempt[h][i].gen \leq gen[h]
    BY <2>1 DEF AttemptsOK, TypeOK, Attempt
  <2>3. \A g \in Flights : Taken(h, g)' =>
            flight'[h][g].token.session # attempt[h][i].session
    BY <1>3, <2>1 DEF AttemptsOK, FlightsSettle
  <2> QED BY <1>2, <1>4, <1>6, <2>1, <2>2, <2>3 DEF AttemptsOK
<1>17. OpenOK'
  <2>1. \A i \in Attempts : ~OpenAttempt(h, i)'
    <3>1. SUFFICES ASSUME NEW i \in Attempts, attempt[h][i].phase # "none"
                   PROVE  attempt[h][i].gen # gen'[h]
      BY DEF OpenAttempt, MayStore
    <3>2. attempt[h][i].gen \in Nat /\ attempt[h][i].gen \leq gen[h]
      BY <3>1 DEF AttemptsOK, TypeOK, Attempt
    <3> QED BY <1>4, <3>2
  <2> QED BY <2>1 DEF OpenOK
<1> QED BY <1>7, <1>8, <1>10, <1>14, <1>15, <1>16, <1>17

LEMMA EndsInductive ==
    ASSUME Inductive, NEW h \in Hosts, Hosts = {h}, NEW f \in Flights,
           FlightEnds(h, f)
    PROVE  Inductive'
<1>1. /\ flight[h][f].phase = "reply" /\ Taken(h, f)
      /\ UNCHANGED <<shared, caller, attempt, accepted, newest, expiries,
                     signouts>>
  BY DEF FlightEnds, Taken
<1>2. CASE /\ flight[h][f].result = "ok"
           /\ MayStore(h, flight[h][f].gen)
           /\ gen' = [gen EXCEPT ![h] = @ + 1]
           /\ stored' = Fresh(flight[h][f].reply)
           /\ Done(h, f, "ok")
  BY <1>1, <1>2, StoresInductive DEF MayStore
<1>3. CASE Done(h, f, "superseded") /\ UNCHANGED <<gen, stored>>
  BY <1>1, <1>3, DoneInductive DEF Result
<1>4. CASE /\ flight[h][f].result = "invalid" /\ Done(h, f, "invalid")
           /\ UNCHANGED <<gen, stored>>
  BY <1>1, <1>4, DoneInductive DEF Result
<1> QED BY <1>2, <1>3, <1>4 DEF FlightEnds
\* A request leaves a refresh that is over.
LEMMA LeaveInductive ==
    ASSUME Inductive, NEW h \in Hosts, Hosts = {h}, NEW c \in Callers,
           NEW f \in Flights, caller[h][c].on = f,
           NEW q \in Flight, q.phase = "done",
           \/ q = flight[h][f]
           \/ /\ q.gen = flight[h][f].gen /\ q.token = flight[h][f].token
              /\ q.result = "cancelled",
           Leave(h, c, f, [flight EXCEPT ![h][f] = q]),
           \/ stored' = stored
           \/ /\ stored' = None
              /\ flight[h][f].result = "invalid"
              /\ flight[h][f].gen = gen[h],
           UNCHANGED <<gen, attempt, accepted, newest, expiries, signouts>>
    PROVE  Inductive'
<1> USE DEF Inductive
<1>1. Taken(h, f) /\ f # None
  BY HostAuthAssumption DEF WaitersOK
<1>2. /\ NoFlight \in Flight /\ NoFlight.phase = "none"
      /\ NoCaller \in Caller /\ NoCaller.on = None
  BY Records DEF NoFlight, NoCaller
<1>3. /\ caller' \in [Hosts -> [Callers -> Caller]]
      /\ caller'[h][c] = NoCaller
      /\ \A d \in Callers : d # c => caller'[h][d] = caller[h][d]
  <2>1. caller' = [caller EXCEPT ![h][c] = NoCaller]
    BY DEF Leave
  <2>2. caller \in [Hosts -> [Callers -> Caller]]
    BY DEF TypeOK
  <2> QED BY <1>2, <2>1, <2>2, Update
<1>4. /\ shared' \in [Hosts -> Flights \cup {None}]
      /\ shared'[h] = IF shared[h] = f THEN None ELSE shared[h]
  BY DEF Leave, TypeOK
<1>5. PICK w \in Flight :
         /\ flight' = [flight EXCEPT ![h][f] = w]
         /\ w = q \/ (w = NoFlight /\ Waiting(h, f) = {c})
  <2>1. flight \in [Hosts -> [Flights -> Flight]]
    BY DEF TypeOK
  <2>2. [[flight EXCEPT ![h][f] = q] EXCEPT ![h][f] = NoFlight]
          = [flight EXCEPT ![h][f] = NoFlight]
    BY <2>1
  <2>3. ASSUME Waiting(h, f) = {c}
        PROVE  flight' = [flight EXCEPT ![h][f] = NoFlight]
    BY <2>2, <2>3 DEF Leave
  <2>4. ASSUME Waiting(h, f) # {c}
        PROVE  flight' = [flight EXCEPT ![h][f] = q]
    BY <2>4 DEF Leave
  <2>5. CASE Waiting(h, f) = {c}
    BY <1>2, <2>3, <2>5
  <2>6. CASE Waiting(h, f) # {c}
    BY <2>4, <2>6
  <2> QED BY <2>5, <2>6
<1>6. /\ flight' \in [Hosts -> [Flights -> Flight]]
      /\ flight'[h][f] = w
      /\ \A g \in Flights : g # f => flight'[h][g] = flight[h][g]
      /\ FlightsSettle(h) /\ PlatformKeeps(h)
  <2>1. w.phase # "none" =>
            /\ Taken(h, f) /\ w.phase = "done"
            /\ w.gen = flight[h][f].gen /\ w.token = flight[h][f].token
            /\ w.result = "invalid" => flight[h][f].result = "invalid"
    BY <1>1, <1>2, <1>5
  <2> QED BY <1>5, <2>1, OneSettles, FramesHold
<1>7. stored' \in Stored \cup {None}
  BY DEF TypeOK
<1>8. TypeOK'
  BY <1>3, <1>4, <1>6, <1>7 DEF TypeOK
<1>9. gen[h] \in Nat /\ newest \in Nat
  BY HostAuthAssumption DEF TypeOK
<1>10. AttemptsOK' /\ OpenOK'
  BY <1>6, AttemptsFrame DEF FlightsSettle
<1>11. \A g \in Flights : Live(h, g)' => g # f
  BY <1>2, <1>5, <1>6 DEF Live
<1>12. FlightsOK' /\ GenerationsOK'
  BY <1>4, <1>6, <1>8, <1>9, <1>11, FlightsFrame
<1>13. WaitersOK'
  <2>1. ASSUME NEW g \in Flights, Taken(h, g)
        PROVE  \/ Taken(h, g)'
               \/ /\ shared'[h] # g
                  /\ \A d \in Callers : caller'[h][d].on # g
    <3>1. CASE g # f
      BY <1>6, <2>1, <3>1 DEF Taken
    <3>2. CASE g = f /\ w = q
      BY <1>6, <3>2 DEF Taken
    <3>3. CASE g = f /\ Waiting(h, f) = {c}
      BY <1>1, <1>2, <1>3, <1>4, <3>3 DEF Waiting
    <3> QED BY <1>5, <3>1, <3>2, <3>3
  <2>2. \A d \in Callers : caller'[h][d] \in {caller[h][d], NoCaller}
    BY <1>3
  <2>3. shared'[h] # None => Taken(h, shared'[h])
    BY <1>4 DEF WaitersOK
  <2> QED BY <1>4, <1>6, <2>1, <2>2, <2>3, WaitersFrame
<1>14. KeyringSettles(h)
  <2>1. SUFFICES ASSUME stored' = None, flight[h][f].result = "invalid",
                        flight[h][f].gen = gen[h],
                        NEW g \in Flights, Taken(h, g)', flight[h][g].gen = gen[h]
                 PROVE  /\ Dead(accepted, flight[h][g].token)
                        /\ flight'[h][g].result # "ok"
    BY DEF KeyringSettles
  <2>2. Dead(accepted, flight[h][f].token)
    BY <1>1, <2>1 DEF FlightsOK
  <2>3. CASE g = f
    <3>1. w = q
      BY <1>2, <1>5, <1>6, <2>1, <2>3 DEF Taken
    <3> QED BY <1>6, <2>1, <2>2, <2>3, <3>1
  <2>4. CASE g # f
    <3>1. Taken(h, g) /\ flight'[h][g] = flight[h][g]
      BY <1>6, <2>1, <2>4 DEF Taken
    <3>2. /\ flight[h][g].token = flight[h][f].token
          /\ Live(h, g) /\ flight[h][g].result = "ok" =>
                flight[h][f].result # "invalid"
      BY <1>1, <2>1, <2>4, <3>1 DEF GenerationsOK
    <3>3. flight[h][g].result = "ok" => Live(h, g)
      BY <2>1, <3>1 DEF CurrentOK
    <3> QED BY <2>1, <2>2, <3>1, <3>2, <3>3
  <2> QED BY <2>3, <2>4
<1>15. \A g \in Flights : Taken(h, g)' =>
           flight'[h][g] = flight[h][g] \/ flight'[h][g].result # "ok"
  BY <1>2, <1>5, <1>6 DEF Taken
<1>16. CurrentOK' /\ StoredOK' /\ OrphansOK'
  BY <1>6, <1>8, <1>9, <1>14, <1>15, KeyringFrame
<1> QED BY <1>8, <1>10, <1>12, <1>13, <1>16

LEMMA ResumesInductive ==
    ASSUME Inductive, NEW h \in Hosts, Hosts = {h}, NEW c \in Callers,
           CallerResumes(h, c)
    PROVE  Inductive'
<1>1. PICK f \in Flights :
         /\ caller[h][c].on = f
         /\ flight[h][f].phase = "done"
         /\ Leave(h, c, f, flight)
         /\ stored' = IF /\ flight[h][f].result = "invalid"
                         /\ MayStore(h, caller[h][c].gen)
                      THEN None ELSE stored
         /\ UNCHANGED <<gen, attempt, accepted, newest, expiries, signouts>>
  BY DEF CallerResumes, Inductive, TypeOK, Caller
<1>2. flight[h][f].gen = caller[h][c].gen
  BY <1>1, HostAuthAssumption DEF Inductive, WaitersOK
<1>3. flight[h][f] \in Flight /\ [flight EXCEPT ![h][f] = flight[h][f]] = flight
  BY DEF Inductive, TypeOK
<1>4. \/ stored' = stored
      \/ /\ stored' = None
         /\ flight[h][f].result = "invalid"
         /\ flight[h][f].gen = gen[h]
  BY <1>1, <1>2 DEF MayStore
<1> QED BY <1>1, <1>3, <1>4, LeaveInductive

LEMMA CancelledInductive ==
    ASSUME Inductive, NEW h \in Hosts, Hosts = {h}, NEW c \in Callers,
           CallerCancelled(h, c)
    PROVE  Inductive'
<1>1. PICK f \in Flights :
         /\ caller[h][c].on = f
         /\ Leave(h, c, f, IF flight[h][f].phase = "done" THEN flight
                           ELSE [flight EXCEPT ![h][f] = [@ EXCEPT
                                    !.phase = "done",
                                    !.result = "cancelled"]])
         /\ UNCHANGED <<gen, attempt, stored, accepted, newest, expiries,
                        signouts>>
  <2>1. caller[h][c].on \in Flights
    BY DEF CallerCancelled, Inductive, TypeOK, Caller
  <2> QED BY <2>1 DEF CallerCancelled
<1>2. flight[h][f] \in Flight /\ flight \in [Hosts -> [Flights -> Flight]]
  BY DEF Inductive, TypeOK
<1>3. CASE flight[h][f].phase = "done"
  <2>1. [flight EXCEPT ![h][f] = flight[h][f]] = flight
    BY <1>2
  <2> QED BY <1>1, <1>2, <1>3, <2>1, LeaveInductive
<1>4. CASE flight[h][f].phase # "done"
  <2> DEFINE q == [flight[h][f] EXCEPT !.phase = "done", !.result = "cancelled"]
  <2>1. q \in Flight
    <3>1. "cancelled" \in Result
      BY DEF Result
    <3> QED BY <1>2, <3>1 DEF Flight
  <2>2. /\ q.phase = "done" /\ q.gen = flight[h][f].gen
        /\ q.token = flight[h][f].token /\ q.result = "cancelled"
    BY <1>2 DEF Flight
  <2>3. Leave(h, c, f, [flight EXCEPT ![h][f] = q])
    BY <1>1, <1>2, <1>4
  <2> HIDE DEF q
  <2> QED BY <1>1, <2>1, <2>2, <2>3, LeaveInductive
<1> QED BY <1>3, <1>4
LEMMA WaitersUnchanged ==
    ASSUME Inductive, UNCHANGED <<flight, shared, caller>>
    PROVE  WaitersOK'
BY DEF Inductive, WaitersOK, Taken

LEMMA SignOutInductive ==
    ASSUME Inductive, NEW h \in Hosts, Hosts = {h}, SignOut(h)
    PROVE  Inductive'
<1> USE DEF Inductive
<1>1. /\ gen' = [gen EXCEPT ![h] = @ + 1] /\ stored' = None
      /\ signouts < MaxSignOuts /\ signouts' = signouts + 1
      /\ UNCHANGED <<flight, shared, caller, attempt, accepted, newest, expiries>>
  BY DEF SignOut
<1>2. /\ gen[h] \in Nat /\ newest \in Nat
      /\ gen' \in [Hosts -> Nat] /\ gen'[h] = gen[h] + 1
  BY <1>1, HostAuthAssumption DEF TypeOK
<1>3. TypeOK'
  BY <1>1, <1>2, HostAuthAssumption DEF TypeOK
<1>4. FlightsSettle(h) /\ PlatformKeeps(h)
  BY <1>1, FramesHold
<1>5. FlightsOK' /\ GenerationsOK'
  BY <1>1, <1>2, <1>3, <1>4, FlightsFrame
<1>6. WaitersOK'
  BY <1>1, WaitersUnchanged
<1>7. CurrentOK' /\ OrphansOK'
  BY <1>1, <1>2, <1>3, <1>4, NewGeneration
<1>8. StoredOK'
  BY <1>1 DEF StoredOK
<1>9. \A i \in Attempts : attempt[h][i].phase # "none" =>
         attempt[h][i].gen \leq gen'[h] /\ attempt[h][i].gen # gen'[h]
  <2>1. ASSUME NEW i \in Attempts, attempt[h][i].phase # "none"
        PROVE  attempt[h][i].gen \in Nat /\ attempt[h][i].gen \leq gen[h]
    BY <2>1 DEF AttemptsOK, TypeOK, Attempt
  <2> QED BY <1>2, <2>1
<1>10. AttemptsOK'
  BY <1>1, <1>9 DEF AttemptsOK, Taken
<1>11. OpenOK'
  BY <1>1, <1>9 DEF OpenOK, OpenAttempt, MayStore
<1> QED BY <1>3, <1>5, <1>6, <1>7, <1>8, <1>10, <1>11

LEMMA BeginSignInInductive ==
    ASSUME Inductive, NEW h \in Hosts, Hosts = {h}, NEW i \in Attempts,
           BeginSignIn(h, i)
    PROVE  Inductive'
<1> USE DEF Inductive
<1> DEFINE a == [phase |-> "discover", gen |-> gen[h] + 1, session |-> newest + 1]
<1>1. /\ stored = None /\ attempt[h][i].phase = "none" /\ newest < MaxSessions
      /\ newest' = newest + 1 /\ gen' = [gen EXCEPT ![h] = @ + 1]
      /\ attempt' = [attempt EXCEPT ![h][i] = a]
      /\ UNCHANGED <<flight, shared, caller, stored, accepted, expiries, signouts>>
  BY DEF BeginSignIn
<1>2. /\ gen[h] \in Nat /\ newest \in Nat /\ newest' \in 0..MaxSessions
      /\ gen' \in [Hosts -> Nat] /\ gen'[h] = gen[h] + 1
  BY <1>1, HostAuthAssumption DEF TypeOK
<1>3. /\ attempt' \in [Hosts -> [Attempts -> Attempt]]
      /\ attempt'[h][i] = a
      /\ \A j \in Attempts : j # i => attempt'[h][j] = attempt[h][j]
  <2>1. a \in Attempt /\ attempt \in [Hosts -> [Attempts -> Attempt]]
    BY <1>2 DEF Attempt, TypeOK
  <2> QED BY <1>1, <2>1, Update
<1>4. TypeOK'
  BY <1>1, <1>2, <1>3 DEF TypeOK
<1>5. FlightsSettle(h) /\ PlatformKeeps(h)
  BY <1>1, FramesHold
<1>6. FlightsOK' /\ GenerationsOK'
  BY <1>1, <1>2, <1>4, <1>5, FlightsFrame
<1>7. WaitersOK'
  BY <1>1, WaitersUnchanged
<1>8. CurrentOK' /\ OrphansOK'
  BY <1>1, <1>2, <1>4, <1>5, NewGeneration
<1>9. StoredOK'
  BY <1>1 DEF StoredOK
<1>10. ASSUME NEW j \in Attempts, j # i, attempt[h][j].phase # "none"
       PROVE  /\ attempt[h][j].gen \leq gen[h] /\ attempt[h][j].gen \in Nat
              /\ attempt[h][j].session \in 1..newest
  BY <1>10 DEF AttemptsOK, TypeOK, Attempt
<1>11. ASSUME NEW f \in Flights, Taken(h, f)
       PROVE  /\ flight[h][f].gen \leq gen[h] /\ flight[h][f].gen \in Nat
              /\ flight[h][f].token.session \in 1..newest
  BY <1>11 DEF FlightsOK, TypeOK, Flight
<1>12. a.gen = gen[h] + 1 /\ a.session = newest + 1 /\ a.phase = "discover"
  OBVIOUS
<1> HIDE DEF a
<1>13. AttemptsOK'
  <2>1. SUFFICES ASSUME NEW j \in Attempts, attempt'[h][j].phase # "none"
                 PROVE  /\ attempt'[h][j].gen \leq gen'[h]
                        /\ attempt'[h][j].session \in 1..newest'
                        /\ \A g \in Flights : Taken(h, g) =>
                              flight[h][g].token.session # attempt'[h][j].session
                        /\ \A k \in Attempts : j # k /\ attempt'[h][k].phase # "none" =>
                              /\ attempt'[h][j].session # attempt'[h][k].session
                              /\ attempt'[h][j].gen # attempt'[h][k].gen
    BY <1>1 DEF AttemptsOK, Taken
  <2>2. CASE j = i
    BY <1>1, <1>2, <1>3, <1>10, <1>11, <1>12, <2>2
  <2>3. CASE j # i
    <3>1. attempt'[h][j] = attempt[h][j] /\ attempt[h][j].phase # "none"
      BY <1>3, <2>1, <2>3
    <3>2. /\ attempt[h][j].gen \leq gen'[h] /\ attempt[h][j].session \in 1..newest'
          /\ attempt[h][j].gen # a.gen /\ attempt[h][j].session # a.session
      BY <1>1, <1>2, <1>10, <1>12, <2>3, <3>1
    <3> QED BY <1>3, <3>1, <3>2 DEF AttemptsOK
  <2> QED BY <2>2, <2>3
<1>14. OpenOK'
  <2>1. SUFFICES ASSUME NEW j \in Attempts, attempt'[h][j].phase # "none",
                        attempt'[h][j].gen = gen'[h]
                 PROVE  /\ attempt'[h][j].session = newest'
                        /\ \A f \in Flights : Taken(h, f) =>
                              flight[h][f].gen # gen'[h]
    BY <1>1 DEF OpenOK, OpenAttempt, MayStore, Taken
  <2>2. j = i
    BY <1>2, <1>3, <1>10, <2>1
  <2> QED BY <1>1, <1>2, <1>3, <1>11, <1>12, <2>2
<1> QED BY <1>4, <1>6, <1>7, <1>8, <1>9, <1>13, <1>14
\* A sign-in goes on or ends, and only then may it have stored its tokens.
LEMMA AttemptMoves ==
    ASSUME Inductive, NEW h \in Hosts, Hosts = {h}, NEW i \in Attempts,
           NEW b \in Attempt, attempt' = [attempt EXCEPT ![h][i] = b],
           attempt[h][i].phase # "none",
           b.phase # "none" => /\ b.gen = attempt[h][i].gen
                               /\ b.session = attempt[h][i].session,
           UNCHANGED <<gen, newest, flight>>,
           \/ stored' = stored
           \/ /\ b.phase = "none"
              /\ attempt[h][i].gen = gen[h]
              /\ stored' # None /\ stored'.session = attempt[h][i].session
    PROVE  /\ attempt' \in [Hosts -> [Attempts -> Attempt]]
           /\ AttemptsOK' /\ OpenOK'
<1> USE DEF Inductive
<1>1. /\ attempt' \in [Hosts -> [Attempts -> Attempt]]
      /\ attempt'[h][i] = b
      /\ \A j \in Attempts : j # i => attempt'[h][j] = attempt[h][j]
  BY Update DEF TypeOK
<1>2. ASSUME NEW j \in Attempts, attempt'[h][j].phase # "none"
      PROVE  /\ attempt[h][j].phase # "none"
             /\ attempt'[h][j].gen = attempt[h][j].gen
             /\ attempt'[h][j].session = attempt[h][j].session
             /\ stored' = stored \/ j # i
  BY <1>1, <1>2
<1>3. AttemptsOK'
  <2>1. SUFFICES ASSUME NEW j \in Attempts, attempt'[h][j].phase # "none"
                 PROVE  /\ attempt'[h][j].gen \leq gen[h]
                        /\ attempt'[h][j].session \in 1..newest
                        /\ stored' # None => stored'.session # attempt'[h][j].session
                        /\ \A g \in Flights : Taken(h, g) =>
                              flight[h][g].token.session # attempt'[h][j].session
                        /\ \A k \in Attempts : j # k /\ attempt'[h][k].phase # "none" =>
                              /\ attempt'[h][j].session # attempt'[h][k].session
                              /\ attempt'[h][j].gen # attempt'[h][k].gen
    BY DEF AttemptsOK, Taken
  <2>2. stored' # None => stored'.session # attempt[h][j].session
    BY <1>2, <2>1 DEF AttemptsOK
  <2> QED BY <1>2, <2>1, <2>2 DEF AttemptsOK
<1>4. OpenOK'
  <2>1. SUFFICES ASSUME NEW j \in Attempts, attempt'[h][j].phase # "none",
                        attempt'[h][j].gen = gen[h]
                 PROVE  /\ attempt'[h][j].session = newest
                        /\ stored' = None
                        /\ \A f \in Flights : Taken(h, f) =>
                              flight[h][f].gen # gen[h]
    BY DEF OpenOK, OpenAttempt, MayStore, Taken
  <2>2. OpenAttempt(h, j)
    BY <1>2, <2>1 DEF OpenAttempt, MayStore
  <2>3. stored' = stored
    BY <1>2, <2>1 DEF AttemptsOK
  <2> QED BY <1>2, <2>1, <2>2, <2>3 DEF OpenOK
<1> QED BY <1>1, <1>3, <1>4

\* Nothing else moves while a sign-in opens its browser or fails.
LEMMA QuietAttempt ==
    ASSUME Inductive, NEW h \in Hosts, Hosts = {h}, NEW i \in Attempts,
           NEW b \in Attempt, attempt' = [attempt EXCEPT ![h][i] = b],
           attempt[h][i].phase # "none",
           b.phase # "none" => /\ b.gen = attempt[h][i].gen
                               /\ b.session = attempt[h][i].session,
           UNCHANGED <<gen, flight, shared, caller, stored, accepted, newest,
                       expiries, signouts>>
    PROVE  Inductive'
<1> USE DEF Inductive
<1>1. /\ attempt' \in [Hosts -> [Attempts -> Attempt]]
      /\ AttemptsOK' /\ OpenOK'
  BY AttemptMoves
<1>2. TypeOK'
  BY <1>1 DEF TypeOK
<1>3. FlightsOK' /\ GenerationsOK' /\ CurrentOK' /\ StoredOK' /\ OrphansOK'
  <2>1. FlightsSettle(h) /\ PlatformKeeps(h)
    BY FramesHold
  <2>2. gen[h] \in Nat /\ newest \in Nat
    BY HostAuthAssumption DEF TypeOK
  <2>3. FlightsOK' /\ GenerationsOK'
    BY <1>2, <2>1, <2>2, FlightsFrame
  <2>4. CurrentOK' /\ StoredOK' /\ OrphansOK'
    BY <1>2, <2>1, <2>2, KeyringFrame DEF KeyringSettles
  <2> QED BY <2>3, <2>4
<1>4. WaitersOK'
  BY WaitersUnchanged
<1> QED BY <1>1, <1>2, <1>3, <1>4

LEMMA BrowserInductive ==
    ASSUME Inductive, NEW h \in Hosts, Hosts = {h}, NEW i \in Attempts,
           OpenBrowser(h, i)
    PROVE  Inductive'
<1> DEFINE b == [attempt[h][i] EXCEPT !.phase = "browser"]
<1>1. attempt[h][i] \in Attempt /\ attempt \in [Hosts -> [Attempts -> Attempt]]
  BY DEF Inductive, TypeOK
<1>2. /\ b \in Attempt /\ b.gen = attempt[h][i].gen
      /\ b.session = attempt[h][i].session
  BY <1>1 DEF Attempt
<1>3. /\ attempt' = [attempt EXCEPT ![h][i] = b]
      /\ attempt[h][i].phase # "none"
      /\ UNCHANGED <<gen, flight, shared, caller, stored, accepted, newest,
                     expiries, signouts>>
  BY <1>1 DEF OpenBrowser
<1> HIDE DEF b
<1> QED BY <1>2, <1>3, QuietAttempt

LEMMA SignInFailsInductive ==
    ASSUME Inductive, NEW h \in Hosts, Hosts = {h}, NEW i \in Attempts,
           SignInFails(h, i)
    PROVE  Inductive'
<1>1. NoAttempt \in Attempt /\ NoAttempt.phase = "none"
  BY Records DEF NoAttempt
<1> QED BY <1>1, QuietAttempt DEF SignInFails

\* The platform starts a session nobody has a token of.
LEMMA ExchangedInductive ==
    ASSUME Inductive, NEW h \in Hosts, Hosts = {h}, NEW i \in Attempts,
           CodeExchanged(h, i)
    PROVE  Inductive'
<1> USE DEF Inductive
<1> DEFINE b == [attempt[h][i] EXCEPT !.phase = "reply"]
           s == attempt[h][i].session
<1>1. attempt[h][i] \in Attempt /\ attempt \in [Hosts -> [Attempts -> Attempt]]
  BY DEF TypeOK
<1>2. /\ b \in Attempt /\ b.gen = attempt[h][i].gen
      /\ b.session = attempt[h][i].session
  BY <1>1 DEF Attempt
<1>3. /\ attempt' = [attempt EXCEPT ![h][i] = b]
      /\ attempt[h][i].phase # "none"
      /\ accepted' = [accepted EXCEPT ![s] = 0]
      /\ UNCHANGED <<gen, flight, shared, caller, stored, newest, expiries,
                     signouts>>
  BY <1>1 DEF CodeExchanged
<1> HIDE DEF b
<1>4. /\ attempt' \in [Hosts -> [Attempts -> Attempt]]
      /\ AttemptsOK' /\ OpenOK'
  BY <1>2, <1>3, AttemptMoves
<1>5. /\ accepted' \in [Sessions -> Nat \cup {None}]
      /\ \A x \in Sessions : x # s => accepted'[x] = accepted[x]
  BY <1>3 DEF TypeOK
<1>6. TypeOK'
  BY <1>3, <1>4, <1>5 DEF TypeOK
<1>7. gen[h] \in Nat /\ newest \in Nat /\ newest \leq MaxSessions
  BY HostAuthAssumption DEF TypeOK
<1>8. FlightsSettle(h)
  BY <1>3, FramesHold
<1>9. PlatformKeeps(h)
  <2>1. ASSUME NEW g \in Flights, Taken(h, g)
        PROVE  /\ flight[h][g].token.session \in Sessions
               /\ flight[h][g].token.session # s
    <3>1. flight[h][g].token.session \in 1..newest
      BY <2>1 DEF FlightsOK
    <3> QED BY <1>3, <1>7, <2>1, <3>1, HostAuthAssumption DEF AttemptsOK, Sessions
  <2> QED BY <1>5, <2>1 DEF PlatformKeeps, Dead, Issued
<1>10. stored # None /\ Issued(accepted, stored) => Issued(accepted', stored)
  <2>1. stored # None => stored.session \in Sessions /\ stored.session # s
    <3>1. stored # None => stored.session \in 1..newest
      BY DEF StoredOK
    <3> QED BY <1>3, <1>7, <3>1, HostAuthAssumption DEF AttemptsOK, Sessions
  <2> QED BY <1>5, <2>1 DEF Issued
<1>11. FlightsOK' /\ GenerationsOK'
  BY <1>3, <1>6, <1>7, <1>8, <1>9, FlightsFrame
<1>12. CurrentOK' /\ StoredOK' /\ OrphansOK'
  BY <1>3, <1>6, <1>7, <1>8, <1>9, <1>10, KeyringFrame DEF KeyringSettles
<1>13. WaitersOK'
  BY <1>3, WaitersUnchanged
<1> QED BY <1>4, <1>6, <1>11, <1>12, <1>13

LEMMA SignInEndsInductive ==
    ASSUME Inductive, NEW h \in Hosts, Hosts = {h}, NEW i \in Attempts,
           SignInEnds(h, i)
    PROVE  Inductive'
<1> USE DEF Inductive
<1> DEFINE a == attempt[h][i]
           u == [session |-> a.session, serial |-> 0, fresh |-> TRUE]
<1>1. /\ a.phase # "none" /\ attempt' = [attempt EXCEPT ![h][i] = NoAttempt]
      /\ stored' = IF a.gen = gen[h] THEN u ELSE stored
      /\ UNCHANGED <<gen, flight, shared, caller, accepted, newest, expiries,
                     signouts>>
  BY DEF SignInEnds, MayStore
<1>2. NoAttempt \in Attempt /\ NoAttempt.phase = "none"
  BY Records DEF NoAttempt
<1>3. CASE a.gen # gen[h]
  BY <1>1, <1>2, <1>3, QuietAttempt
<1>4. CASE a.gen = gen[h]
  <2>1. /\ a.session \in 1..newest /\ a.session \in Nat
        /\ newest \in Nat /\ newest \leq MaxSessions /\ gen[h] \in Nat
    BY <1>1, HostAuthAssumption DEF AttemptsOK, TypeOK, Attempt
  <2>2. /\ stored' \in Stored /\ stored' # None
        /\ stored'.session = a.session /\ stored'.serial = 0
    <3>1. u \in Stored
      BY <2>1 DEF Stored
    <3>2. u # None /\ u.session = a.session /\ u.serial = 0
      BY <3>1, HostAuthAssumption DEF Stored
    <3>3. stored' = u
      BY <1>1, <1>4
    <3> QED BY <3>1, <3>2, <3>3
  <2>3. /\ attempt' \in [Hosts -> [Attempts -> Attempt]]
        /\ AttemptsOK' /\ OpenOK'
    BY <1>1, <1>2, <1>4, <2>2, AttemptMoves
  <2>4. TypeOK'
    BY <1>1, <2>2, <2>3 DEF TypeOK
  <2>5. FlightsSettle(h) /\ PlatformKeeps(h)
    BY <1>1, FramesHold
  <2>6. FlightsOK' /\ GenerationsOK'
    BY <1>1, <2>1, <2>4, <2>5, FlightsFrame
  <2>7. WaitersOK'
    BY <1>1, WaitersUnchanged
  <2>8. OpenAttempt(h, i)
    BY <1>1, <1>4 DEF OpenAttempt, MayStore
  <2>9. CurrentOK'
    BY <1>1, <2>8 DEF OpenOK, CurrentOK, Taken
  <2>10. OrphansOK'
    <3>1. \A g \in Flights : Live(h, g) =>
              /\ Taken(h, g) /\ flight[h][g].token.session # a.session
      BY <1>1 DEF AttemptsOK, Live, Taken
    <3> QED BY <1>1, <2>2, <3>1 DEF OrphansOK, Live
  <2>11. StoredOK'
    <3>1. accepted[a.session] \in Nat \cup {None}
      BY <2>1, HostAuthAssumption DEF TypeOK, Sessions
    <3> QED BY <1>1, <2>1, <2>2, <3>1 DEF StoredOK, Issued
  <2> QED BY <2>3, <2>4, <2>6, <2>7, <2>9, <2>10, <2>11
<1> QED BY <1>3, <1>4

LEMMA ExpireInductive ==
    ASSUME Inductive, NEW h \in Hosts, Hosts = {h}, Expire
    PROVE  Inductive'
<1> USE DEF Inductive
<1>1. /\ stored # None /\ stored \in Stored
      /\ expiries < MaxExpiries /\ expiries' = expiries + 1
      /\ stored' = [stored EXCEPT !.fresh = FALSE]
      /\ UNCHANGED <<gen, flight, shared, caller, attempt, accepted, newest,
                     signouts>>
  BY DEF Expire, TypeOK
<1>2. /\ stored' \in Stored /\ stored' # None
      /\ stored'.session = stored.session /\ stored'.serial = stored.serial
  BY <1>1, HostAuthAssumption DEF Stored
<1>3. TypeOK'
  BY <1>1, <1>2, HostAuthAssumption DEF TypeOK
<1>4. gen[h] \in Nat /\ newest \in Nat
  BY HostAuthAssumption DEF TypeOK
<1>5. FlightsSettle(h) /\ PlatformKeeps(h) /\ KeyringSettles(h)
  BY <1>1, <1>2, FramesHold DEF KeyringSettles, TokenOf
<1>6. FlightsOK' /\ GenerationsOK'
  BY <1>1, <1>3, <1>4, <1>5, FlightsFrame
<1>7. CurrentOK' /\ StoredOK' /\ OrphansOK'
  BY <1>1, <1>3, <1>4, <1>5, KeyringFrame
<1>8. WaitersOK'
  BY <1>1, WaitersUnchanged
<1>9. AttemptsOK' /\ OpenOK'
  BY <1>1, <1>2 DEF AttemptsOK, OpenOK, OpenAttempt, MayStore, Taken
<1> QED BY <1>3, <1>6, <1>7, <1>8, <1>9

LEMMA RevokeInductive ==
    ASSUME Inductive, NEW h \in Hosts, Hosts = {h}, NEW s \in Sessions, Revoke(s)
    PROVE  Inductive'
<1> USE DEF Inductive
<1>1. /\ accepted' \in [Sessions -> Nat \cup {None}]
      /\ \A x \in Sessions : accepted'[x] \in {accepted[x], None}
      /\ UNCHANGED <<gen, flight, shared, caller, attempt, stored, newest,
                     expiries, signouts>>
  BY DEF Revoke, TypeOK
<1>2. TypeOK'
  BY <1>1 DEF TypeOK
<1>3. gen[h] \in Nat /\ newest \in Nat /\ newest \leq MaxSessions
  BY HostAuthAssumption DEF TypeOK
<1>4. FlightsSettle(h)
  BY <1>1, FramesHold
<1>5. PlatformKeeps(h)
  <2>1. \A g \in Flights : Taken(h, g) => flight[h][g].token.session \in Sessions
    BY <1>3, HostAuthAssumption DEF FlightsOK, Sessions
  <2> QED BY <1>1, <2>1 DEF PlatformKeeps, Dead, Issued
<1>6. stored # None /\ Issued(accepted, stored) => Issued(accepted', stored)
  <2>1. stored # None => stored.session \in Sessions
    BY <1>3, HostAuthAssumption DEF StoredOK, Sessions
  <2> QED BY <1>1, <2>1 DEF Issued
<1>7. FlightsOK' /\ GenerationsOK'
  BY <1>1, <1>2, <1>3, <1>4, <1>5, FlightsFrame
<1>8. CurrentOK' /\ StoredOK' /\ OrphansOK'
  BY <1>1, <1>2, <1>3, <1>4, <1>5, <1>6, KeyringFrame DEF KeyringSettles
<1>9. WaitersOK'
  BY <1>1, WaitersUnchanged
<1>10. AttemptsOK' /\ OpenOK'
  BY <1>1, AttemptsFrame DEF Taken
<1> QED BY <1>2, <1>7, <1>8, <1>9, <1>10
-----------------------------------------------------------------------------

\* The strengthening holds in every state of one process: of all the refreshes,
\* requests and sign-ins that overlap, only those of the current generation
\* may still change the keyring, and they speak of its tokens.
THEOREM Strengthened ==
    ASSUME NEW h, Hosts = {h}
    PROVE  Spec => []Inductive
<1>1. Init => Inductive
  <2> SUFFICES ASSUME Init PROVE Inductive
    OBVIOUS
  <2>1. TypeOK
    BY Records, HostAuthAssumption DEF Init, TypeOK
  <2>2. AttemptsOK /\ OpenOK /\ FlightsOK /\ GenerationsOK /\ CurrentOK
    BY DEF Init, AttemptsOK, OpenOK, OpenAttempt, FlightsOK, GenerationsOK,
           CurrentOK, Taken, NoFlight, NoAttempt
  <2>3. WaitersOK /\ StoredOK /\ OrphansOK
    BY DEF Init, WaitersOK, StoredOK, OrphansOK, Live, NoFlight, NoCaller
  <2> QED BY <2>1, <2>2, <2>3 DEF Inductive
<1>2. ASSUME Inductive, [Next]_vars PROVE Inductive'
  <2>1. CASE UNCHANGED vars
    <3>1. UNCHANGED <<gen, flight, shared, attempt, stored, accepted, newest>>
          /\ UNCHANGED <<flight, shared, caller>>
      BY <2>1 DEF vars
    <3>2. TypeOK'
      BY <1>2, <2>1 DEF vars, Inductive, TypeOK
    <3> QED BY <1>2, <3>1, <3>2, OthersUnchanged, WaitersUnchanged DEF Inductive
  <2>2. CASE HostNext(h)
    <3>1. ASSUME NEW f \in Flights, FlightStep(h, f) PROVE Inductive'
      BY <1>2, <3>1, ReachesInductive, FailsInductive, EndsInductive DEF FlightStep
    <3>2. ASSUME NEW c \in Callers,
                 AskRefresh(h, c) \/ CallerResumes(h, c) \/ CallerCancelled(h, c)
          PROVE  Inductive'
      BY <1>2, <3>2, AskInductive, ResumesInductive, CancelledInductive
    <3>3. ASSUME NEW i \in Attempts,
                 \/ BeginSignIn(h, i) \/ OpenBrowser(h, i) \/ CodeExchanged(h, i)
                 \/ SignInEnds(h, i) \/ SignInFails(h, i)
          PROVE  Inductive'
      BY <1>2, <3>3, BeginSignInInductive, BrowserInductive,
         ExchangedInductive, SignInEndsInductive, SignInFailsInductive
    <3> QED
      BY <1>2, <2>2, <3>1, <3>2, <3>3, SignOutInductive DEF HostNext
  <2>3. CASE Expire
    BY <1>2, <2>3, ExpireInductive
  <2>4. CASE \E s \in Sessions : Revoke(s)
    BY <1>2, <2>4, RevokeInductive
  <2> QED BY <1>2, <2>1, <2>2, <2>3, <2>4 DEF Next
<1> QED BY <1>1, <1>2, PTL DEF Spec

\* Every variable keeps its type: in particular each stored token pair is a
\* pair, and a request is always on a refresh that exists.
THEOREM TypeCorrect ==
    ASSUME NEW h, Hosts = {h}
    PROVE  Spec => []TypeOK
<1>1. Inductive => TypeOK
  BY DEF Inductive
<1> QED BY <1>1, Strengthened, PTL

\* A refresh token is never in two refreshes that are under way
\* (_refresh_access_token), whatever signs out and in meanwhile.
THEOREM RefreshedOnce ==
    ASSUME NEW h, Hosts = {h}
    PROVE  Spec => []OneRefreshPerToken
<1>1. Inductive => OneRefreshPerToken
  BY DEF Inductive, OrphansOK, OneRefreshPerToken, Live
<1> QED BY <1>1, Strengthened, PTL
\* Steps that leave the keyring full.
LEMMA Filled ==
    ASSUME Inductive, NEW h \in Hosts, Hosts = {h}, Next,
           stored # None, stored' = None
    PROVE  SignOut(h) \/ \E c \in Callers : CallerResumes(h, c)
<1>1. stored \in Stored
  BY DEF Inductive, TypeOK
<1>2. ASSUME NEW f \in Flights, FlightStep(h, f) PROVE FALSE
  <2>1. FlightEnds(h, f) /\ stored' # stored
    BY <1>2 DEF FlightStep, FlightReaches, FlightFails
  <2>2. /\ flight[h][f].phase = "reply" /\ flight[h][f].result = "ok"
        /\ stored' = Fresh(flight[h][f].reply)
    BY <2>1 DEF FlightEnds
  <2>3. flight[h][f].reply \in Token
    BY <2>2 DEF Inductive, FlightsOK, Taken
  <2>4. stored' \in Stored
    BY <2>2, <2>3, Records
  <2> QED BY <2>4, HostAuthAssumption DEF Stored
<1>3. ASSUME NEW i \in Attempts,
             \/ BeginSignIn(h, i) \/ OpenBrowser(h, i) \/ CodeExchanged(h, i)
             \/ SignInEnds(h, i) \/ SignInFails(h, i)
      PROVE  FALSE
  <2>1. SignInEnds(h, i) /\ stored' # stored
    BY <1>3 DEF BeginSignIn, OpenBrowser, CodeExchanged, SignInFails
  <2>2. /\ stored' = [session |-> attempt[h][i].session, serial |-> 0, fresh |-> TRUE]
        /\ attempt[h][i].session \in Nat
    BY <2>1 DEF SignInEnds, Inductive, TypeOK, Attempt
  <2>3. [session |-> attempt[h][i].session, serial |-> 0, fresh |-> TRUE] \in Stored
    BY <2>2 DEF Stored
  <2> QED BY <2>2, <2>3, HostAuthAssumption DEF Stored
<1>4. ASSUME NEW c \in Callers, AskRefresh(h, c) \/ CallerCancelled(h, c) PROVE FALSE
  BY <1>4 DEF AskRefresh, CallerCancelled
<1>5. ASSUME Expire PROVE FALSE
  <2>1. stored' \in Stored
    BY <1>1, <1>5 DEF Expire, Stored
  <2> QED BY <2>1, HostAuthAssumption DEF Stored
<1>6. ASSUME NEW s \in Sessions, Revoke(s) PROVE FALSE
  BY <1>6 DEF Revoke
<1> QED BY <1>2, <1>3, <1>4, <1>5, <1>6 DEF Next, HostNext

\* The keyring is emptied by a sign-out, or because the platform refused the
\* tokens in it; a session it would still accept is kept (_clear_user_tokens).
THEOREM AcceptedKept ==
    ASSUME NEW h, Hosts = {h}
    PROVE  Spec => AcceptedSessionIsKept
<1>1. ASSUME Inductive, [Next]_vars
      PROVE  [KeepsAcceptedSession]_vars
  <2>1. SUFFICES ASSUME stored # None, stored' = None, Next, ~ SignOut(h)
                 PROVE  accepted[stored.session] # stored.serial
    BY <1>1 DEF KeepsAcceptedSession
  <2>2. PICK c \in Callers : CallerResumes(h, c)
    BY <1>1, <2>1, Filled
  <2>3. PICK f \in Flights :
           /\ caller[h][c].on = f
           /\ flight[h][f].result = "invalid" /\ caller[h][c].gen = gen[h]
    BY <1>1, <2>1, <2>2
    DEF CallerResumes, MayStore, Inductive, TypeOK, Caller
  <2>4. /\ Taken(h, f) /\ flight[h][f].gen = gen[h]
    BY <1>1, <2>3, HostAuthAssumption DEF Inductive, WaitersOK
  <2>5. Dead(accepted, flight[h][f].token) /\ TokenOf(stored) = flight[h][f].token
    BY <1>1, <2>1, <2>3, <2>4 DEF Inductive, FlightsOK, CurrentOK
  <2>6. Dead(accepted, TokenOf(stored)) /\ stored \in Stored
    BY <1>1, <2>1, <2>5 DEF Inductive, TypeOK
  <2>7. /\ stored.serial \in Nat
        /\ \/ accepted[stored.session] = None
           \/ accepted[stored.session] > stored.serial
    BY <2>6 DEF Dead, TokenOf, Stored
  <2>8. accepted[stored.session] \in Nat \cup {None}
    <3>1. stored.session \in Sessions
      BY <1>1, <2>1, HostAuthAssumption DEF Inductive, StoredOK, TypeOK, Sessions
    <3> QED BY <1>1, <3>1 DEF Inductive, TypeOK
  <2> QED BY <2>7, <2>8, HostAuthAssumption
<1> QED BY <1>1, Strengthened, PTL DEF Spec, AcceptedSessionIsKept
\* What the user sees of a state.
Current == IF stored = None THEN 0 ELSE stored.session
Open == \E h \in Hosts : \E i \in Attempts : OpenAttempt(h, i)

\* A step of one process does one of these to what the user sees.
SeenStep ==
    \/ Current' = Current /\ newest' = newest /\ (Open' <=> Open)
    \/ Current = 0 /\ newest' = newest + 1 /\ Open' /\ Current' = Current
    \/ Open /\ Current' = newest /\ ~Open' /\ newest' = newest
    \/ Open /\ ~Open' /\ Current' = Current /\ newest' = newest
    \/ Current' = 0 /\ (Open' => Open) /\ newest' = newest

LEMMA SeenFlight ==
    ASSUME Inductive, NEW h \in Hosts, Hosts = {h}, NEW f \in Flights,
           FlightStep(h, f)
    PROVE  SeenStep
<1>1. attempt' = attempt /\ newest' = newest
  BY DEF FlightStep, FlightReaches, FlightFails, FlightEnds
<1>2. CASE gen' = gen /\ stored' = stored
  BY <1>1, <1>2 DEF SeenStep, Current, Open, OpenAttempt, MayStore
<1>3. CASE /\ flight[h][f].phase = "reply" /\ flight[h][f].result = "ok"
           /\ flight[h][f].gen = gen[h]
           /\ gen' = [gen EXCEPT ![h] = @ + 1]
           /\ stored' = Fresh(flight[h][f].reply)
  <2>1. Taken(h, f)
    BY <1>3 DEF Taken
  <2>2. /\ stored # None /\ TokenOf(stored) = flight[h][f].token
        /\ flight[h][f].reply \in Token
        /\ flight[h][f].reply.session = flight[h][f].token.session
    BY <1>3, <2>1 DEF Inductive, CurrentOK, FlightsOK
  <2>3. stored' # None /\ stored'.session = stored.session
    <3>1. stored' \in Stored
      BY <1>3, <2>2, Records
    <3>2. stored' # None
      BY <3>1, HostAuthAssumption DEF Stored
    <3> QED BY <1>3, <2>2, <3>2 DEF TokenOf, Fresh
  <2>4. ~Open
    BY <1>3, <2>1 DEF Open, Inductive, OpenOK
  <2>5. ~Open'
    <3>1. ASSUME NEW i \in Attempts, attempt[h][i].phase # "none"
          PROVE  attempt[h][i].gen # gen'[h]
      <4>1. /\ attempt[h][i].gen \in Nat /\ attempt[h][i].gen \leq gen[h]
            /\ gen[h] \in Nat /\ gen'[h] = gen[h] + 1
        BY <1>3, <3>1 DEF Inductive, AttemptsOK, TypeOK, Attempt
      <4> QED BY <4>1
    <3> QED BY <1>1, <3>1 DEF Open, OpenAttempt, MayStore
  <2>6. Current' = Current
    BY <2>2, <2>3 DEF Current
  <2> QED BY <1>1, <2>4, <2>5, <2>6 DEF SeenStep
<1> QED BY <1>2, <1>3 DEF FlightStep, FlightReaches, FlightFails, FlightEnds, MayStore

LEMMA SeenCaller ==
    ASSUME Inductive, NEW h \in Hosts, Hosts = {h}, NEW c \in Callers,
           AskRefresh(h, c) \/ CallerResumes(h, c) \/ CallerCancelled(h, c)
    PROVE  SeenStep
<1>1. /\ gen' = gen /\ attempt' = attempt /\ newest' = newest
      /\ stored' \in {stored, None}
  BY DEF AskRefresh, CallerResumes, CallerCancelled
<1>2. Open' <=> Open
  BY <1>1 DEF Open, OpenAttempt, MayStore
<1>3. Current' = Current \/ Current' = 0
  BY <1>1 DEF Current
<1> QED BY <1>1, <1>2, <1>3 DEF SeenStep

LEMMA SeenSignOut ==
    ASSUME Inductive, NEW h \in Hosts, Hosts = {h}, SignOut(h)
    PROVE  SeenStep
<1>1. /\ gen' = [gen EXCEPT ![h] = @ + 1] /\ attempt' = attempt
      /\ stored' = None /\ newest' = newest
  BY DEF SignOut
<1>2. ASSUME NEW i \in Attempts, attempt[h][i].phase # "none"
      PROVE  attempt[h][i].gen # gen'[h]
  <2>1. /\ attempt[h][i].gen \in Nat /\ attempt[h][i].gen \leq gen[h]
        /\ gen[h] \in Nat /\ gen'[h] = gen[h] + 1
    BY <1>1, <1>2 DEF Inductive, AttemptsOK, TypeOK, Attempt
  <2> QED BY <2>1
<1>3. ~Open'
  BY <1>1, <1>2 DEF Open, OpenAttempt, MayStore
<1>4. Current' = 0
  BY <1>1 DEF Current
<1> QED BY <1>1, <1>3, <1>4 DEF SeenStep

LEMMA SeenAttempt ==
    ASSUME Inductive, NEW h \in Hosts, Hosts = {h}, NEW i \in Attempts,
           \/ BeginSignIn(h, i) \/ OpenBrowser(h, i) \/ CodeExchanged(h, i)
           \/ SignInEnds(h, i) \/ SignInFails(h, i)
    PROVE  SeenStep
<1>1. attempt \in [Hosts -> [Attempts -> Attempt]] /\ gen \in [Hosts -> Nat]
  BY DEF Inductive, TypeOK
<1>2. CASE BeginSignIn(h, i)
  <2>1. /\ stored = None /\ stored' = None /\ newest' = newest + 1
        /\ gen'[h] = gen[h] + 1
        /\ attempt'[h][i].phase # "none" /\ attempt'[h][i].gen = gen[h] + 1
    BY <1>1, <1>2 DEF BeginSignIn
  <2>2. Open'
    BY <2>1 DEF Open, OpenAttempt, MayStore
  <2>3. Current = 0 /\ Current' = 0
    BY <2>1 DEF Current
  <2> QED BY <2>1, <2>2, <2>3 DEF SeenStep
<1>3. CASE OpenBrowser(h, i) \/ CodeExchanged(h, i)
  <2>1. /\ gen' = gen /\ stored' = stored /\ newest' = newest
        /\ \A j \in Attempts : /\ attempt'[h][j].gen = attempt[h][j].gen
                               /\ attempt'[h][j].phase # "none" <=>
                                    attempt[h][j].phase # "none"
    BY <1>1, <1>3 DEF OpenBrowser, CodeExchanged, Attempt
  <2>2. Open' <=> Open
    BY <2>1 DEF Open, OpenAttempt, MayStore
  <2> QED BY <2>1, <2>2 DEF SeenStep, Current
<1>4. CASE SignInEnds(h, i) \/ SignInFails(h, i)
  <2>1. /\ gen' = gen /\ newest' = newest
        /\ attempt[h][i].phase # "none" /\ attempt'[h][i].phase = "none"
        /\ \A j \in Attempts : j # i => attempt'[h][j] = attempt[h][j]
    <3>1. /\ gen' = gen /\ newest' = newest /\ attempt[h][i].phase # "none"
          /\ attempt' = [attempt EXCEPT ![h][i] = NoAttempt]
      BY <1>4 DEF SignInEnds, SignInFails
    <3>2. NoAttempt \in Attempt /\ NoAttempt.phase = "none"
      BY Records DEF NoAttempt
    <3> QED BY <1>1, <3>1, <3>2, Update
  <2>2. CASE attempt[h][i].gen = gen[h]
    <3>1. Open /\ attempt[h][i].session = newest
      BY <2>1, <2>2 DEF Open, OpenAttempt, MayStore, Inductive, OpenOK
    <3>2. ~Open'
      BY <2>1, <2>2 DEF Open, OpenAttempt, MayStore, Inductive, AttemptsOK
    <3>3. CASE SignInFails(h, i)
      <4>1. stored' = stored
        BY <3>3 DEF SignInFails
      <4> QED BY <2>1, <3>1, <3>2, <4>1 DEF SeenStep, Current
    <3>4. CASE SignInEnds(h, i)
      <4>1. stored' = [session |-> newest, serial |-> 0, fresh |-> TRUE]
        BY <2>2, <3>1, <3>4 DEF SignInEnds, MayStore
      <4>2. newest \in Nat
        BY HostAuthAssumption DEF Inductive, TypeOK
      <4>3. stored' # None /\ stored'.session = newest
        <5>1. [session |-> newest, serial |-> 0, fresh |-> TRUE] \in Stored
          BY <4>2 DEF Stored
        <5> QED BY <4>1, <5>1, HostAuthAssumption DEF Stored
      <4>4. Current' = newest
        BY <4>3 DEF Current
      <4> QED BY <2>1, <3>1, <3>2, <4>4 DEF SeenStep
    <3> QED BY <1>4, <3>3, <3>4
  <2>3. CASE attempt[h][i].gen # gen[h]
    <3>1. stored' = stored
      BY <1>4, <2>3 DEF SignInEnds, SignInFails, MayStore
    <3>2. Open' <=> Open
      BY <2>1, <2>3 DEF Open, OpenAttempt, MayStore
    <3> QED BY <2>1, <3>1, <3>2 DEF SeenStep, Current
  <2> QED BY <2>2, <2>3
<1> QED BY <1>2, <1>3, <1>4

\* Whatever refreshes, requests and sign-ins overlap in a process, its user
\* sees what UserSession promises: the newest sign-in is the only one that
\* brings a session, and a session that is over does not come back
\* (_refresh, _store_user_tokens, sign_out).
THEOREM SessionSafe ==
    ASSUME NEW h, Hosts = {h}
    PROVE  Spec => SessionIsSafe
<1>1. Init => Session!Init
  BY DEF Init, Session!Init, OpenAttempt, NoAttempt
<1>2. ASSUME Inductive, [Next]_vars PROVE [Session!Next]_(Session!vars)
  <2>1. SeenStep
    <3>1. CASE UNCHANGED vars
      BY <3>1 DEF vars, SeenStep, Current, Open, OpenAttempt, MayStore
    <3>2. CASE HostNext(h)
      BY <1>2, <3>2, SeenFlight, SeenCaller, SeenSignOut, SeenAttempt DEF HostNext
    <3>3. CASE Expire
      <4>1. /\ stored \in Stored /\ stored # None
            /\ stored' = [stored EXCEPT !.fresh = FALSE]
            /\ UNCHANGED <<gen, attempt, newest>>
        BY <1>2, <3>3 DEF Expire, Inductive, TypeOK
      <4>2. stored' # None /\ stored'.session = stored.session
        BY <4>1, HostAuthAssumption DEF Stored
      <4> QED BY <4>1, <4>2 DEF SeenStep, Current, Open, OpenAttempt, MayStore
    <3>4. CASE \E s \in Sessions : Revoke(s)
      BY <3>4 DEF Revoke, SeenStep, Current, Open, OpenAttempt, MayStore
    <3> QED BY <1>2, <3>1, <3>2, <3>3, <3>4 DEF Next
  <2> QED
    BY <2>1
    DEF SeenStep, Current, Open, Session!Next, Session!vars,
        Session!BeginSignIn, Session!SignedIn, Session!GiveUp, Session!End
<1> QED BY <1>1, <1>2, Strengthened, PTL DEF Spec, SessionIsSafe, Session!Spec
=============================================================================
