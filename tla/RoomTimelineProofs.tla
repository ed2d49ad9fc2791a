-------------------------- MODULE RoomTimelineProofs --------------------------
(***************************************************************************)
(* The flag that refuses to load older history, the types of the           *)
(* timeline's state, and that the timeline is complete, for rooms and      *)
(* pages of any size.                                                      *)
(***************************************************************************)
EXTENDS RoomTimeline, TLAPS

\* A page has rows, and a cursor in the history (fetch_latest_messages).
LEMMA PageType ==
  ASSUME TypeOK, NEW before \in 0..(MaxMessages + 1)
  PROVE  before # 0 => PageBefore(before) \in Page
<1> SUFFICES ASSUME before # 0
             PROVE  PageBefore(before) \in Page
  OBVIOUS
<1> USE RoomTimelineAssumption
<1> DEFINE last == IF before > Len(history) THEN Len(history) ELSE before - 1
<1> DEFINE first == IF last > Limit THEN last - Limit + 1 ELSE 1
<1>1. Len(history) \in 0..MaxMessages
  BY DEF TypeOK
<1>2. last \in 0..MaxMessages /\ last <= Len(history)
  BY <1>1
<1>3. first \in Nat \ {0} /\ (first > 1 => first <= MaxMessages)
  BY <1>2
<1> HIDE DEF last, first
<1>4. \A i \in Ids : i \in first..last => history[i] \in 0..MaxVersion
  BY <1>1, <1>2, <1>3 DEF TypeOK, Ids
<1>5. [i \in Ids |-> IF i \in first..last THEN history[i] ELSE 0] \in Rows
  BY <1>4 DEF Rows
<1>6. (IF first > 1 THEN first ELSE 0) \in 0..MaxMessages /\ (first > 1) \in BOOLEAN
  BY <1>3
<1>7. PageBefore(before) = [rows |-> [i \in Ids |-> IF i \in first..last THEN history[i] ELSE 0],
                            cursor |-> IF first > 1 THEN first ELSE 0,
                            more |-> first > 1]
  BY DEF PageBefore, first, last
<1> QED
  BY <1>5, <1>6, <1>7 DEF Page

\* Loads are records of their type (_load_messages, _load_older_messages).
LEMMA LoadTypes ==
  ASSUME NEW l \in Load
  PROVE  /\ [l EXCEPT !.phase = "begun"] \in Load
         /\ [l EXCEPT !.phase = "begun"].phase = "begun"
         /\ \A page \in Page :
              /\ [l EXCEPT !.phase = "answered", !.page = page] \in Load
              /\ [l EXCEPT !.phase = "answered", !.page = page].phase = "answered"
         /\ \A before \in 0..(MaxMessages + 1) :
              /\ [l EXCEPT !.phase = "sent", !.before = before] \in Load
              /\ [l EXCEPT !.phase = "sent", !.before = before].phase = "sent"
              /\ [l EXCEPT !.phase = "sent", !.before = before].before = before
         /\ [l EXCEPT !.raced = TRUE] \in Load
BY DEF Load

\* No load is one, and one that was asked for is.
LEMMA NewLoads ==
  /\ NoLoad \in Load /\ NoLoad.phase = "none"
  /\ \A before \in 0..(MaxMessages + 1) :
       Asked(before) \in Load /\ Asked(before).phase = "sent" /\ Asked(before).before = before
<1>1. NoRows \in Rows /\ NoPage \in Page
  BY RoomTimelineAssumption DEF NoRows, Rows, NoPage, Page
<1>2. NoLoad \in Load /\ NoLoad.phase = "none"
  BY <1>1, RoomTimelineAssumption DEF NoLoad, Load
<1> QED
  BY <1>2, LoadTypes DEF Asked

-----------------------------------------------------------------------------
\* What is asked for has a place in the history, and so has what was sent.
PlacesOK ==
  /\ reload.phase = "sent" => reload.before # 0
  /\ sending.phase = "posted" => sending.id \in Ids

\* While a cancelled worker unwinds, the next one has made no request: it
\* found the flag up (the guard of _load_older_messages).
OneRequest == ~(unwinding /\ older.phase \in {"sent", "answered"})

Inductive == TypeOK /\ PlacesOK /\ OneRequest /\ LoadingHasWorker

\* What a change of the room does to what is announced and missed.
LEMMA AnnounceType ==
  ASSUME TypeOK, NEW i \in Ids, NEW v \in 1..MaxVersion, Announce(i, v)
  PROVE  events' \in Seq(Change) /\ missed' \subseteq Change
<1>1. [id |-> i, version |-> v] \in Change
  BY DEF Change
<1>2. events \in Seq(Change) /\ missed \subseteq Change
  BY DEF TypeOK
<1>3. CASE joined
  BY <1>1, <1>2, <1>3 DEF Announce
<1>4. CASE ~joined
  BY <1>1, <1>2, <1>4 DEF Announce
<1> QED
  BY <1>3, <1>4

\* The platform takes a message.
LEMMA TakesType ==
  ASSUME TypeOK, TakesMessage
  PROVE  /\ history' \in Seq(1..MaxVersion) /\ Len(history') <= MaxMessages
         /\ events' \in Seq(Change) /\ missed' \subseteq Change
         /\ Len(history) + 1 \in Ids
<1> USE RoomTimelineAssumption
<1>1. Len(history) + 1 \in Ids /\ Len(history) \in Nat
  BY DEF TypeOK, TakesMessage, Ids
<1>2. history' \in Seq(1..MaxVersion) /\ Len(history') = Len(history) + 1
  BY DEF TypeOK, TakesMessage
<1>3. events' \in Seq(Change) /\ missed' \subseteq Change
  <2>1. 1 \in 1..MaxVersion
    OBVIOUS
  <2> QED
    BY <1>1, <2>1, AnnounceType DEF TakesMessage
<1> QED
  BY <1>1, <1>2, <1>3 DEF Ids

\* A message of the platform: Post, Update, Join, Lose.
LEMMA PlatformStep ==
  ASSUME Inductive, Post \/ (\E i \in 1..Len(history) : Update(i)) \/ Join \/ Lose
  PROVE  Inductive'
<1> USE RoomTimelineAssumption DEF Inductive, PlacesOK, OneRequest, LoadingHasWorker, fetching
<1>1. CASE Post
  BY <1>1, TakesType DEF Post, TypeOK, paging, room, ghost
<1>2. ASSUME NEW i \in 1..Len(history), Update(i)
      PROVE  Inductive'
  <2>1. i \in Ids /\ history[i] \in 1..MaxVersion /\ history[i] + 1 \in 1..MaxVersion
    BY <1>2 DEF TypeOK, Ids, Update
  <2>2. history' \in Seq(1..MaxVersion) /\ Len(history') = Len(history)
    BY <1>2, <2>1 DEF TypeOK, Update
  <2>3. events' \in Seq(Change) /\ missed' \subseteq Change
    BY <1>2, <2>1, AnnounceType DEF Update
  <2> QED
    BY <1>2, <2>2, <2>3 DEF Update, TypeOK, paging
<1>3. CASE Join
  BY <1>3 DEF Join, TypeOK, paging, ghost
<1>4. CASE Lose
  <2>1. PICK n \in 0..Len(events) :
          /\ events' = SubSeq(events, 1, n)
          /\ missed' = missed \cup {events[k] : k \in (n + 1)..Len(events)}
    BY <1>4 DEF Lose
  <2>2. events' \in Seq(Change)
    BY <2>1 DEF TypeOK
  <2>3. \A k \in (n + 1)..Len(events) : events[k] \in Change
    BY DEF TypeOK
  <2>4. losses' \in 0..MaxLosses
    BY <1>4 DEF Lose, TypeOK
  <2> QED
    BY <1>4, <2>1, <2>2, <2>3, <2>4 DEF Lose, TypeOK, paging
<1> QED
  BY <1>1, <1>2, <1>3, <1>4

\* The latest page is loaded (_load_messages).
LEMMA ReloadStep ==
  ASSUME Inductive, Reload \/ ReloadEnds
  PROVE  Inductive'
<1> USE RoomTimelineAssumption DEF Inductive, PlacesOK, OneRequest, LoadingHasWorker, fetching
<1>1. CASE Reload
  BY <1>1, NewLoads DEF Reload, TypeOK, room, paging, ghost
<1>2. CASE ReloadAnswered
  <2>1. PageBefore(reload.before) \in Page
    BY <1>2, PageType DEF ReloadAnswered, TypeOK, Load
  <2>2. reload' \in Load /\ reload'.phase = "answered"
    <3> DEFINE page == PageBefore(reload.before)
    <3>1. reload' = [reload EXCEPT !.phase = "answered", !.page = page]
      BY <1>2 DEF ReloadAnswered
    <3>2. page \in Page /\ reload \in Load
      BY <2>1 DEF TypeOK
    <3> HIDE DEF page
    <3> QED
      BY <3>1, <3>2, LoadTypes
  <2> QED
    BY <1>2, <2>2 DEF ReloadAnswered, TypeOK, room, paging, ghost
<1>3. CASE ReloadApplied
  <2>1. shown' \in Rows /\ cursor' \in 0..MaxMessages /\ hasOlder' \in BOOLEAN
    BY <1>3 DEF ReloadApplied, TypeOK, Load, Page
  <2>2. reload' \in Load /\ reload'.phase = "none"
    BY <1>3, NewLoads DEF ReloadApplied
  <2>3. missed' \subseteq Change
    BY <1>3 DEF ReloadApplied, Unseen, TypeOK
  <2>4. raced' \in BOOLEAN
    BY <1>3 DEF ReloadApplied, TypeOK, Load
  <2> QED
    BY <1>3, <2>1, <2>2, <2>3, <2>4 DEF ReloadApplied, TypeOK, room
<1>4. CASE ReloadFails
  BY <1>4, NewLoads DEF ReloadFails, TypeOK, room, paging, ghost
<1> QED
  BY <1>1, <1>2, <1>3, <1>4 DEF ReloadEnds

\* An older page is loaded (_load_older_messages): the flag goes up with the
\* worker, and down where it ends.
LEMMA OlderStep ==
  ASSUME Inductive, ScrollUp \/ OlderEnds
  PROVE  Inductive'
<1> USE RoomTimelineAssumption DEF Inductive, PlacesOK, OneRequest, LoadingHasWorker, fetching
<1>1. CASE ScrollUp
  <2>1. older' \in Load /\ older'.phase = "begun"
    BY <1>1, NewLoads, LoadTypes DEF ScrollUp
  <2>2. unwinding' \in BOOLEAN
    BY <1>1, Zenon DEF ScrollUp, TypeOK
  <2>3. unwinding' <=> unwinding \/ older.phase \in {"sent", "answered"}
    BY <1>1 DEF ScrollUp
  <2>4. LoadingHasWorker' /\ OneRequest'
    BY <1>1, <2>1, <2>3 DEF ScrollUp, paging
  <2> QED
    BY <1>1, <2>1, <2>2, <2>4 DEF ScrollUp, TypeOK, room, paging, ghost
<1>5. CASE Looks
  <2>1. CASE ~loading /\ cursor # 0 /\ Starts
    <3>1. cursor \in 0..(MaxMessages + 1)
      BY DEF TypeOK
    <3>2. older' \in Load /\ older'.phase = "sent" /\ older'.before # 0
      BY <2>1, <3>1, NewLoads DEF Starts
    <3> QED
      BY <1>5, <2>1, <3>2 DEF Looks, Starts, TypeOK, room, ghost
  <2>2. CASE older' = NoLoad /\ UNCHANGED loading
    BY <1>5, <2>2, NewLoads DEF Looks, TypeOK, room, ghost
  <2> QED
    BY <1>5, <2>1, <2>2 DEF Looks
<1>6. CASE Unwinds
  BY <1>6 DEF Unwinds, TypeOK, room, ghost
<1>2. CASE OlderAnswered
  <2>1. PageBefore(older.before) \in Page
    BY <1>2, PageType DEF OlderAnswered, TypeOK, Load
  <2>2. older' \in Load /\ older'.phase = "answered"
    <3> DEFINE page == PageBefore(older.before)
    <3>1. older' = [older EXCEPT !.phase = "answered", !.page = page]
      BY <1>2 DEF OlderAnswered
    <3>2. page \in Page /\ older \in Load
      BY <2>1 DEF TypeOK
    <3> HIDE DEF page
    <3> QED
      BY <3>1, <3>2, LoadTypes
  <2> QED
    BY <1>2, <2>2 DEF OlderAnswered, TypeOK, room, paging, ghost
<1>3. CASE OlderApplied
  <2>1. older.page \in Page
    BY DEF TypeOK, Load
  <2>2. shown' \in Rows /\ cursor' \in 0..MaxMessages /\ hasOlder' \in BOOLEAN
    BY <1>3, <2>1 DEF OlderApplied, Prepend, TypeOK, Page, Rows
  <2>3. older' \in Load /\ older'.phase = "none"
    BY <1>3, NewLoads DEF OlderApplied
  <2>4. missed' \subseteq Change
    BY <1>3 DEF OlderApplied, Unseen, TypeOK
  <2> QED
    BY <1>3, <2>2, <2>3, <2>4 DEF OlderApplied, TypeOK, room
<1>4. CASE OlderFails
  BY <1>4, NewLoads DEF OlderFails, TypeOK, room, ghost
<1> QED
  BY <1>1, <1>2, <1>3, <1>4, <1>5, <1>6 DEF OlderEnds

\* A row is inserted or replaced (append_message).
LEMMA UpsertType ==
  ASSUME TypeOK, NEW i \in Ids, NEW v \in 0..MaxVersion, Upsert(i, v)
  PROVE  /\ shown' \in Rows
         /\ reload' \in Load /\ reload'.phase = reload.phase /\ reload'.before = reload.before
<1>1. shown' \in Rows
  BY DEF Upsert, TypeOK, Rows
<1>2. [reload EXCEPT !.raced = TRUE] \in Load
  BY LoadTypes DEF TypeOK
<1>3. /\ [reload EXCEPT !.raced = TRUE].phase = reload.phase
      /\ [reload EXCEPT !.raced = TRUE].before = reload.before
  BY DEF TypeOK, Load
<1> QED
  BY <1>1, <1>2, <1>3 DEF Upsert, TypeOK

\* Realtime rows and the user's own messages.
LEMMA MessageStep ==
  ASSUME Inductive, Incoming \/ Submit \/ SendEnds
  PROVE  Inductive'
<1> USE RoomTimelineAssumption DEF Inductive, PlacesOK, OneRequest, LoadingHasWorker, fetching
<1>1. CASE Incoming
  <2>1. Head(events) \in Change /\ events' \in Seq(Change)
    BY <1>1 DEF Incoming, TypeOK
  <2>2. Head(events).id \in Ids /\ Head(events).version \in 0..MaxVersion
    BY <2>1 DEF Change
  <2>3. /\ shown' \in Rows
        /\ reload' \in Load /\ reload'.phase = reload.phase /\ reload'.before = reload.before
    BY <1>1, <2>2, UpsertType DEF Incoming
  <2> QED
    BY <1>1, <2>1, <2>3 DEF Incoming, TypeOK, paging, ghost
<1>2. CASE Submit
  BY <1>2 DEF Submit, TypeOK, room, paging, ghost
<1>3. CASE Posted
  <2>1. sending' \in [phase : {"none", "sent", "posted"}, id : 0..MaxMessages]
    BY <1>3, TakesType DEF Posted, Ids
  <2> QED
    BY <1>3, <2>1, TakesType DEF Posted, TypeOK, paging
<1>4. CASE Acknowledged
  <2>1. /\ shown' \in Rows
        /\ reload' \in Load /\ reload'.phase = reload.phase /\ reload'.before = reload.before
    BY <1>4, UpsertType DEF Acknowledged
  <2>2. missed' \subseteq Change
    BY <1>4 DEF Acknowledged, Unseen, TypeOK
  <2> QED
    BY <1>4, <2>1, <2>2 DEF Acknowledged, NotSending, TypeOK, room, paging
<1>5. CASE SendFails
  BY <1>5 DEF SendFails, NotSending, TypeOK, room, paging, ghost
<1> QED
  BY <1>1, <1>2, <1>3, <1>4, <1>5 DEF SendEnds

-----------------------------------------------------------------------------
\* The initial state.
LEMMA InitInductive == Init => Inductive
<1> USE RoomTimelineAssumption
<1> SUFFICES ASSUME Init
             PROVE  Inductive
  OBVIOUS
<1>1. history \in Seq(1..MaxVersion) /\ Len(history) <= MaxMessages
  BY DEF Init
<1>2. reload \in Load /\ reload.phase = "sent" /\ reload.before # 0
  BY NewLoads DEF Init
<1>3. older \in Load /\ older.phase = "none"
  BY NewLoads DEF Init
<1>4. shown \in Rows /\ missed \subseteq Change /\ own \subseteq Ids
  BY DEF Init, NoRows, Rows, Ids, Change
<1>5. /\ events \in Seq(Change) /\ cursor \in 0..MaxMessages /\ losses \in 0..MaxLosses
      /\ joined \in BOOLEAN /\ hasOlder \in BOOLEAN /\ loading = FALSE /\ raced \in BOOLEAN
      /\ unwinding = FALSE
  <2>1. events = <<>> /\ <<>> \in Seq(Change)
    BY DEF Init
  <2>2. /\ cursor = 0 /\ losses = 0
        /\ joined = FALSE /\ hasOlder = FALSE /\ loading = FALSE /\ raced = FALSE
        /\ unwinding = FALSE
    BY DEF Init
  <2>3. cursor \in 0..MaxMessages /\ losses \in 0..MaxLosses
    BY <2>2
  <2>4. joined \in BOOLEAN /\ hasOlder \in BOOLEAN /\ raced \in BOOLEAN
    BY <2>2, Zenon
  <2> QED
    BY <2>1, <2>2, <2>3, <2>4
<1>6. /\ sending \in [phase : {"none", "sent", "posted"}, id : 0..MaxMessages]
      /\ sending.phase = "none"
  BY DEF Init, NotSending
<1>7. TypeOK
  BY <1>1, <1>2, <1>3, <1>4, <1>5, <1>6 DEF TypeOK
<1> QED
  BY <1>2, <1>3, <1>5, <1>6, <1>7 DEF Inductive, PlacesOK, OneRequest, LoadingHasWorker, fetching

\* Every step keeps the invariant.
LEMMA StepInductive == Inductive /\ [Next]_vars => Inductive'
<1>1. ASSUME Inductive, UNCHANGED vars
      PROVE  Inductive'
  BY <1>1 DEF vars, room, paging, ghost, fetching, Inductive, TypeOK, PlacesOK, OneRequest, LoadingHasWorker
<1> QED
  BY <1>1, PlatformStep, ReloadStep, OlderStep, MessageStep DEF Next

(***************************************************************************)
(* The flag that refuses to load older history is up exactly while a       *)
(* request is out or a cancelled worker still has to clear it, for rooms   *)
(* and pages of any size and whatever was cancelled or failed: the finally *)
(* clause of a cancelled worker never clears it under the request of the   *)
(* next one, because that one looked at it first (_load_older_messages).   *)
(***************************************************************************)
THEOREM LoadingAlwaysHasWorker == Spec => []LoadingHasWorker
<1>1. Inductive => LoadingHasWorker
  BY DEF Inductive
<1> QED
  BY <1>1, InitInductive, StepInductive, PTL DEF Spec

\* The types of the timeline's state.
THEOREM TimelineHasType == Spec => []TypeOK
<1>1. Inductive => TypeOK
  BY DEF Inductive
<1> QED
  BY <1>1, InitInductive, StepInductive, PTL DEF Spec

-----------------------------------------------------------------------------
(* The timeline is complete.  A version of a message is due when it is the *)
(* newest one and was missed or is on its way; rows are complete from a    *)
(* place on when they have each message that is not due.  The rows that    *)
(* are shown are complete, and those of the two pages under way will be.   *)

Newest(h, i) == [id |-> i, version |-> h[i]]
Due(h, e, m, i) ==
  Newest(h, i) \in m \/ \E k \in 1..Len(e) : e[k] = Newest(h, i)

Complete(h, e, m, o, rows, from) ==
  \A i \in 1..Len(h) :
    \/ Due(h, e, m, i)
    \/ /\ i >= from => rows[i] # 0
       /\ rows[i] = 0 \/ rows[i] = h[i] \/ i \in o

\* Rows are versions that the platform has had.
Past(h, rows) == \A i \in Ids : rows[i] # 0 => i <= Len(h) /\ rows[i] <= h[i]

\* Behind an event about a message comes its newest version, unless missed.
Lead(h, e, m) ==
  \A k \in 1..Len(e) :
    /\ e[k].id <= Len(h) /\ e[k].version <= h[e[k].id]
    /\ \/ Newest(h, e[k].id) \in m
       \/ \E l \in k..Len(e) : e[l] = Newest(h, e[k].id)

EventsLead == Lead(history, events, missed)

RowsArePast ==
  /\ Past(history, shown)
  /\ reload.phase = "answered" => Past(history, reload.page.rows)
  /\ older.phase = "answered" => Past(history, older.page.rows)

OlderAsked == older.phase \in {"sent", "answered"}

PlacesArePast ==
  /\ cursor <= Len(history)
  /\ OlderAsked => older.before <= Len(history)
  /\ older.phase = "answered" =>
       /\ older.page.cursor < older.before
       /\ \A i \in Ids : older.page.rows[i] # 0 => i < older.before
  /\ reload.phase = "answered" => reload.page.cursor <= Len(history)
  /\ reload.phase = "sent" => reload.before = MaxMessages + 1 /\ ~reload.raced
  /\ sending.phase = "posted" => sending.id \in own /\ sending.id <= Len(history)

\* The older page under way ends where the rows shown begin.
OlderFollows == ~raced /\ OlderAsked => older.before = cursor

\* The latest page has what may be shown by the time it is applied.
ReloadCovers ==
  reload.phase = "answered" =>
    \A i \in Ids : i >= reload.page.cursor =>
      /\ i <= cursor => reload.page.rows[i] # 0
      /\ OlderAsked /\ i < older.before => reload.page.rows[i] # 0
      /\ ~reload.raced /\ shown[i] # 0 => reload.page.rows[i] # 0

ShownIsComplete ==
  ~raced => Complete(history, events, missed, own, shown, cursor)
ReloadIsComplete ==
  reload.phase = "answered" /\ ~reload.raced =>
    Complete(history, events, missed, own, reload.page.rows, reload.page.cursor)
OlderIsComplete ==
  older.phase = "answered" /\ ~raced =>
    Complete(history, events, missed, own, Prepend(older.page.rows), older.page.cursor)

RowsAreComplete == ShownIsComplete /\ ReloadIsComplete /\ OlderIsComplete

TimelineInv ==
  /\ Inductive /\ EventsLead /\ RowsArePast /\ PlacesArePast
  /\ OlderFollows /\ ReloadCovers /\ RowsAreComplete

\* Rows stay complete while the room only changes what is due.
LEMMA StaysComplete ==
  ASSUME NEW h, NEW e, NEW m, NEW o, NEW h2, NEW e2, NEW m2, NEW o2,
         NEW rows, NEW from,
         Complete(h, e, m, o, rows, from),
         o \subseteq o2,
         \A j \in 1..Len(h2) :
           \/ Due(h2, e2, m2, j)
           \/ j \in 1..Len(h) /\ h2[j] = h[j] /\ ~Due(h, e, m, j)
  PROVE  Complete(h2, e2, m2, o2, rows, from)
BY DEF Complete

\* What is struck off the list of missed versions: first versions of messages
\* that are shown.  Rows that have these messages stay complete.
LEMMA ForgetsShown ==
  ASSUME NEW h \in Seq(1..MaxVersion), Len(h) <= MaxMessages,
         NEW e, NEW m \in SUBSET Change, NEW o,
         NEW rows \in Rows, NEW from \in Nat, NEW s \in Rows,
         Complete(h, e, m, o, rows, from), Past(h, rows),
         \A i \in Ids : s[i] # 0 /\ i >= from => rows[i] # 0
  PROVE  Complete(h, e, {x \in m : x.version > 1 \/ s[x.id] = 0}, o, rows, from)
<1> DEFINE m2 == {x \in m : x.version > 1 \/ s[x.id] = 0}
<1> SUFFICES ASSUME NEW i \in 1..Len(h), ~Due(h, e, m2, i)
             PROVE  /\ i >= from => rows[i] # 0
                    /\ rows[i] = 0 \/ rows[i] = h[i] \/ i \in o
  BY DEF Complete
<1>1. CASE ~Due(h, e, m, i)
  BY <1>1 DEF Complete
<1>2. CASE Due(h, e, m, i)
  <2>1. Newest(h, i) \in m /\ Newest(h, i) \notin m2
    BY <1>2 DEF Due
  <2>2. ~(h[i] > 1) /\ s[i] # 0
    BY <2>1 DEF Newest
  <2>3. i \in Ids /\ h[i] \in 1..MaxVersion /\ MaxVersion \in Nat /\ rows[i] \in 0..MaxVersion
    BY RoomTimelineAssumption DEF Ids, Rows
  <2>4. h[i] = 1
    BY <2>2, <2>3
  <2>5. rows[i] # 0 => rows[i] <= 1
    BY <2>3, <2>4 DEF Past
  <2>6. rows[i] = 0 \/ rows[i] = h[i]
    BY <2>3, <2>4, <2>5
  <2> QED
    BY <2>2, <2>3, <2>6
<1> QED
  BY <1>1, <1>2

\* The versions of a history.
LEMMA Versions ==
  ASSUME NEW S, NEW h \in Seq(S)
  PROVE  Len(h) \in Nat /\ \A i \in 1..Len(h) : h[i] \in S
OBVIOUS

\* The events still lead to what is newest.
LEMMA ForgetsLead ==
  ASSUME NEW h \in Seq(1..MaxVersion), NEW e \in Seq(Change), NEW m \in SUBSET Change,
         NEW s, Lead(h, e, m)
  PROVE  Lead(h, e, {x \in m : x.version > 1 \/ s[x.id] = 0})
<1> DEFINE m2 == {x \in m : x.version > 1 \/ s[x.id] = 0}
<1> SUFFICES ASSUME NEW k \in 1..Len(e), Newest(h, e[k].id) \notin m2
             PROVE  \E l \in k..Len(e) : e[l] = Newest(h, e[k].id)
  BY DEF Lead
<1>1. CASE Newest(h, e[k].id) \notin m
  BY <1>1 DEF Lead
<1>2. CASE Newest(h, e[k].id) \in m
  <2>1. ~(h[e[k].id] > 1)
    BY <1>2 DEF Newest
  <2>2. e[k] \in Change
    OBVIOUS
  <2>3. e[k].id \in 1..MaxMessages /\ e[k].version \in 1..MaxVersion
    BY <2>2 DEF Change, Ids
  <2>4. e[k].id <= Len(h) /\ e[k].version <= h[e[k].id]
    BY Zenon DEF Lead
  <2>5. h[e[k].id] \in 1..MaxVersion
    <3>1. Len(h) \in Nat /\ \A i \in 1..Len(h) : h[i] \in 1..MaxVersion
      BY Versions
    <3>2. e[k].id \in 1..Len(h)
      BY <2>3, <2>4, <3>1
    <3> QED
      BY <3>1, <3>2
  <2>6. h[e[k].id] = 1 /\ e[k].version = 1
    BY <2>1, <2>3, <2>4, <2>5, RoomTimelineAssumption
  <2>7. e[k] = [id |-> e[k].id, version |-> e[k].version]
    BY <2>2 DEF Change
  <2>8. e[k] = Newest(h, e[k].id)
    BY <2>6, <2>7 DEF Newest
  <2> QED
    BY <2>8
<1> QED
  BY <1>1, <1>2

\* A page (fetch_latest_messages): the newest versions of the messages from
\* its cursor up to where it ends.
LEMMA PageFacts ==
  ASSUME TypeOK, NEW before \in 1..(MaxMessages + 1), NEW page, page = PageBefore(before)
  PROVE  /\ page \in Page /\ page.cursor < before /\ page.cursor <= Len(history)
         /\ \A i \in Ids : page.rows[i] # 0 =>
              i <= Len(history) /\ page.rows[i] = history[i] /\ i < before
         /\ \A i \in Ids : i >= page.cursor /\ i < before /\ i <= Len(history) =>
              page.rows[i] # 0
<1> USE RoomTimelineAssumption
<1> DEFINE last == IF before > Len(history) THEN Len(history) ELSE before - 1
<1> DEFINE first == IF last > Limit THEN last - Limit + 1 ELSE 1
<1>1. Len(history) \in 0..MaxMessages
  BY DEF TypeOK
<1>2. /\ last \in Nat /\ last <= Len(history) /\ last < before
      /\ \A i \in Ids : i < before /\ i <= Len(history) => i <= last
  BY <1>1 DEF Ids
<1>3. first \in Nat \ {0} /\ (first > 1 => first <= last)
  BY <1>2
<1>4. page = [rows |-> [i \in Ids |-> IF i \in first..last THEN history[i] ELSE 0],
              cursor |-> IF first > 1 THEN first ELSE 0,
              more |-> first > 1]
  BY DEF PageBefore
<1> HIDE DEF last, first
<1>5. page \in Page
  BY PageType
<1>6. page.cursor < before /\ page.cursor <= Len(history)
  BY <1>1, <1>2, <1>3, <1>4
<1>7. \A i \in Ids : page.rows[i] = IF i \in first..last THEN history[i] ELSE 0
  BY <1>4
<1>8. \A i \in Ids : page.rows[i] # 0 =>
        i <= Len(history) /\ page.rows[i] = history[i] /\ i < before
  BY <1>1, <1>2, <1>3, <1>7 DEF Ids
<1>9. ASSUME NEW i \in Ids, i >= page.cursor, i < before, i <= Len(history)
      PROVE  page.rows[i] # 0
  <2>1. i \in first..last
    BY <1>2, <1>3, <1>4, <1>9 DEF Ids
  <2>2. history[i] # 0
    BY <1>9 DEF TypeOK, Ids
  <2> QED
    BY <1>7, <2>1, <2>2
<1> QED
  BY <1>5, <1>6, <1>8, <1>9

\* What an answer makes of a load.
LEMMA Answers ==
  ASSUME NEW l \in Load
  PROVE  \A page \in Page :
           /\ [l EXCEPT !.phase = "answered", !.page = page].phase = "answered"
           /\ [l EXCEPT !.phase = "answered", !.page = page].page = page
           /\ [l EXCEPT !.phase = "answered", !.page = page].before = l.before
           /\ [l EXCEPT !.phase = "answered", !.page = page].raced = l.raced
BY DEF Load

-----------------------------------------------------------------------------
(* The platform's steps.                                                   *)

\* A version that is announced is due, and what was due still is.
LEMMA AnnouncedIsDue ==
  ASSUME TypeOK, EventsLead, NEW i \in Ids, NEW v \in 1..MaxVersion, Announce(i, v),
         history' \in Seq(1..MaxVersion), Len(history') >= Len(history),
         i <= Len(history'), history'[i] = v,
         i <= Len(history) => history[i] <= v,
         \A j \in 1..Len(history') : j # i => j <= Len(history) /\ history'[j] = history[j]
  PROVE  /\ EventsLead'
         /\ Due(history', events', missed', i)
         /\ \A j \in 1..Len(history) : j # i /\ Due(history, events, missed, j) =>
              Due(history', events', missed', j)
<1> DEFINE change == [id |-> i, version |-> v]
<1>1. /\ change = Newest(history', i)
      /\ \A j \in 1..Len(history) : j # i => Newest(history', j) = Newest(history, j)
  <2>1. Len(history) \in Nat /\ Len(history') \in Nat
    BY DEF TypeOK
  <2> QED
    BY <2>1 DEF Newest
<1>2. change \in Change
  BY DEF Change
<1>3. events \in Seq(Change) /\ Len(history) \in Nat /\ Len(history') \in Nat
  BY DEF TypeOK
<1>4. \A k \in 1..Len(events) :
        /\ events[k].id \in 1..Len(history)
        /\ events[k].version <= history[events[k].id]
        /\ events[k].id <= Len(history')
        /\ events[k].version <= history'[events[k].id]
  <2> SUFFICES ASSUME NEW k \in 1..Len(events)
               PROVE  /\ events[k].id \in 1..Len(history)
                      /\ events[k].version <= history[events[k].id]
                      /\ events[k].id <= Len(history')
                      /\ events[k].version <= history'[events[k].id]
    OBVIOUS
  <2>1. events[k] \in Change
    BY <1>3
  <2>2. events[k].id \in 1..MaxMessages /\ events[k].version \in 1..MaxVersion
    BY <2>1 DEF Change, Ids
  <2>3. events[k].id <= Len(history) /\ events[k].version <= history[events[k].id]
    BY Zenon DEF EventsLead, Lead
  <2>4. events[k].id \in 1..Len(history) /\ events[k].id \in 1..Len(history')
    BY <1>3, <2>2, <2>3
  <2>5. CASE events[k].id = i
    <3>1. history[i] \in 1..MaxVersion
      BY <2>4, <2>5, Versions DEF TypeOK
    <3> QED
      BY <2>2, <2>3, <2>4, <2>5, <3>1, RoomTimelineAssumption
  <2>6. CASE events[k].id # i
    BY <2>3, <2>4, <2>6
  <2> QED
    BY <2>5, <2>6
<1> HIDE DEF change
<1>5. CASE joined
  <2>1. events' = Append(events, change) /\ missed' = missed
    BY <1>5 DEF Announce, change
  <2>2. /\ Len(events') = Len(events) + 1 /\ events'[Len(events) + 1] = change
        /\ \A k \in 1..Len(events) : events'[k] = events[k]
        /\ Len(events) \in Nat
    BY <1>2, <1>3, <2>1
  <2>3. Due(history', events', missed', i)
    BY <1>1, <2>2 DEF Due
  <2>4. \A j \in 1..Len(history) : j # i /\ Due(history, events, missed, j) =>
          Due(history', events', missed', j)
    BY <1>1, <2>1, <2>2 DEF Due
  <2>5. ASSUME NEW k \in 1..Len(events')
        PROVE  /\ events'[k].id <= Len(history') /\ events'[k].version <= history'[events'[k].id]
               /\ \/ Newest(history', events'[k].id) \in missed'
                  \/ \E l \in k..Len(events') : events'[l] = Newest(history', events'[k].id)
    <3>1. CASE k = Len(events) + 1
      <4>1. events'[k].id = i /\ events'[k].version = v
        BY <2>2, <3>1 DEF change
      <4> QED
        BY <1>1, <2>2, <3>1, <4>1
    <3>2. CASE k \in 1..Len(events) /\ events[k].id = i
      BY <1>1, <1>4, <2>2, <3>2
    <3>3. CASE k \in 1..Len(events) /\ events[k].id # i
      <4>1. Newest(history', events[k].id) = Newest(history, events[k].id)
        BY <1>1, <1>4, <3>3
      <4>2. \/ Newest(history, events[k].id) \in missed
            \/ \E l \in k..Len(events) : events[l] = Newest(history, events[k].id)
        BY <3>3, Zenon DEF EventsLead, Lead
      <4>3. \A l \in k..Len(events) : l \in k..Len(events') /\ events'[l] = events[l]
        BY <2>2, <3>3
      <4>4. \/ Newest(history', events[k].id) \in missed'
            \/ \E l \in k..Len(events') : events'[l] = Newest(history', events[k].id)
        BY <2>1, <4>1, <4>2, <4>3
      <4> QED
        BY <1>4, <2>2, <3>3, <4>4
    <3> QED
      BY <2>2, <3>1, <3>2, <3>3
  <2> QED
    BY <2>3, <2>4, <2>5 DEF EventsLead, Lead
<1>6. CASE ~joined
  <2>1. events' = events /\ missed' = missed \cup {change}
    BY <1>6 DEF Announce, change
  <2>2. Due(history', events', missed', i)
    BY <1>1, <2>1 DEF Due
  <2>3. \A j \in 1..Len(history) : j # i /\ Due(history, events, missed, j) =>
          Due(history', events', missed', j)
    BY <1>1, <2>1 DEF Due
  <2>4. ASSUME NEW k \in 1..Len(events')
        PROVE  /\ events'[k].id <= Len(history') /\ events'[k].version <= history'[events'[k].id]
               /\ \/ Newest(history', events'[k].id) \in missed'
                  \/ \E l \in k..Len(events') : events'[l] = Newest(history', events'[k].id)
    <3>1. CASE events[k].id = i
      BY <1>1, <1>4, <2>1, <3>1
    <3>2. CASE events[k].id # i
      <4>1. Newest(history', events[k].id) = Newest(history, events[k].id)
        BY <1>1, <1>4, <2>1, <3>2
      <4>2. \/ Newest(history, events[k].id) \in missed
            \/ \E l \in k..Len(events) : events[l] = Newest(history, events[k].id)
        BY <2>1, Zenon DEF EventsLead, Lead
      <4> QED
        BY <1>4, <2>1, <4>1, <4>2
    <3> QED
      BY <3>1, <3>2
  <2> QED
    BY <2>2, <2>3, <2>4 DEF EventsLead, Lead
<1> QED
  BY <1>5, <1>6

\* Rows that are complete, and are shown or loaded, stay complete and past
\* while the room only grows.
LEMMA RoomGrows ==
  ASSUME TimelineInv, TypeOK',
         UNCHANGED <<shown, cursor, reload, older, raced>>, own \subseteq own',
         Len(history) <= Len(history'),
         \A j \in 1..Len(history) : history[j] <= history'[j],
         \A j \in 1..Len(history') :
           \/ Due(history', events', missed', j)
           \/ j \in 1..Len(history) /\ history'[j] = history[j] /\ ~Due(history, events, missed, j)
  PROVE  /\ RowsArePast' /\ OlderFollows' /\ ReloadCovers' /\ RowsAreComplete'
         /\ (sending'.phase = "posted" => sending'.id \in own' /\ sending'.id <= Len(history'))
              => PlacesArePast'
<1> USE DEF OlderAsked
<1>1. ASSUME NEW rows \in Rows, Past(history, rows)
      PROVE  Past(history', rows)
  <2> SUFFICES ASSUME NEW i \in Ids, rows[i] # 0
               PROVE  i <= Len(history') /\ rows[i] <= history'[i]
    BY DEF Past
  <2>1. i <= Len(history) /\ rows[i] <= history[i] /\ rows[i] \in Nat
    BY <1>1 DEF Past, Rows
  <2>2. i \in 1..Len(history) /\ i \in 1..Len(history')
    BY <2>1 DEF Ids, TypeOK
  <2>3. history[i] \in 1..MaxVersion /\ history'[i] \in 1..MaxVersion
    BY <2>2, Versions DEF TimelineInv, Inductive, TypeOK
  <2> QED
    BY <2>1, <2>2, <2>3
<1>2. ASSUME NEW rows, NEW from, Complete(history, events, missed, own, rows, from)
      PROVE  Complete(history', events', missed', own', rows, from)
  BY <1>2, StaysComplete
<1>3. /\ shown \in Rows
      /\ reload.page.rows \in Rows /\ older.page.rows \in Rows
  BY DEF TimelineInv, Inductive, TypeOK, Load, Page
<1>4. RowsArePast'
  BY <1>1, <1>3 DEF TimelineInv, RowsArePast
<1>5. OlderFollows' /\ ReloadCovers'
  BY DEF TimelineInv, OlderFollows, ReloadCovers
<1>6. RowsAreComplete'
  BY <1>2 DEF TimelineInv, RowsAreComplete, ShownIsComplete, ReloadIsComplete, OlderIsComplete,
              Prepend
<1>7. ASSUME sending'.phase = "posted" => sending'.id \in own' /\ sending'.id <= Len(history')
      PROVE  PlacesArePast'
  <2>1. Len(history) \in Nat /\ Len(history') \in Nat
    BY DEF TypeOK, TimelineInv, Inductive
  <2>2. cursor \in Nat /\ older.before \in Nat /\ reload.page.cursor \in Nat
    BY DEF TimelineInv, Inductive, TypeOK, Load, Page
  <2> QED
    BY <1>7, <2>1, <2>2 DEF TimelineInv, PlacesArePast
<1> QED
  BY <1>4, <1>5, <1>6, <1>7

\* What the steps about the room have in common.
LEMMA NewMessage ==
  ASSUME TimelineInv, TakesMessage
  PROVE  /\ history' \in Seq(1..MaxVersion) /\ Len(history') = Len(history) + 1
         /\ Len(history) \in Nat
         /\ EventsLead' /\ Due(history', events', missed', Len(history'))
         /\ \A j \in 1..Len(history) :
              /\ history'[j] = history[j]
              /\ Due(history, events, missed, j) => Due(history', events', missed', j)
<1> USE RoomTimelineAssumption
<1>1. TypeOK /\ EventsLead
  BY DEF TimelineInv, Inductive
<1>2. Len(history) \in Nat /\ Len(history) + 1 \in Ids /\ 1 \in 1..MaxVersion
  BY <1>1, TakesType DEF TypeOK
<1>3. /\ history' \in Seq(1..MaxVersion) /\ Len(history') = Len(history) + 1
      /\ history'[Len(history) + 1] = 1
      /\ \A j \in 1..Len(history) : history'[j] = history[j]
  BY <1>1, <1>2 DEF TakesMessage, TypeOK
<1>4. Announce(Len(history) + 1, 1)
  BY DEF TakesMessage
<1>5. \A j \in 1..Len(history') : j # Len(history) + 1 =>
        j <= Len(history) /\ history'[j] = history[j]
  BY <1>2, <1>3
<1>6. /\ EventsLead' /\ Due(history', events', missed', Len(history) + 1)
      /\ \A j \in 1..Len(history) : j # Len(history) + 1 /\ Due(history, events, missed, j) =>
           Due(history', events', missed', j)
  BY <1>1, <1>2, <1>3, <1>4, <1>5, AnnouncedIsDue
<1>7. \A j \in 1..Len(history) : j # Len(history) + 1
  BY <1>2
<1> QED
  BY <1>2, <1>3, <1>6, <1>7

\* Post, Update, Join and Lose.
LEMMA PlatformKeeps ==
  ASSUME TimelineInv, TypeOK',
         Post \/ (\E i \in 1..Len(history) : Update(i)) \/ Join \/ Lose
  PROVE  /\ EventsLead' /\ RowsArePast' /\ PlacesArePast' /\ OlderFollows'
         /\ ReloadCovers' /\ RowsAreComplete'
<1>1. /\ TypeOK /\ EventsLead /\ Len(history) \in Nat
      /\ sending.phase = "posted" => sending.id \in own /\ sending.id <= Len(history)
      /\ sending.id \in Nat
      /\ \A j \in 1..Len(history) : history[j] \in Nat
  <2>1. TypeOK /\ EventsLead /\ history \in Seq(1..MaxVersion)
    BY DEF TimelineInv, Inductive, TypeOK
  <2>2. Len(history) \in Nat /\ \A j \in 1..Len(history) : history[j] \in 1..MaxVersion
    BY <2>1, Versions
  <2>3. sending.phase = "posted" => sending.id \in own /\ sending.id <= Len(history)
    BY DEF TimelineInv, PlacesArePast
  <2>4. sending.id \in Nat
    BY <2>1, RoomTimelineAssumption DEF TypeOK
  <2> QED
    BY <2>1, <2>2, <2>3, <2>4, RoomTimelineAssumption
<1>2. CASE Post
  <2>1. TakesMessage
    BY <1>2 DEF Post
  <2>2. UNCHANGED <<shown, cursor, reload, older, sending, raced>> /\ own' = own
    BY <1>2 DEF fetching, Post, paging
  <2>3. /\ Len(history') = Len(history) + 1 /\ EventsLead'
        /\ Due(history', events', missed', Len(history'))
        /\ \A j \in 1..Len(history) :
             /\ history'[j] = history[j]
             /\ Due(history, events, missed, j) => Due(history', events', missed', j)
    BY <2>1, NewMessage
  <2>4. \A j \in 1..Len(history') : j \in 1..Len(history) \/ j = Len(history')
    BY <1>1, <2>3
  <2> QED
    BY <1>1, <2>2, <2>3, <2>4, RoomGrows
<1>3. ASSUME NEW i \in 1..Len(history), Update(i)
      PROVE  /\ EventsLead' /\ RowsArePast' /\ PlacesArePast' /\ OlderFollows'
             /\ ReloadCovers' /\ RowsAreComplete'
  <2>1. i \in Ids /\ history[i] \in 1..MaxVersion /\ history[i] + 1 \in 1..MaxVersion
    <3>1. history[i] \in 1..MaxVersion
      BY <1>1, Versions DEF TypeOK
    <3>2. i \in Ids
      BY <1>1, RoomTimelineAssumption DEF TypeOK, Ids
    <3> QED
      BY <1>3, <3>1, <3>2, RoomTimelineAssumption DEF Update
  <2>2. /\ Len(history') = Len(history) /\ history'[i] = history[i] + 1
        /\ \A j \in 1..Len(history) : j # i => history'[j] = history[j]
        /\ history' \in Seq(1..MaxVersion)
    BY <1>1, <1>3, <2>1 DEF Update, TypeOK
  <2>3. UNCHANGED <<shown, cursor, reload, older, sending, raced>> /\ own' = own
    BY <1>3 DEF fetching, Update, paging
  <2>4. Announce(i, history[i] + 1)
    BY <1>3 DEF Update
  <2>5. /\ EventsLead' /\ Due(history', events', missed', i)
        /\ \A j \in 1..Len(history) : j # i /\ Due(history, events, missed, j) =>
             Due(history', events', missed', j)
    BY <1>1, <2>1, <2>2, <2>4, AnnouncedIsDue
  <2>6. ASSUME NEW j \in 1..Len(history)
        PROVE  history[j] <= history'[j]
    <3>1. history[j] \in Nat /\ (j # i => history'[j] = history[j])
      BY <1>1, <2>2
    <3> QED
      BY <2>2, <3>1
  <2>7. \A j \in 1..Len(history') :
          \/ Due(history', events', missed', j)
          \/ j \in 1..Len(history) /\ history'[j] = history[j] /\ ~Due(history, events, missed, j)
    BY <2>2, <2>5
  <2>8. Len(history) <= Len(history')
    BY <1>1, <2>2
  <2> QED
    BY <1>1, <2>2, <2>3, <2>5, <2>6, <2>7, <2>8, RoomGrows
<1>4. CASE Join
  <2>1. UNCHANGED <<history, events, missed, own, shown, cursor, reload, older, sending, raced>>
    BY <1>4 DEF fetching, Join, paging, ghost
  <2>2. EventsLead'
    BY <1>1, <2>1 DEF EventsLead
  <2> QED
    BY <1>1, <2>1, <2>2, RoomGrows
<1>5. CASE Lose
  <2>1. PICK n \in 0..Len(events) :
          /\ events' = SubSeq(events, 1, n)
          /\ missed' = missed \cup {events[k] : k \in (n + 1)..Len(events)}
    BY <1>5 DEF Lose
  <2>2. UNCHANGED <<history, own, shown, cursor, reload, older, sending, raced>>
    BY <1>5 DEF fetching, Lose, paging
  <2>3. /\ Len(events') = n /\ Len(events) \in Nat /\ n <= Len(events)
        /\ \A k \in 1..n : events'[k] = events[k]
    BY <1>1, <2>1 DEF TypeOK
  <2>4. \A k \in 1..Len(events) : k \in 1..n \/ events[k] \in missed'
    BY <2>1, <2>3
  <2>5. \A j : Due(history, events, missed, j) => Due(history', events', missed', j)
    BY <2>1, <2>2, <2>3, <2>4 DEF Due, Newest
  <2>6. ASSUME NEW k \in 1..n
        PROVE  /\ events'[k].id <= Len(history') /\ events'[k].version <= history'[events'[k].id]
               /\ \/ Newest(history', events'[k].id) \in missed'
                  \/ \E l \in k..n : events'[l] = Newest(history', events'[k].id)
    <3>1. k \in 1..Len(events) /\ events'[k] = events[k]
      BY <2>3
    <3>2. /\ events[k].id <= Len(history) /\ events[k].version <= history[events[k].id]
          /\ \/ Newest(history, events[k].id) \in missed
             \/ \E l \in k..Len(events) : events[l] = Newest(history, events[k].id)
      BY <1>1, <3>1, Zenon DEF EventsLead, Lead
    <3>3. \A l \in k..Len(events) : (l \in k..n /\ events'[l] = events[l]) \/ events[l] \in missed'
      BY <2>3, <2>4, <3>1
    <3>4. missed \subseteq missed'
      BY <2>1
    <3> QED
      BY <2>2, <3>1, <3>2, <3>3, <3>4 DEF Newest
  <2>7. EventsLead'
    BY <2>3, <2>6 DEF EventsLead, Lead
  <2> QED
    BY <1>1, <2>2, <2>5, <2>7, RoomGrows
<1> QED
  BY <1>2, <1>3, <1>4, <1>5

-----------------------------------------------------------------------------
(* The latest page.                                                        *)

LEMMA ReloadKeeps ==
  ASSUME TimelineInv, TypeOK', Reload \/ ReloadEnds
  PROVE  /\ EventsLead' /\ RowsArePast' /\ PlacesArePast' /\ OlderFollows'
         /\ ReloadCovers' /\ RowsAreComplete'
<1> USE DEF OlderAsked
<1>1. TypeOK /\ RoomTimelineAssumption
  BY RoomTimelineAssumption DEF TimelineInv, Inductive
<1>2. ASSUME reload'.phase \in {"none", "sent"},
             reload'.phase = "sent" => reload'.before = MaxMessages + 1 /\ ~reload'.raced,
             UNCHANGED <<room, shown, paging, fetching, sending, ghost>>
      PROVE  /\ EventsLead' /\ RowsArePast' /\ PlacesArePast' /\ OlderFollows'
             /\ ReloadCovers' /\ RowsAreComplete'
  <2>1. reload'.phase # "answered"
    BY <1>2
  <2>2. UNCHANGED <<history, events, missed, own, shown, cursor, older, sending, raced>>
    BY <1>2 DEF fetching, room, paging, ghost
  <2>3. EventsLead' /\ RowsArePast' /\ OlderFollows' /\ ReloadCovers'
    BY <2>1, <2>2 DEF TimelineInv, EventsLead, RowsArePast, OlderFollows, ReloadCovers
  <2>4. PlacesArePast'
    BY <1>2, <2>1, <2>2 DEF TimelineInv, PlacesArePast
  <2>5. RowsAreComplete'
    BY <2>1, <2>2 DEF TimelineInv, RowsAreComplete, ShownIsComplete, ReloadIsComplete,
                      OlderIsComplete, Prepend
  <2> QED
    BY <2>3, <2>4, <2>5
<1>3. NoLoad.raced = FALSE
  BY DEF NoLoad
<1>4. CASE Reload
  <2>1. reload'.phase = "sent" /\ reload'.before = MaxMessages + 1 /\ ~reload'.raced
    BY <1>1, <1>4 DEF Reload, Asked, NoLoad
  <2> QED
    BY <1>2, <1>4, <2>1 DEF Reload
<1>5. CASE ReloadFails
  BY <1>2, <1>5, NewLoads DEF ReloadFails
<1>6. CASE ReloadAnswered
  <2> DEFINE page == PageBefore(reload.before)
  <2>1. reload.phase = "sent" /\ reload.before = MaxMessages + 1 /\ ~reload.raced
    BY <1>6 DEF ReloadAnswered, TimelineInv, PlacesArePast
  <2>2. /\ page \in Page /\ page.cursor < reload.before /\ page.cursor <= Len(history)
        /\ \A i \in Ids : page.rows[i] # 0 => i <= Len(history) /\ page.rows[i] = history[i]
        /\ \A i \in Ids : i >= page.cursor /\ i < reload.before /\ i <= Len(history) =>
             page.rows[i] # 0
    <3>1. reload.before \in 1..(MaxMessages + 1)
      BY <1>1, <2>1
    <3> QED
      BY <1>1, <3>1, PageFacts
  <2> HIDE DEF page
  <2>3. reload'.phase = "answered" /\ reload'.page = page /\ ~reload'.raced
    <3>1. reload' = [reload EXCEPT !.phase = "answered", !.page = page]
      BY <1>6 DEF ReloadAnswered, page
    <3>2. reload \in Load
      BY <1>1 DEF TypeOK
    <3>3. reload'.phase = "answered" /\ reload'.page = page /\ reload'.raced = reload.raced
      BY <2>2, <3>1, <3>2, Answers
    <3> QED
      BY <2>1, <3>3
  <2>4. UNCHANGED <<history, events, missed, own, shown, cursor, older, sending, raced>>
    BY <1>6 DEF fetching, ReloadAnswered, room, paging, ghost
  <2>5. \A i \in 1..Len(history) : i \in Ids /\ i < reload.before /\ history[i] \in Nat
    BY <1>1, <2>1, Versions DEF Ids, TypeOK
  <2>6. \A i \in Ids : i >= page.cursor /\ i <= Len(history) => page.rows[i] # 0
    BY <1>1, <2>1, <2>2 DEF Ids
  <2>7. Past(history, page.rows)
    BY <2>2, <2>5 DEF Past, Ids, Page, Rows
  <2>8. EventsLead' /\ OlderFollows'
    BY <2>4 DEF TimelineInv, EventsLead, OlderFollows
  <2>9. RowsArePast'
    BY <2>3, <2>4, <2>7 DEF TimelineInv, RowsArePast
  <2>10. PlacesArePast'
    BY <2>2, <2>3, <2>4 DEF TimelineInv, PlacesArePast
  <2>11. ReloadCovers'
    <3> SUFFICES ASSUME NEW i \in Ids, i >= page.cursor,
                        \/ i <= cursor
                        \/ OlderAsked /\ i < older.before
                        \/ shown[i] # 0
                 PROVE  page.rows[i] # 0
      BY <2>3, <2>4 DEF ReloadCovers
    <3>1. cursor <= Len(history) /\ (OlderAsked => older.before <= Len(history))
      BY DEF TimelineInv, PlacesArePast
    <3>2. shown[i] # 0 => i <= Len(history)
      BY DEF TimelineInv, RowsArePast, Past
    <3>3. cursor \in Nat /\ older.before \in Nat /\ Len(history) \in Nat
      BY <1>1 DEF TypeOK, Load
    <3>4. i <= Len(history)
      BY <3>1, <3>2, <3>3 DEF Ids
    <3> QED
      BY <2>6, <3>4
  <2>12. Complete(history, events, missed, own, page.rows, page.cursor)
    BY <2>2, <2>5, <2>6 DEF Complete
  <2>13. RowsAreComplete'
    BY <2>3, <2>4, <2>12 DEF TimelineInv, RowsAreComplete, ShownIsComplete, ReloadIsComplete,
                             OlderIsComplete, Prepend
  <2> QED
    BY <2>8, <2>9, <2>10, <2>11, <2>13
<1>7. CASE ReloadApplied
  <2>1. /\ reload.phase = "answered" /\ reload'.phase = "none"
        /\ shown' = reload.page.rows /\ cursor' = reload.page.cursor
        /\ missed' = {m \in missed : m.version > 1 \/ shown'[m.id] = 0}
        /\ ~raced' => ~reload.raced /\ ~OlderAsked
        /\ UNCHANGED <<history, events, own, older, sending>>
    BY <1>7, NewLoads DEF fetching, ReloadApplied, Unseen, room
  <2>2. /\ history \in Seq(1..MaxVersion) /\ Len(history) <= MaxMessages
        /\ events \in Seq(Change) /\ missed \in SUBSET Change
        /\ shown' \in Rows /\ cursor' \in Nat
    BY <1>1 DEF TypeOK
  <2>3. EventsLead'
    BY <2>1, <2>2, ForgetsLead DEF TimelineInv, EventsLead
  <2>4. RowsArePast' /\ OlderFollows' /\ ReloadCovers' /\ PlacesArePast'
    BY <2>1 DEF TimelineInv, RowsArePast, OlderFollows, ReloadCovers, PlacesArePast
  <2>5. ASSUME ~raced'
        PROVE  Complete(history', events', missed', own', shown', cursor')
    <3>1. Complete(history, events, missed, own, shown', cursor') /\ Past(history, shown')
      BY <2>1, <2>5 DEF TimelineInv, RowsAreComplete, ReloadIsComplete, RowsArePast
    <3> QED
      BY <2>1, <2>2, <3>1, ForgetsShown
  <2>6. RowsAreComplete'
    BY <2>1, <2>5 DEF RowsAreComplete, ShownIsComplete, ReloadIsComplete, OlderIsComplete
  <2> QED
    BY <2>3, <2>4, <2>6
<1> QED
  BY <1>4, <1>5, <1>6, <1>7 DEF ReloadEnds

-----------------------------------------------------------------------------
(* The older page.                                                         *)

LEMMA OlderKeeps ==
  ASSUME TimelineInv, TypeOK', ScrollUp \/ OlderEnds
  PROVE  /\ EventsLead' /\ RowsArePast' /\ PlacesArePast' /\ OlderFollows'
         /\ ReloadCovers' /\ RowsAreComplete'
<1> USE DEF OlderAsked
<1>1. TypeOK /\ RoomTimelineAssumption
  BY RoomTimelineAssumption DEF TimelineInv, Inductive
<1>2. ASSUME older'.phase # "answered",
             OlderAsked' => older'.before = cursor,
             UNCHANGED <<history, events, missed, own, shown, cursor, reload, sending, raced>>
      PROVE  /\ EventsLead' /\ RowsArePast' /\ PlacesArePast' /\ OlderFollows'
             /\ ReloadCovers' /\ RowsAreComplete'
  <2>1. EventsLead' /\ RowsArePast' /\ OlderFollows'
    BY <1>2 DEF TimelineInv, EventsLead, RowsArePast, OlderFollows
  <2>2. PlacesArePast'
    BY <1>2 DEF TimelineInv, PlacesArePast
  <2>3. ReloadCovers'
    <3>1. cursor \in Nat
      BY <1>1 DEF TypeOK
    <3>2. \A i \in Ids : OlderAsked' /\ i < older'.before => i <= cursor
      BY <1>2, <3>1 DEF Ids
    <3> QED
      BY <1>2, <3>2 DEF TimelineInv, ReloadCovers
  <2>4. RowsAreComplete'
    BY <1>2 DEF TimelineInv, RowsAreComplete, ShownIsComplete, ReloadIsComplete, OlderIsComplete
  <2> QED
    BY <2>1, <2>2, <2>3, <2>4
<1>3. CASE ScrollUp
  <2>1. UNCHANGED <<history, events, missed, own, shown, cursor, reload, sending, raced>>
    BY <1>3 DEF ScrollUp, room, paging, ghost
  <2>2. older'.phase = "begun"
    BY <1>3, NewLoads, LoadTypes DEF ScrollUp
  <2> QED
    BY <1>2, <2>1, <2>2
<1>7. CASE Looks
  <2>1. UNCHANGED <<history, events, missed, own, shown, cursor, reload, sending, raced>>
    BY <1>7 DEF Looks, room, ghost
  <2>2. CASE Starts
    <3>1. cursor \in 0..(MaxMessages + 1)
      BY <1>1 DEF TypeOK
    <3>2. older'.phase = "sent" /\ older'.before = cursor
      BY <2>2, <3>1, NewLoads DEF Starts
    <3> QED
      BY <1>2, <2>1, <3>2
  <2>3. CASE older' = NoLoad
    BY <1>2, <2>1, <2>3, NewLoads
  <2> QED
    BY <1>7, <2>2, <2>3 DEF Looks
<1>8. CASE Unwinds
  <2>1. UNCHANGED <<history, events, missed, own, shown, cursor, reload, sending, raced, older>>
    BY <1>8 DEF Unwinds, room, ghost
  <2>2. older.phase # "answered"
    BY <1>8 DEF Unwinds, TimelineInv, Inductive, OneRequest
  <2>3. ~OlderAsked
    BY <1>8 DEF Unwinds, TimelineInv, Inductive, OneRequest
  <2> QED
    BY <1>2, <2>1, <2>2, <2>3
<1>4. CASE OlderFails
  <2>1. UNCHANGED <<history, events, missed, own, shown, cursor, reload, sending, raced>>
    BY <1>4 DEF OlderFails, room, ghost
  <2>2. older'.phase = "none"
    BY <1>4, NewLoads DEF OlderFails
  <2> QED
    BY <1>2, <2>1, <2>2
<1>5. CASE OlderAnswered
  <2> DEFINE page == PageBefore(older.before)
  <2>1. older.phase = "sent" /\ older.before \in 1..(MaxMessages + 1)
    BY <1>1, <1>5 DEF OlderAnswered, TypeOK, Load
  <2>2. /\ page \in Page /\ page.cursor < older.before
        /\ \A i \in Ids : page.rows[i] # 0 =>
             i <= Len(history) /\ page.rows[i] = history[i] /\ i < older.before
        /\ \A i \in Ids : i >= page.cursor /\ i < older.before /\ i <= Len(history) =>
             page.rows[i] # 0
    BY <1>1, <2>1, PageFacts
  <2> HIDE DEF page
  <2>3. older'.phase = "answered" /\ older'.page = page /\ older'.before = older.before
    <3>1. older' = [older EXCEPT !.phase = "answered", !.page = page]
      BY <1>5 DEF OlderAnswered, page
    <3>2. older \in Load
      BY <1>1 DEF TypeOK
    <3> QED
      BY <2>2, <3>1, <3>2, Answers
  <2>4. UNCHANGED <<history, events, missed, own, shown, cursor, reload, sending, raced>>
    BY <1>5 DEF OlderAnswered, room, paging, ghost
  <2>5. \A i \in 1..Len(history) : i \in Ids /\ history[i] \in Nat
    BY <1>1, Versions DEF Ids, TypeOK
  <2>6. Past(history, page.rows)
    BY <2>2, <2>5 DEF Past, Ids, Page, Rows
  <2>7. EventsLead' /\ OlderFollows' /\ RowsArePast'
    BY <2>1, <2>3, <2>4, <2>6 DEF TimelineInv, EventsLead, OlderFollows, RowsArePast
  <2>8. PlacesArePast'
    BY <2>1, <2>2, <2>3, <2>4 DEF TimelineInv, PlacesArePast
  <2>9. ReloadCovers'
    BY <2>1, <2>3, <2>4 DEF TimelineInv, ReloadCovers
  <2>10. ASSUME ~raced
         PROVE  Complete(history, events, missed, own, Prepend(page.rows), page.cursor)
    <3>1. older.before = cursor /\ Complete(history, events, missed, own, shown, cursor)
      BY <2>1, <2>10 DEF TimelineInv, OlderFollows, RowsAreComplete, ShownIsComplete
    <3> SUFFICES ASSUME NEW i \in 1..Len(history), ~Due(history, events, missed, i)
                 PROVE  /\ i >= page.cursor => Prepend(page.rows)[i] # 0
                        /\ \/ Prepend(page.rows)[i] = 0
                           \/ Prepend(page.rows)[i] = history[i]
                           \/ i \in own
      BY DEF Complete
    <3>2. /\ i \in Ids
          /\ Prepend(page.rows)[i] = IF shown[i] # 0 THEN shown[i] ELSE page.rows[i]
      BY <2>5 DEF Prepend
    <3>3. /\ i >= cursor => shown[i] # 0
          /\ shown[i] = 0 \/ shown[i] = history[i] \/ i \in own
      BY <3>1 DEF Complete
    <3>4. page.rows[i] = 0 \/ page.rows[i] = history[i]
      BY <2>2, <3>2
    <3>5. i >= page.cursor => i >= cursor \/ page.rows[i] # 0
      BY <1>1, <2>2, <3>1, <3>2 DEF TypeOK, Ids
    <3> QED
      BY <3>2, <3>3, <3>4, <3>5
  <2>12. RowsAreComplete'
    <3>1. ShownIsComplete' /\ ReloadIsComplete'
      BY <2>4 DEF TimelineInv, RowsAreComplete, ShownIsComplete, ReloadIsComplete
    <3>2. OlderIsComplete'
      BY <2>3, <2>4, <2>10 DEF OlderIsComplete, Prepend
    <3> QED
      BY <3>1, <3>2 DEF RowsAreComplete
  <2> QED
    BY <2>7, <2>8, <2>9, <2>12
<1>6. CASE OlderApplied
  <2>1. /\ older.phase = "answered" /\ older'.phase = "none"
        /\ shown' = Prepend(older.page.rows) /\ cursor' = older.page.cursor
        /\ missed' = {m \in missed : m.version > 1 \/ shown'[m.id] = 0}
        /\ UNCHANGED <<history, events, own, reload, sending, raced>>
    BY <1>6, NewLoads DEF OlderApplied, Unseen, room
  <2>2. /\ history \in Seq(1..MaxVersion) /\ Len(history) <= MaxMessages
        /\ events \in Seq(Change) /\ missed \in SUBSET Change
        /\ shown' \in Rows /\ cursor' \in Nat
        /\ reload.page.rows \in Rows /\ reload.page.cursor \in Nat
        /\ older.before \in Nat /\ Len(history) \in Nat
    <3>1. reload.page \in Page /\ older.page \in Page /\ older.before \in 0..(MaxMessages + 1)
      BY <1>1 DEF TypeOK, Load
    <3>2. reload.page.rows \in Rows /\ reload.page.cursor \in Nat
      BY <1>1, <3>1 DEF Page
    <3> QED
      BY <1>1, <3>1, <3>2 DEF TypeOK
  <2>3. \A i \in Ids : shown'[i] = IF shown[i] # 0 THEN shown[i] ELSE older.page.rows[i]
    BY <2>1 DEF Prepend
  <2>4. EventsLead'
    BY <2>1, <2>2, ForgetsLead DEF TimelineInv, EventsLead
  <2>5. Past(history, shown')
    BY <2>1, <2>3 DEF TimelineInv, RowsArePast, Past
  <2>6. RowsArePast' /\ OlderFollows'
    BY <2>1, <2>5 DEF TimelineInv, RowsArePast, OlderFollows
  <2>7. /\ cursor' < older.before /\ older.before <= Len(history)
        /\ \A i \in Ids : older.page.rows[i] # 0 => i < older.before
    BY <2>1 DEF TimelineInv, PlacesArePast
  <2>8. PlacesArePast'
    BY <2>1, <2>2, <2>7 DEF TimelineInv, PlacesArePast
  <2>9. ASSUME reload.phase = "answered", NEW i \in Ids, i >= reload.page.cursor
        PROVE  /\ i <= cursor' => reload.page.rows[i] # 0
               /\ ~reload.raced /\ shown'[i] # 0 => reload.page.rows[i] # 0
    <3>1. i < older.before => reload.page.rows[i] # 0
      BY <2>1, <2>9 DEF TimelineInv, ReloadCovers
    <3>2. ~reload.raced /\ shown[i] # 0 => reload.page.rows[i] # 0
      BY <2>9 DEF TimelineInv, ReloadCovers
    <3>3. i <= cursor' => i < older.before
      BY <2>2, <2>7 DEF Ids
    <3> QED
      BY <2>3, <2>7, <3>1, <3>2, <3>3
  <2>10. ReloadCovers'
    BY <2>1, <2>9 DEF ReloadCovers
  <2>11. ASSUME ~raced
         PROVE  Complete(history', events', missed', own', shown', cursor')
    <3>1. Complete(history, events, missed, own, shown', cursor')
      BY <2>1, <2>11 DEF TimelineInv, RowsAreComplete, OlderIsComplete
    <3>2. Complete(history, events, {m \in missed : m.version > 1 \/ shown'[m.id] = 0}, own,
                   shown', cursor')
      BY <2>2, <2>5, <3>1, ForgetsShown
    <3> QED
      BY <2>1, <3>2
  <2>12. ASSUME reload.phase = "answered", ~reload.raced
         PROVE  Complete(history', events', missed', own', reload.page.rows, reload.page.cursor)
    <3>1. /\ Complete(history, events, missed, own, reload.page.rows, reload.page.cursor)
          /\ Past(history, reload.page.rows)
      BY <2>12 DEF TimelineInv, RowsAreComplete, ReloadIsComplete, RowsArePast
    <3>2. \A i \in Ids : shown'[i] # 0 /\ i >= reload.page.cursor => reload.page.rows[i] # 0
      BY <2>9, <2>12
    <3>3. Complete(history, events, {m \in missed : m.version > 1 \/ shown'[m.id] = 0}, own,
                   reload.page.rows, reload.page.cursor)
      BY <2>2, <3>1, <3>2, ForgetsShown
    <3> QED
      BY <2>1, <3>3
  <2>13. RowsAreComplete'
    BY <2>1, <2>11, <2>12 DEF RowsAreComplete, ShownIsComplete, ReloadIsComplete, OlderIsComplete
  <2> QED
    BY <2>4, <2>6, <2>8, <2>10, <2>13
<1> QED
  BY <1>3, <1>4, <1>5, <1>6, <1>7, <1>8 DEF OlderEnds

-----------------------------------------------------------------------------
(* Realtime rows and the user's own messages.                              *)

\* A row that is inserted or replaced, with the newest version or with one
\* that is due to be replaced (append_message): what is due is m and e.
LEMMA UpsertKeeps ==
  ASSUME TimelineInv, NEW i \in 1..Len(history), NEW v \in 1..history[i], Upsert(i, v),
         UNCHANGED <<history, cursor, older, own, raced>>,
         NEW e, NEW m,
         \A j \in 1..Len(history) : j # i /\ Due(history, events, missed, j) =>
           Due(history, e, m, j),
         Due(history, e, m, i) \/ v = history[i] \/ i \in own,
         Due(history, events, missed, i) => Due(history, e, m, i) \/ v = history[i]
  PROVE  /\ reload'.phase = reload.phase /\ reload'.before = reload.before
         /\ reload'.page = reload.page
         /\ reload.phase # "answered" => reload'.raced = reload.raced
         /\ RowsArePast' /\ ReloadCovers' /\ shown' \in Rows
         /\ ~raced => Complete(history, e, m, own, shown', cursor)
         /\ reload.phase = "answered" /\ ~reload'.raced =>
              Complete(history, e, m, own, reload.page.rows, reload.page.cursor)
         /\ older.phase = "answered" /\ ~raced =>
              Complete(history, e, m, own, Prepend(older.page.rows)', older.page.cursor)
<1> USE DEF OlderAsked
<1>1. /\ TypeOK /\ RoomTimelineAssumption /\ Len(history) \in Nat
      /\ \A j \in 1..Len(history) : j \in Ids /\ history[j] \in 1..MaxVersion
  BY RoomTimelineAssumption, Versions DEF TimelineInv, Inductive, TypeOK, Ids
<1>2. i \in Ids /\ v \in 1..MaxVersion /\ v <= history[i] /\ v # 0
  BY <1>1
<1>3. /\ shown' \in Rows /\ shown'[i] = v
      /\ \A j \in Ids : j # i => shown'[j] = shown[j]
  BY <1>1, <1>2 DEF Upsert, TypeOK, Rows
<1>4. /\ reload'.phase = reload.phase /\ reload'.before = reload.before
      /\ reload'.page = reload.page
      /\ reload.phase # "answered" => reload'.raced = reload.raced
      /\ reload.phase = "answered" /\ ~reload'.raced =>
           ~reload.raced /\ v <= reload.page.rows[i]
      /\ reload.raced => reload'.raced
      /\ reload.page.rows[i] \in Nat /\ reload.page.rows \in Rows
  <2>1. reload \in Load /\ reload.page.rows \in Rows
    BY <1>1 DEF TypeOK, Load, Page
  <2>2. reload.page.rows[i] \in Nat
    BY <1>1, <1>2, <2>1 DEF Rows
  <2>3. [reload EXCEPT !.raced = TRUE].raced
    BY <2>1 DEF Load
  <2>4. /\ [reload EXCEPT !.raced = TRUE].phase = reload.phase
        /\ [reload EXCEPT !.raced = TRUE].before = reload.before
        /\ [reload EXCEPT !.raced = TRUE].page = reload.page
    BY <2>1 DEF Load
  <2>5. CASE reload.phase = "answered" /\ v > reload.page.rows[i]
    BY <2>1, <2>2, <2>3, <2>4, <2>5 DEF Upsert
  <2>6. CASE ~(reload.phase = "answered" /\ v > reload.page.rows[i])
    <3>1. reload' = reload
      BY <2>6 DEF Upsert
    <3>2. reload.phase = "answered" => v <= reload.page.rows[i]
      BY <1>2, <2>2, <2>6
    <3> QED
      BY <2>1, <2>2, <3>1, <3>2
  <2> QED
    BY <2>5, <2>6
<1>5. Past(history, shown')
  BY <1>1, <1>2, <1>3 DEF TimelineInv, RowsArePast, Past
<1>6. RowsArePast'
  BY <1>4, <1>5 DEF TimelineInv, RowsArePast
<1>7. ReloadCovers'
  <2> SUFFICES ASSUME reload.phase = "answered", NEW j \in Ids, j >= reload.page.cursor
               PROVE  /\ j <= cursor => reload.page.rows[j] # 0
                      /\ OlderAsked /\ j < older.before => reload.page.rows[j] # 0
                      /\ ~reload'.raced /\ shown'[j] # 0 => reload.page.rows[j] # 0
    BY <1>4 DEF ReloadCovers
  <2>1. ~reload'.raced => ~reload.raced /\ v <= reload.page.rows[i]
    BY <1>4
  <2>2. v <= reload.page.rows[i] => reload.page.rows[i] # 0
    BY <1>2, <1>4
  <2> QED
    BY <1>3, <2>1, <2>2 DEF TimelineInv, ReloadCovers
<1>8. ASSUME NEW rows, NEW rows2, NEW from,
             Complete(history, events, missed, own, rows, from),
             rows2[i] = v, \A j \in Ids : j # i => rows2[j] = rows[j]
      PROVE  Complete(history, e, m, own, rows2, from)
  <2> SUFFICES ASSUME NEW j \in 1..Len(history), ~Due(history, e, m, j)
               PROVE  /\ j >= from => rows2[j] # 0
                      /\ rows2[j] = 0 \/ rows2[j] = history[j] \/ j \in own
    BY DEF Complete
  <2>1. CASE j = i
    BY <1>2, <1>8, <2>1
  <2>2. CASE j # i
    <3>1. ~Due(history, events, missed, j) /\ rows2[j] = rows[j]
      BY <1>1, <1>8, <2>2
    <3> QED
      BY <1>8, <3>1 DEF Complete
  <2> QED
    BY <2>1, <2>2
<1>9. ASSUME ~raced
      PROVE  Complete(history, e, m, own, shown', cursor)
  BY <1>3, <1>8, <1>9 DEF TimelineInv, RowsAreComplete, ShownIsComplete
<1>10. ASSUME older.phase = "answered", ~raced
       PROVE  Complete(history, e, m, own, Prepend(older.page.rows)', older.page.cursor)
  <2>1. Complete(history, events, missed, own, Prepend(older.page.rows), older.page.cursor)
    BY <1>10 DEF TimelineInv, RowsAreComplete, OlderIsComplete
  <2>2. /\ Prepend(older.page.rows)'[i] = v
        /\ \A j \in Ids : j # i => Prepend(older.page.rows)'[j] = Prepend(older.page.rows)[j]
    BY <1>2, <1>3 DEF Prepend
  <2> QED
    BY <1>8, <2>1, <2>2
<1>11. ASSUME reload.phase = "answered", ~reload'.raced
       PROVE  Complete(history, e, m, own, reload.page.rows, reload.page.cursor)
  <2>1. ~reload.raced /\ v <= reload.page.rows[i]
    BY <1>4, <1>11
  <2>2. /\ Complete(history, events, missed, own, reload.page.rows, reload.page.cursor)
        /\ Past(history, reload.page.rows)
    BY <1>11, <2>1 DEF TimelineInv, RowsAreComplete, ReloadIsComplete, RowsArePast
  <2> SUFFICES ASSUME NEW j \in 1..Len(history), ~Due(history, e, m, j)
               PROVE  /\ j >= reload.page.cursor => reload.page.rows[j] # 0
                      /\ \/ reload.page.rows[j] = 0
                         \/ reload.page.rows[j] = history[j]
                         \/ j \in own
    BY DEF Complete
  <2>3. CASE Due(history, events, missed, j)
    <3>1. j = i /\ v = history[i]
      BY <2>3
    <3>2. reload.page.rows[i] # 0
      BY <1>2, <1>4, <2>1
    <3>3. reload.page.rows[i] <= history[i]
      BY <1>2, <2>2, <3>2 DEF Past
    <3>4. history[i] \in Nat
      BY <1>1
    <3>5. reload.page.rows[i] = history[i]
      BY <1>4, <2>1, <3>1, <3>3, <3>4
    <3> QED
      BY <3>1, <3>2, <3>5
  <2>4. CASE ~Due(history, events, missed, j)
    BY <2>2, <2>4 DEF Complete
  <2> QED
    BY <2>3, <2>4
<1> QED
  BY <1>3, <1>4, <1>6, <1>7, <1>9, <1>10, <1>11

LEMMA MessageKeeps ==
  ASSUME TimelineInv, TypeOK', Incoming \/ Submit \/ SendEnds
  PROVE  /\ EventsLead' /\ RowsArePast' /\ PlacesArePast' /\ OlderFollows'
         /\ ReloadCovers' /\ RowsAreComplete'
<1> USE DEF OlderAsked
<1>1. /\ TypeOK /\ RoomTimelineAssumption /\ Len(history) \in Nat /\ EventsLead
      /\ history \in Seq(1..MaxVersion) /\ Len(history) <= MaxMessages
      /\ events \in Seq(Change) /\ missed \in SUBSET Change
      /\ \A j \in 1..Len(history) : j \in Ids /\ history[j] \in 1..MaxVersion
  BY RoomTimelineAssumption, Versions DEF TimelineInv, Inductive, TypeOK, Ids
\* A step that changes no more than sending.
<1>2. ASSUME UNCHANGED <<history, events, missed, own, shown, cursor, reload, older, raced>>,
             sending'.phase # "posted"
      PROVE  /\ EventsLead' /\ RowsArePast' /\ PlacesArePast' /\ OlderFollows'
             /\ ReloadCovers' /\ RowsAreComplete'
  <2>1. EventsLead' /\ RowsArePast' /\ OlderFollows' /\ ReloadCovers'
    BY <1>2 DEF TimelineInv, EventsLead, RowsArePast, OlderFollows, ReloadCovers
  <2>2. PlacesArePast'
    BY <1>2 DEF TimelineInv, PlacesArePast
  <2>3. RowsAreComplete'
    BY <1>2 DEF TimelineInv, RowsAreComplete, ShownIsComplete, ReloadIsComplete,
                OlderIsComplete, Prepend
  <2> QED
    BY <2>1, <2>2, <2>3
<1>3. CASE Submit
  <2>1. sending'.phase = "sent"
    BY <1>3 DEF Submit
  <2> QED
    BY <1>2, <1>3, <2>1 DEF fetching, Submit, room, paging, ghost
<1>4. CASE SendFails
  <2>1. sending'.phase = "none"
    BY <1>4 DEF SendFails, NotSending
  <2> QED
    BY <1>2, <1>4, <2>1 DEF fetching, SendFails, room, paging, ghost
<1>5. CASE Posted
  <2>1. TakesMessage /\ sending' = [phase |-> "posted", id |-> Len(history) + 1]
    BY <1>5 DEF Posted
  <2>2. UNCHANGED <<shown, cursor, reload, older, raced>> /\ own' = own \cup {Len(history) + 1}
    BY <1>5 DEF fetching, Posted, paging
  <2>3. /\ Len(history') = Len(history) + 1 /\ EventsLead'
        /\ Due(history', events', missed', Len(history'))
        /\ \A j \in 1..Len(history) :
             /\ history'[j] = history[j]
             /\ Due(history, events, missed, j) => Due(history', events', missed', j)
    BY <2>1, NewMessage
  <2>4. \A j \in 1..Len(history') : j \in 1..Len(history) \/ j = Len(history')
    BY <1>1, <2>3
  <2>5. sending'.id \in own' /\ sending'.id <= Len(history')
    BY <1>1, <2>1, <2>2, <2>3
  <2>6. Len(history) <= Len(history')
    BY <1>1, <2>3
  <2>7. \A j \in 1..Len(history) : history[j] <= history'[j]
    BY <1>1, <2>3
  <2>8. \A j \in 1..Len(history') :
          \/ Due(history', events', missed', j)
          \/ j \in 1..Len(history) /\ history'[j] = history[j] /\ ~Due(history, events, missed, j)
    BY <2>3, <2>4
  <2> QED
    BY <2>2, <2>3, <2>5, <2>6, <2>7, <2>8, RoomGrows
<1>6. CASE Incoming
  <2> DEFINE i == Head(events).id
  <2> DEFINE v == Head(events).version
  <2>1. /\ events # <<>> /\ events' = Tail(events) /\ Upsert(i, v)
        /\ UNCHANGED <<history, missed, own, cursor, older, sending, raced>>
    BY <1>6 DEF fetching, Incoming, paging, ghost
  <2>2. /\ Head(events) = events[1] /\ 1 \in 1..Len(events) /\ Len(events) \in Nat
        /\ Len(events') = Len(events) - 1
        /\ \A k \in 1..Len(events') : events'[k] = events[k + 1]
        /\ events[1] \in Change
    BY <1>1, <2>1
  <2>3. /\ i <= Len(history) /\ v <= history[i]
        /\ \/ Newest(history, i) \in missed
           \/ \E l \in 1..Len(events) : events[l] = Newest(history, i)
    BY <1>1, <2>2, Zenon DEF EventsLead, Lead
  <2>4. i \in 1..MaxMessages /\ v \in 1..MaxVersion /\ events[1] = [id |-> i, version |-> v]
    BY <2>2 DEF Change, Ids
  <2>5. i \in 1..Len(history) /\ v \in 1..history[i]
    BY <1>1, <2>3, <2>4
  <2>6. \A k \in 1..Len(events) : k = 1 \/ (k - 1 \in 1..Len(events') /\ events'[k - 1] = events[k])
    BY <2>2
  <2> HIDE DEF i, v
  <2>7. ASSUME NEW j \in 1..Len(history), Due(history, events, missed, j),
               j # i \/ v # history[i]
        PROVE  Due(history, events', missed, j)
    <3>1. events[1] # Newest(history, j)
      BY <2>4, <2>7 DEF Newest
    <3> QED
      BY <2>6, <2>7, <3>1 DEF Due
  <2>8. Due(history, events', missed, i) \/ v = history[i]
    BY <2>3, <2>5, <2>7 DEF Due
  <2>9. /\ reload'.phase = reload.phase /\ reload'.before = reload.before
        /\ reload'.page = reload.page
        /\ reload.phase # "answered" => reload'.raced = reload.raced
        /\ RowsArePast' /\ ReloadCovers'
        /\ ~raced => Complete(history, events', missed, own, shown', cursor)
        /\ reload.phase = "answered" /\ ~reload'.raced =>
             Complete(history, events', missed, own, reload.page.rows, reload.page.cursor)
        /\ older.phase = "answered" /\ ~raced =>
             Complete(history, events', missed, own, Prepend(older.page.rows)', older.page.cursor)
    BY <2>1, <2>5, <2>7, <2>8, UpsertKeeps
  <2>10. ASSUME NEW k \in 1..Len(events')
         PROVE  /\ events'[k].id <= Len(history)
                /\ events'[k].version <= history[events'[k].id]
                /\ \/ Newest(history, events'[k].id) \in missed
                   \/ \E l \in k..Len(events') : events'[l] = Newest(history, events'[k].id)
    <3>1. events'[k] = events[k + 1] /\ k + 1 \in 1..Len(events)
      BY <2>2
    <3>2. /\ events[k + 1].id <= Len(history)
          /\ events[k + 1].version <= history[events[k + 1].id]
          /\ \/ Newest(history, events[k + 1].id) \in missed
             \/ \E l \in (k + 1)..Len(events) : events[l] = Newest(history, events[k + 1].id)
      BY <1>1, <3>1, Zenon DEF EventsLead, Lead
    <3>3. \A l \in (k + 1)..Len(events) :
            l - 1 \in k..Len(events') /\ events'[l - 1] = events[l]
      BY <2>2
    <3> QED
      BY <3>1, <3>2, <3>3
  <2>11. EventsLead'
    BY <2>1, <2>10 DEF EventsLead, Lead
  <2>12. PlacesArePast' /\ OlderFollows'
    BY <2>1, <2>9 DEF TimelineInv, PlacesArePast, OlderFollows
  <2>13. RowsAreComplete'
    BY <2>1, <2>9 DEF RowsAreComplete, ShownIsComplete, ReloadIsComplete, OlderIsComplete
  <2> QED
    BY <2>9, <2>11, <2>12, <2>13
<1>7. CASE Acknowledged
  <2> DEFINE i == sending.id
  <2> DEFINE left == {m \in missed : m.version > 1 \/ shown'[m.id] = 0}
  <2>1. /\ sending.phase = "posted" /\ Upsert(i, 1) /\ missed' = left
        /\ sending'.phase = "none"
        /\ UNCHANGED <<history, events, own, cursor, older, raced>>
    BY <1>7 DEF fetching, Acknowledged, Unseen, NotSending, room, paging
  <2>2. i \in own /\ i \in 1..Len(history) /\ 1 \in 1..history[i]
    <3>1. i \in own /\ i <= Len(history) /\ i \in Ids
      BY <1>1, <2>1 DEF TimelineInv, PlacesArePast, Inductive, PlacesOK
    <3>2. i \in 1..Len(history)
      BY <1>1, <3>1 DEF Ids
    <3> QED
      BY <1>1, <3>1, <3>2
  <2>3. /\ reload'.phase = reload.phase /\ reload'.before = reload.before
        /\ reload'.page = reload.page
        /\ reload.phase # "answered" => reload'.raced = reload.raced
        /\ RowsArePast' /\ ReloadCovers' /\ shown' \in Rows
        /\ ~raced => Complete(history, events, missed, own, shown', cursor)
        /\ reload.phase = "answered" /\ ~reload'.raced =>
             Complete(history, events, missed, own, reload.page.rows, reload.page.cursor)
        /\ older.phase = "answered" /\ ~raced =>
             Complete(history, events, missed, own, Prepend(older.page.rows)', older.page.cursor)
    BY <2>1, <2>2, UpsertKeeps
  <2>4. /\ cursor \in Nat /\ reload.page.cursor \in Nat /\ older.page.cursor \in Nat
        /\ reload.page.rows \in Rows /\ older.page.rows \in Rows
    <3>1. reload.page \in Page /\ older.page \in Page
      BY <1>1 DEF TypeOK, Load
    <3> QED
      BY <1>1, <3>1 DEF TypeOK, Page
  <2> HIDE DEF left
  <2>5. /\ history \in Seq(1..MaxVersion) /\ Len(history) <= MaxMessages
         /\ missed \in SUBSET Change
    BY <1>1
  <2>6. shown' \in Rows
    BY <2>3
  <2>7. cursor \in Nat /\ reload.page.cursor \in Nat /\ older.page.cursor \in Nat
    BY <2>4
  <2>8. ASSUME ~raced
        PROVE  Complete(history, events, left, own, shown', cursor)
    <3>1. Past(history, shown')
      BY <2>1, <2>3 DEF RowsArePast
    <3>2. Complete(history, events, missed, own, shown', cursor)
      BY <2>3, <2>8
    <3>3. Complete(history, events, {m \in missed : m.version > 1 \/ shown'[m.id] = 0}, own,
                   shown', cursor)
      BY <2>5, <2>6, <2>7, <3>1, <3>2, ForgetsShown
    <3> QED
      BY <3>3 DEF left
  <2>9. ASSUME reload.phase = "answered", ~reload'.raced
        PROVE  Complete(history, events, left, own, reload.page.rows, reload.page.cursor)
    <3> DEFINE rows == reload.page.rows
    <3> DEFINE from == reload.page.cursor
    <3>1. Past(history, rows)
      BY <2>9 DEF TimelineInv, RowsArePast
    <3>2. \A j \in Ids : shown'[j] # 0 /\ j >= from => rows[j] # 0
      BY <2>3, <2>9 DEF ReloadCovers
    <3>3. rows \in Rows /\ from \in Nat
      BY <2>4
    <3>4. Complete(history, events, missed, own, rows, from)
      BY <2>3, <2>9
    <3> HIDE DEF rows, from
    <3>5. Complete(history, events, {m \in missed : m.version > 1 \/ shown'[m.id] = 0}, own,
                   rows, from)
      BY <2>5, <2>6, <3>1, <3>2, <3>3, <3>4, ForgetsShown
    <3> QED
      BY <3>5 DEF left, rows, from
  <2>10. ASSUME older.phase = "answered", ~raced
        PROVE  Complete(history, events, left, own, Prepend(older.page.rows)', older.page.cursor)
    <3>1. \A j \in Ids : Prepend(older.page.rows)'[j] =
                           IF shown'[j] # 0 THEN shown'[j] ELSE older.page.rows[j]
      BY <2>1 DEF Prepend
    <3>2. Prepend(older.page.rows)' \in Rows
      BY <2>1, <2>3, <2>4 DEF Prepend, Rows
    <3>3. Past(history, Prepend(older.page.rows)')
      <4>1. Past(history, shown') /\ Past(history, older.page.rows)
        BY <2>1, <2>3, <2>10 DEF RowsArePast
      <4> QED
        BY <3>1, <4>1 DEF Past
    <3>4. \A j \in Ids : shown'[j] # 0 => Prepend(older.page.rows)'[j] # 0
      BY <3>1
    <3>5. Complete(history, events, missed, own, Prepend(older.page.rows)', older.page.cursor)
      BY <2>3, <2>10
    <3>6. Complete(history, events, {m \in missed : m.version > 1 \/ shown'[m.id] = 0}, own,
                   Prepend(older.page.rows)', older.page.cursor)
      BY <2>5, <2>6, <2>7, <3>2, <3>3, <3>4, <3>5, ForgetsShown
    <3> QED
      BY <3>6 DEF left
  <2>11. EventsLead'
    BY <1>1, <2>1, ForgetsLead DEF EventsLead, left
  <2>12. PlacesArePast' /\ OlderFollows'
    BY <2>1, <2>3 DEF TimelineInv, PlacesArePast, OlderFollows
  <2>13. RowsAreComplete'
    BY <2>1, <2>3, <2>8, <2>9, <2>10 DEF RowsAreComplete, ShownIsComplete, ReloadIsComplete,
                                        OlderIsComplete
  <2> QED
    BY <2>3, <2>11, <2>12, <2>13
<1> QED
  BY <1>3, <1>4, <1>5, <1>6, <1>7 DEF SendEnds

-----------------------------------------------------------------------------
LEMMA TimelineStarts == Init => TimelineInv
<1> SUFFICES ASSUME Init
             PROVE  TimelineInv
  OBVIOUS
<1> USE RoomTimelineAssumption
<1>1. Inductive
  BY InitInductive
<1>2. /\ history = [i \in 1..FirstLength |-> 1] /\ events = <<>> /\ shown = NoRows
      /\ cursor = 0 /\ reload = Asked(MaxMessages + 1) /\ older = NoLoad
      /\ sending.phase = "none"
      /\ missed = {[id |-> i, version |-> 1] : i \in 1..FirstLength}
  BY DEF Init, NotSending
<1>3. Len(history) = FirstLength /\ \A i \in 1..FirstLength : history[i] = 1
  BY <1>2
<1>4. older.phase = "none" /\ reload.phase = "sent" /\ reload.before = MaxMessages + 1
  BY <1>2, NewLoads
<1>5. ~reload.raced
  BY <1>2 DEF Asked, NoLoad
<1>6. \A i \in Ids : shown[i] = 0
  BY <1>2 DEF NoRows
<1>7. EventsLead
  BY <1>2 DEF EventsLead, Lead
<1>8. RowsArePast
  BY <1>4, <1>6 DEF RowsArePast, Past
<1>9. PlacesArePast /\ OlderFollows /\ ReloadCovers
  BY <1>2, <1>3, <1>4, <1>5 DEF PlacesArePast, OlderFollows, ReloadCovers, OlderAsked
<1>10. \A i \in 1..Len(history) : Due(history, events, missed, i)
  BY <1>2, <1>3 DEF Due, Newest
<1>11. RowsAreComplete
  BY <1>4, <1>10 DEF RowsAreComplete, ShownIsComplete, ReloadIsComplete, OlderIsComplete, Complete
<1> QED
  BY <1>1, <1>7, <1>8, <1>9, <1>11 DEF TimelineInv

LEMMA TimelineSteps == TimelineInv /\ [Next]_vars => TimelineInv'
<1> SUFFICES ASSUME TimelineInv, [Next]_vars
             PROVE  TimelineInv'
  OBVIOUS
<1>1. Inductive' /\ TypeOK'
  BY StepInductive DEF TimelineInv, Inductive
<1>2. CASE UNCHANGED vars
  <2>1. UNCHANGED <<history, events, missed, own, shown, cursor, reload, older, sending, raced>>
    BY <1>2 DEF fetching, vars, room, paging, ghost
  <2>2. /\ EventsLead' /\ RowsArePast' /\ PlacesArePast' /\ OlderFollows' /\ ReloadCovers'
    BY <2>1 DEF TimelineInv, EventsLead, RowsArePast, PlacesArePast, OlderFollows, ReloadCovers,
                OlderAsked
  <2>3. RowsAreComplete'
    BY <2>1 DEF TimelineInv, RowsAreComplete, ShownIsComplete, ReloadIsComplete,
                OlderIsComplete, Prepend
  <2> QED
    BY <1>1, <2>2, <2>3 DEF TimelineInv
<1>3. CASE Next
  BY <1>1, <1>3, PlatformKeeps, ReloadKeeps, OlderKeeps, MessageKeeps DEF Next, TimelineInv
<1> QED
  BY <1>2, <1>3

(***************************************************************************)
(* Once nothing is under way the timeline shows every message from the     *)
(* cursor on in its newest version, for rooms and pages of any size and    *)
(* any number of lost connections.  It does not speak of a timeline whose  *)
(* last reload dropped a row newer than its answer, or overlapped an older *)
(* page: those lose rows until the next reload (raced, NewestIsShown).     *)
(***************************************************************************)
THEOREM TimelineStaysComplete == Spec => []TimelineIsComplete
<1>1. TimelineInv => TimelineIsComplete
  <2> SUFFICES ASSUME TimelineInv, Quiet, ~raced, NEW i \in 1..Len(history), i >= cursor,
                      [id |-> i, version |-> history[i]] \notin missed
               PROVE  shown[i] # 0 /\ (i \notin own => shown[i] = history[i])
    BY DEF TimelineIsComplete
  <2>1. Complete(history, events, missed, own, shown, cursor)
    BY DEF TimelineInv, RowsAreComplete, ShownIsComplete
  <2>2. events = <<>>
    BY DEF Quiet
  <2>3. ~Due(history, events, missed, i)
    BY <2>2 DEF Due, Newest
  <2> QED
    BY <2>1, <2>3 DEF Complete
<1> QED
  BY <1>1, TimelineStarts, TimelineSteps, PTL DEF Spec
=============================================================================
