---------------------------- MODULE RoomTimeline ----------------------------
(***************************************************************************)
(* The timeline of the room that a room screen has open                    *)
(* (src/src/band_wezterm/tui/screens/rooms.py, tui/stores.py): the latest  *)
(* page of the history, older pages, realtime rows and the user's own      *)
(* messages are merged in RoomsStore._messages while their requests        *)
(* overlap.                                                                *)
(*                                                                         *)
(* A message is its place in the room's history and a row is the version   *)
(* of it that is shown.  Whether the room's topics are joined is the       *)
(* business of Realtime: here they are joined or not, and what happens     *)
(* while they are not is never announced.                                  *)
(***************************************************************************)
EXTENDS Naturals, FiniteSets, Sequences, SequencesExt

CONSTANTS
    Limit,       \* preferences.chat_messages_limit, the size of a page
    FirstLength, \* messages in the room when it is opened
    MaxMessages, \* bound on the messages in the room
    MaxVersion,  \* bound on the versions of a message
    MaxUpdated,  \* bound on the messages that are updated
    MaxLosses    \* bound on the times the topics are lost

ASSUME RoomTimelineAssumption ==
    /\ Limit \in Nat \ {0}
    /\ MaxVersion \in Nat \ {0}
    /\ MaxUpdated \in Nat
    /\ MaxMessages \in Nat
    /\ FirstLength \in 0..MaxMessages
    /\ MaxLosses \in Nat

VARIABLES
    history,  \* the platform: the version of each message
    joined,   \* the room's topics are joined
    losses,   \* times they were lost
    events,   \* messages on their way to the screen
    shown,    \* store._messages: the version shown of each message, or 0
    cursor,   \* self._next_messages_cursor: pages end before it; 0 is None
    hasOlder, \* self._has_older_messages
    loading,  \* self._loading_older_messages
    reload,   \* the worker of _load_messages
    older,    \* the worker of _load_older_messages
    unwinding, \* one that was cancelled has not reached its finally clause
    sending,  \* the worker of _send_message
    missed,   \* history: what was not announced
    own,      \* history: messages sent from this screen
    raced     \* history: the last reload dropped a newer row, or overlapped
              \* an older page that was being loaded

room == <<history, joined, losses, events>>
paging == <<cursor, hasOlder, loading>>
ghost == <<missed, own, raced>>
fetching == <<older, unwinding>>
vars == <<room, shown, paging, reload, fetching, sending, ghost>>

Ids == 1..MaxMessages
Rows == [Ids -> 0..MaxVersion]
NoRows == [i \in Ids |-> 0]
Change == [id : Ids, version : 1..MaxVersion]

\* A page: its rows, the cursor of the next one, and where to end.
Page == [rows : Rows, cursor : 0..MaxMessages, more : BOOLEAN]
NoPage == [rows |-> NoRows, cursor |-> 0, more |-> FALSE]

Load == [phase : {"none", "begun", "sent", "answered"},
         before : 0..(MaxMessages + 1), page : Page, raced : BOOLEAN]
NoLoad == [phase |-> "none", before |-> 0, page |-> NoPage, raced |-> FALSE]
Asked(before) == [NoLoad EXCEPT !.phase = "sent", !.before = before]

TypeOK ==
    /\ history \in Seq(1..MaxVersion)
    /\ Len(history) \leq MaxMessages
    /\ joined \in BOOLEAN
    /\ losses \in 0..MaxLosses
    /\ events \in Seq(Change)
    /\ shown \in Rows
    /\ cursor \in 0..MaxMessages
    /\ hasOlder \in BOOLEAN
    /\ loading \in BOOLEAN
    /\ reload \in Load
    /\ older \in Load
    /\ unwinding \in BOOLEAN
    /\ older.phase = "sent" => older.before # 0
    /\ sending \in [phase : {"none", "sent", "posted"}, id : 0..MaxMessages]
    /\ missed \subseteq Change
    /\ own \subseteq Ids
    /\ raced \in BOOLEAN

\* Updates that were missed stay on the list, also when a page brings them:
\* an announcement of an earlier version may still be on its way.
Unseen == {m \in missed : m.version > 1 \/ shown'[m.id] = 0}

NotSending == [phase |-> "none", id |-> 0]

\* on_mount, after enter_room has emptied the store.
Init ==
    /\ history = [i \in 1..FirstLength |-> 1]
    /\ joined = FALSE
    /\ losses = 0
    /\ events = <<>>
    /\ shown = NoRows
    /\ cursor = 0
    /\ hasOlder = FALSE
    /\ loading = FALSE
    /\ reload = Asked(MaxMessages + 1)
    /\ older = NoLoad
    /\ unwinding = FALSE
    /\ sending = NotSending
    /\ missed = {[id |-> i, version |-> 1] : i \in 1..FirstLength}
    /\ own = {}
    /\ raced = FALSE

\* Faulty variants (Bug...) precede the definitions they vary; only
\* PROJECT.json refers to them.

-----------------------------------------------------------------------------
(* The platform.                                                           *)

\* The topics announce a change of the room, if they are joined.
Announce(i, v) ==
    LET change == [id |-> i, version |-> v]
    IN  IF joined
        THEN events' = Append(events, change) /\ UNCHANGED missed
        ELSE missed' = missed \cup {change} /\ UNCHANGED events

TakesMessage ==
    /\ Len(history) < MaxMessages
    /\ history' = Append(history, 1)
    /\ Announce(Len(history) + 1, 1)

\* Somebody else's message.
Post ==
    /\ TakesMessage
    /\ UNCHANGED <<joined, losses, shown, paging, reload, fetching, sending, own,
                   raced>>

\* message_updated.
Update(i) ==
    /\ history[i] < MaxVersion
    /\ Cardinality({j \in DOMAIN history : history[j] > 1} \cup {i}) <= MaxUpdated
    /\ history' = [history EXCEPT ![i] = @ + 1]
    /\ Announce(i, history[i] + 1)
    /\ UNCHANGED <<joined, losses, shown, paging, reload, fetching, sending, own,
                   raced>>

Join ==
    /\ ~joined
    /\ joined' = TRUE
    /\ UNCHANGED <<history, losses, events, shown, paging, reload, fetching,
                   sending, ghost>>

\* The socket is lost, and with it what had not arrived.
Lose ==
    /\ joined
    /\ losses < MaxLosses
    /\ losses' = losses + 1
    /\ joined' = FALSE
    /\ \E n \in 0..Len(events) :
          /\ events' = SubSeq(events, 1, n)
          /\ missed' = missed \cup {events[k] : k \in (n + 1)..Len(events)}
    /\ UNCHANGED <<history, shown, paging, reload, fetching, sending, own, raced>>

\* The page that ends before a message.
PageBefore(before) ==
    LET last == IF before > Len(history) THEN Len(history) ELSE before - 1
        first == IF last > Limit THEN last - Limit + 1 ELSE 1
    IN  [rows |-> [i \in Ids |->
                      IF i \in first..last THEN history[i] ELSE 0],
         cursor |-> IF first > 1 THEN first ELSE 0,
         more |-> first > 1]

-----------------------------------------------------------------------------
(* _load_messages.                                                         *)

\* action_reload: the exclusive worker that runs is cancelled.
Reload ==
    /\ reload' = Asked(MaxMessages + 1)
    /\ UNCHANGED <<room, shown, paging, fetching, sending, ghost>>

ReloadAnswered ==
    /\ reload.phase = "sent"
    /\ reload' = [reload EXCEPT !.phase = "answered",
                                !.page = PageBefore(reload.before)]
    /\ UNCHANGED <<room, shown, paging, fetching, sending, ghost>>

\* replace_messages, and the cursor of the new page.
ReloadApplied ==
    /\ reload.phase = "answered"
    /\ shown' = reload.page.rows
    /\ cursor' = reload.page.cursor
    /\ hasOlder' = reload.page.more
    /\ reload' = NoLoad
    /\ missed' = Unseen
    /\ raced' = (reload.raced \/ older.phase \in {"sent", "answered"})
    /\ UNCHANGED <<room, loading, fetching, sending, own>>

ReloadFails ==
    /\ reload.phase # "none"
    /\ reload' = NoLoad
    /\ UNCHANGED <<room, shown, paging, fetching, sending, ghost>>

-----------------------------------------------------------------------------
(* _load_older_messages.                                                   *)

\* The timeline is scrolled before its first row: a new worker, and the one
\* that runs is cancelled.  A cancelled worker that waits for its page has a
\* finally clause to reach; one that has not begun has not.
ScrollUp ==
    /\ unwinding' = (unwinding \/ older.phase \in {"sent", "answered"})
    /\ older' = [NoLoad EXCEPT !.phase = "begun"]
    /\ UNCHANGED <<room, shown, paging, reload, sending, ghost>>

BugStarts == older' = Asked(0) /\ loading' = TRUE

\* The older page is asked for with the cursor.
Starts == older' = Asked(cursor) /\ loading' = TRUE

BugLooks ==
    /\ older.phase = "begun"
    /\ \/ hasOlder /\ Starts
       \/ ~hasOlder /\ older' = NoLoad /\ UNCHANGED loading
    /\ UNCHANGED <<room, shown, cursor, hasOlder, reload, unwinding, sending, ghost>>

\* The new worker's guards, and its request.
Looks ==
    /\ older.phase = "begun"
    /\ \/ hasOlder /\ ~loading /\ cursor # 0 /\ Starts
       \/ (~hasOlder \/ loading \/ cursor = 0) /\ older' = NoLoad /\ UNCHANGED loading
    /\ UNCHANGED <<room, shown, cursor, hasOlder, reload, unwinding, sending, ghost>>

\* The finally clause of a cancelled worker, before the next worker looks at
\* the flag or after it.
Unwinds ==
    /\ unwinding
    /\ unwinding' = FALSE
    /\ loading' = FALSE
    /\ UNCHANGED <<room, shown, cursor, hasOlder, reload, older, sending, ghost>>

OlderAnswered ==
    /\ older.phase = "sent"
    /\ older' = [older EXCEPT !.phase = "answered",
                              !.page = PageBefore(older.before)]
    /\ UNCHANGED <<room, shown, paging, reload, unwinding, sending, ghost>>

BugPrepend(rows) ==
    [i \in Ids |-> IF rows[i] # 0 THEN rows[i] ELSE shown[i]]

\* prepend_messages: rows that are shown stay.
Prepend(rows) ==
    [i \in Ids |-> IF shown[i] # 0 THEN shown[i] ELSE rows[i]]

OlderApplied ==
    /\ older.phase = "answered"
    /\ shown' = Prepend(older.page.rows)
    /\ cursor' = older.page.cursor
    /\ hasOlder' = older.page.more
    /\ loading' = FALSE
    /\ older' = NoLoad
    /\ missed' = Unseen
    /\ UNCHANGED <<room, reload, unwinding, sending, own, raced>>

\* The request fails: the finally clause.
OlderFails ==
    /\ older.phase \in {"sent", "answered"}
    /\ loading' = FALSE
    /\ older' = NoLoad
    /\ UNCHANGED <<room, shown, cursor, hasOlder, reload, unwinding, sending, ghost>>

-----------------------------------------------------------------------------
(* Realtime rows and the user's own messages.                              *)

\* append_message, after the answer of a reload was composed or before.
Upsert(i, v) ==
    /\ shown' = [shown EXCEPT ![i] = v]
    /\ reload' = IF reload.phase = "answered" /\ v > reload.page.rows[i]
                 THEN [reload EXCEPT !.raced = TRUE] ELSE reload

Incoming ==
    /\ events # <<>>
    /\ events' = Tail(events)
    /\ Upsert(Head(events).id, Head(events).version)
    /\ UNCHANGED <<history, joined, losses, paging, fetching, sending, ghost>>

\* on_input_submitted: one message at a time.
Submit ==
    /\ sending.phase = "none"
    /\ Len(history) < MaxMessages
    /\ sending' = [phase |-> "sent", id |-> 0]
    /\ UNCHANGED <<room, shown, paging, reload, fetching, ghost>>

\* The platform takes the message.
Posted ==
    /\ sending.phase = "sent"
    /\ TakesMessage
    /\ sending' = [phase |-> "posted", id |-> Len(history) + 1]
    /\ own' = own \cup {Len(history) + 1}
    /\ UNCHANGED <<joined, losses, shown, paging, reload, fetching, raced>>

\* Its answer: the row is made from what was sent.
Acknowledged ==
    /\ sending.phase = "posted"
    /\ Upsert(sending.id, 1)
    /\ missed' = Unseen
    /\ sending' = NotSending
    /\ UNCHANGED <<room, paging, fetching, own, raced>>

SendFails ==
    /\ sending.phase # "none"
    /\ sending' = NotSending
    /\ UNCHANGED <<room, shown, paging, reload, fetching, ghost>>

-----------------------------------------------------------------------------
ReloadEnds == ReloadAnswered \/ ReloadApplied \/ ReloadFails
OlderEnds == Looks \/ Unwinds \/ OlderAnswered \/ OlderApplied \/ OlderFails
SendEnds == Posted \/ Acknowledged \/ SendFails

Next ==
    \/ Post
    \/ \E i \in 1..Len(history) : Update(i)
    \/ Join \/ Lose
    \/ Reload \/ ReloadEnds
    \/ ScrollUp \/ OlderEnds
    \/ Incoming
    \/ Submit \/ SendEnds

Spec == Init /\ [][Next]_vars

-----------------------------------------------------------------------------
(* Properties.                                                             *)

Quiet ==
    /\ reload.phase = "none"
    /\ older.phase = "none" /\ ~unwinding
    /\ sending.phase = "none"
    /\ events = <<>>

\* Once nothing is under way, the timeline shows every message from the one
\* the cursor points to on, in its newest version: no page loses, repeats or
\* takes back a realtime row (replace_messages, prepend_messages,
\* append_message).  Two cases are left out (raced), and last until the next
\* reload: the last reload's answer dropped a row that was newer than it, which
\* NewestIsShown is about, or it arrived while an older page was under way.  So
\* are what was not announced, and the version of the user's own messages.
TimelineIsComplete ==
    Quiet /\ ~raced =>
        \A i \in 1..Len(history) :
            /\ i \geq cursor
            /\ [id |-> i, version |-> history[i]] \notin missed
            => /\ shown[i] # 0
               /\ i \notin own => shown[i] = history[i]

\* The timeline follows the newest event: once nothing is under way it shows
\* the room's last message, if it was announced (replace_messages).
NewestIsShown ==
    LET last == Len(history) IN
    Quiet /\ last # 0 /\ (\A m \in missed : m.id # last) => shown[last] # 0

\* The flag that refuses to load older history is up exactly while a request
\* is out or a cancelled one still has to clear it.  A worker that unwinds
\* never clears the flag under the request of the next one, and no failed or
\* cancelled request leaves it up for ever (_load_older_messages).
LoadingHasWorker == loading <=> unwinding \/ older.phase \in {"sent", "answered"}

\* Scrolling up at the earliest event fetches older history: a worker started
\* for it returns without a request only where nothing older is known
\* (ChatTimeline, the guard of _load_older_messages).
ScrollingLoads ==
    [][ older.phase = "begun" /\ older'.phase = "none" => ~hasOlder ]_vars

=============================================================================
