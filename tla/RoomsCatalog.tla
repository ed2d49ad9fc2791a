----------------------------- MODULE RoomsCatalog -----------------------------
(***************************************************************************)
(* The rooms screen: tui/screens/rooms.py RoomsScreen (pages, search,      *)
(* creation and deletion of rooms) over tui/stores.py RoomsStore and       *)
(* BandClient.list_room_page.  Rows, chips and stars are in other modules  *)
(* or left out.                                                            *)
(***************************************************************************)
EXTENDS Naturals, Sequences, SequencesExt

CONSTANTS Rooms,   \* room ids, never used twice
          Limit,   \* ROOMS_PAGE_LIMIT
          Initially, \* the platform's lists to begin with
          Hits,    \* the rooms whose title matches the one search text
          None

VARIABLES server,     \* the user's rooms on the platform, newest first
          used,       \* room ids that were ever given
          rooms,      \* RoomsStore.rooms
          search,     \* the search text is typed
          selected,   \* the highlighted room
          more,       \* _has_more_rooms and _next_rooms_cursor, None without more
          loadingMore,
          load,       \* the worker of group "rooms-load"
          unwinding,  \* a cancelled worker is still to clear loadingMore
          pending,    \* _pending_delete_id
          deletion,   \* the worker of group "rooms-delete"
          creation,   \* the worker of group "rooms-create"
          forgotten   \* rooms that this screen has deleted

roomsVars == <<server, used, rooms, search, selected, more, loadingMore,
               load, unwinding, pending, deletion, creation, forgotten>>
platform == <<server, used>>
paging == <<more, loadingMore, load, unwinding>>
requests == <<pending, deletion, creation, forgotten>>

NoLoad == [kind |-> "none", at |-> "idle", cursor |-> 0, got |-> <<>>]
Asked(kind, cursor) == [kind |-> kind, at |-> "asked", cursor |-> cursor, got |-> <<>>]
Sleeps == [kind |-> "search", at |-> "sleep", cursor |-> 0, got |-> <<>>]
Idle == [at |-> "idle", room |-> None]

SmallerOf(m, n) == IF m < n THEN m ELSE n

\* The rooms of a list that are in a set, in their order: the n-th of them
\* stands at the place before and at which there are n.
Nth(places, n) == CHOOSE i \in places : Cardinality({j \in places : j <= i}) = n
Kept(list, ids) ==
  LET places == {i \in DOMAIN list : list[i] \in ids} IN
  [n \in 1..Cardinality(places) |-> list[Nth(places, n)]]

\* External: the platform's pages.  The cursor is opaque to the client; that
\* it counts rooms is the choice under which pages overlap and skip most.
Page(cursor) == SubSeq(server, cursor + 1, SmallerOf(cursor + Limit, Len(server)))
NextCursor(cursor) == IF Len(server) > cursor + Limit THEN cursor + Limit ELSE None

Visible(list) == IF search' THEN Kept(list, Hits) ELSE list

\* _reconcile_selection.
Reconcile(list) ==
  LET visible == Visible(list) IN
  selected' = IF Contains(visible, selected) THEN selected
              ELSE IF visible = <<>> THEN None ELSE visible[1]

Init ==
  /\ server \in Initially /\ used = ToSet(server)
  /\ rooms = <<>> /\ search = FALSE /\ selected = None
  /\ more = None /\ loadingMore = FALSE
  /\ load = Asked("list", 0) /\ unwinding = FALSE
  /\ pending = None /\ deletion = Idle /\ creation = Idle /\ forgotten = {}

-----------------------------------------------------------------------------
(* Loads: one exclusive worker.                                            *)

\* The worker that is replaced leaves its request, and runs its finally
\* clause, at once or only after the next one has begun.
Stays(late) == loadingMore /\ (late \/ load.kind # "more")

BugReplaces(late) == UNCHANGED <<unwinding, loadingMore>>

Replaces(late) ==
  /\ unwinding' = (unwinding \/ (late /\ load.kind = "more"))
  /\ loadingMore' = Stays(late)

Unwinds ==
  /\ unwinding /\ unwinding' = FALSE /\ loadingMore' = FALSE
  /\ UNCHANGED <<platform, rooms, search, selected, more, load, requests>>

Begins(kind) ==
  /\ load' = IF kind = "search" THEN Sleeps ELSE Asked(kind, 0)
  /\ more' = IF kind = "list" THEN None ELSE more
  /\ \E late \in BOOLEAN : Replaces(late)

\* _reload_catalog: r, the poll and the return to the screen.
Reloads(text) == Begins(IF text THEN "search" ELSE "list")
Reload ==
  /\ Reloads(search)
  /\ pending' \in {pending, None}              \* on_screen_resume forgets it
  /\ UNCHANGED <<platform, rooms, search, selected, deletion, creation, forgotten>>

\* on_input_changed.
Type ==
  /\ search' = ~search
  /\ Reconcile(rooms) /\ Reloads(search')
  /\ UNCHANGED <<platform, rooms, requests>>

\* The debounce ends; an outdated text is not searched for.
SearchAsked ==
  /\ load.at = "sleep"
  /\ IF search THEN /\ load' = [load EXCEPT !.at = "asked"]
                    /\ more' = None
               ELSE load' = NoLoad /\ UNCHANGED more
  /\ UNCHANGED <<platform, rooms, search, selected, loadingMore, unwinding, requests>>

\* on_room_catalog_reached_end: the worker replaces the one that is loading
\* or searching, also when there is nothing more or a page is still awaited.
ReachEnd ==
  /\ rooms # <<>>
  /\ \E late \in BOOLEAN :
       IF more = None \/ Stays(late)
       THEN load' = NoLoad /\ Replaces(late)
       ELSE /\ load' = Asked("more", more)
            /\ loadingMore' = TRUE /\ unwinding' = unwinding
  /\ UNCHANGED <<platform, rooms, search, selected, more, requests>>

\* The platform answers.  A search goes on with the next page
\* (BandClient.list_my_chats).
Answered ==
  /\ load.at = "asked"
  /\ LET next == NextCursor(load.cursor) IN
     load' = [kind |-> load.kind,
              at |-> IF load.kind = "search" /\ next # None THEN "asked" ELSE "answered",
              cursor |-> next, got |-> load.got \o Page(load.cursor)]
  /\ UNCHANGED <<platform, rooms, search, selected, more, loadingMore, unwinding, requests>>

\* append_rooms, on identities.
Appended(list, page) == list \o Kept(page, Rooms \ ToSet(list))

LoadEnds ==
  /\ load' = NoLoad /\ UNCHANGED unwinding
  /\ loadingMore' = (loadingMore /\ load.kind # "more")

Applied ==
  /\ load.at = "answered"
  /\ rooms' = IF load.kind = "more" THEN Appended(rooms, load.got) ELSE load.got
  /\ more' = IF load.kind = "search" THEN None ELSE load.cursor
  /\ LoadEnds
  /\ UNCHANGED search /\ Reconcile(rooms')
  /\ UNCHANGED <<platform, requests>>

LoadFails ==
  /\ load.at = "asked"
  /\ LoadEnds
  /\ UNCHANGED <<platform, rooms, search, selected, more, requests>>

-----------------------------------------------------------------------------
(* Deletion.                                                               *)

MoveCursor ==
  /\ \E r \in ToSet(rooms) \ {selected} :
        (search => r \in Hits) /\ selected' = r
  /\ UNCHANGED <<platform, rooms, search, paging, requests>>

\* action_delete_room: the second press on the same room deletes.  The
\* exclusive worker cancels the deletion before, which may have been done.
PressDelete ==
  /\ selected # None
  /\ IF pending # selected
     THEN pending' = selected /\ UNCHANGED <<server, deletion>>
     ELSE /\ pending' = None /\ deletion' = [at |-> "asked", room |-> selected]
          /\ server' \in {server} \cup
               (IF deletion.at = "asked" THEN {Kept(server, Rooms \ {deletion.room})} ELSE {})
  /\ UNCHANGED <<used, rooms, search, selected, paging, creation, forgotten>>

\* A room that is missing is an error like any other.
DeletionAnswered ==
  /\ deletion.at = "asked"
  /\ \/ /\ Contains(server, deletion.room)
        /\ server' = Kept(server, Rooms \ {deletion.room})
        /\ deletion' = [deletion EXCEPT !.at = "deleted"]
     \/ UNCHANGED server /\ deletion' = Idle
  /\ UNCHANGED <<used, rooms, search, selected, paging, pending, creation, forgotten>>

\* remove_room, and the first page again, whatever is searched for.
Forgets ==
  /\ deletion.at = "deleted"
  /\ rooms' = Kept(rooms, Rooms \ {deletion.room})
  /\ forgotten' = forgotten \cup {deletion.room}
  /\ UNCHANGED search
  /\ IF selected = deletion.room THEN selected' = None
     ELSE IF selected # None THEN Reconcile(rooms') ELSE UNCHANGED selected
  /\ deletion' = Idle
  /\ Begins("list")
  /\ UNCHANGED <<platform, pending, creation>>

-----------------------------------------------------------------------------
(* Creation.                                                               *)

Registers(r) == server' = <<r>> \o server /\ used' = used \cup {r}

\* _submit_draft; Enter again replaces the request, which may have been done.
SubmitDraft ==
  /\ creation' = [at |-> "asked", room |-> None]
  /\ \/ UNCHANGED platform
     \/ creation.at = "asked" /\ \E r \in Rooms \ used : Registers(r)
  /\ UNCHANGED <<rooms, search, selected, paging, pending, deletion, forgotten>>

CreationAnswered ==
  /\ creation.at = "asked"
  /\ \/ \E r \in Rooms \ used :
          Registers(r) /\ creation' = [at |-> "created", room |-> r]
     \/ UNCHANGED platform /\ creation' = Idle
  /\ UNCHANGED <<rooms, search, selected, paging, pending, deletion, forgotten>>

\* add_room, the first page again, and the room is opened.
Adds ==
  /\ creation.at = "created"
  /\ rooms' = <<creation.room>> \o rooms
  /\ selected' = creation.room /\ creation' = Idle
  /\ Begins("list")
  /\ UNCHANGED <<platform, search, pending, deletion, forgotten>>

\* Somebody else deletes a room or adds the user to one.
Elsewhere ==
  /\ \/ \E r \in ToSet(server) : server' = Kept(server, Rooms \ {r}) /\ UNCHANGED used
     \/ \E r \in Rooms \ used : Registers(r)
  /\ UNCHANGED <<rooms, search, selected, paging, requests>>

Next ==
  \/ Reload \/ Type \/ SearchAsked \/ ReachEnd \/ Unwinds \/ Answered \/ Applied \/ LoadFails
  \/ MoveCursor \/ PressDelete \/ DeletionAnswered \/ Forgets
  \/ SubmitDraft \/ CreationAnswered \/ Adds
  \/ Elsewhere

\* Workers run, the interval polls, and a load is not for ever replaced before
\* its last page is answered: reading every page takes less than the interval.
Fairness ==
  /\ SF_roomsVars(SearchAsked) /\ SF_roomsVars(Applied)
  /\ \A c \in 0..(Cardinality(Rooms) - 1) : SF_roomsVars(load.cursor = c /\ Answered)
  /\ WF_roomsVars(load = NoLoad /\ Reload)

-----------------------------------------------------------------------------
TypeOK ==
  /\ ToSet(server) \subseteq used /\ used \subseteq Rooms
  /\ ToSet(rooms) \subseteq Rooms /\ selected \in Rooms \cup {None}
  /\ search \in BOOLEAN /\ (more # None => more \in Nat)
  /\ load.kind \in {"none", "list", "search", "more"}
  /\ load.at \in {"idle", "sleep", "asked", "answered"}
  /\ loadingMore \in BOOLEAN /\ unwinding \in BOOLEAN

\* The flag that refuses another page is never left standing: a worker that
\* will clear it is under way, whatever replaced it.
FlagTellsTheLoad == loadingMore => load.kind = "more" \/ unwinding

(***************************************************************************)
(* A room that was deleted here does not come back with the answer to a    *)
(* request made before: forgetting it replaces the load under way.         *)
(***************************************************************************)
ForgottenStaysAway ==
  [][ load # NoLoad /\ load' = NoLoad
        => forgotten \cap ToSet(rooms') \subseteq ToSet(rooms) ]_roomsVars

-----------------------------------------------------------------------------
(***************************************************************************)
(* What the list settles to, whatever interrupted the loads (a deletion or *)
(* the end of the list replaces a search; a page may bring a new room      *)
(* before add_room does).                                                  *)
(***************************************************************************)

\* A room that the platform no longer has leaves the list.
DeletedRoomsLeave ==
  \A r \in Rooms : r \in ToSet(rooms) /\ r \notin ToSet(server) ~> r \notin ToSet(rooms)

\* A search finds the matching rooms of every page.
SearchFinds ==
  \A r \in Hits :
    search /\ r \in ToSet(server) ~> (r \in ToSet(rooms) \/ ~search \/ r \notin ToSet(server))

\* A room that is listed twice is listed once again.
TwinsLeave == ~IsInjective(rooms) ~> IsInjective(rooms)

\* All three, under Fairness.
RoomsSettle == DeletedRoomsLeave /\ SearchFinds /\ TwinsLeave
=============================================================================
