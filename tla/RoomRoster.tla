------------------------------ MODULE RoomRoster ------------------------------
(***************************************************************************)
(* The roster of room screens that follow one another over one store:      *)
(* tui/screens/rooms.py RoomDetailScreen (loading, adding and removing     *)
(* participants, roster events, closing) and the detail half of            *)
(* tui/stores.py RoomsStore.  A popped screen awaits unsubscribe_room      *)
(* before its workers are cancelled.  The order of the rows (order_roster) *)
(* and whether the room's topics are joined (module Realtime) are left out.*)
(***************************************************************************)
EXTENDS Naturals, FiniteSets

CONSTANTS Rooms, People,
          Initially,    \* rosters to begin with
          Visits,       \* bound: the rooms that are opened one after another
          MaxChanges,   \* bound: participants that others add or remove
          None

VARIABLES people,       \* the platform's roster of every room
          screen,       \* "new", "open", "closing" (popped) or "gone"
          participants, \* RoomsStore.participants
          load,         \* _load_roster, one exclusive worker of each screen
          mutation,     \* _add_participant, _remove_participant
          busy,         \* _roster_mutation_pending
          event,        \* a roster event is on its way to the screen
          failed,       \* history: the last load of the screen failed
          mixed,        \* history: another room's roster was applied
          changes

rosterVars == <<people, screen, participants, load, mutation, busy,
                event, failed, mixed, changes>>
history == <<failed, mixed, changes>>

Screens == DOMAIN Visits   \* every visit mounts a screen of its own
room == Visits

NoLoad == [at |-> "none", answer |-> {}]
NoMutation == [op |-> "none", at |-> "none", who |-> None]

Init ==
  /\ people \in Initially
  /\ screen = [s \in Screens |-> "new"]
  /\ participants = {}
  /\ load = [s \in Screens |-> NoLoad]
  /\ mutation = [s \in Screens |-> NoMutation] /\ busy = [s \in Screens |-> FALSE]
  /\ event = [s \in Screens |-> FALSE] /\ failed = [s \in Screens |-> FALSE]
  /\ mixed = FALSE /\ changes = 0

Alive(s) == screen[s] \in {"open", "closing"}
Asks(s) == load' = [load EXCEPT ![s] = [at |-> "asked", answer |-> {}]]

-----------------------------------------------------------------------------
(* Opening and closing.                                                    *)

\* ControlApp.open_room: enter_room empties the store, and the mounted
\* screen loads.
Open(s) ==
  /\ screen[s] = "new" /\ (\A t \in Screens : screen[t] # "open")
  /\ (\A t \in Screens : t < s => screen[t] # "new")
  /\ screen' = [screen EXCEPT ![s] = "open"]
  /\ participants' = {} /\ mixed' = FALSE
  /\ Asks(s)
  /\ UNCHANGED <<people, mutation, busy, event, failed, changes>>

\* action_back, and the room is deselected.
Back(s) ==
  /\ screen[s] = "open"
  /\ screen' = [screen EXCEPT ![s] = "closing"]
  /\ UNCHANGED <<people, participants, load, mutation, busy, event, history>>

\* on_unmount has left the room: workers are cancelled, and what a mutation
\* had asked for was done or never will be.
Gone(s) ==
  /\ screen[s] = "closing"
  /\ screen' = [screen EXCEPT ![s] = "gone"]
  /\ load' = [load EXCEPT ![s] = NoLoad]
  /\ mutation' = [mutation EXCEPT ![s] = NoMutation] /\ busy' = [busy EXCEPT ![s] = FALSE]
  /\ event' = [event EXCEPT ![s] = FALSE]
  /\ failed' = [failed EXCEPT ![s] = FALSE]
  /\ UNCHANGED <<people, participants, mixed, changes>>

-----------------------------------------------------------------------------
(* _load_roster.                                                           *)

Answered(s) ==
  /\ load[s].at = "asked"
  /\ load' = [load EXCEPT ![s] = [at |-> "answered", answer |-> people[room[s]]]]
  /\ UNCHANGED <<people, screen, participants, mutation, busy, event, history>>

\* replace_participants, also of a screen that was popped.
Applied(s) ==
  /\ load[s].at = "answered"
  /\ participants' = load[s].answer
  /\ load' = [load EXCEPT ![s] = NoLoad] /\ failed' = [failed EXCEPT ![s] = FALSE]
  /\ mixed' = (screen[s] = "closing")
  /\ UNCHANGED <<people, screen, mutation, busy, event, changes>>

Fails(s) ==
  /\ load[s].at = "asked"
  /\ load' = [load EXCEPT ![s] = NoLoad] /\ failed' = [failed EXCEPT ![s] = TRUE]
  /\ UNCHANGED <<people, screen, participants, mutation, busy, event, mixed, changes>>

\* action_reload.
Reload(s) ==
  /\ screen[s] = "open"
  /\ Asks(s)
  /\ UNCHANGED <<people, screen, participants, mutation, busy, event, history>>

BugIncoming(s) ==
  /\ Alive(s) /\ event[s]
  /\ event' = [event EXCEPT ![s] = FALSE]
  /\ IF load[s] = NoLoad THEN Asks(s) ELSE UNCHANGED load
  /\ UNCHANGED <<people, screen, participants, mutation, busy, history>>

\* on_room_detail_screen_incoming: a load under way is replaced, it may have
\* been answered before the change.
Incoming(s) ==
  /\ Alive(s) /\ event[s]
  /\ event' = [event EXCEPT ![s] = FALSE]
  /\ Asks(s)
  /\ UNCHANGED <<people, screen, participants, mutation, busy, history>>

-----------------------------------------------------------------------------
(* Adding and removing.                                                    *)

\* The platform changes the roster of a room and tells its listeners.
Becomes(r, whom) ==
  /\ people' = [people EXCEPT ![r] = whom]
  /\ event' = [s \in Screens |-> event[s] \/ (Alive(s) /\ room[s] = r /\ people[r] # whom)]

\* action_remove_participant takes the row away at once.
Remove(s, p) ==
  /\ screen[s] = "open" /\ ~busy[s] /\ p \in participants
  /\ busy' = [busy EXCEPT ![s] = TRUE]
  /\ participants' = participants \ {p}
  /\ mutation' = [mutation EXCEPT ![s] = [op |-> "remove", at |-> "asked", who |-> p]]
  /\ UNCHANGED <<people, screen, load, event, history>>

\* action_add_participant and _select_candidate: who is in the roster is
\* not offered.
Add(s, p) ==
  /\ screen[s] = "open" /\ p \notin participants /\ ~busy[s]
  /\ busy' = [busy EXCEPT ![s] = TRUE]
  /\ mutation' = [mutation EXCEPT ![s] = [op |-> "add", at |-> "asked", who |-> p]]
  /\ UNCHANGED <<people, screen, participants, load, event, history>>

\* The request is carried out, or refused.
Handled(s) ==
  LET m == mutation[s] IN
  /\ m.at = "asked"
  /\ mutation' = [mutation EXCEPT ![s].at = "answered"]
  /\ \/ Becomes(room[s], IF m.op = "add" THEN people[room[s]] \cup {m.who}
                                         ELSE people[room[s]] \ {m.who})
     \/ UNCHANGED <<people, event>>
  /\ UNCHANGED <<screen, participants, load, busy, history>>

\* The finally clause reloads, whatever came of the request.
Finished(s) ==
  /\ mutation[s].at = "answered"
  /\ mutation' = [mutation EXCEPT ![s] = NoMutation] /\ busy' = [busy EXCEPT ![s] = FALSE]
  /\ Asks(s)
  /\ UNCHANGED <<people, screen, participants, event, history>>

\* Another participant adds or removes somebody.
Elsewhere(r, p) ==
  /\ changes < MaxChanges
  /\ changes' = changes + 1
  /\ \E whom \in {people[r] \cup {p}, people[r] \ {p}} : whom # people[r] /\ Becomes(r, whom)
  /\ UNCHANGED <<screen, participants, load, mutation, busy, failed, mixed>>

Next ==
  \/ \E s \in Screens :
       \/ Open(s) \/ Back(s) \/ Gone(s) \/ Answered(s) \/ Applied(s) \/ Fails(s) \/ Reload(s)
       \/ Incoming(s) \/ Handled(s) \/ Finished(s)
       \/ \E p \in People : Remove(s, p) \/ Add(s, p)
  \/ \E r \in Rooms, p \in People : Elsewhere(r, p)

-----------------------------------------------------------------------------
TypeOK ==
  /\ people \in [Rooms -> SUBSET People]
  /\ screen \in [Screens -> {"new", "open", "closing", "gone"}]
  /\ participants \subseteq People
  /\ \A s \in Screens : /\ load[s].at \in {"none", "asked", "answered"}
                        /\ mutation[s].at \in {"none", "asked", "answered"}
  /\ changes \in 0..MaxChanges

Settled(s) == screen[s] = "open" /\ load[s] = NoLoad /\ ~event[s] /\ mutation[s] = NoMutation

(***************************************************************************)
(* When nothing is under way the room shows the platform's roster: a row   *)
(* that was taken away at once is back if its removal was refused, and an  *)
(* answer from before a change is not the last one applied.  A load that   *)
(* failed and the late answer of a popped screen are left out.             *)
(***************************************************************************)
RosterIsCurrent ==
  \A s \in Screens : Settled(s) /\ ~failed[s] /\ ~mixed => participants = people[room[s]]

\* The flag that refuses a second change of the roster is up exactly while
\* one is under way.
BusyHasMutation == \A s \in Screens : busy[s] <=> mutation[s] # NoMutation

\* The roster is current, and it can be changed, once nothing is under way.
RosterSettles == RosterIsCurrent /\ BusyHasMutation

(***************************************************************************)
(* "Reset the detail projection — roster/chat belong to one room only":    *)
(* what the open room shows was in its own roster.                         *)
(***************************************************************************)
RosterBelongsToRoom ==
  [][ \A s \in Screens : screen[s] = "open" /\ screen'[s] = "open"
        => \A p \in participants' \ participants :
             p \in people[room[s]] \/ p \in load[s].answer ]_rosterVars
=============================================================================
