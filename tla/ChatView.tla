------------------------------- MODULE ChatView -------------------------------
(***************************************************************************)
(* How a room screen draws its timeline: the event filter                  *)
(* (tui/chat_events.py, the filter overlay, the verbose toggle, the saved  *)
(* preference) chooses the messages, and RoomDetailScreen._render_chat     *)
(* brings the rows of the list up to date by appending or prepending what  *)
(* is new, or by filling it again.  Store and filter change while it waits *)
(* for the list.  Scrolling, and the notice of rows below the end of the   *)
(* screen, are left out.                                                   *)
(***************************************************************************)
EXTENDS Naturals, FiniteSets, Sequences, SequencesExt

CONSTANTS TypeOf,      \* TypeOf[i]: the type of the room's i-th message
          Categories,  \* CATEGORY_WIRE_TYPES
          Verbose,     \* VERBOSE_TYPES
          Expanded,    \* ALWAYS_EXPANDED_TYPES
          Stored,      \* filters that preferences.json may hold
          None,
          MaxUpdates   \* bound: messages that are updated, once

VARIABLES held,     \* store.messages, a set as they are in the room's order
          updated,  \* the messages that were updated
          expanded, \* self._expanded_message_ids
          allowed,  \* preferences.current.chat_event_types
          saved,    \* preferences.json
          previous, \* self._pre_verbose_types
          rendered, \* self._rendered_chat
          list,     \* the rows of the list: entries, or a placeholder
          drawing,  \* what _render_chat waits for the list to do
          dirty     \* a call of watch_store is queued

filter == <<allowed, saved, previous>>
store == <<held, updated, expanded>>
drawn == <<rendered, list, drawing>>
chatVars == <<store, filter, drawn, dirty>>

Ids == DOMAIN TypeOf
Filterable == UNION Categories

\* message_is_visible, visible_messages and what a row shows.
IsVisible(i) == TypeOf[i] \in Filterable => TypeOf[i] \in allowed
Nth(messages, n) == CHOOSE i \in messages : Cardinality({j \in messages : j <= i}) = n
Timeline ==
  LET visible == {i \in held : IsVisible(i)} IN
  [n \in 1..Cardinality(visible) |->
     LET i == Nth(visible, n) IN [id |-> i, new |-> i \in updated, open |-> i \in expanded]]
IdsOf(timeline) == {entry.id : entry \in Range(timeline)}

\* _load_messages has not been answered when the screen is drawn first.
Init ==
  /\ held = {} /\ updated = {} /\ expanded = {}
  /\ allowed \in Stored /\ saved = allowed /\ previous = None
  /\ rendered = None /\ list = <<>> /\ drawing = None /\ dirty = TRUE

-----------------------------------------------------------------------------
(* The store.                                                              *)

\* append_message, prepend_messages, replace_messages with a page.
Receive(messages) ==
  /\ held' = messages /\ dirty' = TRUE
  /\ UNCHANGED <<updated, expanded, filter, drawn>>

Arrive(i) == (\A j \in held : j < i) /\ Receive(held \cup {i})
Prepend(i) == (\A j \in held : i < j) /\ Receive(held \cup {i})
Replace == \E a, b \in Ids : a <= b /\ Receive(a..b)

Update(i) ==
  /\ i \in held \ updated /\ Cardinality(updated) < MaxUpdates
  /\ updated' = updated \cup {i} /\ dirty' = TRUE
  /\ UNCHANGED <<held, expanded, filter, drawn>>

\* _toggle_chat_expand of a row that is drawn.
ToggleExpand(i) ==
  /\ \E k \in DOMAIN list : list[k] # None /\ list[k].id = i
  /\ TypeOf[i] \notin Expanded
  /\ expanded' = (IF i \in expanded THEN expanded \ {i} ELSE expanded \cup {i})
  /\ dirty' = TRUE
  /\ UNCHANGED <<held, updated, filter, drawn>>

-----------------------------------------------------------------------------
(* The filter.                                                             *)

\* PreferencesStore.update changes what is shown, then the file; a file that
\* cannot be replaced ends the pane, and the next one reads the file.
Prefers(types) ==
  /\ allowed' = types
  /\ saved' = types

\* toggle_category: either all the types of a category are shown or some are
\* not, and then all of them will be.
Toggled(category) ==
  IF category \subseteq allowed THEN allowed \ category ELSE allowed \cup category

\* select_all_categories, clear_all_categories: types of no category are kept.
AllToggled ==
  IF Filterable \subseteq allowed THEN allowed \ Filterable ELSE allowed \cup Filterable

BugChooses(types) ==
  /\ Prefers(types) /\ UNCHANGED previous
  /\ dirty' = TRUE
  /\ UNCHANGED <<store, drawn>>

\* EventTypeFilterScreen.action_toggle and _apply_event_filter.
Chooses(types) ==
  /\ Prefers(types) /\ previous' = None
  /\ dirty' = TRUE
  /\ UNCHANGED <<store, drawn>>

Filter == Chooses(AllToggled) \/ \E c \in Categories : Chooses(Toggled(c))

\* apply_verbose.
Applied(enabled) ==
  IF enabled THEN allowed \cup Verbose
  ELSE IF previous = None THEN allowed \ Verbose ELSE previous

\* action_toggle_verbose.
ToggleVerbose ==
  LET active == Verbose \subseteq allowed IN
  /\ Prefers(Applied(~active))
  /\ previous' = IF active THEN None ELSE allowed
  /\ dirty' = TRUE
  /\ UNCHANGED <<store, drawn>>

\* The room, or the pane, is left and opened again.
Reopen ==
  /\ held' = {} /\ expanded' = {} /\ previous' = None /\ allowed' = saved
  /\ rendered' = None /\ list' = <<>> /\ drawing' = None /\ dirty' = TRUE
  /\ UNCHANGED <<updated, saved>>

-----------------------------------------------------------------------------
(* _render_chat.                                                           *)

\* What it does with the list when `before` is drawn and `now` is to be.
Drawing(before, now) ==
  LET new == Cardinality(IdsOf(now) \ IdsOf(before)) IN
  CASE before # <<>> /\ IsPrefix(before, now) ->
         [how |-> "extend", rows |-> SubSeq(now, Len(now) - new + 1, Len(now))]
    [] before # <<>> /\ ~IsPrefix(before, now) /\ IsSuffix(before, now) ->
         [how |-> "insert", rows |-> SubSeq(now, 1, new)]
    [] OTHER ->
         [how |-> "refill", rows |-> IF now = <<>> THEN <<None>> ELSE now]

Render ==
  /\ dirty /\ drawing = None
  /\ dirty' = FALSE /\ rendered' = Timeline
  /\ drawing' = IF rendered = Timeline THEN None
                ELSE Drawing(IF rendered = None THEN <<>> ELSE rendered, Timeline)
  /\ UNCHANGED <<store, filter, list>>

\* The list has done it.
Drawn ==
  /\ drawing # None /\ drawing' = None
  /\ list' = CASE drawing.how = "extend" -> list \o drawing.rows
               [] drawing.how = "insert" -> drawing.rows \o list
               [] drawing.how = "refill" -> drawing.rows
  /\ UNCHANGED <<store, filter, rendered, dirty>>

Next ==
  \/ \E i \in Ids : Arrive(i) \/ Prepend(i) \/ Update(i) \/ ToggleExpand(i)
  \/ Replace \/ Filter \/ ToggleVerbose \/ Reopen \/ Render \/ Drawn

-----------------------------------------------------------------------------
Entries == [id : Ids, new : BOOLEAN, open : BOOLEAN]
Lines == Seq(Entries \cup {None})
Drawings == [how : {"extend", "insert", "refill"}, rows : Lines]

TypeOK ==
  /\ held \subseteq Ids /\ expanded \subseteq Ids /\ updated \subseteq Ids
  /\ rendered \in {None} \cup Seq(Entries)
  /\ list \in Lines /\ drawing \in {None} \cup Drawings
  /\ dirty \in BOOLEAN

(***************************************************************************)
(* When nothing is left to draw, the list shows exactly the messages that  *)
(* the filter allows, in order, each in its newest version, whatever came  *)
(* or changed while it was being drawn; a placeholder stands alone.        *)
(***************************************************************************)
RowsAreTimeline ==
  ~dirty /\ drawing = None => list = (IF Timeline = <<>> THEN <<None>> ELSE Timeline)

(***************************************************************************)
(* Leaving the verbose view gives back the filter that was chosen last,    *)
(* and no choice made since then is undone; the file holds the filter.     *)
(***************************************************************************)
VerboseKeepsFilter ==
  /\ previous # None => ~(Verbose \subseteq previous) /\ allowed = previous \cup Verbose
  /\ saved = allowed

\* The rows and the filter are what the user asked for last.
ChatIsDrawn == RowsAreTimeline /\ VerboseKeepsFilter
=============================================================================
