---------------------------- MODULE AgentsCatalog ----------------------------
(***************************************************************************)
(* The agents screen as a projection of AgentsStore: tui/screens/agents.py *)
(* (rows, search, catalog and directory loads) and the catalog half *)
(* of tui/stores.py AgentsStore.  Lists are sets: their order only decides *)
(* which row is the first.  Deleting and running agents: AgentActions.     *)
(***************************************************************************)
EXTENDS FiniteSets

CONSTANTS Agents,   \* agents of the user and of the directory
          Hits,     \* those whose name matches the one search text
          None

VARIABLES mine,       \* the user's agents on the platform
          agents, directory, source, search, selected, \* AgentsStore
          rows, row,  \* the list view and its highlighted child
          dirty,      \* mutate_reactive: the rows are to be rendered
          listLoad,   \* _load_agents: where it is and what it will apply
          dirLoad     \* _load_directory

catalogVars == <<mine, agents, directory, source, search, selected,
               rows, row, dirty, listLoad, dirLoad>>
view == <<rows, row>>

Matching(names, text) == IF text THEN names \cap Hits ELSE names

Catalog == IF source = "mine" THEN agents ELSE directory

\* AgentsStore.visible; the chips filter like the search text and are left out.
Visible == Matching(Catalog, search)

NoLoad == [at |-> "none", search |-> FALSE, answer |-> {}]
Load == [at : {"none", "sleep", "asked", "answered"}, search : BOOLEAN, answer : SUBSET Agents]

Init ==
  /\ mine \in SUBSET Agents
  /\ agents = {} /\ directory = {} /\ source = "mine" /\ search = FALSE
  /\ selected = None
  /\ rows = {} /\ row = None /\ dirty = FALSE
  /\ listLoad = [NoLoad EXCEPT !.at = "sleep"] /\ dirLoad = NoLoad

\* _reconcile_selection after the projection became `visible`.
Reconcile(visible) ==
  IF selected \in visible THEN UNCHANGED selected
  ELSE IF visible = {} THEN selected' = None ELSE selected' \in visible

-----------------------------------------------------------------------------
(* Rendering and selection.                                                *)

BugRender ==
  /\ dirty
  /\ dirty' = FALSE
  /\ rows' = Visible /\ row' = selected
  /\ UNCHANGED <<mine, agents, directory, source, search, selected, listLoad, dirLoad>>

\* watch_store and _render_rows; the list view then reports its highlighted
\* row, which on_list_view_highlighted selects.
Render ==
  /\ dirty
  /\ dirty' = FALSE
  /\ rows' = Visible
  /\ IF selected \in Visible THEN row' = selected
     ELSE IF Visible = {} THEN row' = None ELSE row' \in Visible
  /\ selected' = IF row' = None THEN selected ELSE row'
  /\ UNCHANGED <<mine, agents, directory, source, search, listLoad, dirLoad>>

MoveCursor ==
  /\ \E a \in rows \ {row} : row' = a /\ selected' = a
  /\ UNCHANGED <<mine, agents, directory, source, search,
                 rows, dirty, listLoad, dirLoad>>

-----------------------------------------------------------------------------
(* Loads: the next exclusive worker of a group replaces the one before.  A *)
(* finally clause renders; the loading flag, a label, is left out.         *)

BeginList ==
  /\ listLoad' = [NoLoad EXCEPT !.at = "sleep"] /\ UNCHANGED dirLoad
  /\ dirty' \in {dirty, dirty \/ listLoad.at \in {"asked", "answered"}}

BeginDirectory ==
  /\ dirLoad' = [NoLoad EXCEPT !.at = "asked"] /\ UNCHANGED listLoad
  /\ dirty' \in {dirty, dirty \/ dirLoad.at # "none"}

\* action_reload, the poll of the catalog and on_screen_resume.
Refresh ==
  /\ IF source = "mine" THEN BeginList ELSE BeginDirectory
  /\ UNCHANGED <<mine, agents, directory, source, search, selected, view>>

\* The debounce ends: nothing is loaded while the directory is shown.
ListAsked ==
  /\ listLoad.at = "sleep"
  /\ IF source = "directory"
     THEN listLoad' = NoLoad /\ dirty' = TRUE
     ELSE /\ listLoad' = [at |-> "asked", search |-> search, answer |-> {}]
          /\ UNCHANGED dirty
  /\ UNCHANGED <<mine, agents, directory, source, search, selected, dirLoad, view>>

ListAnswered ==
  /\ listLoad.at = "asked"
  /\ listLoad' = [at |-> "answered", search |-> listLoad.search,
                  answer |-> Matching(mine, listLoad.search)]
  /\ UNCHANGED <<mine, agents, directory, source, search, selected,
                 dirty, dirLoad, view>>

BugListEnds == listLoad' = NoLoad /\ UNCHANGED dirty

ListEnds == listLoad' = NoLoad /\ dirty' = TRUE

\* replace_agents.
ListApplied ==
  /\ listLoad.at = "answered"
  /\ agents' = listLoad.answer
  /\ Reconcile(IF source = "mine" THEN Matching(agents', search) ELSE Visible)
  /\ ListEnds
  /\ UNCHANGED <<mine, directory, source, search, dirLoad, view>>

ListFails ==
  /\ listLoad.at = "asked"
  /\ ListEnds
  /\ UNCHANGED <<mine, agents, directory, source, search, selected, dirLoad, view>>

DirectoryAnswered ==
  /\ dirLoad.at = "asked"
  /\ dirLoad' = [at |-> "answered", search |-> FALSE, answer |-> Agents]
  /\ UNCHANGED <<mine, agents, directory, source, search, selected,
                 dirty, listLoad, view>>

DirectoryApplied ==
  /\ \/ /\ dirLoad.at = "answered"
        /\ directory' = dirLoad.answer
        /\ Reconcile(IF source = "directory" THEN Matching(directory', search)
                     ELSE Visible)
     \/ dirLoad.at = "asked" /\ UNCHANGED <<directory, selected>>   \* the request failed
  /\ dirLoad' = NoLoad /\ dirty' = TRUE
  /\ UNCHANGED <<mine, agents, source, search, listLoad, view>>

-----------------------------------------------------------------------------
(* Search and the directory.                                               *)

\* on_input_changed: the text filters at once, the rows follow the load.
Type ==
  /\ search' = ~search
  /\ Reconcile(Matching(Catalog, search'))
  /\ BeginList
  /\ UNCHANGED <<mine, agents, directory, source, view>>

\* action_toggle_discover ends in action_reload.
ToggleDiscover ==
  /\ source' = IF source = "mine" THEN "directory" ELSE "mine"
  /\ Reconcile(Matching(IF source' = "mine" THEN agents ELSE directory, search))
  /\ LET begun == [NoLoad EXCEPT !.at = IF source' = "mine" THEN "sleep" ELSE "asked"] IN
     IF source' = "mine" THEN listLoad' = begun /\ UNCHANGED dirLoad
                         ELSE dirLoad' = begun /\ UNCHANGED listLoad
  /\ dirty' = TRUE
  /\ UNCHANGED <<mine, agents, directory, search, view>>

-----------------------------------------------------------------------------
(* Changes of the catalog.                                                 *)

\* The wizard registers an agent, adds it and closes: the screen resumes.
Register(a) ==
  /\ a \notin mine
  /\ mine' = mine \cup {a}
  /\ agents' = agents \cup {a} /\ selected' = a
  /\ IF source = "mine" THEN BeginList ELSE BeginDirectory
  /\ UNCHANGED <<directory, source, search, view>>

\* remove_agent once the platform has deleted it.
Removed(a) ==
  /\ a \in mine
  /\ mine' = mine \ {a} /\ agents' = agents \ {a}
  /\ Reconcile(IF source = "mine" THEN Matching(agents', search)
               ELSE Matching(directory, search))
  /\ dirty' = TRUE
  /\ UNCHANGED <<directory, source, search, listLoad, dirLoad, view>>

Next ==
  \/ Render \/ MoveCursor
  \/ Refresh \/ ListAsked \/ ListAnswered \/ ListApplied \/ ListFails
  \/ DirectoryAnswered \/ DirectoryApplied
  \/ Type \/ ToggleDiscover
  \/ \E a \in Agents : Register(a) \/ Removed(a)

\* Messages and workers run; the platform answers or the request times out;
\* the interval polls, less often than a request takes.
Fairness ==
  /\ WF_catalogVars(Render)
  /\ SF_catalogVars(ListAsked) /\ SF_catalogVars(ListAnswered)
  /\ SF_catalogVars(ListApplied)
  /\ SF_catalogVars(DirectoryAnswered)
  /\ SF_catalogVars(dirLoad.at = "answered" /\ DirectoryApplied)
  /\ WF_catalogVars(listLoad.at = "none" /\ dirLoad.at = "none" /\ Refresh)

-----------------------------------------------------------------------------
TypeOK ==
  /\ mine \subseteq Agents /\ agents \subseteq Agents /\ directory \subseteq Agents
  /\ selected \in Agents \cup {None}
  /\ source \in {"mine", "directory"}
  /\ search \in BOOLEAN /\ dirty \in BOOLEAN
  /\ rows \subseteq Agents /\ row \in rows \cup {None}
  /\ listLoad \in Load /\ dirLoad \in Load

\* The rows catch up with the store, whatever changed it.
RowsFollowStore == rows # Visible ~> rows = Visible

\* A row that the platform no longer has leaves the user's list: the answer
\* of a load that overtook the deletion is corrected by a later one.
DeletedRowsLeave ==
  \A a \in Agents : a \in agents \ mine ~> (a \notin agents \/ source = "directory" \/ a \in mine)

\* What the agents screen shows catches up with the store and the platform.
CatalogSettles == RowsFollowStore /\ DeletedRowsLeave
=============================================================================
