-------------------------------- MODULE Flows --------------------------------
(***************************************************************************)
(* Flows of screens that share no state with each other: starting,         *)
(* stopping and deleting agents, the agents screen, the wizard and the     *)
(* rooms screen.  They are checked side by side: a behaviour is a          *)
(* behaviour of one part, and the variables of the others keep their       *)
(* initial values.                                                         *)
(***************************************************************************)
EXTENDS Naturals, Sequences

CONSTANTS
  Agents, Harnesses, Attempts, MaxChanges, Modes,   \* AgentActions
  Listed, AgentHits,                                \* AgentsCatalog
  Full, Plain, Models, Kinds, MaxSwift, MaxLost,    \* AgentWizard
  Rooms, Limit, RoomHits, Initially,                \* RoomsCatalog
  None

\* An agent has a harness and a mode; a preflight is tried at least once; a
\* page holds a room; None is no agent, no harness, no room and no cursor.
ASSUME FlowsAssumption ==
  /\ Attempts \in Nat \ {0} /\ MaxChanges \in Nat
  /\ Harnesses # {} /\ Modes # {} /\ Full \cup Plain # {} /\ MaxSwift \in Nat /\ MaxLost \in Nat
  /\ Kinds \subseteq {"register", "reconfigure"} /\ Kinds # {}
  /\ Limit \in Nat \ {0} /\ Initially \subseteq Seq(Rooms)
  /\ None \notin Agents \cup Harnesses \cup Listed \cup Rooms \cup Nat

VARIABLES part
VARIABLES worker, profile, listed, shown, wanted, begun, deleting, start, stop,
          delete, confirm, poll, changes, mode, rash
VARIABLES mine, agents, directory, source, search, selected, rows, row, dirty,
          listLoad, dirLoad
VARIABLES kind, step, custom, draft, accepts, swift, submitting, flow, sent, made, lost, open
VARIABLES server, used, rooms, roomSearch, roomSelected, more, loadingMore, load,
          unwinding, pending, deletion, creation, forgotten

actionVars == <<worker, profile, listed, shown, wanted, begun, deleting, start, stop,
                delete, confirm, poll, changes, mode, rash>>
catalogVars == <<mine, agents, directory, source, search, selected, rows, row, dirty,
                 listLoad, dirLoad>>
wizardVars == <<kind, step, custom, draft, accepts, swift, submitting, flow, sent, made, lost,
                open>>
roomsVars == <<server, used, rooms, roomSearch, roomSelected, more, loadingMore, load,
               unwinding, pending, deletion, creation, forgotten>>

A == INSTANCE AgentActions
C == INSTANCE AgentsCatalog WITH Agents <- Listed, Hits <- AgentHits
W == INSTANCE AgentWizard
R == INSTANCE RoomsCatalog WITH
       search <- roomSearch, selected <- roomSelected, Hits <- RoomHits

\* A part that does not run starts in one of its initial states.
Init ==
  /\ part \in {"actions", "catalog", "wizard", "rooms"}
  /\ A!Init /\ (part # "actions" => /\ profile = (CHOOSE p \in [Agents -> Harnesses] : TRUE)
                                    /\ mode = (CHOOSE m \in Modes : TRUE))
  /\ C!Init /\ (part # "catalog" => mine = {})
  /\ W!Init /\ (part # "wizard" => /\ kind = (CHOOSE k \in Kinds : TRUE)
                                   /\ draft.harness = (CHOOSE h \in Full \cup Plain : TRUE))
  /\ R!Init

Next ==
  \/ /\ part = "actions" /\ A!Next
     /\ UNCHANGED <<part, catalogVars, wizardVars, roomsVars>>
  \/ /\ part = "catalog" /\ C!Next
     /\ UNCHANGED <<part, actionVars, wizardVars, roomsVars>>
  \/ /\ part = "wizard" /\ W!Next
     /\ UNCHANGED <<part, actionVars, catalogVars, roomsVars>>
  \/ /\ part = "rooms" /\ R!Next
     /\ UNCHANGED <<part, actionVars, catalogVars, wizardVars>>

Spec == Init /\ [][Next]_<<part, actionVars, catalogVars, wizardVars, roomsVars>>

-----------------------------------------------------------------------------
(* The properties are those of the parts; a liveness property holds under  *)
(* the fairness of its part.                                               *)

\* The state of every part has its type.
TypeOK == A!TypeOK /\ C!TypeOK /\ W!TypeOK /\ R!TypeOK

\* A stop asked for during a start is carried out and ends with it
\* (finish_start), and a deleted agent has no worker that was not told to stop,
\* unless it was started while it was being deleted.
RunStateIsTrue == A!RunStateIsTrue

\* The pane stops showing an agent as running when its worker is gone, and a
\* start ends or waits for the user's consent.
RunStateSettles == part = "actions" /\ A!Fairness => A!RunStateSettles

\* The rows of the agents screen catch up with the store, and a row that the
\* platform no longer has leaves the user's list.
CatalogSettles == part = "catalog" /\ C!Fairness => C!CatalogSettles

\* The submitted tuning fits the submitted harness and model as long as every
\* press waits for the screen, and one wizard registers or reconfigures once,
\* besides what it could not take back.
SubmissionIsSound == W!SubmissionIsSound

\* The wizard is given back once its submission ended.
SubmittingEnds == part = "wizard" /\ W!Fairness => W!SubmittingEnds

\* Another page of rooms is refused only while one is loaded, a room deleted
\* here does not come back with an older answer; deleted rooms and twins leave
\* the list, and a search finds the rooms of every page.
RoomsSettle ==
  /\ [](part = "rooms" => R!FlagTellsTheLoad) /\ R!ForgottenStaysAway
  /\ part = "rooms" /\ R!Fairness => R!RoomsSettle
=============================================================================
