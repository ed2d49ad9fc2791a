----------------------------- MODULE AgentWizard -----------------------------
(***************************************************************************)
(* The wizard that registers or reconfigures an agent,                     *)
(* tui/screens/register_agent.py over agent_draft.py.  Every selection is  *)
(* accepted by a callback after the next refresh, the catalog of models is *)
(* loaded beside it, and the last step starts a submission.  What the      *)
(* submission does to the platform, the keyring and the profiles is in     *)
(* module Registration.                                                    *)
(***************************************************************************)
EXTENDS Naturals, Sequences, SequencesExt

CONSTANTS Full,      \* harnesses with a model and a reasoning dimension
          Plain,     \* harnesses with a model dimension only
          Models,    \* model ids of every harness
          Kinds,     \* "register", "reconfigure"
          MaxSwift,  \* bound: presses before the screen shows what the last one did
          MaxLost    \* bound: agents that are left behind

VARIABLES kind, step, custom, draft, accepts, swift, submitting, flow, sent,
          made,      \* agents that the wizard registered or reconfigured
          lost,      \* agents that it left on the platform without knowing or being
                     \* able to delete them
          open

wizardVars == <<kind, step, custom, draft, accepts, swift, submitting, flow, sent, made, lost, open>>

Harness == Full \cup Plain
TextSteps == {"name", "description"}
TuningSteps == {"model", "reasoning"}

(***************************************************************************)
(* Values carry what they were offered for: a model its harness, an effort *)
(* the harness and the model whose efforts were listed.                    *)
(***************************************************************************)
Default == <<"default">>
Custom == <<"custom">>
NoDraft == [harness |-> "none"]
Effort(d) == <<"effort", d.harness, d.model>>
Offered(d, s) ==
  CASE s = "harness" -> {<<"harness", h>> : h \in Harness}
    [] s = "role" -> {<<"role">>, <<"gone">>}
    [] s = "model" -> {Default, Custom} \cup {<<"model", d.harness, m>> : m \in Models}
    [] s = "reasoning" -> {Default, Custom, Effort(d)}
    [] OTHER -> {}

NewDraft(h) == [harness |-> h, model |-> Default, reasoning |-> Default]

\* _steps_for_draft
Steps ==
  (IF kind = "register" THEN <<"harness", "role", "name", "description">> ELSE <<"harness", "role">>)
    \o (IF draft.harness \in Full THEN <<"model", "reasoning">> ELSE <<"model">>)
Position == CHOOSE i \in 1..Len(Steps) : Steps[i] = step

Init ==
  /\ kind \in Kinds
  /\ step = "harness" /\ custom = "none"
  /\ draft \in {NewDraft(h) : h \in Harness}
  /\ accepts = <<>> /\ swift = 0 /\ submitting = FALSE /\ flow = "none" /\ sent = NoDraft
  /\ made = 0 /\ lost = 0 /\ open = TRUE

form == <<step, custom, draft>>
submission == <<submitting, flow, sent, made, lost>>

-----------------------------------------------------------------------------
(* The user.                                                               *)

Press ==
  /\ open /\ (accepts # <<>> => swift < MaxSwift)
  /\ swift' = IF accepts = <<>> THEN swift ELSE swift + 1

\* on_option_list_option_selected
Select ==
  /\ Press /\ custom = "none" /\ step \notin TextSteps
  /\ \E option \in Offered(draft, step) :
        accepts' = Append(accepts, [by |-> "option", value |-> option])
  /\ UNCHANGED <<kind, form, submission, open>>

\* on_input_submitted: the step at the key press decides who accepts.
Enter ==
  /\ Press /\ (custom # "none" \/ step \in TextSteps)
  /\ \E value \in {<<"ok">>, <<"bad">>} :
        accepts' = Append(accepts, [by |-> IF custom # "none" THEN "custom" ELSE step, value |-> value])
  /\ UNCHANGED <<kind, form, submission, open>>

\* action_back
Back ==
  /\ Press /\ ~submitting
  /\ \/ /\ custom # "none"
        /\ custom' = "none" /\ UNCHANGED <<step, open, flow>>
     \/ /\ custom = "none" /\ Position = 1
        /\ open' = FALSE /\ UNCHANGED <<step, custom, flow>>
     \/ /\ custom = "none" /\ Position > 1
        /\ step' = Steps[Position - 1] /\ UNCHANGED <<custom, open, flow>>
  /\ UNCHANGED <<kind, draft, accepts, submitting, sent, made, lost>>

-----------------------------------------------------------------------------
(* The callbacks.                                                          *)

BugAdvance ==
  IF Position < Len(Steps)
  THEN step' = Steps[Position + 1] /\ UNCHANGED submission
  ELSE /\ submitting' = TRUE /\ flow' = "starting"
       /\ UNCHANGED <<step, sent, made, lost>>

\* _advance: behind the last step one submission is started.
Advance ==
  IF Position < Len(Steps)
  THEN step' = Steps[Position + 1] /\ UNCHANGED submission
  ELSE IF submitting THEN UNCHANGED <<step, submission>>
  ELSE /\ submitting' = TRUE /\ flow' = "starting"
       /\ UNCHANGED <<step, sent, made, lost>>

\* apply_draft_patch: another harness has another vocabulary.
Patched(h) == IF h = draft.harness THEN draft ELSE NewDraft(h)

Tuned(dimension, value) ==
  IF dimension = "model" THEN [draft EXCEPT !.model = value] ELSE [draft EXCEPT !.reasoning = value]

Accept ==
  /\ accepts # <<>>
  /\ accepts' = Tail(accepts)
  /\ UNCHANGED <<kind, swift>>

Stays == UNCHANGED <<step, submission>>

\* _accept_option dispatches on the step that it finds.
AcceptOption ==
  LET option == Head(accepts).value IN
  /\ Accept /\ Head(accepts).by = "option" /\ open
  /\ \/ /\ step = "harness" /\ option[1] = "harness"
        /\ draft' = Patched(option[2]) /\ step' = "role"
        /\ UNCHANGED <<custom, submission, open>>
     \/ /\ step = "harness" /\ option[1] # "harness"   \* HarnessId raises: the
        /\ open' = FALSE                               \* application ends
        /\ Stays /\ UNCHANGED <<draft, custom>>
     \/ /\ step = "role"
        /\ IF option = <<"role">> THEN Advance ELSE Stays
        /\ UNCHANGED <<draft, custom, open>>
     \/ /\ step \in TuningSteps /\ option = Custom
        /\ custom' = step /\ Stays /\ UNCHANGED <<draft, open>>
     \/ /\ step \in TuningSteps /\ option # Custom
        /\ draft' = Tuned(step, option) /\ Advance /\ UNCHANGED <<custom, open>>
     \/ /\ step \in TextSteps
        /\ Stays /\ UNCHANGED <<draft, custom, open>>

\* _accept_name, _accept_description and _accept_custom_tuning.
AcceptText ==
  LET accept == Head(accepts) IN
  /\ Accept /\ accept.by # "option" /\ open
  /\ \/ /\ accept.by \in TextSteps
        /\ IF accept.value = <<"ok">> THEN Advance ELSE Stays
        /\ UNCHANGED <<draft, custom>>
     \/ /\ accept.by = "custom"
        /\ IF custom # "none" /\ accept.value = <<"ok">>
           THEN draft' = Tuned(custom, Custom) /\ custom' = "none" /\ Advance
           ELSE Stays /\ UNCHANGED <<draft, custom>>
  /\ UNCHANGED open

-----------------------------------------------------------------------------
(* _submit and _submit_reconfigure, exclusive workers: one that is started  *)
(* again cancels the one before.  A value that is rejected, a taken name, a *)
(* harness that is not available and a failed request end the submission.   *)

Ends == flow' = "none" /\ submitting' = FALSE /\ sent' = NoDraft

\* The worker reads the draft; a name or description it rejects is asked for.
Submits ==
  /\ flow = "starting"
  /\ \/ flow' = "preflight" /\ sent' = draft /\ UNCHANGED <<submitting, step, custom>>
     \/ /\ kind = "register" /\ Ends
        /\ step' \in TextSteps /\ custom' = "none"
  /\ UNCHANGED <<kind, draft, accepts, swift, made, lost, open>>

\* A new agent is requested; a reconfigured one is recorded, and the screen
\* closes.
Preflighted ==
  /\ flow = "preflight"
  /\ \/ /\ kind = "register"
        /\ flow' = "create" /\ UNCHANGED <<submitting, sent, made, lost, open>>
     \/ /\ kind = "reconfigure"
        /\ made' = made + 1 /\ open' = FALSE /\ Ends
     \/ Ends /\ UNCHANGED <<made, open>>
  /\ UNCHANGED <<kind, form, accepts, swift, lost>>

\* create_agent: the platform registers the agent and the answer is received;
\* or it is lost, or its key cannot be stored and the agent not be deleted
\* again: the request failed for all that the wizard knows.
Registers ==
  /\ flow = "create"
  /\ \/ /\ made' = made + 1 /\ flow' = "record" /\ UNCHANGED <<submitting, sent, lost>>
     \/ /\ lost < MaxLost /\ lost' = lost + 1
        /\ Ends /\ UNCHANGED made
  /\ UNCHANGED <<kind, form, accepts, swift, open>>

BugRejected ==
  /\ flow = "create"
  /\ \/ step' = "name" /\ custom' = "none"
     \/ UNCHANGED <<step, custom>>
  /\ flow' = "none" /\ sent' = NoDraft /\ UNCHANGED submitting
  /\ UNCHANGED <<kind, draft, accepts, swift, made, lost, open>>

Rejected ==
  /\ flow = "create"
  /\ \/ step' = "name" /\ custom' = "none"
     \/ UNCHANGED <<step, custom>>
  /\ Ends
  /\ UNCHANGED <<kind, draft, accepts, swift, made, lost, open>>

\* The profile is recorded and the screen closes; if it cannot be saved the
\* agent is deleted again, or stays when that fails too.
Recorded ==
  /\ flow = "record"
  /\ \/ open' = FALSE /\ UNCHANGED <<made, lost>>
     \/ made' = made - 1 /\ UNCHANGED <<lost, open>>
     \/ lost < MaxLost /\ lost' = lost + 1 /\ made' = made - 1 /\ UNCHANGED open
  /\ Ends
  /\ UNCHANGED <<kind, form, accepts, swift>>

Next ==
  \/ Select \/ Enter \/ Back
  \/ AcceptOption \/ AcceptText
  \/ Submits \/ Preflighted \/ Registers \/ Rejected \/ Recorded

\* Workers run; preflights and requests end or time out.
Fairness == WF_wizardVars(Submits \/ Preflighted \/ Registers \/ Rejected \/ Recorded)

-----------------------------------------------------------------------------
TypeOK ==
  /\ kind \in Kinds /\ step \in {"harness", "role"} \cup TextSteps \cup TuningSteps
  /\ custom \in {"none"} \cup TuningSteps
  /\ draft.harness \in Harness /\ (flow \in {"none", "starting"} <=> sent = NoDraft)
  /\ submitting \in BOOLEAN /\ flow \in {"none", "starting", "preflight", "create", "record"}
  /\ open \in BOOLEAN /\ made \in Nat /\ lost \in 0..MaxLost

FitsModel(d) == d.model \in {Default, Custom} \/ (d.model[1] = "model" /\ d.model[2] = d.harness)
FitsEffort(d) == d.reasoning \in {Default, Custom} \/ (d.harness \in Full /\ d.reasoning = Effort(d))

(***************************************************************************)
(* What is submitted fits together: the model is one of the submitted      *)
(* harness and the effort one of that model (AgentTuning: selected values  *)
(* keyed by dimension).  A selection that is accepted one step later than  *)
(* it was made breaks it.                                                  *)
(***************************************************************************)
SettingsFit == sent # NoDraft => FitsModel(sent) /\ FitsEffort(sent)

\* It holds as long as every press waits for the screen, however often the
\* user went back and changed an earlier step (apply_draft_patch).
SubmissionFits == swift = 0 => SettingsFit

\* One wizard registers or reconfigures once, also if the last step is
\* accepted twice before the screen is refreshed; what it left behind is not
\* counted, and the user may submit again after it.
OneRegistration == made <= 1

\* The wizard, which cannot be left while it submits, is given back.
SubmittingEnds == submitting ~> ~submitting

\* A wizard submits one agent, whose settings fit together if no press was swift.
SubmissionIsSound == SubmissionFits /\ OneRegistration
=============================================================================
