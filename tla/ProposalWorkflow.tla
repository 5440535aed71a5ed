-------------------------- MODULE ProposalWorkflow --------------------------
(***************************************************************************)
(* The evaluation of the proposals of one round of a call                  *)
(* (waldur_mastermind/proposal).                                           *)
(*                                                                         *)
(* Submission fixes the path of a proposal through the steps of the call.  *)
(* Steps are completed or rejected by people, expired by a sweep, and where *)
(* the call says so confirmed by a manager; the last one provisions the     *)
(* project.  Other sweeps cancel the drafts of a closed round and start     *)
(* proposals that were held for the cut-off.                               *)
(*                                                                         *)
(* Endpoints read the proposal before they lock it.  complete and reject   *)
(* lock its row and then that of the step; the expiry locks the step and   *)
(* then writes the proposal, so each may wait for the other: the database  *)
(* ends one of them.  Transactions that lock only the proposal are one      *)
(* step here, taken while nobody else holds the row.                       *)
(*                                                                         *)
(* Data abstracted: outcomes are positive or negative; the gates of a step *)
(* (reviews, scores, checklist) may refuse; every step has a duration; a    *)
(* step may be enabled whatever steps it depends on.                       *)
(***************************************************************************)
EXTENDS Integers, FiniteSets, FiniteSetsExt

CONSTANTS
  Proposals,
  Procs,      \* requests and sweeps that run at the same time
  LastStep,   \* award_response, the last step of the catalogue 1..LastStep
  Optional,   \* bound: the steps the call may enable and disable
  Parkable,   \* bound: the steps whose transition_mode may be manual
  Occurs      \* bound: which of Operations happen

Steps == 1..LastStep
Award == LastStep
Decision == LastStep - 1       \* allocation_decision, the mandatory step

Operations ==
  {"close_round", "edit_round", "edit_evaluation_start", "edit_steps",
   "edit_transition_mode", "destroy"}

ASSUME WorkflowAssumption ==
  /\ LastStep \in Nat /\ LastStep >= 2
  /\ Optional \subseteq Steps \ {Decision} /\ Parkable \subseteq Steps
  /\ Occurs \subseteq Operations

Open == {"draft", "submitted", "in_review"}
Closed == {"accepted", "rejected", "canceled", "deleted"}

VARIABLES
  closed,    \* the cut-off of the round has passed
  atCutoff,  \* evaluation_start of the call
  enabled,   \* steps the call has enabled
  manual,    \* steps whose transition_mode is manual
  prop,      \* row of each proposal
  inst,      \* inst[p][s]: status of the step instance of p, with a completed
             \* one split by its outcome into "completed" and "refused"
  overdue,   \* the deadline of the active step of p has passed
  proc,      \* what each process is doing
  lost       \* history: proposals written over, when no longer drafts, by a
             \* sweep or a deletion that had read them as drafts

vars == <<closed, atCutoff, enabled, manual, prop, inst, overdue, proc, lost>>
call == <<closed, atCutoff, enabled, manual>>
rows == <<prop, inst, overdue, lost>>

Idle == [op |-> "idle"]

Init ==
  /\ closed = FALSE /\ atCutoff \in BOOLEAN
  /\ enabled \in {Steps \ S : S \in SUBSET Optional}
  /\ manual \in SUBSET Parkable
  /\ prop = [p \in Proposals |-> [st |-> "draft", step |-> 0, projects |-> 0]]
  /\ inst = [p \in Proposals |-> [s \in Steps |-> "none"]]
  /\ overdue = [p \in Proposals |-> FALSE]
  /\ proc = [w \in Procs |-> Idle]
  /\ lost = {}

Becomes(w, next) == proc' = [proc EXCEPT ![w] = next]

\* Rows locked by a transaction that still waits for its second row.
ProposalLocked(p) == \E w \in Procs : proc[w].op = "decide_locked" /\ proc[w].p = p
StepLocked(p, s) == \E w \in Procs : proc[w].op = "expire_locked" /\ proc[w].p = p /\ proc[w].s = s

-----------------------------------------------------------------------------
(***************************************************************************)
(* The path of a proposal (workflow_service).                              *)
(***************************************************************************)

Pending(i) == {s \in Steps : i[s] = "pending"}
Active(i) == {s \in Steps : i[s] = "active"}

\* Writes to the rows of p: the proposal's, and the statuses of its steps.
\* A step that is activated gets its deadline anew.
Save(p, row, i) ==
  /\ prop' = [prop EXCEPT ![p] = row]
  /\ inst' = [inst EXCEPT ![p] = i]
  /\ overdue' = [overdue EXCEPT ![p] = @ /\ Active(i) \subseteq Active(inst[p])]
  /\ lost' = lost

\* create_step_instances.
Path == [s \in Steps |-> IF s \in enabled THEN "pending" ELSE "skipped"]

\* activate_first_step.
Started(p, i) ==
  LET first == Min(Pending(i))
  IN Save(p, [prop[p] EXCEPT !.st = "in_review", !.step = first],
             [i EXCEPT ![first] = "active"])

\* allocate_proposal and the acceptance that follows.  allocated: the copy of
\* the proposal that is saved has a project.
Accepted(row, allocated) ==
  [row EXCEPT !.st = "accepted", !.step = 0, !.projects = IF allocated THEN @ ELSE @ + 1]

\* (mutation: the path is taken from the live configuration of the call)
FollowsConfiguration(p, i, s, allocated) ==
  LET left == {t \in enabled : t > s}
  IN IF left = {} THEN Save(p, Accepted(prop[p], allocated), i)
     ELSE Save(p, [prop[p] EXCEPT !.step = Min(left)], [i EXCEPT ![Min(left)] = "active"])

\* _advance_to_next, with the steps as in i.
AdvanceToNext(p, i, s, allocated) ==
  LET left == {t \in Pending(i) : t > s}
  IN IF left = {} THEN Save(p, Accepted(prop[p], allocated), i)
     ELSE Save(p, [prop[p] EXCEPT !.step = Min(left)], [i EXCEPT ![Min(left)] = "active"])

\* The step of p is completed, and was in manual mode then.
Parked(p) == prop[p].step # 0 /\ inst[p][prop[p].step] = "completed"

\* is_awaiting_manual_advance, which reads the mode of today.
AwaitsAdvance(p) == Parked(p) /\ prop[p].step \in manual

-----------------------------------------------------------------------------
(***************************************************************************)
(* Submission, and the round.                                              *)
(***************************************************************************)

\* submit: the validators look at an unlocked copy and at the round.
BeginSubmit(w, p) ==
  /\ proc[w] = Idle
  /\ prop[p].st = "draft" /\ ~closed
  /\ Becomes(w, [op |-> "submit", p |-> p])
  /\ UNCHANGED <<call, rows>>

\* (mutation: the state is not looked at again)
SubmitsAgain(w) ==
  /\ proc[w].op = "submit" /\ ~ProposalLocked(proc[w].p)
  /\ Becomes(w, Idle)
  /\ IF atCutoff
       THEN Save(proc[w].p, [prop[proc[w].p] EXCEPT !.st = "submitted"], Path)
       ELSE Started(proc[w].p, Path)
  /\ UNCHANGED call

\* The rest of submit, with the row locked and its state looked at again.
CommitSubmit(w) ==
  LET p == proc[w].p
  IN /\ proc[w].op = "submit" /\ ~ProposalLocked(p)
     /\ Becomes(w, Idle)
     /\ IF prop[p].st # "draft" THEN UNCHANGED rows
        ELSE IF atCutoff THEN Save(p, [prop[p] EXCEPT !.st = "submitted"], Path)
        ELSE Started(p, Path)
     /\ UNCHANGED call

\* The cut-off comes.
CutoffPasses ==
  /\ ~closed /\ closed' = TRUE
  /\ UNCHANGED <<atCutoff, enabled, manual, rows, proc>>

\* The round is edited: its cut-off moves.
ExtendRound ==
  /\ "edit_round" \in Occurs
  /\ closed /\ closed' = FALSE
  /\ UNCHANGED <<atCutoff, enabled, manual, rows, proc>>

\* close_round moves the cut-off to now ...
CloseRound(w) ==
  /\ "close_round" \in Occurs
  /\ proc[w] = Idle
  /\ ~closed /\ closed' = TRUE
  /\ Becomes(w, [op |-> "close_round"])
  /\ UNCHANGED <<atCutoff, enabled, manual, rows>>

\* (mutation: every proposal of the round that is under way is canceled)
CancelsTheRound(w) ==
  /\ proc[w].op = "close_round"
  /\ \A p \in Proposals : ~ProposalLocked(p)
  /\ prop' = [p \in Proposals |->
                IF prop[p].st \in Open THEN [prop[p] EXCEPT !.st = "canceled"] ELSE prop[p]]
  /\ Becomes(w, Idle)
  /\ UNCHANGED <<call, inst, overdue, lost>>

\* ... and process_closed_round locks the drafts and cancels them.
ProcessClosedRound(w) ==
  /\ proc[w].op = "close_round"
  /\ \A p \in Proposals : prop[p].st = "draft" => ~ProposalLocked(p)
  /\ prop' = [p \in Proposals |->
                IF prop[p].st = "draft" THEN [prop[p] EXCEPT !.st = "canceled"] ELSE prop[p]]
  /\ Becomes(w, Idle)
  /\ UNCHANGED <<call, inst, overdue, lost>>

\* proposals_for_ended_rounds_should_be_cancelled lists the drafts ...
ListDrafts(w) ==
  /\ proc[w] = Idle
  /\ closed
  /\ \E p \in Proposals : prop[p].st = "draft"
  /\ Becomes(w, [op |-> "cancel_drafts", todo |-> {p \in Proposals : prop[p].st = "draft"}])
  /\ UNCHANGED <<call, rows>>

\* A write from a copy that was a draft, when the row has passed those states.
LostUnless(p, states) == lost' = IF prop[p].st \in states THEN lost ELSE lost \cup {p}

\* ... and saves the state of each, without a lock and without a second look.
\* The save of a row that was deleted raises, and the sweep ends there.
CancelDraft(w, p) ==
  /\ proc[w].op = "cancel_drafts" /\ p \in proc[w].todo
  /\ ~ProposalLocked(p)
  /\ IF prop[p].st = "deleted"
       THEN Becomes(w, Idle) /\ UNCHANGED <<prop, lost>>
       ELSE /\ prop' = [prop EXCEPT ![p].st = "canceled"]
            /\ LostUnless(p, {"draft", "canceled"})
            /\ Becomes(w, IF proc[w].todo = {p} THEN Idle ELSE [proc[w] EXCEPT !.todo = @ \ {p}])
  /\ UNCHANGED <<call, inst, overdue>>

\* destroy, for drafts only: the validator reads the row ...
BeginDestroy(w, p) ==
  /\ "destroy" \in Occurs
  /\ proc[w] = Idle
  /\ prop[p].st = "draft"
  /\ Becomes(w, [op |-> "destroy", p |-> p])
  /\ UNCHANGED <<call, rows>>

\* ... and whatever has become of it, it is deleted with its steps, once none
\* of these rows is locked.
CommitDestroy(w) ==
  LET p == proc[w].p
  IN /\ proc[w].op = "destroy"
     /\ ~ProposalLocked(p) /\ \A s \in Steps : ~StepLocked(p, s)
     /\ IF prop[p].st = "deleted" THEN UNCHANGED rows
        ELSE /\ prop' = [prop EXCEPT ![p].st = "deleted", ![p].step = 0]
             /\ inst' = [inst EXCEPT ![p] = [s \in Steps |-> "none"]]
             /\ overdue' = [overdue EXCEPT ![p] = FALSE]
             /\ LostUnless(p, {"draft"})
     /\ Becomes(w, Idle)
     /\ UNCHANGED call

\* (mutation: only where the call still evaluates at the cut-off)
HeldByConfiguration(p) ==
  prop[p].st = "submitted" /\ closed /\ atCutoff /\ Pending(inst[p]) # {} /\ Active(inst[p]) = {}

Held(p) ==
  prop[p].st = "submitted" /\ closed /\ Pending(inst[p]) # {} /\ Active(inst[p]) = {}

\* start_evaluation_for_closed_rounds lists the proposals held for the cut-off ...
ListHeld(w) ==
  /\ proc[w] = Idle
  /\ \E p \in Proposals : Held(p)
  /\ Becomes(w, [op |-> "start_evaluation", todo |-> {p \in Proposals : Held(p)}])
  /\ UNCHANGED <<call, rows>>

\* (mutation: the state is not looked at again)
StartsAgain(w, p) ==
  /\ proc[w].op = "start_evaluation" /\ p \in proc[w].todo
  /\ ~ProposalLocked(p)
  /\ IF Pending(inst[p]) # {} THEN Started(p, inst[p]) ELSE UNCHANGED rows
  /\ Becomes(w, IF proc[w].todo = {p} THEN Idle ELSE [proc[w] EXCEPT !.todo = @ \ {p}])
  /\ UNCHANGED call

\* ... and starts each, with the row locked and its state looked at again.
StartHeld(w, p) ==
  /\ proc[w].op = "start_evaluation" /\ p \in proc[w].todo
  /\ ~ProposalLocked(p)
  /\ IF prop[p].st = "submitted" /\ Pending(inst[p]) # {} THEN Started(p, inst[p])
     ELSE UNCHANGED rows
  /\ Becomes(w, IF proc[w].todo = {p} THEN Idle ELSE [proc[w] EXCEPT !.todo = @ \ {p}])
  /\ UNCHANGED call

-----------------------------------------------------------------------------
(***************************************************************************)
(* Decisions.                                                              *)
(***************************************************************************)

\* complete_workflow_step and reject_workflow_step read the proposal; its step
\* at that time is the one the client decides about.
BeginDecide(w, p) ==
  /\ proc[w] = Idle
  /\ prop[p].st = "in_review" /\ prop[p].step # 0
  /\ Becomes(w, [op |-> "decide", p |-> p, s |-> prop[p].step,
                 allocated |-> prop[p].projects > 0])
  /\ UNCHANGED <<call, rows>>

LockProposal(w) ==
  /\ proc[w].op = "decide" /\ ~ProposalLocked(proc[w].p)
  /\ Becomes(w, [proc[w] EXCEPT !.op = "decide_locked"])
  /\ UNCHANGED <<call, rows>>

\* (mutation: the step is found whatever has become of it)
InAnyStatus(p, s) == inst[p][s] # "none"

\* The instance is looked for by its uuid among the active ones, and locked.
StillActive(p, s) == inst[p][s] = "active"

\* The step has changed, a gate is not satisfied or the request fails: the
\* transaction is rolled back.
DecisionRefused(w) ==
  /\ proc[w].op = "decide_locked" /\ ~StepLocked(proc[w].p, proc[w].s)
  /\ Becomes(w, Idle)
  /\ UNCHANGED <<call, rows>>

\* complete_step with a positive outcome.
CompleteStep(w) ==
  LET p == proc[w].p  s == proc[w].s  i == [inst[p] EXCEPT ![s] = "completed"]
  IN /\ proc[w].op = "decide_locked"
     /\ ~StepLocked(p, s) /\ StillActive(p, s)
     /\ IF s \in manual THEN Save(p, prop[p], i)
                        ELSE AdvanceToNext(p, i, s, proc[w].allocated)
     /\ Becomes(w, Idle)
     /\ UNCHANGED call

\* complete_step with a negative outcome, and reject_at_step; only the former, at
\* the award, is the applicant's own refusal.
RefuseStep(w, outcome) ==
  LET p == proc[w].p  s == proc[w].s
  IN /\ proc[w].op = "decide_locked"
     /\ ~StepLocked(p, s) /\ StillActive(p, s)
     /\ Save(p, [prop[p] EXCEPT !.step = 0,
                   !.st = IF s = Award /\ outcome = "declined" THEN "canceled" ELSE "rejected"],
             [inst[p] EXCEPT ![s] = "refused"])
     /\ Becomes(w, Idle)
     /\ UNCHANGED call

\* advance_workflow_step: state and step are read again under the lock.
AdvanceStep(p) ==
  /\ prop[p].st = "in_review" /\ ~ProposalLocked(p)
  /\ AwaitsAdvance(p)
  /\ AdvanceToNext(p, inst[p], prop[p].step, prop[p].projects > 0)
  /\ UNCHANGED <<call, proc>>

-----------------------------------------------------------------------------
(***************************************************************************)
(* Expiry.                                                                 *)
(***************************************************************************)

DeadlinePasses(p) ==
  /\ Active(inst[p]) # {} /\ ~overdue[p]
  /\ overdue' = [overdue EXCEPT ![p] = TRUE]
  /\ UNCHANGED <<call, prop, inst, proc, lost>>

\* mark_expired_workflow_steps locks an active step that is overdue.
LockOverdueStep(w, p, s) ==
  /\ proc[w] = Idle
  /\ inst[p][s] = "active" /\ overdue[p] /\ ~StepLocked(p, s)
  /\ Becomes(w, [op |-> "expire_locked", p |-> p, s |-> s])
  /\ UNCHANGED <<call, rows>>

\* expire_step: the next step is activated, or the proposal is rejected.
ExpireStep(w) ==
  LET p == proc[w].p  s == proc[w].s
      i == [inst[p] EXCEPT ![s] = "expired"]
      left == {t \in Pending(i) : t > s}
  IN /\ proc[w].op = "expire_locked" /\ ~ProposalLocked(p)
     /\ IF left = {} THEN Save(p, [prop[p] EXCEPT !.st = "rejected", !.step = 0], i)
        ELSE Save(p, [prop[p] EXCEPT !.step = Min(left)], [i EXCEPT ![Min(left)] = "active"])
     /\ Becomes(w, Idle)
     /\ UNCHANGED call

\* Two transactions wait for each other; the database ends one of them.
LockCycle(v, w) ==
  /\ proc[v].op = "decide_locked" /\ proc[w].op = "expire_locked"
  /\ proc[v].p = proc[w].p /\ proc[v].s = proc[w].s

EndDeadlock(v, w) ==
  /\ LockCycle(v, w)
  /\ Becomes(v, Idle) \/ Becomes(w, Idle)
  /\ UNCHANGED <<call, rows>>

-----------------------------------------------------------------------------
(***************************************************************************)
(* The call is edited while its proposals are evaluated.                   *)
(***************************************************************************)

UnderEvaluation(p) == prop[p].st \in {"submitted", "in_review"}

\* evaluation_start may change while no proposal is under evaluation.
BeginEditCall(w) ==
  /\ "edit_evaluation_start" \in Occurs
  /\ proc[w] = Idle
  /\ \A p \in Proposals : ~UnderEvaluation(p)
  /\ Becomes(w, [op |-> "edit_call", atCutoff |-> ~atCutoff])
  /\ UNCHANGED <<call, rows>>

CommitEditCall(w) ==
  /\ proc[w].op = "edit_call"
  /\ atCutoff' = proc[w].atCutoff
  /\ Becomes(w, Idle)
  /\ UNCHANGED <<closed, enabled, manual, rows>>

EditSteps(s) ==
  /\ "edit_steps" \in Occurs
  /\ enabled' = IF s \in enabled THEN enabled \ {s} ELSE enabled \cup {s}
  /\ UNCHANGED <<closed, atCutoff, manual, rows, proc>>

EditTransitionMode(s) ==
  /\ "edit_transition_mode" \in Occurs
  /\ manual' = IF s \in manual THEN manual \ {s} ELSE manual \cup {s}
  /\ UNCHANGED <<closed, atCutoff, enabled, rows, proc>>

-----------------------------------------------------------------------------
Decide(w) ==
  LockProposal(w) \/ DecisionRefused(w) \/ CompleteStep(w)
  \/ \E outcome \in {"declined", "rejected"} : RefuseStep(w, outcome)

\* What a request or task that has begun does next; two that wait for each other
\* are parted.
Proceed(w) ==
  \/ CommitSubmit(w) \/ CommitDestroy(w) \/ CommitEditCall(w) \/ ProcessClosedRound(w)
  \/ \E p \in Proposals : CancelDraft(w, p) \/ StartHeld(w, p)
  \/ \E v \in Procs : EndDeadlock(v, w)

Next ==
  \/ CutoffPasses \/ ExtendRound
  \/ (\E s \in Optional : EditSteps(s)) \/ (\E s \in Parkable : EditTransitionMode(s))
  \/ \E p \in Proposals : AdvanceStep(p) \/ DeadlinePasses(p)
  \/ \E w \in Procs :
       \/ CloseRound(w) \/ BeginEditCall(w) \/ ListDrafts(w) \/ ListHeld(w)
       \/ Proceed(w) \/ Decide(w) \/ ExpireStep(w)
       \/ \E p \in Proposals :
            \/ BeginSubmit(w, p) \/ BeginDestroy(w, p) \/ BeginDecide(w, p)
            \/ \E s \in Steps : LockOverdueStep(w, p, s)

Spec == Init /\ [][Next]_vars

\* Requests and tasks that have begun go on.  The hourly sweeps find a proposal
\* again and again (strong fairness), and not each time in the middle of a
\* decision; deadlines pass.  People need not act.
FairSpec ==
  /\ Spec
  /\ \A w \in Procs : WF_vars(Proceed(w)) /\ SF_vars(Decide(w))
  /\ SF_vars(\E w \in Procs : ListDrafts(w)) /\ SF_vars(\E w \in Procs : ListHeld(w))
  /\ \A p \in Proposals :
       /\ WF_vars(DeadlinePasses(p))
       /\ SF_vars(~ProposalLocked(p) /\ \E w \in Procs, s \in Steps : LockOverdueStep(w, p, s))
       /\ SF_vars(\E w \in Procs : proc[w].op = "expire_locked" /\ proc[w].p = p /\ ExpireStep(w))

-----------------------------------------------------------------------------
(***************************************************************************)
(* Properties.                                                             *)
(***************************************************************************)

Statuses == {"none", "pending", "active", "completed", "refused", "expired", "skipped"}

\* Types; a proposal has at most one project (allocate_proposal "is not
\* idempotent").
TypeOK ==
  /\ closed \in BOOLEAN /\ atCutoff \in BOOLEAN
  /\ enabled \subseteq Steps /\ Decision \in enabled /\ manual \subseteq Steps
  /\ prop \in [Proposals -> [st : Open \cup Closed, step : 0..LastStep, projects : 0..1]]
  /\ inst \in [Proposals -> [Steps -> Statuses]]
  /\ overdue \in [Proposals -> BOOLEAN]
  /\ \A w \in Procs : proc[w].op \in {"decide", "decide_locked", "expire_locked"} => proc[w].s \in Steps
  /\ lost \subseteq Proposals

\* A proposal in review stands at exactly one step, which is active or waits to
\* be confirmed, and any other has no active step: no order of decisions,
\* expiries, sweeps and edits of the call strands it (workflow_service).  One
\* that was lost to a stale copy may keep an active step.
StandsAtOneStep ==
  \A p \in Proposals \ lost :
    IF prop[p].st = "in_review"
      THEN prop[p].step # 0 /\ (Active(inst[p]) = {prop[p].step} \/
                                (Active(inst[p]) = {} /\ Parked(p)))
      ELSE prop[p].step = 0 /\ Active(inst[p]) = {}

\* Every step of the path is behind, with no refusal among them, and the last
\* one completed and not merely expired.
Evaluated(i) ==
  /\ \A s \in Steps : i[s] \in {"completed", "expired", "skipped"}
  /\ i[Max({s \in Steps : i[s] # "skipped"})] = "completed"

\* A project is created only for a proposal that has been evaluated along the
\* path fixed at submission, and with its acceptance (complete_step,
\* expire_step); not even stale copies change that, but one of them may cancel
\* a proposal that has its project.
AcceptedWasEvaluated ==
  \A p \in Proposals :
    /\ prop[p].st = "accepted" => prop[p].projects = 1
    /\ prop[p].projects = 1 /\ p \notin lost => prop[p].st = "accepted"
    /\ prop[p].projects = 1 /\ prop[p].st # "deleted" => Evaluated(inst[p])

\* What was submitted is not canceled or deleted with the drafts of its round,
\* other than by a stale copy; only the applicant who declines the award cancels
\* it (close_round, process_closed_round, complete_step).
SubmissionIsKept ==
  [][\A p \in Proposals \ lost' :
       prop[p].st \in {"submitted", "in_review"} /\ prop'[p].st \in {"canceled", "deleted"}
         => inst'[p][Award] = "refused"]_vars

\* A decided proposal stays decided, whatever was read before the decision, if
\* no stale copy of the draft was written over it (submit, complete_step,
\* expire_step, start_evaluation_for_closed_rounds).
DecisionIsFinal ==
  [][\A p \in Proposals \ lost' :
       prop[p].st \in Closed => prop'[p] = prop[p] /\ inst'[p] = inst[p]]_vars

\* The comment of proposals_for_ended_rounds_should_be_cancelled: "Only drafts
\* [...] submitted and in-review proposals are left to the review workflow".
DraftsOnlyAreCanceled ==
  [][\A p \in Proposals :
       prop[p].st \in {"submitted", "in_review"} /\ prop'[p].st = "canceled"
         => inst'[p][Award] = "refused"]_vars

\* No proposal is left in a round that stays closed: drafts are canceled, held
\* proposals started, and those in review decided or left to the manager to advance.
ClosedRoundEnds ==
  \A p \in Proposals :
    <>[]closed => <>[](prop[p].st \in Closed \/ Parked(p))
=============================================================================
