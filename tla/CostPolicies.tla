---------------------------- MODULE CostPolicies ----------------------------
(***************************************************************************)
(* Cost policies that pause one resource (waldur_mastermind/policy).       *)
(*                                                                         *)
(* A change of cost schedules a debounced evaluation of each policy; a     *)
(* sweep evaluates all of them every few hours.  An evaluation judges the  *)
(* cost, then flips has_fired with a conditional update, then runs the     *)
(* actions of the edge: fired, it pauses the resource and notifies; reset, *)
(* it clears the pause unless another fired policy wants it.  Each of      *)
(* these is a transaction of its own, so evaluations interleave between    *)
(* them, and a worker may die between them.                                *)
(*                                                                         *)
(* Data abstracted: the cost a policy judges is a level, the same for all  *)
(* policies, and every policy covers the resource and carries the actions  *)
(* request_pausing and notify_project_team.                                *)
(***************************************************************************)
EXTENDS Integers, FiniteSets

CONSTANTS
  Workers,    \* processes that evaluate policies, each one task at a time
  Sweeper,    \* the one that runs the sweep; sweeps, hours apart, do not overlap
  Policies,   \* cost policies that cover the resource, each of a scope of its own
  Limit,      \* Limit[p]: the limit_cost of p
  MaxCost,    \* bound: the highest cost level
  MaxEvents,  \* bound: changes of cost, of the offering's flag and by staff
  MaxFaults   \* bound: failed publishes, lost tasks and deaths of a worker

ASSUME PolicyAssumption ==
  /\ Sweeper \in Workers /\ IsFiniteSet(Workers)
  /\ Policies # {}
  /\ Limit \in [Policies -> Nat]
  /\ MaxCost \in Nat /\ MaxEvents \in Nat /\ MaxFaults \in Nat

VARIABLES
  cost,      \* what the invoice items of the scope add up to
  supports,  \* plugin_options.supports_pausing of the offering
  paused,    \* Resource.paused
  fired,     \* has_fired of each policy
  claimed,   \* the debounce key of each scope is in the cache
  publishing, \* the process that claimed the key has yet to publish the task
  scheduled, \* evaluations published and not yet taken by a worker
  dirty,     \* the cost changed and no evaluation of the policy has read it yet
  missed,    \* a trigger of the policy was lost to a fault
  owed,      \* notifications owed: edges of has_fired minus notifications sent
  events,    \* changes so far
  faults,    \* faults so far
  proc       \* what each worker is doing

vars == <<cost, supports, paused, fired, claimed, publishing, scheduled, dirty,
          missed, owed, events, faults, proc>>
trigger == <<claimed, publishing, scheduled, dirty, missed>>

-----------------------------------------------------------------------------
Idle == [step |-> "idle"]
Tasks ==
  [step : {"next"}, todo : (SUBSET Policies) \ {{}}]
  \cup [step : {"judged"}, p : Policies, hot : BOOLEAN, todo : SUBSET Policies]
  \cup [step : {"pause", "notify"}, p : Policies, fresh : BOOLEAN, todo : SUBSET Policies]
  \cup [step : {"unfired"}, p : Policies, todo : SUBSET Policies]
  \cup [step : {"reset"}, p : Policies, kept : BOOLEAN, todo : SUBSET Policies]

Triggered(p) == cost > Limit[p]      \* is_triggered

Init ==
  /\ cost = 0 /\ supports \in BOOLEAN /\ paused = FALSE
  /\ fired = [p \in Policies |-> FALSE]
  /\ claimed = [p \in Policies |-> FALSE]
  /\ publishing = [p \in Policies |-> FALSE]
  /\ scheduled = [p \in Policies |-> 0]
  /\ dirty = [p \in Policies |-> FALSE]
  /\ missed = [p \in Policies |-> FALSE]
  /\ owed = [p \in Policies |-> 0]
  /\ events = 0 /\ faults = 0
  /\ proc = [w \in Workers |-> Idle]

-----------------------------------------------------------------------------
(***************************************************************************)
(* Triggers.                                                               *)
(***************************************************************************)

Event == events < MaxEvents /\ events' = events + 1
Fault == faults < MaxFaults /\ faults' = faults + 1

\* An invoice item is saved.  After the commit _publish claims the key of each
\* scope; a trigger that finds the key claimed is dropped.
ChangeCost(c) ==
  /\ Event
  /\ c # cost
  /\ cost' = c
  /\ publishing' = [p \in Policies |-> publishing[p] \/ ~claimed[p]]
  /\ claimed' = [p \in Policies |-> TRUE]
  /\ dirty' = [p \in Policies |-> TRUE]
  /\ UNCHANGED <<supports, paused, fired, scheduled, missed, owed, faults, proc>>

\* (mutation: a publish that has succeeded is tried again)
PublishAgain(p) ==
  /\ publishing[p]
  /\ scheduled' = [scheduled EXCEPT ![p] = @ + 1]
  /\ UNCHANGED <<cost, supports, paused, fired, claimed, publishing, dirty, missed,
                 owed, events, faults, proc>>

\* apply_async with the countdown.
Publish(p) ==
  /\ publishing[p]
  /\ publishing' = [publishing EXCEPT ![p] = FALSE]
  /\ scheduled' = [scheduled EXCEPT ![p] = @ + 1]
  /\ UNCHANGED <<cost, supports, paused, fired, claimed, dirty, missed, owed,
                 events, faults, proc>>

\* The broker refuses, and the claim is released.
PublishFails(p) ==
  /\ Fault
  /\ publishing[p]
  /\ publishing' = [publishing EXCEPT ![p] = FALSE]
  /\ claimed' = [claimed EXCEPT ![p] = FALSE]
  /\ missed' = [missed EXCEPT ![p] = TRUE]
  /\ UNCHANGED <<cost, supports, paused, fired, scheduled, dirty, owed, events, proc>>

\* The key lives as long as the countdown of the task it guards, and began first.
KeyExpires(p) ==
  /\ claimed[p] /\ ~publishing[p]
  /\ claimed' = [claimed EXCEPT ![p] = FALSE]
  /\ UNCHANGED <<cost, supports, paused, fired, publishing, scheduled, dirty,
                 missed, owed, events, faults, proc>>

\* (mutation: the key lives longer than the countdown of the task it guards)
AnyScheduled(p) == scheduled[p] > 0

\* A task whose countdown has ended: all but the one the key guards.
Ripe(p) == scheduled[p] > (IF claimed[p] /\ ~publishing[p] THEN 1 ELSE 0)

\* The task is lost with the worker that had taken it.
LoseTask(p) ==
  /\ Fault
  /\ Ripe(p)
  /\ scheduled' = [scheduled EXCEPT ![p] = @ - 1]
  /\ missed' = [missed EXCEPT ![p] = TRUE]
  /\ UNCHANGED <<cost, supports, paused, fired, claimed, publishing, dirty, owed,
                 events, proc>>

\* The provider changes the offering's plugin options.
ToggleSupport ==
  /\ Event
  /\ supports' = ~supports
  /\ UNCHANGED <<cost, paused, fired, trigger, owed, faults, proc>>

\* set_paused by staff.
SetPaused ==
  /\ Event
  /\ paused' = ~paused
  /\ UNCHANGED <<cost, supports, fired, trigger, owed, faults, proc>>

-----------------------------------------------------------------------------
(***************************************************************************)
(* Evaluations.                                                            *)
(***************************************************************************)

Becomes(w, next) == proc' = [proc EXCEPT ![w] = next]

\* evaluate_policies goes on with the other policies of its list.
Continue(w) ==
  Becomes(w, IF proc[w].todo = {} THEN Idle
             ELSE [step |-> "next", todo |-> proc[w].todo])

\* evaluate_policies_async, for the scope of one policy.
StartEvaluation(w, p) ==
  /\ w # Sweeper /\ proc[w] = Idle
  /\ Ripe(p)
  /\ scheduled' = [scheduled EXCEPT ![p] = @ - 1]
  /\ Becomes(w, [step |-> "next", todo |-> {p}])
  /\ UNCHANGED <<cost, supports, paused, fired, claimed, publishing, dirty, missed,
                 owed, events, faults>>

\* check_polices.
StartSweep(w) ==
  /\ w = Sweeper /\ proc[w] = Idle
  /\ Becomes(w, [step |-> "next", todo |-> Policies])
  /\ UNCHANGED <<cost, supports, paused, fired, trigger, owed, events, faults>>

\* is_triggered reads the cost; a query returns the policies in a fixed order.
Judge(w) ==
  /\ proc[w].step = "next"
  /\ LET p == CHOOSE q \in proc[w].todo : TRUE
     IN /\ Becomes(w, [step |-> "judged", p |-> p, hot |-> Triggered(p),
                       todo |-> proc[w].todo \ {p}])
        /\ dirty' = [dirty EXCEPT ![p] = FALSE]
        /\ missed' = [missed EXCEPT ![p] = FALSE]
  /\ UNCHANGED <<cost, supports, paused, fired, claimed, publishing, scheduled, owed,
                 events, faults>>

\* (mutation: the flag that was read with the policy decides, and the update is
\* made in any case)
FireBlindly(w) ==
  /\ proc[w].step = "judged" /\ proc[w].hot
  /\ fired' = [fired EXCEPT ![proc[w].p] = TRUE]
  /\ owed' = [owed EXCEPT ![proc[w].p] = @ + (IF fired[proc[w].p] THEN 0 ELSE 1)]
  /\ Becomes(w, [step |-> "pause", p |-> proc[w].p, fresh |-> TRUE, todo |-> proc[w].todo])
  /\ UNCHANGED <<cost, supports, paused, trigger, events, faults>>

\* The update of has_fired that matches only where it is still False.
Fire(w) ==
  LET p == proc[w].p
  IN /\ proc[w].step = "judged" /\ proc[w].hot /\ ~fired[p]
     /\ fired' = [fired EXCEPT ![p] = TRUE]
     /\ owed' = [owed EXCEPT ![p] = @ + 1]
     /\ Becomes(w, [step |-> "pause", p |-> p, fresh |-> TRUE, todo |-> proc[w].todo])
     /\ UNCHANGED <<cost, supports, paused, trigger, events, faults>>

\* (mutation: the sweep does not re-apply the actions)
LeavesFired(w) ==
  /\ proc[w].step = "judged" /\ proc[w].hot /\ fired[proc[w].p]
  /\ Continue(w)
  /\ UNCHANGED <<cost, supports, paused, fired, trigger, owed, events, faults>>

\* Fired by someone else: only the sweep re-applies the actions that can be reset.
AlreadyFired(w) ==
  /\ proc[w].step = "judged" /\ proc[w].hot /\ fired[proc[w].p]
  /\ IF w = Sweeper
       THEN Becomes(w, [step |-> "pause", p |-> proc[w].p, fresh |-> FALSE,
                        todo |-> proc[w].todo])
       ELSE Continue(w)
  /\ UNCHANGED <<cost, supports, paused, fired, trigger, owed, events, faults>>

\* request_pausing, with the resource's row locked.
Pause(w) ==
  /\ proc[w].step = "pause"
  /\ paused' = (paused \/ supports)
  /\ IF proc[w].fresh THEN Becomes(w, [proc[w] EXCEPT !.step = "notify"])
                      ELSE Continue(w)
  /\ UNCHANGED <<cost, supports, fired, trigger, owed, events, faults>>

\* notify_project_team, once per edge.
Notify(w) ==
  /\ proc[w].step = "notify"
  /\ owed' = [owed EXCEPT ![proc[w].p] = @ - 1]
  /\ Continue(w)
  /\ UNCHANGED <<cost, supports, paused, fired, trigger, events, faults>>

\* The update of has_fired back to False, which matches only where it is True.
Unfire(w) ==
  LET p == proc[w].p
  IN /\ proc[w].step = "judged" /\ ~proc[w].hot /\ fired[p]
     /\ fired' = [fired EXCEPT ![p] = FALSE]
     /\ Becomes(w, [step |-> "unfired", p |-> p, todo |-> proc[w].todo])
     /\ UNCHANGED <<cost, supports, paused, trigger, owed, events, faults>>

NotFired(w) ==
  /\ proc[w].step = "judged" /\ ~proc[w].hot /\ ~fired[proc[w].p]
  /\ Continue(w)
  /\ UNCHANGED <<cost, supports, paused, fired, trigger, owed, events, faults>>

\* _resources_locked_by_other_policies, before the rows are locked.
WantedByOther(p) == paused /\ \E q \in Policies \ {p} : fired[q]

LookForOthers(w) ==
  /\ proc[w].step = "unfired"
  /\ Becomes(w, [step |-> "reset", p |-> proc[w].p, kept |-> WantedByOther(proc[w].p),
                  todo |-> proc[w].todo])
  /\ UNCHANGED <<cost, supports, paused, fired, trigger, owed, events, faults>>

\* reset_pausing.
ResetPausing(w) ==
  /\ proc[w].step = "reset"
  /\ paused' = (paused /\ (proc[w].kept \/ ~supports))
  /\ Continue(w)
  /\ UNCHANGED <<cost, supports, fired, trigger, owed, events, faults>>

\* The worker dies; what its task still had to do is lost.
Die(w) ==
  /\ Fault
  /\ proc[w] # Idle
  /\ Becomes(w, Idle)
  /\ missed' = [p \in Policies |-> missed[p] \/
                  (proc[w].step = "next" /\ w # Sweeper /\ p \in proc[w].todo)]
  /\ UNCHANGED <<cost, supports, paused, fired, claimed, publishing, scheduled, dirty,
                 owed, events>>

-----------------------------------------------------------------------------
Evaluate(w) ==
  \/ Judge(w)
  \/ Fire(w) \/ AlreadyFired(w) \/ Pause(w) \/ Notify(w)
  \/ Unfire(w) \/ NotFired(w) \/ LookForOthers(w) \/ ResetPausing(w)

Next ==
  \/ \E c \in 0..MaxCost : ChangeCost(c)
  \/ \E p \in Policies : Publish(p) \/ PublishFails(p) \/ KeyExpires(p) \/ LoseTask(p)
  \/ ToggleSupport \/ SetPaused
  \/ \E w \in Workers, p \in Policies : StartEvaluation(w, p)
  \/ \E w \in Workers : StartSweep(w) \/ Evaluate(w) \/ Die(w)

Spec == Init /\ [][Next]_vars

\* A task that has begun goes on, and the schedule starts the sweep for ever
\* (celery beat, every four hours).  Triggers and their tasks need not arrive.
FairSpec == Spec /\ WF_vars(StartSweep(Sweeper)) /\ \A w \in Workers : WF_vars(Evaluate(w))

-----------------------------------------------------------------------------
(***************************************************************************)
(* Properties.                                                             *)
(***************************************************************************)

\* Types; no more evaluations are scheduled than there were changes.
TypeOK ==
  /\ cost \in 0..MaxCost /\ supports \in BOOLEAN /\ paused \in BOOLEAN
  /\ fired \in [Policies -> BOOLEAN] /\ claimed \in [Policies -> BOOLEAN]
  /\ publishing \in [Policies -> BOOLEAN] /\ scheduled \in [Policies -> 0..MaxEvents]
  /\ dirty \in [Policies -> BOOLEAN] /\ missed \in [Policies -> BOOLEAN]
  /\ owed \in [Policies -> Int]
  /\ events \in 0..MaxEvents /\ faults \in 0..MaxFaults
  /\ proc \in [Workers -> Tasks \cup {Idle}]

\* A change of cost is never overlooked by the debounce: until an evaluation of
\* the policy has read it, one is being published, scheduled or taken, unless the
\* broker refused it or it was lost (_debounced_call drops a trigger because "the
\* scheduled task will pick up all changes when it runs").
ChangesAreJudged ==
  \A p \in Policies : dirty[p] =>
    \/ publishing[p] \/ scheduled[p] > 0 \/ missed[p]
    \/ \E w \in Workers : proc[w] # Idle /\ proc[w].step = "next" /\ p \in proc[w].todo

\* A policy notifies at most once for each time it fires, however many workers
\* evaluate it at once (the conditional update in _evaluate_policies).
NotifiesOncePerFire == \A p \in Policies : owed[p] >= 0

\* A resource that policies want paused ends up paused for good, whatever was
\* lost, interrupted or undone on the way (reconcile_already_fired in the sweep).
TriggeredIsPaused ==
  <>[](supports /\ \E p \in Policies : Triggered(p)) => <>[]paused
=============================================================================
