-------------------------- MODULE CostPolicies_proofs --------------------------
(***************************************************************************)
(* Proofs about CostPolicies, for any number of policies, workers, changes *)
(* and faults: type correctness, that the debounce overlooks no change of   *)
(* cost, and that no policy notifies twice for one firing.                  *)
(***************************************************************************)
EXTENDS CostPolicies, FiniteSetTheorems, TLAPS

USE DEF Idle

-----------------------------------------------------------------------------
(***************************************************************************)
(* Type correctness.                                                       *)
(***************************************************************************)

\* Each evaluation that is scheduled or about to be published has a change of
\* its own behind it.
OneEvaluationPerEvent ==
  \A p \in Policies : scheduled[p] + (IF publishing[p] THEN 1 ELSE 0) <= events

TypeInv == TypeOK /\ OneEvaluationPerEvent

\* The variables of the trigger keep their types and their bound.
TriggerTypes ==
  /\ claimed \in [Policies -> BOOLEAN] /\ publishing \in [Policies -> BOOLEAN]
  /\ scheduled \in [Policies -> 0..MaxEvents]
  /\ dirty \in [Policies -> BOOLEAN] /\ missed \in [Policies -> BOOLEAN]
  /\ events \in 0..MaxEvents /\ faults \in 0..MaxFaults
  /\ OneEvaluationPerEvent

\* What a worker becomes is a task, and what it goes on with is one too.
LEMMA WorkersType ==
  ASSUME TypeOK, NEW w \in Workers
  PROVE  /\ \A t \in Tasks \cup {Idle} : Becomes(w, t) => proc' \in [Workers -> Tasks \cup {Idle}]
         /\ proc[w] # Idle /\ Continue(w) => proc' \in [Workers -> Tasks \cup {Idle}]
<1>1. \A t \in Tasks \cup {Idle} : Becomes(w, t) => proc' \in [Workers -> Tasks \cup {Idle}]
  BY DEF TypeOK, Becomes
<1>2. ASSUME proc[w] # Idle PROVE proc[w].todo \subseteq Policies
  BY <1>2 DEF TypeOK, Tasks
<1>3. ASSUME proc[w] # Idle, Continue(w) PROVE proc' \in [Workers -> Tasks \cup {Idle}]
  <2>1. proc[w].todo # {} => [step |-> "next", todo |-> proc[w].todo] \in Tasks
    BY <1>2, <1>3 DEF Tasks
  <2> QED
    BY <1>1, <1>3, <2>1 DEF Continue
<1> QED
  BY <1>1, <1>3

LEMMA TypeInit == Init => TypeInv
<1> SUFFICES ASSUME Init PROVE TypeInv
  OBVIOUS
<1>1. TriggerTypes
  BY PolicyAssumption DEF Init, TriggerTypes, OneEvaluationPerEvent
<1>2. proc \in [Workers -> Tasks \cup {Idle}] /\ owed \in [Policies -> Int]
  BY DEF Init
<1>3. cost \in 0..MaxCost
  BY PolicyAssumption DEF Init
<1>4. supports \in BOOLEAN /\ paused \in BOOLEAN /\ fired \in [Policies -> BOOLEAN]
  BY DEF Init
<1> QED
  BY <1>1, <1>2, <1>3, <1>4 DEF TypeInv, TypeOK, TriggerTypes

\* A change of cost.
LEMMA TypeChangeCost ==
  ASSUME TypeInv, NEW c \in 0..MaxCost, ChangeCost(c)
  PROVE  TypeInv'
<1>1. TriggerTypes'
  BY PolicyAssumption DEF ChangeCost, Event, TypeInv, TypeOK, TriggerTypes, OneEvaluationPerEvent
<1> QED
  BY <1>1 DEF ChangeCost, TypeInv, TypeOK, TriggerTypes

\* Publishing, the key and lost tasks.
LEMMA TypeTrigger ==
  ASSUME TypeInv, NEW p \in Policies,
         Publish(p) \/ PublishFails(p) \/ KeyExpires(p) \/ LoseTask(p)
  PROVE  TypeInv'
<1>1. CASE Publish(p)
  <2>1. TriggerTypes'
    BY <1>1, PolicyAssumption DEF Publish, TypeInv, TypeOK, TriggerTypes, OneEvaluationPerEvent
  <2> QED
    BY <1>1, <2>1 DEF Publish, TypeInv, TypeOK, TriggerTypes
<1>2. CASE PublishFails(p)
  <2>1. TriggerTypes'
    BY <1>2, PolicyAssumption
    DEF PublishFails, Fault, TypeInv, TypeOK, TriggerTypes, OneEvaluationPerEvent
  <2> QED
    BY <1>2, <2>1 DEF PublishFails, TypeInv, TypeOK, TriggerTypes
<1>3. CASE KeyExpires(p)
  <2>1. TriggerTypes'
    BY <1>3, PolicyAssumption DEF KeyExpires, TypeInv, TypeOK, TriggerTypes, OneEvaluationPerEvent
  <2> QED
    BY <1>3, <2>1 DEF KeyExpires, TypeInv, TypeOK, TriggerTypes
<1>4. CASE LoseTask(p)
  <2>1. TriggerTypes'
    BY <1>4, PolicyAssumption
    DEF LoseTask, Ripe, Fault, TypeInv, TypeOK, TriggerTypes, OneEvaluationPerEvent
  <2> QED
    BY <1>4, <2>1 DEF LoseTask, TypeInv, TypeOK, TriggerTypes
<1> QED
  BY <1>1, <1>2, <1>3, <1>4

\* The provider and staff.
LEMMA TypeFlags ==
  ASSUME TypeInv, ToggleSupport \/ SetPaused
  PROVE  TypeInv'
<1>1. events' \in 0..MaxEvents /\ events <= events' /\ UNCHANGED trigger
  BY PolicyAssumption DEF ToggleSupport, SetPaused, Event, TypeInv, TypeOK
<1>2. OneEvaluationPerEvent'
  BY <1>1 DEF trigger, TypeInv, TypeOK, OneEvaluationPerEvent
<1>3. supports' \in BOOLEAN /\ paused' \in BOOLEAN
  BY DEF ToggleSupport, SetPaused, TypeInv, TypeOK
<1>4. UNCHANGED <<cost, fired, owed, faults, proc>>
  BY DEF ToggleSupport, SetPaused
<1> QED
  BY <1>1, <1>2, <1>3, <1>4 DEF trigger, TypeInv, TypeOK

\* Workers start and die.
LEMMA TypeStarts ==
  ASSUME TypeInv, NEW w \in Workers,
         (\E p \in Policies : StartEvaluation(w, p)) \/ StartSweep(w) \/ Die(w)
  PROVE  TypeInv'
<1>1. ASSUME NEW p \in Policies, StartEvaluation(w, p) PROVE TypeInv'
  <2>1. [step |-> "next", todo |-> {p}] \in Tasks
    BY DEF Tasks
  <2>2. proc' \in [Workers -> Tasks \cup {Idle}]
    BY <1>1, <2>1, WorkersType DEF StartEvaluation, TypeInv
  <2>3. scheduled' \in [Policies -> 0..MaxEvents] /\ OneEvaluationPerEvent'
    BY <1>1, PolicyAssumption DEF StartEvaluation, Ripe, TypeInv, TypeOK, OneEvaluationPerEvent
  <2> QED
    BY <1>1, <2>2, <2>3 DEF StartEvaluation, TypeInv, TypeOK
<1>2. CASE StartSweep(w)
  <2>1. [step |-> "next", todo |-> Policies] \in Tasks
    BY PolicyAssumption DEF Tasks
  <2>2. proc' \in [Workers -> Tasks \cup {Idle}]
    BY <1>2, <2>1, WorkersType DEF StartSweep, TypeInv
  <2> QED
    BY <1>2, <2>2 DEF StartSweep, trigger, TypeInv, TypeOK, OneEvaluationPerEvent
<1>3. CASE Die(w)
  <2>1. proc' \in [Workers -> Tasks \cup {Idle}]
    BY <1>3, WorkersType DEF Die, TypeInv
  <2>2. missed' \in [Policies -> BOOLEAN] /\ faults' \in 0..MaxFaults
    BY <1>3, PolicyAssumption DEF Die, Fault, TypeInv, TypeOK
  <2> QED
    BY <1>3, <2>1, <2>2 DEF Die, TypeInv, TypeOK, OneEvaluationPerEvent
<1> QED
  BY <1>1, <1>2, <1>3

\* What a worker that waits for a step of an evaluation holds.
LEMMA TaskTypes ==
  ASSUME TypeOK, NEW w \in Workers
  PROVE  /\ proc[w].step \in {"judged", "pause", "notify", "unfired", "reset"} =>
              proc[w].p \in Policies
         /\ proc[w] # Idle => proc[w].todo \subseteq Policies /\ proc[w].step # "idle"
         /\ proc[w].step \in {"pause", "notify"} => proc[w].fresh \in BOOLEAN
         /\ proc[w].step = "reset" => proc[w].kept \in BOOLEAN
  BY DEF TypeOK, Tasks

\* The steps of an evaluation.
LEMMA TypeEvaluate ==
  ASSUME TypeInv, NEW w \in Workers, Evaluate(w)
  PROVE  TypeInv'
<1> USE DEF TypeInv
<1> DEFINE p == proc[w].p
<1>1. CASE Judge(w)
  <2> DEFINE q == CHOOSE x \in proc[w].todo : TRUE
  <2>1. proc[w].todo # {} /\ proc[w].todo \subseteq Policies
    BY <1>1 DEF Judge, TypeOK, Tasks
  <2>2. q \in Policies
    BY <2>1
  <2>3. Triggered(q) \in BOOLEAN
    BY DEF Triggered
  <2> DEFINE judged == [step |-> "judged", p |-> q, hot |-> Triggered(q), todo |-> proc[w].todo \ {q}]
  <2>4. judged \in Tasks
    BY <2>1, <2>2, <2>3 DEF Tasks
  <2>5. /\ Becomes(w, judged)
        /\ dirty' = [dirty EXCEPT ![q] = FALSE] /\ missed' = [missed EXCEPT ![q] = FALSE]
        /\ UNCHANGED <<cost, supports, paused, fired, claimed, publishing, scheduled, owed,
                       events, faults>>
    BY <1>1 DEF Judge
  <2>6. proc' \in [Workers -> Tasks \cup {Idle}]
    BY <2>4, <2>5, WorkersType
  <2>7. dirty' \in [Policies -> BOOLEAN] /\ missed' \in [Policies -> BOOLEAN]
    BY <2>5 DEF TypeOK
  <2> QED
    BY <2>5, <2>6, <2>7 DEF TypeOK, OneEvaluationPerEvent
<1>2. CASE Fire(w)
  <2>1. p \in Policies /\ proc[w].todo \subseteq Policies
    BY <1>2, TaskTypes DEF Fire
  <2>2. [step |-> "pause", p |-> p, fresh |-> TRUE, todo |-> proc[w].todo] \in Tasks
    BY <2>1 DEF Tasks
  <2>3. proc' \in [Workers -> Tasks \cup {Idle}]
    BY <1>2, <2>2, WorkersType DEF Fire
  <2>4. fired' \in [Policies -> BOOLEAN] /\ owed' \in [Policies -> Int]
    BY <1>2, <2>1 DEF Fire, TypeOK
  <2> QED
    BY <1>2, <2>3, <2>4 DEF Fire, trigger, TypeOK, OneEvaluationPerEvent
<1>3. CASE AlreadyFired(w)
  <2>1. p \in Policies /\ proc[w].todo \subseteq Policies /\ proc[w] # Idle
    BY <1>3, TaskTypes DEF AlreadyFired
  <2>2. [step |-> "pause", p |-> p, fresh |-> FALSE, todo |-> proc[w].todo] \in Tasks
    BY <2>1 DEF Tasks
  <2>3. proc' \in [Workers -> Tasks \cup {Idle}]
    BY <1>3, <2>1, <2>2, WorkersType DEF AlreadyFired
  <2> QED
    BY <1>3, <2>3 DEF AlreadyFired, trigger, TypeOK, OneEvaluationPerEvent
<1>4. CASE Pause(w)
  <2>1. p \in Policies /\ proc[w].todo \subseteq Policies /\ proc[w] # Idle
    BY <1>4, TaskTypes DEF Pause
  <2>2. [proc[w] EXCEPT !.step = "notify"] \in Tasks
    BY <1>4 DEF Pause, TypeOK, Tasks
  <2>3. proc' \in [Workers -> Tasks \cup {Idle}]
    BY <1>4, <2>1, <2>2, WorkersType DEF Pause
  <2>4. paused' \in BOOLEAN
    BY <1>4 DEF Pause, TypeOK
  <2> QED
    BY <1>4, <2>3, <2>4 DEF Pause, trigger, TypeOK, OneEvaluationPerEvent
<1>5. CASE Notify(w)
  <2>1. p \in Policies /\ proc[w] # Idle
    BY <1>5, TaskTypes DEF Notify
  <2>2. proc' \in [Workers -> Tasks \cup {Idle}]
    BY <1>5, <2>1, WorkersType DEF Notify
  <2>3. owed' \in [Policies -> Int]
    BY <1>5, <2>1 DEF Notify, TypeOK
  <2> QED
    BY <1>5, <2>2, <2>3 DEF Notify, trigger, TypeOK, OneEvaluationPerEvent
<1>6. CASE Unfire(w)
  <2>1. p \in Policies /\ proc[w].todo \subseteq Policies
    BY <1>6, TaskTypes DEF Unfire
  <2>2. [step |-> "unfired", p |-> p, todo |-> proc[w].todo] \in Tasks
    BY <2>1 DEF Tasks
  <2>3. proc' \in [Workers -> Tasks \cup {Idle}]
    BY <1>6, <2>2, WorkersType DEF Unfire
  <2>4. fired' \in [Policies -> BOOLEAN]
    BY <1>6, <2>1 DEF Unfire, TypeOK
  <2> QED
    BY <1>6, <2>3, <2>4 DEF Unfire, trigger, TypeOK, OneEvaluationPerEvent
<1>7. CASE NotFired(w)
  <2>1. proc' \in [Workers -> Tasks \cup {Idle}]
    BY <1>7, WorkersType DEF NotFired
  <2> QED
    BY <1>7, <2>1 DEF NotFired, trigger, TypeOK, OneEvaluationPerEvent
<1>8. CASE LookForOthers(w)
  <2>1. p \in Policies /\ proc[w].todo \subseteq Policies
    BY <1>8, TaskTypes DEF LookForOthers
  <2>2. WantedByOther(p) \in BOOLEAN
    BY DEF WantedByOther
  <2>3. [step |-> "reset", p |-> p, kept |-> WantedByOther(p), todo |-> proc[w].todo] \in Tasks
    BY <2>1, <2>2 DEF Tasks
  <2>4. proc' \in [Workers -> Tasks \cup {Idle}]
    BY <1>8, <2>3, WorkersType DEF LookForOthers
  <2> QED
    BY <1>8, <2>4 DEF LookForOthers, trigger, TypeOK, OneEvaluationPerEvent
<1>9. CASE ResetPausing(w)
  <2>1. proc' \in [Workers -> Tasks \cup {Idle}]
    BY <1>9, WorkersType DEF ResetPausing
  <2>2. paused' \in BOOLEAN
    BY <1>9 DEF ResetPausing, TypeOK
  <2> QED
    BY <1>9, <2>1, <2>2 DEF ResetPausing, trigger, TypeOK, OneEvaluationPerEvent
<1> QED
  BY <1>1, <1>2, <1>3, <1>4, <1>5, <1>6, <1>7, <1>8, <1>9 DEF Evaluate

LEMMA TypeNext == TypeInv /\ [Next]_vars => TypeInv'
<1>1. TypeInv /\ UNCHANGED vars => TypeInv'
  BY DEF vars, TypeInv, TypeOK, OneEvaluationPerEvent
<1> QED
  BY <1>1, TypeChangeCost, TypeTrigger, TypeFlags, TypeStarts, TypeEvaluate DEF Next

\* Flags, counters and tasks keep their types; a message is scheduled only where
\* a change of cost has claimed its key.
THEOREM TypeCorrect == Spec => []TypeOK
<1>1. TypeInv => TypeOK
  BY DEF TypeInv
<1> QED
  BY <1>1, TypeInit, TypeNext, PTL DEF Spec

-----------------------------------------------------------------------------
(***************************************************************************)
(* The debounce.                                                           *)
(***************************************************************************)

\* A worker other than the sweeper that is about to read the cost for p.
Reads(w, p) == w # Sweeper /\ proc[w].step = "next" /\ p \in proc[w].todo

\* A claimed key guards a task that is being published or waits.
KeyGuardsTask ==
  \A p \in Policies : claimed[p] /\ ~publishing[p] => scheduled[p] > 0

\* A debounced task is about one policy.
TasksAreSingle ==
  \A w \in Workers \ {Sweeper} : proc[w] # Idle =>
    IF proc[w].step = "next" THEN \E p \in Policies : proc[w].todo = {p}
                             ELSE proc[w].todo = {}

\* ChangesAreJudged without the help of the sweep.
TasksJudge ==
  \A p \in Policies : dirty[p] =>
    publishing[p] \/ scheduled[p] > 0 \/ missed[p] \/ \E w \in Workers : Reads(w, p)

DebounceInv == KeyGuardsTask /\ TasksAreSingle /\ TasksJudge

LEMMA DebounceInit == Init => DebounceInv
  BY DEF Init, DebounceInv, KeyGuardsTask, TasksAreSingle, TasksJudge

\* A step that leaves the trigger alone and makes no worker forget what it reads.
LEMMA ElsewhereKeepsDebounce ==
  ASSUME DebounceInv, UNCHANGED trigger, TasksAreSingle',
         \A w \in Workers, p \in Policies : Reads(w, p) => Reads(w, p)'
  PROVE  DebounceInv'
  BY DEF DebounceInv, KeyGuardsTask, TasksJudge, trigger

\* A worker that goes on with its list, or makes the next step for one policy.
LEMMA SinglesGoOn ==
  ASSUME TypeInv, TasksAreSingle, NEW w \in Workers, proc[w] # Idle, proc[w].step # "next",
         \/ Continue(w)
         \/ \E t \in Tasks : Becomes(w, t) /\ t.step # "next" /\ t.todo = proc[w].todo
  PROVE  TasksAreSingle' /\ \A x \in Workers, p \in Policies : Reads(x, p) => Reads(x, p)'
<1>1. \A x \in Workers \ {w} : proc'[x] = proc[x]
  BY DEF Continue, Becomes, TypeInv, TypeOK
<1>2. CASE Continue(w)
  <2>1. w # Sweeper => proc'[w] = Idle
    BY <1>2 DEF Continue, Becomes, TasksAreSingle, TypeInv, TypeOK
  <2> QED
    BY <1>1, <2>1 DEF TasksAreSingle, Reads
<1>3. ASSUME NEW t \in Tasks, Becomes(w, t), t.step # "next", t.todo = proc[w].todo
      PROVE  TasksAreSingle' /\ \A x \in Workers, p \in Policies : Reads(x, p) => Reads(x, p)'
  <2>1. proc'[w] = t
    BY <1>3 DEF Becomes, TypeInv, TypeOK
  <2>2. w # Sweeper => proc[w].todo = {}
    BY DEF TasksAreSingle
  <2> QED
    BY <1>1, <1>3, <2>1, <2>2 DEF TasksAreSingle, Reads
<1> QED
  BY <1>2, <1>3

\* The steps of an evaluation.
LEMMA DebounceEvaluate ==
  ASSUME TypeInv, DebounceInv, NEW w \in Workers, Evaluate(w)
  PROVE  DebounceInv'
<1>1. CASE Judge(w)
  <2> DEFINE q == CHOOSE x \in proc[w].todo : TRUE
             judged == [step |-> "judged", p |-> q, hot |-> Triggered(q), todo |-> proc[w].todo \ {q}]
  <2>1. proc[w].todo # {} /\ proc[w].todo \subseteq Policies /\ proc[w].step = "next"
    BY <1>1 DEF Judge, TypeInv, TypeOK, Tasks
  <2>2. q \in proc[w].todo /\ q \in Policies
    BY <2>1
  <2>3. /\ dirty' = [dirty EXCEPT ![q] = FALSE] /\ missed' = [missed EXCEPT ![q] = FALSE]
        /\ UNCHANGED <<claimed, publishing, scheduled>>
        /\ \A x \in Workers : proc'[x] = IF x = w THEN judged ELSE proc[x]
    BY <1>1 DEF Judge, Becomes, TypeInv, TypeOK
  <2>4. w # Sweeper => proc[w].todo = {q}
    BY <2>1, <2>2 DEF DebounceInv, TasksAreSingle
  <2>5. \A p \in Policies \ {q} : /\ dirty'[p] = dirty[p] /\ missed'[p] = missed[p]
                                 /\ \A x \in Workers : Reads(x, p) => Reads(x, p)'
    <3> HIDE DEF q
    <3> QED
      BY <2>3, <2>4 DEF Reads, TypeInv, TypeOK
  <2>6. ~dirty'[q]
    BY <2>2, <2>3 DEF TypeInv, TypeOK
  <2>7. TasksJudge'
    <3> HIDE DEF q
    <3> QED
      BY <2>3, <2>5, <2>6 DEF DebounceInv, TasksJudge
  <2>8. TasksAreSingle'
    <3> HIDE DEF q
    <3> QED
      BY <2>3, <2>4 DEF DebounceInv, TasksAreSingle
  <2> QED
    BY <2>3, <2>7, <2>8 DEF DebounceInv, KeyGuardsTask
<1>2. CASE ~Judge(w)
  <2>1. UNCHANGED trigger
    BY <1>2 DEF Evaluate, Fire, AlreadyFired, Pause, Notify, Unfire, NotFired, LookForOthers,
                ResetPausing
  <2>2. proc[w] # Idle /\ proc[w].step # "next"
    BY <1>2 DEF Evaluate, Fire, AlreadyFired, Pause, Notify, Unfire, NotFired, LookForOthers,
                ResetPausing
  <2>3. \/ Continue(w)
        \/ \E t \in Tasks : Becomes(w, t) /\ t.step # "next" /\ t.todo = proc[w].todo
    <3> DEFINE p == proc[w].p
    <3>a. proc[w].todo \subseteq Policies
      BY <2>2, TaskTypes DEF TypeInv
    <3>1. CASE Fire(w) \/ AlreadyFired(w)
      <4>1. p \in Policies
        BY <3>1, TaskTypes DEF TypeInv, Fire, AlreadyFired
      <4>2. \A b \in BOOLEAN : [step |-> "pause", p |-> p, fresh |-> b, todo |-> proc[w].todo] \in Tasks
        BY <3>a, <4>1 DEF Tasks
      <4> QED
        BY <3>1, <4>2 DEF Fire, AlreadyFired
    <3>2. CASE Pause(w)
      <4>1. /\ [proc[w] EXCEPT !.step = "notify"] \in Tasks
            /\ [proc[w] EXCEPT !.step = "notify"].step = "notify"
            /\ [proc[w] EXCEPT !.step = "notify"].todo = proc[w].todo
        BY <3>2 DEF Pause, TypeInv, TypeOK, Tasks
      <4> QED
        BY <3>2, <4>1 DEF Pause
    <3>3. CASE Unfire(w)
      <4>1. p \in Policies
        BY <3>3, TaskTypes DEF TypeInv, Unfire
      <4>2. [step |-> "unfired", p |-> p, todo |-> proc[w].todo] \in Tasks
        BY <3>a, <4>1 DEF Tasks
      <4> QED
        BY <3>3, <4>2 DEF Unfire
    <3>4. CASE LookForOthers(w)
      <4>1. p \in Policies /\ WantedByOther(p) \in BOOLEAN
        BY <3>4, TaskTypes DEF TypeInv, LookForOthers, WantedByOther
      <4>2. [step |-> "reset", p |-> p, kept |-> WantedByOther(p), todo |-> proc[w].todo] \in Tasks
        BY <3>a, <4>1 DEF Tasks
      <4> QED
        BY <3>4, <4>2 DEF LookForOthers
    <3> QED
      BY <1>2, <3>1, <3>2, <3>3, <3>4 DEF Evaluate, Notify, NotFired, ResetPausing
  <2>4. TasksAreSingle' /\ \A x \in Workers, p \in Policies : Reads(x, p) => Reads(x, p)'
    BY <2>2, <2>3, SinglesGoOn DEF DebounceInv
  <2> QED
    BY <2>1, <2>4, ElsewhereKeepsDebounce
<1> QED
  BY <1>1, <1>2

\* Changes of cost, publishing, the key and lost tasks.
LEMMA DebounceTrigger ==
  ASSUME TypeInv, DebounceInv,
         \/ \E c \in 0..MaxCost : ChangeCost(c)
         \/ \E p \in Policies : Publish(p) \/ PublishFails(p) \/ KeyExpires(p) \/ LoseTask(p)
  PROVE  DebounceInv'
<1>a. UNCHANGED proc
  BY DEF ChangeCost, Publish, PublishFails, KeyExpires, LoseTask
<1>b. TasksAreSingle' /\ \A w \in Workers, p \in Policies : Reads(w, p) => Reads(w, p)'
  BY <1>a DEF DebounceInv, TasksAreSingle, Reads
<1>1. ASSUME NEW c \in 0..MaxCost, ChangeCost(c) PROVE DebounceInv'
  \* Whoever finds the key claimed and nothing to publish finds a task that waits.
  BY <1>1, <1>b DEF ChangeCost, DebounceInv, KeyGuardsTask, TasksJudge, TypeInv, TypeOK
<1>2. ASSUME NEW p \in Policies, Publish(p) PROVE DebounceInv'
  BY <1>2, <1>b DEF Publish, DebounceInv, KeyGuardsTask, TasksJudge, TypeInv, TypeOK
<1>3. ASSUME NEW p \in Policies, PublishFails(p) PROVE DebounceInv'
  BY <1>3, <1>b DEF PublishFails, DebounceInv, KeyGuardsTask, TasksJudge, TypeInv, TypeOK
<1>4. ASSUME NEW p \in Policies, KeyExpires(p) PROVE DebounceInv'
  BY <1>4, <1>b DEF KeyExpires, DebounceInv, KeyGuardsTask, TasksJudge, TypeInv, TypeOK
<1>5. ASSUME NEW p \in Policies, LoseTask(p) PROVE DebounceInv'
  \* Where the key is still claimed, one more task is left.
  BY <1>5, <1>b DEF LoseTask, Ripe, DebounceInv, KeyGuardsTask, TasksJudge, TypeInv, TypeOK
<1> QED
  BY <1>1, <1>2, <1>3, <1>4, <1>5

\* Workers start and die.
LEMMA DebounceStarts ==
  ASSUME TypeInv, DebounceInv, NEW w \in Workers,
         (\E p \in Policies : StartEvaluation(w, p)) \/ StartSweep(w) \/ Die(w)
  PROVE  DebounceInv'
<1>1. ASSUME NEW p \in Policies, StartEvaluation(w, p) PROVE DebounceInv'
  <2> DEFINE task == [step |-> "next", todo |-> {p}]
  <2>1. /\ w # Sweeper /\ Ripe(p)
        /\ scheduled' = [scheduled EXCEPT ![p] = @ - 1]
        /\ UNCHANGED <<claimed, publishing, dirty, missed>>
        /\ \A x \in Workers : proc'[x] = IF x = w THEN task ELSE proc[x]
        /\ proc[w] = Idle
    BY <1>1 DEF StartEvaluation, Becomes, TypeInv, TypeOK
  <2>2. TasksAreSingle'
    BY <2>1 DEF DebounceInv, TasksAreSingle
  <2>3. Reads(w, p)' /\ \A x \in Workers, q \in Policies : Reads(x, q) => Reads(x, q)'
    BY <2>1 DEF Reads
  <2>4. KeyGuardsTask'
    BY <2>1 DEF Ripe, DebounceInv, KeyGuardsTask, TypeInv, TypeOK
  <2>5. TasksJudge'
    <3>1. \A q \in Policies \ {p} : scheduled'[q] = scheduled[q]
      BY <2>1 DEF TypeInv, TypeOK
    <3> QED
      BY <2>1, <2>3, <3>1 DEF DebounceInv, TasksJudge
  <2> QED
    BY <2>2, <2>4, <2>5 DEF DebounceInv
<1>2. CASE StartSweep(w)
  <2>1. /\ w = Sweeper /\ UNCHANGED trigger
        /\ \A x \in Workers \ {w} : proc'[x] = proc[x]
    BY <1>2 DEF StartSweep, Becomes, TypeInv, TypeOK
  <2>2. TasksAreSingle' /\ \A x \in Workers, p \in Policies : Reads(x, p) => Reads(x, p)'
    BY <2>1 DEF DebounceInv, TasksAreSingle, Reads
  <2> QED
    BY <2>1, <2>2, ElsewhereKeepsDebounce
<1>3. CASE Die(w)
  <2>1. /\ UNCHANGED <<claimed, publishing, scheduled, dirty>>
        /\ \A x \in Workers : proc'[x] = IF x = w THEN Idle ELSE proc[x]
        /\ \A p \in Policies : missed'[p] = (missed[p] \/ Reads(w, p))
    BY <1>3 DEF Die, Becomes, Reads, TypeInv, TypeOK
  <2>2. TasksAreSingle'
    BY <2>1 DEF DebounceInv, TasksAreSingle
  <2>3. \A x \in Workers \ {w}, p \in Policies : Reads(x, p) => Reads(x, p)'
    BY <2>1 DEF Reads
  <2>4. TasksJudge'
    BY <2>1, <2>3 DEF DebounceInv, TasksJudge
  <2> QED
    BY <2>1, <2>2, <2>4 DEF DebounceInv, KeyGuardsTask
<1> QED
  BY <1>1, <1>2, <1>3

LEMMA DebounceNext == TypeInv /\ DebounceInv /\ [Next]_vars => DebounceInv'
<1> SUFFICES ASSUME TypeInv, DebounceInv, [Next]_vars PROVE DebounceInv'
  OBVIOUS
<1>1. ASSUME UNCHANGED <<trigger, proc>> PROVE DebounceInv'
  <2>1. TasksAreSingle' /\ \A x \in Workers, p \in Policies : Reads(x, p) => Reads(x, p)'
    BY <1>1 DEF DebounceInv, TasksAreSingle, Reads
  <2> QED
    BY <1>1, <2>1, ElsewhereKeepsDebounce
<1>2. CASE ToggleSupport \/ SetPaused \/ UNCHANGED vars
  BY <1>1, <1>2 DEF ToggleSupport, SetPaused, vars, trigger
<1> QED
  BY <1>2, DebounceTrigger, DebounceStarts, DebounceEvaluate DEF Next

\* No change of cost is overlooked because its trigger was dropped: an evaluation
\* that is yet to read the cost is on its way, or was lost to a fault
\* (_debounced_call).
THEOREM DebounceJudgesChanges == Spec => []ChangesAreJudged
<1>1. DebounceInv => ChangesAreJudged
  BY DEF DebounceInv, TasksJudge, ChangesAreJudged, Reads, Idle
<1> QED
  BY <1>1, TypeInit, TypeNext, DebounceInit, DebounceNext, PTL DEF Spec

-----------------------------------------------------------------------------
(***************************************************************************)
(* Notifications.                                                          *)
(***************************************************************************)

\* The workers that have won the edge of p and not yet notified of it.
Owing(p) ==
  {w \in Workers : proc[w].step \in {"pause", "notify"} /\ proc[w].fresh /\ proc[w].p = p}

\* Only a worker that has won an edge notifies, and each of them is accounted for.
NotifyInv ==
  /\ \A w \in Workers : proc[w].step = "notify" => proc[w].fresh
  /\ \A p \in Policies : Cardinality(Owing(p)) <= owed[p]

\* The workers are finitely many, so those that owe a notification can be counted.
LEMMA OwingIsFinite ==
  ASSUME NEW p
  PROVE  /\ IsFiniteSet(Owing(p)) /\ Cardinality(Owing(p)) \in Nat
         /\ \A S \in SUBSET Owing(p) : Cardinality(S) <= Cardinality(Owing(p))
                                     /\ Cardinality(S) \in Nat
<1>1. Owing(p) \in SUBSET Workers
  BY DEF Owing
<1>2. IsFiniteSet(Owing(p))
  BY <1>1, PolicyAssumption, FS_Subset
<1>3. ASSUME NEW S \in SUBSET Owing(p)
      PROVE  Cardinality(S) <= Cardinality(Owing(p)) /\ Cardinality(S) \in Nat
  BY <1>2, FS_Subset, FS_CardinalityType
<1> QED
  BY <1>2, <1>3, FS_CardinalityType

LEMMA NotifyInit == Init => NotifyInv
<1> SUFFICES ASSUME Init PROVE NotifyInv
  OBVIOUS
<1>1. \A p \in Policies : Owing(p) = {}
  BY DEF Init, Owing
<1> QED
  BY <1>1, FS_EmptySet DEF Init, NotifyInv

\* A step after which no more workers owe a notification than before.
LEMMA ElsewhereKeepsNotify ==
  ASSUME TypeInv, NotifyInv, UNCHANGED owed,
         \A w \in Workers :
           \/ proc'[w] = proc[w]
           \/ proc'[w].step \notin {"pause", "notify"}
           \/ proc'[w].step = "pause" /\ ~proc'[w].fresh
           \/ /\ proc[w].step = "pause" /\ proc[w].fresh
              /\ proc'[w].fresh /\ proc'[w].p = proc[w].p
  PROVE  NotifyInv'
<1>1. \A p \in Policies : Owing(p)' \in SUBSET Owing(p)
  BY DEF Owing
<1>2. \A p \in Policies : Cardinality(Owing(p)') <= owed[p]
  <2> SUFFICES ASSUME NEW p \in Policies PROVE Cardinality(Owing(p)') <= owed[p]
    OBVIOUS
  <2>1. /\ Cardinality(Owing(p)') <= Cardinality(Owing(p))
        /\ Cardinality(Owing(p)') \in Nat /\ Cardinality(Owing(p)) \in Nat
    BY <1>1, OwingIsFinite
  <2> QED
    BY <2>1 DEF NotifyInv, TypeInv, TypeOK
<1>3. \A w \in Workers : proc'[w].step = "notify" => proc'[w].fresh
  BY DEF NotifyInv
<1> QED
  BY <1>2, <1>3 DEF NotifyInv

\* The worker that wins the edge of a policy owes one notification more.
LEMMA NotifyFire ==
  ASSUME TypeInv, NotifyInv, NEW w \in Workers, Fire(w)
  PROVE  NotifyInv'
<1> DEFINE p == proc[w].p
<1>1. /\ p \in Policies /\ proc[w].step = "judged"
      /\ owed' = [owed EXCEPT ![p] = @ + 1]
      /\ \A x \in Workers :
           proc'[x] = IF x = w THEN [step |-> "pause", p |-> p, fresh |-> TRUE, todo |-> proc[w].todo]
                      ELSE proc[x]
  BY TaskTypes DEF Fire, Becomes, TypeInv, TypeOK
<1>2. \A q \in Policies : Owing(q)' = IF q = p THEN Owing(q) \cup {w} ELSE Owing(q)
  BY <1>1 DEF Owing
<1>3. Cardinality(Owing(p) \cup {w}) <= Cardinality(Owing(p)) + 1
  <2>1. IsFiniteSet(Owing(p)) /\ Cardinality(Owing(p)) \in Nat
    BY OwingIsFinite
  <2> QED
    BY <2>1, FS_AddElement
<1>4. \A q \in Policies : Cardinality(Owing(q)') <= owed'[q]
  <2> SUFFICES ASSUME NEW q \in Policies PROVE Cardinality(Owing(q)') <= owed'[q]
    OBVIOUS
  <2>1. CASE q = p
    <3>1. IsFiniteSet(Owing(p)) /\ Cardinality(Owing(p)) \in Nat /\ Cardinality(Owing(p)) <= owed[p]
      BY <1>1, OwingIsFinite DEF NotifyInv
    <3>2. Cardinality(Owing(q)') \in Nat /\ Cardinality(Owing(q)') <= Cardinality(Owing(p)) + 1
      BY <1>2, <1>3, <2>1, <3>1, FS_AddElement, FS_CardinalityType
    <3>3. owed[p] \in Int /\ owed'[q] = owed[p] + 1
      BY <1>1, <2>1 DEF TypeInv, TypeOK
    <3> QED
      BY <3>1, <3>2, <3>3
  <2>2. CASE q # p
    BY <1>1, <1>2, <2>2 DEF NotifyInv, TypeInv, TypeOK
  <2> QED
    BY <2>1, <2>2
<1>5. \A x \in Workers : proc'[x].step = "notify" => proc'[x].fresh
  BY <1>1 DEF NotifyInv
<1> QED
  BY <1>4, <1>5 DEF NotifyInv

\* The worker that notifies no longer owes it.
LEMMA NotifyNotify ==
  ASSUME TypeInv, NotifyInv, NEW w \in Workers, Notify(w)
  PROVE  NotifyInv'
<1> DEFINE p == proc[w].p
<1>1. /\ p \in Policies /\ proc[w].step = "notify" /\ proc[w].fresh
      /\ owed' = [owed EXCEPT ![p] = @ - 1]
      /\ \A x \in Workers \ {w} : proc'[x] = proc[x]
      /\ proc'[w].step \notin {"pause", "notify"}
  BY TaskTypes DEF Notify, Continue, Becomes, NotifyInv, TypeInv, TypeOK
<1>2. \A q \in Policies : Owing(q)' = IF q = p THEN Owing(q) \ {w} ELSE Owing(q)
  BY <1>1 DEF Owing
<1>3. \A q \in Policies : Cardinality(Owing(q)') <= owed'[q]
  <2> SUFFICES ASSUME NEW q \in Policies PROVE Cardinality(Owing(q)') <= owed'[q]
    OBVIOUS
  <2>1. CASE q = p
    <3>1. w \in Owing(p)
      BY <1>1 DEF Owing
    <3>2. IsFiniteSet(Owing(p)) /\ Cardinality(Owing(p)) \in Nat /\ Cardinality(Owing(p)) <= owed[p]
      BY <1>1, OwingIsFinite DEF NotifyInv
    <3>3. Cardinality(Owing(q)') = Cardinality(Owing(p)) - 1
      BY <1>2, <2>1, <3>1, <3>2, FS_RemoveElement
    <3>4. owed[p] \in Int /\ owed'[q] = owed[p] - 1
      BY <1>1, <2>1 DEF TypeInv, TypeOK
    <3> QED
      BY <3>2, <3>3, <3>4
  <2>2. CASE q # p
    BY <1>1, <1>2, <2>2 DEF NotifyInv, TypeInv, TypeOK
  <2> QED
    BY <2>1, <2>2
<1>4. \A x \in Workers : proc'[x].step = "notify" => proc'[x].fresh
  BY <1>1 DEF NotifyInv
<1> QED
  BY <1>3, <1>4 DEF NotifyInv

LEMMA NotifyNext == TypeInv /\ NotifyInv /\ [Next]_vars => NotifyInv'
<1> SUFFICES ASSUME TypeInv, NotifyInv, [Next]_vars PROVE NotifyInv'
  OBVIOUS
<1>a. \A t : \A w, x \in Workers : Becomes(w, t) => proc'[x] = IF x = w THEN t ELSE proc[x]
  BY DEF Becomes, TypeInv, TypeOK
<1>b. \A w, x \in Workers : Continue(w) => proc'[x] = proc[x] \/ proc'[x].step \in {"idle", "next"}
  BY <1>a DEF Continue
<1>1. CASE UNCHANGED <<owed, proc>>
  BY <1>1, ElsewhereKeepsNotify
<1>2. ASSUME NEW w \in Workers,
             (\E p \in Policies : StartEvaluation(w, p)) \/ StartSweep(w) \/ Die(w)
      PROVE  NotifyInv'
  <2>1. UNCHANGED owed /\ \A x \in Workers : proc'[x] = proc[x] \/ proc'[x].step \in {"idle", "next"}
    <3>1. ASSUME NEW p \in Policies, StartEvaluation(w, p)
          PROVE  UNCHANGED owed /\ \A x \in Workers : proc'[x] = proc[x] \/ proc'[x].step = "next"
      BY <3>1, <1>a DEF StartEvaluation
    <3>2. CASE StartSweep(w)
      BY <3>2, <1>a DEF StartSweep
    <3>3. CASE Die(w)
      BY <3>3, <1>a DEF Die
    <3> QED
      BY <1>2, <3>1, <3>2, <3>3
  <2> QED
    BY <2>1, ElsewhereKeepsNotify
<1>3. ASSUME NEW w \in Workers, Evaluate(w) PROVE NotifyInv'
  <2>1. CASE Judge(w) \/ Unfire(w) \/ LookForOthers(w)
    <3>1. UNCHANGED owed
      BY <2>1 DEF Judge, Unfire, LookForOthers
    <3>2. \A x \in Workers : proc'[x] = proc[x] \/ proc'[x].step \in {"judged", "unfired", "reset"}
      <4>1. CASE Judge(w)
        BY <4>1, <1>a DEF Judge
      <4>2. CASE Unfire(w)
        BY <4>2, <1>a DEF Unfire
      <4>3. CASE LookForOthers(w)
        BY <4>3, <1>a DEF LookForOthers
      <4> QED
        BY <2>1, <4>1, <4>2, <4>3
    <3> QED
      BY <3>1, <3>2, ElsewhereKeepsNotify
  <2>2. CASE AlreadyFired(w)
    <3>1. UNCHANGED owed
      BY <2>2 DEF AlreadyFired
    <3>2. \A x \in Workers : \/ proc'[x] = proc[x]
                             \/ proc'[x].step \in {"idle", "next"}
                             \/ proc'[x].step = "pause" /\ ~proc'[x].fresh
      BY <2>2, <1>a, <1>b DEF AlreadyFired
    <3> QED
      BY <3>1, <3>2, ElsewhereKeepsNotify
  <2>3. CASE Pause(w)
    <3>1. UNCHANGED owed /\ proc[w].step = "pause"
      BY <2>3 DEF Pause
    <3>2. CASE proc[w].fresh
      <4>1. /\ \A x \in Workers \ {w} : proc'[x] = proc[x]
            /\ proc'[w] = [proc[w] EXCEPT !.step = "notify"]
        BY <2>3, <3>2, <1>a DEF Pause
      <4>2. proc'[w].fresh = proc[w].fresh /\ proc'[w].p = proc[w].p
        BY <3>1, <4>1 DEF TypeInv, TypeOK, Tasks
      <4> QED
        BY <3>1, <3>2, <4>1, <4>2, ElsewhereKeepsNotify
    <3>3. CASE ~proc[w].fresh
      <4>1. \A x \in Workers : proc'[x] = proc[x] \/ proc'[x].step \in {"idle", "next"}
        BY <2>3, <3>3, <1>b DEF Pause
      <4> QED
        BY <3>1, <4>1, ElsewhereKeepsNotify
    <3> QED
      BY <3>2, <3>3
  <2>4. CASE NotFired(w) \/ ResetPausing(w)
    <3>1. UNCHANGED owed /\ \A x \in Workers : proc'[x] = proc[x] \/ proc'[x].step \in {"idle", "next"}
      BY <2>4, <1>b DEF NotFired, ResetPausing
    <3> QED
      BY <3>1, ElsewhereKeepsNotify
  <2> QED
    BY <1>3, <2>1, <2>2, <2>3, <2>4, NotifyFire, NotifyNotify DEF Evaluate
<1>4. CASE (\E c \in 0..MaxCost : ChangeCost(c)) \/ ToggleSupport \/ SetPaused \/ UNCHANGED vars
  BY <1>1, <1>4 DEF ChangeCost, ToggleSupport, SetPaused, vars
<1>5. ASSUME NEW p \in Policies, Publish(p) \/ PublishFails(p) \/ KeyExpires(p) \/ LoseTask(p)
      PROVE  NotifyInv'
  BY <1>1, <1>5 DEF Publish, PublishFails, KeyExpires, LoseTask
<1> QED
  BY <1>2, <1>3, <1>4, <1>5 DEF Next

\* However many workers evaluate a policy at once, its one-time actions run at
\* most once for each time it fires (the conditional update of has_fired).
THEOREM NotificationsAreOwed == Spec => []NotifiesOncePerFire
<1>1. TypeInv /\ NotifyInv => NotifiesOncePerFire
  <2> SUFFICES ASSUME TypeInv, NotifyInv, NEW p \in Policies PROVE owed[p] >= 0
    BY DEF NotifiesOncePerFire
  <2>1. Cardinality(Owing(p)) \in Nat /\ Cardinality(Owing(p)) <= owed[p]
    BY OwingIsFinite DEF NotifyInv
  <2> QED
    BY <2>1 DEF TypeInv, TypeOK
<1> QED
  BY <1>1, TypeInit, TypeNext, NotifyInit, NotifyNext, PTL DEF Spec

=============================================================================
