----------------------- MODULE ProposalWorkflow_proofs -----------------------
(***************************************************************************)
(* What ProposalWorkflow promises for any number of proposals and          *)
(* processes and any catalogue of steps, with the sweep and the deletion   *)
(* that act on stale copies of drafts: of every proposal that no stale     *)
(* copy was written over, and what remains true of the others.             *)
(***************************************************************************)
EXTENDS ProposalWorkflow, WellFoundedInduction, TLAPS

-----------------------------------------------------------------------------
(* Steps.                                                                  *)

LEMMA StepsAreNumbers ==
  /\ LastStep \in Nat /\ Steps \subseteq Nat /\ Award \in Steps /\ Decision \in Steps
  /\ 0 \notin Steps /\ \A s \in Steps : s \in 0..LastStep
  BY WorkflowAssumption DEF Steps, Award, Decision

\* A set of steps has a first.
LEMMA FirstExists ==
  ASSUME NEW S \in SUBSET Steps, S # {}
  PROVE  Min(S) \in S /\ \A t \in S : Min(S) <= t
<1> DEFINE Less == OpToRel(<, Nat)
<1>1. S \subseteq Nat
  BY StepsAreNumbers
<1>2. \E s \in S : \A t \in S : ~ (<<t, s>> \in Less)
  <2>1. IsWellFoundedOn(Less, Nat)
    BY NatLessThanWellFounded
  <2> HIDE DEF Less
  <2> QED
    BY <1>1, <2>1, WFMin, Zenon
<1>3. PICK s \in S : \A t \in S : ~ (<<t, s>> \in Less)
  BY <1>2
<1>4. \A t \in S : ~ (t < s)
  BY <1>1, <1>3, Zenon DEF OpToRel
<1>5. \A t \in S : s <= t
  BY <1>1, <1>4
<1> QED
  BY <1>5 DEF Min

-----------------------------------------------------------------------------
(***************************************************************************)
(* The rows of a proposal.                                                 *)
(***************************************************************************)

Rows == [st : Open \cup Closed, step : 0..LastStep, projects : 0..1]
Passed == {"completed", "expired", "skipped"}
Ahead == {"pending", "skipped"}

\* Every step of the path is behind, and the last of them completed.
PathIsDone(i) ==
  /\ \A s \in Steps : i[s] \in Passed
  /\ \E last \in Steps : i[last] = "completed" /\ \A s \in Steps : s > last => i[s] = "skipped"

\* A proposal in review has its steps up to the one it stands at behind it and
\* the rest ahead; an accepted one has them all behind it, the last completed.
Fine(row, i) ==
  /\ row \in Rows /\ i \in [Steps -> Statuses]
  /\ row.st = "draft" => row.step = 0 /\ row.projects = 0 /\ \A s \in Steps : i[s] = "none"
  /\ row.st = "submitted" =>
       row.step = 0 /\ row.projects = 0 /\ \A s \in Steps : i[s] \in Ahead
  /\ row.st = "in_review" =>
       /\ row.step \in Steps /\ row.projects = 0
       /\ i[row.step] \in {"active", "completed"}
       /\ \A s \in Steps : (s < row.step => i[s] \in Passed) /\ (s > row.step => i[s] \in Ahead)
  /\ row.st = "accepted" => row.step = 0 /\ row.projects = 1 /\ PathIsDone(i)
  /\ row.st \in Closed \ {"accepted"} =>
       row.step = 0 /\ row.projects = 0 /\ \A s \in Steps : i[s] # "active"

\* A proposal lost to a stale copy is closed, though a step of it may go on;
\* that step has the others of its path in order on both sides.
LostFine(row, i) ==
  /\ row \in Rows /\ i \in [Steps -> Statuses] /\ row.st \in Closed
  /\ \A a \in Steps : i[a] = "active" =>
       /\ row.projects = 0
       /\ \A s \in Steps : (s < a => i[s] \in Passed) /\ (s > a => i[s] \in Ahead)
  /\ row.st = "accepted" => row.projects = 1
  /\ row.projects = 1 /\ row.st # "deleted" => PathIsDone(i)

RowTypes ==
  /\ prop \in [Proposals -> Rows] /\ inst \in [Proposals -> [Steps -> Statuses]]
  /\ overdue \in [Proposals -> BOOLEAN] /\ lost \subseteq Proposals
RowsFine ==
  /\ RowTypes
  /\ \A p \in Proposals : IF p \in lost THEN LostFine(prop[p], inst[p]) ELSE Fine(prop[p], inst[p])

CallTypes ==
  /\ closed \in BOOLEAN /\ atCutoff \in BOOLEAN
  /\ enabled \subseteq Steps /\ Decision \in enabled /\ manual \subseteq Steps

\* Only a proposal in review has an active step, the one it stands at.
LEMMA ActiveIsStep ==
  ASSUME NEW row, NEW i, Fine(row, i), NEW s \in Steps, i[s] = "active"
  PROVE  row.st = "in_review" /\ row.step = s /\ \A t \in Steps : i[t] = "active" => t = s
<1>1. row.st \in Open \cup Closed
  BY DEF Fine, Rows
<1>2. row.st = "in_review"
  BY <1>1 DEF Fine, Open, Closed, Passed, Ahead, PathIsDone
<1>3. ASSUME NEW t \in Steps, i[t] = "active" PROVE t = row.step
  <2>1. row.step \in Steps /\ (t < row.step => i[t] \in Passed) /\ (t > row.step => i[t] \in Ahead)
    BY <1>2 DEF Fine
  <2>2. ~ (t < row.step) /\ ~ (t > row.step)
    BY <1>3, <2>1 DEF Passed, Ahead
  <2>3. t \in Nat /\ row.step \in Nat
    BY <2>1, StepsAreNumbers
  <2> QED
    BY <2>2, <2>3
<1> QED
  BY <1>2, <1>3

\* The first step ahead of s is activated.
LEMMA NextStepIsFine ==
  ASSUME NEW row \in Rows, row.st \in Open, row.projects = 0, NEW i \in [Steps -> Statuses],
         NEW s \in 0..LastStep,
         \A t \in Steps : (t <= s => i[t] \in Passed) /\ (t > s => i[t] \in Ahead),
         NEW left, left = {t \in Pending(i) : t > s}, left # {}
  PROVE  Fine([row EXCEPT !.st = "in_review", !.step = Min(left)], [i EXCEPT ![Min(left)] = "active"])
<1> DEFINE first == Min(left)
<1>1. left \in SUBSET Steps
  BY DEF Pending
<1>2. first \in left /\ \A t \in left : first <= t
  BY <1>1, FirstExists
<1> HIDE DEF first
<1>3. first \in Steps /\ first > s
  BY <1>1, <1>2
<1> DEFINE new == [row EXCEPT !.st = "in_review", !.step = first]
           j == [i EXCEPT ![first] = "active"]
<1>4. new \in Rows /\ new.st = "in_review" /\ new.step = first /\ new.projects = 0
  BY <1>3, StepsAreNumbers DEF Rows, Open
<1>5. j \in [Steps -> Statuses] /\ j[first] = "active" /\ \A t \in Steps \ {first} : j[t] = i[t]
  BY <1>3 DEF Statuses
<1>6. ASSUME NEW t \in Steps, t < first PROVE j[t] \in Passed
  <2>1. j[t] = i[t]
    BY <1>3, <1>5, <1>6, StepsAreNumbers
  <2>2. CASE t <= s
    BY <2>1, <2>2
  <2>3. CASE t > s
    <3>1. t \notin left
      BY <1>2, <1>3, <1>6, StepsAreNumbers
    <3>2. i[t] # "pending"
      BY <2>3, <3>1 DEF Pending
    <3> QED
      BY <2>1, <2>3, <3>2 DEF Ahead, Passed
  <2> QED
    BY <2>2, <2>3, StepsAreNumbers
<1>7. ASSUME NEW t \in Steps, t > first PROVE j[t] \in Ahead
  <2>1. j[t] = i[t] /\ t > s
    BY <1>3, <1>5, <1>7, StepsAreNumbers
  <2> QED
    BY <2>1
<1> HIDE DEF new, j
<1>8. Fine(new, j)
  BY <1>3, <1>4, <1>5, <1>6, <1>7 DEF Fine, Closed
<1> QED
  BY <1>8 DEF new, j, first

\* The last step is completed, and the proposal accepted with a project.
LEMMA AcceptedIsFine ==
  ASSUME NEW row \in Rows, row.projects = 0, NEW i \in [Steps -> Statuses],
         NEW s \in Steps, i[s] = "completed",
         \A t \in Steps : (t < s => i[t] \in Passed) /\ (t > s => i[t] \in Ahead),
         {t \in Pending(i) : t > s} = {}
  PROVE  Fine(Accepted(row, FALSE), i)
<1> DEFINE new == Accepted(row, FALSE)
<1>1. new \in Rows /\ new.st = "accepted" /\ new.step = 0 /\ new.projects = 1
  <2>1. new = [row EXCEPT !.st = "accepted", !.step = 0, !.projects = row.projects + 1]
    BY DEF Accepted
  <2>2. row.projects + 1 = 1 /\ 0 \in 0..LastStep /\ 1 \in 0..1
    BY StepsAreNumbers
  <2>3. row = [st |-> row.st, step |-> row.step, projects |-> row.projects]
    BY DEF Rows
  <2>4. new = [st |-> "accepted", step |-> 0, projects |-> row.projects + 1]
    BY <2>1, <2>3
  <2> HIDE DEF new
  <2>5. new = [st |-> "accepted", step |-> 0, projects |-> 1]
    BY <2>2, <2>4
  <2> QED
    BY <2>2, <2>5 DEF Rows, Closed
<1>2. \A t \in Steps : t > s => i[t] = "skipped"
  BY DEF Pending, Ahead
<1>3. \A t \in Steps : i[t] \in Passed
  <2> SUFFICES ASSUME NEW t \in Steps PROVE i[t] \in Passed
    OBVIOUS
  <2>1. t < s \/ t = s \/ t > s
    BY StepsAreNumbers
  <2> QED
    BY <1>2, <2>1 DEF Passed
<1> HIDE DEF new
<1>4. Fine(new, i)
  BY <1>1, <1>2, <1>3 DEF Fine, Closed, PathIsDone
<1> QED
  BY <1>4 DEF new

\* A proposal that ends otherwise: rejected, canceled or deleted.
LEMMA EndedIsFine ==
  ASSUME NEW row \in Rows, row.st \in Closed \ {"accepted"}, row.step = 0, row.projects = 0,
         NEW i \in [Steps -> Statuses], \A s \in Steps : i[s] # "active"
  PROVE  Fine(row, i)
  BY DEF Fine, Closed

\* The same for a proposal lost to a stale copy: it is moved on from step s, ...
LEMMA LostMovesOn ==
  ASSUME NEW row \in Rows, row.st \in Closed, row.projects = 0, row.st # "accepted",
         NEW i \in [Steps -> Statuses], NEW s \in Steps,
         \A t \in Steps : (t <= s => i[t] \in Passed) /\ (t > s => i[t] \in Ahead),
         NEW left, left = {t \in Pending(i) : t > s}, left # {}
  PROVE  LostFine([row EXCEPT !.step = Min(left)], [i EXCEPT ![Min(left)] = "active"])
<1> DEFINE first == Min(left)
           sound == [st |-> "in_review", step |-> 0, projects |-> 0]
           new == [sound EXCEPT !.st = "in_review", !.step = first]
           j == [i EXCEPT ![first] = "active"]
<1>1. sound \in Rows /\ sound.st \in Open /\ sound.projects = 0 /\ s \in 0..LastStep
  BY StepsAreNumbers DEF Rows, Open
<1> HIDE DEF sound
<1>2. Fine(new, j)
  BY <1>1, NextStepIsFine
<1>3. new.st = "in_review" /\ new.step = first
  BY <1>1 DEF Rows
<1> HIDE DEF new
<1>4. first \in Steps /\ j \in [Steps -> Statuses]
      /\ \A t \in Steps : (t < first => j[t] \in Passed) /\ (t > first => j[t] \in Ahead)
  BY <1>2, <1>3 DEF Fine
<1> HIDE DEF first, j
<1>5. \A a \in Steps : j[a] = "active" => a = first
  BY <1>4, StepsAreNumbers DEF Passed, Ahead
<1>6. [row EXCEPT !.step = first] \in Rows /\ [row EXCEPT !.step = first].st = row.st
      /\ [row EXCEPT !.step = first].projects = 0
  BY <1>4, StepsAreNumbers DEF Rows
<1>7. LostFine([row EXCEPT !.step = first], j)
  BY <1>4, <1>5, <1>6 DEF LostFine
<1> QED
  BY <1>7 DEF first, j

\* ... or accepted, when none is left, ...
LEMMA LostIsAccepted ==
  ASSUME NEW row \in Rows, row.projects = 0, NEW i \in [Steps -> Statuses],
         NEW s \in Steps, i[s] = "completed",
         \A t \in Steps : (t < s => i[t] \in Passed) /\ (t > s => i[t] \in Ahead),
         {t \in Pending(i) : t > s} = {}
  PROVE  LostFine(Accepted(row, FALSE), i)
<1> DEFINE new == Accepted(row, FALSE)
<1>1. Fine(new, i)
  BY AcceptedIsFine
<1>2. new.st = "accepted"
  BY DEF Accepted, Rows
<1> HIDE DEF new
<1>3. new.projects = 1 /\ PathIsDone(i) /\ new \in Rows
  BY <1>1, <1>2 DEF Fine
<1>4. LostFine(new, i)
  BY <1>2, <1>3 DEF LostFine, PathIsDone, Passed, Closed
<1> QED
  BY <1>4 DEF new

\* ... or left without an active step.
LEMMA LostEnds ==
  ASSUME NEW row \in Rows, row.st \in Closed \ {"accepted"}, row.projects = 0,
         NEW i \in [Steps -> Statuses], \A s \in Steps : i[s] # "active"
  PROVE  LostFine(row, i)
  BY DEF LostFine

\* A stale copy cancels or deletes a proposal, whatever has become of it.
LEMMA StaleCopyLoses ==
  ASSUME NEW row, NEW i, Fine(row, i) \/ LostFine(row, i)
  PROVE  /\ row.st # "deleted" => LostFine([row EXCEPT !.st = "canceled"], i)
         /\ LostFine([row EXCEPT !.st = "deleted", !.step = 0], [s \in Steps |-> "none"])
<1>1. row \in Rows /\ i \in [Steps -> Statuses] /\ row.projects \in 0..1
  BY DEF Fine, LostFine, Rows
<1>2. ASSUME NEW a \in Steps, i[a] = "active"
      PROVE  /\ row.projects = 0
             /\ \A s \in Steps : (s < a => i[s] \in Passed) /\ (s > a => i[s] \in Ahead)
  <2>1. CASE Fine(row, i)
    <3>1. row.st = "in_review" /\ row.step = a
      BY <1>2, <2>1, ActiveIsStep
    <3> QED
      BY <2>1, <3>1 DEF Fine
  <2>2. CASE LostFine(row, i)
    BY <1>2, <2>2 DEF LostFine
  <2> QED
    BY <2>1, <2>2
<1>3. row.projects = 1 /\ row.st # "deleted" => PathIsDone(i)
  <2>1. CASE Fine(row, i)
    <3>1. row.st \in Open \cup Closed
      BY <1>1 DEF Rows
    <3> QED
      BY <2>1, <3>1 DEF Fine, Open, Closed
  <2>2. CASE LostFine(row, i)
    BY <2>2 DEF LostFine
  <2> QED
    BY <2>1, <2>2
<1>5. LostFine([row EXCEPT !.st = "deleted", !.step = 0], [s \in Steps |-> "none"])
  <2> DEFINE new == [row EXCEPT !.st = "deleted", !.step = 0]
             j == [s \in Steps |-> "none"]
  <2>0. 0 \in 0..LastStep
    BY WorkflowAssumption
  <2>1. new \in Rows /\ new.st = "deleted"
    <3>1. row = [st |-> row.st, step |-> row.step, projects |-> row.projects]
      BY <1>1 DEF Rows
    <3>2. new = [row EXCEPT !.st = "deleted", !.step = 0]
      OBVIOUS
    <3> HIDE DEF new
    <3>3. new = [st |-> "deleted", step |-> 0, projects |-> row.projects]
      BY <3>1, <3>2
    <3> QED
      BY <1>1, <2>0, <3>3 DEF Rows, Closed
  <2>2. j \in [Steps -> Statuses] /\ \A s \in Steps : j[s] # "active"
    BY DEF Statuses
  <2> HIDE DEF new, j
  <2>3. LostFine(new, j)
    BY <2>1, <2>2 DEF LostFine, Closed
  <2> QED
    BY <2>3 DEF new, j
<1>6. CASE row.st # "deleted"
  <2> DEFINE new == [row EXCEPT !.st = "canceled"]
  <2>1. new \in Rows /\ new.st = "canceled" /\ new.projects = row.projects
    BY <1>1 DEF Rows, Closed
  <2> HIDE DEF new
  <2>2. LostFine(new, i)
    BY <1>1, <1>2, <1>3, <1>6, <2>1 DEF LostFine, Closed
  <2> QED
    BY <1>5, <2>2 DEF new
<1> QED
  BY <1>5, <1>6

LEMMA PathIsFine ==
  ASSUME CallTypes
  PROVE  /\ Path \in [Steps -> Statuses] /\ \A s \in Steps : Path[s] \in Ahead
         /\ Pending(Path) # {}
  BY StepsAreNumbers DEF CallTypes, Path, Statuses, Ahead, Pending

-----------------------------------------------------------------------------
(***************************************************************************)
(* Workers.                                                                *)
(***************************************************************************)

Tasks ==
  [op : {"submit", "destroy"}, p : Proposals]
  \cup [op : {"close_round"}]
  \cup [op : {"cancel_drafts", "start_evaluation"}, todo : SUBSET Proposals]
  \cup [op : {"decide", "decide_locked"}, p : Proposals, s : Steps, allocated : {FALSE}]
  \cup [op : {"expire_locked"}, p : Proposals, s : Steps]
  \cup [op : {"edit_call"}, atCutoff : BOOLEAN]

\* A step that is locked to be expired stays active, and is locked once.
ExpiryHolds ==
  \A w \in Procs : proc[w].op = "expire_locked" =>
    /\ inst[proc[w].p][proc[w].s] = "active"
    /\ \A v \in Procs : proc[v].op = "expire_locked" /\ proc[v].p = proc[w].p /\ proc[v].s = proc[w].s
                         => v = w

WorkersFine == proc \in [Procs -> Tasks \cup {Idle}] /\ ExpiryHolds

Inv == CallTypes /\ RowsFine /\ WorkersFine

LEMMA TaskShapes ==
  ASSUME WorkersFine, NEW w \in Procs
  PROVE  /\ proc[w].op \in {"submit", "destroy"} => proc[w].p \in Proposals
         /\ proc[w].op \in {"cancel_drafts", "start_evaluation"} => proc[w].todo \subseteq Proposals
         /\ proc[w].op \in {"decide", "decide_locked"} =>
              proc[w].p \in Proposals /\ proc[w].s \in Steps /\ proc[w].allocated = FALSE
         /\ proc[w].op = "expire_locked" => proc[w].p \in Proposals /\ proc[w].s \in Steps
         /\ proc[w].op = "edit_call" => proc[w].atCutoff \in BOOLEAN
<1>1. proc[w] \in Tasks \cup {Idle}
  BY DEF WorkersFine
<1>2. CASE proc[w] = Idle
  BY <1>2 DEF Idle
<1>3. CASE proc[w] \in Tasks
  BY <1>3 DEF Tasks
<1> QED
  BY <1>1, <1>2, <1>3

\* A sweep strikes a proposal off its list.
LEMMA ListShape ==
  ASSUME WorkersFine, NEW w \in Procs, proc[w].op \in {"cancel_drafts", "start_evaluation"}, NEW p
  PROVE  LET t == IF proc[w].todo = {p} THEN Idle ELSE [proc[w] EXCEPT !.todo = @ \ {p}]
         IN t \in Tasks \cup {Idle} /\ t.op # "expire_locked"
<1> DEFINE Lists == [op : {"cancel_drafts", "start_evaluation"}, todo : SUBSET Proposals]
<1>1. proc[w] \in Lists
  <2>1. proc[w] \in Tasks \cup {Idle}
    BY DEF WorkersFine
  <2>2. proc[w] # Idle
    BY DEF Idle
  <2> QED
    BY <2>1, <2>2 DEF Tasks
<1>2. CASE proc[w].todo = {p}
  BY <1>2 DEF Idle
<1>3. CASE proc[w].todo # {p}
  <2> DEFINE t == [proc[w] EXCEPT !.todo = @ \ {p}]
  <2>1. t \in Lists
    BY <1>1
  <2>2. t.op # "expire_locked"
    BY <2>1
  <2> HIDE DEF t
  <2> QED
    BY <1>3, <2>1, <2>2 DEF Tasks, t
<1> QED
  BY <1>2, <1>3

\* What a step may do to a proposal: nothing; or something fine while it is open
\* and no step of it is locked by another, and then what was submitted is
\* canceled by a refusal of the award only; or, of a proposal lost to a stale
\* copy, something that leaves its steps in order.
NotLockedByOthers(p) == \A w \in Procs : proc[w].op = "expire_locked" /\ proc[w].p = p => proc'[w] = Idle
Proper(p) ==
  \/ prop'[p] = prop[p] /\ inst'[p] = inst[p] /\ (p \in lost' <=> p \in lost)
  \/ /\ p \notin lost' /\ prop[p].st \in Open /\ Fine(prop'[p], inst'[p])
     /\ prop'[p].st \in {"canceled", "deleted"} => prop[p].st = "draft" \/ inst'[p][Award] = "refused"
     /\ NotLockedByOthers(p)
  \/ /\ p \in lost' /\ LostFine(prop'[p], inst'[p])
     /\ inst'[p] = inst[p] \/ NotLockedByOthers(p)
AllProper == RowTypes' /\ \A p \in Proposals : Proper(p)

LEMMA Untouched ==
  ASSUME Inv, UNCHANGED rows
  PROVE  AllProper
  BY DEF Inv, RowsFine, RowTypes, rows, AllProper, Proper

\* The row of a proposal, lost or not; one that is open is not lost.
LEMMA RowOf ==
  ASSUME Inv, NEW p \in Proposals
  PROVE  /\ prop[p] \in Rows /\ inst[p] \in [Steps -> Statuses] /\ lost \subseteq Proposals
         /\ prop[p].st \in Open => p \notin lost
         /\ p \notin lost => Fine(prop[p], inst[p])
         /\ p \in lost => LostFine(prop[p], inst[p])
         /\ p \notin lost /\ prop[p].st # "in_review" => \A s \in Steps : inst[p][s] # "active"
<1>1. IF p \in lost THEN LostFine(prop[p], inst[p]) ELSE Fine(prop[p], inst[p])
  BY DEF Inv, RowsFine
<1>2. lost \subseteq Proposals
  BY DEF Inv, RowsFine, RowTypes
<1>3. CASE p \in lost
  BY <1>1, <1>2, <1>3 DEF LostFine, Open, Closed
<1>4. CASE p \notin lost
  <2>1. Fine(prop[p], inst[p])
    BY <1>1, <1>4
  <2>2. prop[p].st # "in_review" => \A s \in Steps : inst[p][s] # "active"
    BY <2>1, ActiveIsStep
  <2>3. prop[p] \in Rows /\ inst[p] \in [Steps -> Statuses]
    BY <2>1 DEF Fine
  <2> QED
    BY <1>2, <1>4, <2>1, <2>2, <2>3
<1> QED
  BY <1>3, <1>4

\* Rows are saved for p alone.
LEMMA SavesRows ==
  ASSUME Inv, NEW p \in Proposals, NEW row \in Rows, NEW i \in [Steps -> Statuses],
         prop' = [prop EXCEPT ![p] = row], inst' = [inst EXCEPT ![p] = i],
         overdue' \in [Proposals -> BOOLEAN],
         lost' \in {lost, lost \cup {p}}
  PROVE  /\ RowTypes' /\ prop'[p] = row /\ inst'[p] = i
         /\ \A q \in Proposals \ {p} : Proper(q)
  BY DEF Inv, RowsFine, RowTypes, Proper

\* A proposal that is saved, while none of its steps is locked by another.
LEMMA SaveIsProper ==
  ASSUME Inv, NEW p \in Proposals, NEW row, NEW i, Save(p, row, i),
         prop[p].st \in Open, Fine(row, i),
         row.st \in {"canceled", "deleted"} => prop[p].st = "draft" \/ i[Award] = "refused",
         NotLockedByOthers(p)
  PROVE  AllProper
<1>1. row \in Rows /\ i \in [Steps -> Statuses]
  BY DEF Fine
<1>2. prop' = [prop EXCEPT ![p] = row] /\ inst' = [inst EXCEPT ![p] = i] /\ lost' = lost
      /\ overdue' \in [Proposals -> BOOLEAN]
  BY DEF Save, Inv, RowsFine, RowTypes
<1>3. RowTypes' /\ prop'[p] = row /\ inst'[p] = i /\ \A q \in Proposals \ {p} : Proper(q)
  BY <1>1, <1>2, SavesRows
<1>4. p \notin lost'
  BY <1>2, RowOf
<1>5. Proper(p)
  BY <1>3, <1>4 DEF Proper
<1> QED
  BY <1>3, <1>5 DEF AllProper

\* The same for a proposal that is lost.
LEMMA LostIsProper ==
  ASSUME Inv, NEW p \in lost, NEW row, NEW i, Save(p, row, i),
         LostFine(row, i), NotLockedByOthers(p)
  PROVE  AllProper
<1>1. row \in Rows /\ i \in [Steps -> Statuses] /\ p \in Proposals
  BY DEF LostFine, Inv, RowsFine, RowTypes
<1>2. prop' = [prop EXCEPT ![p] = row] /\ inst' = [inst EXCEPT ![p] = i] /\ lost' = lost
      /\ overdue' \in [Proposals -> BOOLEAN]
  BY <1>1 DEF Save, Inv, RowsFine, RowTypes
<1>3. RowTypes' /\ prop'[p] = row /\ inst'[p] = i /\ \A q \in Proposals \ {p} : Proper(q)
  BY <1>1, <1>2, SavesRows
<1>4. Proper(p)
  BY <1>2, <1>3 DEF Proper
<1> QED
  BY <1>3, <1>4 DEF AllProper

\* A proposal without an active step has none that is locked.
LEMMA NothingLocked ==
  ASSUME Inv, NEW p \in Proposals, \A s \in Steps : inst[p][s] # "active"
  PROVE  NotLockedByOthers(p)
  BY TaskShapes DEF Inv, WorkersFine, ExpiryHolds, NotLockedByOthers

\* A process that is about to lock no step takes up a task or ends one.
LEMMA WorkersStay ==
  ASSUME Inv, AllProper, NEW w \in Procs, NEW t \in Tasks \cup {Idle}, Becomes(w, t),
         t.op # "expire_locked"
  PROVE  WorkersFine'
<1>1. proc \in [Procs -> Tasks \cup {Idle}] /\ ExpiryHolds
  BY DEF Inv, WorkersFine
<1>2. proc' \in [Procs -> Tasks \cup {Idle}] /\ \A v \in Procs : proc'[v] = IF v = w THEN t ELSE proc[v]
  BY <1>1 DEF Becomes
<1>3. ASSUME NEW v \in Procs, proc'[v].op = "expire_locked"
      PROVE  /\ v # w /\ proc'[v] = proc[v]
             /\ inst'[proc[v].p] = inst[proc[v].p]
  <2>1. v # w /\ proc'[v] = proc[v] /\ proc[v].op = "expire_locked"
    BY <1>2, <1>3
  <2>2. proc[v].p \in Proposals /\ proc'[v] # Idle
    <3>1. proc[v].p \in Proposals
      BY <2>1, TaskShapes DEF Inv
    <3> QED
      BY <1>3, <3>1 DEF Idle
  <2>3. Proper(proc[v].p)
    BY <2>2 DEF AllProper
  <2> QED
    BY <2>1, <2>2, <2>3 DEF Proper, NotLockedByOthers
<1>4. ExpiryHolds'
  BY <1>1, <1>3 DEF ExpiryHolds
<1> QED
  BY <1>2, <1>4 DEF WorkersFine

LEMMA IdleWorkersStay ==
  ASSUME Inv, AllProper, UNCHANGED proc
  PROVE  WorkersFine'
<1>1. ASSUME NEW v \in Procs, proc[v].op = "expire_locked" PROVE inst'[proc[v].p] = inst[proc[v].p]
  <2>1. proc[v].p \in Proposals /\ proc'[v] # Idle
    <3>1. proc[v].p \in Proposals
      BY <1>1, TaskShapes DEF Inv
    <3> QED
      BY <1>1, <3>1 DEF Idle
  <2> QED
    BY <1>1, <2>1 DEF AllProper, Proper, NotLockedByOthers
<1> QED
  BY <1>1 DEF Inv, WorkersFine, ExpiryHolds

LEMMA RowsStayFine ==
  ASSUME Inv, AllProper
  PROVE  RowsFine'
  BY DEF Inv, AllProper, Proper, RowsFine

-----------------------------------------------------------------------------
(***************************************************************************)
(* Writes to a proposal.                                                   *)
(***************************************************************************)

LEMMA StartIsProper ==
  ASSUME Inv, NEW p \in Proposals, NEW i \in [Steps -> Statuses], Started(p, i),
         prop[p].st \in {"draft", "submitted"},
         \A s \in Steps : i[s] \in Ahead, Pending(i) # {}
  PROVE  AllProper
<1> DEFINE first == Min(Pending(i))
           new == [prop[p] EXCEPT !.st = "in_review", !.step = first]
           j == [i EXCEPT ![first] = "active"]
<1>1. Fine(prop[p], inst[p])
  BY RowOf DEF Open
<1>2. prop[p] \in Rows /\ prop[p].projects = 0 /\ prop[p].st \in Open
      /\ \A s \in Steps : inst[p][s] # "active"
  BY <1>1 DEF Fine, Open, Ahead
<1>3. Fine(new, j)
  <2>1. Pending(i) = {t \in Pending(i) : t > 0}
    BY StepsAreNumbers DEF Pending, Steps
  <2>2. \A t \in Steps : (t <= 0 => i[t] \in Passed) /\ (t > 0 => i[t] \in Ahead)
    BY DEF Steps
  <2>3. 0 \in 0..LastStep
    BY StepsAreNumbers
  <2> QED
    BY <1>2, <2>1, <2>2, <2>3, NextStepIsFine
<1>4. NotLockedByOthers(p)
  BY <1>2, NothingLocked
<1>5. Save(p, new, j)
  BY DEF Started
<1>6. new.st = "in_review"
  BY <1>2 DEF Rows
<1> HIDE DEF new, j
<1> QED
  BY <1>2, <1>3, <1>4, <1>5, <1>6, SaveIsProper

\* The step a proposal stood at is completed or expired, and the next begins.
LEMMA ActivateIsProper ==
  ASSUME Inv, NEW p \in Proposals, prop[p].st = "in_review",
         NEW i \in [Steps -> Statuses], i[prop[p].step] \in Passed,
         \A t \in Steps \ {prop[p].step} : i[t] = inst[p][t],
         NEW left, left = {t \in Pending(i) : t > prop[p].step}, left # {},
         Save(p, [prop[p] EXCEPT !.step = Min(left)], [i EXCEPT ![Min(left)] = "active"]),
         NotLockedByOthers(p)
  PROVE  AllProper
<1> DEFINE first == Min(left)
           new == [prop[p] EXCEPT !.st = "in_review", !.step = first]
           j == [i EXCEPT ![first] = "active"]
<1>1. Fine(prop[p], inst[p])
  BY RowOf DEF Open
<1>2. prop[p] \in Rows /\ prop[p].projects = 0 /\ prop[p].st \in Open /\ prop[p].step \in Steps
      /\ \A t \in Steps : (t < prop[p].step => inst[p][t] \in Passed)
                        /\ (t > prop[p].step => inst[p][t] \in Ahead)
  BY <1>1 DEF Fine, Open
<1>3. prop[p].step \in 0..LastStep /\ prop[p].step \in Nat
  BY <1>2, StepsAreNumbers
<1>4. \A t \in Steps : (t <= prop[p].step => i[t] \in Passed) /\ (t > prop[p].step => i[t] \in Ahead)
  BY <1>2, <1>3, StepsAreNumbers
<1>5. Fine(new, j)
  BY <1>2, <1>3, <1>4, NextStepIsFine
<1>6. new = [prop[p] EXCEPT !.step = first] /\ new.st = "in_review"
  BY <1>2 DEF Rows
<1>7. Save(p, new, j)
  BY <1>6
<1> HIDE DEF new, j
<1> QED
  BY <1>2, <1>5, <1>6, <1>7, SaveIsProper

LEMMA AdvanceIsProper ==
  ASSUME Inv, NEW p \in Proposals, prop[p].st = "in_review",
         NEW i \in [Steps -> Statuses], i[prop[p].step] = "completed",
         \A t \in Steps \ {prop[p].step} : i[t] = inst[p][t],
         AdvanceToNext(p, i, prop[p].step, FALSE),
         NotLockedByOthers(p)
  PROVE  AllProper
<1> DEFINE left == {t \in Pending(i) : t > prop[p].step}
<1>1. CASE left # {}
  <2>1. Save(p, [prop[p] EXCEPT !.step = Min(left)], [i EXCEPT ![Min(left)] = "active"])
    BY <1>1 DEF AdvanceToNext
  <2>2. i[prop[p].step] \in Passed
    BY DEF Passed
  <2> HIDE DEF left
  <2>3. left = {t \in Pending(i) : t > prop[p].step}
    BY DEF left
  <2> QED
    BY <1>1, <2>1, <2>2, <2>3, ActivateIsProper
<1>2. CASE left = {}
  <2> DEFINE new == Accepted(prop[p], FALSE)
  <2>1. Fine(prop[p], inst[p])
    BY RowOf DEF Open
  <2>2. prop[p] \in Rows /\ prop[p].projects = 0 /\ prop[p].st \in Open /\ prop[p].step \in Steps
        /\ \A t \in Steps : (t < prop[p].step => inst[p][t] \in Passed)
                          /\ (t > prop[p].step => inst[p][t] \in Ahead)
    BY <2>1 DEF Fine, Open
  <2>3. \A t \in Steps : (t < prop[p].step => i[t] \in Passed) /\ (t > prop[p].step => i[t] \in Ahead)
    BY <2>2, StepsAreNumbers
  <2>4. Fine(new, i)
    BY <1>2, <2>2, <2>3, AcceptedIsFine
  <2>5. new.st = "accepted"
    BY <2>2 DEF Accepted, Rows
  <2>6. Save(p, new, i)
    BY <1>2 DEF AdvanceToNext
  <2> HIDE DEF new
  <2> QED
    BY <2>2, <2>4, <2>5, <2>6, SaveIsProper
<1> QED
  BY <1>1, <1>2

\* The proposal ends, with no step of it active any more.
LEMMA EndIsProper ==
  ASSUME Inv, NEW p \in Proposals, prop[p].st \in Open,
         NEW i \in [Steps -> Statuses], \A s \in Steps : i[s] # "active",
         NEW row \in Rows, row.st \in Closed \ {"accepted"}, row.step = 0, row.projects = 0,
         Save(p, row, i),
         row.st \in {"canceled", "deleted"} => prop[p].st = "draft" \/ i[Award] = "refused",
         NotLockedByOthers(p)
  PROVE  AllProper
  BY EndedIsFine, SaveIsProper

-----------------------------------------------------------------------------
(***************************************************************************)
(* Every step is proper.                                                   *)
(***************************************************************************)

\* A step that touches no proposal, after which a process is about to lock no step.
LEMMA ElsewhereKeeps ==
  ASSUME Inv, UNCHANGED rows, CallTypes',
         \/ UNCHANGED proc
         \/ \E w \in Procs, t \in Tasks \cup {Idle} : Becomes(w, t) /\ t.op # "expire_locked"
  PROVE  Inv' /\ AllProper
<1>1. AllProper
  BY Untouched
<1>2. RowsFine'
  BY <1>1, RowsStayFine
<1>3. WorkersFine'
  BY <1>1, WorkersStay, IdleWorkersStay
<1> QED
  BY <1>1, <1>2, <1>3 DEF Inv

\* A proper step of a process that is about to lock no step.
LEMMA ProperKeeps ==
  ASSUME Inv, AllProper, UNCHANGED call,
         \/ UNCHANGED proc
         \/ \E w \in Procs, t \in Tasks \cup {Idle} : Becomes(w, t) /\ t.op # "expire_locked"
  PROVE  Inv' /\ AllProper
<1>1. CallTypes'
  BY DEF Inv, CallTypes, call
<1>2. RowsFine'
  BY RowsStayFine
<1>3. WorkersFine'
  BY WorkersStay, IdleWorkersStay
<1> QED
  BY <1>1, <1>2, <1>3 DEF Inv

LEMMA EndsTask ==
  ASSUME NEW w \in Procs, Becomes(w, Idle)
  PROVE  \E v \in Procs, t \in Tasks \cup {Idle} : Becomes(v, t) /\ t.op # "expire_locked"
  BY DEF Idle

LEMMA SubmitKeeps ==
  ASSUME Inv, NEW w \in Procs, CommitSubmit(w)
  PROVE  Inv' /\ AllProper
<1> DEFINE p == proc[w].p
<1>1. p \in Proposals
  BY TaskShapes DEF CommitSubmit, Inv
<1>2. Becomes(w, Idle) /\ UNCHANGED call
  BY DEF CommitSubmit
<1>3. CASE UNCHANGED rows
  BY <1>2, <1>3, Untouched, EndsTask, ProperKeeps
<1>4. CASE prop[p].st = "draft" /\ Save(p, [prop[p] EXCEPT !.st = "submitted"], Path)
  <2> DEFINE new == [prop[p] EXCEPT !.st = "submitted"]
  <2>1. Fine(prop[p], inst[p]) /\ prop[p] \in Rows
    BY <1>1, <1>4, RowOf DEF Open
  <2>2. prop[p].step = 0 /\ prop[p].projects = 0 /\ \A s \in Steps : inst[p][s] # "active"
    BY <1>4, <2>1 DEF Fine
  <2>3. new \in Rows /\ new.st = "submitted" /\ new.step = 0 /\ new.projects = 0
    BY <2>1, <2>2 DEF Rows, Open
  <2>4. Path \in [Steps -> Statuses] /\ \A s \in Steps : Path[s] \in Ahead
    BY PathIsFine DEF Inv
  <2> HIDE DEF new, p
  <2>5. Fine(new, Path)
    BY <2>3, <2>4 DEF Fine, Closed
  <2>6. Save(p, new, Path)
    BY <1>4 DEF new
  <2>7. AllProper
    BY <1>1, <1>4, <2>2, <2>3, <2>5, <2>6, NothingLocked, SaveIsProper DEF Open
  <2> QED
    BY <1>2, <2>7, EndsTask, ProperKeeps
<1>5. CASE prop[p].st = "draft" /\ Started(p, Path)
  <2>1. Path \in [Steps -> Statuses] /\ (\A s \in Steps : Path[s] \in Ahead) /\ Pending(Path) # {}
    BY PathIsFine DEF Inv
  <2>2. AllProper
    BY <1>1, <1>5, <2>1, StartIsProper
  <2> QED
    BY <1>2, <2>2, EndsTask, ProperKeeps
<1> QED
  BY <1>3, <1>4, <1>5 DEF CommitSubmit

LEMMA DraftsKeep ==
  ASSUME Inv, NEW w \in Procs,
         \/ ProcessClosedRound(w) \/ CommitDestroy(w)
         \/ \E p \in Proposals : CancelDraft(w, p)
  PROVE  Inv' /\ AllProper
<1>1. CASE ProcessClosedRound(w)
  <2>1. Becomes(w, Idle) /\ UNCHANGED call
    BY <1>1 DEF ProcessClosedRound
  <2>2. ASSUME NEW p \in Proposals, prop[p].st = "draft"
        PROVE  /\ [prop[p] EXCEPT !.st = "canceled"] \in Rows
               /\ Fine([prop[p] EXCEPT !.st = "canceled"], inst[p])
               /\ [prop[p] EXCEPT !.st = "canceled"].st = "canceled"
    <3> DEFINE new == [prop[p] EXCEPT !.st = "canceled"]
    <3>1. prop[p] \in Rows /\ inst[p] \in [Steps -> Statuses] /\ Fine(prop[p], inst[p])
          /\ \A s \in Steps : inst[p][s] # "active"
      BY <2>2, RowOf DEF Open
    <3>2. prop[p].step = 0 /\ prop[p].projects = 0
      BY <2>2, <3>1 DEF Fine
    <3>3. new \in Rows /\ new.st = "canceled" /\ new.step = 0 /\ new.projects = 0
      BY <3>1, <3>2 DEF Rows, Closed
    <3> HIDE DEF new
    <3>4. new.st \in Closed \ {"accepted"}
      BY <3>3 DEF Closed
    <3>5. Fine(new, inst[p])
      BY <3>1, <3>3, <3>4, EndedIsFine
    <3> QED
      BY <3>3, <3>5 DEF new
  <2>3. /\ prop' = [p \in Proposals |->
              IF prop[p].st = "draft" THEN [prop[p] EXCEPT !.st = "canceled"] ELSE prop[p]]
        /\ UNCHANGED <<inst, overdue, lost>>
    BY <1>1 DEF ProcessClosedRound
  <2>4. \A p \in Proposals : prop'[p] \in Rows
    BY <2>2, <2>3, RowOf
  <2>5. prop' \in [Proposals -> Rows]
    BY <2>3, <2>4
  <2>6. RowTypes'
    BY <2>3, <2>5 DEF RowTypes, Inv, RowsFine
  <2>7. ASSUME NEW p \in Proposals PROVE Proper(p)
    <3>1. CASE prop[p].st # "draft"
      BY <2>3, <3>1 DEF Proper
    <3>2. CASE prop[p].st = "draft"
      <4>1. prop'[p] = [prop[p] EXCEPT !.st = "canceled"] /\ inst'[p] = inst[p]
        BY <2>3, <3>2
      <4>2. Fine(prop'[p], inst'[p])
        BY <2>2, <3>2, <4>1
      <4>3. NotLockedByOthers(p) /\ p \notin lost'
        BY <2>3, <3>2, NothingLocked, RowOf DEF Open
      <4> QED
        BY <3>2, <4>2, <4>3 DEF Proper, Open
    <3> QED
      BY <3>1, <3>2
  <2>8. AllProper
    BY <2>6, <2>7 DEF AllProper
  <2> QED
    BY <2>1, <2>8, EndsTask, ProperKeeps
<1>2. CASE CommitDestroy(w)
  <2> DEFINE p == proc[w].p
             new == [prop[p] EXCEPT !.st = "deleted", !.step = 0]
             i == [s \in Steps |-> "none"]
  <2>1. p \in Proposals /\ Becomes(w, Idle) /\ UNCHANGED call
    BY <1>2, TaskShapes DEF CommitDestroy, Inv
  <2>2. prop[p] \in Rows /\ (Fine(prop[p], inst[p]) \/ LostFine(prop[p], inst[p]))
        /\ (prop[p].st = "draft" => p \notin lost /\ Fine(prop[p], inst[p]))
    BY <2>1, RowOf DEF Open
  <2>3. LostFine(new, i)
    BY <2>2, StaleCopyLoses
  <2>0. CASE UNCHANGED rows
    BY <2>0, <2>1, Untouched, EndsTask, ProperKeeps
  <2> SUFFICES ASSUME prop[p].st # "deleted" PROVE Inv' /\ AllProper
    BY <1>2, <2>0 DEF CommitDestroy
  <2>4. prop' = [prop EXCEPT ![p] = new] /\ inst' = [inst EXCEPT ![p] = i]
        /\ overdue' \in [Proposals -> BOOLEAN] /\ lost' \in {lost, lost \cup {p}}
        /\ (prop[p].st # "draft" => p \in lost')
        /\ (prop[p].st = "draft" => lost' = lost)
    <3>1. prop' = [prop EXCEPT ![p].st = "deleted", ![p].step = 0]
          /\ overdue' = [overdue EXCEPT ![p] = FALSE]
          /\ inst' = [inst EXCEPT ![p] = i] /\ LostUnless(p, {"draft"})
      BY <1>2 DEF CommitDestroy
    <3>2. prop \in [Proposals -> Rows] /\ overdue \in [Proposals -> BOOLEAN]
      BY DEF Inv, RowsFine, RowTypes
    <3>3. prop' = [prop EXCEPT ![p] = new]
      BY <3>1, <3>2
    <3> HIDE DEF p, new, i
    <3>4. overdue' \in [Proposals -> BOOLEAN]
      BY <3>1, <3>2
    <3> QED
      BY <3>1, <3>3, <3>4 DEF LostUnless
  <2>5. \A v \in Procs : ~ (proc[v].op = "expire_locked" /\ proc[v].p = p)
    <3> SUFFICES ASSUME NEW v \in Procs, proc[v].op = "expire_locked", proc[v].p = p PROVE FALSE
      OBVIOUS
    <3>1. proc[v].s \in Steps
      BY TaskShapes DEF Inv
    <3> QED
      BY <1>2, <3>1 DEF CommitDestroy, StepLocked
  <2>6. new \in Rows /\ i \in [Steps -> Statuses] /\ new.st = "deleted" /\ new.step = 0
        /\ new.projects = prop[p].projects /\ \A s \in Steps : i[s] # "active"
    BY <2>2, <2>3 DEF LostFine, Rows
  <2> HIDE DEF p, new, i
  <2>7. RowTypes' /\ prop'[p] = new /\ inst'[p] = i /\ \A q \in Proposals \ {p} : Proper(q)
    BY <2>1, <2>4, <2>6, SavesRows
  <2>8. NotLockedByOthers(p)
    BY <2>5 DEF NotLockedByOthers
  <2>9. Proper(p)
    <3>1. CASE p \in lost'
      BY <2>3, <2>7, <2>8, <3>1 DEF Proper
    <3>2. CASE p \notin lost' /\ prop[p].st = "draft"
      <4>1. Fine(new, i)
        BY <2>2, <2>6, <3>2, EndedIsFine DEF Fine, Closed
      <4> QED
        BY <2>7, <2>8, <3>2, <4>1 DEF Proper, Open
    <3> QED
      BY <2>4, <3>1, <3>2
  <2>10. AllProper
    BY <2>7, <2>9 DEF AllProper
  <2> QED
    BY <2>1, <2>10, EndsTask, ProperKeeps
<1>3. ASSUME NEW p \in Proposals, CancelDraft(w, p) PROVE Inv' /\ AllProper
  <2> DEFINE left == IF proc[w].todo = {p} THEN Idle ELSE [proc[w] EXCEPT !.todo = @ \ {p}]
             t == IF prop[p].st = "deleted" THEN Idle ELSE left
  <2>1. proc[w].op = "cancel_drafts"
    BY <1>3 DEF CancelDraft
  <2>2. left \in Tasks \cup {Idle} /\ left.op # "expire_locked"
    BY <2>1, ListShape DEF Inv
  <2>3. t \in Tasks \cup {Idle} /\ t.op # "expire_locked"
    BY <2>2 DEF Idle
  <2>4. Becomes(w, t) /\ UNCHANGED <<call, inst, overdue>>
    BY <1>3 DEF CancelDraft
  <2> HIDE DEF left, t
  <2>5. CASE prop[p].st = "deleted"
    <3>1. UNCHANGED rows
      BY <1>3, <2>4, <2>5 DEF CancelDraft, rows
    <3> QED
      BY <2>3, <2>4, <3>1, Untouched, ProperKeeps
  <2>6. CASE prop[p].st # "deleted"
    <3> DEFINE new == [prop[p] EXCEPT !.st = "canceled"]
    <3>1. prop[p] \in Rows /\ inst[p] \in [Steps -> Statuses]
          /\ (Fine(prop[p], inst[p]) \/ LostFine(prop[p], inst[p]))
          /\ (prop[p].st = "draft" => p \notin lost /\ Fine(prop[p], inst[p]))
      BY RowOf DEF Open
    <3>2. LostFine(new, inst[p])
      BY <2>6, <3>1, StaleCopyLoses
    <3>3. prop' = [prop EXCEPT ![p] = new] /\ inst' = [inst EXCEPT ![p] = inst[p]]
          /\ overdue' \in [Proposals -> BOOLEAN] /\ lost' \in {lost, lost \cup {p}}
          /\ (prop[p].st \notin {"draft", "canceled"} => p \in lost')
          /\ (prop[p].st \in {"draft", "canceled"} => lost' = lost)
      BY <1>3, <2>4, <2>6 DEF CancelDraft, LostUnless, Inv, RowsFine, RowTypes
    <3>4. new \in Rows /\ new.st = "canceled" /\ new.step = prop[p].step
          /\ new.projects = prop[p].projects
      BY <3>1, <3>2 DEF LostFine, Rows
    <3>5. prop[p].st = "canceled" => new = prop[p]
      BY <3>1 DEF Rows
    <3> HIDE DEF new
    <3>6. RowTypes' /\ prop'[p] = new /\ inst'[p] = inst[p] /\ \A q \in Proposals \ {p} : Proper(q)
      BY <3>1, <3>3, <3>4, SavesRows
    <3>7. Proper(p)
      <4>1. CASE p \in lost'
        BY <3>2, <3>6, <4>1 DEF Proper
      <4>2. CASE p \notin lost' /\ prop[p].st = "draft"
        <5>1. \A s \in Steps : inst[p][s] # "active"
          BY <3>1, <4>2 DEF Fine
        <5>2. Fine(new, inst[p])
          BY <3>1, <3>4, <4>2, <5>1, EndedIsFine DEF Fine, Closed
        <5> QED
          BY <3>6, <4>2, <5>1, <5>2, NothingLocked DEF Proper, Open
      <4>3. CASE p \notin lost' /\ prop[p].st = "canceled"
        BY <3>3, <3>5, <3>6, <4>3 DEF Proper
      <4> QED
        BY <3>3, <4>1, <4>2, <4>3
    <3>8. AllProper
      BY <3>6, <3>7 DEF AllProper
    <3> QED
      BY <2>3, <2>4, <3>8, ProperKeeps
  <2> QED
    BY <2>5, <2>6
<1> QED
  BY <1>1, <1>2, <1>3

LEMMA StartKeeps ==
  ASSUME Inv, NEW w \in Procs, NEW p \in Proposals, StartHeld(w, p)
  PROVE  Inv' /\ AllProper
<1> DEFINE t == IF proc[w].todo = {p} THEN Idle ELSE [proc[w] EXCEPT !.todo = @ \ {p}]
<1>1. proc[w].op = "start_evaluation"
  BY DEF StartHeld
<1>2. t \in Tasks \cup {Idle} /\ t.op # "expire_locked"
  BY <1>1, ListShape DEF Inv
<1>3. Becomes(w, t) /\ UNCHANGED call
  BY DEF StartHeld
<1> HIDE DEF t
<1>4. AllProper
  <2>1. CASE UNCHANGED rows
    BY <2>1, Untouched
  <2>2. CASE prop[p].st = "submitted" /\ Pending(inst[p]) # {} /\ Started(p, inst[p])
    <3>1. inst[p] \in [Steps -> Statuses] /\ \A s \in Steps : inst[p][s] \in Ahead
      BY <2>2, RowOf DEF Fine, Open
    <3> QED
      BY <2>2, <3>1, StartIsProper
  <2> QED
    BY <2>1, <2>2 DEF StartHeld
<1> QED
  BY <1>2, <1>3, <1>4, ProperKeeps

\* Where a proposal, lost or not, has an active step.
LEMMA ActiveRow ==
  ASSUME Inv, NEW p \in Proposals, NEW s \in Steps, inst[p][s] = "active"
  PROVE  /\ prop[p].projects = 0
         /\ \A t \in Steps : (t < s => inst[p][t] \in Passed) /\ (t > s => inst[p][t] \in Ahead)
         /\ \A t \in Steps : inst[p][t] = "active" => t = s
         /\ p \notin lost => prop[p].st = "in_review" /\ prop[p].step = s
         /\ p \in lost => prop[p].st \in Closed \ {"accepted"}
<1>1. CASE p \in lost
  <2>1. LostFine(prop[p], inst[p])
    BY <1>1, RowOf
  <2>2. /\ prop[p].projects = 0
        /\ \A t \in Steps : (t < s => inst[p][t] \in Passed) /\ (t > s => inst[p][t] \in Ahead)
    BY <2>1 DEF LostFine
  <2>3. \A t \in Steps : inst[p][t] = "active" => t = s
    BY <2>2, StepsAreNumbers DEF Passed, Ahead
  <2> QED
    BY <1>1, <2>1, <2>2, <2>3 DEF LostFine
<1>2. CASE p \notin lost
  <2>1. Fine(prop[p], inst[p])
    BY <1>2, RowOf
  <2>2. prop[p].st = "in_review" /\ prop[p].step = s /\ \A t \in Steps : inst[p][t] = "active" => t = s
    BY <2>1, ActiveIsStep
  <2> QED
    BY <1>2, <2>1, <2>2 DEF Fine
<1> QED
  BY <1>1, <1>2

\* The step a worker is about to decide, and nobody has locked to expire it.
LEMMA DecidedStep ==
  ASSUME Inv, NEW w \in Procs, proc[w].op = "decide_locked",
         ~StepLocked(proc[w].p, proc[w].s), StillActive(proc[w].p, proc[w].s)
  PROVE  /\ proc[w].p \in Proposals /\ proc[w].s \in Steps /\ proc[w].allocated = FALSE
         /\ inst[proc[w].p][proc[w].s] = "active" /\ NotLockedByOthers(proc[w].p)
<1> DEFINE p == proc[w].p  s == proc[w].s
<1>1. p \in Proposals /\ s \in Steps /\ proc[w].allocated = FALSE
  BY TaskShapes DEF Inv
<1>2. inst[p][s] = "active"
  BY DEF StillActive
<1>3. \A t \in Steps : inst[p][t] = "active" => t = s
  BY <1>1, <1>2, ActiveRow
<1>4. ASSUME NEW v \in Procs, proc[v].op = "expire_locked", proc[v].p = p PROVE FALSE
  <2>1. inst[p][proc[v].s] = "active" /\ proc[v].s \in Steps
    BY <1>4, TaskShapes DEF Inv, WorkersFine, ExpiryHolds
  <2>2. proc[v].s = s
    BY <1>3, <2>1
  <2> QED
    BY <1>4, <2>2 DEF StepLocked
<1> QED
  BY <1>1, <1>2, <1>4 DEF NotLockedByOthers

\* A lost proposal whose active step is completed or expired moves on.
LEMMA LostMoveIsProper ==
  ASSUME Inv, NEW p \in lost, NEW s \in Steps, inst[p][s] = "active",
         NEW i \in [Steps -> Statuses], i[s] \in Passed,
         \A t \in Steps \ {s} : i[t] = inst[p][t],
         NEW left, left = {t \in Pending(i) : t > s}, left # {},
         Save(p, [prop[p] EXCEPT !.step = Min(left)], [i EXCEPT ![Min(left)] = "active"]),
         NotLockedByOthers(p)
  PROVE  AllProper
<1>1. p \in Proposals
  BY DEF Inv, RowsFine, RowTypes
<1>2. prop[p] \in Rows /\ prop[p].projects = 0 /\ prop[p].st \in Closed /\ prop[p].st # "accepted"
      /\ \A t \in Steps : (t < s => inst[p][t] \in Passed) /\ (t > s => inst[p][t] \in Ahead)
  BY <1>1, RowOf, ActiveRow
<1>3. \A t \in Steps : (t <= s => i[t] \in Passed) /\ (t > s => i[t] \in Ahead)
  BY <1>2, StepsAreNumbers
<1>4. LostFine([prop[p] EXCEPT !.step = Min(left)], [i EXCEPT ![Min(left)] = "active"])
  BY <1>2, <1>3, LostMovesOn
<1> QED
  BY <1>4, LostIsProper

LEMMA CompleteKeeps ==
  ASSUME Inv, NEW w \in Procs, CompleteStep(w)
  PROVE  Inv' /\ AllProper
<1> DEFINE p == proc[w].p  s == proc[w].s  i == [inst[p] EXCEPT ![s] = "completed"]
<1>1. Becomes(w, Idle) /\ UNCHANGED call
  BY DEF CompleteStep
<1>2. /\ p \in Proposals /\ s \in Steps /\ proc[w].allocated = FALSE
      /\ inst[p][s] = "active" /\ NotLockedByOthers(p)
  BY DecidedStep DEF CompleteStep
<1>3. /\ prop[p] \in Rows /\ inst[p] \in [Steps -> Statuses]
      /\ prop[p].projects = 0
      /\ \A t \in Steps : (t < s => inst[p][t] \in Passed) /\ (t > s => inst[p][t] \in Ahead)
      /\ \A t \in Steps : inst[p][t] = "active" => t = s
      /\ p \notin lost => prop[p].st = "in_review" /\ prop[p].step = s
      /\ p \in lost => prop[p].st \in Closed \ {"accepted"}
  BY <1>2, RowOf, ActiveRow
<1>4. i \in [Steps -> Statuses] /\ i[s] = "completed" /\ \A t \in Steps \ {s} : i[t] = inst[p][t]
  BY <1>2, <1>3 DEF Statuses
<1>5. Save(p, prop[p], i) \/ AdvanceToNext(p, i, s, FALSE)
  BY <1>2 DEF CompleteStep
<1> HIDE DEF i, p, s
<1>6. \A t \in Steps : (t < s => i[t] \in Passed) /\ (t > s => i[t] \in Ahead)
  BY <1>2, <1>3, <1>4, StepsAreNumbers
<1>7. AllProper
  <2>1. CASE Save(p, prop[p], i) /\ p \notin lost
    <3>1. Fine(prop[p], i)
      BY <1>2, <1>3, <1>4, <1>6, <2>1 DEF Fine, Closed
    <3> QED
      BY <1>2, <1>3, <2>1, <3>1, SaveIsProper DEF Open
  <2>2. CASE Save(p, prop[p], i) /\ p \in lost
    <3>1. \A t \in Steps : i[t] # "active"
      BY <1>3, <1>4
    <3>2. LostFine(prop[p], i)
      BY <1>3, <1>4, <2>2, <3>1, LostEnds
    <3> QED
      BY <1>2, <2>2, <3>2, LostIsProper
  <2>3. CASE AdvanceToNext(p, i, s, FALSE) /\ p \notin lost
    BY <1>2, <1>3, <1>4, <2>3, AdvanceIsProper
  <2>4. CASE AdvanceToNext(p, i, s, FALSE) /\ p \in lost
    <3> DEFINE left == {t \in Pending(i) : t > s}
    <3>1. CASE left = {}
      <4>1. LostFine(Accepted(prop[p], FALSE), i)
        BY <1>2, <1>3, <1>4, <1>6, <3>1, LostIsAccepted
      <4>2. Save(p, Accepted(prop[p], FALSE), i)
        BY <2>4, <3>1 DEF AdvanceToNext
      <4> QED
        BY <1>2, <2>4, <4>1, <4>2, LostIsProper
    <3>2. CASE left # {}
      <4>1. Save(p, [prop[p] EXCEPT !.step = Min(left)], [i EXCEPT ![Min(left)] = "active"])
        BY <2>4, <3>2 DEF AdvanceToNext
      <4>2. i[s] \in Passed
        BY <1>4 DEF Passed
      <4>3. left = {t \in Pending(i) : t > s}
        OBVIOUS
      <4> HIDE DEF left
      <4> QED
        BY <1>2, <1>4, <2>4, <3>2, <4>1, <4>2, <4>3, LostMoveIsProper
    <3> QED
      BY <3>1, <3>2
  <2> QED
    BY <1>5, <2>1, <2>2, <2>3, <2>4
<1> QED
  BY <1>1, <1>7, EndsTask, ProperKeeps

LEMMA RefuseKeeps ==
  ASSUME Inv, NEW w \in Procs, NEW outcome \in {"declined", "rejected"}, RefuseStep(w, outcome)
  PROVE  Inv' /\ AllProper
<1> DEFINE p == proc[w].p  s == proc[w].s  i == [inst[p] EXCEPT ![s] = "refused"]
           st == IF s = Award /\ outcome = "declined" THEN "canceled" ELSE "rejected"
           row == [prop[p] EXCEPT !.step = 0, !.st = st]
<1>1. Becomes(w, Idle) /\ UNCHANGED call
  BY DEF RefuseStep
<1>2. p \in Proposals /\ s \in Steps /\ inst[p][s] = "active" /\ NotLockedByOthers(p)
  BY DecidedStep DEF RefuseStep
<1>3. /\ prop[p] \in Rows /\ prop[p].projects = 0 /\ inst[p] \in [Steps -> Statuses]
      /\ \A t \in Steps : inst[p][t] = "active" => t = s
      /\ p \notin lost => prop[p].st = "in_review"
  BY <1>2, RowOf, ActiveRow
<1>4. i \in [Steps -> Statuses] /\ i[s] = "refused" /\ \A t \in Steps : i[t] # "active"
  BY <1>2, <1>3 DEF Statuses
<1>5. st \in Closed \ {"accepted"} /\ (st \in {"canceled", "deleted"} => s = Award)
  BY DEF Closed
<1>6. Save(p, row, i)
  BY DEF RefuseStep
<1>7. row \in Rows /\ row.st = st /\ row.step = 0 /\ row.projects = 0
  <2> HIDE DEF st
  <2>1. 0 \in 0..LastStep
    BY StepsAreNumbers
  <2> QED
    BY <1>3, <1>5, <2>1 DEF Rows
<1> HIDE DEF row, st, i, p, s
<1>8. AllProper
  <2>1. CASE p \in lost
    <3>1. LostFine(row, i)
      BY <1>4, <1>5, <1>7, LostEnds
    <3> QED
      BY <1>2, <1>6, <2>1, <3>1, LostIsProper
  <2>2. CASE p \notin lost
    BY <1>2, <1>3, <1>4, <1>5, <1>6, <1>7, <2>2, EndIsProper DEF Open
  <2> QED
    BY <2>1, <2>2
<1> QED
  BY <1>1, <1>8, EndsTask, ProperKeeps

LEMMA AdvanceKeeps ==
  ASSUME Inv, NEW p \in Proposals, AdvanceStep(p)
  PROVE  Inv' /\ AllProper
<1>1. prop[p].st = "in_review" /\ UNCHANGED <<call, proc>>
  BY DEF AdvanceStep
<1>2. Fine(prop[p], inst[p]) /\ inst[p] \in [Steps -> Statuses]
  BY <1>1, RowOf DEF Open
<1>3. prop[p].step \in Steps /\ prop[p].projects = 0 /\ inst[p][prop[p].step] = "completed"
  BY <1>1, <1>2 DEF Fine, AdvanceStep, AwaitsAdvance, Parked
<1>4. \A s \in Steps : inst[p][s] # "active"
  BY <1>2, <1>3, ActiveIsStep
<1>5. AdvanceToNext(p, inst[p], prop[p].step, FALSE)
  <2>1. (prop[p].projects > 0) = FALSE
    BY <1>3
  <2> QED
    BY <2>1 DEF AdvanceStep
<1>6. AllProper
  <2> DEFINE i == inst[p]
  <2>1. i \in [Steps -> Statuses] /\ i[prop[p].step] = "completed"
        /\ AdvanceToNext(p, i, prop[p].step, FALSE)
        /\ \A t \in Steps \ {prop[p].step} : i[t] = inst[p][t]
    BY <1>2, <1>3, <1>5
  <2>2. NotLockedByOthers(p)
    BY <1>4, NothingLocked
  <2> HIDE DEF i
  <2> QED
    BY <1>1, <2>1, <2>2, AdvanceIsProper
<1> QED
  BY <1>1, <1>6, ProperKeeps

LEMMA ExpireKeeps ==
  ASSUME Inv, NEW w \in Procs, ExpireStep(w)
  PROVE  Inv' /\ AllProper
<1> DEFINE p == proc[w].p  s == proc[w].s  i == [inst[p] EXCEPT ![s] = "expired"]
           left == {t \in Pending(i) : t > s}
           row == [prop[p] EXCEPT !.st = "rejected", !.step = 0]
<1>1. Becomes(w, Idle) /\ UNCHANGED call /\ proc[w].op = "expire_locked"
  BY DEF ExpireStep
<1>2. p \in Proposals /\ s \in Steps /\ inst[p][s] = "active"
  BY <1>1, TaskShapes DEF Inv, WorkersFine, ExpiryHolds
<1>3. /\ prop[p] \in Rows /\ inst[p] \in [Steps -> Statuses] /\ prop[p].projects = 0
      /\ p \notin lost => prop[p].st = "in_review" /\ prop[p].step = s
      /\ \A t \in Steps : inst[p][t] = "active" => t = s
  BY <1>2, RowOf, ActiveRow
<1>4. NotLockedByOthers(p)
  <2> SUFFICES ASSUME NEW v \in Procs, proc[v].op = "expire_locked", proc[v].p = p
               PROVE  v = w
    BY <1>1 DEF Becomes, Inv, WorkersFine, NotLockedByOthers
  <2>1. proc[v].s = s
    BY <1>3, TaskShapes DEF Inv, WorkersFine, ExpiryHolds
  <2> QED
    BY <1>1, <2>1 DEF Inv, WorkersFine, ExpiryHolds
<1>5. /\ i \in [Steps -> Statuses] /\ i[s] = "expired"
      /\ \A t \in Steps \ {s} : i[t] = inst[p][t]
  BY <1>2, <1>3 DEF Statuses
<1>6. CASE left = {}
  <2>1. Save(p, row, i)
    BY <1>6 DEF ExpireStep
  <2>2. row \in Rows /\ row.st = "rejected" /\ row.step = 0 /\ row.projects = 0
    <3>1. 0 \in 0..LastStep /\ "rejected" \in Open \cup Closed
      BY StepsAreNumbers DEF Closed
    <3> QED
      BY <1>3, <3>1 DEF Rows
  <2>3. \A t \in Steps : i[t] # "active"
    BY <1>3, <1>5
  <2> HIDE DEF row, i, left, p, s
  <2>4. CASE p \in lost
    <3>1. LostFine(row, i)
      BY <1>5, <2>2, <2>3, LostEnds DEF Closed
    <3>2. AllProper
      BY <1>4, <2>1, <2>4, <3>1, LostIsProper
    <3> QED
      BY <1>1, <3>2, EndsTask, ProperKeeps
  <2>5. CASE p \notin lost
    <3>1. AllProper
      BY <1>2, <1>3, <1>4, <1>5, <2>1, <2>2, <2>3, <2>5, EndIsProper DEF Open, Closed
    <3> QED
      BY <1>1, <3>1, EndsTask, ProperKeeps
  <2> QED
    BY <2>4, <2>5
<1>7. CASE left # {}
  <2>1. Save(p, [prop[p] EXCEPT !.step = Min(left)], [i EXCEPT ![Min(left)] = "active"])
    BY <1>7 DEF ExpireStep
  <2>2. i[s] \in Passed /\ left = {t \in Pending(i) : t > s}
    BY <1>5 DEF Passed
  <2> HIDE DEF i, left, p, s
  <2>3. AllProper
    <3>1. CASE p \in lost
      BY <1>2, <1>4, <1>5, <1>7, <2>1, <2>2, <3>1, LostMoveIsProper
    <3>2. CASE p \notin lost
      BY <1>2, <1>3, <1>4, <1>5, <1>7, <2>1, <2>2, <3>2, ActivateIsProper
    <3> QED
      BY <3>1, <3>2
  <2> QED
    BY <1>1, <2>3, EndsTask, ProperKeeps
<1> QED
  BY <1>6, <1>7

\* A sweep locks a step of its own.
LEMMA LockKeeps ==
  ASSUME Inv, NEW w \in Procs, NEW p \in Proposals, NEW s \in Steps, LockOverdueStep(w, p, s)
  PROVE  Inv' /\ AllProper
<1> DEFINE t == [op |-> "expire_locked", p |-> p, s |-> s]
<1>1. proc[w] = Idle /\ inst[p][s] = "active" /\ ~StepLocked(p, s) /\ UNCHANGED <<call, rows>>
  BY DEF LockOverdueStep
<1>2. proc' = [proc EXCEPT ![w] = t] /\ t \in Tasks
  BY DEF LockOverdueStep, Becomes, Tasks
<1>3. AllProper
  BY <1>1, Untouched
<1>4. RowsFine' /\ CallTypes'
  BY <1>1, <1>3, RowsStayFine DEF call, CallTypes, Inv
<1>5. proc' \in [Procs -> Tasks \cup {Idle}]
      /\ \A v \in Procs : proc'[v] = IF v = w THEN t ELSE proc[v]
  BY <1>2 DEF Inv, WorkersFine
<1>6. inst' = inst
  BY <1>1 DEF rows
<1>7. \A v \in Procs : ~ (proc[v].op = "expire_locked" /\ proc[v].p = p /\ proc[v].s = s)
  BY <1>1 DEF StepLocked
<1>8. ExpiryHolds'
  <2> SUFFICES ASSUME NEW u \in Procs, proc'[u].op = "expire_locked"
               PROVE  /\ inst[proc'[u].p][proc'[u].s] = "active"
                      /\ \A v \in Procs : proc'[v].op = "expire_locked" /\ proc'[v].p = proc'[u].p
                                            /\ proc'[v].s = proc'[u].s => v = u
    BY <1>6 DEF ExpiryHolds
  <2>1. CASE u = w
    BY <1>1, <1>5, <1>7, <2>1
  <2>2. CASE u # w
    BY <1>5, <1>7, <2>2 DEF Inv, WorkersFine, ExpiryHolds
  <2> QED
    BY <2>1, <2>2
<1> QED
  BY <1>3, <1>4, <1>5, <1>8 DEF Inv, WorkersFine

\* A process takes up a task, and no proposal is touched.
LEMMA BeginsKeep ==
  ASSUME Inv, NEW w \in Procs, NEW p \in Proposals,
         BeginSubmit(w, p) \/ BeginDestroy(w, p) \/ BeginDecide(w, p)
  PROVE  Inv' /\ AllProper
<1>1. UNCHANGED <<call, rows>>
  BY DEF BeginSubmit, BeginDestroy, BeginDecide
<1>2. CallTypes'
  BY <1>1 DEF call, CallTypes, Inv
<1>3. CASE BeginSubmit(w, p) \/ BeginDestroy(w, p)
  <2>1. PICK o \in {"submit", "destroy"} : Becomes(w, [op |-> o, p |-> p])
    BY <1>3 DEF BeginSubmit, BeginDestroy
  <2>2. [op |-> o, p |-> p] \in Tasks /\ [op |-> o, p |-> p].op # "expire_locked"
    BY DEF Tasks
  <2> QED
    BY <1>1, <1>2, <2>1, <2>2, ElsewhereKeeps
<1>4. CASE BeginDecide(w, p)
  <2>1. prop[p].st = "in_review"
        /\ Becomes(w, [op |-> "decide", p |-> p, s |-> prop[p].step, allocated |-> prop[p].projects > 0])
    BY <1>4 DEF BeginDecide
  <2>2. prop[p].step \in Steps /\ prop[p].projects = 0
    BY <2>1, RowOf DEF Fine, Open
  <2>3. (prop[p].projects > 0) = FALSE
    BY <2>2
  <2> DEFINE t == [op |-> "decide", p |-> p, s |-> prop[p].step, allocated |-> FALSE]
  <2>4. Becomes(w, t)
    BY <2>1, <2>3, Zenon
  <2>5. t \in Tasks /\ t.op # "expire_locked"
    BY <2>2 DEF Tasks
  <2> HIDE DEF t
  <2> QED
    BY <1>1, <1>2, <2>4, <2>5, ElsewhereKeeps
<1> QED
  BY <1>3, <1>4

LEMMA ProcessesKeep ==
  ASSUME Inv, NEW w \in Procs,
         \/ CloseRound(w) \/ BeginEditCall(w) \/ CommitEditCall(w)
         \/ ListDrafts(w) \/ ListHeld(w) \/ LockProposal(w) \/ DecisionRefused(w)
         \/ \E v \in Procs : EndDeadlock(v, w)
  PROVE  Inv' /\ AllProper
<1>1. UNCHANGED rows
  BY DEF CloseRound, BeginEditCall, CommitEditCall, ListDrafts, ListHeld, LockProposal,
         DecisionRefused, EndDeadlock
<1>2. CallTypes'
  BY TaskShapes DEF CloseRound, BeginEditCall, CommitEditCall, ListDrafts, ListHeld, LockProposal,
         DecisionRefused, EndDeadlock, Inv, CallTypes, call
<1>3. \E v \in Procs, t \in Tasks \cup {Idle} : Becomes(v, t) /\ t.op # "expire_locked"
  <2>1. CASE CloseRound(w)
    <3>1. [op |-> "close_round"] \in Tasks /\ [op |-> "close_round"].op # "expire_locked"
      BY DEF Tasks
    <3> QED
      BY <2>1, <3>1 DEF CloseRound
  <2>2. CASE BeginEditCall(w)
    <3>1. \A b \in BOOLEAN : /\ [op |-> "edit_call", atCutoff |-> b] \in Tasks
                             /\ [op |-> "edit_call", atCutoff |-> b].op # "expire_locked"
      BY DEF Tasks
    <3> DEFINE b == ~atCutoff
    <3>2. b \in BOOLEAN /\ Becomes(w, [op |-> "edit_call", atCutoff |-> b])
      BY <2>2 DEF BeginEditCall
    <3> HIDE DEF b
    <3> QED
      BY <3>1, <3>2
  <2>3. CASE ListDrafts(w) \/ ListHeld(w)
    <3>1. PICK o \in {"cancel_drafts", "start_evaluation"}, todo \in SUBSET Proposals :
            Becomes(w, [op |-> o, todo |-> todo])
      <4>1. CASE ListDrafts(w)
        <5>1. {p \in Proposals : prop[p].st = "draft"} \in SUBSET Proposals
          OBVIOUS
        <5> QED
          BY <4>1, <5>1, Zenon DEF ListDrafts
      <4>2. CASE ListHeld(w)
        <5>1. {p \in Proposals : Held(p)} \in SUBSET Proposals
          OBVIOUS
        <5> QED
          BY <4>2, <5>1, Zenon DEF ListHeld
      <4> QED
        BY <2>3, <4>1, <4>2
    <3>2. [op |-> o, todo |-> todo] \in Tasks /\ [op |-> o, todo |-> todo].op # "expire_locked"
      BY DEF Tasks
    <3> QED
      BY <3>1, <3>2
  <2>4. CASE LockProposal(w)
    <3> DEFINE t == [proc[w] EXCEPT !.op = "decide_locked"]
               Decisions == [op : {"decide", "decide_locked"}, p : Proposals, s : Steps,
                             allocated : {FALSE}]
    <3>1. proc[w] \in Decisions
      <4>1. proc[w] \in Tasks \cup {Idle} /\ proc[w].op = "decide"
        BY <2>4 DEF LockProposal, Inv, WorkersFine
      <4>2. proc[w] # Idle
        BY <4>1 DEF Idle
      <4> QED
        BY <4>1, <4>2 DEF Tasks
    <3>2. t \in Decisions /\ t.op # "expire_locked"
      BY <3>1
    <3>3. Becomes(w, t)
      BY <2>4 DEF LockProposal
    <3> HIDE DEF t
    <3> QED
      BY <3>2, <3>3 DEF Tasks
  <2>5. CASE CommitEditCall(w) \/ DecisionRefused(w) \/ \E v \in Procs : EndDeadlock(v, w)
    BY <2>5, EndsTask DEF CommitEditCall, DecisionRefused, EndDeadlock
  <2> QED
    BY <2>1, <2>2, <2>3, <2>4, <2>5
<1> QED
  BY <1>1, <1>2, <1>3, ElsewhereKeeps

\* The call and the clock.
LEMMA CallKeeps ==
  ASSUME Inv,
         \/ CutoffPasses \/ ExtendRound
         \/ \E s \in Optional : EditSteps(s)
         \/ \E s \in Parkable : EditTransitionMode(s)
  PROVE  Inv' /\ AllProper
<1>1. UNCHANGED <<rows, proc>>
  BY DEF CutoffPasses, ExtendRound, EditSteps, EditTransitionMode
<1>2. CallTypes'
  BY WorkflowAssumption DEF CutoffPasses, ExtendRound, EditSteps, EditTransitionMode, Inv, CallTypes
<1> QED
  BY <1>1, <1>2, ElsewhereKeeps

LEMMA DeadlineKeeps ==
  ASSUME Inv, NEW p \in Proposals, DeadlinePasses(p)
  PROVE  Inv' /\ AllProper
<1>1. UNCHANGED <<call, prop, inst, proc, lost>> /\ overdue' = [overdue EXCEPT ![p] = TRUE]
  BY DEF DeadlinePasses
<1>2. RowTypes'
  BY <1>1 DEF Inv, RowsFine, RowTypes
<1>3. AllProper
  BY <1>1, <1>2 DEF AllProper, Proper
<1> QED
  BY <1>1, <1>3, ProperKeeps

LEMMA StepKeeps ==
  ASSUME Inv, [Next]_vars
  PROVE  Inv' /\ AllProper
<1>1. CASE UNCHANGED vars
  <2>1. UNCHANGED rows /\ UNCHANGED proc /\ CallTypes'
    BY <1>1 DEF vars, rows, Inv, CallTypes
  <2> QED
    BY <2>1, ElsewhereKeeps
<1>2. ASSUME NEW w \in Procs, Proceed(w) PROVE Inv' /\ AllProper
  BY <1>2, SubmitKeeps, DraftsKeep, StartKeeps, ProcessesKeep DEF Proceed
<1>3. ASSUME NEW w \in Procs, Decide(w) PROVE Inv' /\ AllProper
  BY <1>3, CompleteKeeps, RefuseKeeps, ProcessesKeep DEF Decide
<1>4. ASSUME NEW w \in Procs, NEW p \in Proposals,
             \/ BeginSubmit(w, p) \/ BeginDestroy(w, p) \/ BeginDecide(w, p)
             \/ \E s \in Steps : LockOverdueStep(w, p, s)
      PROVE  Inv' /\ AllProper
  BY <1>4, BeginsKeep, LockKeeps
<1> QED
  BY <1>1, <1>2, <1>3, <1>4, CallKeeps, AdvanceKeeps, DeadlineKeeps, ProcessesKeep, ExpireKeeps DEF Next

LEMMA InitHolds ==
  ASSUME Init
  PROVE  Inv
<1>1. CallTypes
  BY WorkflowAssumption, StepsAreNumbers DEF Init, CallTypes, Steps, Decision
<1>2. RowsFine
  <2>1. [st |-> "draft", step |-> 0, projects |-> 0] \in Rows
    BY StepsAreNumbers DEF Rows, Open
  <2>2. [s \in Steps |-> "none"] \in [Steps -> Statuses]
    BY DEF Statuses
  <2>3. RowTypes
    BY <2>1, <2>2 DEF Init, RowTypes
  <2>4. ASSUME NEW p \in Proposals PROVE Fine(prop[p], inst[p])
    <3>1. /\ prop[p] = [st |-> "draft", step |-> 0, projects |-> 0]
          /\ inst[p] = [s \in Steps |-> "none"]
      BY DEF Init
    <3> QED
      BY <2>1, <2>2, <3>1 DEF Fine, Closed
  <2>5. lost = {}
    BY DEF Init
  <2> QED
    BY <2>3, <2>4, <2>5 DEF RowsFine
<1>3. WorkersFine
  BY DEF Init, WorkersFine, ExpiryHolds, Idle
<1> QED
  BY <1>1, <1>2, <1>3 DEF Inv

-----------------------------------------------------------------------------
(***************************************************************************)
(* The properties.                                                         *)
(***************************************************************************)

LEMMA InvIsTyped ==
  ASSUME Inv
  PROVE  TypeOK
<1>1. \A w \in Procs : proc[w].op \in {"decide", "decide_locked", "expire_locked"} => proc[w].s \in Steps
  BY TaskShapes DEF Inv
<1> QED
  BY <1>1 DEF Inv, CallTypes, RowsFine, RowTypes, Rows, TypeOK

LEMMA InvStands ==
  ASSUME Inv
  PROVE  StandsAtOneStep
<1> SUFFICES ASSUME NEW p \in Proposals \ lost
             PROVE IF prop[p].st = "in_review"
                     THEN prop[p].step # 0 /\ (Active(inst[p]) = {prop[p].step} \/
                                               (Active(inst[p]) = {} /\ Parked(p)))
                     ELSE prop[p].step = 0 /\ Active(inst[p]) = {}
  BY DEF StandsAtOneStep
<1>1. Fine(prop[p], inst[p]) /\ prop[p] \in Rows
  BY RowOf
<1>2. CASE prop[p].st = "in_review"
  <2>1. prop[p].step \in Steps /\ inst[p][prop[p].step] \in {"active", "completed"}
    BY <1>1, <1>2 DEF Fine
  <2>2. prop[p].step # 0
    BY <2>1, StepsAreNumbers
  <2>3. \A s \in Steps : inst[p][s] = "active" => s = prop[p].step
    BY <1>1, ActiveIsStep
  <2>4. CASE inst[p][prop[p].step] = "active"
    BY <1>2, <2>1, <2>2, <2>3, <2>4 DEF Active
  <2>5. CASE inst[p][prop[p].step] = "completed"
    BY <1>2, <2>1, <2>2, <2>3, <2>5 DEF Active, Parked
  <2> QED
    BY <2>1, <2>4, <2>5
<1>3. CASE prop[p].st # "in_review"
  <2>1. Active(inst[p]) = {}
    BY <1>3, RowOf DEF Active
  <2>2. prop[p].step = 0
    BY <1>1, <1>3 DEF Fine, Rows, Open
  <2> QED
    BY <1>3, <2>1, <2>2
<1> QED
  BY <1>2, <1>3

\* The last step of a path that is done is the last one not skipped.
LEMMA PathIsEvaluated ==
  ASSUME NEW i \in [Steps -> Statuses], PathIsDone(i)
  PROVE  Evaluated(i)
<1> DEFINE S == {s \in Steps : i[s] # "skipped"}
<1>1. \A s \in Steps : i[s] \in Passed
  BY DEF PathIsDone
<1>2. PICK last \in Steps : i[last] = "completed" /\ \A s \in Steps : s > last => i[s] = "skipped"
  BY DEF PathIsDone
<1>3. last \in S /\ \A s \in S : s <= last
  BY <1>2, StepsAreNumbers
<1>4. \A s \in S : s \in Nat
  BY StepsAreNumbers
<1> HIDE DEF S
<1>5. \A x \in S : (\A y \in S : x >= y) => x = last
  BY <1>3, <1>4
<1>6. \E x \in S : \A y \in S : x >= y
  BY <1>3, <1>4
<1>7. Max(S) = last
  BY <1>5, <1>6 DEF Max
<1> QED
  BY <1>1, <1>2, <1>7 DEF S, Evaluated, Passed

LEMMA InvEvaluated ==
  ASSUME Inv
  PROVE  AcceptedWasEvaluated
<1> SUFFICES ASSUME NEW p \in Proposals
             PROVE  /\ prop[p].st = "accepted" => prop[p].projects = 1
                    /\ prop[p].projects = 1 /\ p \notin lost => prop[p].st = "accepted"
                    /\ prop[p].projects = 1 /\ prop[p].st # "deleted" => Evaluated(inst[p])
  BY DEF AcceptedWasEvaluated
<1>1. prop[p] \in Rows /\ inst[p] \in [Steps -> Statuses]
  BY RowOf
<1>2. CASE p \notin lost
  <2>1. Fine(prop[p], inst[p])
    BY <1>2, RowOf
  <2>2. prop[p].projects = 1 <=> prop[p].st = "accepted"
    BY <1>1, <2>1 DEF Fine, Rows, Open, Closed
  <2>3. prop[p].st = "accepted" => PathIsDone(inst[p])
    BY <2>1 DEF Fine
  <2> QED
    BY <1>1, <2>2, <2>3, PathIsEvaluated
<1>3. CASE p \in lost
  <2>1. LostFine(prop[p], inst[p])
    BY <1>3, RowOf
  <2>2. /\ prop[p].st = "accepted" => prop[p].projects = 1
        /\ prop[p].projects = 1 /\ prop[p].st # "deleted" => PathIsDone(inst[p])
    BY <2>1 DEF LostFine
  <2> QED
    BY <1>1, <1>3, <2>2, PathIsEvaluated
<1> QED
  BY <1>2, <1>3

LEMMA InvIsInvariant ==
  Spec => []Inv
<1>1. Init => Inv
  BY InitHolds
<1>2. Inv /\ [Next]_vars => Inv'
  BY StepKeeps
<1> QED
  BY <1>1, <1>2, PTL DEF Spec

\* Types hold, and a proposal never has two projects (allocate_proposal).
THEOREM TypeCorrect ==
  Spec => []TypeOK
<1>1. Inv => TypeOK
  BY InvIsTyped
<1> QED
  BY <1>1, InvIsInvariant, PTL

\* A proposal in review stands at one step, in whatever order people decide,
\* steps expire, sweeps run and the call is edited (workflow_service), unless a
\* stale copy of its draft was written over it.
THEOREM StandsSomewhere ==
  Spec => []StandsAtOneStep
<1>1. Inv => StandsAtOneStep
  BY InvStands
<1> QED
  BY <1>1, InvIsInvariant, PTL

\* A project is provisioned once, after every step of the path fixed at
\* submission, the last of them completed (_advance_to_next, expire_step); also
\* for a proposal that a stale copy was written over.
THEOREM EvaluatedOnce ==
  Spec => []AcceptedWasEvaluated
<1>1. Inv => AcceptedWasEvaluated
  BY InvEvaluated
<1> QED
  BY <1>1, InvIsInvariant, PTL

\* What was submitted is canceled only by the applicant who declines the award,
\* or by the one stale copy that is written over it (proposals_for_ended_rounds_
\* should_be_cancelled, destroy).
THEOREM SubmissionSurvives ==
  Spec => SubmissionIsKept
<1>1. Inv /\ [Next]_vars =>
        [\A p \in Proposals \ lost' :
           prop[p].st \in {"submitted", "in_review"} /\ prop'[p].st \in {"canceled", "deleted"}
             => inst'[p][Award] = "refused"]_vars
  BY StepKeeps DEF AllProper, Proper
<1> QED
  BY <1>1, InvIsInvariant, PTL DEF Spec, SubmissionIsKept

\* No request or sweep that read a proposal before it was decided changes the
\* decision (submit, complete_workflow_step, expire_step), but for those two.
THEOREM DecisionStands ==
  Spec => DecisionIsFinal
<1>1. Inv /\ [Next]_vars =>
        [\A p \in Proposals \ lost' :
           prop[p].st \in Closed => prop'[p] = prop[p] /\ inst'[p] = inst[p]]_vars
  BY StepKeeps DEF AllProper, Proper, Open, Closed
<1> QED
  BY <1>1, InvIsInvariant, PTL DEF Spec, DecisionIsFinal
=============================================================================
