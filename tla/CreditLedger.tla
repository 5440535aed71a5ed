---------------------------- MODULE CreditLedger ----------------------------
(***************************************************************************)
(* The credit of one organization, the allocations its projects hold out   *)
(* of it, and the ledger of their movements (waldur_mastermind/invoices).  *)
(*                                                                         *)
(* Closing a month draws the organization's invoice from its credit and    *)
(* writes one compensation item per project; re-applying first rolls the   *)
(* month back.  Credit also expires, earns affiliate fees, is paid out and *)
(* is edited by staff.  The monthly tasks, the fees and the payouts lock   *)
(* the credit row before they read it; the staff endpoints that apply or   *)
(* clear compensations and the generic edit do not.                        *)
(*                                                                         *)
(* Data abstracted: one invoice item per project and month, without tax or *)
(* discount (so an item and the movement it records are the same number),  *)
(* a fixed minimal consumption, one end date for every balance.  A ledger  *)
(* row is kept as its amount, added up by what the row is filed under.     *)
(***************************************************************************)
EXTENDS Integers, FiniteSets, FiniteSetsExt, SequencesExt

CONSTANTS
  Workers,     \* processes that run tasks and answer requests
  Projects,    \* projects of the organization
  LastMonth,   \* bound: the last month that is billed
  Cost,        \* Cost[m][p]: what month m costs project p
  EndMonth,    \* the credit's end date is the first day of this month
  Fee,         \* Fee[x]: the fee earned from x, an invoice of a referred customer
  Setups,      \* opening positions: [org, alloc, floor], see Init
  Amounts,     \* bound: withdrawable adjustments staff may enter
  Edits,       \* bound: values staff may type over the credit
  Occurs,      \* kinds of operations that run, a subset of Operations
  StaffAlone   \* whether unlocked staff requests run while all else is at rest

Org == "org"
NoOne == "no one"
Operations == {"expire", "close", "fee", "adjust", "apply", "clear", "edit"}
Unlocked == {"apply", "clear", "edit"}
Months == 1..LastMonth

ASSUME ScopeAssumption ==
  /\ LastMonth \in Nat \ {0} /\ EndMonth \in Nat
  /\ Cost \in [Months -> [Projects -> Nat]]
  /\ Occurs \subseteq Operations /\ StaffAlone \in BOOLEAN
  /\ Org \notin Projects /\ IsFiniteSet(Projects) /\ NoOne \notin Workers

ASSUME AmountAssumption ==
  /\ Fee \in [DOMAIN Fee -> Nat]
  /\ Amounts \subseteq Int /\ Edits \subseteq Nat
  /\ \A s \in Setups : /\ s.org \in Nat /\ s.floor \in Nat
                       /\ s.alloc \in [DOMAIN s.alloc -> Nat]
                       /\ DOMAIN s.alloc \subseteq Projects

VARIABLES
  month,     \* the calendar month
  invoice,   \* the months with a pending invoice, and with a created one
  item,      \* item[m][p]: the compensation items of p on invoice m
  balance,   \* CustomerCredit.value and ProjectCredit.value
  floor,     \* minimal_consumption of each credit
  book,      \* what the ledger rows of each credit add up to
  accrued,   \* referred invoices with an AffiliateFeeAccrual
  lock,      \* who holds the row lock of the customer credit
  proc       \* what each worker is doing, with the copy it read

vars == <<month, invoice, item, balance, floor, book, accrued, lock, proc>>

-----------------------------------------------------------------------------
Idle == [op |-> "idle"]

Ready(w) ==
  /\ proc[w] = Idle
  /\ StaffAlone => \A x \in Workers : proc[x].op \notin Unlocked
Alone(w) == Ready(w) /\ (StaffAlone => \A x \in Workers : proc[x] = Idle)

Accounts == DOMAIN balance
Funded == Accounts \ {Org}      \* projects with a ProjectCredit

Total(f, S) == MapThenSumSet(LAMBDA p : f[p], S)
Least(a, b) == IF a < b THEN a ELSE b
Most(a, b) == IF a < b THEN b ELSE a

EmptyBook == [drawn |-> [m \in Months |-> 0], fees |-> 0, adjusted |-> 0, other |-> 0]

Init ==
  /\ \E s \in Setups :
       /\ balance = [a \in {Org} \cup DOMAIN s.alloc |->
                       IF a = Org THEN s.org ELSE s.alloc[a]]
       /\ floor = [a \in {Org} \cup DOMAIN s.alloc |-> IF a = Org THEN s.floor ELSE 0]
       /\ book = [a \in {Org} \cup DOMAIN s.alloc |->
                    [EmptyBook EXCEPT !.other = IF a = Org THEN s.org ELSE s.alloc[a]]]
  /\ month = 1
  /\ invoice = [pending |-> {1}, created |-> {}]
  /\ item = [m \in Months |-> [p \in Projects |-> 0]]
  /\ accrued = {}
  /\ lock = NoOne
  /\ proc = [w \in Workers |-> Idle]

\* What the ledger says of a credit, over all its rows.
Recorded(a) == Total(book[a].drawn, Months)
                 + book[a].fees + book[a].adjusted + book[a].other

\* CustomerCredit.withdrawable_balance for a credit of value v.
Earned == book[Org].fees + book[Org].adjusted
\* (mutation: not limited to the earnings)
WithdrawableValue(v) == Most(0, v)

Withdrawable(v) == Most(0, Least(Earned, v))

-----------------------------------------------------------------------------
(***************************************************************************)
(* MonthlyCompensation, as a function of the value it read.                *)
(***************************************************************************)

\* ProjectCredit.save refuses a value when the allocations exceed the
\* organization's credit.  As written, the new value itself counts only when
\* the other allocations add up to zero.
AllocationFits(p, value, others, org) ==
  LET sum == Total(others, DOMAIN others \ {p})
  IN (IF sum # 0 THEN sum ELSE value) <= org

\* The saves of several allocations, one after the other.
AllocationsSave(S, old, new, org) ==
  LET order == SetToSeq(S)
  IN \A i \in DOMAIN order :
       AllocationFits(order[i], new[order[i]],
         [p \in DOMAIN old |-> IF \E j \in 1..(i - 1) : order[j] = p
                                 THEN new[p] ELSE old[p]], org)

Alloc == [p \in Funded |-> balance[p]]

\* (mutation: the roll-back gives back the items and not the top-up)
RollsBackItems(v, m) ==
  [org |-> v + Total(item[m], Projects),
   alloc |-> [p \in Funded |-> Alloc[p] + item[m][p]],
   item |-> [p \in Projects |-> 0]]

\* (mutation: the roll-back leaves the allocations as they are)
KeepsAllocations(v, m) ==
  [org |-> v + Most(Total(item[m], Projects), floor[Org]),
   alloc |-> Alloc,
   item |-> [p \in Projects |-> 0]]

\* clear_compensations of month m, for a credit read as v.
RolledBack(v, m) ==
  [org |-> v + Most(Total(item[m], Projects), floor[Org]),
   alloc |-> [p \in Funded |-> Alloc[p] + item[m][p]],
   item |-> [p \in Projects |-> 0]]

RollbackSaves(v, m) ==
  AllocationsSave({p \in Funded : item[m][p] # 0}, Alloc, RolledBack(v, m).alloc,
                  RolledBack(v, m).org)

\* The cheapest items first, items of one price in either order.
ByPrice(m) ==
  CHOOSE s \in [1..Cardinality(Projects) -> Projects] :
    \A i, j \in DOMAIN s : i < j => s[i] # s[j] /\ Cost[m][s[i]] <= Cost[m][s[j]]

\* One item drawn: an allocation gives it to the project and the organization
\* pays along, an item without allocation is capped by the organization's
\* value.  The loop ends when that value is exactly zero.
DrawItem(m, c, p) ==
  IF c.org = 0 THEN c
  ELSE LET limit == IF p \in DOMAIN c.alloc THEN c.alloc[p] ELSE c.org
           draw == Least(Cost[m][p], limit)
       IN [org |-> c.org - draw,
           alloc |-> [q \in DOMAIN c.alloc |-> IF q = p THEN c.alloc[q] - draw
                                                         ELSE c.alloc[q]],
           item |-> [c.item EXCEPT ![p] = @ + draw]]

\* The positions the loop over the items goes through, from position c on.
Draws(m, c) ==
  LET d[i \in 0..Cardinality(Projects)] ==
        IF i = 0 THEN c ELSE DrawItem(m, d[i - 1], ByPrice(m)[i])
  IN d

\* The top-up to the minimal consumption; it leaves no item.
TopUp(v, drawn, minimal) ==
  IF minimal = 0 \/ drawn >= minimal THEN 0 ELSE Least(minimal - drawn, v)

\* calculate_current_compensations: position c, with nothing drawn for m yet.
Drawn(c, m) ==
  IF c.org = 0 THEN c
  ELSE LET fresh == [org |-> c.org, alloc |-> c.alloc, item |-> [p \in Projects |-> 0]]
           d == Draws(m, fresh)[Cardinality(Projects)]
       IN [org |-> d.org - TopUp(d.org, Total(d.item, Projects), floor[Org]),
           alloc |-> [p \in DOMAIN d.alloc |->
                        d.alloc[p] - TopUp(d.alloc[p], d.item[p], floor[p])],
           item |-> [p \in Projects |-> c.item[p] + d.item[p]]]

\* The position a worker starts from that read v and saw items of month m or not.
Cleared(v, m, saw) ==
  IF saw THEN RolledBack(v, m) ELSE [org |-> v, alloc |-> Alloc, item |-> item[m]]

ApplySaves(v, m, saw) ==
  LET c == Cleared(v, m, saw)
  IN /\ saw => RollbackSaves(v, m)
     /\ c.org # 0 => AllocationsSave(Funded, c.alloc, Drawn(c, m).alloc,
                                     IF saw THEN c.org ELSE balance[Org])

HasItems(m) == \E p \in Projects : item[m][p] # 0

-----------------------------------------------------------------------------
(***************************************************************************)
(* Reading and writing the credit row.                                     *)
(***************************************************************************)

\* (mutation: the query without select_for_update)
ReadsWithoutLock(w, copy) ==
  /\ proc' = [proc EXCEPT ![w] = copy]
  /\ UNCHANGED lock

\* A query under SELECT ... FOR UPDATE: it waits for the lock and then reads
\* the row; the copy goes with the worker.
ReadLocked(w, copy) ==
  /\ lock = NoOne
  /\ lock' = w
  /\ proc' = [proc EXCEPT ![w] = copy]

\* A plain query, as the staff endpoints make it.
ReadPlain(w, copy) ==
  /\ proc' = [proc EXCEPT ![w] = copy]
  /\ UNCHANGED lock

\* An UPDATE waits while another transaction holds the row; the worker's
\* transaction ends with it.
WriteRow(w, next) ==
  /\ lock \in {NoOne, w}
  /\ lock' = NoOne
  /\ proc' = [proc EXCEPT ![w] = next]

\* record_credit_transaction: the row of a save is the new value minus the
\* value the saved copy was loaded with.
Filed(a, field, delta) == [book[a] EXCEPT ![field] = @ + delta]

\* The saves that end in position c of month m, from a copy loaded as v.
SavePosition(c, m, v) ==
  /\ balance' = [a \in Accounts |-> IF a = Org THEN c.org ELSE c.alloc[a]]
  /\ item' = [item EXCEPT ![m] = c.item]
  /\ book' = [a \in Accounts |->
                [book[a] EXCEPT !.drawn[m] =
                   @ + (IF a = Org THEN c.org - v ELSE c.alloc[a] - balance[a])]]

-----------------------------------------------------------------------------
(***************************************************************************)
(* The monthly task: overdue credit first, then every pending month.       *)
(***************************************************************************)

\* The calendar; every month opens an invoice.
NextMonth ==
  /\ month <= LastMonth
  /\ month' = month + 1
  /\ invoice' = [invoice EXCEPT !.pending = @ \cup ({month + 1} \cap Months)]
  /\ UNCHANGED <<item, balance, floor, book, accrued, lock, proc>>

\* set_to_zero_overdue_credits, on the first day of the month.
Overdue == EndMonth < month /\ \E a \in Accounts : balance[a] # 0

StartTask(w) ==
  /\ "close" \in Occurs /\ month > 1
  /\ Ready(w)
  /\ IF "expire" \in Occurs /\ Overdue
       THEN ReadLocked(w, [op |-> "expire", org |-> balance[Org]])
       ELSE /\ proc' = [proc EXCEPT ![w] =
                         [op |-> "listed", todo |-> invoice.pending \ {month}]]
            /\ UNCHANGED lock
  /\ UNCHANGED <<month, invoice, item, balance, floor, book, accrued>>

\* Each credit in a savepoint of its own: an allocation whose save is refused
\* stays as it is.
CommitExpire(w) ==
  LET zero == [p \in Funded |-> IF AllocationFits(p, 0, Alloc, 0) THEN 0 ELSE Alloc[p]]
  IN /\ proc[w].op = "expire"
     /\ WriteRow(w, [op |-> "listed", todo |-> invoice.pending \ {month}])
     /\ balance' = [a \in Accounts |-> IF a = Org THEN 0 ELSE zero[a]]
     /\ book' = [a \in Accounts |->
                   Filed(a, "other", balance'[a] - (IF a = Org THEN proc[w].org
                                                              ELSE balance[a]))]
     /\ UNCHANGED <<month, invoice, item, floor, accrued>>

\* process_invoice_credits for an invoice of the list, which another run of
\* the task may have closed since.
BeginClose(w, m) ==
  /\ proc[w].op = "listed" /\ m \in proc[w].todo
  /\ ReadLocked(w, [op |-> "close", m |-> m, todo |-> proc[w].todo \ {m},
                    org |-> balance[Org]])
  /\ UNCHANGED <<month, invoice, item, balance, floor, book, accrued>>

\* (mutation: the invoice closes and leaves no trace among the created ones)
ClosesNothing(w) ==
  LET m == proc[w].m
      v == proc[w].org
  IN /\ proc[w].op = "close"
     /\ WriteRow(w, [op |-> "listed", todo |-> proc[w].todo])
     /\ SavePosition(Drawn(Cleared(v, m, HasItems(m)), m), m, v)
     /\ invoice' = [invoice EXCEPT !.pending = @ \ {m}]
     /\ UNCHANGED <<month, floor, accrued>>

CommitClose(w) ==
  LET m == proc[w].m
      v == proc[w].org
  IN /\ proc[w].op = "close"
     /\ WriteRow(w, [op |-> "listed", todo |-> proc[w].todo])
     /\ IF ApplySaves(v, m, HasItems(m))
          THEN /\ SavePosition(Drawn(Cleared(v, m, HasItems(m)), m), m, v)
               /\ invoice' = [pending |-> invoice.pending \ {m},
                              created |-> invoice.created \cup {m}]
          ELSE UNCHANGED <<balance, item, book, invoice>>  \* logged, next month again
     /\ UNCHANGED <<month, floor, accrued>>

EndTask(w) ==
  /\ proc[w].op = "listed" /\ proc[w].todo = {}
  /\ proc' = [proc EXCEPT ![w] = Idle]
  /\ UNCHANGED <<month, invoice, item, balance, floor, book, accrued, lock>>

-----------------------------------------------------------------------------
(***************************************************************************)
(* Affiliate fees and withdrawals.                                         *)
(***************************************************************************)

\* accrue_affiliate_fee looks for an accrual before it locks the credit.
CheckFee(w, x) ==
  /\ "fee" \in Occurs
  /\ Ready(w)
  /\ x \notin accrued
  /\ proc' = [proc EXCEPT ![w] = [op |-> "unaccrued", x |-> x]]
  /\ UNCHANGED <<month, invoice, item, balance, floor, book, accrued, lock>>

BeginFee(w) ==
  /\ proc[w].op = "unaccrued"
  /\ ReadLocked(w, [op |-> "fee", x |-> proc[w].x, org |-> balance[Org]])
  /\ UNCHANGED <<month, invoice, item, balance, floor, book, accrued>>

\* (mutation: accruals without the unique constraint)
FeeIsAny(x) == x \in DOMAIN Fee

\* The accrual is unique per link and invoice: a second one is refused.
FeeIsNew(x) == x \notin accrued

CommitFee(w) ==
  LET x == proc[w].x
  IN /\ proc[w].op = "fee"
     /\ WriteRow(w, Idle)
     /\ IF FeeIsNew(x)
          THEN /\ accrued' = accrued \cup {x}
               /\ balance' = [balance EXCEPT ![Org] = proc[w].org + Fee[x]]
               /\ book' = [book EXCEPT ![Org] = Filed(Org, "fees", Fee[x])]
          ELSE UNCHANGED <<accrued, balance, book>>
     /\ UNCHANGED <<month, invoice, item, floor>>

\* adjust_withdrawable: the lock, then the checks, then the write.
BeginAdjust(w, d) ==
  /\ "adjust" \in Occurs
  /\ Ready(w)
  /\ ReadLocked(w, [op |-> "adjust", d |-> d, org |-> balance[Org],
                    earned |-> Withdrawable(balance[Org])])
  /\ UNCHANGED <<month, invoice, item, balance, floor, book, accrued>>

CommitAdjust(w) ==
  LET d == proc[w].d
      v == proc[w].org
  IN /\ proc[w].op = "adjust"
     /\ WriteRow(w, Idle)
     /\ IF v + d >= 0 /\ (d < 0 => -d <= proc[w].earned)
          THEN /\ balance' = [balance EXCEPT ![Org] = v + d]
               /\ book' = [book EXCEPT ![Org] = Filed(Org, "adjusted", d)]
          ELSE UNCHANGED <<balance, book>>
     /\ UNCHANGED <<month, invoice, item, floor, accrued>>

-----------------------------------------------------------------------------
(***************************************************************************)
(* Staff requests that read the credit without a lock.                     *)
(***************************************************************************)

\* The latest invoice that is not created yet.
LatestPending == {m \in invoice.pending : \A n \in invoice.pending : n <= m}

BeginStaff(w, op, m) ==
  /\ op \in Occurs \cap {"apply", "clear"}
  /\ Alone(w)
  /\ m \in LatestPending
  /\ ReadPlain(w, [op |-> op, m |-> m, saw |-> HasItems(m), org |-> balance[Org]])
  /\ UNCHANGED <<month, invoice, item, balance, floor, book, accrued>>

\* apply_compensations: the roll-back of the items it saw, then a new draw.
CommitApply(w) ==
  LET m == proc[w].m
      v == proc[w].org
      saw == proc[w].saw
  IN /\ proc[w].op = "apply"
     /\ WriteRow(w, Idle)
     /\ IF ApplySaves(v, m, saw)
          THEN SavePosition(Drawn(Cleared(v, m, saw), m), m, v)
          ELSE UNCHANGED <<balance, item, book>>
     /\ UNCHANGED <<month, invoice, floor, accrued>>

CommitClear(w) ==
  LET m == proc[w].m
      v == proc[w].org
  IN /\ proc[w].op = "clear"
     /\ WriteRow(w, Idle)
     /\ IF proc[w].saw /\ RollbackSaves(v, m)
          THEN SavePosition(RolledBack(v, m), m, v)
          ELSE UNCHANGED <<balance, item, book>>
     /\ UNCHANGED <<month, invoice, floor, accrued>>

\* A staff edit saves the row the serializer loaded; untyped, it is a grant.
BeginEdit(w) ==
  /\ "edit" \in Occurs
  /\ Alone(w)
  /\ ReadPlain(w, [op |-> "edit", org |-> balance[Org]])
  /\ UNCHANGED <<month, invoice, item, balance, floor, book, accrued>>

CommitEdit(w, v) ==
  /\ proc[w].op = "edit"
  /\ v > floor[Org] \/ floor[Org] = 0
  /\ WriteRow(w, Idle)
  /\ balance' = [balance EXCEPT ![Org] = v]
  /\ book' = [book EXCEPT ![Org] = Filed(Org, "other", v - proc[w].org)]
  /\ UNCHANGED <<month, invoice, item, floor, accrued>>

-----------------------------------------------------------------------------
Next ==
  \/ NextMonth
  \/ \E w \in Workers :
       \/ StartTask(w) \/ CommitExpire(w) \/ CommitClose(w) \/ EndTask(w)
       \/ \E m \in Months : BeginClose(w, m)
       \/ \E x \in DOMAIN Fee : CheckFee(w, x)
       \/ BeginFee(w) \/ CommitFee(w)
       \/ \E d \in Amounts : BeginAdjust(w, d)
       \/ CommitAdjust(w)
       \/ \E op \in {"apply", "clear"}, m \in Months : BeginStaff(w, op, m)
       \/ CommitApply(w) \/ CommitClear(w)
       \/ BeginEdit(w)
       \/ \E v \in Edits : CommitEdit(w, v)

Spec == Init /\ [][Next]_vars

-----------------------------------------------------------------------------
(***************************************************************************)
(* Properties.                                                             *)
(***************************************************************************)

\* Types of the balances, the items, the ledger and the lock; a worker that
\* holds the lock is one whose transaction has not ended.
TypeOK ==
  /\ month \in 1..(LastMonth + 1)
  /\ invoice.pending \cup invoice.created = 1..(IF month > LastMonth THEN LastMonth
                                                                    ELSE month)
  /\ item \in [Months -> [Projects -> Int]]
  /\ DOMAIN book = Accounts /\ DOMAIN floor = Accounts
  /\ \A a \in Accounts : balance[a] \in Int /\ Recorded(a) \in Int
  /\ accrued \subseteq DOMAIN Fee
  /\ lock # NoOne => proc[lock].op \in {"expire", "close", "fee", "adjust"}

\* The ledger reconciles: what its rows add up to is the balance, for the
\* organization and for every allocation (record_credit_transaction;
\* docs/credit-ledger.md: granted = used + lost + remaining).
Reconciles == \A a \in Accounts : Recorded(a) = balance[a]

\* A month is compensated by what the organization's credit gave up for it,
\* however often it was rolled back and drawn again: no item without a draw
\* behind it, and nothing drawn beyond the items but the top-up to the minimal
\* consumption (clear_compensations followed by save).
MonthIsBacked ==
  \A m \in Months :
    LET items == Total(item[m], Projects)
        given == -book[Org].drawn[m]
    IN items <= given /\ given <= Most(items, floor[Org])

\* So is every allocation: a project's items of a month are exactly what its
\* allocation gave up for that month, whatever was rolled back, expired or
\* lost to a racing request in between (_apply_compensation, ProjectCredit.save).
AllocationsAreBacked ==
  \A m \in Months : \A p \in Funded : item[m][p] = -book[p].drawn[m]

\* Only earned credit is withdrawn: over its whole life the credit never pays
\* out more than it earned (adjust_withdrawable and withdrawable_balance).
PaidFromEarnings == Earned >= 0

\* An invoice of a referred customer earns its fee once, whoever finalizes it
\* and however often (accrue_affiliate_fee).
FeesOnce == book[Org].fees = Total(Fee, accrued)
=============================================================================
