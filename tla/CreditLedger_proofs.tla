------------------------- MODULE CreditLedger_proofs -------------------------
(***************************************************************************)
(* What CreditLedger promises for any number of workers, projects and      *)
(* months and any prices: type correctness, that allocations are drawn for *)
(* the items that say so, that only earnings are paid out and a fee is     *)
(* earned once, all of it whatever unlocked requests do; that the ledger   *)
(* reconciles while staff requests run alone; and that months are backed   *)
(* where there is no minimal consumption.                                  *)
(***************************************************************************)
EXTENDS CreditSums_proofs

-----------------------------------------------------------------------------
(***************************************************************************)
(* Type correctness.                                                       *)
(***************************************************************************)

Books == [drawn : [Months -> Int], fees : Int, adjusted : Int, other : Int]

\* What a worker may be doing; the copy it read goes along.
Tasks ==
  {Idle}
    \cup [op : {"expire"}, org : Int]
    \cup [op : {"listed"}, todo : SUBSET Months]
    \cup [op : {"close"}, m : Months, todo : SUBSET Months, org : Int]
    \cup [op : {"unaccrued"}, x : DOMAIN Fee]
    \cup [op : {"fee"}, x : DOMAIN Fee, org : Int]
    \cup [op : {"adjust"}, d : Int, org : Int, earned : Int]
    \cup [op : {"apply", "clear"}, m : Months, saw : BOOLEAN, org : Int]
    \cup [op : {"edit"}, org : Int]

Holders == {"expire", "close", "fee", "adjust"}

Opened == 1..(IF month > LastMonth THEN LastMonth ELSE month)

\* The calendar and the invoices it opens.
CalendarInv ==
  /\ month \in 1..(LastMonth + 1)
  /\ invoice \in [pending : SUBSET Months, created : SUBSET Months]
  /\ invoice.pending \cup invoice.created = Opened

\* The credits, their ledger and the items.
AccountsInv ==
  /\ Org \in Accounts /\ Funded \subseteq Projects
  /\ balance \in [Accounts -> Int]
  /\ floor \in [Accounts -> Nat] /\ \A p \in Funded : floor[p] = 0
  /\ book \in [Accounts -> Books]
  /\ item \in [Months -> [Projects -> Int]]

\* The workers: a month that is being closed was opened, and exactly the
\* worker in a locked transaction holds the lock.
WorkersInv ==
  /\ proc \in [Workers -> Tasks]
  /\ \A w \in Workers : /\ proc[w].op = "close" => proc[w].m \in Opened
                        /\ proc[w].op \in {"listed", "close"} => proc[w].todo \subseteq Opened
                        /\ proc[w].op \in Holders <=> lock = w
  /\ lock \in Workers \cup {NoOne}

FeesInv == IsFiniteSet(accrued) /\ accrued \subseteq DOMAIN Fee

TypeInv == CalendarInv /\ AccountsInv /\ WorkersInv /\ FeesInv

-----------------------------------------------------------------------------
\* The fields of a task, by what it is about.
LEMMA TaskFields ==
  ASSUME NEW t \in Tasks
  PROVE  /\ t.op \in Holders \cup Unlocked => t.org \in Int
         /\ t.op \in {"close", "apply", "clear"} => t.m \in Months
         /\ t.op \in {"listed", "close"} => t.todo \in SUBSET Months
         /\ t.op \in {"unaccrued", "fee"} => t.x \in DOMAIN Fee
         /\ t.op = "adjust" => t.d \in Int /\ t.earned \in Int
         /\ t.op \in {"apply", "clear"} => t.saw \in BOOLEAN
         /\ t.op \in Holders \cup Unlocked \cup {"idle", "listed", "unaccrued"}
BY DEF Tasks, Idle, Holders, Unlocked

LEMMA MonthsAre == IsFiniteSet(Months) /\ LastMonth \in Nat /\ Months \subseteq Nat
<1>1. LastMonth \in Nat
  BY ScopeAssumption
<1>2. IsFiniteSet(1..LastMonth)
  BY <1>1, FS_Interval
<1> QED
  BY <1>1, <1>2 DEF Months

LEMMA RecordedIsInt ==
  ASSUME AccountsInv, NEW a \in Accounts
  PROVE  Recorded(a) \in Int
<1>1. book[a] \in Books
  BY DEF AccountsInv
<1>2. \A m \in Months : book[a].drawn[m] \in Int
  BY <1>1 DEF Books
<1>3. Total(book[a].drawn, Months) \in Int
  BY <1>2, MonthsAre, TotalIsInt
<1> QED
  BY <1>1, <1>3 DEF Recorded, Books

LEMMA TypesFollow == TypeInv => TypeOK
<1> SUFFICES ASSUME TypeInv PROVE TypeOK
  OBVIOUS
<1>1. DOMAIN book = Accounts /\ DOMAIN floor = Accounts
  BY DEF TypeInv, AccountsInv
<1>2. \A a \in Accounts : balance[a] \in Int /\ Recorded(a) \in Int
  BY RecordedIsInt DEF TypeInv, AccountsInv
<1>3. lock # NoOne => proc[lock].op \in {"expire", "close", "fee", "adjust"}
  BY DEF TypeInv, WorkersInv, Holders
<1> QED
  BY <1>1, <1>2, <1>3 DEF TypeOK, TypeInv, CalendarInv, AccountsInv, FeesInv, Opened

LEMMA InitTyped == Init => TypeInv
<1> SUFFICES ASSUME Init PROVE TypeInv
  OBVIOUS
<1>1. PICK s \in Setups :
        /\ balance = [a \in {Org} \cup DOMAIN s.alloc |->
                        IF a = Org THEN s.org ELSE s.alloc[a]]
        /\ floor = [a \in {Org} \cup DOMAIN s.alloc |-> IF a = Org THEN s.floor ELSE 0]
        /\ book = [a \in {Org} \cup DOMAIN s.alloc |->
                     [EmptyBook EXCEPT !.other = IF a = Org THEN s.org ELSE s.alloc[a]]]
  BY DEF Init
<1>2. /\ s.org \in Nat /\ s.floor \in Nat /\ s.alloc \in [DOMAIN s.alloc -> Nat]
      /\ DOMAIN s.alloc \subseteq Projects
  BY AmountAssumption
<1>3. Accounts = {Org} \cup DOMAIN s.alloc
  BY <1>1 DEF Accounts
<1>4. Funded = DOMAIN s.alloc
  BY <1>2, <1>3, ScopeAssumption DEF Funded
<1>5. CalendarInv
  BY MonthsAre, ScopeAssumption DEF Init, CalendarInv, Opened, Months
<1>6. AccountsInv
  <2>1. balance \in [Accounts -> Int]
    BY <1>1, <1>2, <1>3
  <2>2. floor \in [Accounts -> Nat] /\ \A p \in Funded : floor[p] = 0
    BY <1>1, <1>2, <1>3 DEF Funded
  <2>3. book \in [Accounts -> Books]
    <3>1. ASSUME NEW n \in Int PROVE [EmptyBook EXCEPT !.other = n] \in Books
      BY <3>1 DEF EmptyBook, Books
    <3>2. \A a \in Accounts : (IF a = Org THEN s.org ELSE s.alloc[a]) \in Int
      BY <1>2, <1>3
    <3> QED
      BY <1>1, <1>3, <3>1, <3>2
  <2>4. item \in [Months -> [Projects -> Int]]
    BY DEF Init
  <2> QED
    BY <1>2, <1>3, <1>4, <2>1, <2>2, <2>3, <2>4 DEF AccountsInv
<1>7. WorkersInv
  BY ScopeAssumption DEF Init, WorkersInv, Tasks, Idle, Holders
<1>8. FeesInv
  BY FS_EmptySet DEF Init, FeesInv
<1> QED
  BY <1>5, <1>6, <1>7, <1>8 DEF TypeInv

-----------------------------------------------------------------------------
(***************************************************************************)
(* The steps of a worker and of the position it saves.                     *)
(***************************************************************************)

\* A worker moves on to task t, with the lock it had, with the lock it takes,
\* or letting it go.
Moves(w, t) ==
  /\ proc' = [proc EXCEPT ![w] = t]
  /\ \/ lock' = lock /\ (t.op \in Holders <=> proc[w].op \in Holders)
     \/ lock = NoOne /\ lock' = w /\ t.op \in Holders
     \/ lock \in {NoOne, w} /\ lock' = NoOne /\ t.op \notin Holders

LEMMA WorkerMoves ==
  ASSUME WorkersInv, NEW w \in Workers, NEW t \in Tasks, Moves(w, t),
         Opened \subseteq Opened',
         t.op = "close" => t.m \in Opened',
         t.op \in {"listed", "close"} => t.todo \subseteq Opened'
  PROVE  WorkersInv'
<1>1. proc' \in [Workers -> Tasks] /\ proc'[w] = t
      /\ \A x \in Workers \ {w} : proc'[x] = proc[x]
  BY DEF WorkersInv, Moves
<1>2. lock' \in Workers \cup {NoOne}
  BY DEF WorkersInv, Moves
<1>3. ASSUME NEW x \in Workers
      PROVE  /\ proc'[x].op = "close" => proc'[x].m \in Opened'
             /\ proc'[x].op \in {"listed", "close"} => proc'[x].todo \subseteq Opened'
  <2>1. CASE x = w
    BY <1>1, <2>1
  <2>2. CASE x # w
    BY <1>1, <2>2 DEF WorkersInv
  <2> QED
    BY <2>1, <2>2
<1>4. ASSUME NEW x \in Workers PROVE proc'[x].op \in Holders <=> lock' = x
  <2>1. NoOne \notin Workers
    BY ScopeAssumption
  <2>2. CASE x = w
    BY <1>1, <2>1, <2>2 DEF WorkersInv, Moves
  <2>3. CASE x # w
    BY <1>1, <2>1, <2>3 DEF WorkersInv, Moves
  <2> QED
    BY <2>2, <2>3
<1> QED
  BY <1>1, <1>2, <1>3, <1>4 DEF WorkersInv

\* The position of month m before anything is saved, for a credit read as v.
Held(v, m) == [org |-> v, alloc |-> Alloc, item |-> item[m]]

\* What every position that is saved has in common.
Follows(c, v, m) ==
  /\ c \in Positions(Funded)
  /\ \A p \in Funded : c.alloc[p] + c.item[p] = balance[p] + item[m][p]
  /\ floor[Org] = 0 /\ Solvent(Held(v, m), Funded)
       => Balanced(Held(v, m), c, Funded) /\ Solvent(c, Funded)

LEMMA HeldFollows ==
  ASSUME AccountsInv, NEW v \in Int, NEW m \in Months
  PROVE  Follows(Held(v, m), v, m)
<1> DEFINE c == Held(v, m)
<1>1. c \in Positions(Funded) /\ c.alloc = Alloc /\ c.item = item[m]
  BY DEF Held, Positions, Alloc, AccountsInv, Funded
<1>2. \A p \in Funded : Alloc[p] = balance[p]
  BY DEF Alloc
<1>3. Balanced(c, c, Funded)
  <2> HIDE DEF c
  <2> QED
    BY DEF Balanced
<1> HIDE DEF c
<1> QED
  BY <1>1, <1>2, <1>3 DEF Follows, c

LEMMA RolledBackFollows ==
  ASSUME AccountsInv, NEW v \in Int, NEW m \in Months
  PROVE  Follows(RolledBack(v, m), v, m)
<1> DEFINE sum == Total(item[m], Projects)
           back == Most(sum, floor[Org])
           org == v + back
           alloc == [p \in Funded |-> Alloc[p] + item[m][p]]
           zero == [p \in Projects |-> 0]
           c == [org |-> org, alloc |-> alloc, item |-> zero]
<1>1. RolledBack(v, m) = c
  BY Zenon DEF RolledBack
<1>2. /\ sum \in Int /\ floor[Org] \in Nat /\ item[m] \in [Projects -> Int]
      /\ Total(zero, Projects) = 0
  <2>1. item[m] \in [Projects -> Int] /\ floor[Org] \in Nat
    BY DEF AccountsInv
  <2>2. \A p \in Projects : item[m][p] \in Int
    BY <2>1
  <2>3. \A p \in Projects : zero[p] = 0
    OBVIOUS
  <2> HIDE DEF zero
  <2> QED
    BY <2>1, <2>2, <2>3, ScopeAssumption, TotalIsInt, TotalOfNothing
<1>3. \A p \in Funded : p \in Projects /\ Alloc[p] = balance[p] /\ balance[p] \in Int
  BY DEF AccountsInv, Alloc, Funded
<1>4. /\ org \in Int /\ alloc \in [Funded -> Int] /\ zero \in [Projects -> Int]
      /\ \A p \in Funded : alloc[p] = balance[p] + item[m][p]
      /\ \A p \in Projects : zero[p] = 0
  <2>1. org \in Int
    BY <1>2 DEF Most
  <2>2. alloc \in [Funded -> Int] /\ \A p \in Funded : alloc[p] = balance[p] + item[m][p]
    BY <1>2, <1>3
  <2> QED
    BY <2>1, <2>2
<1>5. c \in Positions(Funded) /\ c.org = org /\ c.alloc = alloc /\ c.item = zero
  <2> HIDE DEF org, alloc, zero
  <2> QED
    BY <1>4 DEF Positions
<1>6. \A p \in Funded : c.alloc[p] + c.item[p] = balance[p] + item[m][p]
  <2> HIDE DEF c, org, alloc, zero
  <2> QED
    BY <1>2, <1>3, <1>4, <1>5
<1>7. ASSUME floor[Org] = 0, Solvent(Held(v, m), Funded)
      PROVE  Balanced(Held(v, m), c, Funded) /\ Solvent(c, Funded)
  <2> DEFINE h == Held(v, m)
  <2>1. h.org = v /\ h.alloc = Alloc /\ h.item = item[m]
    BY DEF Held
  <2> HIDE DEF h
  <2>2. \A p \in Projects : item[m][p] \in Nat
    BY <1>2, <1>7, <2>1 DEF Solvent, h
  <2>3. sum \in Nat
    BY <2>2, ScopeAssumption, TotalIsNat
  <2>4. org = v + sum
    BY <1>7, <2>3 DEF Most
  <2>5. Balanced(h, c, Funded)
    <3> HIDE DEF c, org, alloc, zero
    <3> QED
      BY <1>2, <1>3, <1>4, <1>5, <2>1, <2>4 DEF Balanced
  <2>6. Solvent(c, Funded)
    <3>1. Funded = {} => org >= 0
      BY <1>7, <2>1, <2>3, <2>4 DEF Solvent, h
    <3>2. \A p \in Funded : alloc[p] >= 0
      BY <1>3, <1>4, <1>7, <2>1, <2>2 DEF Solvent, h
    <3> HIDE DEF c, org, alloc, zero
    <3> QED
      BY <1>4, <1>5, <1>7, <3>1, <3>2 DEF Solvent
  <2> QED
    BY <2>5, <2>6 DEF h
<1> HIDE DEF c
<1> QED
  BY <1>1, <1>5, <1>6, <1>7 DEF Follows

\* The position apply and close save.
LEMMA DrawnFollows ==
  ASSUME AccountsInv, NEW v \in Int, NEW m \in Months, NEW saw \in BOOLEAN
  PROVE  Follows(Drawn(Cleared(v, m, saw), m), v, m)
<1> DEFINE b == Cleared(v, m, saw)
           c == Drawn(b, m)
           h == Held(v, m)
<1>1. Follows(b, v, m)
  BY HeldFollows, RolledBackFollows DEF Cleared, Held
<1> HIDE DEF b, h
<1>2. b \in Positions(Funded) /\ Funded \in SUBSET Projects /\ floor[Org] \in Nat
      /\ \A p \in Funded : floor[p] = 0
  BY <1>1 DEF Follows, AccountsInv
<1>3. /\ c \in Positions(Funded)
      /\ \A p \in Funded : c.alloc[p] + c.item[p] = b.alloc[p] + b.item[p]
      /\ floor[Org] = 0 => /\ Balanced(b, c, Funded)
                           /\ Solvent(b, Funded) => Solvent(c, Funded)
  BY <1>2, DrawnKeeps
<1> HIDE DEF c
<1>4. ASSUME floor[Org] = 0, Solvent(h, Funded)
      PROVE  Balanced(h, c, Funded) /\ Solvent(c, Funded)
  BY <1>1, <1>3, <1>4 DEF Follows, Balanced, h
<1>5. \A p \in Funded : c.alloc[p] + c.item[p] = balance[p] + item[m][p]
  BY <1>1, <1>3 DEF Follows
<1>6. Follows(c, v, m)
  BY <1>3, <1>4, <1>5 DEF Follows, h
<1> QED
  BY <1>6 DEF c, b

\* What a saved position writes.
LEMMA PositionSaved ==
  ASSUME AccountsInv, UNCHANGED floor, NEW v \in Int, NEW m \in Months,
         NEW c \in Positions(Funded), SavePosition(c, m, v)
  PROVE  /\ AccountsInv' /\ Accounts' = Accounts /\ Funded' = Funded
         /\ balance'[Org] = c.org /\ \A p \in Funded : balance'[p] = c.alloc[p]
         /\ item'[m] = c.item /\ \A n \in Months \ {m} : item'[n] = item[n]
         /\ \A a \in Accounts :
              /\ book'[a].fees = book[a].fees /\ book'[a].adjusted = book[a].adjusted
              /\ book'[a].other = book[a].other
              /\ \A n \in Months \ {m} : book'[a].drawn[n] = book[a].drawn[n]
              /\ book'[a].drawn[m] = book[a].drawn[m]
                   + (IF a = Org THEN c.org - v ELSE c.alloc[a] - balance[a])
<1> DEFINE delta(a) == IF a = Org THEN c.org - v ELSE c.alloc[a] - balance[a]
<1>1. /\ balance' = [a \in Accounts |-> IF a = Org THEN c.org ELSE c.alloc[a]]
      /\ item' = [item EXCEPT ![m] = c.item]
      /\ book' = [a \in Accounts |-> [book[a] EXCEPT !.drawn[m] = @ + delta(a)]]
  BY Zenon DEF SavePosition
<1>2. /\ Org \in Accounts /\ \A a \in Accounts \ {Org} : a \in Funded
      /\ c.org \in Int /\ c.alloc \in [Funded -> Int] /\ c.item \in [Projects -> Int]
      /\ balance \in [Accounts -> Int] /\ item \in [Months -> [Projects -> Int]]
  BY DEF AccountsInv, Funded, Positions
<1>3. Accounts' = Accounts
  BY <1>1 DEF Accounts
<1>4. Funded' = Funded
  BY <1>3 DEF Funded
<1>5. /\ balance' \in [Accounts -> Int] /\ balance'[Org] = c.org
      /\ \A p \in Funded : balance'[p] = c.alloc[p]
  BY <1>1, <1>2 DEF Funded
<1>6. /\ item' \in [Months -> [Projects -> Int]] /\ item'[m] = c.item
      /\ \A n \in Months \ {m} : item'[n] = item[n]
  BY <1>1, <1>2
<1>7. ASSUME NEW a \in Accounts
      PROVE  /\ book'[a] \in Books /\ book'[a].fees = book[a].fees
             /\ book'[a].adjusted = book[a].adjusted /\ book'[a].other = book[a].other
             /\ \A n \in Months \ {m} : book'[a].drawn[n] = book[a].drawn[n]
             /\ book'[a].drawn[m] = book[a].drawn[m] + delta(a)
  <2>1. delta(a) \in Int /\ book[a] \in Books
    BY <1>2 DEF AccountsInv
  <2>2. book'[a] = [book[a] EXCEPT !.drawn[m] = @ + delta(a)]
    <3> HIDE DEF delta
    <3> QED
      BY <1>1
  <2> HIDE DEF delta
  <2> QED
    BY <2>1, <2>2 DEF Books
<1>8. book' \in [Accounts -> Books]
  <2>1. DOMAIN book' = Accounts /\ \A a \in Accounts : book'[a] \in Books
    BY <1>1, <1>7
  <2>2. book' = [a \in Accounts |-> book'[a]]
    <3> HIDE DEF delta
    <3> QED
      BY <1>1
  <2> HIDE DEF delta
  <2> QED
    BY <2>1, <2>2
<1>9. AccountsInv'
  BY <1>3, <1>4, <1>5, <1>6, <1>8 DEF AccountsInv
<1> QED
  BY <1>3, <1>4, <1>5, <1>6, <1>7, <1>9

\* A row of another kind, filed under the organization.
LEMMA RowFiled ==
  ASSUME AccountsInv, UNCHANGED <<floor, item>>, NEW u \in Int, NEW d \in Int,
         NEW field \in {"fees", "adjusted", "other"},
         balance' = [balance EXCEPT ![Org] = u],
         book' = [book EXCEPT ![Org] = Filed(Org, field, d)]
  PROVE  /\ AccountsInv' /\ Accounts' = Accounts /\ Funded' = Funded
         /\ balance'[Org] = u /\ \A p \in Funded : balance'[p] = balance[p] /\ book'[p] = book[p]
         /\ book'[Org].drawn = book[Org].drawn
         /\ book'[Org].fees = book[Org].fees + (IF field = "fees" THEN d ELSE 0)
         /\ book'[Org].adjusted = book[Org].adjusted + (IF field = "adjusted" THEN d ELSE 0)
         /\ book'[Org].other = book[Org].other + (IF field = "other" THEN d ELSE 0)
<1> DEFINE b == [book[Org] EXCEPT ![field] = @ + d]
<1>1. /\ Org \in Accounts /\ book \in [Accounts -> Books] /\ balance \in [Accounts -> Int]
      /\ book[Org] \in Books
  BY DEF AccountsInv
<1>2. book' = [book EXCEPT ![Org] = b]
  BY DEF Filed
<1>3. /\ b \in Books /\ b.drawn = book[Org].drawn
      /\ b.fees = book[Org].fees + (IF field = "fees" THEN d ELSE 0)
      /\ b.adjusted = book[Org].adjusted + (IF field = "adjusted" THEN d ELSE 0)
      /\ b.other = book[Org].other + (IF field = "other" THEN d ELSE 0)
  <2>1. CASE field = "fees"
    BY <1>1, <2>1 DEF Books
  <2>2. CASE field = "adjusted"
    BY <1>1, <2>2 DEF Books
  <2>3. CASE field = "other"
    BY <1>1, <2>3 DEF Books
  <2> QED
    BY <2>1, <2>2, <2>3
<1> HIDE DEF b
<1>4. Accounts' = Accounts /\ Funded' = Funded
  BY DEF Accounts, Funded
<1>5. /\ balance' \in [Accounts -> Int] /\ book' \in [Accounts -> Books]
      /\ balance'[Org] = u /\ book'[Org] = b
      /\ \A p \in Funded : balance'[p] = balance[p] /\ book'[p] = book[p]
  BY <1>1, <1>2, <1>3 DEF Funded
<1>6. AccountsInv'
  BY <1>4, <1>5 DEF AccountsInv
<1> QED
  BY <1>3, <1>4, <1>5, <1>6

\* The expiry of every balance; an allocation may be kept.
LEMMA CreditExpires ==
  ASSUME TypeInv, NEW w \in Workers, CommitExpire(w)
  PROVE  /\ AccountsInv' /\ Accounts' = Accounts /\ Funded' = Funded
         /\ balance'[Org] = 0
         /\ \A p \in Funded : balance'[p] = 0 \/ balance'[p] = balance[p]
         /\ \A a \in Accounts :
              /\ book'[a].fees = book[a].fees /\ book'[a].adjusted = book[a].adjusted
              /\ book'[a].drawn = book[a].drawn
              /\ book'[a].other = book[a].other + balance'[a]
                   - (IF a = Org THEN proc[w].org ELSE balance[a])
<1> DEFINE zero == [p \in Funded |-> IF AllocationFits(p, 0, Alloc, 0) THEN 0 ELSE Alloc[p]]
           delta(a) == balance'[a] - (IF a = Org THEN proc[w].org ELSE balance[a])
<1>1. /\ balance' = [a \in Accounts |-> IF a = Org THEN 0 ELSE zero[a]]
      /\ book' = [a \in Accounts |-> Filed(a, "other", delta(a))]
      /\ UNCHANGED <<item, floor>> /\ proc[w].op = "expire"
  BY Zenon DEF CommitExpire
<1>2. /\ Org \in Accounts /\ \A a \in Accounts \ {Org} : a \in Funded
      /\ balance \in [Accounts -> Int] /\ proc[w].org \in Int
  BY <1>1, TaskFields DEF TypeInv, AccountsInv, WorkersInv, Holders, Funded
<1>3. \A p \in Funded : zero[p] = 0 \/ zero[p] = balance[p]
  BY DEF Alloc
<1> HIDE DEF zero
<1>4. Accounts' = Accounts
  BY <1>1 DEF Accounts
<1>5. Funded' = Funded
  BY <1>4 DEF Funded
<1>6. /\ balance' \in [Accounts -> Int] /\ balance'[Org] = 0
      /\ \A p \in Funded : balance'[p] = 0 \/ balance'[p] = balance[p]
  BY <1>1, <1>2, <1>3 DEF Funded
<1>7. ASSUME NEW a \in Accounts
      PROVE  /\ book'[a] \in Books /\ book'[a].fees = book[a].fees
             /\ book'[a].adjusted = book[a].adjusted /\ book'[a].drawn = book[a].drawn
             /\ book'[a].other = book[a].other + delta(a) /\ delta(a) \in Int
  <2>1. delta(a) \in Int /\ book[a] \in Books
    BY <1>2, <1>6 DEF TypeInv, AccountsInv
  <2>2. book'[a] = [book[a] EXCEPT !.other = @ + delta(a)]
    <3> HIDE DEF delta
    <3> QED
      BY <1>1 DEF Filed
  <2> HIDE DEF delta
  <2> QED
    BY <2>1, <2>2 DEF Books
<1>8. book' \in [Accounts -> Books]
  <2>1. \A a \in Accounts : book'[a] \in Books
    BY <1>7
  <2>2. book' = [a \in Accounts |-> book'[a]]
    <3> HIDE DEF delta
    <3> QED
      BY <1>1
  <2> QED
    BY <2>1, <2>2
<1>9. AccountsInv'
  BY <1>1, <1>4, <1>5, <1>6, <1>8 DEF TypeInv, AccountsInv
<1>10. ASSUME NEW a \in Accounts
       PROVE  book'[a].other = book[a].other + balance'[a]
                - (IF a = Org THEN proc[w].org ELSE balance[a])
  <2>1. book[a].other \in Int /\ balance'[a] \in Int /\ balance[a] \in Int
    BY <1>2, <1>6 DEF TypeInv, AccountsInv, Books
  <2> QED
    BY <1>2, <1>7, <2>1
<1> QED
  BY <1>4, <1>5, <1>6, <1>7, <1>9, <1>10

\* What an action that leaves the accounts or the calendar alone keeps.
LEMMA AccountsKept ==
  ASSUME AccountsInv, UNCHANGED <<balance, floor, book, item>>
  PROVE  AccountsInv' /\ Accounts' = Accounts /\ Funded' = Funded
BY DEF AccountsInv, Accounts, Funded

LEMMA CalendarKept ==
  ASSUME CalendarInv, UNCHANGED <<month, invoice>>
  PROVE  CalendarInv' /\ Opened' = Opened
BY DEF CalendarInv, Opened

LEMMA StartTaskTyped ==
  ASSUME TypeInv, NEW w \in Workers, StartTask(w)
  PROVE  TypeInv'
<1>1. /\ UNCHANGED <<month, invoice, item, balance, floor, book, accrued>>
      /\ proc[w] = Idle
  BY DEF StartTask, Ready
<1>2. CalendarInv' /\ Opened' = Opened /\ AccountsInv' /\ FeesInv'
  BY <1>1, AccountsKept, CalendarKept DEF TypeInv, FeesInv
<1>3. proc[w].op \notin Holders
  BY <1>1 DEF Idle, Holders
<1> DEFINE a == [op |-> "expire", org |-> balance[Org]]
           b == [op |-> "listed", todo |-> invoice.pending \ {month}]
<1>4. \/ Moves(w, a) /\ lock = NoOne /\ lock' = w
      \/ Moves(w, b) /\ lock' = lock
  BY <1>1, <1>3 DEF StartTask, ReadLocked, Moves, Holders
<1>5. a \in Tasks /\ a.op = "expire"
  BY DEF Tasks, TypeInv, AccountsInv
<1>6. b \in Tasks /\ b.todo \subseteq Opened /\ b.op = "listed"
  <2>1. invoice.pending \subseteq Opened /\ invoice.pending \subseteq Months
    BY DEF TypeInv, CalendarInv
  <2> QED
    BY <2>1 DEF Tasks
<1> HIDE DEF a, b
<1>7. WorkersInv'
  BY <1>2, <1>4, <1>5, <1>6, WorkerMoves DEF TypeInv
<1> QED
  BY <1>2, <1>7 DEF TypeInv

LEMMA ExpireTyped ==
  ASSUME TypeInv, NEW w \in Workers, CommitExpire(w)
  PROVE  TypeInv'
<1> DEFINE b == [op |-> "listed", todo |-> invoice.pending \ {month}]
<1>1. UNCHANGED <<month, invoice, accrued>> /\ Moves(w, b)
  BY DEF CommitExpire, WriteRow, Moves, Holders
<1>2. CalendarInv' /\ Opened' = Opened /\ AccountsInv' /\ FeesInv'
  BY <1>1, CreditExpires, CalendarKept DEF TypeInv, FeesInv
<1>3. b \in Tasks /\ b.todo \subseteq Opened /\ b.op = "listed"
  <2>1. invoice.pending \subseteq Opened /\ invoice.pending \subseteq Months
    BY DEF TypeInv, CalendarInv
  <2> QED
    BY <2>1 DEF Tasks
<1> HIDE DEF b
<1>4. WorkersInv'
  BY <1>1, <1>2, <1>3, WorkerMoves DEF TypeInv
<1> QED
  BY <1>2, <1>4 DEF TypeInv

LEMMA BeginCloseTyped ==
  ASSUME TypeInv, NEW w \in Workers, NEW m \in Months, BeginClose(w, m)
  PROVE  TypeInv'
<1> DEFINE t == [op |-> "close", m |-> m, todo |-> proc[w].todo \ {m}, org |-> balance[Org]]
<1>1. /\ UNCHANGED <<month, invoice, item, balance, floor, book, accrued>>
      /\ Moves(w, t) /\ proc[w].op = "listed" /\ m \in proc[w].todo
  BY DEF BeginClose, ReadLocked, Moves, Holders
<1>2. CalendarInv' /\ Opened' = Opened /\ AccountsInv' /\ FeesInv'
  BY <1>1, AccountsKept, CalendarKept DEF TypeInv, FeesInv
<1>3. t \in Tasks /\ t.m \in Opened /\ t.todo \subseteq Opened
  <2>1. proc[w].todo \in SUBSET Months /\ proc[w].todo \subseteq Opened
    BY <1>1, TaskFields DEF TypeInv, WorkersInv
  <2>2. balance[Org] \in Int
    BY DEF TypeInv, AccountsInv
  <2> QED
    BY <1>1, <2>1, <2>2 DEF Tasks
<1> HIDE DEF t
<1>4. WorkersInv'
  BY <1>1, <1>2, <1>3, WorkerMoves DEF TypeInv
<1> QED
  BY <1>2, <1>4 DEF TypeInv

LEMMA CloseTyped ==
  ASSUME TypeInv, NEW w \in Workers, CommitClose(w)
  PROVE  TypeInv'
<1> DEFINE t == [op |-> "listed", todo |-> proc[w].todo]
           m == proc[w].m
           v == proc[w].org
           c == Drawn(Cleared(v, m, HasItems(m)), m)
<1>1. UNCHANGED <<month, floor, accrued>> /\ Moves(w, t) /\ proc[w].op = "close"
  BY DEF CommitClose, WriteRow, Moves, Holders
<1>2. /\ m \in Months /\ m \in Opened /\ v \in Int
      /\ proc[w].todo \in SUBSET Months /\ proc[w].todo \subseteq Opened
  BY <1>1, TaskFields DEF TypeInv, WorkersInv, Holders
<1>3. \/ /\ SavePosition(c, m, v)
         /\ invoice' = [pending |-> invoice.pending \ {m}, created |-> invoice.created \cup {m}]
      \/ UNCHANGED <<balance, item, book, invoice>>
  BY Zenon DEF CommitClose
<1>4. c \in Positions(Funded)
  <2>1. HasItems(m) \in BOOLEAN
    BY DEF HasItems
  <2> HIDE DEF m, v
  <2> QED
    BY <1>2, <2>1, DrawnFollows DEF TypeInv, Follows
<1>5. AccountsInv'
  <2> HIDE DEF m, v, c
  <2>1. CASE SavePosition(c, m, v)
    BY <1>1, <1>2, <1>4, <2>1, PositionSaved DEF TypeInv
  <2>2. CASE UNCHANGED <<balance, item, book, invoice>>
    BY <1>1, <2>2, AccountsKept DEF TypeInv
  <2> QED
    BY <1>3, <2>1, <2>2
<1>6. CalendarInv' /\ Opened' = Opened
  <2> HIDE DEF m, v, c
  <2> QED
    BY <1>1, <1>2, <1>3 DEF TypeInv, CalendarInv, Opened
<1>7. t \in Tasks /\ t.op = "listed" /\ t.todo \subseteq Opened
  BY <1>2 DEF Tasks
<1> HIDE DEF t
<1>8. WorkersInv'
  BY <1>1, <1>6, <1>7, WorkerMoves DEF TypeInv
<1> QED
  BY <1>1, <1>5, <1>6, <1>8 DEF TypeInv, FeesInv

LEMMA FeeTyped ==
  ASSUME TypeInv, NEW w \in Workers, CommitFee(w)
  PROVE  TypeInv'
<1> DEFINE x == proc[w].x
           fee == Fee[x]
           u == proc[w].org + fee
<1>1. UNCHANGED <<month, invoice, item, floor>> /\ Moves(w, Idle) /\ proc[w].op = "fee"
  BY DEF CommitFee, WriteRow, Moves, Holders, Idle
<1>2. x \in DOMAIN Fee /\ fee \in Int /\ u \in Int
  BY <1>1, TaskFields, AmountAssumption DEF TypeInv, WorkersInv, Holders
<1>3. \/ /\ accrued' = accrued \cup {x}
         /\ balance' = [balance EXCEPT ![Org] = u]
         /\ book' = [book EXCEPT ![Org] = Filed(Org, "fees", fee)]
      \/ UNCHANGED <<accrued, balance, book>>
  BY Zenon DEF CommitFee
<1> HIDE DEF x, fee, u
<1>4. CalendarInv' /\ Opened' = Opened
  BY <1>1, CalendarKept DEF TypeInv
<1>5. AccountsInv' /\ FeesInv'
  <2>1. CASE UNCHANGED <<accrued, balance, book>>
    BY <1>1, <2>1, AccountsKept DEF TypeInv, FeesInv
  <2>2. CASE /\ accrued' = accrued \cup {x}
             /\ balance' = [balance EXCEPT ![Org] = u]
             /\ book' = [book EXCEPT ![Org] = Filed(Org, "fees", fee)]
    <3>1. AccountsInv'
      BY <1>1, <1>2, <2>2, RowFiled DEF TypeInv
    <3>2. FeesInv'
      BY <1>2, <2>2, FS_AddElement DEF TypeInv, FeesInv
    <3> QED
      BY <3>1, <3>2
  <2> QED
    BY <1>3, <2>1, <2>2
<1>6. Idle \in Tasks /\ Idle.op = "idle"
  BY DEF Tasks, Idle
<1>7. WorkersInv'
  BY <1>1, <1>4, <1>6, WorkerMoves DEF TypeInv
<1> QED
  BY <1>4, <1>5, <1>7 DEF TypeInv

LEMMA AdjustTyped ==
  ASSUME TypeInv, NEW w \in Workers, CommitAdjust(w)
  PROVE  TypeInv'
<1> DEFINE d == proc[w].d
           u == proc[w].org + d
<1>1. /\ UNCHANGED <<month, invoice, item, floor, accrued>> /\ Moves(w, Idle)
      /\ proc[w].op = "adjust"
  BY DEF CommitAdjust, WriteRow, Moves, Holders, Idle
<1>2. d \in Int /\ u \in Int
  BY <1>1, TaskFields DEF TypeInv, WorkersInv, Holders
<1>3. \/ /\ balance' = [balance EXCEPT ![Org] = u]
         /\ book' = [book EXCEPT ![Org] = Filed(Org, "adjusted", d)]
      \/ UNCHANGED <<balance, book>>
  BY Zenon DEF CommitAdjust
<1> HIDE DEF d, u
<1>4. CalendarInv' /\ Opened' = Opened /\ FeesInv'
  BY <1>1, CalendarKept DEF TypeInv, FeesInv
<1>5. AccountsInv'
  <2>1. CASE UNCHANGED <<balance, book>>
    BY <1>1, <2>1, AccountsKept DEF TypeInv
  <2>2. CASE /\ balance' = [balance EXCEPT ![Org] = u]
             /\ book' = [book EXCEPT ![Org] = Filed(Org, "adjusted", d)]
    BY <1>1, <1>2, <2>2, RowFiled DEF TypeInv
  <2> QED
    BY <1>3, <2>1, <2>2
<1>6. Idle \in Tasks /\ Idle.op = "idle"
  BY DEF Tasks, Idle
<1>7. WorkersInv'
  BY <1>1, <1>4, <1>6, WorkerMoves DEF TypeInv
<1> QED
  BY <1>4, <1>5, <1>7 DEF TypeInv

LEMMA EditTyped ==
  ASSUME TypeInv, NEW w \in Workers, NEW v \in Edits, CommitEdit(w, v)
  PROVE  TypeInv'
<1> DEFINE d == v - proc[w].org
<1>1. /\ UNCHANGED <<month, invoice, item, floor, accrued>> /\ Moves(w, Idle)
      /\ proc[w].op = "edit"
  BY DEF CommitEdit, WriteRow, Moves, Holders, Idle
<1>2. d \in Int /\ v \in Int
  BY <1>1, TaskFields, AmountAssumption DEF TypeInv, WorkersInv, Unlocked
<1>3. /\ balance' = [balance EXCEPT ![Org] = v]
      /\ book' = [book EXCEPT ![Org] = Filed(Org, "other", d)]
  BY DEF CommitEdit
<1> HIDE DEF d
<1>4. CalendarInv' /\ Opened' = Opened /\ FeesInv'
  BY <1>1, CalendarKept DEF TypeInv, FeesInv
<1>5. AccountsInv'
  BY <1>1, <1>2, <1>3, RowFiled DEF TypeInv
<1>6. Idle \in Tasks /\ Idle.op = "idle"
  BY DEF Tasks, Idle
<1>7. WorkersInv'
  BY <1>1, <1>4, <1>6, WorkerMoves DEF TypeInv
<1> QED
  BY <1>4, <1>5, <1>7 DEF TypeInv

\* A staff request that saves a position, or is refused.
LEMMA StaffSaveTyped ==
  ASSUME TypeInv, NEW w \in Workers, CommitApply(w) \/ CommitClear(w)
  PROVE  TypeInv'
<1> DEFINE m == proc[w].m
           v == proc[w].org
           saw == proc[w].saw
           a == Drawn(Cleared(v, m, saw), m)
           b == RolledBack(v, m)
<1>1. /\ UNCHANGED <<month, invoice, floor, accrued>> /\ Moves(w, Idle)
      /\ proc[w].op \in {"apply", "clear"}
  BY DEF CommitApply, CommitClear, WriteRow, Moves, Holders, Idle
<1>2. m \in Months /\ v \in Int /\ saw \in BOOLEAN
  BY <1>1, TaskFields DEF TypeInv, WorkersInv, Unlocked
<1>3. \/ SavePosition(a, m, v)
      \/ SavePosition(b, m, v)
      \/ UNCHANGED <<balance, item, book>>
  BY Zenon DEF CommitApply, CommitClear
<1>4. a \in Positions(Funded) /\ b \in Positions(Funded)
  <2> HIDE DEF m, v, saw
  <2> QED
    BY <1>2, DrawnFollows, RolledBackFollows DEF TypeInv, Follows
<1> HIDE DEF m, v, saw, a, b
<1>5. CalendarInv' /\ Opened' = Opened /\ FeesInv'
  BY <1>1, CalendarKept DEF TypeInv, FeesInv
<1>6. AccountsInv'
  <2>1. CASE SavePosition(a, m, v)
    BY <1>1, <1>2, <1>4, <2>1, PositionSaved DEF TypeInv
  <2>2. CASE SavePosition(b, m, v)
    BY <1>1, <1>2, <1>4, <2>2, PositionSaved DEF TypeInv
  <2>3. CASE UNCHANGED <<balance, item, book>>
    BY <1>1, <2>3, AccountsKept DEF TypeInv
  <2> QED
    BY <1>3, <2>1, <2>2, <2>3
<1>7. Idle \in Tasks /\ Idle.op = "idle"
  BY DEF Tasks, Idle
<1>8. WorkersInv'
  BY <1>1, <1>5, <1>7, WorkerMoves DEF TypeInv
<1> QED
  BY <1>5, <1>6, <1>8 DEF TypeInv

\* The steps of a worker that only change what it is doing.
OnlyProc(w, t) ==
  /\ UNCHANGED <<month, invoice, item, balance, floor, book, accrued>>
  /\ Moves(w, t)

LEMMA OnlyProcTyped ==
  ASSUME TypeInv, NEW w \in Workers, NEW t \in Tasks, OnlyProc(w, t),
         t.op \notin {"listed", "close"}
  PROVE  TypeInv'
<1>1. CalendarInv' /\ Opened' = Opened /\ AccountsInv' /\ FeesInv'
  BY AccountsKept, CalendarKept DEF TypeInv, FeesInv, OnlyProc
<1>2. WorkersInv'
  BY <1>1, WorkerMoves DEF TypeInv, OnlyProc
<1> QED
  BY <1>1, <1>2 DEF TypeInv

\* Which task a request or a fee begins with.
Begins(w, t) ==
  \/ t = Idle /\ EndTask(w)
  \/ \E x \in DOMAIN Fee : t = [op |-> "unaccrued", x |-> x] /\ CheckFee(w, x)
  \/ t = [op |-> "fee", x |-> proc[w].x, org |-> balance[Org]] /\ BeginFee(w)
  \/ \E d \in Amounts :
       /\ t = [op |-> "adjust", d |-> d, org |-> balance[Org],
               earned |-> Withdrawable(balance[Org])]
       /\ BeginAdjust(w, d)
  \/ \E op \in {"apply", "clear"}, m \in Months :
       /\ t = [op |-> op, m |-> m, saw |-> HasItems(m), org |-> balance[Org]]
       /\ BeginStaff(w, op, m)
  \/ t = [op |-> "edit", org |-> balance[Org]] /\ BeginEdit(w)

LEMMA EarnedIsInt ==
  ASSUME AccountsInv
  PROVE  Earned \in Int /\ \A v \in Int : Withdrawable(v) \in Int
<1>1. book[Org] \in Books
  BY DEF AccountsInv
<1>2. Earned \in Int
  BY <1>1 DEF Earned, Books
<1> QED
  BY <1>2 DEF Withdrawable, Most, Least

LEMMA BeginsTyped ==
  ASSUME TypeInv, NEW w \in Workers, NEW t, Begins(w, t)
  PROVE  t \in Tasks /\ OnlyProc(w, t) /\ t.op \notin {"listed", "close"} /\ TypeInv'
<1>1. balance[Org] \in Int
  BY DEF TypeInv, AccountsInv
<1>2. t \in Tasks /\ OnlyProc(w, t) /\ t.op \notin {"listed", "close"}
  <2>1. CASE t = Idle /\ EndTask(w)
    BY <2>1 DEF EndTask, OnlyProc, Moves, Idle, Holders, Tasks
  <2>2. ASSUME NEW x \in DOMAIN Fee, t = [op |-> "unaccrued", x |-> x], CheckFee(w, x)
        PROVE  t \in Tasks /\ OnlyProc(w, t) /\ t.op \notin {"listed", "close"}
    BY <2>2 DEF CheckFee, Ready, OnlyProc, Moves, Idle, Holders, Tasks
  <2>3. CASE t = [op |-> "fee", x |-> proc[w].x, org |-> balance[Org]] /\ BeginFee(w)
    <3>1. proc[w].x \in DOMAIN Fee
      BY <2>3, TaskFields DEF TypeInv, WorkersInv, BeginFee
    <3> QED
      BY <1>1, <2>3, <3>1 DEF BeginFee, ReadLocked, OnlyProc, Moves, Holders, Tasks
  <2>4. ASSUME NEW d \in Amounts, BeginAdjust(w, d),
               t = [op |-> "adjust", d |-> d, org |-> balance[Org],
                    earned |-> Withdrawable(balance[Org])]
        PROVE  t \in Tasks /\ OnlyProc(w, t) /\ t.op \notin {"listed", "close"}
    <3>1. d \in Int /\ Withdrawable(balance[Org]) \in Int
      BY <1>1, EarnedIsInt, AmountAssumption DEF TypeInv
    <3> QED
      BY <1>1, <2>4, <3>1 DEF BeginAdjust, ReadLocked, OnlyProc, Moves, Holders, Tasks
  <2>5. ASSUME NEW op \in {"apply", "clear"}, NEW m \in Months, BeginStaff(w, op, m),
               t = [op |-> op, m |-> m, saw |-> HasItems(m), org |-> balance[Org]]
        PROVE  t \in Tasks /\ OnlyProc(w, t) /\ t.op \notin {"listed", "close"}
    <3> DEFINE saw == HasItems(m)
    <3>1. saw \in BOOLEAN
      BY DEF HasItems
    <3>2. proc' = [proc EXCEPT ![w] = t] /\ UNCHANGED lock /\ proc[w] = Idle
          /\ UNCHANGED <<month, invoice, item, balance, floor, book, accrued>>
      BY <2>5, Zenon DEF BeginStaff, ReadPlain, Alone, Ready
    <3>3. t = [op |-> op, m |-> m, saw |-> saw, org |-> balance[Org]]
      BY <2>5
    <3> HIDE DEF saw
    <3>4. t \in [op : {"apply", "clear"}, m : Months, saw : BOOLEAN, org : Int]
      BY <1>1, <3>1, <3>3
    <3>5. t.op = op
      BY <3>3
    <3> QED
      BY <3>2, <3>4, <3>5 DEF OnlyProc, Moves, Holders, Tasks, Idle
  <2>6. CASE t = [op |-> "edit", org |-> balance[Org]] /\ BeginEdit(w)
    BY <1>1, <2>6 DEF BeginEdit, ReadPlain, Alone, Ready, OnlyProc, Moves, Holders, Tasks, Idle
  <2> QED
    BY <2>1, <2>2, <2>3, <2>4, <2>5, <2>6 DEF Begins
<1>3. TypeInv'
  BY <1>2, OnlyProcTyped
<1> QED
  BY <1>2, <1>3

LEMMA NextMonthTyped ==
  ASSUME TypeInv, NextMonth
  PROVE  TypeInv' /\ Opened \subseteq Opened'
<1>1. month \in 1..LastMonth /\ month' = month + 1 /\ LastMonth \in Nat
  BY MonthsAre DEF NextMonth, TypeInv, CalendarInv
<1>2. Opened' = Opened \cup ({month + 1} \cap Months)
  BY <1>1 DEF Opened, Months
<1>3. /\ invoice'.created = invoice.created
      /\ invoice'.pending = invoice.pending \cup ({month + 1} \cap Months)
      /\ invoice' \in [pending : SUBSET Months, created : SUBSET Months]
  BY DEF NextMonth, TypeInv, CalendarInv
<1>4. CalendarInv'
  BY <1>1, <1>2, <1>3 DEF TypeInv, CalendarInv
<1>5. AccountsInv' /\ FeesInv'
  BY AccountsKept DEF TypeInv, FeesInv, NextMonth
<1>6. WorkersInv'
  <2>1. UNCHANGED <<proc, lock>> /\ Opened \subseteq Opened'
    BY <1>2 DEF NextMonth
  <2> QED
    BY <2>1 DEF TypeInv, WorkersInv
<1> QED
  BY <1>2, <1>4, <1>5, <1>6 DEF TypeInv

\* The actions, with the beginnings taken together.
LEMMA NextCases ==
  ASSUME Next
  PROVE  \/ NextMonth
         \/ \E w \in Workers :
              \/ StartTask(w) \/ CommitExpire(w) \/ CommitClose(w)
              \/ \E m \in Months : BeginClose(w, m)
              \/ CommitFee(w) \/ CommitAdjust(w) \/ CommitApply(w) \/ CommitClear(w)
              \/ \E v \in Edits : CommitEdit(w, v)
              \/ \E t : Begins(w, t)
<1> SUFFICES ASSUME ~ NextMonth
             PROVE  \E w \in Workers :
              \/ StartTask(w) \/ CommitExpire(w) \/ CommitClose(w)
              \/ \E m \in Months : BeginClose(w, m)
              \/ CommitFee(w) \/ CommitAdjust(w) \/ CommitApply(w) \/ CommitClear(w)
              \/ \E v \in Edits : CommitEdit(w, v)
              \/ \E t : Begins(w, t)
  OBVIOUS
<1>1. PICK w \in Workers :
       \/ StartTask(w) \/ CommitExpire(w) \/ CommitClose(w) \/ EndTask(w)
       \/ \E m \in Months : BeginClose(w, m)
       \/ \E x \in DOMAIN Fee : CheckFee(w, x)
       \/ BeginFee(w) \/ CommitFee(w)
       \/ \E d \in Amounts : BeginAdjust(w, d)
       \/ CommitAdjust(w)
       \/ \E op \in {"apply", "clear"}, m \in Months : BeginStaff(w, op, m)
       \/ CommitApply(w) \/ CommitClear(w)
       \/ BeginEdit(w)
       \/ \E v \in Edits : CommitEdit(w, v)
  BY Zenon DEF Next
<1>2. ASSUME \/ EndTask(w) \/ BeginFee(w) \/ BeginEdit(w)
             \/ \E x \in DOMAIN Fee : CheckFee(w, x)
             \/ \E d \in Amounts : BeginAdjust(w, d)
             \/ \E op \in {"apply", "clear"}, m \in Months : BeginStaff(w, op, m)
      PROVE  \E t : Begins(w, t)
  <2>1. CASE EndTask(w)
    BY <2>1, Zenon DEF Begins
  <2>2. CASE BeginFee(w)
    BY <2>2, Zenon DEF Begins
  <2>3. CASE BeginEdit(w)
    BY <2>3, Zenon DEF Begins
  <2>4. CASE \E x \in DOMAIN Fee : CheckFee(w, x)
    BY <2>4, Zenon DEF Begins
  <2>5. CASE \E d \in Amounts : BeginAdjust(w, d)
    BY <2>5, Zenon DEF Begins
  <2>6. CASE \E op \in {"apply", "clear"}, m \in Months : BeginStaff(w, op, m)
    BY <2>6, Zenon DEF Begins
  <2> QED
    BY <1>2, <2>1, <2>2, <2>3, <2>4, <2>5, <2>6, Zenon
<1> QED
  BY <1>1, <1>2, Zenon

LEMMA NextTyped == TypeInv /\ [Next]_vars => TypeInv'
<1> SUFFICES ASSUME TypeInv, [Next]_vars PROVE TypeInv'
  OBVIOUS
<1>1. CASE UNCHANGED vars
  BY <1>1 DEF vars, TypeInv, CalendarInv, AccountsInv, WorkersInv, FeesInv, Opened,
              Accounts, Funded
<1>2. CASE Next
  <2>1. CASE NextMonth
    BY <2>1, NextMonthTyped
  <2>2. ASSUME NEW w \in Workers,
               \/ StartTask(w) \/ CommitExpire(w) \/ CommitClose(w)
               \/ \E m \in Months : BeginClose(w, m)
               \/ CommitFee(w) \/ CommitAdjust(w) \/ CommitApply(w) \/ CommitClear(w)
               \/ \E v \in Edits : CommitEdit(w, v)
               \/ \E t : Begins(w, t)
        PROVE  TypeInv'
    BY <2>2, StartTaskTyped, ExpireTyped, CloseTyped, BeginCloseTyped, FeeTyped,
       AdjustTyped, StaffSaveTyped, EditTyped, BeginsTyped, Zenon
  <2> QED
    BY <1>2, <2>1, <2>2, NextCases, Zenon
<1> QED
  BY <1>1, <1>2

\* The months, the balances, the ledger, the items and the workers keep their
\* types, and the lock is with a worker in a locked transaction
\* (select_for_update), whatever unlocked requests run.
THEOREM TypeCorrect == Spec => []TypeOK
<1>1. Init => TypeInv
  BY InitTyped
<1>2. TypeInv /\ [Next]_vars => TypeInv'
  BY NextTyped
<1>3. TypeInv => TypeOK
  BY TypesFollow
<1> QED
  BY <1>1, <1>2, <1>3, PTL DEF Spec

-----------------------------------------------------------------------------
(***************************************************************************)
(* What a step does to the credit, and to which copies.                    *)
(***************************************************************************)

Quiet == UNCHANGED <<balance, floor, book, item, accrued>>

\* The steps that change the credit: a position is saved, ...
Saves(w) ==
  /\ proc[w].op \in {"close", "apply", "clear"}
  /\ \E m \in Months : \E c \in Positions(Funded) :
       Follows(c, proc[w].org, m) /\ SavePosition(c, m, proc[w].org)
  /\ UNCHANGED <<floor, accrued>>

\* ... a fee is earned, ...
EarnsFee(w) ==
  /\ proc[w].op = "fee"
  /\ \E x \in DOMAIN Fee \ accrued :
       /\ accrued' = accrued \cup {x}
       /\ balance' = [balance EXCEPT ![Org] = proc[w].org + Fee[x]]
       /\ book' = [book EXCEPT ![Org] = Filed(Org, "fees", Fee[x])]
  /\ UNCHANGED <<floor, item>>

\* ... an amount is adjusted, ...
Adjusts(w) ==
  /\ proc[w].op = "adjust"
  /\ proc[w].org + proc[w].d >= 0 /\ (proc[w].d < 0 => -proc[w].d <= proc[w].earned)
  /\ balance' = [balance EXCEPT ![Org] = proc[w].org + proc[w].d]
  /\ book' = [book EXCEPT ![Org] = Filed(Org, "adjusted", proc[w].d)]
  /\ UNCHANGED <<floor, item, accrued>>

\* ... or the credit is edited; expiry is CommitExpire.
Edited(w) ==
  /\ proc[w].op = "edit"
  /\ \E v \in Edits : /\ balance' = [balance EXCEPT ![Org] = v]
                      /\ book' = [book EXCEPT ![Org] = Filed(Org, "other", v - proc[w].org)]
  /\ UNCHANGED <<floor, item, accrued>>

Changes(w) == Saves(w) \/ CommitExpire(w) \/ EarnsFee(w) \/ Adjusts(w) \/ Edited(w)

\* Worker w moves on to task t.  A copy of the credit is a fresh one; a change
\* is made with the lock or while nobody has it.
Step(w, t) ==
  /\ t \in Tasks /\ Moves(w, t)
  /\ \/ /\ Quiet
        /\ t.op \in Holders \cup Unlocked => t.org = balance[Org]
        /\ t.op = "adjust" => t.earned = Withdrawable(balance[Org])
     \/ Changes(w) /\ t.op \in {"idle", "listed"} /\ lock \in {NoOne, w}
  /\ proc[w] = Idle => Ready(w)
  /\ t.op \in Unlocked => Alone(w)

LEMMA StartTaskStep ==
  ASSUME TypeInv, NEW w \in Workers, StartTask(w)
  PROVE  \E t : Step(w, t)
<1>1. Quiet /\ proc[w] = Idle /\ Ready(w)
  BY DEF StartTask, Ready, Quiet
<1>2. proc[w].op \notin Holders
  BY <1>1 DEF Idle, Holders
<1> DEFINE a == [op |-> "expire", org |-> balance[Org]]
           b == [op |-> "listed", todo |-> invoice.pending \ {month}]
<1>3. Moves(w, a) \/ Moves(w, b)
  BY <1>1, <1>2 DEF StartTask, ReadLocked, Moves, Holders
<1>4. a \in Tasks /\ a.op = "expire" /\ a.org = balance[Org]
  BY DEF Tasks, TypeInv, AccountsInv
<1>5. b \in Tasks /\ b.op = "listed"
  <2>1. invoice.pending \subseteq Months
    BY DEF TypeInv, CalendarInv
  <2> QED
    BY <2>1 DEF Tasks
<1> HIDE DEF a, b
<1>6. Moves(w, a) => Step(w, a)
  BY <1>1, <1>4 DEF Step, Unlocked
<1>7. Moves(w, b) => Step(w, b)
  BY <1>1, <1>5 DEF Step, Unlocked, Holders
<1> QED
  BY <1>3, <1>6, <1>7

LEMMA BeginCloseStep ==
  ASSUME TypeInv, NEW w \in Workers, NEW m \in Months, BeginClose(w, m)
  PROVE  \E t : Step(w, t)
<1> DEFINE t == [op |-> "close", m |-> m, todo |-> proc[w].todo \ {m}, org |-> balance[Org]]
<1>1. Quiet /\ Moves(w, t) /\ proc[w].op = "listed"
  BY DEF BeginClose, ReadLocked, Moves, Holders, Quiet
<1>2. t \in Tasks /\ t.op = "close" /\ t.org = balance[Org] /\ proc[w] # Idle
  <2>1. proc[w].todo \in SUBSET Months
    BY <1>1, TaskFields DEF TypeInv, WorkersInv
  <2>2. balance[Org] \in Int
    BY DEF TypeInv, AccountsInv
  <2> QED
    BY <1>1, <2>1, <2>2 DEF Tasks, Idle
<1> HIDE DEF t
<1> QED
  BY <1>1, <1>2 DEF Step, Unlocked

LEMMA BeginsStep ==
  ASSUME TypeInv, NEW w \in Workers, NEW t, Begins(w, t)
  PROVE  Step(w, t)
<1>1. t \in Tasks /\ Moves(w, t) /\ Quiet
  BY BeginsTyped DEF OnlyProc, Quiet
<1>2. CASE t = Idle /\ EndTask(w)
  BY <1>1, <1>2 DEF EndTask, Step, Idle, Unlocked, Holders
<1>3. ASSUME NEW x \in DOMAIN Fee, t = [op |-> "unaccrued", x |-> x], CheckFee(w, x)
      PROVE  Step(w, t)
  <2>1. t.op = "unaccrued" /\ Ready(w)
    BY <1>3 DEF CheckFee
  <2> QED
    BY <1>1, <2>1 DEF Step, Unlocked, Holders
<1>4. CASE t = [op |-> "fee", x |-> proc[w].x, org |-> balance[Org]] /\ BeginFee(w)
  <2>1. t.op = "fee" /\ t.org = balance[Org] /\ proc[w] # Idle
    BY <1>4 DEF BeginFee, Idle
  <2> QED
    BY <1>1, <2>1 DEF Step, Unlocked
<1>5. ASSUME NEW d \in Amounts, BeginAdjust(w, d),
             t = [op |-> "adjust", d |-> d, org |-> balance[Org],
                  earned |-> Withdrawable(balance[Org])]
      PROVE  Step(w, t)
  <2>1. /\ t.op = "adjust" /\ t.org = balance[Org] /\ Ready(w)
        /\ t.earned = Withdrawable(balance[Org])
    BY <1>5 DEF BeginAdjust
  <2> QED
    BY <1>1, <2>1 DEF Step, Unlocked
<1>6. ASSUME NEW op \in {"apply", "clear"}, NEW m \in Months, BeginStaff(w, op, m),
             t = [op |-> op, m |-> m, saw |-> HasItems(m), org |-> balance[Org]]
      PROVE  Step(w, t)
  <2>1. t.op = op /\ t.org = balance[Org] /\ Alone(w)
    BY <1>6, Zenon DEF BeginStaff
  <2>2. Ready(w)
    BY <2>1 DEF Alone
  <2> QED
    BY <1>1, <2>1, <2>2 DEF Step
<1>7. CASE t = [op |-> "edit", org |-> balance[Org]] /\ BeginEdit(w)
  <2>1. t.op = "edit" /\ t.org = balance[Org] /\ Alone(w)
    BY <1>7 DEF BeginEdit
  <2>2. Ready(w)
    BY <2>1 DEF Alone
  <2> QED
    BY <1>1, <2>1, <2>2 DEF Step
<1> QED
  BY <1>2, <1>3, <1>4, <1>5, <1>6, <1>7 DEF Begins

\* The transactions that end: each saves its change or leaves all as it was.
LEMMA CommitStep ==
  ASSUME TypeInv, NEW w \in Workers, NEW t \in Tasks, t.op \in {"idle", "listed"},
         proc' = [proc EXCEPT ![w] = t], lock \in {NoOne, w}, lock' = NoOne,
         proc[w].op # "idle", Quiet \/ Changes(w)
  PROVE  Step(w, t)
<1>1. Moves(w, t)
  BY DEF Moves, Holders
<1>2. proc[w] # Idle
  BY DEF Idle
<1> QED
  BY <1>1, <1>2 DEF Step, Holders, Unlocked

LEMMA SaveStep ==
  ASSUME TypeInv, NEW w \in Workers,
         CommitClose(w) \/ CommitApply(w) \/ CommitClear(w)
  PROVE  \E t : Step(w, t)
<1> DEFINE m == proc[w].m
           v == proc[w].org
           saw == proc[w].saw
           a == Drawn(Cleared(v, m, saw), m)
           b == RolledBack(v, m)
           c == Drawn(Cleared(v, m, HasItems(m)), m)
           next == [op |-> "listed", todo |-> proc[w].todo]
           t == IF proc[w].op = "close" THEN next ELSE Idle
<1>1. /\ UNCHANGED <<floor, accrued>> /\ proc[w].op \in {"close", "apply", "clear"}
      /\ proc' = [proc EXCEPT ![w] = t] /\ lock \in {NoOne, w} /\ lock' = NoOne
  BY DEF CommitClose, CommitApply, CommitClear, WriteRow
<1>2. m \in Months /\ v \in Int /\ (proc[w].op # "close" => saw \in BOOLEAN)
  BY <1>1, TaskFields DEF TypeInv, WorkersInv, Unlocked, Holders
<1>3. t \in Tasks /\ t.op \in {"idle", "listed"}
  <2>1. proc[w].op = "close" => proc[w].todo \in SUBSET Months
    BY TaskFields DEF TypeInv, WorkersInv
  <2> QED
    BY <2>1 DEF Tasks, Idle
<1>4. \/ SavePosition(a, m, v) /\ proc[w].op # "close"
      \/ SavePosition(b, m, v)
      \/ SavePosition(c, m, v)
      \/ UNCHANGED <<balance, item, book>>
  <2>1. CASE CommitClose(w)
    BY <2>1, Zenon DEF CommitClose
  <2>2. CASE CommitApply(w)
    <3>1. proc[w].op # "close"
      BY <2>2 DEF CommitApply
    <3> QED
      BY <2>2, <3>1, Zenon DEF CommitApply
  <2>3. CASE CommitClear(w)
    BY <2>3, Zenon DEF CommitClear
  <2> QED
    BY <2>1, <2>2, <2>3
<1>5. /\ proc[w].op # "close" => Follows(a, v, m)
      /\ Follows(b, v, m) /\ Follows(c, v, m)
  <2>1. HasItems(m) \in BOOLEAN
    BY DEF HasItems
  <2> HIDE DEF m, v, saw
  <2> QED
    BY <1>2, <2>1, DrawnFollows, RolledBackFollows DEF TypeInv
<1>6. ASSUME NEW e, Follows(e, v, m), SavePosition(e, m, v) PROVE Saves(w)
  BY <1>1, <1>2, <1>6 DEF Saves, Follows
<1>7. Quiet \/ Changes(w)
  <2> HIDE DEF a, b, c, m, v
  <2> QED
    BY <1>1, <1>4, <1>5, <1>6 DEF Quiet, Changes
<1>8. proc[w].op # "idle"
  BY <1>1
<1> HIDE DEF t
<1> QED
  BY <1>1, <1>3, <1>7, <1>8, CommitStep

LEMMA OtherCommitStep ==
  ASSUME TypeInv, NEW w \in Workers,
         CommitExpire(w) \/ CommitFee(w) \/ CommitAdjust(w) \/ \E v \in Edits : CommitEdit(w, v)
  PROVE  \E t : Step(w, t)
<1> DEFINE next == [op |-> "listed", todo |-> invoice.pending \ {month}]
           t == IF proc[w].op = "expire" THEN next ELSE Idle
<1>1. /\ proc[w].op \in {"expire", "fee", "adjust", "edit"}
      /\ proc' = [proc EXCEPT ![w] = t] /\ lock \in {NoOne, w} /\ lock' = NoOne
  BY DEF CommitExpire, CommitFee, CommitAdjust, CommitEdit, WriteRow
<1>2. t \in Tasks /\ t.op \in {"idle", "listed"}
  <2>1. invoice.pending \subseteq Months
    BY DEF TypeInv, CalendarInv
  <2> QED
    BY <2>1 DEF Tasks, Idle
<1>3. Quiet \/ Changes(w)
  <2>1. CASE CommitExpire(w)
    BY <2>1 DEF Changes
  <2>2. CASE CommitFee(w)
    <3>1. proc[w].x \in DOMAIN Fee /\ proc[w].op = "fee"
      BY <2>2, TaskFields DEF TypeInv, WorkersInv, CommitFee
    <3>2. \/ /\ proc[w].x \notin accrued /\ accrued' = accrued \cup {proc[w].x}
             /\ balance' = [balance EXCEPT ![Org] = proc[w].org + Fee[proc[w].x]]
             /\ book' = [book EXCEPT ![Org] = Filed(Org, "fees", Fee[proc[w].x])]
          \/ UNCHANGED <<accrued, balance, book>>
      BY <2>2, Zenon DEF CommitFee, FeeIsNew
    <3>3. UNCHANGED <<floor, item>>
      BY <2>2 DEF CommitFee
    <3>4. CASE UNCHANGED <<accrued, balance, book>>
      BY <3>3, <3>4 DEF Quiet
    <3>5. CASE /\ proc[w].x \notin accrued /\ accrued' = accrued \cup {proc[w].x}
               /\ balance' = [balance EXCEPT ![Org] = proc[w].org + Fee[proc[w].x]]
               /\ book' = [book EXCEPT ![Org] = Filed(Org, "fees", Fee[proc[w].x])]
      BY <3>1, <3>3, <3>5, Zenon DEF EarnsFee, Changes
    <3> QED
      BY <3>2, <3>4, <3>5
  <2>3. CASE CommitAdjust(w)
    <3>1. Adjusts(w) \/ Quiet
      BY <2>3, Zenon DEF CommitAdjust, Adjusts, Quiet
    <3> QED
      BY <3>1 DEF Changes
  <2>4. ASSUME NEW v \in Edits, CommitEdit(w, v) PROVE Changes(w)
    BY <2>4, Zenon DEF CommitEdit, Edited, Changes
  <2> QED
    BY <2>1, <2>2, <2>3, <2>4
<1> HIDE DEF t
<1> QED
  BY <1>1, <1>2, <1>3, CommitStep

LEMMA Steps ==
  ASSUME TypeInv, Next
  PROVE  \/ Quiet /\ UNCHANGED <<proc, lock>>
         \/ \E w \in Workers : \E t : Step(w, t)
<1>1. CASE NextMonth
  BY <1>1 DEF NextMonth, Quiet
<1>2. ASSUME NEW w \in Workers,
             \/ StartTask(w) \/ CommitExpire(w) \/ CommitClose(w)
             \/ \E m \in Months : BeginClose(w, m)
             \/ CommitFee(w) \/ CommitAdjust(w) \/ CommitApply(w) \/ CommitClear(w)
             \/ \E v \in Edits : CommitEdit(w, v)
             \/ \E t : Begins(w, t)
      PROVE  \E t : Step(w, t)
  BY <1>2, StartTaskStep, BeginCloseStep, BeginsStep, SaveStep, OtherCommitStep, Zenon
<1> QED
  BY <1>1, <1>2, NextCases, Zenon

-----------------------------------------------------------------------------
(***************************************************************************)
(* The allocations.                                                        *)
(***************************************************************************)

LEMMA RowEffects ==
  ASSUME TypeInv, NEW w \in Workers, EarnsFee(w) \/ Adjusts(w) \/ Edited(w)
  PROVE  /\ AccountsInv' /\ Accounts' = Accounts /\ Funded' = Funded
         /\ \A p \in Funded : balance'[p] = balance[p] /\ book'[p] = book[p]
         /\ book'[Org].drawn = book[Org].drawn
         /\ item' = item /\ floor' = floor
         /\ EarnsFee(w) => \E x \in DOMAIN Fee \ accrued :
              /\ accrued' = accrued \cup {x}
              /\ balance'[Org] = proc[w].org + Fee[x]
              /\ book'[Org].fees = book[Org].fees + Fee[x]
              /\ book'[Org].adjusted = book[Org].adjusted
              /\ book'[Org].other = book[Org].other
         /\ Adjusts(w) => /\ accrued' = accrued
                          /\ balance'[Org] = proc[w].org + proc[w].d
                          /\ book'[Org].fees = book[Org].fees
                          /\ book'[Org].adjusted = book[Org].adjusted + proc[w].d
                          /\ book'[Org].other = book[Org].other
         /\ Edited(w) => \E v \in Edits :
              /\ accrued' = accrued
              /\ balance'[Org] = v
              /\ book'[Org].fees = book[Org].fees
              /\ book'[Org].adjusted = book[Org].adjusted
              /\ book'[Org].other = book[Org].other + v - proc[w].org
<1>1. AccountsInv /\ book[Org] \in Books
  BY DEF TypeInv, AccountsInv
<1>2. CASE EarnsFee(w)
  <2>1. PICK x \in DOMAIN Fee \ accrued :
          /\ accrued' = accrued \cup {x}
          /\ balance' = [balance EXCEPT ![Org] = proc[w].org + Fee[x]]
          /\ book' = [book EXCEPT ![Org] = Filed(Org, "fees", Fee[x])]
    BY <1>2 DEF EarnsFee
  <2>2. UNCHANGED <<floor, item>> /\ ~ Adjusts(w) /\ ~ Edited(w)
    BY <1>2 DEF EarnsFee, Adjusts, Edited
  <2> DEFINE d == Fee[x]
             u == proc[w].org + d
  <2>3. d \in Int /\ u \in Int
    <3>1. proc[w].org \in Int
      BY <1>2, TaskFields DEF TypeInv, WorkersInv, EarnsFee, Holders
    <3> QED
      BY <3>1, AmountAssumption
  <2> HIDE DEF d, u
  <2>4. balance' = [balance EXCEPT ![Org] = u] /\ book' = [book EXCEPT ![Org] = Filed(Org, "fees", d)]
    BY <2>1 DEF d, u
  <2>5. /\ AccountsInv' /\ Accounts' = Accounts /\ Funded' = Funded
        /\ balance'[Org] = u /\ \A p \in Funded : balance'[p] = balance[p] /\ book'[p] = book[p]
        /\ book'[Org].drawn = book[Org].drawn
        /\ book'[Org].fees = book[Org].fees + d
        /\ book'[Org].adjusted = book[Org].adjusted + 0
        /\ book'[Org].other = book[Org].other + 0
    BY <1>1, <2>2, <2>3, <2>4, RowFiled
  <2>6. book'[Org].adjusted = book[Org].adjusted /\ book'[Org].other = book[Org].other
    BY <1>1, <2>5 DEF Books
  <2>7. \E y \in DOMAIN Fee \ accrued :
              /\ accrued' = accrued \cup {y}
              /\ balance'[Org] = proc[w].org + Fee[y]
              /\ book'[Org].fees = book[Org].fees + Fee[y]
              /\ book'[Org].adjusted = book[Org].adjusted
              /\ book'[Org].other = book[Org].other
    BY <2>1, <2>5, <2>6, Zenon DEF d, u
  <2> QED
    BY <2>2, <2>5, <2>7
<1>3. CASE Adjusts(w)
  <2>1. /\ balance' = [balance EXCEPT ![Org] = proc[w].org + proc[w].d]
        /\ book' = [book EXCEPT ![Org] = Filed(Org, "adjusted", proc[w].d)]
        /\ UNCHANGED <<floor, item, accrued>> /\ proc[w].op = "adjust"
    BY <1>3 DEF Adjusts
  <2>2. ~ EarnsFee(w) /\ ~ Edited(w)
    BY <2>1 DEF EarnsFee, Edited
  <2> DEFINE d == proc[w].d
             u == proc[w].org + d
  <2>3. d \in Int /\ u \in Int
    BY <2>1, TaskFields DEF TypeInv, WorkersInv, Holders
  <2> HIDE DEF d, u
  <2>4. balance' = [balance EXCEPT ![Org] = u] /\ book' = [book EXCEPT ![Org] = Filed(Org, "adjusted", d)]
    BY <2>1 DEF d, u
  <2>5. /\ AccountsInv' /\ Accounts' = Accounts /\ Funded' = Funded
        /\ balance'[Org] = u /\ \A p \in Funded : balance'[p] = balance[p] /\ book'[p] = book[p]
        /\ book'[Org].drawn = book[Org].drawn
        /\ book'[Org].fees = book[Org].fees + 0
        /\ book'[Org].adjusted = book[Org].adjusted + d
        /\ book'[Org].other = book[Org].other + 0
    BY <1>1, <2>1, <2>3, <2>4, RowFiled
  <2>6. book'[Org].fees = book[Org].fees /\ book'[Org].other = book[Org].other
    BY <1>1, <2>5 DEF Books
  <2> QED
    BY <2>1, <2>2, <2>5, <2>6 DEF d, u
<1>4. CASE Edited(w)
  <2>1. PICK v \in Edits :
          /\ balance' = [balance EXCEPT ![Org] = v]
          /\ book' = [book EXCEPT ![Org] = Filed(Org, "other", v - proc[w].org)]
    BY <1>4 DEF Edited
  <2>2. UNCHANGED <<floor, item, accrued>> /\ ~ EarnsFee(w) /\ ~ Adjusts(w) /\ proc[w].op = "edit"
    BY <1>4 DEF EarnsFee, Adjusts, Edited
  <2> DEFINE d == v - proc[w].org
  <2>3. d \in Int /\ v \in Int /\ proc[w].org \in Int
    BY <2>2, TaskFields, AmountAssumption DEF TypeInv, WorkersInv, Unlocked
  <2> HIDE DEF d
  <2>4. book' = [book EXCEPT ![Org] = Filed(Org, "other", d)]
    BY <2>1 DEF d
  <2>5. /\ AccountsInv' /\ Accounts' = Accounts /\ Funded' = Funded
        /\ balance'[Org] = v /\ \A p \in Funded : balance'[p] = balance[p] /\ book'[p] = book[p]
        /\ book'[Org].drawn = book[Org].drawn
        /\ book'[Org].fees = book[Org].fees + 0
        /\ book'[Org].adjusted = book[Org].adjusted + 0
        /\ book'[Org].other = book[Org].other + d
    BY <1>1, <2>1, <2>2, <2>3, <2>4, RowFiled
  <2>6. /\ book'[Org].fees = book[Org].fees /\ book'[Org].adjusted = book[Org].adjusted
        /\ book'[Org].other = book[Org].other + v - proc[w].org
    BY <1>1, <2>3, <2>5 DEF Books, d
  <2> QED
    BY <2>2, <2>5, <2>6
<1> QED
  BY <1>2, <1>3, <1>4

\* The effects of a saved position, of any worker.
LEMMA SaveEffects ==
  ASSUME TypeInv, NEW w \in Workers, Saves(w)
  PROVE  \E m \in Months : \E c \in Positions(Funded) :
           /\ Follows(c, proc[w].org, m) /\ proc[w].org \in Int
           /\ accrued' = accrued /\ floor' = floor
           /\ AccountsInv' /\ Accounts' = Accounts /\ Funded' = Funded
           /\ balance'[Org] = c.org /\ \A p \in Funded : balance'[p] = c.alloc[p]
           /\ item'[m] = c.item /\ \A n \in Months \ {m} : item'[n] = item[n]
           /\ \A a \in Accounts :
                /\ book'[a].fees = book[a].fees /\ book'[a].adjusted = book[a].adjusted
                /\ book'[a].other = book[a].other
                /\ \A n \in Months \ {m} : book'[a].drawn[n] = book[a].drawn[n]
                /\ book'[a].drawn[m] = book[a].drawn[m]
                     + (IF a = Org THEN c.org - proc[w].org ELSE c.alloc[a] - balance[a])
<1> DEFINE v == proc[w].org
<1>1. v \in Int
  BY TaskFields DEF TypeInv, WorkersInv, Saves, Holders, Unlocked
<1>2. PICK m \in Months, c \in Positions(Funded) : Follows(c, v, m) /\ SavePosition(c, m, v)
  BY DEF Saves
<1>3. UNCHANGED <<floor, accrued>> /\ AccountsInv
  BY DEF Saves, TypeInv
<1> HIDE DEF v
<1>4. /\ AccountsInv' /\ Accounts' = Accounts /\ Funded' = Funded
      /\ balance'[Org] = c.org /\ \A p \in Funded : balance'[p] = c.alloc[p]
      /\ item'[m] = c.item /\ \A n \in Months \ {m} : item'[n] = item[n]
      /\ \A a \in Accounts :
           /\ book'[a].fees = book[a].fees /\ book'[a].adjusted = book[a].adjusted
           /\ book'[a].other = book[a].other
           /\ \A n \in Months \ {m} : book'[a].drawn[n] = book[a].drawn[n]
           /\ book'[a].drawn[m] = book[a].drawn[m]
                + (IF a = Org THEN c.org - v ELSE c.alloc[a] - balance[a])
  BY <1>1, <1>2, <1>3, PositionSaved
<1> QED
  BY <1>1, <1>2, <1>3, <1>4, Zenon DEF v

LEMMA BackedStep ==
  ASSUME TypeInv, AllocationsAreBacked, Next
  PROVE  AllocationsAreBacked'
<1>1. \A p \in Funded : p \in Accounts /\ p \in Projects /\ p # Org
  BY DEF TypeInv, AccountsInv, Funded
<1>2. CASE Quiet
  BY <1>2 DEF Quiet, AllocationsAreBacked, Funded, Accounts
<1>3. ASSUME NEW w \in Workers, Saves(w) PROVE AllocationsAreBacked'
  <2>1. PICK m \in Months, c \in Positions(Funded) :
          /\ Follows(c, proc[w].org, m) /\ Funded' = Funded
          /\ item'[m] = c.item /\ \A n \in Months \ {m} : item'[n] = item[n]
          /\ \A a \in Accounts :
               /\ \A n \in Months \ {m} : book'[a].drawn[n] = book[a].drawn[n]
               /\ book'[a].drawn[m] = book[a].drawn[m]
                    + (IF a = Org THEN c.org - proc[w].org ELSE c.alloc[a] - balance[a])
    BY <1>3, SaveEffects
  <2>2. ASSUME NEW p \in Funded PROVE item'[m][p] = -book'[p].drawn[m]
    <3>1. c.alloc[p] + c.item[p] = balance[p] + item[m][p]
      BY <2>1 DEF Follows
    <3>2. item[m][p] = -book[p].drawn[m]
      BY DEF AllocationsAreBacked
    <3>3. book'[p].drawn[m] = book[p].drawn[m] + (c.alloc[p] - balance[p])
      BY <1>1, <2>1
    <3>4. /\ book[p].drawn[m] \in Int /\ balance[p] \in Int /\ item[m][p] \in Int
          /\ c.alloc[p] \in Int /\ c.item[p] \in Int
      BY <1>1 DEF TypeInv, AccountsInv, Books, Positions
    <3> QED
      BY <2>1, <3>1, <3>2, <3>3, <3>4
  <2>3. ASSUME NEW n \in Months \ {m}, NEW p \in Funded
        PROVE  item'[n][p] = -book'[p].drawn[n]
    BY <1>1, <2>1 DEF AllocationsAreBacked
  <2> QED
    BY <2>1, <2>2, <2>3 DEF AllocationsAreBacked
<1>4. ASSUME NEW w \in Workers, CommitExpire(w) PROVE AllocationsAreBacked'
  <2>1. Funded' = Funded /\ \A a \in Accounts : book'[a].drawn = book[a].drawn
    BY <1>4, CreditExpires
  <2>2. item' = item
    BY <1>4 DEF CommitExpire
  <2> QED
    BY <1>1, <2>1, <2>2 DEF AllocationsAreBacked
<1>5. ASSUME NEW w \in Workers, EarnsFee(w) \/ Adjusts(w) \/ Edited(w)
      PROVE  AllocationsAreBacked'
  <2>1. item' = item /\ Funded' = Funded /\ \A p \in Funded : book'[p] = book[p]
    BY <1>5, RowEffects
  <2> QED
    BY <2>1 DEF AllocationsAreBacked
<1> QED
  BY <1>2, <1>3, <1>4, <1>5, Steps DEF Step, Changes

LEMMA InitDrawn ==
  ASSUME Init
  PROVE  /\ \A a \in Accounts : /\ book[a].fees = 0 /\ book[a].adjusted = 0
                                /\ book[a].other = balance[a]
                                /\ \A m \in Months : book[a].drawn[m] = 0
         /\ \A m \in Months : \A p \in Projects : item[m][p] = 0
         /\ accrued = {} /\ \A w \in Workers : proc[w] = Idle
<1>1. PICK s \in Setups :
        /\ balance = [a \in {Org} \cup DOMAIN s.alloc |->
                        IF a = Org THEN s.org ELSE s.alloc[a]]
        /\ book = [a \in {Org} \cup DOMAIN s.alloc |->
                     [EmptyBook EXCEPT !.other = IF a = Org THEN s.org ELSE s.alloc[a]]]
  BY DEF Init
<1>2. ASSUME NEW a \in Accounts
      PROVE  /\ book[a].fees = 0 /\ book[a].adjusted = 0 /\ book[a].other = balance[a]
             /\ \A m \in Months : book[a].drawn[m] = 0
  <2>1. a \in {Org} \cup DOMAIN s.alloc
    BY <1>1 DEF Accounts
  <2>2. book[a] = [EmptyBook EXCEPT !.other = balance[a]]
    BY <1>1, <2>1
  <2> QED
    BY <2>2 DEF EmptyBook
<1> QED
  BY <1>2 DEF Init

\* What a project's compensation items of a month say is what its allocation
\* gave up for that month: no roll-back, recalculation, expiry or race with a
\* staff request makes an allocation pay twice or not at all
\* (MonthlyCompensation.save, clear_compensations).
THEOREM AllocationsBacked == Spec => []AllocationsAreBacked
<1>1. Init => TypeInv /\ AllocationsAreBacked
  <2> SUFFICES ASSUME Init PROVE TypeInv /\ AllocationsAreBacked
    OBVIOUS
  <2>1. TypeInv
    BY InitTyped
  <2>2. \A p \in Funded : p \in Accounts /\ p \in Projects
    BY <2>1 DEF TypeInv, AccountsInv, Funded
  <2> QED
    BY <2>1, <2>2, InitDrawn DEF AllocationsAreBacked
<1>2. TypeInv /\ AllocationsAreBacked /\ [Next]_vars => (TypeInv /\ AllocationsAreBacked)'
  <2> SUFFICES ASSUME TypeInv, AllocationsAreBacked, [Next]_vars
               PROVE  TypeInv' /\ AllocationsAreBacked'
    OBVIOUS
  <2>1. TypeInv'
    BY NextTyped
  <2>2. CASE UNCHANGED vars
    BY <2>1, <2>2 DEF vars, AllocationsAreBacked, Funded, Accounts
  <2>3. CASE Next
    BY <2>1, <2>3, BackedStep
  <2> QED
    BY <2>2, <2>3
<1> QED
  BY <1>1, <1>2, PTL DEF Spec

-----------------------------------------------------------------------------
(***************************************************************************)
(* Fees and withdrawals.                                                   *)
(***************************************************************************)

LEMMA FeesStep ==
  ASSUME TypeInv, FeesOnce, Next
  PROVE  FeesOnce'
<1>1. IsFiniteSet(accrued) /\ accrued \subseteq DOMAIN Fee /\ Org \in Accounts
  BY DEF TypeInv, FeesInv, AccountsInv
<1>2. CASE Quiet
  BY <1>2 DEF Quiet, FeesOnce
<1>3. ASSUME NEW w \in Workers, Saves(w) PROVE FeesOnce'
  BY <1>1, <1>3, SaveEffects DEF FeesOnce
<1>4. ASSUME NEW w \in Workers, CommitExpire(w) PROVE FeesOnce'
  <2>1. accrued' = accrued
    BY <1>4 DEF CommitExpire
  <2> QED
    BY <1>1, <1>4, <2>1, CreditExpires DEF FeesOnce
<1>5. ASSUME NEW w \in Workers, EarnsFee(w) PROVE FeesOnce'
  <2>1. PICK x \in DOMAIN Fee \ accrued :
          accrued' = accrued \cup {x} /\ book'[Org].fees = book[Org].fees + Fee[x]
    BY <1>5, RowEffects
  <2>2. Total(Fee, accrued \cup {x}) = Fee[x] + Total(Fee, accrued)
    <3>1. \A y \in accrued \cup {x} : Fee[y] \in Int
      BY <1>1, AmountAssumption
    <3> QED
      BY <1>1, <2>1, <3>1, TotalWith
  <2>3. Fee[x] \in Int /\ book[Org].fees \in Int
    BY <1>1, AmountAssumption DEF TypeInv, AccountsInv, Books
  <2> QED
    BY <2>1, <2>2, <2>3 DEF FeesOnce
<1>6. ASSUME NEW w \in Workers, Adjusts(w) \/ Edited(w) PROVE FeesOnce'
  <2>1. accrued' = accrued /\ book'[Org].fees = book[Org].fees
    BY <1>6, RowEffects
  <2> QED
    BY <2>1 DEF FeesOnce
<1> QED
  BY <1>2, <1>3, <1>4, <1>5, <1>6, Steps DEF Step, Changes

\* The fees in the ledger are those of the invoices with an accrual, each once,
\* however many workers finalize an invoice and however often
\* (accrue_affiliate_fee).
THEOREM FeesEarnedOnce == Spec => []FeesOnce
<1>1. Init => TypeInv /\ FeesOnce
  <2> SUFFICES ASSUME Init PROVE TypeInv /\ FeesOnce
    OBVIOUS
  <2>1. TypeInv
    BY InitTyped
  <2>2. accrued = {} /\ book[Org].fees = 0
    BY <2>1, InitDrawn DEF TypeInv, AccountsInv
  <2>3. Total(Fee, {}) = 0
    BY FS_EmptySet, TotalOfNothing
  <2> QED
    BY <2>1, <2>2, <2>3 DEF FeesOnce
<1>2. TypeInv /\ FeesOnce /\ [Next]_vars => (TypeInv /\ FeesOnce)'
  <2> SUFFICES ASSUME TypeInv, FeesOnce, [Next]_vars PROVE TypeInv' /\ FeesOnce'
    OBVIOUS
  <2>1. TypeInv'
    BY NextTyped
  <2>2. CASE UNCHANGED vars
    BY <2>1, <2>2 DEF vars, FeesOnce
  <2>3. CASE Next
    BY <2>1, <2>3, FeesStep
  <2> QED
    BY <2>2, <2>3
<1> QED
  BY <1>1, <1>2, PTL DEF Spec

\* The amount a payout was checked against is never more than what is earned
\* now: nobody else writes the fees or the adjustments while it holds the lock.
EarningsInv ==
  /\ Earned >= 0
  /\ \A w \in Workers : proc[w].op = "adjust" => proc[w].earned <= Earned

LEMMA EarningsStep ==
  ASSUME TypeInv, TypeInv', EarningsInv, Next
  PROVE  EarningsInv'
<1>1. Earned \in Int /\ Org \in Accounts /\ book[Org] \in Books
  BY EarnedIsInt DEF TypeInv, AccountsInv
<1>2. CASE Quiet /\ UNCHANGED proc
  BY <1>2 DEF Quiet, EarningsInv, Earned
<1>3. ASSUME NEW w \in Workers, NEW t, Step(w, t) PROVE EarningsInv'
  <2>1. /\ t \in Tasks /\ proc'[w] = t
        /\ \A x \in Workers \ {w} : proc'[x] = proc[x]
    BY <1>3 DEF Step, Moves, TypeInv, WorkersInv
  <2>2. CASE Quiet
    <3>1. Earned' = Earned
      BY <2>2 DEF Quiet, Earned
    <3>2. t.op = "adjust" => t.earned <= Earned
      <4>1. SUFFICES ASSUME t.op = "adjust" PROVE t.earned <= Earned
        OBVIOUS
      <4>2. t.earned = Withdrawable(balance[Org])
        BY <1>3, <4>1, Zenon DEF Step
      <4>3. t.earned = Withdrawable(balance[Org]) /\ balance[Org] \in Int
        BY <4>1, <4>2 DEF TypeInv, AccountsInv
      <4> QED
        BY <1>1, <4>3 DEF Withdrawable, Most, Least, EarningsInv
    <3> QED
      BY <2>1, <3>1, <3>2 DEF EarningsInv
  <2>3. CASE Changes(w) /\ t.op \in {"idle", "listed"} /\ lock \in {NoOne, w}
    \* A worker about to adjust holds the lock: it is w itself.
    <3>1. \A x \in Workers : proc'[x].op # "adjust"
      <4>1. ASSUME NEW x \in Workers, proc[x].op = "adjust" PROVE x = w
        <5>1. lock = x
          BY <4>1 DEF TypeInv, WorkersInv, Holders
        <5> QED
          BY <2>3, <5>1, ScopeAssumption
      <4> QED
        BY <2>1, <2>3, <4>1
    <3>2. Earned' >= 0
      <4>1. CASE Saves(w)
        <5>1. book'[Org].fees = book[Org].fees /\ book'[Org].adjusted = book[Org].adjusted
          BY <1>1, <4>1, SaveEffects
        <5> QED
          BY <5>1 DEF EarningsInv, Earned
      <4>2. CASE CommitExpire(w)
        <5>1. book'[Org].fees = book[Org].fees /\ book'[Org].adjusted = book[Org].adjusted
          BY <1>1, <4>2, CreditExpires
        <5> QED
          BY <5>1 DEF EarningsInv, Earned
      <4>3. CASE EarnsFee(w)
        <5>1. PICK x \in DOMAIN Fee : /\ book'[Org].fees = book[Org].fees + Fee[x]
                                      /\ book'[Org].adjusted = book[Org].adjusted
          BY <4>3, RowEffects
        <5>2. Fee[x] \in Nat
          BY AmountAssumption
        <5> QED
          BY <1>1, <5>1, <5>2 DEF EarningsInv, Earned, Books
      <4>4. CASE Adjusts(w)
        <5>1. /\ book'[Org].fees = book[Org].fees
              /\ book'[Org].adjusted = book[Org].adjusted + proc[w].d
          BY <4>4, RowEffects
        <5>2. /\ proc[w].op = "adjust" /\ (proc[w].d < 0 => -proc[w].d <= proc[w].earned)
              /\ proc[w].d \in Int /\ proc[w].earned \in Int
          BY <4>4, TaskFields DEF Adjusts, TypeInv, WorkersInv
        <5>3. proc[w].earned <= Earned
          BY <5>2 DEF EarningsInv
        <5> QED
          BY <1>1, <5>1, <5>2, <5>3 DEF EarningsInv, Earned, Books
      <4>5. CASE Edited(w)
        <5>1. book'[Org].fees = book[Org].fees /\ book'[Org].adjusted = book[Org].adjusted
          BY <4>5, RowEffects
        <5> QED
          BY <5>1 DEF EarningsInv, Earned
      <4> QED
        BY <2>3, <4>1, <4>2, <4>3, <4>4, <4>5 DEF Changes
    <3> QED
      BY <3>1, <3>2 DEF EarningsInv
  <2> QED
    BY <1>3, <2>2, <2>3 DEF Step
<1> QED
  BY <1>2, <1>3, Steps

\* The credit never pays out more than it earned, whichever payouts, fees and
\* unlocked requests run together: a payout is checked and written under the
\* lock (adjust_withdrawable, withdrawable_balance).
THEOREM PaidFromEarned == Spec => []PaidFromEarnings
<1>1. Init => TypeInv /\ EarningsInv
  <2> SUFFICES ASSUME Init PROVE TypeInv /\ EarningsInv
    OBVIOUS
  <2>1. TypeInv
    BY InitTyped
  <2>2. book[Org].fees = 0 /\ book[Org].adjusted = 0
    BY <2>1, InitDrawn DEF TypeInv, AccountsInv
  <2>3. \A w \in Workers : proc[w].op # "adjust"
    BY InitDrawn DEF Idle
  <2> QED
    BY <2>1, <2>2, <2>3 DEF EarningsInv, Earned
<1>2. TypeInv /\ EarningsInv /\ [Next]_vars => (TypeInv /\ EarningsInv)'
  <2> SUFFICES ASSUME TypeInv, EarningsInv, [Next]_vars PROVE TypeInv' /\ EarningsInv'
    OBVIOUS
  <2>1. TypeInv'
    BY NextTyped
  <2>2. CASE UNCHANGED vars
    BY <2>1, <2>2 DEF vars, EarningsInv, Earned
  <2>3. CASE Next
    BY <2>1, <2>3, EarningsStep
  <2> QED
    BY <2>1, <2>2, <2>3
<1>3. EarningsInv => PaidFromEarnings
  BY DEF EarningsInv, PaidFromEarnings
<1> QED
  BY <1>1, <1>2, <1>3, PTL DEF Spec

-----------------------------------------------------------------------------
(***************************************************************************)
(* The ledger.                                                             *)
(***************************************************************************)

\* What the rows of a book add up to: Recorded(a) for the book of a.
BookTotal(b) == Total(b.drawn, Months) + b.fees + b.adjusted + b.other

LEMMA BookChange ==
  ASSUME NEW b \in Books, NEW d \in Books, NEW m \in Months, NEW e \in Int,
         d.drawn[m] = b.drawn[m] + e, \A n \in Months \ {m} : d.drawn[n] = b.drawn[n],
         d.fees = b.fees, d.adjusted = b.adjusted, d.other = b.other
  PROVE  BookTotal(d) = BookTotal(b) + e
<1> DEFINE f == b.drawn
           g == d.drawn
<1>1. /\ \A n \in Months : f[n] \in Int
      /\ \A n \in Months : g[n] \in Int
  BY DEF Books
<1>2. Total(g, Months) = Total(f, Months) + g[m] - f[m]
  <2>1. \A n \in Months \ {m} : g[n] = f[n]
    OBVIOUS
  <2>2. g[m] \in Int /\ IsFiniteSet(Months)
    BY <1>1, MonthsAre
  <2> HIDE DEF f, g
  <2> QED
    BY <1>1, <2>1, <2>2, TotalChange, SMTT(30)
<1>3. Total(f, Months) \in Int
  <2> HIDE DEF f, g
  <2> QED
    BY <1>1, MonthsAre, TotalIsInt
<1> QED
  BY <1>1, <1>2, <1>3 DEF BookTotal, Books

\* While staff requests run alone, every copy of the credit is up to date when
\* it is written: a locked one because the row is locked, an unlocked one
\* because nothing else runs.
ReadsInv ==
  \A w \in Workers : proc[w].op \in Holders \cup Unlocked => proc[w].org = balance[Org]

AloneInv ==
  \A w, x \in Workers : proc[w].op \in Unlocked /\ x # w => proc[x] = Idle

LedgerInv == Reconciles /\ ReadsInv /\ AloneInv

LEMMA AloneStep ==
  ASSUME TypeInv, AloneInv, StaffAlone, NEW w \in Workers, NEW t, Step(w, t)
  PROVE  AloneInv' /\ \A x \in Workers \ {w} : proc[x].op \notin Unlocked
<1>1. /\ proc'[w] = t /\ \A x \in Workers \ {w} : proc'[x] = proc[x]
  BY DEF Step, Moves, TypeInv, WorkersInv
<1>2. ASSUME NEW x \in Workers \ {w}, proc[x].op \in Unlocked PROVE FALSE
  <2>1. proc[w] = Idle
    BY <1>2 DEF AloneInv
  <2>2. Ready(w)
    BY <2>1 DEF Step
  <2> QED
    BY <1>2, <2>2 DEF Ready
<1>3. ASSUME t.op \in Unlocked PROVE \A x \in Workers : proc[x] = Idle
  <2>1. Alone(w)
    BY <1>3 DEF Step
  <2> QED
    BY <2>1 DEF Alone
<1> QED
  BY <1>1, <1>2, <1>3 DEF AloneInv

LEMMA ReadsStep ==
  ASSUME TypeInv, AloneInv, ReadsInv, StaffAlone, NEW w \in Workers, NEW t, Step(w, t)
  PROVE  ReadsInv'
<1>1. /\ proc'[w] = t /\ \A x \in Workers \ {w} : proc'[x] = proc[x]
  BY DEF Step, Moves, TypeInv, WorkersInv
<1>2. CASE Changes(w) /\ t.op \in {"idle", "listed"} /\ lock \in {NoOne, w}
  <2>1. ASSUME NEW x \in Workers PROVE proc'[x].op \notin Holders \cup Unlocked
    <3>1. CASE x = w
      BY <1>1, <1>2, <3>1 DEF Holders, Unlocked
    <3>2. CASE x # w
      <4>1. proc[x].op \notin Unlocked
        BY <3>2, AloneStep
      <4>2. proc[x].op \notin Holders
        BY <1>2, <3>2, ScopeAssumption DEF TypeInv, WorkersInv
      <4> QED
        BY <1>1, <3>2, <4>1, <4>2
    <3> QED
      BY <3>1, <3>2
  <2> QED
    BY <2>1 DEF ReadsInv
<1>3. CASE Quiet /\ (t.op \in Holders \cup Unlocked => t.org = balance[Org])
  BY <1>1, <1>3 DEF ReadsInv, Quiet
<1> QED
  BY <1>2, <1>3 DEF Step

LEMMA ReconcilesStep ==
  ASSUME TypeInv, TypeInv', Reconciles, ReadsInv, NEW w \in Workers, Changes(w)
  PROVE  Reconciles'
<1>1. /\ \A a \in Accounts : /\ book[a] \in Books /\ balance[a] \in Int
                             /\ BookTotal(book[a]) = balance[a]
      /\ \A a \in Accounts' : book'[a] \in Books
      /\ Org \in Accounts /\ \A a \in Accounts \ {Org} : a \in Funded
  BY DEF TypeInv, AccountsInv, Reconciles, Recorded, BookTotal, Funded
<1>2. SUFFICES \A a \in Accounts' : BookTotal(book'[a]) = balance'[a]
  BY DEF Reconciles, Recorded, BookTotal
<1>3. CASE Saves(w)
  <2>1. PICK m \in Months, c \in Positions(Funded) :
          /\ Follows(c, proc[w].org, m) /\ proc[w].org \in Int /\ Accounts' = Accounts
          /\ balance'[Org] = c.org /\ \A p \in Funded : balance'[p] = c.alloc[p]
          /\ \A a \in Accounts :
               /\ book'[a].fees = book[a].fees /\ book'[a].adjusted = book[a].adjusted
               /\ book'[a].other = book[a].other
               /\ \A n \in Months \ {m} : book'[a].drawn[n] = book[a].drawn[n]
               /\ book'[a].drawn[m] = book[a].drawn[m]
                    + (IF a = Org THEN c.org - proc[w].org ELSE c.alloc[a] - balance[a])
    BY <1>3, SaveEffects
  <2>2. proc[w].org = balance[Org]
    BY <1>3 DEF Saves, ReadsInv, Holders, Unlocked
  <2>3. ASSUME NEW a \in Accounts PROVE BookTotal(book'[a]) = balance'[a]
    <3> DEFINE b == book[a]
               d == book'[a]
               e == IF a = Org THEN c.org - proc[w].org ELSE c.alloc[a] - balance[a]
    <3>1. e \in Int
      BY <1>1, <2>1 DEF Positions
    <3>2. /\ b \in Books /\ d \in Books /\ BookTotal(b) = balance[a]
          /\ d.drawn[m] = b.drawn[m] + e
          /\ \A n \in Months \ {m} : d.drawn[n] = b.drawn[n]
          /\ d.fees = b.fees /\ d.adjusted = b.adjusted /\ d.other = b.other
      BY <1>1, <2>1
    <3>3. BookTotal(d) = BookTotal(b) + e
      <4> HIDE DEF b, d, e
      <4> QED
        BY <3>1, <3>2, BookChange
    <3>4. balance[a] + e = balance'[a]
      BY <1>1, <2>1, <2>2 DEF Positions
    <3> QED
      BY <3>2, <3>3, <3>4
  <2> QED
    BY <2>1, <2>3
<1>4. CASE CommitExpire(w)
  <2>1. /\ Accounts' = Accounts /\ proc[w].org = balance[Org]
        /\ \A a \in Accounts :
             /\ book'[a].fees = book[a].fees /\ book'[a].adjusted = book[a].adjusted
             /\ book'[a].drawn = book[a].drawn
             /\ book'[a].other = book[a].other + balance'[a]
                  - (IF a = Org THEN proc[w].org ELSE balance[a])
    <3>1. proc[w].op = "expire"
      BY <1>4 DEF CommitExpire
    <3> QED
      BY <1>4, <3>1, CreditExpires DEF ReadsInv, Holders
  <2>2. ASSUME NEW a \in Accounts PROVE BookTotal(book'[a]) = balance'[a]
    <3>1. book'[a].other = book[a].other + balance'[a] - balance[a]
      BY <2>1
    <3>2. Total(book[a].drawn, Months) \in Int
      <4>1. \A m \in Months : book[a].drawn[m] \in Int
        BY <1>1 DEF Books
      <4> QED
        BY <4>1, MonthsAre, TotalIsInt
    <3>3. balance'[a] \in Int /\ Total(book'[a].drawn, Months) = Total(book[a].drawn, Months)
      BY <2>1 DEF TypeInv, AccountsInv
    <3> QED
      BY <1>1, <2>1, <3>1, <3>2, <3>3 DEF BookTotal, Books
  <2> QED
    BY <2>1, <2>2
<1>5. CASE EarnsFee(w) \/ Adjusts(w) \/ Edited(w)
  <2>1. /\ Accounts' = Accounts /\ book'[Org].drawn = book[Org].drawn
        /\ \A p \in Funded : balance'[p] = balance[p] /\ book'[p] = book[p]
    BY <1>5, RowEffects
  <2>2. \A p \in Accounts \ {Org} : BookTotal(book'[p]) = balance'[p]
    BY <1>1, <2>1
  <2>3. Total(book[Org].drawn, Months) \in Int
    <3>1. \A m \in Months : book[Org].drawn[m] \in Int
      BY <1>1 DEF Books
    <3> QED
      BY <3>1, MonthsAre, TotalIsInt
  <2>4. proc[w].org = balance[Org]
    BY <1>5 DEF ReadsInv, EarnsFee, Adjusts, Edited, Holders, Unlocked
  <2>5. BookTotal(book'[Org]) = balance'[Org]
    <3>1. CASE EarnsFee(w)
      <4>1. PICK x \in DOMAIN Fee :
              /\ balance'[Org] = proc[w].org + Fee[x]
              /\ book'[Org].fees = book[Org].fees + Fee[x]
              /\ book'[Org].adjusted = book[Org].adjusted
              /\ book'[Org].other = book[Org].other
        BY <3>1, RowEffects
      <4>2. Fee[x] \in Int
        BY AmountAssumption
      <4> QED
        BY <1>1, <2>1, <2>3, <2>4, <4>1, <4>2 DEF BookTotal, Books
    <3>2. CASE Adjusts(w)
      <4>1. /\ balance'[Org] = proc[w].org + proc[w].d
            /\ book'[Org].fees = book[Org].fees
            /\ book'[Org].adjusted = book[Org].adjusted + proc[w].d
            /\ book'[Org].other = book[Org].other
        BY <3>2, RowEffects
      <4>2. proc[w].d \in Int
        BY <3>2, TaskFields DEF Adjusts, TypeInv, WorkersInv
      <4> QED
        BY <1>1, <2>1, <2>3, <2>4, <4>1, <4>2 DEF BookTotal, Books
    <3>3. CASE Edited(w)
      <4>1. PICK v \in Edits :
              /\ balance'[Org] = v
              /\ book'[Org].fees = book[Org].fees
              /\ book'[Org].adjusted = book[Org].adjusted
              /\ book'[Org].other = book[Org].other + v - proc[w].org
        BY <3>3, RowEffects
      <4>2. v \in Int
        BY AmountAssumption
      <4> QED
        BY <1>1, <2>1, <2>3, <2>4, <4>1, <4>2 DEF BookTotal, Books
    <3> QED
      BY <1>5, <3>1, <3>2, <3>3
  <2> QED
    BY <2>1, <2>2, <2>5
<1> QED
  BY <1>3, <1>4, <1>5 DEF Changes

\* The rows of the ledger add up to the balance of every credit, in every
\* interleaving of closings, expiry, fees, payouts and staff requests, as long
\* as nothing else runs beside a staff request: those alone read the credit
\* without a lock (record_credit_transaction).
THEOREM LedgerReconciles ==
  ASSUME StaffAlone
  PROVE  Spec => []Reconciles
<1>1. Init => TypeInv /\ LedgerInv
  <2> SUFFICES ASSUME Init PROVE TypeInv /\ LedgerInv
    OBVIOUS
  <2>1. TypeInv
    BY InitTyped
  <2>2. ReadsInv /\ AloneInv
    BY InitDrawn DEF ReadsInv, AloneInv, Idle, Holders, Unlocked
  <2>3. ASSUME NEW a \in Accounts PROVE Recorded(a) = balance[a]
    <3>1. /\ book[a].fees = 0 /\ book[a].adjusted = 0 /\ book[a].other = balance[a]
          /\ \A m \in Months : book[a].drawn[m] = 0
      BY InitDrawn
    <3>2. Total(book[a].drawn, Months) = 0
      BY <3>1, MonthsAre, TotalOfNothing
    <3>3. balance[a] \in Int
      BY <2>1 DEF TypeInv, AccountsInv
    <3> QED
      BY <3>1, <3>2, <3>3 DEF Recorded
  <2> QED
    BY <2>1, <2>2, <2>3 DEF LedgerInv, Reconciles
<1>2. TypeInv /\ LedgerInv /\ [Next]_vars => (TypeInv /\ LedgerInv)'
  <2> SUFFICES ASSUME TypeInv, LedgerInv, [Next]_vars PROVE TypeInv' /\ LedgerInv'
    OBVIOUS
  <2>1. TypeInv'
    BY NextTyped
  <2>2. CASE Quiet /\ UNCHANGED <<proc, lock>>
    BY <2>1, <2>2 DEF Quiet, LedgerInv, Reconciles, Recorded, ReadsInv, AloneInv, Accounts
  <2>3. ASSUME NEW w \in Workers, NEW t, Step(w, t) PROVE LedgerInv'
    <3>1. AloneInv'
      BY <2>3, AloneStep DEF LedgerInv
    <3>2. ReadsInv'
      BY <2>3, ReadsStep DEF LedgerInv
    <3>3. CASE Quiet
      <4>1. Reconciles'
        BY <3>3 DEF Quiet, LedgerInv, Reconciles, Recorded, Accounts
      <4> QED
        BY <3>1, <3>2, <4>1 DEF LedgerInv
    <3>4. CASE Changes(w)
      BY <2>1, <3>1, <3>2, <3>4, ReconcilesStep DEF LedgerInv
    <3> QED
      BY <2>3, <3>3, <3>4 DEF Step
  <2>4. LedgerInv'
    <3>1. CASE UNCHANGED vars
      BY <2>2, <3>1 DEF vars, Quiet
    <3>2. CASE Next
      BY <2>2, <2>3, <3>2, Steps
    <3> QED
      BY <3>1, <3>2
  <2> QED
    BY <2>1, <2>4
<1>3. LedgerInv => Reconciles
  BY DEF LedgerInv
<1> QED
  BY <1>1, <1>2, <1>3, PTL DEF Spec

-----------------------------------------------------------------------------
(***************************************************************************)
(* The months.                                                             *)
(***************************************************************************)

\* No minimal consumption, and a credit that is shared out to all projects or
\* to none.
PlainSetups == \A s \in Setups : s.floor = 0 /\ DOMAIN s.alloc \in {{}, Projects}

\* Nothing is overdrawn, and the organization paid for the items of a month
\* exactly what they amount to.
SolventInv ==
  /\ floor[Org] = 0 /\ Funded \in {{}, Projects}
  /\ Funded = {} => /\ balance[Org] >= 0
                    /\ \A w \in Workers :
                         proc[w].op \in Holders \cup Unlocked => proc[w].org >= 0
  /\ \A p \in Funded : balance[p] >= 0
  /\ \A m \in Months : \A p \in Projects : item[m][p] >= 0

PaidMonths == \A m \in Months : Total(item[m], Projects) = -book[Org].drawn[m]

LEMMA SolventHeld ==
  ASSUME TypeInv, SolventInv, NEW m \in Months, NEW v \in Int, Funded = {} => v >= 0
  PROVE  Solvent(Held(v, m), Funded)
<1>1. \A p \in Funded : Alloc[p] = balance[p]
  BY DEF Alloc
<1> QED
  BY <1>1 DEF Solvent, Held, SolventInv

LEMMA MonthsStep ==
  ASSUME TypeInv, TypeInv', SolventInv, PaidMonths, NEW w \in Workers, Changes(w)
  PROVE  /\ PaidMonths' /\ floor' = floor /\ Funded' = Funded
         /\ Funded = {} => balance'[Org] >= 0
         /\ \A p \in Funded : balance'[p] >= 0
         /\ \A m \in Months : \A p \in Projects : item'[m][p] >= 0
<1>1. /\ Org \in Accounts /\ Funded \subseteq Projects /\ book[Org] \in Books
      /\ item \in [Months -> [Projects -> Int]] /\ \A p \in Funded : p # Org
  BY DEF TypeInv, AccountsInv, Funded
<1>2. CASE Saves(w)
  <2>1. PICK m \in Months, c \in Positions(Funded) :
          /\ Follows(c, proc[w].org, m) /\ proc[w].org \in Int
          /\ floor' = floor /\ Funded' = Funded
          /\ balance'[Org] = c.org /\ \A p \in Funded : balance'[p] = c.alloc[p]
          /\ item'[m] = c.item /\ \A n \in Months \ {m} : item'[n] = item[n]
          /\ \A a \in Accounts :
               /\ \A n \in Months \ {m} : book'[a].drawn[n] = book[a].drawn[n]
               /\ book'[a].drawn[m] = book[a].drawn[m]
                    + (IF a = Org THEN c.org - proc[w].org ELSE c.alloc[a] - balance[a])
    BY <1>2, SaveEffects
  <2> DEFINE h == Held(proc[w].org, m)
  <2>2. Solvent(h, Funded)
    <3>1. Funded = {} => proc[w].org >= 0
      BY <1>2 DEF SolventInv, Saves, Holders, Unlocked
    <3> QED
      BY <2>1, <3>1, SolventHeld
  <2>3. Balanced(h, c, Funded) /\ Solvent(c, Funded)
    BY <2>1, <2>2 DEF Follows, SolventInv
  <2>4. c.org + Total(c.item, Projects) = proc[w].org + Total(item[m], Projects)
    BY <2>3 DEF Balanced, Held
  <2>5. /\ Total(c.item, Projects) \in Int /\ Total(item[m], Projects) \in Int
        /\ c.org \in Int /\ book[Org].drawn[m] \in Int
    <3>1. \A p \in Projects : item[m][p] \in Int
      BY <1>1
    <3>2. Total(item[m], Projects) \in Int
      BY <3>1, ScopeAssumption, TotalIsInt
    <3> QED
      BY <1>1, <3>2, ItemTotals DEF Positions, Books
  <2>6. Total(item'[m], Projects) = -book'[Org].drawn[m]
    <3>1. book'[Org].drawn[m] = book[Org].drawn[m] + (c.org - proc[w].org)
      BY <1>1, <2>1
    <3>2. Total(item[m], Projects) = -book[Org].drawn[m]
      BY DEF PaidMonths
    <3> QED
      BY <2>1, <2>4, <2>5, <3>1, <3>2
  <2>7. ASSUME NEW n \in Months \ {m}
        PROVE  Total(item'[n], Projects) = -book'[Org].drawn[n]
    BY <1>1, <2>1 DEF PaidMonths
  <2>8. PaidMonths'
    BY <2>6, <2>7 DEF PaidMonths
  <2> QED
    BY <2>1, <2>3, <2>8 DEF Solvent, SolventInv
<1>3. CASE CommitExpire(w)
  <2>1. /\ Funded' = Funded /\ balance'[Org] = 0 /\ book'[Org].drawn = book[Org].drawn
        /\ \A p \in Funded : balance'[p] = 0 \/ balance'[p] = balance[p]
    BY <1>1, <1>3, CreditExpires
  <2>2. item' = item /\ floor' = floor
    BY <1>3 DEF CommitExpire
  <2> QED
    BY <2>1, <2>2 DEF PaidMonths, SolventInv
<1>4. CASE EarnsFee(w) \/ Adjusts(w) \/ Edited(w)
  <2>1. /\ Funded' = Funded /\ item' = item /\ floor' = floor
        /\ book'[Org].drawn = book[Org].drawn
        /\ \A p \in Funded : balance'[p] = balance[p]
    BY <1>4, RowEffects
  <2>2. ASSUME Funded = {} PROVE balance'[Org] >= 0
    <3>1. proc[w].org >= 0 /\ proc[w].org \in Int
      BY <1>4, <2>2, TaskFields
         DEF SolventInv, EarnsFee, Adjusts, Edited, Holders, Unlocked, TypeInv, WorkersInv
    <3>2. CASE EarnsFee(w)
      <4>1. PICK x \in DOMAIN Fee : balance'[Org] = proc[w].org + Fee[x]
        BY <3>2, RowEffects
      <4>2. Fee[x] \in Nat
        BY AmountAssumption
      <4> QED
        BY <3>1, <4>1, <4>2
    <3>3. CASE Adjusts(w)
      BY <3>3, RowEffects DEF Adjusts
    <3>4. CASE Edited(w)
      <4>1. PICK v \in Edits : balance'[Org] = v
        BY <3>4, RowEffects
      <4> QED
        BY <4>1, AmountAssumption
    <3> QED
      BY <1>4, <3>2, <3>3, <3>4
  <2> QED
    BY <2>1, <2>2 DEF PaidMonths, SolventInv
<1> QED
  BY <1>2, <1>3, <1>4 DEF Changes

LEMMA SolventStep ==
  ASSUME TypeInv, TypeInv', SolventInv, PaidMonths, NEW w \in Workers, NEW t, Step(w, t)
  PROVE  SolventInv' /\ PaidMonths'
<1>1. /\ t \in Tasks /\ proc'[w] = t /\ \A x \in Workers \ {w} : proc'[x] = proc[x]
  BY DEF Step, Moves, TypeInv, WorkersInv
<1>2. CASE Quiet /\ (t.op \in Holders \cup Unlocked => t.org = balance[Org])
  <2>1. PaidMonths' /\ Funded' = Funded
    BY <1>2 DEF Quiet, PaidMonths, Funded, Accounts
  <2> QED
    BY <1>1, <1>2, <2>1 DEF Quiet, SolventInv
<1>3. CASE Changes(w) /\ t.op \in {"idle", "listed"}
  <2>1. /\ PaidMonths' /\ floor' = floor /\ Funded' = Funded
        /\ Funded = {} => balance'[Org] >= 0
        /\ \A p \in Funded : balance'[p] >= 0
        /\ \A m \in Months : \A p \in Projects : item'[m][p] >= 0
    BY <1>3, MonthsStep
  <2>2. t.op \notin Holders \cup Unlocked
    BY <1>3 DEF Holders, Unlocked
  <2> QED
    BY <1>1, <2>1, <2>2 DEF SolventInv
<1> QED
  BY <1>2, <1>3 DEF Step

\* Where there is no minimal consumption, and every project or none holds an
\* allocation, the organization's credit gave up for a month exactly what the
\* compensation items of that month amount to: through any number of closings,
\* recalculations and roll-backs, and whatever they race with
\* (clear_compensations followed by save).
THEOREM MonthsBacked ==
  ASSUME PlainSetups
  PROVE  Spec => []MonthIsBacked
<1>1. Init => TypeInv /\ SolventInv /\ PaidMonths
  <2> SUFFICES ASSUME Init PROVE TypeInv /\ SolventInv /\ PaidMonths
    OBVIOUS
  <2>1. TypeInv
    BY InitTyped
  <2>2. PICK s \in Setups :
          /\ balance = [a \in {Org} \cup DOMAIN s.alloc |->
                          IF a = Org THEN s.org ELSE s.alloc[a]]
          /\ floor = [a \in {Org} \cup DOMAIN s.alloc |-> IF a = Org THEN s.floor ELSE 0]
    BY DEF Init
  <2>3. /\ s.org \in Nat /\ s.floor = 0 /\ s.alloc \in [DOMAIN s.alloc -> Nat]
        /\ DOMAIN s.alloc \in {{}, Projects} /\ DOMAIN s.alloc \subseteq Projects
    BY AmountAssumption DEF PlainSetups
  <2>4. Funded = DOMAIN s.alloc
    BY <2>2, <2>3, ScopeAssumption DEF Funded, Accounts
  <2>5. SolventInv
    <3>1. floor[Org] = 0 /\ balance[Org] >= 0
      BY <2>2, <2>3
    <3>2. \A p \in Funded : balance[p] >= 0
      BY <2>2, <2>3, <2>4, ScopeAssumption
    <3>3. \A w \in Workers : proc[w].op \notin Holders \cup Unlocked
      BY InitDrawn DEF Idle, Holders, Unlocked
    <3> QED
      BY <2>3, <2>4, <3>1, <3>2, <3>3, InitDrawn DEF SolventInv
  <2>6. ASSUME NEW m \in Months PROVE Total(item[m], Projects) = -book[Org].drawn[m]
    <3>1. Total(item[m], Projects) = 0
      BY InitDrawn, ScopeAssumption, TotalOfNothing
    <3>2. book[Org].drawn[m] = 0
      BY <2>1, InitDrawn DEF TypeInv, AccountsInv
    <3> DEFINE d == book[Org].drawn[m]
               items == Total(item[m], Projects)
    <3>3. \A j, k \in Int : j + k = 0 => j = -k
      OBVIOUS
    <3>4. d \in Int /\ items \in Int /\ items + d = 0
      BY <3>1, <3>2
    <3> HIDE DEF d, items
    <3>5. items = -d
      BY <3>3, <3>4, Zenon
    <3> QED
      BY <3>5 DEF d, items
  <2> QED
    BY <2>1, <2>5, <2>6 DEF PaidMonths
<1>2. TypeInv /\ SolventInv /\ PaidMonths /\ [Next]_vars
        => (TypeInv /\ SolventInv /\ PaidMonths)'
  <2> SUFFICES ASSUME TypeInv, SolventInv, PaidMonths, [Next]_vars
               PROVE  TypeInv' /\ SolventInv' /\ PaidMonths'
    OBVIOUS
  <2>1. TypeInv'
    BY NextTyped
  <2>2. CASE Quiet /\ UNCHANGED <<proc, lock>>
    BY <2>1, <2>2 DEF Quiet, SolventInv, PaidMonths, Funded, Accounts
  <2>3. CASE UNCHANGED vars
    BY <2>1, <2>2, <2>3 DEF vars, Quiet
  <2>4. CASE Next
    BY <2>1, <2>2, <2>4, Steps, SolventStep
  <2> QED
    BY <2>3, <2>4
<1>3. TypeInv /\ SolventInv /\ PaidMonths => MonthIsBacked
  <2> SUFFICES ASSUME TypeInv, SolventInv, PaidMonths, NEW m \in Months
               PROVE  LET items == Total(item[m], Projects)
                          given == -book[Org].drawn[m]
                      IN items <= given /\ given <= Most(items, floor[Org])
    BY DEF MonthIsBacked
  <2>1. \A p \in Projects : item[m][p] \in Nat
    BY DEF TypeInv, AccountsInv, SolventInv
  <2>2. Total(item[m], Projects) \in Nat
    BY <2>1, ScopeAssumption, TotalIsNat
  <2>3. Total(item[m], Projects) = -book[Org].drawn[m] /\ floor[Org] = 0
    BY DEF PaidMonths, SolventInv
  <2> QED
    BY <2>2, <2>3 DEF Most
<1> QED
  BY <1>1, <1>2, <1>3, PTL DEF Spec
=============================================================================
