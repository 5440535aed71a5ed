-------------------------- MODULE PosixIdPool_proofs --------------------------
(****************************************************************************)
(* What PosixIdPool promises for any number of users, groups and workers,   *)
(* any numbers, and any ranges an operator may ask for.                     *)
(****************************************************************************)
EXTENDS PosixIdPool, WellFoundedInduction, TLAPS

--------------------------------------------------------------------------------
(* Numbers.                                                                   *)

LEMMA ValuesAreNumbers ==
    /\ MaxValue \in Nat /\ 1 \in Values /\ Values \subseteq Int
    /\ \A v \in Values : v # None /\ v # Absent /\ v >= 1
    BY NumbersAssumption DEF Values, None, Absent

\* A set of numbers has a greatest: the least of its upper bounds.
LEMMA GreatestExists ==
    ASSUME NEW S \in SUBSET Values, S # {}
    PROVE  \E v \in S : \A x \in S : x <= v
<1> DEFINE Bounds == {n \in Nat : \A x \in S : x <= n}
<1> DEFINE Less == OpToRel(<, Nat)
<1>1. MaxValue \in Bounds /\ Bounds \subseteq Nat
    BY NumbersAssumption DEF Values
<1>2. \E n \in Bounds : \A m \in Bounds : ~ (<<m, n>> \in Less)
    <2> HIDE DEF Bounds
    <2>1. IsWellFoundedOn(Less, Nat)
        BY NatLessThanWellFounded
    <2> HIDE DEF Less
    <2> QED
        BY <1>1, <2>1, WFMin, Zenon
<1>3. PICK n \in Bounds : \A m \in Bounds : ~ (<<m, n>> \in Less)
    BY <1>2
<1>4. \A m \in Bounds : n <= m
    <2>1. \A m \in Bounds : ~ (m < n)
        BY <1>3, Zenon DEF OpToRel
    <2> QED
        BY <2>1
<1>5. n \in S
    <2> SUFFICES ASSUME n \notin S PROVE FALSE
        OBVIOUS
    <2>1. PICK z \in S : TRUE
        OBVIOUS
    <2>2. \A x \in S : x \in Int /\ x <= n - 1 /\ 1 <= x
        BY DEF Values
    <2>3. n - 1 \in Nat
        BY <2>1, <2>2
    <2>4. n - 1 \in Bounds
        BY <2>2, <2>3
    <2> QED
        BY <2>3, <2>4, <1>4
<1> QED
    BY <1>5

\* A range is a row like this.
LEMMA RangeRow ==
    ASSUME TypeOK, NEW r \in Ranges
    PROVE  /\ range[r] \in RangeRows
           /\ range[r] \in [lo : Values, hi : Values \cup {0}, next : 1 .. MaxValue + 1]
           /\ range[r].next \in range[r].lo .. range[r].hi + 1
<1>1. range[r] \in RangeRows
    BY DEF TypeOK
<1> QED
    BY <1>1 DEF RangeRows

\* Only the pointer of a range is moved, inside the range or one past its end.
LEMMA PointerMoves ==
    ASSUME TypeOK, NEW r \in Ranges, NEW n \in 1 .. MaxValue + 1,
           n \in range[r].lo .. range[r].hi + 1
    PROVE  [range EXCEPT ![r].next = n] \in [Ranges -> RangeRows]
<1> DEFINE row == [range[r] EXCEPT !.next = n]
<1>1. row = [lo |-> range[r].lo, hi |-> range[r].hi, next |-> n]
    BY RangeRow
<1> HIDE DEF row
<1>2. row \in RangeRows
    BY <1>1, RangeRow DEF RangeRows
<1>3. [range EXCEPT ![r].next = n] = [range EXCEPT ![r] = row]
    BY DEF row
<1> QED
    BY <1>2, <1>3 DEF TypeOK

\* Only numbers of the range that nobody in its pool holds are handed out.
LEMMA OfferedIsFree ==
    ASSUME TypeOK, NEW r \in Ranges, NEW recycle, NEW n
    PROVE  /\ Offered(r, recycle, n) \subseteq Window(r) \ Active(PoolOf[r])
           /\ Window(r) \subseteq Values
<1>1. /\ range[r].lo \in Values /\ range[r].hi \in Values \cup {0}
      /\ range[r].next \in Int /\ range[r].lo <= range[r].next
    BY RangeRow, NumbersAssumption DEF Values
<1>2. Recycled(r, recycle) \subseteq Window(r) \ Active(PoolOf[r])
    BY DEF Recycled
<1>3. Counted(r) \subseteq Window(r) \ Active(PoolOf[r])
    BY <1>1 DEF Counted, Window, Values
<1>4. Window(r) \subseteq Values
    BY <1>1, NumbersAssumption DEF Window, Values
<1> QED
    BY <1>2, <1>3, <1>4 DEF Offered, Lowest

\* The pointer stays between the bounds of its range, or one past the last.
LEMMA PointerStays ==
    ASSUME TypeOK, NEW r \in Ranges, NEW recycle, NEW taken \in SUBSET Window(r)
    PROVE  /\ NextAfter(r, recycle, taken) \in range[r].lo .. range[r].hi + 1
           /\ NextAfter(r, recycle, taken) \in 1 .. MaxValue + 1
<1> DEFINE counted == taken \ Recycled(r, recycle)
<1>1. /\ range[r].lo \in Values /\ range[r].hi \in Values \cup {0}
      /\ range[r].next \in range[r].lo .. range[r].hi + 1 /\ range[r].next \in 1 .. MaxValue + 1
    BY RangeRow
<1>2. CASE counted = {}
    BY <1>1, <1>2 DEF NextAfter
<1>3. CASE counted # {}
    <2> DEFINE last == CHOOSE v \in counted : \A x \in counted : x <= v
    <2>1. counted \subseteq Window(r) /\ Window(r) \subseteq Values
        BY OfferedIsFree
    <2>2. last \in counted
        BY <1>3, <2>1, GreatestExists
    <2>3. last \in Window(r)
        BY <2>1, <2>2
    <2>4. NextAfter(r, recycle, taken) = last + 1
        BY <1>3 DEF NextAfter
    <2> HIDE DEF last
    <2> QED
        BY <1>1, <2>3, <2>4, NumbersAssumption DEF Window, Values
<1> QED
    BY <1>2, <1>3

--------------------------------------------------------------------------------
(* Types.                                                                     *)

RangeTypes == range \in [Ranges -> RangeRows]
HeldTypes == held \in [Pools -> [Principals -> Values \cup {None}]]
RowTypes ==
    /\ freed \subseteq FreedRows
    /\ account \in [Users -> [Offerings -> Accounts]]
    /\ gid \in [Groups -> Values \cup {None, Absent}]

\* A worker about to set a group's number has the group before it.
SetsExisting == \A p \in Procs : proc[p].op = "set_gid" => gid[proc[p].g] # Absent

TypeInv == TypeOK /\ SetsExisting

LEMMA Places ==
    /\ \A r \in Ranges : PoolOf[r] \in Pools
    /\ \A o \in Offerings : Resolve(o) \in Pools /\ AccountRange(o) \in Ranges
                              /\ PoolOf[AccountRange(o)] = Resolve(o)
    /\ GroupRange \in Ranges /\ PoolOf[GroupRange] = "provider"
    BY DEF Ranges, Pools, PoolOf, Resolve, AccountRange, GroupRange

LEMMA OffIsRow == Off \in RangeRows
    BY ValuesAreNumbers DEF Off, RangeRows, Values

LEMMA TypeInit == Init => TypeInv
<1> SUFFICES ASSUME Init PROVE TypeInv
    OBVIOUS
<1>1. RangeTypes
    <2>1. Off \in RangeRows /\ [lo |-> 1, hi |-> FirstRange, next |-> 1] \in RangeRows
        BY OffIsRow, ValuesAreNumbers, NumbersAssumption DEF RangeRows, Values
    <2> QED
        BY <2>1 DEF Init, RangeTypes
<1>2. HeldTypes /\ RowTypes
    BY DEF Init, HeldTypes, RowTypes, NoAccount, Accounts, Pools
<1>3. proc \in [Procs -> Tasks \cup {Idle}] /\ SetsExisting
    BY DEF Init, SetsExisting, Idle
<1> QED
    BY <1>1, <1>2, <1>3 DEF TypeInv, TypeOK, RangeTypes, HeldTypes, RowTypes

LEMMA HandTypes ==
    ASSUME TypeOK, NEW w \in Principals, NEW r \in Ranges, NEW recycle, NEW v,
           Hand(w, r, recycle, v)
    PROVE  RangeTypes' /\ HeldTypes' /\ v \in Values
<1>1. v \in Window(r) /\ v \in Values
    BY OfferedIsFree DEF Hand
<1> DEFINE new == NextAfter(r, recycle, {v})
<1>2. new \in range[r].lo .. range[r].hi + 1 /\ new \in 1 .. MaxValue + 1
    BY <1>1, PointerStays
<1>3. range' = [range EXCEPT ![r].next = new]
    BY DEF Hand
<1>4. RangeTypes'
    BY <1>2, <1>3, PointerMoves DEF RangeTypes
<1>5. HeldTypes'
    BY <1>1, Places DEF Hand, TypeOK, HeldTypes
<1> QED
    BY <1>1, <1>4, <1>5

ProcTypes == proc \in [Procs -> Tasks \cup {Idle}] /\ SetsExisting

LEMMA TypesTogether ==
    /\ TypeInv <=> RangeTypes /\ HeldTypes /\ RowTypes /\ ProcTypes
    /\ TypeInv' <=> RangeTypes' /\ HeldTypes' /\ RowTypes' /\ ProcTypes'
    BY DEF TypeInv, TypeOK, RangeTypes, HeldTypes, RowTypes, ProcTypes

LEMMA TypesKept ==
    ASSUME TypeInv
    PROVE  /\ UNCHANGED range => RangeTypes'
           /\ UNCHANGED held => HeldTypes'
           /\ UNCHANGED <<freed, account, gid>> => RowTypes'
           /\ UNCHANGED <<gid, proc>> => ProcTypes'
    BY TypesTogether DEF RangeTypes, HeldTypes, RowTypes, ProcTypes, SetsExisting

\* A worker takes up a task or ends one, and no group disappears.
LEMMA WorkersType ==
    ASSUME TypeInv, NEW p \in Procs, NEW t \in Tasks \cup {Idle},
           proc' = [proc EXCEPT ![p] = t],
           \A g \in Groups : gid'[g] = Absent => gid[g] = Absent,
           t.op = "set_gid" => gid'[t.g] # Absent
    PROVE  ProcTypes'
<1>1. proc \in [Procs -> Tasks \cup {Idle}] /\ SetsExisting
    BY DEF TypeInv, TypeOK
<1>2. proc' \in [Procs -> Tasks \cup {Idle}]
    BY <1>1
<1>3. ASSUME NEW q \in Procs, proc'[q].op = "set_gid" PROVE gid'[proc'[q].g] # Absent
    <2>1. CASE q = p
        BY <1>1, <1>3, <2>1
    <2>2. CASE q # p
        <3>1. proc'[q] = proc[q] /\ proc[q] \in Tasks \cup {Idle} /\ proc[q].op = "set_gid"
            BY <1>1, <1>3, <2>2
        <3>2. proc[q].g \in Groups
            BY <3>1 DEF Tasks, Idle
        <3> QED
            BY <1>1, <3>1, <3>2 DEF SetsExisting
    <2> QED
        BY <2>1, <2>2
<1> QED
    BY <1>2, <1>3 DEF ProcTypes, SetsExisting

LEMMA WorkersIdle ==
    ASSUME TypeInv, NEW p \in Procs, Ends(p),
           \A g \in Groups : gid'[g] = Absent => gid[g] = Absent
    PROVE  ProcTypes'
    BY WorkersType DEF Ends, Idle

LEMMA TaskShapes ==
    ASSUME TypeOK, NEW p \in Procs
    PROVE  /\ proc[p].op \in {"fill", "pin"} =>
                 /\ proc[p].u \in Users /\ proc[p].o \in Offerings
                 /\ proc[p].value \in Values /\ proc[p].source \in Pools
           /\ proc[p].op = "delete" =>
                 proc[p].u \in Users /\ proc[p].o \in Offerings /\ proc[p].in_use \subseteq Pools
           /\ proc[p].op \in {"allocate_gid", "set_gid"} =>
                 proc[p].g \in Groups /\ proc[p].value \in Values
           /\ proc[p].op = "update_pool" =>
                 proc[p].edit \in AllEdits /\ proc[p].row \in [Ranges -> RangeRows]
<1>1. proc[p] \in Tasks \cup {Idle}
    BY DEF TypeOK
<1>2. CASE proc[p] = Idle
    BY <1>2 DEF Idle
<1>3. CASE proc[p] \in Tasks
    BY <1>3 DEF Tasks
<1> QED
    BY <1>1, <1>2, <1>3

\* An edit gives bounds to a range, or takes the range of the groups away.
LEMMA EditShapes ==
    ASSUME NEW e \in AllEdits
    PROVE  e.r \in Ranges /\ e.lo \in Values /\ e.hi \in Values \cup {0}
<1>1. CASE e = Removal
    BY <1>1, ValuesAreNumbers DEF Removal, Ranges
<1>2. CASE e \in Edits
    BY <1>2, EditsAssumption
<1> QED
    BY <1>1, <1>2 DEF AllEdits

\* What an edit saves is a row of its pool.
LEMMA CandidateTypes ==
    ASSUME TypeOK, NEW e \in AllEdits, NEW row \in [Ranges -> RangeRows],
           e.lo <= e.hi \/ e = Removal
    PROVE  /\ Candidate(e, row) \in [Ranges -> RangeRows]
           /\ BoundsOf(Candidate(e, row)[e.r]) = e.lo .. e.hi
           /\ \A r \in Ranges \ {e.r} :
                 BoundsOf(Candidate(e, row)[r]) =
                    IF PoolOf[r] = PoolOf[e.r] THEN BoundsOf(row[r]) ELSE Window(r)
<1> DEFINE base == IF row[e.r].lo > row[e.r].hi THEN e.lo ELSE row[e.r].next
           low == IF base < e.lo THEN e.lo ELSE base
           next == IF low > e.hi + 1 THEN e.hi + 1 ELSE low
<1>1. e.r \in Ranges /\ e.lo \in Values /\ e.hi \in Values \cup {0} /\ e.lo <= e.hi + 1
    <2>1. CASE e = Removal
        BY <2>1, EditShapes DEF Removal
    <2>2. CASE e.lo <= e.hi
        BY <2>2, EditShapes, ValuesAreNumbers DEF Values
    <2> QED
        BY <2>1, <2>2
<1>2. row[e.r].next \in 1 .. MaxValue + 1
    BY <1>1 DEF RangeRows
<1>3. base \in 1 .. MaxValue + 1
    BY <1>1, <1>2, ValuesAreNumbers DEF Values
<1> HIDE DEF base
<1>4. next \in e.lo .. e.hi + 1 /\ next \in 1 .. MaxValue + 1
    BY <1>1, <1>3, ValuesAreNumbers DEF Values
<1>5. Clipped(e, row) = [lo |-> e.lo, hi |-> e.hi, next |-> next]
    BY DEF Clipped, base
<1> HIDE DEF next
<1>6. Clipped(e, row) \in RangeRows
    BY <1>1, <1>4, <1>5 DEF RangeRows
<1>7. \A r \in Ranges :
        Candidate(e, row)[r] = IF r = e.r THEN Clipped(e, row)
                               ELSE IF PoolOf[r] = PoolOf[e.r] THEN row[r] ELSE range[r]
    BY DEF Candidate
<1>8. Candidate(e, row) \in [Ranges -> RangeRows]
    BY <1>6 DEF Candidate, TypeOK
<1>9. BoundsOf(Candidate(e, row)[e.r]) = e.lo .. e.hi
    BY <1>1, <1>5, <1>7 DEF BoundsOf
<1>10. ASSUME NEW r \in Ranges \ {e.r}
       PROVE  BoundsOf(Candidate(e, row)[r]) =
                 IF PoolOf[r] = PoolOf[e.r] THEN BoundsOf(row[r]) ELSE Window(r)
    BY <1>7, <1>10 DEF BoundsOf, Window
<1> QED
    BY <1>8, <1>9, <1>10

\* The accounts after a pin are rows of their kind.
LEMMA PinnedTypes ==
    ASSUME TypeOK, NEW h, h.u \in Users, h.o \in Offerings, h.value \in Values, h.source \in Pools
    PROVE  Pinned(h) \in [Users -> [Offerings -> Accounts]]
<1> DEFINE pool == Resolve(h.o)
           shared == IF pool = h.source THEN h.value ELSE held[pool][h.u]
           new(x) == IF x = h.o THEN [value |-> h.value, source |-> h.source]
                     ELSE IF HasAccount(h.u, x) /\ Resolve(x) = pool /\ shared # None
                          THEN [value |-> shared, source |-> pool]
                          ELSE account[h.u][x]
<1>1. pool \in Pools /\ shared \in Values \cup {None}
    BY Places DEF TypeOK, Principals
<1>2. \A x \in Offerings : new(x) \in Accounts
    <2> HIDE DEF pool, shared
    <2>1. /\ [value |-> h.value, source |-> h.source] \in Accounts
          /\ [value |-> shared, source |-> pool] \in Accounts
          /\ \A x \in Offerings : account[h.u][x] \in Accounts
        BY <1>1 DEF Accounts, TypeOK
    <2> QED
        BY <2>1
<1>3. Pinned(h) = [account EXCEPT ![h.u] = [x \in Offerings |-> new(x)]]
    BY DEF Pinned
<1> HIDE DEF new
<1> QED
    BY <1>2, <1>3 DEF TypeOK

LEMMA UserTypes == TypeInv /\ UserStep => TypeInv'
<1> SUFFICES ASSUME TypeInv, UserStep PROVE TypeInv'
    OBVIOUS
<1>1. TypeOK /\ Users \subseteq Principals
    BY DEF TypeInv, Principals
<1>2. ASSUME NEW u \in Users, NEW o \in Offerings, CreateAccount(u, o) PROVE TypeInv'
    <2>1. [value |-> None, source |-> Resolve(o)] \in Accounts
        BY Places DEF Accounts
    <2>2. RowTypes'
        BY <1>1, <1>2, <2>1 DEF TypeOK, RowTypes, CreateAccount
    <2> QED
        BY <1>2, <2>2, TypesKept, TypesTogether DEF CreateAccount
<1>3. ASSUME NEW u \in Users, NEW o \in Offerings, NEW p \in Procs, BeginFill(p, u, o)
      PROVE  TypeInv'
    <2>1. PICK v \in Values :
             /\ \/ held[Resolve(o)][u] = v /\ UNCHANGED <<held, range>>
                \/ Hand(u, AccountRange(o), TRUE, v)
             /\ proc' = [proc EXCEPT ![p] = [op |-> "fill", u |-> u, o |-> o,
                                             value |-> v, source |-> Resolve(o)]]
        BY <1>3 DEF BeginFill
    <2>2. RangeTypes' /\ HeldTypes'
        BY <1>1, <2>1, HandTypes, TypesKept, Places
    <2>3. ProcTypes'
        <3>1. [op |-> "fill", u |-> u, o |-> o, value |-> v, source |-> Resolve(o)] \in Tasks
            BY Places DEF Tasks
        <3> QED
            BY <1>3, <2>1, <3>1, WorkersType DEF BeginFill
    <2> QED
        BY <1>3, <2>2, <2>3, TypesKept, TypesTogether DEF BeginFill
<1>4. ASSUME NEW u \in Users, NEW o \in Offerings, NEW p \in Procs, BeginDelete(p, u, o)
      PROVE  TypeInv'
    <2> DEFINE t == [op |-> "delete", u |-> u, o |-> o, in_use |-> InUse(u, o)]
    <2>1. InUse(u, o) \subseteq Pools
        BY Places DEF InUse
    <2>2. t \in Tasks
        BY <2>1 DEF Tasks
    <2>3. ProcTypes'
        BY <1>4, <2>2, WorkersType DEF BeginDelete
    <2> QED
        BY <1>4, <2>3, TypesKept, TypesTogether DEF BeginDelete
<1>5. ASSUME NEW u \in Users, NEW o \in Offerings, NEW p \in Procs, NEW v \in Values,
             BeginPin(p, u, o, v)
      PROVE  TypeInv'
    <2>1. [op |-> "pin", u |-> u, o |-> o, value |-> v, source |-> Resolve(o)] \in Tasks
        BY Places DEF Tasks
    <2>2. ProcTypes'
        BY <1>5, <2>1, WorkersType DEF BeginPin
    <2> QED
        BY <1>5, <2>2, TypesKept, TypesTogether DEF BeginPin
<1>6. ASSUME NEW p \in Procs, CommitFill(p) PROVE TypeInv'
    <2> DEFINE h == proc[p]
    <2>1. h.u \in Users /\ h.o \in Offerings /\ [value |-> h.value, source |-> h.source] \in Accounts
        BY <1>1, <1>6, TaskShapes DEF CommitFill, Accounts
    <2>2. RowTypes'
        BY <1>1, <1>6, <2>1 DEF TypeOK, RowTypes, CommitFill
    <2>3. ProcTypes'
        BY <1>6, WorkersIdle DEF CommitFill
    <2> QED
        BY <1>6, <2>2, <2>3, TypesKept, TypesTogether DEF CommitFill
<1>9. ASSUME NEW p \in Procs, CommitPin(p) PROVE TypeInv'
    <2> DEFINE h == proc[p]
    <2>1. h.u \in Users /\ h.o \in Offerings /\ h.value \in Values /\ h.source \in Pools
        BY <1>1, <1>9, TaskShapes DEF CommitPin
    <2>2. CASE UNCHANGED <<held, account>>
        <3>1. ProcTypes'
            BY <1>9, WorkersIdle DEF CommitPin
        <3> QED
            BY <1>9, <2>2, <3>1, TypesKept, TypesTogether DEF CommitPin
    <2>3. CASE held' = [held EXCEPT ![h.source][h.u] = h.value] /\ account' = Pinned(h)
        <3>1. HeldTypes'
            BY <1>1, <2>1, <2>3 DEF HeldTypes, TypeOK
        <3>2. Pinned(h) \in [Users -> [Offerings -> Accounts]]
            BY <1>1, <2>1, PinnedTypes
        <3>3. RowTypes'
            BY <1>1, <1>9, <2>3, <3>2 DEF RowTypes, TypeOK, CommitPin
        <3>4. ProcTypes'
            BY <1>9, WorkersIdle DEF CommitPin
        <3> QED
            BY <1>9, <3>1, <3>3, <3>4, TypesKept, TypesTogether DEF CommitPin
    <2> QED
        BY <1>9, <2>2, <2>3 DEF CommitPin
<1>7. ASSUME NEW p \in Procs, CommitDelete(p) PROVE TypeInv'
    <2> DEFINE h == proc[p]
    <2>1. h.u \in Users /\ h.o \in Offerings
        BY <1>1, <1>7, TaskShapes DEF CommitDelete
    <2>2. HeldTypes' /\ freed' \subseteq FreedRows
        <3> DEFINE gone == {q \in Pools \ h.in_use : held[q][h.u] # None}
        <3>1. held' = [q \in Pools |-> IF q \in gone THEN [held[q] EXCEPT ![h.u] = None] ELSE held[q]]
            BY <1>7 DEF CommitDelete, Release
        <3>2. freed' = freed \cup
                {[pool |-> q, value |-> held[q][h.u], recyclable |-> TRUE] : q \in gone}
            BY <1>7 DEF CommitDelete, Release
        <3>3. \A q \in gone : q \in Pools /\ held[q][h.u] \in Values
            BY <1>1, <2>1 DEF TypeOK
        <3>4. HeldTypes'
            BY <1>1, <2>1, <3>1 DEF TypeOK, HeldTypes
        <3>5. freed' \subseteq FreedRows
            <4>1. \A q \in gone :
                    [pool |-> q, value |-> held[q][h.u], recyclable |-> TRUE] \in FreedRows
                BY <3>3 DEF FreedRows
            <4>2. freed \subseteq FreedRows
                BY <1>1 DEF TypeOK
            <4> HIDE DEF gone
            <4> QED
                BY <3>2, <4>1, <4>2
        <3> QED
            BY <3>4, <3>5
    <2>3. account' \in [Users -> [Offerings -> Accounts]]
        BY <1>1, <1>7, <2>1 DEF CommitDelete, TypeOK, NoAccount, Accounts, Pools
    <2>4. RowTypes'
        BY <1>1, <1>7, <2>2, <2>3 DEF CommitDelete, TypeOK, RowTypes
    <2>5. ProcTypes'
        BY <1>1, <1>7 DEF CommitDelete, TypeInv, TypeOK, ProcTypes, SetsExisting, Idle
    <2> QED
        BY <1>7, <2>2, <2>4, <2>5, TypesKept, TypesTogether DEF CommitDelete
<1>8. CASE Repoint
    <2> DEFINE new == {u \in Movers : held["override"][u] = None}
               taken == Offered("override_gid", TRUE, Cardinality(new))
    <2>1. PICK f \in [new -> taken] :
             /\ held' = [held EXCEPT
                  !["override"] = [w \in Principals |-> IF w \in new THEN f[w] ELSE @[w]],
                  !["provider"] = [w \in Principals |-> IF w \in LeftBehind THEN None ELSE @[w]]]
             /\ range' = [range EXCEPT !["override_gid"].next =
                             NextAfter("override_gid", TRUE, taken)]
        BY <1>8 DEF Repoint
    <2>2. taken \subseteq Window("override_gid") /\ taken \subseteq Values
        BY <1>1, OfferedIsFree DEF Ranges
    <2>3. RangeTypes'
        <3> DEFINE next == NextAfter("override_gid", TRUE, taken)
        <3>1. next \in range["override_gid"].lo .. range["override_gid"].hi + 1
              /\ next \in 1 .. MaxValue + 1
            BY <1>1, <2>2, PointerStays DEF Ranges
        <3>2. range' = [range EXCEPT !["override_gid"].next = next]
            BY <2>1
        <3> HIDE DEF next
        <3> QED
            BY <1>1, <3>1, <3>2, PointerMoves DEF RangeTypes, Ranges
    <2>4. \A w \in Principals :
             /\ held'["override"][w] = IF w \in new THEN f[w] ELSE held["override"][w]
             /\ held'["provider"][w] = IF w \in LeftBehind THEN None ELSE held["provider"][w]
        BY <1>1, <2>1 DEF TypeOK, Pools
    <2>5. HeldTypes'
        <3>1. held' \in [Pools -> [Principals -> {held'[q][w] : q \in Pools, w \in Principals}]]
            BY <1>1, <2>1 DEF TypeOK, Pools
        <3>2. \A q \in Pools, w \in Principals : held'[q][w] \in Values \cup {None}
            BY <1>1, <2>2, <2>4 DEF TypeOK, Pools
        <3> QED
            BY <3>1, <3>2 DEF HeldTypes
    <2>6. freed' \subseteq FreedRows
        <3>1. \A u \in LeftBehind : held["provider"][u] \in Values
            BY <1>1 DEF LeftBehind, Movers, TypeOK, Pools
        <3>2. freed' = freed \cup {[pool |-> "provider", value |-> held["provider"][u],
                                    recyclable |-> FALSE] : u \in LeftBehind}
            BY <1>8 DEF Repoint
        <3>3. \A u \in LeftBehind : [pool |-> "provider", value |-> held["provider"][u],
                                      recyclable |-> FALSE] \in FreedRows
            BY <3>1 DEF FreedRows, Pools
        <3>4. freed \subseteq FreedRows
            BY <1>1 DEF TypeOK
        <3> QED
            BY <3>2, <3>3, <3>4
    <2>7. account' \in [Users -> [Offerings -> Accounts]]
        <3>1. \A u \in Users :
                [value |-> held'["override"][u], source |-> "override"] \in Accounts
            BY <1>1, <2>5 DEF HeldTypes, Accounts, Pools
        <3> QED
            BY <1>1, <1>8, <3>1 DEF Repoint, TypeOK
    <2> QED
        BY <1>1, <1>8, <2>3, <2>5, <2>6, <2>7, TypesKept, TypesTogether DEF Repoint, RowTypes, TypeOK
<1> QED
    BY <1>2, <1>3, <1>4, <1>5, <1>6, <1>7, <1>8, <1>9 DEF UserStep

LEMMA GroupTypes == TypeInv /\ GroupStep => TypeInv'
<1> SUFFICES ASSUME TypeInv, GroupStep PROVE TypeInv'
    OBVIOUS
<1>1. TypeOK /\ Groups \subseteq Principals /\ "provider" \in Pools /\ None # Absent
    BY DEF TypeInv, Principals, Pools, None, Absent
<1>2. ASSUME NEW g \in Groups, CreateGroup(g) PROVE TypeInv'
    <2>1. RowTypes'
        BY <1>1, <1>2 DEF CreateGroup, RowTypes, TypeOK
    <2>2. ProcTypes'
        BY <1>1, <1>2 DEF CreateGroup, TypeInv, TypeOK, ProcTypes, SetsExisting
    <2> QED
        BY <1>2, <2>1, <2>2, TypesKept, TypesTogether DEF CreateGroup
<1>3. ASSUME NEW g \in Groups, DeleteGroup(g) PROVE TypeInv'
    <2>1. HeldTypes'
        BY <1>1, <1>3 DEF DeleteGroup, HeldTypes, TypeOK
    <2>2. freed' \subseteq FreedRows
        <3>1. CASE held["provider"][g] = None
            BY <1>1, <1>3, <3>1 DEF DeleteGroup, TypeOK
        <3>2. CASE held["provider"][g] # None
            <4>1. held["provider"][g] \in Values
                BY <1>1, <3>2 DEF TypeOK
            <4>2. [pool |-> "provider", value |-> held["provider"][g], recyclable |-> FALSE]
                     \in FreedRows
                BY <1>1, <4>1 DEF FreedRows
            <4> QED
                BY <1>1, <1>3, <3>2, <4>2 DEF DeleteGroup, TypeOK
        <3> QED
            BY <3>1, <3>2
    <2>3. RowTypes'
        BY <1>1, <1>3, <2>2 DEF DeleteGroup, RowTypes, TypeOK
    <2>4. proc' \in [Procs -> Tasks \cup {Idle}]
        BY <1>1, <1>3 DEF DeleteGroup, TypeOK
    <2>5. ASSUME NEW p \in Procs, proc'[p].op = "set_gid" PROVE gid'[proc'[p].g] # Absent
        <3>1. proc'[p] = proc[p] /\ proc[p].op = "set_gid" /\ proc[p].g # g
            BY <1>3, <2>5 DEF DeleteGroup, Idle
        <3>2. proc[p].g \in Groups /\ gid[proc[p].g] # Absent
            BY <1>1, <3>1, TaskShapes DEF TypeInv, SetsExisting
        <3> QED
            BY <1>1, <1>3, <3>1, <3>2 DEF DeleteGroup, TypeOK
    <2>6. ProcTypes'
        BY <2>4, <2>5 DEF ProcTypes, SetsExisting
    <2> QED
        BY <1>3, <2>1, <2>3, <2>6, TypesKept, TypesTogether DEF DeleteGroup
<1>4. ASSUME NEW g \in Groups, NEW p \in Procs, BeginAllocateGid(p, g) PROVE TypeInv'
    <2>1. PICK v \in Values :
             /\ \/ held["provider"][g] = v /\ UNCHANGED <<held, range>>
                \/ Hand(g, GroupRange, FALSE, v)
             /\ proc' = [proc EXCEPT ![p] = [op |-> "allocate_gid", g |-> g, value |-> v]]
        BY <1>4 DEF BeginAllocateGid
    <2>2. RangeTypes' /\ HeldTypes'
        BY <1>1, <2>1, HandTypes, TypesKept, Places
    <2>3. ProcTypes'
        <3>1. [op |-> "allocate_gid", g |-> g, value |-> v] \in Tasks
            BY DEF Tasks
        <3> QED
            BY <1>4, <2>1, <3>1, WorkersType DEF BeginAllocateGid
    <2> QED
        BY <1>4, <2>2, <2>3, TypesKept, TypesTogether DEF BeginAllocateGid
<1>5. ASSUME NEW g \in Groups, NEW p \in Procs, NEW v \in Values, BeginSetGid(p, g, v)
      PROVE  TypeInv'
    <2>1. [op |-> "set_gid", g |-> g, value |-> v] \in Tasks
        BY DEF Tasks
    <2>2. ProcTypes'
        BY <1>5, <2>1, WorkersType DEF BeginSetGid
    <2> QED
        BY <1>5, <2>2, TypesKept, TypesTogether DEF BeginSetGid
<1>6. ASSUME NEW p \in Procs, CommitAllocateGid(p) PROVE TypeInv'
    <2>1. proc[p].g \in Groups /\ proc[p].value \in Values
        BY <1>1, <1>6, TaskShapes DEF CommitAllocateGid
    <2>2. /\ gid' \in [Groups -> Values \cup {None, Absent}]
          /\ \A g \in Groups : gid'[g] = Absent => gid[g] = Absent
        BY <1>1, <1>6, <2>1, ValuesAreNumbers DEF CommitAllocateGid, TypeOK
    <2>3. ProcTypes'
        BY <1>6, <2>2, WorkersIdle DEF CommitAllocateGid
    <2>4. RowTypes'
        BY <1>1, <1>6, <2>2 DEF CommitAllocateGid, RowTypes, TypeOK
    <2> QED
        BY <1>6, <2>3, <2>4, TypesKept, TypesTogether DEF CommitAllocateGid
<1>7. ASSUME NEW p \in Procs, CommitSetGid(p) PROVE TypeInv'
    <2> DEFINE g == proc[p].g
               v == proc[p].value
               previous == IF held["provider"][g] # None THEN held["provider"][g] ELSE gid[g]
    <2>1. g \in Groups /\ v \in Values /\ gid[g] # Absent
        BY <1>1, <1>7, TaskShapes DEF CommitSetGid, TypeInv, SetsExisting
    <2>2. previous \in Values \cup {None}
        BY <1>1, <2>1 DEF TypeOK
    <2>3. CASE UNCHANGED <<held, freed, gid>>
        <3>1. ProcTypes'
            BY <1>7, <2>3, WorkersIdle DEF CommitSetGid
        <3> QED
            BY <1>7, <2>3, <3>1, TypesKept, TypesTogether DEF CommitSetGid
    <2>4. CASE /\ held' = [held EXCEPT !["provider"][g] = v]
               /\ freed' = IF previous \in {None, v} THEN freed
                           ELSE freed \cup {[pool |-> "provider", value |-> previous,
                                             recyclable |-> FALSE]}
               /\ gid' = [gid EXCEPT ![g] = v]
        <3>1. HeldTypes'
            BY <1>1, <2>1, <2>4 DEF HeldTypes, TypeOK
        <3>2. gid' \in [Groups -> Values \cup {None, Absent}]
              /\ \A x \in Groups : gid'[x] = Absent => gid[x] = Absent
            BY <1>1, <2>1, <2>4, ValuesAreNumbers DEF TypeOK
        <3>3. freed' \subseteq FreedRows
            <4>1. CASE previous \in {None, v}
                BY <1>1, <2>4, <4>1 DEF TypeOK
            <4>2. CASE previous \notin {None, v}
                <5>1. [pool |-> "provider", value |-> previous, recyclable |-> FALSE] \in FreedRows
                    BY <1>1, <2>2, <4>2 DEF FreedRows
                <5> HIDE DEF previous
                <5> QED
                    BY <1>1, <2>4, <4>2, <5>1 DEF TypeOK
            <4> QED
                BY <4>1, <4>2
        <3>4. RowTypes'
            BY <1>1, <1>7, <3>2, <3>3 DEF CommitSetGid, RowTypes, TypeOK
        <3>5. ProcTypes'
            BY <1>7, <3>2, WorkersIdle DEF CommitSetGid
        <3> QED
            BY <1>7, <3>1, <3>4, <3>5, TypesKept, TypesTogether DEF CommitSetGid
    <2> QED
        BY <1>7, <2>3, <2>4 DEF CommitSetGid
<1> QED
    BY <1>2, <1>3, <1>4, <1>5, <1>6, <1>7 DEF GroupStep

LEMMA OperatorTypes == TypeInv /\ OperatorStep => TypeInv'
<1> SUFFICES ASSUME TypeInv, OperatorStep PROVE TypeInv'
    OBVIOUS
<1>1. TypeOK
    BY DEF TypeInv
<1>2. ASSUME NEW p \in Procs, NEW e \in AllEdits, BeginUpdatePool(p, e) PROVE TypeInv'
    <2> DEFINE row == [r \in Ranges |-> IF PoolOf[r] = PoolOf[e.r] THEN range[r] ELSE Off]
    <2>1. row \in [Ranges -> RangeRows]
        BY <1>1, RangeRow, OffIsRow
    <2>2. proc' = [proc EXCEPT ![p] = [op |-> "update_pool", edit |-> e, row |-> row]]
        BY <1>2 DEF BeginUpdatePool
    <2> HIDE DEF row
    <2>3. [op |-> "update_pool", edit |-> e, row |-> row] \in Tasks
        BY <2>1 DEF Tasks
    <2>4. ProcTypes'
        BY <1>2, <2>2, <2>3, WorkersType DEF BeginUpdatePool
    <2> QED
        BY <1>2, <2>4, TypesKept, TypesTogether DEF BeginUpdatePool
<1>3. ASSUME NEW p \in Procs, CommitUpdatePool(p) PROVE TypeInv'
    <2> DEFINE e == proc[p].edit
               row == proc[p].row
    <2>1. e \in AllEdits /\ row \in [Ranges -> RangeRows]
        BY <1>1, <1>3, TaskShapes DEF CommitUpdatePool
    <2>2. range' = range \/ (Accepted(e, row) /\ range' = Candidate(e, row))
        BY <1>3 DEF CommitUpdatePool
    <2>3. RangeTypes'
        BY <1>1, <2>1, <2>2, CandidateTypes DEF RangeTypes, TypeOK, Accepted, Fits
    <2>4. ProcTypes'
        BY <1>3, WorkersIdle DEF CommitUpdatePool
    <2> QED
        BY <1>3, <2>3, <2>4, TypesKept, TypesTogether DEF CommitUpdatePool
<1>5. ASSUME NEW x \in freed, Recirculate(x) PROVE TypeInv'
    <2>1. RowTypes'
        BY <1>1, <1>5 DEF Recirculate, RowTypes, TypeOK, FreedRows
    <2> QED
        BY <1>5, <2>1, TypesKept, TypesTogether DEF Recirculate
<1> QED
    BY <1>2, <1>3, <1>5 DEF OperatorStep

LEMMA TypeNext == TypeInv /\ [Next]_vars => TypeInv'
    BY UserTypes, GroupTypes, OperatorTypes, TypesKept, TypesTogether DEF Next, vars

\* Rows keep their types and the pointer of a range stays inside it or one past
\* its end, whatever is allocated, pinned, moved and given back, also by requests
\* that overlap (_allocate_in_pool, PosixIdPoolSerializer).
THEOREM TypeCorrect == Spec => []TypeOK
<1>1. TypeInv => TypeOK
    BY DEF TypeInv
<1> QED
    BY <1>1, TypeInit, TypeNext, PTL DEF Spec

--------------------------------------------------------------------------------
(* Holders.                                                                   *)

\* Ranges of different pools share no number.
RangesApart ==
    \A r, x \in Ranges : PoolOf[r] # PoolOf[x] => Window(r) \cap Window(x) = {}

\* A number that is about to be pinned lies in its pool's ranges, one that is about
\* to be set for a group in none of the other pool.
PinsInside ==
    \A p \in Procs : proc[p].op = "pin" =>
        \E r \in Ranges : PoolOf[r] = proc[p].source /\ proc[p].value \in Window(r)
PinsKeepOut ==
    \A p \in Procs : proc[p].op = "set_gid" => proc[p].value \notin Window("override_gid")

\* Groups draw from the provider's own ranges.
GroupsKeepOut == \A g \in Groups : held["override"][g] = None

HolderInv ==
    RangesApart /\ PinsInside /\ PinsKeepOut /\ GroupsKeepOut /\ OneHolder /\ KeptOut

\* No range is saved while a pin lies between its checks and its lock.
PinsAreServed == "stale_pin" \notin Occurs

LEMMA HolderInit == Init => HolderInv
<1> SUFFICES ASSUME Init PROVE HolderInv
    OBVIOUS
<1>1. \A r \in Ranges \ {"gid"} : Window(r) = {}
    BY DEF Init, Window, Off, Ranges
<1>2. \A q \in Pools, w \in Principals : held[q][w] = None
    BY DEF Init
<1>3. RangesApart
    BY <1>1 DEF RangesApart, PoolOf, Ranges
<1>4. OneHolder
    BY <1>2 DEF OneHolder
<1>5. KeptOut
    <2>1. None \notin Window("gid")
        BY NumbersAssumption DEF Init, Window, None, Ranges, Values
    <2> QED
        BY <1>1, <1>2, <2>1 DEF KeptOut
<1>6. PinsInside /\ PinsKeepOut
    BY DEF Init, PinsInside, PinsKeepOut, Idle
<1>7. GroupsKeepOut
    BY <1>2 DEF GroupsKeepOut, Pools, Principals
<1> QED
    BY <1>3, <1>4, <1>5, <1>6, <1>7 DEF HolderInv

\* No range contains the number of a row that holds none.
LEMMA NoneIsOutside == TypeOK => \A r \in Ranges : None \notin Window(r)
    BY OfferedIsFree, ValuesAreNumbers

\* Where every number stays with its holder or is given back, nothing is shared.
LEMMA GivingBackKeepsHolders ==
    ASSUME TypeInv, HolderInv,
           \A r \in Ranges : Window(r)' = Window(r),
           \A q \in Pools, w \in Principals : held'[q][w] \in {held[q][w], None}
    PROVE  RangesApart' /\ OneHolder' /\ KeptOut'
<1>1. RangesApart'
    BY DEF HolderInv, RangesApart
<1>2. OneHolder'
    BY DEF HolderInv, OneHolder
<1>3. KeptOut'
    BY NoneIsOutside DEF TypeInv, HolderInv, KeptOut
<1> QED
    BY <1>1, <1>2, <1>3

\* Where one principal takes a number nobody holds, and which lies in no range of
\* another pool, nothing is shared.
LEMMA TakingKeepsHolders ==
    ASSUME TypeInv, HolderInv, NEW pool \in Pools, NEW w \in Principals, NEW v \in Values,
           held' = [held EXCEPT ![pool][w] = v],
           \A r \in Ranges : Window(r)' = Window(r),
           \A q \in Pools, x \in Principals : held[q][x] = v => q = pool /\ x = w,
           \A r \in Ranges : v \in Window(r) => PoolOf[r] = pool
    PROVE  RangesApart' /\ OneHolder' /\ KeptOut'
<1>1. RangesApart'
    BY DEF HolderInv, RangesApart
<1>2. \A q \in Pools, x \in Principals :
        held'[q][x] = IF q = pool /\ x = w THEN v ELSE held[q][x]
    BY DEF TypeInv, TypeOK
<1>3. OneHolder'
    BY <1>2 DEF HolderInv, OneHolder
<1>4. KeptOut'
    BY <1>2 DEF HolderInv, KeptOut
<1> QED
    BY <1>1, <1>3, <1>4

\* A number of a range that its pool has not handed out is held by nobody.
LEMMA FreeInRange ==
    ASSUME TypeInv, HolderInv, NEW r \in Ranges, NEW v \in Window(r)
    PROVE  /\ \A q \in Pools, x \in Principals : held[q][x] = v => q = PoolOf[r]
           /\ \A x \in Ranges : v \in Window(x) => PoolOf[x] = PoolOf[r]
           /\ v \in Values
<1>1. v \in Values
    BY OfferedIsFree DEF TypeInv
<1>2. \A q \in Pools, x \in Principals : held[q][x] = v => q = PoolOf[r]
    BY DEF HolderInv, KeptOut
<1>3. \A x \in Ranges : v \in Window(x) => PoolOf[x] = PoolOf[r]
    BY DEF HolderInv, RangesApart
<1> QED
    BY <1>1, <1>2, <1>3

LEMMA HandKeepsWindows ==
    ASSUME TypeInv, NEW w, NEW x \in Ranges, NEW recycle, NEW v, Hand(w, x, recycle, v)
    PROVE  \A r \in Ranges : Window(r)' = Window(r)
    BY DEF TypeInv, TypeOK, RangeRows, Hand, Window

LEMMA HandKeepsHolders ==
    ASSUME TypeInv, HolderInv, NEW w \in Principals, NEW r \in Ranges, NEW recycle, NEW v,
           Hand(w, r, recycle, v)
    PROVE  RangesApart' /\ OneHolder' /\ KeptOut'
<1>1. v \in Window(r) /\ v \notin Active(PoolOf[r])
    BY OfferedIsFree DEF Hand, TypeInv
<1>2. v \in Values /\ v # None
    BY <1>1, FreeInRange, ValuesAreNumbers
<1>3. \A x \in Principals : held[PoolOf[r]][x] # v
    BY <1>1, <1>2 DEF Active
<1>4. held' = [held EXCEPT ![PoolOf[r]][w] = v] /\ PoolOf[r] \in Pools
    BY Places DEF Hand
<1>5. \A x \in Ranges : Window(x)' = Window(x)
    BY HandKeepsWindows
<1>6. \A q \in Pools, x \in Principals : held[q][x] = v => q = PoolOf[r] /\ x = w
    BY <1>1, <1>3, FreeInRange
<1>7. \A x \in Ranges : v \in Window(x) => PoolOf[x] = PoolOf[r]
    BY <1>1, FreeInRange
<1> DEFINE pool == PoolOf[r]
<1>8. /\ held' = [held EXCEPT ![pool][w] = v] /\ pool \in Pools
      /\ \A q \in Pools, x \in Principals : held[q][x] = v => q = pool /\ x = w
      /\ \A x \in Ranges : v \in Window(x) => PoolOf[x] = pool
    BY <1>4, <1>6, <1>7
<1> HIDE DEF pool
<1> QED
    BY <1>2, <1>5, <1>8, TakingKeepsHolders

LEMMA RepointHolders ==
    ASSUME TypeInv, HolderInv, Repoint
    PROVE  RangesApart' /\ OneHolder' /\ KeptOut'
<1> DEFINE new == {u \in Movers : held["override"][u] = None}
           taken == Offered("override_gid", TRUE, Cardinality(new))
<1>1. PICK f \in [new -> taken] :
         /\ \A u, x \in new : f[u] = f[x] => u = x
         /\ held' = [held EXCEPT
              !["override"] = [w \in Principals |-> IF w \in new THEN f[w] ELSE @[w]],
              !["provider"] = [w \in Principals |-> IF w \in LeftBehind THEN None ELSE @[w]]]
         /\ range' = [range EXCEPT !["override_gid"].next =
                         NextAfter("override_gid", TRUE, taken)]
    BY DEF Repoint
<1>2. \A w \in Principals :
         /\ held'["override"][w] = IF w \in new THEN f[w] ELSE held["override"][w]
         /\ held'["provider"][w] = IF w \in LeftBehind THEN None ELSE held["provider"][w]
    BY <1>1 DEF TypeInv, TypeOK, Pools
<1>3. \A r \in Ranges : Window(r)' = Window(r)
    BY <1>1 DEF TypeInv, TypeOK, RangeRows, Window
<1>4. \A v \in taken :
         /\ v \in Window("override_gid") /\ v \in Values /\ v # None
         /\ \A q \in Pools, w \in Principals : held[q][w] # v
         /\ \A r \in Ranges : v \in Window(r) => PoolOf[r] = "override"
    <2> SUFFICES ASSUME NEW v \in taken
                 PROVE  /\ v \in Window("override_gid") /\ v \in Values /\ v # None
                        /\ \A q \in Pools, w \in Principals : held[q][w] # v
                        /\ \A r \in Ranges : v \in Window(r) => PoolOf[r] = "override"
        OBVIOUS
    <2>1. "override_gid" \in Ranges /\ PoolOf["override_gid"] = "override"
        BY DEF Ranges, PoolOf
    <2>2. v \in Window("override_gid") /\ v \notin Active("override")
        BY <2>1, OfferedIsFree DEF TypeInv
    <2>3. v \in Values /\ v # None
        BY <2>1, <2>2, FreeInRange, ValuesAreNumbers
    <2>4. \A w \in Principals : held["override"][w] # v
        BY <2>2, <2>3 DEF Active
    <2> QED
        BY <2>1, <2>2, <2>3, <2>4, FreeInRange
<1>5. RangesApart'
    BY <1>3 DEF HolderInv, RangesApart
<1>6. \A w \in new : f[w] \in taken
    BY <1>1
<1> DEFINE Old(q, w) == held'[q][w] = held[q][w] \/ held'[q][w] = None
           New(q, w) == q = "override" /\ w \in new /\ held'[q][w] = f[w]
<1> HIDE DEF new, taken
<1>7. \A q \in Pools, w \in Principals : Old(q, w) \/ New(q, w)
    BY <1>2 DEF Pools
<1>8. ASSUME NEW q1 \in Pools, NEW q2 \in Pools, NEW w1 \in Principals, NEW w2 \in Principals,
             held'[q1][w1] = held'[q2][w2], held'[q1][w1] # None
      PROVE  q1 = q2 /\ w1 = w2
    <2>1. CASE Old(q1, w1) /\ Old(q2, w2)
        BY <1>8, <2>1 DEF HolderInv, OneHolder
    <2>2. CASE New(q1, w1) /\ New(q2, w2)
        BY <1>1, <1>8, <2>2
    <2>3. CASE Old(q1, w1) /\ New(q2, w2)
        BY <1>4, <1>6, <1>8, <2>3
    <2>4. CASE New(q1, w1) /\ Old(q2, w2)
        BY <1>4, <1>6, <1>8, <2>4
    <2> QED
        BY <1>7, <2>1, <2>2, <2>3, <2>4
<1>9. ASSUME NEW q \in Pools, NEW w \in Principals, NEW r \in Ranges, held'[q][w] \in Window(r)'
      PROVE  PoolOf[r] = q
    <2>1. held'[q][w] \in Window(r) /\ held'[q][w] # None
        BY <1>3, <1>9, NoneIsOutside DEF TypeInv
    <2>2. CASE Old(q, w)
        BY <2>1, <2>2 DEF HolderInv, KeptOut
    <2>3. CASE New(q, w)
        BY <1>4, <1>6, <2>1, <2>3
    <2> QED
        BY <1>7, <2>2, <2>3
<1> QED
    BY <1>5, <1>8, <1>9 DEF OneHolder, KeptOut

LEMMA UserHolders ==
    ASSUME TypeInv, HolderInv, UserStep
    PROVE  RangesApart' /\ OneHolder' /\ KeptOut'
<1>1. TypeOK /\ Users \subseteq Principals
    BY DEF TypeInv, Principals
<1>2. ASSUME UNCHANGED range PROVE \A r \in Ranges : Window(r)' = Window(r)
    BY <1>2 DEF Window
<1>3. ASSUME UNCHANGED <<range, held>> PROVE RangesApart' /\ OneHolder' /\ KeptOut'
    BY <1>2, <1>3, GivingBackKeepsHolders
<1>4. ASSUME NEW u \in Users, NEW o \in Offerings, NEW p \in Procs, BeginFill(p, u, o)
      PROVE  RangesApart' /\ OneHolder' /\ KeptOut'
    <2>1. CASE UNCHANGED <<range, held>>
        BY <1>3, <2>1
    <2>2. CASE \E v \in Values : Hand(u, AccountRange(o), TRUE, v)
        BY <1>1, <2>2, Places, HandKeepsHolders
    <2> QED
        BY <1>4, <2>1, <2>2 DEF BeginFill
<1>5. ASSUME NEW p \in Procs, CommitPin(p) PROVE RangesApart' /\ OneHolder' /\ KeptOut'
    <2>1. proc[p].source \in Pools /\ proc[p].u \in Principals /\ proc[p].value \in Values
        BY <1>1, <1>5, TaskShapes DEF CommitPin
    <2>2. PICK pool \in Pools, u \in Principals, v \in Values :
             pool = proc[p].source /\ u = proc[p].u /\ v = proc[p].value
        BY <2>1
    <2>3. PICK r \in Ranges : PoolOf[r] = pool /\ v \in Window(r)
        BY <1>5, <2>2 DEF CommitPin, HolderInv, PinsInside
    <2>4. /\ \A q \in Pools, x \in Principals : held[q][x] = v => q = pool
          /\ \A x \in Ranges : v \in Window(x) => PoolOf[x] = pool
        BY <2>3, FreeInRange
    <2>5. \A x \in Ranges : Window(x)' = Window(x)
        BY <1>2, <1>5 DEF CommitPin
    <2>6. CASE UNCHANGED held
        BY <1>3, <1>5, <2>6 DEF CommitPin
    <2>7. CASE /\ held' = [held EXCEPT ![pool][u] = v]
               /\ \A x \in Principals \ {u} : held[pool][x] # v
        <3>1. \A q \in Pools, x \in Principals : held[q][x] = v => q = pool /\ x = u
            BY <2>4, <2>7
        <3>2. held' = [held EXCEPT ![pool][u] = v]
            BY <2>7
        <3>3. \A x \in Ranges : v \in Window(x) => PoolOf[x] = pool
            BY <2>4
        <3> QED
            BY <2>5, <3>1, <3>2, <3>3, TakingKeepsHolders
    <2> QED
        BY <1>5, <2>2, <2>6, <2>7 DEF CommitPin
<1>6. ASSUME NEW p \in Procs, CommitDelete(p) PROVE RangesApart' /\ OneHolder' /\ KeptOut'
    <2>1. \A r \in Ranges : Window(r)' = Window(r)
        BY <1>2, <1>6 DEF CommitDelete
    <2>2. \A q \in Pools, w \in Principals : held'[q][w] \in {held[q][w], None}
        BY <1>1, <1>6 DEF CommitDelete, Release, TypeOK
    <2> QED
        BY <2>1, <2>2, GivingBackKeepsHolders
<1>7. CASE Repoint
    BY <1>7, RepointHolders
<1>8. ASSUME NEW u \in Users, NEW o \in Offerings, NEW p \in Procs, NEW v \in Values,
             CreateAccount(u, o) \/ BeginDelete(p, u, o) \/ BeginPin(p, u, o, v)
      PROVE  UNCHANGED <<range, held>>
    BY <1>8 DEF CreateAccount, BeginDelete, BeginPin
<1>9. ASSUME NEW p \in Procs, CommitFill(p) PROVE UNCHANGED <<range, held>>
    BY <1>9 DEF CommitFill
<1>10. ASSUME NEW u \in Users, NEW o \in Offerings, CreateAccount(u, o)
       PROVE  UNCHANGED <<range, held>>
    BY <1>10 DEF CreateAccount
<1>11. ASSUME NEW u \in Users, NEW o \in Offerings, NEW p \in Procs, BeginDelete(p, u, o)
       PROVE  UNCHANGED <<range, held>>
    BY <1>11 DEF BeginDelete
<1> QED
    BY <1>3, <1>4, <1>5, <1>6, <1>7, <1>8, <1>9, <1>10, <1>11 DEF UserStep

LEMMA GroupHolders ==
    ASSUME TypeInv, HolderInv, GroupStep
    PROVE  RangesApart' /\ OneHolder' /\ KeptOut'
<1>1. TypeOK /\ Groups \subseteq Principals /\ "provider" \in Pools
    BY DEF TypeInv, Principals, Pools
<1>2. ASSUME UNCHANGED range PROVE \A r \in Ranges : Window(r)' = Window(r)
    BY <1>2 DEF Window
<1>3. ASSUME UNCHANGED <<range, held>> PROVE RangesApart' /\ OneHolder' /\ KeptOut'
    BY <1>2, <1>3, GivingBackKeepsHolders
<1>4. ASSUME NEW g \in Groups, NEW p \in Procs, NEW v \in Values, BeginSetGid(p, g, v)
      PROVE  UNCHANGED <<range, held>>
    BY <1>4 DEF BeginSetGid
<1>5. ASSUME NEW g \in Groups, CreateGroup(g) PROVE UNCHANGED <<range, held>>
    BY <1>5 DEF CreateGroup
<1>6. ASSUME NEW p \in Procs, CommitAllocateGid(p) PROVE UNCHANGED <<range, held>>
    BY <1>6 DEF CommitAllocateGid
<1>7. ASSUME NEW g \in Groups, NEW p \in Procs, BeginAllocateGid(p, g)
      PROVE  RangesApart' /\ OneHolder' /\ KeptOut'
    <2>1. CASE UNCHANGED <<range, held>>
        BY <1>3, <2>1
    <2>2. CASE \E v \in Values : Hand(g, GroupRange, FALSE, v)
        BY <1>1, <2>2, Places, HandKeepsHolders
    <2> QED
        BY <1>7, <2>1, <2>2 DEF BeginAllocateGid
<1>8. ASSUME NEW g \in Groups, DeleteGroup(g) PROVE RangesApart' /\ OneHolder' /\ KeptOut'
    <2>1. \A r \in Ranges : Window(r)' = Window(r)
        BY <1>2, <1>8 DEF DeleteGroup
    <2>2. \A q \in Pools, w \in Principals : held'[q][w] \in {held[q][w], None}
        BY <1>1, <1>8 DEF DeleteGroup, TypeOK
    <2> QED
        BY <2>1, <2>2, GivingBackKeepsHolders
<1>9. ASSUME NEW p \in Procs, CommitSetGid(p) PROVE RangesApart' /\ OneHolder' /\ KeptOut'
    <2> DEFINE g == proc[p].g
               v == proc[p].value
               taken == \E q \in Pools, w \in Principals \ {g} : held[q][w] = v
    <2>1. g \in Groups /\ v \in Values /\ v # None /\ v \notin Window("override_gid")
        BY <1>1, <1>9, TaskShapes, ValuesAreNumbers DEF CommitSetGid, HolderInv, PinsKeepOut
    <2>2. CASE taken
        BY <1>3, <1>9, <2>2 DEF CommitSetGid
    <2>3. CASE ~ taken
        <3>1. held' = [held EXCEPT !["provider"][g] = v]
            BY <1>9, <2>3 DEF CommitSetGid
        <3>2. held["override"][g] = None
            BY <2>1 DEF HolderInv, GroupsKeepOut
        <3>3. \A q \in Pools, x \in Principals : held[q][x] = v => q = "provider" /\ x = g
            BY <2>1, <2>3, <3>2 DEF Pools
        <3>4. \A r \in Ranges : v \in Window(r) => PoolOf[r] = "provider"
            BY <2>1 DEF Ranges, PoolOf
        <3>5. \A r \in Ranges : Window(r)' = Window(r)
            BY <1>2, <1>9 DEF CommitSetGid
        <3> HIDE DEF g, v
        <3> QED
            BY <1>1, <2>1, <3>1, <3>3, <3>4, <3>5, TakingKeepsHolders
    <2> QED
        BY <2>2, <2>3
<1> QED
    BY <1>3, <1>4, <1>5, <1>6, <1>7, <1>8, <1>9 DEF GroupStep

LEMMA OperatorHolders ==
    ASSUME TypeInv, HolderInv, OperatorStep
    PROVE  RangesApart' /\ OneHolder' /\ KeptOut'
<1>1. TypeOK
    BY DEF TypeInv
<1>2. ASSUME UNCHANGED <<range, held>> PROVE RangesApart' /\ OneHolder' /\ KeptOut'
    <2>1. \A r \in Ranges : Window(r)' = Window(r)
        BY <1>2 DEF Window
    <2> QED
        BY <1>2, <2>1, GivingBackKeepsHolders
<1>3. ASSUME NEW p \in Procs, CommitUpdatePool(p)
      PROVE  RangesApart' /\ OneHolder' /\ KeptOut'
    <2> DEFINE e == proc[p].edit
               row == proc[p].row
               own == {r \in Ranges : PoolOf[r] = PoolOf[e.r]}
    <2>1. e \in AllEdits /\ row \in [Ranges -> RangeRows] /\ e.r \in Ranges
        BY <1>1, <1>3, TaskShapes, EditShapes DEF CommitUpdatePool
    <2>2. CASE UNCHANGED range
        BY <1>2, <1>3, <2>2 DEF CommitUpdatePool
    <2>3. CASE Accepted(e, row) /\ range' = Candidate(e, row)
        <3>1. held' = held /\ TypeOK'
            BY <1>3, TypeNext DEF CommitUpdatePool, TypeInv, Next, OperatorStep
        <3>2. \A r \in Ranges : Window(r)' = BoundsOf(Candidate(e, row)[r])
            BY <2>3 DEF Window, BoundsOf
        <3>3. \A r \in Ranges \ own : Window(r)' = Window(r)
            BY <3>2 DEF Candidate, BoundsOf, Window
        <3>4. \A r \in own : \A x \in Ranges \ {r} : Window(r)' \cap Window(x)' = {}
            BY <2>3, <3>2 DEF Accepted, Fits
        <3>5. \A r \in own, q \in Pools \ {PoolOf[e.r]} : Window(r)' \cap Active(q) = {}
            BY <2>3, <3>2 DEF Accepted
        <3>6. \A r \in Ranges : None \notin Window(r)'
            BY <3>1, NumbersAssumption DEF TypeOK, RangeRows, Window, Values, None
        <3> HIDE DEF e, row
        <3>7. RangesApart'
            <4> SUFFICES ASSUME NEW r \in Ranges, NEW x \in Ranges, PoolOf[r] # PoolOf[x]
                         PROVE  Window(r)' \cap Window(x)' = {}
                BY DEF RangesApart
            <4>1. CASE r \in own
                BY <3>4, <4>1
            <4>2. CASE x \in own
                BY <3>4, <4>2
            <4>3. CASE r \notin own /\ x \notin own
                BY <3>3, <4>3 DEF HolderInv, RangesApart
            <4> QED
                BY <4>1, <4>2, <4>3
        <3>8. KeptOut'
            <4> SUFFICES ASSUME NEW q \in Pools, NEW w \in Principals, NEW r \in Ranges,
                                held[q][w] \in Window(r)'
                         PROVE  PoolOf[r] = q
                BY <3>1 DEF KeptOut
            <4>1. CASE r \in own
                <5>1. held[q][w] \in Active(q)
                    BY <3>6 DEF Active
                <5> QED
                    BY <3>5, <4>1, <5>1
            <4>2. CASE r \notin own
                BY <3>3, <4>2 DEF HolderInv, KeptOut
            <4> QED
                BY <4>1, <4>2
        <3> QED
            BY <3>1, <3>7, <3>8 DEF HolderInv, OneHolder
    <2> QED
        BY <1>3, <2>2, <2>3 DEF CommitUpdatePool
<1>4. ASSUME NEW x \in freed, Recirculate(x) PROVE UNCHANGED <<range, held>>
    BY <1>4 DEF Recirculate
<1>5. ASSUME NEW p \in Procs, NEW e \in AllEdits, BeginUpdatePool(p, e)
      PROVE  UNCHANGED <<range, held>>
    BY <1>5 DEF BeginUpdatePool
<1> QED
    BY <1>2, <1>3, <1>4, <1>5 DEF OperatorStep

LEMMA GroupsStayOut ==
    ASSUME TypeInv, HolderInv, Next
    PROVE  GroupsKeepOut'
<1>1. TypeOK /\ GroupsKeepOut /\ Groups \cap Users = {} /\ Groups \subseteq Principals
    BY PrincipalsAssumption DEF TypeInv, HolderInv, Principals
<1>2. ASSUME UNCHANGED held PROVE GroupsKeepOut'
    BY <1>1, <1>2 DEF GroupsKeepOut
<1>3. ASSUME NEW w \in Principals, NEW r \in Ranges, NEW recycle, NEW v,
             Hand(w, r, recycle, v), w \in Users \/ PoolOf[r] = "provider"
      PROVE  GroupsKeepOut'
    BY <1>1, <1>3 DEF GroupsKeepOut, Hand, TypeOK
<1>4. CASE UserStep
    <2>1. ASSUME NEW u \in Users, NEW o \in Offerings, NEW p \in Procs, BeginFill(p, u, o)
          PROVE  GroupsKeepOut'
        BY <1>2, <1>3, <2>1, Places DEF BeginFill, Principals
    <2>2. ASSUME NEW p \in Procs, CommitPin(p) PROVE GroupsKeepOut'
        <3>1. proc[p].u \in Users
            BY <1>1, <2>2, TaskShapes DEF CommitPin
        <3> QED
            <4>1. CASE UNCHANGED held
                BY <1>2, <4>1
            <4>2. CASE held' = [held EXCEPT ![proc[p].source][proc[p].u] = proc[p].value]
                BY <1>1, <3>1, <4>2 DEF GroupsKeepOut, TypeOK, Pools
            <4> QED
                BY <2>2, <4>1, <4>2 DEF CommitPin
    <2>3. ASSUME NEW p \in Procs, CommitDelete(p) PROVE GroupsKeepOut'
        BY <1>1, <2>3 DEF CommitDelete, Release, GroupsKeepOut, TypeOK, Pools
    <2>4. CASE Repoint
        <3>1. \A g \in Groups : held'["override"][g] = held["override"][g]
            BY <1>1, <2>4 DEF Repoint, Movers, TypeOK, Pools
        <3> QED
            BY <1>1, <3>1 DEF GroupsKeepOut
    <2>5. ASSUME NEW p \in Procs, NEW u \in Users, NEW o \in Offerings,
                 BeginDelete(p, u, o) \/ \E v \in Values : BeginPin(p, u, o, v)
          PROVE  UNCHANGED held
        BY <2>5 DEF BeginDelete, BeginPin
    <2>6. ASSUME NEW u \in Users, NEW o \in Offerings, CreateAccount(u, o) PROVE UNCHANGED held
        BY <2>6 DEF CreateAccount
    <2>7. ASSUME NEW p \in Procs, CommitFill(p) PROVE UNCHANGED held
        BY <2>7 DEF CommitFill
    <2> QED
        BY <1>2, <1>4, <2>1, <2>2, <2>3, <2>4, <2>5, <2>6, <2>7 DEF UserStep
<1>5. CASE GroupStep
    <2>1. ASSUME NEW g \in Groups, NEW p \in Procs, BeginAllocateGid(p, g) PROVE GroupsKeepOut'
        BY <1>1, <1>2, <1>3, <2>1, Places DEF BeginAllocateGid
    <2>2. ASSUME NEW g \in Groups, DeleteGroup(g) PROVE GroupsKeepOut'
        BY <1>1, <2>2 DEF DeleteGroup, GroupsKeepOut, TypeOK, Pools
    <2>3. ASSUME NEW p \in Procs, CommitSetGid(p) PROVE GroupsKeepOut'
        BY <1>1, <1>2, <2>3 DEF CommitSetGid, GroupsKeepOut, TypeOK, Pools
    <2>4. ASSUME NEW g \in Groups, NEW p \in Procs, NEW v \in Values, BeginSetGid(p, g, v)
          PROVE  UNCHANGED held
        BY <2>4 DEF BeginSetGid
    <2>5. ASSUME NEW g \in Groups, CreateGroup(g) PROVE UNCHANGED held
        BY <2>5 DEF CreateGroup
    <2>6. ASSUME NEW p \in Procs, CommitAllocateGid(p) PROVE UNCHANGED held
        BY <2>6 DEF CommitAllocateGid
    <2> QED
        BY <1>2, <1>5, <2>1, <2>2, <2>3, <2>4, <2>5, <2>6 DEF GroupStep
<1>6. CASE OperatorStep
    BY <1>2, <1>6 DEF OperatorStep, BeginUpdatePool, CommitUpdatePool, Recirculate
<1> QED
    BY <1>4, <1>5, <1>6 DEF Next

\* Steps about accounts and groups leave the ranges where they are.
LEMMA WindowsStay ==
    ASSUME TypeInv, UserStep \/ GroupStep
    PROVE  \A r \in Ranges : Window(r)' = Window(r)
<1>1. ASSUME UNCHANGED range PROVE \A r \in Ranges : Window(r)' = Window(r)
    BY <1>1 DEF Window
<1>2. CASE UserStep
    <2>1. ASSUME NEW u \in Users, NEW o \in Offerings, NEW p \in Procs, BeginFill(p, u, o)
          PROVE  \A r \in Ranges : Window(r)' = Window(r)
        BY <1>1, <2>1, Places, HandKeepsWindows DEF BeginFill
    <2>2. CASE Repoint
        BY <2>2 DEF Repoint, TypeInv, TypeOK, RangeRows, Window
    <2>3. ASSUME NEW p \in Procs, NEW u \in Users, NEW o \in Offerings,
                 BeginDelete(p, u, o) \/ \E v \in Values : BeginPin(p, u, o, v)
          PROVE  UNCHANGED range
        BY <2>3 DEF BeginDelete, BeginPin
    <2>4. ASSUME NEW u \in Users, NEW o \in Offerings, CreateAccount(u, o) PROVE UNCHANGED range
        BY <2>4 DEF CreateAccount
    <2>5. ASSUME NEW p \in Procs, CommitFill(p) \/ CommitDelete(p) \/ CommitPin(p)
          PROVE  UNCHANGED range
        BY <2>5 DEF CommitFill, CommitDelete, CommitPin
    <2> QED
        BY <1>1, <1>2, <2>1, <2>2, <2>3, <2>4, <2>5 DEF UserStep
<1>3. CASE GroupStep
    <2>1. ASSUME NEW g \in Groups, NEW p \in Procs, BeginAllocateGid(p, g)
          PROVE  \A r \in Ranges : Window(r)' = Window(r)
        BY <1>1, <2>1, Places, HandKeepsWindows DEF BeginAllocateGid
    <2>2. ASSUME NEW g \in Groups, CreateGroup(g) \/ DeleteGroup(g) PROVE UNCHANGED range
        BY <2>2 DEF CreateGroup, DeleteGroup
    <2>3. ASSUME NEW g \in Groups, NEW p \in Procs, NEW v \in Values, BeginSetGid(p, g, v)
          PROVE  UNCHANGED range
        BY <2>3 DEF BeginSetGid
    <2>4. ASSUME NEW p \in Procs, CommitAllocateGid(p) \/ CommitSetGid(p) PROVE UNCHANGED range
        BY <2>4 DEF CommitAllocateGid, CommitSetGid
    <2> QED
        BY <1>1, <1>3, <2>1, <2>2, <2>3, <2>4 DEF GroupStep
<1> QED
    BY <1>2, <1>3

\* What a step does to the tasks under way.
Continues(p) == proc'[p] = proc[p] \/ proc'[p] = Idle
Takes(p, t) == proc'[p] = t /\ \A q \in Procs \ {p} : proc'[q] = proc[q]

LEMMA TaskSteps ==
    ASSUME TypeInv, Next
    PROVE  \/ \A p \in Procs : Continues(p)
           \/ \E p \in Procs, u \in Users, o \in Offerings, v \in Values :
                 BeginPin(p, u, o, v)
           \/ \E p \in Procs, g \in Groups, v \in Values : BeginSetGid(p, g, v)
           \/ \E p \in Procs, u \in Users, o \in Offerings :
                 BeginFill(p, u, o) \/ BeginDelete(p, u, o)
           \/ \E p \in Procs, g \in Groups : BeginAllocateGid(p, g)
           \/ \E p \in Procs, e \in AllEdits : BeginUpdatePool(p, e)
<1>1. ASSUME UNCHANGED proc PROVE \A p \in Procs : Continues(p)
    BY <1>1 DEF Continues
<1>2. ASSUME NEW p \in Procs, Ends(p) PROVE \A q \in Procs : Continues(q)
    BY <1>2 DEF Continues, Ends, TypeInv, TypeOK
<1>3. ASSUME UserStep, NEW p \in Procs, CommitDelete(p) PROVE \A q \in Procs : Continues(q)
    BY <1>3 DEF CommitDelete, Continues
<1>4. ASSUME NEW g \in Groups, DeleteGroup(g) PROVE \A q \in Procs : Continues(q)
    BY <1>4 DEF DeleteGroup, Continues
<1>5. ASSUME NEW p \in Procs, CommitFill(p) \/ CommitPin(p) \/ CommitAllocateGid(p)
                              \/ CommitSetGid(p) \/ CommitUpdatePool(p)
      PROVE  Ends(p)
    BY <1>5 DEF CommitFill, CommitPin, CommitAllocateGid, CommitSetGid, CommitUpdatePool
<1>6. ASSUME \/ \E u \in Users, o \in Offerings : CreateAccount(u, o)
             \/ Repoint
             \/ \E g \in Groups : CreateGroup(g)
             \/ \E x \in freed : Recirculate(x)
      PROVE  UNCHANGED proc
    BY <1>6 DEF CreateAccount, Repoint, CreateGroup, Recirculate
<1> QED
    BY <1>1, <1>2, <1>3, <1>4, <1>5, <1>6 DEF Next, UserStep, GroupStep, OperatorStep

\* The task a worker takes up, of which kind, and what it has looked at.
LEMMA TasksTaken ==
    ASSUME TypeInv, NEW p \in Procs
    PROVE  /\ \A u \in Users, o \in Offerings, v \in Values :
                 BeginPin(p, u, o, v) =>
                    Takes(p, [op |-> "pin", u |-> u, o |-> o, value |-> v, source |-> Resolve(o)])
           /\ \A g \in Groups, v \in Values :
                 BeginSetGid(p, g, v) => Takes(p, [op |-> "set_gid", g |-> g, value |-> v])
           /\ \A u \in Users, o \in Offerings :
                 BeginFill(p, u, o) =>
                    \E v \in Values :
                       Takes(p, [op |-> "fill", u |-> u, o |-> o, value |-> v, source |-> Resolve(o)])
           /\ \A u \in Users, o \in Offerings :
                 BeginDelete(p, u, o) =>
                    Takes(p, [op |-> "delete", u |-> u, o |-> o, in_use |-> InUse(u, o)])
           /\ \A g \in Groups : BeginAllocateGid(p, g) => \E t : Takes(p, t) /\ t.op = "allocate_gid"
           /\ \A e \in AllEdits : BeginUpdatePool(p, e) => \E t : Takes(p, t) /\ t.op = "update_pool"
<1>1. ASSUME NEW t, proc' = [proc EXCEPT ![p] = t] PROVE Takes(p, t)
    BY <1>1 DEF Takes, TypeInv, TypeOK
<1>2. ASSUME NEW u \in Users, NEW o \in Offerings, NEW v \in Values, BeginPin(p, u, o, v)
      PROVE  Takes(p, [op |-> "pin", u |-> u, o |-> o, value |-> v, source |-> Resolve(o)])
    BY <1>1, <1>2 DEF BeginPin
<1>3. ASSUME NEW g \in Groups, NEW v \in Values, BeginSetGid(p, g, v)
      PROVE  Takes(p, [op |-> "set_gid", g |-> g, value |-> v])
    BY <1>1, <1>3 DEF BeginSetGid
<1>4. ASSUME NEW u \in Users, NEW o \in Offerings, BeginFill(p, u, o)
      PROVE  \E v \in Values :
                Takes(p, [op |-> "fill", u |-> u, o |-> o, value |-> v, source |-> Resolve(o)])
    BY <1>1, <1>4 DEF BeginFill
<1>5. ASSUME NEW u \in Users, NEW o \in Offerings, BeginDelete(p, u, o)
      PROVE  Takes(p, [op |-> "delete", u |-> u, o |-> o, in_use |-> InUse(u, o)])
    BY <1>1, <1>5 DEF BeginDelete
<1>6. ASSUME NEW g \in Groups, BeginAllocateGid(p, g) PROVE \E t : Takes(p, t) /\ t.op = "allocate_gid"
    <2>1. PICK v \in Values :
             proc' = [proc EXCEPT ![p] = [op |-> "allocate_gid", g |-> g, value |-> v]]
        BY <1>6 DEF BeginAllocateGid
    <2> DEFINE t == [op |-> "allocate_gid", g |-> g, value |-> v]
    <2>2. Takes(p, t) /\ t.op = "allocate_gid"
        BY <1>1, <2>1
    <2> QED
        BY <2>2
<1>7. ASSUME NEW e \in AllEdits, BeginUpdatePool(p, e) PROVE \E t : Takes(p, t) /\ t.op = "update_pool"
    <2> DEFINE row == [r \in Ranges |-> IF PoolOf[r] = PoolOf[e.r] THEN range[r] ELSE Off]
    <2>1. proc' = [proc EXCEPT ![p] = [op |-> "update_pool", edit |-> e, row |-> row]]
        BY <1>7 DEF BeginUpdatePool
    <2> HIDE DEF row
    <2> DEFINE t == [op |-> "update_pool", edit |-> e, row |-> row]
    <2>2. Takes(p, t) /\ t.op = "update_pool"
        BY <1>1, <2>1
    <2> QED
        BY <2>2
<1> QED
    BY <1>2, <1>3, <1>4, <1>5, <1>6, <1>7

\* A pin that begins has looked at the ranges, which then stay until it is done.
LEMMA PinsHolders ==
    ASSUME PinsAreServed, TypeInv, HolderInv, Next
    PROVE  PinsInside' /\ PinsKeepOut'
<1>1. PinsInside /\ PinsKeepOut
    BY DEF HolderInv
<1>2. ASSUME NEW p \in Procs, CommitUpdatePool(p) PROVE PinsInside' /\ PinsKeepOut'
    <2>1. \A q \in Procs : proc[q].op \notin {"pin", "set_gid"}
        BY <1>2 DEF CommitUpdatePool, PinsInTurn, PinsAreServed
    <2>2. \A q \in Procs : proc'[q].op \notin {"pin", "set_gid"}
        BY <1>2, <2>1 DEF CommitUpdatePool, Ends, Idle, TypeInv, TypeOK
    <2> QED
        BY <2>2 DEF PinsInside, PinsKeepOut
<1>3. ASSUME \/ UserStep \/ GroupStep
             \/ \E x \in freed : Recirculate(x)
             \/ \E p \in Procs, e \in AllEdits : BeginUpdatePool(p, e)
      PROVE  PinsInside' /\ PinsKeepOut'
    <2>1. \A r \in Ranges : Window(r)' = Window(r)
        <3>1. CASE UserStep \/ GroupStep
            BY <3>1, WindowsStay
        <3>2. CASE \/ \E x \in freed : Recirculate(x)
                   \/ \E p \in Procs, e \in AllEdits : BeginUpdatePool(p, e)
            BY <3>2 DEF Recirculate, BeginUpdatePool, Window
        <3> QED
            BY <1>3, <3>1, <3>2
    <2>2. "override_gid" \in Ranges
        BY DEF Ranges
    <2>3. ASSUME NEW p \in Procs, NEW t, Takes(p, t),
                 t.op = "pin" => \E r \in Ranges : PoolOf[r] = t.source /\ t.value \in Window(r),
                 t.op = "set_gid" => t.value \notin Window("override_gid")
          PROVE  PinsInside' /\ PinsKeepOut'
        BY <1>1, <2>1, <2>2, <2>3 DEF Takes, PinsInside, PinsKeepOut
    <2>4. CASE \A p \in Procs : Continues(p)
        BY <1>1, <2>1, <2>2, <2>4 DEF Continues, Idle, PinsInside, PinsKeepOut
    <2>5. ASSUME NEW p \in Procs, NEW u \in Users, NEW o \in Offerings, NEW v \in Values,
                 BeginPin(p, u, o, v)
          PROVE  PinsInside' /\ PinsKeepOut'
        <3> DEFINE t == [op |-> "pin", u |-> u, o |-> o, value |-> v, source |-> Resolve(o)]
        <3>1. Takes(p, t)
            BY <2>5, TasksTaken
        <3>2. AccountRange(o) \in Ranges /\ PoolOf[AccountRange(o)] = t.source
              /\ t.value \in Window(AccountRange(o))
            BY <2>5, Places DEF BeginPin
        <3>3. t.op = "pin"
            OBVIOUS
        <3> HIDE DEF t
        <3> QED
            BY <2>3, <3>1, <3>2, <3>3
    <2>6. ASSUME NEW p \in Procs, NEW g \in Groups, NEW v \in Values, BeginSetGid(p, g, v)
          PROVE  PinsInside' /\ PinsKeepOut'
        <3> DEFINE t == [op |-> "set_gid", g |-> g, value |-> v]
        <3>1. Takes(p, t)
            BY <2>6, TasksTaken
        <3>2. t.value \notin Window("override_gid") /\ t.op = "set_gid"
            BY <2>6 DEF BeginSetGid
        <3> HIDE DEF t
        <3> QED
            BY <2>3, <3>1, <3>2
    <2>7. ASSUME NEW p \in Procs, NEW u \in Users, NEW o \in Offerings, BeginFill(p, u, o)
          PROVE  PinsInside' /\ PinsKeepOut'
        <3>1. PICK v \in Values :
                 Takes(p, [op |-> "fill", u |-> u, o |-> o, value |-> v, source |-> Resolve(o)])
            BY <2>7, TasksTaken
        <3> QED
            BY <2>3, <3>1
    <2>8. ASSUME NEW p \in Procs, NEW u \in Users, NEW o \in Offerings, BeginDelete(p, u, o)
          PROVE  PinsInside' /\ PinsKeepOut'
        <3>1. Takes(p, [op |-> "delete", u |-> u, o |-> o, in_use |-> InUse(u, o)])
            BY <2>8, TasksTaken
        <3> QED
            BY <2>3, <3>1
    <2>9. ASSUME NEW p \in Procs, NEW g \in Groups, BeginAllocateGid(p, g)
          PROVE  PinsInside' /\ PinsKeepOut'
        <3>1. PICK t : Takes(p, t) /\ t.op = "allocate_gid"
            BY <2>9, TasksTaken
        <3> QED
            BY <2>3, <3>1
    <2>10. ASSUME NEW p \in Procs, NEW e \in AllEdits, BeginUpdatePool(p, e)
           PROVE  PinsInside' /\ PinsKeepOut'
        <3>1. PICK t : Takes(p, t) /\ t.op = "update_pool"
            BY <2>10, TasksTaken
        <3> QED
            BY <2>3, <3>1
    <2> QED
        BY <2>4, <2>5, <2>6, <2>7, <2>8, <2>9, <2>10, TaskSteps
<1> QED
    BY <1>2, <1>3 DEF Next, OperatorStep

LEMMA HolderNext == PinsAreServed /\ TypeInv /\ HolderInv /\ [Next]_vars => HolderInv'
<1> SUFFICES ASSUME PinsAreServed, TypeInv, HolderInv, [Next]_vars PROVE HolderInv'
    OBVIOUS
<1>1. CASE Next
    <2>1. RangesApart' /\ OneHolder' /\ KeptOut'
        BY <1>1, UserHolders, GroupHolders, OperatorHolders DEF Next
    <2> QED
        BY <1>1, <2>1, GroupsStayOut, PinsHolders DEF HolderInv
<1>2. CASE UNCHANGED vars
    BY <1>2 DEF vars, HolderInv, RangesApart, Window, PinsInside, PinsKeepOut, GroupsKeepOut,
                OneHolder, KeptOut
<1> QED
    BY <1>1, <1>2

\* No number is held by two principals, in whichever pools, however requests
\* overlap, numbers are pinned and recycled and ranges moved, provided that no
\* range is saved while a pin lies between its checks and its lock
\* (set_value, set_project_group_gid, validate_pool).
THEOREM NumbersHaveOneHolder ==
    ASSUME PinsAreServed
    PROVE  Spec => []OneHolder
<1>1. HolderInv => OneHolder
    BY DEF HolderInv
<1>2. TypeInv /\ HolderInv /\ [Next]_vars => HolderInv'
    BY HolderNext
<1> QED
    BY <1>1, <1>2, TypeInit, TypeNext, HolderInit, PTL DEF Spec

\* On the same condition a number that is held lies in no range of another pool
\* (_check_foreign_identities).
THEOREM RangesKeepOut ==
    ASSUME PinsAreServed
    PROVE  Spec => []KeptOut
<1>1. HolderInv => KeptOut
    BY DEF HolderInv
<1>2. TypeInv /\ HolderInv /\ [Next]_vars => HolderInv'
    BY HolderNext
<1> QED
    BY <1>1, <1>2, TypeInit, TypeNext, HolderInit, PTL DEF Spec

--------------------------------------------------------------------------------
(* Accounts and the ledger.                                                   *)

\* Requests about the accounts of one user follow each other, none of its accounts
\* carries a number of a pool it has left, and pins are served as above.
NoCircumstances == Occurs = {}

UserTask(p) == proc[p].op \in {"fill", "pin", "delete"}
OnePerUser ==
    \A p, q \in Procs : UserTask(p) /\ UserTask(q) /\ proc[p].u = proc[q].u => p = q

\* What a worker has read of its user's numbers is still so.
Fresh(p) ==
    LET h == proc[p] IN
    /\ h.op = "fill" => held[h.source][h.u] = h.value
    /\ h.op = "pin" =>
          /\ h.source = Resolve(h.o)
          /\ \A x \in Offerings \ {h.o} :
                account[h.u][x].value \in Values => account[h.u][x].source = Resolve(x)
    /\ h.op = "delete" =>
          \A x \in Offerings \ {h.o} :
             account[h.u][x].value \in Values => account[h.u][x].source \in h.in_use
TasksFresh == \A p \in Procs : Fresh(p)

\* StaysReserved for one user.
Reserved(u) ==
    \A o \in Offerings :
        account[u][o].value \in Values => held[account[u][o].source][u] = account[u][o].value

LedgerInv == StaysReserved /\ OnePerUser /\ TasksFresh

LEMMA ReservedForAll == (StaysReserved <=> \A u \in Users : Reserved(u))
                        /\ (StaysReserved' <=> \A u \in Users : Reserved(u)')
    BY DEF StaysReserved, Reserved

LEMMA LedgerInit == Init => LedgerInv
<1> SUFFICES ASSUME Init PROVE LedgerInv
    OBVIOUS
<1>1. \A u \in Users, o \in Offerings : account[u][o].value \notin Values
    BY ValuesAreNumbers DEF Init, NoAccount
<1>2. \A p \in Procs : proc[p].op = "idle"
    BY DEF Init, Idle
<1>3. OnePerUser /\ TasksFresh
    BY <1>2 DEF OnePerUser, TasksFresh, Fresh, UserTask
<1> QED
    BY <1>1, <1>3 DEF LedgerInv, StaysReserved

\* The rows of user w are as they were.
Untouched(w) == account'[w] = account[w] /\ \A q \in Pools : held'[q][w] = held[q][w]

LEMMA AccountShapes ==
    ASSUME TypeOK, NEW u \in Users, NEW o \in Offerings
    PROVE  account[u][o] \in Accounts /\ account[u][o].source \in Pools
           /\ account[u][o].value \in Values \cup {None, Absent}
<1>1. account[u][o] \in Accounts
    BY DEF TypeOK
<1> QED
    BY <1>1 DEF Accounts

LEMMA UntouchedStays ==
    ASSUME TypeInv, LedgerInv, NEW w \in Users, Untouched(w)
    PROVE  Reserved(w)'
<1> SUFFICES ASSUME NEW o \in Offerings, account[w][o].value \in Values
             PROVE  held'[account[w][o].source][w] = account[w][o].value
    BY DEF Untouched, Reserved
<1>1. account[w][o].source \in Pools
    BY AccountShapes DEF TypeInv
<1> QED
    BY <1>1 DEF LedgerInv, StaysReserved, Untouched

LEMMA ResolveKept ==
    ASSUME Window("override_gid")' = Window("override_gid")
    PROVE  \A o : Resolve(o)' = Resolve(o)
    BY DEF Resolve, Manages

\* A task is as fresh as it was when nobody has touched its user's rows.
LEMMA FreshStays ==
    ASSUME TypeInv, NEW p \in Procs, UserTask(p), Fresh(p), proc'[p] = proc[p],
           Untouched(proc[p].u),
           proc[p].op = "pin" => Window("override_gid")' = Window("override_gid")
    PROVE  Fresh(p)'
<1>1. CASE proc[p].op = "fill"
    <2>1. proc[p].source \in Pools
        BY <1>1, TaskShapes DEF TypeInv
    <2> QED
        BY <1>1, <2>1 DEF Fresh, Untouched
<1>2. CASE proc[p].op = "pin"
    BY <1>2, ResolveKept DEF Fresh, Untouched
<1>3. CASE proc[p].op = "delete"
    BY <1>3 DEF Fresh, Untouched
<1> QED
    BY <1>1, <1>2, <1>3 DEF UserTask

\* Where no task is left of a user whose rows are touched, the tasks stay fresh.
LEMMA LedgerSettles ==
    ASSUME TypeInv, LedgerInv, NEW U \in SUBSET Users,
           \A w \in Users \ U : Untouched(w),
           \A p \in Procs : UserTask(p)' => proc'[p] = proc[p] /\ proc[p].u \notin U,
           (\A p \in Procs : proc[p].op # "pin") \/ Window("override_gid")' = Window("override_gid"),
           \A w \in U : Reserved(w)'
    PROVE  LedgerInv'
<1>1. StaysReserved'
    BY UntouchedStays, ReservedForAll
<1>2. \A p \in Procs : UserTask(p)' => UserTask(p) /\ proc'[p] = proc[p]
    BY DEF UserTask
<1>3. OnePerUser'
    BY <1>2 DEF LedgerInv, OnePerUser
<1>4. ASSUME NEW p \in Procs PROVE Fresh(p)'
    <2>1. CASE UserTask(p)'
        <3>1. UserTask(p) /\ proc'[p] = proc[p] /\ Fresh(p) /\ proc[p].u \notin U
            BY <1>2, <2>1 DEF LedgerInv, TasksFresh
        <3>2. proc[p].u \in Users
            BY <3>1, TaskShapes DEF TypeInv, UserTask
        <3> QED
            BY <3>1, <3>2, FreshStays
    <2>2. CASE ~ UserTask(p)'
        BY <2>2 DEF UserTask, Fresh
    <2> QED
        BY <2>1, <2>2
<1> QED
    BY <1>1, <1>3, <1>4 DEF LedgerInv, TasksFresh

\* A task that begins for a user of whom there was none.
LEMMA LedgerBegins ==
    ASSUME TypeInv, LedgerInv, NEW p \in Procs, NEW u \in Users, NEW t, Takes(p, t),
           t.u = u, t.op \in {"fill", "pin", "delete"},
           \A q \in Procs : UserTask(q) => proc[q].u # u,
           Window("override_gid")' = Window("override_gid"),
           \A w \in Users \ {u} : Untouched(w),
           Reserved(u)', Fresh(p)'
    PROVE  LedgerInv'
<1>1. StaysReserved'
    BY UntouchedStays, ReservedForAll
<1>2. ASSUME NEW q \in Procs \ {p}, UserTask(q)'
      PROVE  UserTask(q) /\ proc'[q] = proc[q] /\ proc[q].u # u
    BY <1>2 DEF Takes, UserTask
<1>3. OnePerUser'
    <2> SUFFICES ASSUME NEW a \in Procs, NEW b \in Procs, UserTask(a)', UserTask(b)',
                        proc'[a].u = proc'[b].u
                 PROVE  a = b
        BY DEF OnePerUser
    <2>1. proc'[p].u = u
        BY DEF Takes
    <2>2. CASE a # p /\ b # p
        BY <1>2, <2>2 DEF LedgerInv, OnePerUser
    <2>3. CASE a = p
        BY <1>2, <2>1, <2>3
    <2>4. CASE b = p
        BY <1>2, <2>1, <2>4
    <2> QED
        BY <2>2, <2>3, <2>4
<1>4. ASSUME NEW q \in Procs \ {p} PROVE Fresh(q)'
    <2>1. CASE UserTask(q)'
        <3>1. UserTask(q) /\ proc'[q] = proc[q] /\ Fresh(q) /\ proc[q].u # u
            BY <1>2, <2>1 DEF LedgerInv, TasksFresh
        <3>2. proc[q].u \in Users
            BY <3>1, TaskShapes DEF TypeInv, UserTask
        <3> QED
            BY <3>1, <3>2, FreshStays
    <2>2. CASE ~ UserTask(q)'
        BY <2>2 DEF UserTask, Fresh
    <2> QED
        BY <2>1, <2>2
<1> QED
    BY <1>1, <1>3, <1>4 DEF LedgerInv, TasksFresh

LEMMA AloneInTurn ==
    ASSUME NoCircumstances, NEW u, InTurn(u)
    PROVE  \A q \in Procs : UserTask(q) => proc[q].u # u
    BY DEF NoCircumstances, InTurn, UserTask

\* A number is looked for: it is the user's own, or comes to be.
LEMMA FillLedger ==
    ASSUME NoCircumstances, TypeInv, LedgerInv, NEW p \in Procs, NEW u \in Users,
           NEW o \in Offerings, BeginFill(p, u, o)
    PROVE  LedgerInv'
<1> DEFINE pool == Resolve(o)
           r == AccountRange(o)
<1>1. PICK v \in Values :
         /\ \/ held[Resolve(o)][u] = v /\ UNCHANGED <<held, range>>
            \/ held[Resolve(o)][u] = None /\ Hand(u, AccountRange(o), TRUE, v)
         /\ proc' = [proc EXCEPT ![p] = [op |-> "fill", u |-> u, o |-> o,
                                         value |-> v, source |-> Resolve(o)]]
    BY DEF BeginFill
<1>2. pool \in Pools /\ r \in Ranges /\ PoolOf[r] = pool /\ u \in Principals /\ Users \subseteq Principals
    BY Places DEF Principals
<1>3. Window("override_gid")' = Window("override_gid")
    <2>1. CASE UNCHANGED <<held, range>>
        BY <2>1 DEF Window
    <2>2. CASE Hand(u, r, TRUE, v)
        BY <1>2, <2>2, HandKeepsWindows DEF Ranges
    <2> QED
        BY <1>1, <2>1, <2>2
<1>4. /\ held[pool][u] \in {v, None} /\ account' = account
      /\ \A q \in Pools, w \in Users :
            held'[q][w] = IF q = pool /\ w = u THEN v ELSE held[q][w]
    <2>1. CASE held[pool][u] = v /\ UNCHANGED <<held, range>>
        BY <2>1 DEF BeginFill
    <2>2. CASE held[pool][u] = None /\ Hand(u, r, TRUE, v)
        BY <1>2, <2>2 DEF BeginFill, Hand, TypeInv, TypeOK
    <2> QED
        BY <1>1, <2>1, <2>2
<1> HIDE DEF pool, r
<1>5. Reserved(u)'
    <2> SUFFICES ASSUME NEW x \in Offerings, account[u][x].value \in Values
                 PROVE  held'[account[u][x].source][u] = account[u][x].value
        BY <1>4 DEF Reserved
    <2>1. account[u][x].source \in Pools /\ account[u][x].value # None
          /\ held[account[u][x].source][u] = account[u][x].value
        BY AccountShapes, ValuesAreNumbers DEF TypeInv, LedgerInv, StaysReserved
    <2> QED
        BY <1>4, <2>1
<1>6. \A w \in Users \ {u} : Untouched(w)
    BY <1>4 DEF Untouched
<1> DEFINE t == [op |-> "fill", u |-> u, o |-> o, value |-> v, source |-> pool]
<1>7. Takes(p, t)
    BY <1>1 DEF Takes, TypeInv, TypeOK, pool
<1>8. t.op = "fill" /\ t.u = u /\ t.value = v /\ t.source = pool
    OBVIOUS
<1> HIDE DEF t
<1>9. Fresh(p)'
    BY <1>2, <1>4, <1>7, <1>8 DEF Fresh, Takes
<1>10. \A q \in Procs : UserTask(q) => proc[q].u # u
    BY AloneInTurn DEF BeginFill
<1>11. t.op \in {"fill", "pin", "delete"}
    BY <1>8
<1> QED
    BY <1>3, <1>5, <1>6, <1>7, <1>8, <1>9, <1>10, <1>11, LedgerBegins

\* The account of a deletion or a pin: its siblings draw from the pools they carry
\* numbers of.
LEMMA TurnLedger ==
    ASSUME NoCircumstances, TypeInv, LedgerInv, NEW p \in Procs, NEW u \in Users,
           NEW o \in Offerings, NEW v \in Values, BeginDelete(p, u, o) \/ BeginPin(p, u, o, v)
    PROVE  LedgerInv'
<1>1. /\ \A x \in Offerings \ {o} :
            account[u][x].value \in Values => account[u][x].source = Resolve(x)
      /\ InTurn(u) /\ UNCHANGED <<range, held, account>>
    BY DEF BeginDelete, BeginPin, NoneLeftBehind, NoCircumstances
<1>2. /\ Window("override_gid")' = Window("override_gid")
      /\ \A w \in Users : Untouched(w)
      /\ \A q \in Procs : UserTask(q) => proc[q].u # u
    BY <1>1, AloneInTurn DEF Window, Untouched
<1>3. Reserved(u)'
    BY <1>2, UntouchedStays
<1>4. ASSUME BeginDelete(p, u, o) PROVE LedgerInv'
    <2> DEFINE t == [op |-> "delete", u |-> u, o |-> o, in_use |-> InUse(u, o)]
    <2>1. Takes(p, t)
        BY <1>4, TasksTaken
    <2>2. \A x \in Offerings \ {o} :
            account[u][x].value \in Values => account[u][x].source \in InUse(u, o)
        BY <1>1, ValuesAreNumbers DEF InUse, HasAccount
    <2>3. t.op = "delete" /\ t.u = u /\ t.o = o /\ t.in_use = InUse(u, o)
        OBVIOUS
    <2> HIDE DEF t
    <2>4. Fresh(p)'
        BY <1>1, <2>1, <2>2, <2>3 DEF Fresh, Takes
    <2>5. t.op \in {"fill", "pin", "delete"}
        BY <2>3
    <2> QED
        BY <1>2, <1>3, <2>1, <2>3, <2>4, <2>5, LedgerBegins
<1>5. ASSUME BeginPin(p, u, o, v) PROVE LedgerInv'
    <2> DEFINE t == [op |-> "pin", u |-> u, o |-> o, value |-> v, source |-> Resolve(o)]
    <2>1. Takes(p, t)
        BY <1>5, TasksTaken
    <2>2. t.op = "pin" /\ t.u = u /\ t.o = o /\ t.source = Resolve(o)
        OBVIOUS
    <2> HIDE DEF t
    <2>3. \A x : Resolve(x)' = Resolve(x)
        BY <1>2, ResolveKept
    <2>4. Fresh(p)'
        BY <1>1, <2>1, <2>2, <2>3 DEF Fresh, Takes
    <2>5. t.op \in {"fill", "pin", "delete"}
        BY <2>2
    <2> QED
        BY <1>2, <1>3, <2>1, <2>2, <2>4, <2>5, LedgerBegins
<1> QED
    BY <1>4, <1>5

\* Nobody else's task is about the user of a worker that ends its own.
LEMMA EndsAlone ==
    ASSUME TypeInv, LedgerInv, NEW p \in Procs, UserTask(p), NEW u, u = proc[p].u,
           \A q \in Procs : proc'[q] = proc[q] \/ proc'[q] = Idle, proc'[p] = Idle
    PROVE  \A q \in Procs : UserTask(q)' => proc'[q] = proc[q] /\ proc[q].u # u
    BY DEF LedgerInv, OnePerUser, UserTask, Idle

LEMMA CommitLedger ==
    ASSUME TypeInv, LedgerInv, NEW p \in Procs,
           CommitFill(p) \/ CommitPin(p) \/ CommitDelete(p)
    PROVE  LedgerInv'
<1>1. /\ UserTask(p) /\ TypeOK /\ Fresh(p) /\ Users \subseteq Principals
      /\ UNCHANGED range /\ Window("override_gid")' = Window("override_gid")
    BY DEF CommitFill, CommitPin, CommitDelete, UserTask, TypeInv, LedgerInv, TasksFresh, Window,
           Principals
<1>2. PICK u \in Users, o \in Offerings : u = proc[p].u /\ o = proc[p].o
    BY <1>1, TaskShapes DEF UserTask
<1>3. \A q \in Procs : UserTask(q)' => proc'[q] = proc[q] /\ proc[q].u # u
    <2>1. proc'[p] = Idle /\ \A q \in Procs : proc'[q] = proc[q] \/ proc'[q] = Idle
        BY <1>1 DEF CommitFill, CommitPin, CommitDelete, Ends, TypeOK
    <2> QED
        BY <1>1, <1>2, <2>1, EndsAlone
<1>4. ASSUME \A w \in Users \ {u} : Untouched(w), Reserved(u)' PROVE LedgerInv'
    <2> DEFINE U == {u}
    <2>1. /\ U \in SUBSET Users /\ \A w \in Users \ U : Untouched(w)
          /\ \A w \in U : Reserved(w)'
          /\ \A q \in Procs : UserTask(q)' => proc'[q] = proc[q] /\ proc[q].u \notin U
        BY <1>3, <1>4
    <2> HIDE DEF U
    <2> QED
        BY <1>1, <2>1, LedgerSettles
<1>5. ASSUME CommitFill(p) PROVE LedgerInv'
    <2>1. PICK v \in Values, pool \in Pools : v = proc[p].value /\ pool = proc[p].source
        BY <1>1, <1>5, TaskShapes DEF CommitFill
    <2>2. held[pool][u] = v
        BY <1>1, <1>2, <1>5, <2>1 DEF Fresh, CommitFill
    <2>3. held' = held /\ account' = [account EXCEPT ![u][o] = [value |-> v, source |-> pool]]
        BY <1>2, <1>5, <2>1 DEF CommitFill
    <2>4. \A w \in Users, x \in Offerings :
            account'[w][x] = IF w = u /\ x = o THEN [value |-> v, source |-> pool] ELSE account[w][x]
        BY <1>1, <2>3 DEF TypeOK
    <2>5. \A w \in Users \ {u} : Untouched(w)
        BY <1>1, <2>3 DEF Untouched, TypeOK
    <2>6. Reserved(u)'
        BY <2>2, <2>3, <2>4 DEF Reserved, LedgerInv, StaysReserved
    <2> QED
        BY <1>4, <2>5, <2>6
<1>6. ASSUME CommitPin(p) PROVE LedgerInv'
    <2>1. PICK v \in Values, pool \in Pools : v = proc[p].value /\ pool = proc[p].source
        BY <1>1, <1>6, TaskShapes DEF CommitPin
    <2>2. /\ pool = Resolve(o)
          /\ \A x \in Offerings \ {o} :
                account[u][x].value \in Values => account[u][x].source = Resolve(x)
        BY <1>1, <1>2, <1>6, <2>1 DEF Fresh, CommitPin
    <2>3. CASE UNCHANGED <<held, account>>
        <3>1. \A w \in Users : Untouched(w)
            BY <2>3 DEF Untouched
        <3> QED
            BY <1>4, <3>1, UntouchedStays
    <2>4. CASE /\ held' = [held EXCEPT ![proc[p].source][proc[p].u] = proc[p].value]
               /\ account' = Pinned(proc[p])
        <3>1. /\ held' = [held EXCEPT ![pool][u] = v]
              /\ \A q \in Pools, w \in Users :
                    held'[q][w] = IF q = pool /\ w = u THEN v ELSE held[q][w]
            BY <1>1, <1>2, <2>1, <2>4 DEF TypeOK
        <3>2. account' = [account EXCEPT ![u] = [x \in Offerings |->
                  IF x = o THEN [value |-> v, source |-> pool]
                  ELSE IF HasAccount(u, x) /\ Resolve(x) = pool /\ v # None
                       THEN [value |-> v, source |-> pool]
                       ELSE account[u][x]]]
            BY <1>2, <2>1, <2>2, <2>4 DEF Pinned
        <3>3. \A w \in Users \ {u} : Untouched(w)
            BY <1>1, <3>1, <3>2 DEF Untouched, TypeOK
        <3>4. \A x \in Offerings :
                \/ account'[u][x] = [value |-> v, source |-> pool]
                \/ /\ account'[u][x] = account[u][x] /\ x # o
                   /\ HasAccount(u, x) => Resolve(x) # pool
            BY <1>1, <3>2, ValuesAreNumbers DEF TypeOK
        <3>5. Reserved(u)'
            <4> SUFFICES ASSUME NEW x \in Offerings, account'[u][x].value \in Values
                         PROVE  held'[account'[u][x].source][u] = account'[u][x].value
                BY DEF Reserved
            <4>1. CASE account'[u][x] = [value |-> v, source |-> pool]
                BY <3>1, <4>1
            <4>2. CASE /\ account'[u][x] = account[u][x] /\ x # o
                       /\ HasAccount(u, x) => Resolve(x) # pool
                <5>1. HasAccount(u, x) /\ account[u][x].source = Resolve(x)
                    BY <2>2, <4>2, ValuesAreNumbers DEF HasAccount
                <5>2. Resolve(x) \in Pools /\ Resolve(x) # pool
                    BY <4>2, <5>1, Places
                <5> QED
                    BY <3>1, <4>2, <5>1, <5>2 DEF LedgerInv, StaysReserved
            <4> QED
                BY <3>4, <4>1, <4>2
        <3> QED
            BY <1>4, <3>3, <3>5
    <2> QED
        BY <1>6, <2>3, <2>4 DEF CommitPin
<1>7. ASSUME CommitDelete(p) PROVE LedgerInv'
    <2> DEFINE in_use == proc[p].in_use
               gone == {q \in Pools \ in_use : held[q][u] # None}
    <2>1. \A x \in Offerings \ {o} :
            account[u][x].value \in Values => account[u][x].source \in in_use
        BY <1>1, <1>2, <1>7 DEF Fresh, CommitDelete
    <2>2. held' = [q \in Pools |-> IF q \in gone THEN [held[q] EXCEPT ![u] = None] ELSE held[q]]
        BY <1>2, <1>7 DEF CommitDelete, Release
    <2>3. account' = [account EXCEPT ![u][o] = NoAccount]
        BY <1>2, <1>7 DEF CommitDelete
    <2>4. \A q \in in_use \cap Pools : held'[q] = held[q]
        BY <2>2
    <2>5. \A w \in Users \ {u} : Untouched(w)
        <3>1. \A q \in Pools, w \in Users \ {u} : held'[q][w] = held[q][w]
            BY <1>1, <2>2 DEF TypeOK
        <3> QED
            BY <1>1, <2>3, <3>1 DEF Untouched, TypeOK
    <2>6. \A x \in Offerings : account'[u][x] = IF x = o THEN NoAccount ELSE account[u][x]
        BY <1>1, <2>3 DEF TypeOK
    <2>7. Reserved(u)'
        <3> SUFFICES ASSUME NEW x \in Offerings, account'[u][x].value \in Values
                     PROVE  held'[account'[u][x].source][u] = account'[u][x].value
            BY DEF Reserved
        <3>1. x # o /\ account'[u][x] = account[u][x]
            <4>1. NoAccount.value \notin Values
                BY ValuesAreNumbers DEF NoAccount
            <4> QED
                BY <2>6, <4>1
        <3>2. account[u][x].source \in in_use \cap Pools
            BY <1>1, <2>1, <3>1, AccountShapes
        <3> HIDE DEF in_use
        <3> QED
            BY <2>4, <3>1, <3>2 DEF LedgerInv, StaysReserved
    <2> QED
        BY <1>4, <2>5, <2>7
<1> QED
    BY <1>5, <1>6, <1>7

\* The accounts of the offering move to its own pool; what their users hold in
\* the provider's is given back only where no other account carries it.
LEMMA RepointLedger ==
    ASSUME NoCircumstances, TypeInv, LedgerInv, Repoint
    PROVE  LedgerInv'
<1> DEFINE new == {u \in Movers : held["override"][u] = None}
           taken == Offered("override_gid", TRUE, Cardinality(new))
<1>1. PICK f \in [new -> taken] :
         /\ held' = [held EXCEPT
              !["override"] = [w \in Principals |-> IF w \in new THEN f[w] ELSE @[w]],
              !["provider"] = [w \in Principals |-> IF w \in LeftBehind THEN None ELSE @[w]]]
         /\ range' = [range EXCEPT !["override_gid"].next =
                         NextAfter("override_gid", TRUE, taken)]
    BY DEF Repoint
<1>2. TypeOK /\ Users \subseteq Principals /\ Movers \subseteq Users /\ LeftBehind \subseteq Movers
    BY DEF TypeInv, Principals, Movers, LeftBehind
<1>3. \A w \in Users :
         /\ held'["override"][w] = IF w \in new THEN f[w] ELSE held["override"][w]
         /\ held'["provider"][w] = IF w \in LeftBehind THEN None ELSE held["provider"][w]
    BY <1>1, <1>2 DEF TypeOK, Pools
<1>4. Window("override_gid")' = Window("override_gid")
    BY <1>1, <1>2 DEF TypeOK, RangeRows, Window, Ranges
<1>5. account' = [u \in Users |->
        IF u \in Movers
        THEN [account[u] EXCEPT !["special"] =
                 [value |-> held'["override"][u], source |-> "override"]]
        ELSE account[u]]
    BY DEF Repoint
<1>6. \A w \in Users \ Movers : Untouched(w)
    BY <1>2, <1>3, <1>5 DEF Untouched, Pools
<1>7. \A q \in Procs : UserTask(q)' => proc'[q] = proc[q] /\ proc[q].u \notin Movers
    <2>1. \A u \in Movers : \A q \in Procs : UserTask(q) => proc[q].u # u
        BY AloneInTurn DEF Repoint
    <2> QED
        BY <2>1 DEF Repoint, UserTask
<1>8. ASSUME NEW u \in Movers, NEW o \in Offerings, account'[u][o].value \in Values
      PROVE  held'[account'[u][o].source][u] = account'[u][o].value
    <2>1. u \in Users /\ account'[u] = [account[u] EXCEPT !["special"] =
                                  [value |-> held'["override"][u], source |-> "override"]]
        BY <1>2, <1>5
    <2>2. CASE o = "special"
        <3>1. account'[u]["special"] = [value |-> held'["override"][u], source |-> "override"]
            BY <1>2, <2>1 DEF TypeOK, Offerings
        <3> QED
            BY <2>2, <3>1
    <2>3. CASE o # "special"
        <3>1. account'[u][o] = account[u][o] /\ o = "plain"
            BY <1>2, <2>1, <2>3 DEF TypeOK, Offerings
        <3>2. account[u][o].source \in Pools /\ account[u][o].value # None
              /\ held[account[u][o].source][u] = account[u][o].value
            BY <1>2, <1>8, <2>1, <3>1, AccountShapes, ValuesAreNumbers DEF LedgerInv, StaysReserved
        <3>3. CASE account[u][o].source = "provider"
            <4>1. u \notin LeftBehind
                BY <1>8, <3>1, ValuesAreNumbers DEF LeftBehind, HasAccount
            <4> QED
                BY <1>3, <2>1, <3>1, <3>2, <3>3, <4>1
        <3>4. CASE account[u][o].source = "override"
            <4>1. u \notin new
                BY <3>2, <3>4
            <4> QED
                BY <1>3, <2>1, <3>1, <3>2, <3>4, <4>1
        <3> QED
            BY <3>2, <3>3, <3>4 DEF Pools
    <2> QED
        BY <2>2, <2>3
<1>9. \A u \in Movers : Reserved(u)'
    BY <1>8 DEF Reserved
<1>10. Movers \in SUBSET Users
    BY <1>2
<1> QED
    BY <1>4, <1>6, <1>7, <1>9, <1>10, LedgerSettles

\* Steps about groups, ranges and the numbers given back touch no user's rows.
LEMMA ElsewhereLedger ==
    ASSUME TypeInv, LedgerInv,
           \A w \in Users : Untouched(w),
           \A q \in Procs : UserTask(q)' => proc'[q] = proc[q],
           (\A p \in Procs : proc[p].op # "pin") \/ Window("override_gid")' = Window("override_gid")
    PROVE  LedgerInv'
<1> DEFINE U == {}
<1>1. /\ U \in SUBSET Users /\ \A w \in Users \ U : Untouched(w)
      /\ \A w \in U : Reserved(w)'
      /\ \A q \in Procs : UserTask(q)' => proc'[q] = proc[q] /\ proc[q].u \notin U
    OBVIOUS
<1> HIDE DEF U
<1> QED
    BY <1>1, LedgerSettles

LEMMA UserLedger == NoCircumstances /\ TypeInv /\ LedgerInv /\ UserStep => LedgerInv'
<1> SUFFICES ASSUME NoCircumstances, TypeInv, LedgerInv, UserStep PROVE LedgerInv'
    OBVIOUS
<1>1. ASSUME NEW u \in Users, NEW o \in Offerings, CreateAccount(u, o) PROVE LedgerInv'
    <2> DEFINE U == {u}
    <2>1. account' = [account EXCEPT ![u][o] = [value |-> None, source |-> Resolve(o)]]
          /\ UNCHANGED <<held, proc, range>>
        BY <1>1 DEF CreateAccount
    <2>2. \A w \in Users \ U : Untouched(w)
        BY <2>1 DEF Untouched, TypeInv, TypeOK
    <2>3. Reserved(u)'
        <3>1. \A x \in Offerings : account'[u][x] = IF x = o
                THEN [value |-> None, source |-> Resolve(o)] ELSE account[u][x]
            BY <2>1 DEF TypeInv, TypeOK
        <3>2. \A x \in Offerings \ {o} :
                account[u][x].value \in Values =>
                    held[account[u][x].source][u] = account[u][x].value
            BY DEF LedgerInv, StaysReserved
        <3> QED
            BY <2>1, <3>1, <3>2, ValuesAreNumbers DEF Reserved
    <2>4. \A q \in Procs : UserTask(q)' => proc'[q] = proc[q] /\ proc[q].u \notin U
        BY <1>1, <2>1, AloneInTurn DEF CreateAccount, UserTask
    <2>5. Window("override_gid")' = Window("override_gid")
        BY <2>1 DEF Window
    <2>6. U \in SUBSET Users /\ \A w \in U : Reserved(w)'
        BY <2>3
    <2> HIDE DEF U
    <2> QED
        BY <2>2, <2>4, <2>5, <2>6, LedgerSettles
<1>2. PICK v \in Values : TRUE
    BY ValuesAreNumbers
<1> QED
    BY <1>1, <1>2, FillLedger, TurnLedger, CommitLedger, RepointLedger DEF UserStep

LEMMA GroupLedger == TypeInv /\ LedgerInv /\ GroupStep => LedgerInv'
<1> SUFFICES ASSUME TypeInv, LedgerInv, GroupStep PROVE LedgerInv'
    OBVIOUS
<1>1. TypeOK /\ Groups \cap Users = {} /\ Users \subseteq Principals
    BY PrincipalsAssumption DEF TypeInv, Principals
<1>2. account' = account
    BY DEF GroupStep, CreateGroup, DeleteGroup, BeginAllocateGid, BeginSetGid, CommitAllocateGid,
           CommitSetGid
<1>3. Window("override_gid")' = Window("override_gid")
    BY WindowsStay DEF Ranges
<1>4. ASSUME NEW w \in Groups, NEW r \in Ranges, NEW recycle, NEW v, Hand(w, r, recycle, v)
      PROVE  \A q \in Pools, u \in Users : held'[q][u] = held[q][u]
    BY <1>1, <1>4 DEF Hand, TypeOK
<1>5. \A q \in Pools, u \in Users : held'[q][u] = held[q][u]
    <2>1. ASSUME NEW g \in Groups, NEW p \in Procs, BeginAllocateGid(p, g)
          PROVE  \A q \in Pools, u \in Users : held'[q][u] = held[q][u]
        BY <1>4, <2>1, Places DEF BeginAllocateGid
    <2>2. ASSUME NEW g \in Groups, DeleteGroup(g)
          PROVE  \A q \in Pools, u \in Users : held'[q][u] = held[q][u]
        BY <1>1, <2>2 DEF DeleteGroup, TypeOK
    <2>3. ASSUME NEW p \in Procs, CommitSetGid(p)
          PROVE  \A q \in Pools, u \in Users : held'[q][u] = held[q][u]
        <3>1. proc[p].g \in Groups
            BY <1>1, <2>3, TaskShapes DEF CommitSetGid
        <3> QED
            BY <1>1, <2>3, <3>1 DEF CommitSetGid, TypeOK
    <2>4. ASSUME NEW g \in Groups, CreateGroup(g) PROVE UNCHANGED held
        BY <2>4 DEF CreateGroup
    <2>5. ASSUME NEW g \in Groups, NEW p \in Procs, NEW v \in Values, BeginSetGid(p, g, v)
          PROVE  UNCHANGED held
        BY <2>5 DEF BeginSetGid
    <2>6. ASSUME NEW p \in Procs, CommitAllocateGid(p) PROVE UNCHANGED held
        BY <2>6 DEF CommitAllocateGid
    <2> QED
        BY <2>1, <2>2, <2>3, <2>4, <2>5, <2>6 DEF GroupStep
<1>6. \A w \in Users : Untouched(w)
    BY <1>2, <1>5 DEF Untouched
<1>7. \A q \in Procs : UserTask(q)' => proc'[q] = proc[q]
    <2>1. ASSUME NEW p \in Procs, NEW t, Takes(p, t), t.op \notin {"fill", "pin", "delete"}
          PROVE  \A q \in Procs : UserTask(q)' => proc'[q] = proc[q]
        BY <2>1 DEF Takes, UserTask
    <2>2. ASSUME \A q \in Procs : Continues(q)
          PROVE  \A q \in Procs : UserTask(q)' => proc'[q] = proc[q]
        BY <2>2 DEF Continues, UserTask, Idle
    <2>3. ASSUME NEW g \in Groups, NEW p \in Procs, BeginAllocateGid(p, g)
          PROVE  \A q \in Procs : UserTask(q)' => proc'[q] = proc[q]
        BY <2>1, <2>3, TasksTaken
    <2>4. ASSUME NEW g \in Groups, NEW p \in Procs, NEW v \in Values, BeginSetGid(p, g, v)
          PROVE  \A q \in Procs : UserTask(q)' => proc'[q] = proc[q]
        <3> DEFINE t == [op |-> "set_gid", g |-> g, value |-> v]
        <3>1. Takes(p, t) /\ t.op \notin {"fill", "pin", "delete"}
            BY <2>4, TasksTaken
        <3> HIDE DEF t
        <3> QED
            BY <2>1, <3>1
    <2>5. ASSUME NEW g \in Groups, CreateGroup(g) \/ DeleteGroup(g)
          PROVE  \A q \in Procs : Continues(q)
        BY <2>5 DEF CreateGroup, DeleteGroup, Continues
    <2>6. ASSUME NEW p \in Procs, CommitAllocateGid(p) \/ CommitSetGid(p)
          PROVE  \A q \in Procs : Continues(q)
        BY <1>1, <2>6 DEF CommitAllocateGid, CommitSetGid, Ends, Continues, TypeOK
    <2> QED
        BY <2>2, <2>3, <2>4, <2>5, <2>6 DEF GroupStep
<1> QED
    BY <1>3, <1>6, <1>7, ElsewhereLedger

LEMMA OperatorLedger == NoCircumstances /\ TypeInv /\ LedgerInv /\ OperatorStep => LedgerInv'
<1> SUFFICES ASSUME NoCircumstances, TypeInv, LedgerInv, OperatorStep PROVE LedgerInv'
    OBVIOUS
<1>1. \A w \in Users : Untouched(w)
    BY DEF OperatorStep, CommitUpdatePool, BeginUpdatePool, Recirculate, Untouched
<1>2. ASSUME NEW p \in Procs, CommitUpdatePool(p) PROVE LedgerInv'
    <2>1. \A q \in Procs : proc[q].op # "pin"
        BY <1>2 DEF CommitUpdatePool, PinsInTurn, NoCircumstances
    <2>2. \A q \in Procs : UserTask(q)' => proc'[q] = proc[q]
        BY <1>2 DEF CommitUpdatePool, Ends, UserTask, Idle, TypeInv, TypeOK
    <2> QED
        BY <1>1, <2>1, <2>2, ElsewhereLedger
<1>3. ASSUME NEW p \in Procs, NEW e \in AllEdits, BeginUpdatePool(p, e) PROVE LedgerInv'
    <2>1. Window("override_gid")' = Window("override_gid")
        BY <1>3 DEF BeginUpdatePool, Window
    <2>2. PICK t : Takes(p, t) /\ t.op = "update_pool"
        BY <1>3, TasksTaken
    <2>3. \A q \in Procs : UserTask(q)' => proc'[q] = proc[q]
        BY <2>2 DEF Takes, UserTask
    <2> QED
        BY <1>1, <2>1, <2>3, ElsewhereLedger
<1>4. ASSUME NEW x \in freed, Recirculate(x) PROVE LedgerInv'
    BY <1>1, <1>4, ElsewhereLedger DEF Recirculate, Window
<1> QED
    BY <1>2, <1>3, <1>4 DEF OperatorStep

LEMMA LedgerNext == NoCircumstances /\ TypeInv /\ LedgerInv /\ [Next]_vars => LedgerInv'
<1> SUFFICES ASSUME NoCircumstances, TypeInv, LedgerInv, [Next]_vars PROVE LedgerInv'
    OBVIOUS
<1>1. CASE Next
    BY <1>1, UserLedger, GroupLedger, OperatorLedger DEF Next
<1>2. CASE UNCHANGED vars
    BY <1>2, ElsewhereLedger DEF vars, Window, Untouched
<1> QED
    BY <1>1, <1>2

\* The number an account carries stays reserved for its user in the pool it came
\* from, whatever accounts are filled, pinned, deleted and moved to a pool of their
\* own, however requests of different users, of groups and of operators overlap,
\* provided that none of Circumstances occurs (setup_linux_related_data, set_value,
\* release_user_allocations, apply_repoint).
THEOREM NumbersStayReserved ==
    ASSUME NoCircumstances
    PROVE  Spec => []StaysReserved
<1>1. LedgerInv => StaysReserved
    BY DEF LedgerInv
<1>2. TypeInv /\ LedgerInv /\ [Next]_vars => LedgerInv'
    BY LedgerNext
<1> QED
    BY <1>1, <1>2, TypeInit, TypeNext, LedgerInit, PTL DEF Spec

================================================================================
