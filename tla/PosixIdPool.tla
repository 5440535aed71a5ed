------------------------------ MODULE PosixIdPool ------------------------------
(****************************************************************************)
(* POSIX group ids of one service provider (marketplace/posix_ids.py and    *)
(* posix_maintenance.py): the ranges its pools reserve, the identities that *)
(* record who holds which number, and the copies of the numbers that        *)
(* accounts and project groups carry.  UIDs are handed out by the same code *)
(* without the range for groups; robot accounts are principals of their own *)
(* like users with one account.                                             *)
(*                                                                          *)
(* The allocator locks the pool's row, so an allocation is one step.  What  *)
(* is read before the lock, or without it, is a step of its own, and so is  *)
(* each transaction of a request.                                           *)
(****************************************************************************)
EXTENDS Integers, FiniteSets

CONSTANTS
    Users,          \* users, who may have an account at each offering
    Groups,         \* project groups of the provider
    Procs,          \* web and Celery workers
    MaxValue,       \* the numbers are 1 .. MaxValue
    FirstRange,     \* the GID range the provider starts with: 1 .. FirstRange
    Edits,          \* the bounds a provider may give a range: [r, lo, hi]
    Occurs          \* the circumstances that occur, of Circumstances

Values == 1 .. MaxValue
None == 0           \* a column that is null
Absent == -1        \* an account or group that does not exist
Principals == Users \cup Groups

\* The offering "special" may be given a pool of its own, which then overrides
\* the provider's; "plain" has none.
Offerings == {"plain", "special"}
Pools == {"provider", "override"}
Ranges == {"gid", "group_gid", "override_gid"}
PoolOf == [r \in Ranges |-> IF r = "override_gid" THEN "override" ELSE "provider"]

\* What the code leaves to chance, of which a run may have none, some or all:
\*   stale_pin     ranges are saved while a pin lies between its checks and its lock
\*   left_behind   a number is given back or changed through one account of a user
\*                 while another still carries it from a pool it no longer draws from
\*   account_race  requests about the accounts of one user overlap
\* All other requests overlap in every run.
Circumstances == {"stale_pin", "left_behind", "account_race"}

ASSUME NumbersAssumption == MaxValue \in Nat /\ FirstRange \in Values
ASSUME EditsAssumption == Edits \subseteq [r : Ranges, lo : Values, hi : Values]
ASSUME PrincipalsAssumption ==
    Users \cap Groups = {} /\ IsFiniteSet(Users) /\ Occurs \subseteq Circumstances

VARIABLES
    range,      \* PosixIdPool: the bounds and the next pointer of each range
    held,       \* PosixIdentity, active: the number each principal holds in a pool
    freed,      \* PosixIdentity, released: the numbers given back
    account,    \* backend_metadata of an account; source is history: its pool
    gid,        \* ServiceProviderProjectGroup.gid
    proc        \* what each worker has read and will act on

vars == <<range, held, freed, account, gid, proc>>

Off == [lo |-> 1, hi |-> 0, next |-> 1]     \* a range that is not managed
RangeRows ==
    {x \in [lo : Values, hi : Values \cup {0}, next : 1 .. MaxValue + 1] :
        x.next \in x.lo .. x.hi + 1}
FreedRows == [pool : Pools, value : Values, recyclable : BOOLEAN]
Accounts == [value : Values \cup {None, Absent}, source : Pools]
NoAccount == [value |-> Absent, source |-> "provider"]

\* The range for groups may also be given up.
Removal == [r |-> "group_gid", lo |-> 1, hi |-> 0]
AllEdits == Edits \cup {Removal}

Idle == [op |-> "idle"]
Tasks ==
    [op : {"fill", "pin"}, u : Users, o : Offerings, value : Values, source : Pools]
    \cup [op : {"delete"}, u : Users, o : Offerings, in_use : SUBSET Pools]
    \cup [op : {"allocate_gid", "set_gid"}, g : Groups, value : Values]
    \cup [op : {"update_pool"}, edit : AllEdits, row : [Ranges -> RangeRows]]

--------------------------------------------------------------------------------
(* The allocator.                                                             *)

Window(r) == range[r].lo .. range[r].hi
Manages(r) == Window(r) # {}

Active(pool) == {held[pool][w] : w \in Principals} \ {None}
Recyclable(pool) == {x.value : x \in {y \in freed : y.pool = pool /\ y.recyclable}}
Withheld(pool) == {x.value : x \in {y \in freed : y.pool = pool /\ ~y.recyclable}}

\* _candidate_value: numbers given back come first, unless one of their releases
\* withheld them; then those from the next pointer on.
Recycled(r, recycle) ==
    IF recycle
    THEN ((Recyclable(PoolOf[r]) \cap Window(r)) \ Active(PoolOf[r])) \ Withheld(PoolOf[r])
    ELSE {}
\* (mutation: numbers above the pointer that were pinned are not stepped over)
CountsOn(r) == (range[r].next .. range[r].hi) \ Withheld(PoolOf[r])
Counted(r) == (range[r].next .. range[r].hi) \ (Active(PoolOf[r]) \cup Withheld(PoolOf[r]))

Lowest(S, n) == {v \in S : Cardinality({x \in S : x <= v}) <= n}

\* The next n numbers a locked range hands out, and its next pointer after that.
Offered(r, recycle, n) ==
    LET again == Lowest(Recycled(r, recycle), n)
    IN again \cup Lowest(Counted(r) \ again, n - Cardinality(again))
NextAfter(r, recycle, taken) ==
    LET counted == taken \ Recycled(r, recycle)
    IN IF counted = {} THEN range[r].next
       ELSE (CHOOSE v \in counted : \A x \in counted : x <= v) + 1

\* _allocate_in_pool, under the lock of the pool's row, for a principal that
\* holds nothing in the pool.
Hand(w, r, recycle, v) ==
    /\ Offered(r, recycle, 1) = {v}
    /\ held' = [held EXCEPT ![PoolOf[r]][w] = v]
    /\ range' = [range EXCEPT ![r].next = NextAfter(r, recycle, {v})]

--------------------------------------------------------------------------------
(* Accounts.                                                                  *)

\* PosixIdPool.resolve, and the range an account draws from.
Resolve(o) == IF o = "special" /\ Manages("override_gid") THEN "override" ELSE "provider"
AccountRange(o) == IF Resolve(o) = "override" THEN "override_gid" ELSE "gid"
HasAccount(u, o) == account[u][o].value # Absent

Starts(p) == proc[p] = Idle
Ends(p) == proc' = [proc EXCEPT ![p] = Idle]

\* No other request about the accounts of user u is under way.
InTurn(u) ==
    \/ "account_race" \in Occurs
    \/ \A p \in Procs : proc[p].op \in {"fill", "pin", "delete"} => proc[p].u # u

\* No other account of the user carries a number of a pool it has left.
NoneLeftBehind(u, o) ==
    \/ "left_behind" \in Occurs
    \/ \A x \in Offerings \ {o} :
          account[u][x].value \in Values => account[u][x].source = Resolve(x)

\* An account being deleted is locked until its row is gone.
BeingDeleted(u, o) ==
    \E p \in Procs : proc[p].op = "delete" /\ proc[p].u = u /\ proc[p].o = o

\* create_offering_user saves the account first and looks for a number after that.
CreateAccount(u, o) ==
    /\ InTurn(u) /\ ~ HasAccount(u, o)
    /\ account' = [account EXCEPT ![u][o] = [value |-> None, source |-> Resolve(o)]]
    /\ UNCHANGED <<range, held, freed, gid, proc>>

\* setup_linux_related_data looks for a number for an account that has none: one
\* its user holds already is taken without a lock.  An exhausted pool fails the
\* request, and the account is filled later.
BeginFill(p, u, o) ==
    /\ Starts(p) /\ InTurn(u) /\ account[u][o].value = None
    /\ \E v \in Values :
          /\ \/ held[Resolve(o)][u] = v /\ UNCHANGED <<held, range>>
             \/ held[Resolve(o)][u] = None /\ Hand(u, AccountRange(o), TRUE, v)
          /\ proc' = [proc EXCEPT ![p] = [op |-> "fill", u |-> u, o |-> o,
                                          value |-> v, source |-> Resolve(o)]]
    /\ UNCHANGED <<freed, account, gid>>

\* The account is saved as it was read, with that number in it.
CommitFill(p) ==
    /\ proc[p].op = "fill" /\ ~ BeingDeleted(proc[p].u, proc[p].o)
    /\ account' = [account EXCEPT ![proc[p].u][proc[p].o] =
                      [value |-> proc[p].value, source |-> proc[p].source]]
    /\ Ends(p)
    /\ UNCHANGED <<range, held, freed, gid>>

\* release_user_allocations, after the account's row is gone: the pools that the
\* user's other accounts resolve to (_pool_ids_still_in_use_by) keep their number.
InUse(u, o) == {Resolve(x) : x \in {y \in Offerings \ {o} : HasAccount(u, y)}}
Release(u, kept, recyclable) ==
    LET gone == {q \in Pools \ kept : held[q][u] # None} IN
    /\ held' = [q \in Pools |-> IF q \in gone THEN [held[q] EXCEPT ![u] = None] ELSE held[q]]
    /\ freed' = freed \cup
          {[pool |-> q, value |-> held[q][u], recyclable |-> recyclable] : q \in gone}

BeginDelete(p, u, o) ==
    /\ Starts(p) /\ InTurn(u) /\ HasAccount(u, o) /\ ~ BeingDeleted(u, o)
    /\ NoneLeftBehind(u, o)
    /\ proc' = [proc EXCEPT ![p] = [op |-> "delete", u |-> u, o |-> o, in_use |-> InUse(u, o)]]
    /\ UNCHANGED <<range, held, freed, account, gid>>

\* Requests that were about to save the account find no row any more.
CommitDelete(p) ==
    /\ proc[p].op = "delete"
    /\ LET h == proc[p] IN
          /\ account' = [account EXCEPT ![h.u][h.o] = NoAccount]
          /\ Release(h.u, h.in_use, TRUE)
          /\ proc' = [q \in Procs |->
                IF q = p \/ (proc[q].op \in {"fill", "pin"} /\ proc[q].u = h.u /\ proc[q].o = h.o)
                THEN Idle ELSE proc[q]]
    /\ UNCHANGED <<range, gid>>

\* set_posix_attributes: set_value looks for the number in the pool's range and
\* locks the pool after that.
BeginPin(p, u, o, v) ==
    /\ Starts(p) /\ InTurn(u) /\ HasAccount(u, o) /\ NoneLeftBehind(u, o)
    /\ v \in Window(AccountRange(o))
    /\ proc' = [proc EXCEPT ![p] = [op |-> "pin", u |-> u, o |-> o,
                                    value |-> v, source |-> Resolve(o)]]
    /\ UNCHANGED <<range, held, freed, account, gid>>

\* project_shared_values copies the number of the pool the offering draws from
\* now to the user's other accounts in that pool.
\* (mutation: only the account that was asked for gets the number)
PinnedAlone(h) ==
    [account EXCEPT ![h.u][h.o] = [value |-> h.value, source |-> h.source]]
Pinned(h) ==
    LET pool == Resolve(h.o)
        shared == IF pool = h.source THEN h.value ELSE held[pool][h.u]
    IN [account EXCEPT ![h.u] = [x \in Offerings |->
           IF x = h.o
           THEN [value |-> h.value, source |-> h.source]
           ELSE IF HasAccount(h.u, x) /\ Resolve(x) = pool /\ shared # None
                THEN [value |-> shared, source |-> pool]
                ELSE account[h.u][x]]]
\* The unique constraint, which is about one pool, refuses a number that is held.
CommitPin(p) ==
    /\ proc[p].op = "pin" /\ ~ BeingDeleted(proc[p].u, proc[p].o)
    /\ LET h == proc[p] IN
          IF \E w \in Principals \ {h.u} : held[h.source][w] = h.value
          THEN UNCHANGED <<held, account>>
          ELSE held' = [held EXCEPT ![h.source][h.u] = h.value] /\ account' = Pinned(h)
    /\ Ends(p)
    /\ UNCHANGED <<range, freed, gid>>

\* apply_repoint, in one transaction: the accounts of the offering move to its
\* own pool, and the numbers they leave behind are withheld.
Movers == {u \in Users : HasAccount(u, "special")}
LeftBehind ==
    {u \in Movers : ~HasAccount(u, "plain") /\ held["provider"][u] # None}
Repoint ==
    /\ Manages("override_gid") /\ \A u \in Movers : InTurn(u)
    /\ LET new == {u \in Movers : held["override"][u] = None}
           taken == Offered("override_gid", TRUE, Cardinality(new))
       IN /\ Cardinality(taken) = Cardinality(new)
          /\ \E f \in [new -> taken] :
                /\ \A u, x \in new : f[u] = f[x] => u = x
                /\ held' = [held EXCEPT
                      !["override"] = [w \in Principals |-> IF w \in new THEN f[w] ELSE @[w]],
                      !["provider"] = [w \in Principals |-> IF w \in LeftBehind THEN None ELSE @[w]]]
          /\ range' = [range EXCEPT !["override_gid"].next =
                          NextAfter("override_gid", TRUE, taken)]
    /\ freed' = freed \cup
          {[pool |-> "provider", value |-> held["provider"][u], recyclable |-> FALSE] : u \in LeftBehind}
    /\ account' = [u \in Users |->
          IF u \in Movers
          THEN [account[u] EXCEPT !["special"] =
                   [value |-> held'["override"][u], source |-> "override"]]
          ELSE account[u]]
    /\ UNCHANGED <<gid, proc>>

--------------------------------------------------------------------------------
(* Project groups.                                                            *)

GroupRange == IF Manages("group_gid") THEN "group_gid" ELSE "gid"

CreateGroup(g) ==
    /\ gid[g] = Absent
    /\ gid' = [gid EXCEPT ![g] = None]
    /\ UNCHANGED <<range, held, freed, account, proc>>

\* allocate_gid runs after commit: the identity is saved first, the group's
\* column in a statement of its own, which a pin in between wins against.
BeginAllocateGid(p, g) ==
    /\ Starts(p) /\ gid[g] = None
    /\ \E v \in Values :
          /\ \/ held["provider"][g] = v /\ UNCHANGED <<held, range>>
             \/ held["provider"][g] = None /\ Hand(g, GroupRange, FALSE, v)
          /\ proc' = [proc EXCEPT ![p] = [op |-> "allocate_gid", g |-> g, value |-> v]]
    /\ UNCHANGED <<freed, account, gid>>

CommitAllocateGid(p) ==
    /\ proc[p].op = "allocate_gid"
    /\ gid' = [gid EXCEPT ![proc[p].g] = IF @ = None THEN proc[p].value ELSE @]
    /\ Ends(p)
    /\ UNCHANGED <<range, held, freed, account>>

\* (mutation: the ranges of other pools are not looked at)
SetAnyGid(p, g, v) ==
    /\ Starts(p) /\ gid[g] # Absent
    /\ proc' = [proc EXCEPT ![p] = [op |-> "set_gid", g |-> g, value |-> v]]
    /\ UNCHANGED <<range, held, freed, account, gid>>
\* set_project_group_gid, which looks at the provider's other pools before it
\* locks its own; allow_outside_range lets any number through.
BeginSetGid(p, g, v) ==
    /\ Starts(p) /\ gid[g] # Absent
    /\ v \notin Window("override_gid")
    /\ proc' = [proc EXCEPT ![p] = [op |-> "set_gid", g |-> g, value |-> v]]
    /\ UNCHANGED <<range, held, freed, account, gid>>

CommitSetGid(p) ==
    /\ proc[p].op = "set_gid"
    /\ LET g == proc[p].g
           v == proc[p].value
           taken == \E q \in Pools, w \in Principals \ {g} : held[q][w] = v
           previous == IF held["provider"][g] # None THEN held["provider"][g] ELSE gid[g]
       IN IF taken
          THEN UNCHANGED <<held, freed, gid>>
          ELSE /\ held' = [held EXCEPT !["provider"][g] = v]
               /\ freed' = IF previous \in {None, v} THEN freed
                           ELSE freed \cup {[pool |-> "provider", value |-> previous,
                                             recyclable |-> FALSE]}
               /\ gid' = [gid EXCEPT ![g] = v]
    /\ Ends(p)
    /\ UNCHANGED <<range, account>>

\* release_project_group_gid; statements about the row that are under way match
\* nothing any more.
DeleteGroup(g) ==
    /\ gid[g] # Absent
    /\ gid' = [gid EXCEPT ![g] = Absent]
    /\ held' = [held EXCEPT !["provider"][g] = None]
    /\ freed' = IF held["provider"][g] = None THEN freed
                ELSE freed \cup {[pool |-> "provider", value |-> held["provider"][g],
                                  recyclable |-> FALSE]}
    /\ proc' = [p \in Procs |->
          IF proc[p].op \in {"allocate_gid", "set_gid"} /\ proc[p].g = g
          THEN Idle ELSE proc[p]]
    /\ UNCHANGED <<range, account>>

--------------------------------------------------------------------------------
(* Operators.                                                                 *)

\* The pool's row as an edit saves it: as it was read, with the new bounds of one
\* range and the pointer of that range moved into them.
Clipped(e, row) ==
    LET base == IF row[e.r].lo > row[e.r].hi THEN e.lo ELSE row[e.r].next
        low == IF base < e.lo THEN e.lo ELSE base
    IN [lo |-> e.lo, hi |-> e.hi, next |-> IF low > e.hi + 1 THEN e.hi + 1 ELSE low]
\* (mutation: the pointer is saved as it is)
Unclipped(e, row) ==
    [r \in Ranges |->
        IF r = e.r THEN [lo |-> e.lo, hi |-> e.hi, next |-> row[r].next]
        ELSE IF PoolOf[r] = PoolOf[e.r] THEN row[r] ELSE range[r]]
Candidate(e, row) ==
    [r \in Ranges |->
        IF r = e.r THEN Clipped(e, row)
        ELSE IF PoolOf[r] = PoolOf[e.r] THEN row[r] ELSE range[r]]

BoundsOf(x) == x.lo .. x.hi

\* validate_pool and _check_allocated_values: ranges recorded in one column do not
\* overlap, and the pool's own numbers that were inside its ranges, as they were
\* read, stay inside them ...
Fits(e, row) ==
    LET new == Candidate(e, row)
        own == {r \in Ranges : PoolOf[r] = PoolOf[e.r]}
    IN /\ e.lo <= e.hi \/ e = Removal
       /\ \A r \in own : \A x \in Ranges \ {r} : BoundsOf(new[r]) \cap BoundsOf(new[x]) = {}
       /\ \A v \in Active(PoolOf[e.r]) :
             (\E r \in own : v \in BoundsOf(row[r])) => \E r \in own : v \in BoundsOf(new[r])
\* ... and no range of the pool contains a number that another pool has handed out
\* (_check_foreign_identities).
Accepted(e, row) ==
    /\ Fits(e, row)
    /\ \A r \in {x \in Ranges : PoolOf[x] = PoolOf[e.r]}, q \in Pools \ {PoolOf[e.r]} :
          BoundsOf(Candidate(e, row)[r]) \cap Active(q) = {}

\* PosixIdPoolSerializer reads the pool's row, all its ranges and pointers, and
\* validates the edit.
BeginUpdatePool(p, e) ==
    LET row == [r \in Ranges |-> IF PoolOf[r] = PoolOf[e.r] THEN range[r] ELSE Off] IN
    /\ Starts(p) /\ Accepted(e, row)
    /\ proc' = [proc EXCEPT ![p] = [op |-> "update_pool", edit |-> e, row |-> row]]
    /\ UNCHANGED <<range, held, freed, account, gid>>

\* The checks are made again under the locks of the customer and the pool, and
\* the whole row is saved.  An offering has one pool: of two that are created the
\* second is refused.
PinsInTurn ==
    "stale_pin" \in Occurs \/ \A q \in Procs : proc[q].op \notin {"pin", "set_gid"}
CommitUpdatePool(p) ==
    /\ proc[p].op = "update_pool" /\ PinsInTurn
    /\ LET e == proc[p].edit
           row == proc[p].row
           exists == e.r = "override_gid" /\ row[e.r] = Off /\ Manages(e.r)
       IN range' = IF Accepted(e, row) /\ ~ exists THEN Candidate(e, row) ELSE range
    /\ Ends(p)
    /\ UNCHANGED <<held, freed, account, gid>>

\* The admin action that returns a withheld number to circulation.
Recirculate(x) ==
    /\ x \in freed /\ ~x.recyclable
    /\ freed' = (freed \ {x}) \cup {[x EXCEPT !.recyclable = TRUE]}
    /\ UNCHANGED <<range, held, account, gid, proc>>

--------------------------------------------------------------------------------

Init ==
    /\ range = [r \in Ranges |->
          IF r = "gid" THEN [lo |-> 1, hi |-> FirstRange, next |-> 1] ELSE Off]
    /\ held = [q \in Pools |-> [w \in Principals |-> None]]
    /\ freed = {}
    /\ account = [u \in Users |-> [o \in Offerings |-> NoAccount]]
    /\ gid = [g \in Groups |-> Absent]
    /\ proc = [p \in Procs |-> Idle]

UserStep ==
    \/ \E u \in Users, o \in Offerings :
          \/ CreateAccount(u, o)
          \/ \E p \in Procs : BeginFill(p, u, o) \/ BeginDelete(p, u, o)
          \/ \E p \in Procs, v \in Values : BeginPin(p, u, o, v)
    \/ \E p \in Procs : CommitFill(p) \/ CommitDelete(p) \/ CommitPin(p)
    \/ Repoint

GroupStep ==
    \/ \E g \in Groups :
          \/ CreateGroup(g)
          \/ DeleteGroup(g)
          \/ \E p \in Procs :
                BeginAllocateGid(p, g) \/ \E v \in Values : BeginSetGid(p, g, v)
    \/ \E p \in Procs : CommitAllocateGid(p) \/ CommitSetGid(p)

OperatorStep ==
    \/ \E p \in Procs : CommitUpdatePool(p) \/ \E e \in AllEdits : BeginUpdatePool(p, e)
    \/ \E x \in freed : Recirculate(x)

Next == UserStep \/ GroupStep \/ OperatorStep

Spec == Init /\ [][Next]_vars

--------------------------------------------------------------------------------
(* Properties.                                                                *)

\* Types; the pointer of a range is never further out than one past its end.
TypeOK ==
    /\ range \in [Ranges -> RangeRows]
    /\ held \in [Pools -> [Principals -> Values \cup {None}]]
    /\ freed \subseteq FreedRows
    /\ account \in [Users -> [Offerings -> Accounts]]
    /\ gid \in [Groups -> Values \cup {None, Absent}]
    /\ proc \in [Procs -> Tasks \cup {Idle}]

\* One directory serves the provider: no number is held by two principals, in
\* whichever pools they hold it and however ranges have been moved.
OneHolder ==
    \A q1, q2 \in Pools, w1, w2 \in Principals :
        held[q1][w1] = held[q2][w2] /\ held[q1][w1] # None => q1 = q2 /\ w1 = w2

\* Why that is so: a number that is held lies in no range of another pool.
KeptOut ==
    \A q \in Pools, w \in Principals, r \in Ranges :
        held[q][w] \in Window(r) => PoolOf[r] = q

\* The number an account carries stays reserved: its user holds it in the pool it
\* came from, so ledger and directory agree and nobody else is given it.
StaysReserved ==
    \A u \in Users, o \in Offerings :
        account[u][o].value \in Values =>
            held[account[u][o].source][u] = account[u][o].value
================================================================================
