----------------------------- MODULE LockProofs -----------------------------
(***************************************************************************)
(* Proofs about LockOrder: the documented order is respected but in one    *)
(* place, and no threads wait for each other in a circle, whatever the     *)
(* size of matrices.                                                       *)
(***************************************************************************)
EXTENDS LockOrder, TLAPS

(* From the locks a to the locks b: those that are taken come after those  *)
(* that are held.                                                          *)
Fits(a, b) == \A l \in b \ a, k \in a : Rank[k] < Rank[l]

(* A thread that holds h and goes through p takes each lock in order, and  *)
(* holds g in the end.                                                     *)
LockSets == SUBSET Locks
Before(h, p, i) == IF i = 1 THEN h ELSE p[i - 1]
Leads(h, p, g) == /\ p \in Seq(LockSets)
                  /\ \A i \in 1..Len(p) : Fits(Before(h, p, i), p[i])
                  /\ IF p = << >> THEN h = g ELSE p[Len(p)] = g

(* The inductive invariant: what a thread still has to do is in order from *)
(* the locks it holds, and gives them all back; nobody else has the lock   *)
(* that a stuck thread asks for, since it has that lock itself.            *)
Exclusive == \A t, u \in Threads : t # u => held[t] \cap held[u] = {}
SelfLocked == stuck \subseteq {"copier_thread"} /\ \A t \in stuck : "incoming" \in held[t]
LockInv == /\ ahead \in [Threads -> Seq(LockSets)]
           /\ held \in [Threads -> LockSets]
           /\ \A t \in Threads : Leads(held[t], ahead[t], {})
           /\ Exclusive /\ SelfLocked

-----------------------------------------------------------------------------
(* The locks and their ranks, spelled out.                                 *)
LEMMA LockNames ==
    /\ Locks = {"variables", "machines", "tasks", "live_tasks", "matrices", "tags",
                "notifications", "copying_flags", "incoming"}
    /\ Rank["variables"] = 1 /\ Rank["machines"] = 2 /\ Rank["tasks"] = 3
    /\ Rank["live_tasks"] = 4 /\ Rank["matrices"] = 5 /\ Rank["tags"] = 6
    /\ Rank["notifications"] = 7 /\ Rank["copying_flags"] = 8 /\ Rank["incoming"] = 9
BY DEF Locks, Rank

(* A rank is a number.                                                     *)
LEMMA RankTyped == \A l \in Locks : Rank[l] \in 1..9
BY DEF Locks, Rank

(* The elements of a concatenation.                                        *)
LEMMA ConcatElements ==
    ASSUME NEW S, NEW p \in Seq(S), NEW q \in Seq(S)
    PROVE  /\ p \o q \in Seq(S) /\ Len(p \o q) = Len(p) + Len(q)
           /\ \A i \in 1..Len(p) : (p \o q)[i] = p[i]
           /\ \A i \in 1..Len(q) : (p \o q)[Len(p) + i] = q[i]
OBVIOUS

(* One program after another.                                              *)
LEMMA ConcatLeads ==
    ASSUME NEW h, NEW g, NEW k, NEW p, NEW q, Leads(h, p, g), Leads(g, q, k)
    PROVE  Leads(h, p \o q, k)
<1> DEFINE r == p \o q
<1>1. p \in Seq(LockSets) /\ q \in Seq(LockSets)
  BY DEF Leads
<1>2. /\ r \in Seq(LockSets) /\ Len(r) = Len(p) + Len(q)
      /\ \A i \in 1..Len(p) : r[i] = p[i]
      /\ \A i \in 1..Len(q) : r[Len(p) + i] = q[i]
      /\ Len(p) \in Nat /\ Len(q) \in Nat
      /\ (Len(p) = 0 <=> p = << >>) /\ (Len(q) = 0 <=> q = << >>)
      /\ (Len(r) = 0 <=> r = << >>)
  BY <1>1
<1> HIDE DEF r
<1>3. ASSUME NEW i \in 1..Len(r) PROVE Fits(Before(h, r, i), r[i])
  <2>1. CASE i <= Len(p)
    <3>1. i \in 1..Len(p) /\ Before(h, r, i) = Before(h, p, i)
      BY <1>2, <2>1 DEF Before
    <3> QED
      BY <1>2, <3>1 DEF Leads
  <2>2. CASE i = Len(p) + 1
    <3>1. r[i] = q[1] /\ 1 \in 1..Len(q)
      BY <1>2, <2>2
    <3>2. Before(h, r, i) = g
      BY <1>2, <2>2 DEF Before, Leads
    <3> QED
      BY <3>1, <3>2 DEF Leads, Before
  <2>3. CASE i > Len(p) + 1
    <3>1. PICK j \in 1..Len(q) : i = Len(p) + j /\ j > 1
      <4>1. i - Len(p) \in 1..Len(q)
        BY <1>2, <2>3
      <4> WITNESS i - Len(p) \in 1..Len(q)
      <4> QED
        BY <1>2, <2>3, <4>1
    <3>2. j - 1 \in 1..Len(q) /\ i - 1 = Len(p) + (j - 1)
      BY <1>2, <3>1
    <3>3. r[i] = q[j] /\ r[i - 1] = q[j - 1]
      BY <1>2, <3>1, <3>2
    <3>4. Before(h, r, i) = Before(g, q, j)
      BY <1>2, <2>3, <3>1, <3>3 DEF Before
    <3> QED
      BY <3>1, <3>3, <3>4 DEF Leads
  <2> QED
    BY <1>2, <2>1, <2>2, <2>3
<1>4. IF r = << >> THEN h = k ELSE r[Len(r)] = k
  <2>1. CASE Len(q) > 0
    BY <1>2, <2>1 DEF Leads
  <2>2. CASE Len(q) = 0 /\ Len(p) > 0
    BY <1>2, <2>2 DEF Leads
  <2>3. CASE Len(q) = 0 /\ Len(p) = 0
    BY <1>2, <2>3 DEF Leads
  <2> QED
    BY <1>2, <2>1, <2>2, <2>3
<1> QED
  BY <1>2, <1>3, <1>4 DEF Leads, r

(* A thread may drop what it holds.                                        *)
LEMMA DropLeads == ASSUME NEW h PROVE Leads(h, <<{}>>, {})
<1>1. <<{}>> \in Seq(LockSets) /\ Len(<<{}>>) = 1 /\ <<{}>>[1] = {}
  BY DEF LockSets
<1> QED
  BY <1>1 DEF Leads, Before, Fits

(* Locks taken and dropped one after the other may come in any order.      *)
LEMMA ApartLeads ==
    ASSUME NEW locks \in Seq(Locks)
    PROVE  Leads({}, Apart(locks), {})
<1> DEFINE p == Apart(locks)
<1>1. Len(locks) \in Nat /\ 2 * Len(locks) \in Nat
  OBVIOUS
<1>2. ASSUME NEW i \in 1..(2 * Len(locks)), i % 2 = 1
      PROVE  (i + 1) \div 2 \in 1..Len(locks)
  BY <1>1, <1>2
<1>3. \A i \in 1..(2 * Len(locks)) :
         (IF i % 2 = 1 THEN {locks[(i + 1) \div 2]} ELSE {}) \in LockSets
  BY <1>1, <1>2 DEF LockSets
<1>4. /\ p \in Seq(LockSets) /\ Len(p) = 2 * Len(locks)
      /\ \A i \in 1..Len(p) : p[i] = IF i % 2 = 1 THEN {locks[(i + 1) \div 2]} ELSE {}
  <2>1. p = [i \in 1..(2 * Len(locks)) |->
               IF i % 2 = 1 THEN {locks[(i + 1) \div 2]} ELSE {}]
    BY DEF Apart
  <2> HIDE DEF p
  <2> DEFINE n == 2 * Len(locks)
             f(i) == IF i % 2 = 1 THEN {locks[(i + 1) \div 2]} ELSE {}
  <2>2. n \in Nat /\ \A i \in 1..n : f(i) \in LockSets
    BY <1>1, <1>3
  <2>3. p = [i \in 1..n |-> f(i)]
    BY <2>1
  <2> HIDE DEF n, f
  <2>4. /\ p \in Seq(LockSets) /\ Len(p) = n
        /\ \A i \in 1..Len(p) : p[i] = f(i)
    BY <2>2, <2>3
  <2> QED
    BY <2>4 DEF n, f
<1> HIDE DEF p
<1>5. ASSUME NEW i \in 1..Len(p) PROVE Fits(Before({}, p, i), p[i])
  <2>1. CASE i = 1
    BY <2>1 DEF Before, Fits
  <2>2. CASE i # 1
    <3>1. i - 1 \in 1..Len(p) /\ (i % 2 = 1 => (i - 1) % 2 # 1)
      BY <1>1, <1>4, <2>2
    <3>2. p[i] = {} \/ p[i - 1] = {}
      BY <1>4, <3>1
    <3> QED
      BY <2>2, <3>2 DEF Before, Fits
  <2> QED
    BY <2>1, <2>2
<1>6. p # << >> => p[Len(p)] = {}
  <2>1. (Len(p) \in 1..Len(p) /\ Len(p) % 2 # 1) \/ p = << >>
    BY <1>1, <1>4
  <2> QED
    BY <1>4, <2>1
<1> QED
  BY <1>4, <1>5, <1>6 DEF Leads, p

(* Locks that are kept until the end have to be taken in order.            *)
LEMMA TakingLeads ==
    ASSUME NEW locks \in Seq(Locks), Len(locks) > 0,
           \A i, k \in 1..Len(locks) : i < k => Rank[locks[i]] < Rank[locks[k]]
    PROVE  Leads({}, Taking(locks), {locks[k] : k \in 1..Len(locks)})
<1> DEFINE p == Taking(locks)
           n == Len(locks)
<1>1. n \in Nat /\ n > 0
  OBVIOUS
<1>2. /\ p \in Seq(LockSets) /\ Len(p) = n
      /\ \A i \in 1..n : p[i] = {locks[k] : k \in 1..i}
  BY <1>1 DEF Taking, LockSets
<1> HIDE DEF p
<1>3. ASSUME NEW i \in 1..Len(p) PROVE Fits(Before({}, p, i), p[i])
  <2>1. CASE i = 1
    BY <2>1 DEF Before, Fits
  <2>2. CASE i # 1
    <3>1. i \in 1..n /\ i - 1 \in 1..n
      BY <1>1, <1>2, <2>2
    <3>2. p[i] = {locks[k] : k \in 1..i} /\ p[i - 1] = {locks[k] : k \in 1..(i - 1)}
      BY <1>2, <3>1
    <3>3. \A l \in p[i] \ p[i - 1] : l = locks[i]
      BY <3>1, <3>2
    <3>4. \A k \in p[i - 1] : Rank[k] < Rank[locks[i]]
      BY <3>1, <3>2
    <3> QED
      BY <2>2, <3>3, <3>4 DEF Before, Fits
  <2> QED
    BY <2>1, <2>2
<1> QED
  BY <1>1, <1>2, <1>3 DEF Leads, p

(* Locks taken in the order of their ranks and dropped at once are in order. *)
LEMMA NestedLeads ==
    ASSUME NEW locks \in Seq(Locks), Len(locks) > 0,
           \A i, k \in 1..Len(locks) : i < k => Rank[locks[i]] < Rank[locks[k]]
    PROVE  Leads({}, Nested(locks), {})
BY TakingLeads, DropLeads, ConcatLeads DEF Nested

(* The locks that are nested, two to six of them.                          *)
LEMMA NestedTwo ==
    ASSUME NEW a \in Locks, NEW b \in Locks, Rank[a] < Rank[b]
    PROVE  Leads({}, Nested(<<a, b>>), {})
<1> DEFINE s == <<a, b>>
<1>1. s \in Seq(Locks) /\ Len(s) = 2 /\ s[1] = a /\ s[2] = b
  OBVIOUS
<1> HIDE DEF s
<1>2. ASSUME NEW i \in 1..2, NEW k \in 1..2, i < k PROVE Rank[s[i]] < Rank[s[k]]
  BY <1>1, <1>2
<1>3. Leads({}, Nested(s), {})
  BY <1>1, <1>2, NestedLeads
<1> QED
  BY <1>3 DEF s

(* Three nested locks.                                                     *)
LEMMA NestedThree ==
    ASSUME NEW a \in Locks, NEW b \in Locks, NEW c \in Locks,
           Rank[a] < Rank[b], Rank[b] < Rank[c]
    PROVE  Leads({}, Nested(<<a, b, c>>), {})
<1> DEFINE s == <<a, b, c>>
<1>1. s \in Seq(Locks) /\ Len(s) = 3 /\ s[1] = a /\ s[2] = b /\ s[3] = c
  OBVIOUS
<1> HIDE DEF s
<1>2. ASSUME NEW i \in 1..3, NEW k \in 1..3, i < k PROVE Rank[s[i]] < Rank[s[k]]
  BY <1>1, <1>2, RankTyped
<1>3. Leads({}, Nested(s), {})
  BY <1>1, <1>2, NestedLeads
<1> QED
  BY <1>3 DEF s

-----------------------------------------------------------------------------
(* The programs of the three threads.                                      *)
Fine(p) == Leads({}, p, {})

(* handle_request, for matrices of any size.                               *)
LEMMA HandlersFine == \A p \in Handlers : Fine(p)
<1>1. \A p \in OneLock : Fine(p)
  <2>1. ASSUME NEW l \in Locks PROVE Fine(Apart(<<l>>))
    <3>1. <<l>> \in Seq(Locks)
      OBVIOUS
    <3> QED
      BY <3>1, ApartLeads DEF Fine
  <2>2. \A p \in OneLock : \E l \in Locks : p = Apart(<<l>>)
    <3> HIDE DEF Apart
    <3> QED
      BY LockNames, Zenon DEF OneLock
  <2> QED
    BY <2>1, <2>2
<1>2. Fine(CancelJob) /\ Fine(TagJob)
  <2>1. /\ "tasks" \in Locks /\ "live_tasks" \in Locks /\ "tags" \in Locks
        /\ Rank["tasks"] < Rank["live_tasks"] /\ Rank["tasks"] < Rank["tags"]
    BY LockNames
  <2>2. Fine(Nested(<<"tasks", "live_tasks">>)) /\ Fine(Nested(<<"tasks", "tags">>))
    BY <2>1, NestedTwo DEF Fine
  <2> QED
    BY <2>2 DEF CancelJob, CancelLocks, TagJob
<1>3. Fine(RemoveAvailable)
  <2> DEFINE p == <<"machines">>
             q == <<"tasks", "live_tasks">>
             s == p \o q
  <2>1. /\ p \in Seq(Locks) /\ Len(p) = 1 /\ p[1] = "machines"
        /\ q \in Seq(Locks) /\ Len(q) = 2 /\ q[1] = "tasks" /\ q[2] = "live_tasks"
    BY LockNames
  <2> HIDE DEF p, q
  <2>2. s \in Seq(Locks) /\ Len(s) = 3 /\ s[1] = p[1] /\ s[2] = q[1] /\ s[3] = q[2]
    <3>1. /\ s \in Seq(Locks) /\ Len(s) = Len(p) + Len(q)
          /\ \A i \in 1..Len(p) : s[i] = p[i]
          /\ \A i \in 1..Len(q) : s[Len(p) + i] = q[i]
      <4>1. p \in Seq(Locks) /\ q \in Seq(Locks)
        BY <2>1
      <4> QED
        BY <4>1, ConcatElements, Z3
    <3> HIDE DEF s
    <3>2. 1 \in 1..Len(p) /\ 1 \in 1..Len(q) /\ 2 \in 1..Len(q)
      BY <2>1
    <3> QED
      BY <2>1, <3>1, <3>2
  <2> HIDE DEF s
  <2>3. ASSUME NEW i \in 1..3, NEW k \in 1..3, i < k PROVE Rank[s[i]] < Rank[s[k]]
    <3>1. (i = 1 /\ k = 2) \/ (i = 1 /\ k = 3) \/ (i = 2 /\ k = 3)
      BY <2>3
    <3> QED
      BY <2>1, <2>2, <3>1, LockNames
  <2>4. s \in Seq(Locks) /\ Len(s) > 0
    BY <2>2
  <2>5. \A i, k \in 1..Len(s) : i < k => Rank[s[i]] < Rank[s[k]]
    BY <2>2, <2>3
  <2>6. Leads({}, Nested(s), {})
    BY <2>4, <2>5, NestedLeads
  <2> QED
    BY <2>6 DEF RemoveAvailable, CancelLocks, Fine, p, q, s
<1>4. Fine(AddUntagged) /\ Fine(ListJobs)
  <2>1. /\ <<"variables", "tasks", "live_tasks">> \in Seq(Locks)
        /\ <<"tasks", "tasks", "matrices", "tags">> \in Seq(Locks)
    BY LockNames
  <2> QED
    BY <2>1, ApartLeads DEF AddUntagged, ListJobs, Fine
<1>5. Fine(AddTagged)
  <2>1. /\ <<"variables">> \in Seq(Locks)
        /\ "tasks" \in Locks /\ "live_tasks" \in Locks /\ "tags" \in Locks
        /\ Rank["tasks"] < Rank["live_tasks"] /\ Rank["live_tasks"] < Rank["tags"]
    BY LockNames
  <2>2. Fine(Nested(<<"tasks", "live_tasks", "tags">>)) /\ Fine(Apart(<<"variables">>))
    BY <2>1, NestedThree, ApartLeads DEF Fine
  <2> QED
    BY <2>2, ConcatLeads DEF AddTagged, Fine
<1>6. Fine(CloneJob)
  <2>1. CloneJob \in Seq(LockSets) /\ Len(CloneJob) = 7 /\ CloneJob # << >>
    BY LockNames DEF CloneJob, LockSets
  <2>2. /\ CloneJob[1] = {"tasks"} /\ CloneJob[2] = {"tasks", "live_tasks"}
        /\ CloneJob[3] = {"tasks"} /\ CloneJob[4] = {"tasks", "matrices"}
        /\ CloneJob[5] = {"tasks"} /\ CloneJob[6] = {"tasks", "tags"}
        /\ CloneJob[7] = {}
    BY DEF CloneJob
  <2>3. ASSUME NEW i \in 1..7 PROVE Fits(Before({}, CloneJob, i), CloneJob[i])
    <3>1. i = 1 \/ i = 2 \/ i = 3 \/ i = 4 \/ i = 5 \/ i = 6 \/ i = 7
      OBVIOUS
    <3> QED
      BY <2>2, <3>1, LockNames DEF Before, Fits
  <2> QED
    BY <2>1, <2>2, <2>3 DEF Fine, Leads
<1>7. ASSUME NEW n \in 0..MaxMatrixJobs PROVE Fine(AddMatrix(n))
  <2> DEFINE jobs == [i \in 1..(2 * n) |-> IF i % 2 = 1 THEN "tasks" ELSE "live_tasks"]
  <2>1. n \in Nat /\ 2 * n \in Nat
    BY MatrixAssumption
  <2>2. jobs \in Seq(Locks)
    BY <2>1, LockNames
  <2>3. <<"variables">> \in Seq(Locks) /\ <<"matrices">> \in Seq(Locks)
    BY LockNames
  <2> HIDE DEF jobs
  <2>4. <<"variables">> \o jobs \o <<"matrices">> \in Seq(Locks)
    BY <2>2, <2>3
  <2> QED
    BY <2>4, ApartLeads DEF AddMatrix, jobs, Fine
<1> QED
  BY <1>1, <1>2, <1>3, <1>4, <1>5, <1>6, <1>7 DEF Handlers

(* work_thread                                                             *)
LEMMA WorkLoopFine == \A p \in WorkLoop : Fine(p)
<1> DEFINE save == Apart(<<"machines", "tasks", "matrices", "tags", "variables">>)
           six  == <<"machines", "tasks", "live_tasks", "matrices", "tags", "notifications">>
           five == <<"variables", "machines", "tasks", "matrices", "notifications">>
<1>1. Leads({}, save, {})
  <2>1. <<"machines", "tasks", "matrices", "tags", "variables">> \in Seq(Locks)
    BY LockNames
  <2> QED
    BY <2>1, ApartLeads
<1>2. Leads({}, Notifications, {})
  <2>1. /\ five \in Seq(Locks) /\ Len(five) = 5
        /\ Rank[five[1]] = 1 /\ Rank[five[2]] = 2 /\ Rank[five[3]] = 3
        /\ Rank[five[4]] = 5 /\ Rank[five[5]] = 7
    BY LockNames
  <2> HIDE DEF five
  <2>2. ASSUME NEW i \in 1..5, NEW k \in 1..5, i < k PROVE Rank[five[i]] < Rank[five[k]]
    <3>1. /\ i = 1 \/ i = 2 \/ i = 3 \/ i = 4 \/ i = 5
          /\ k = 1 \/ k = 2 \/ k = 3 \/ k = 4 \/ k = 5
      OBVIOUS
    <3> QED
      BY <2>1, <2>2, <3>1
  <2> HIDE DEF save, six
  <2>3. five \in Seq(Locks) /\ Len(five) > 0
    BY <2>1
  <2>4. \A i, k \in 1..Len(five) : i < k => Rank[five[i]] < Rank[five[k]]
    BY <2>1, <2>2
  <2>5. Leads({}, Nested(five), {})
    BY <2>3, <2>4, NestedLeads
  <2> QED
    BY <2>5 DEF Notifications, five
<1>3. Leads({}, Taking(six), Everything)
  <2>1. /\ six \in Seq(Locks) /\ Len(six) = 6
        /\ six[1] = "machines" /\ six[2] = "tasks" /\ six[3] = "live_tasks"
        /\ six[4] = "matrices" /\ six[5] = "tags" /\ six[6] = "notifications"
    BY LockNames
  <2> HIDE DEF six
  <2>2. \A i \in 1..6 : i = 1 \/ i = 2 \/ i = 3 \/ i = 4 \/ i = 5 \/ i = 6
    OBVIOUS
  <2>3. \A i \in 1..6 : Rank[six[i]] = i + 1
    BY <2>1, <2>2, LockNames
  <2>4. {six[k] : k \in 1..6} = Everything
    <3>1. \A k \in 1..6 : six[k] \in Everything
      BY <2>1, <2>2 DEF Everything
    <3>2. 1 \in 1..6 /\ 2 \in 1..6 /\ 3 \in 1..6 /\ 4 \in 1..6 /\ 5 \in 1..6 /\ 6 \in 1..6
      OBVIOUS
    <3>3. \A l \in Everything : \E k \in 1..6 : l = six[k]
      BY <2>1, <3>2 DEF Everything
    <3> QED
      BY <3>1, <3>3
  <2> HIDE DEF save, five
  <2>5. six \in Seq(Locks) /\ Len(six) > 0
    BY <2>1
  <2>6. \A i, k \in 1..Len(six) : i < k => Rank[six[i]] < Rank[six[k]]
    BY <2>1, <2>3
  <2>7. Leads({}, Taking(six), {six[k] : k \in 1..Len(six)})
    BY <2>5, <2>6, TakingLeads
  <2> QED
    BY <2>1, <2>4, <2>7
<1>4. ASSUME NEW drive \in Drive PROVE Leads(Everything, drive, Everything)
  <2>1. CASE drive = << >>
    <3>1. << >> \in Seq(LockSets) /\ Len(<< >>) = 0
      OBVIOUS
    <3> QED
      BY <2>1, <3>1 DEF Leads
  <2>2. ASSUME NEW l \in {"copying_flags", "incoming"},
               drive = <<Everything \cup {l}, Everything>>
        PROVE  Leads(Everything, drive, Everything)
    <3>1. /\ drive \in Seq(LockSets) /\ Len(drive) = 2 /\ drive # << >>
          /\ drive[1] = Everything \cup {l} /\ drive[2] = Everything
      BY <2>2, LockNames DEF LockSets, Everything
    <3>2. Fits(Everything, Everything \cup {l})
      BY LockNames DEF Fits, Everything
    <3>3. ASSUME NEW i \in 1..2 PROVE Fits(Before(Everything, drive, i), drive[i])
      <4>1. CASE i = 1
        BY <3>1, <3>2, <4>1 DEF Before
      <4>2. CASE i = 2
        BY <3>1, <4>2 DEF Before, Fits
      <4> QED
        BY <4>1, <4>2
    <3> QED
      BY <3>1, <3>3 DEF Leads
  <2> QED
    BY <2>1, <2>2 DEF Drive
<1>5. ASSUME NEW drive \in Drive
      PROVE  Fine(save \o Notifications \o Taking(six) \o drive \o <<{}>>)
  <2> HIDE DEF save, six
  <2>1. Leads({}, save \o Notifications, {})
    BY <1>1, <1>2, ConcatLeads
  <2>2. Leads({}, save \o Notifications \o Taking(six), Everything)
    BY <1>3, <2>1, ConcatLeads
  <2>3. Leads({}, save \o Notifications \o Taking(six) \o drive, Everything)
    BY <1>4, <2>2, ConcatLeads
  <2>4. Leads(Everything, <<{}>>, {})
    BY DropLeads
  <2>5. Leads({}, save \o Notifications \o Taking(six) \o drive \o <<{}>>, {})
    BY <2>3, <2>4, ConcatLeads
  <2> QED
    BY <2>5 DEF Fine
<1> QED
  BY <1>5 DEF WorkLoop

(* Every program of every thread takes its locks in order.                 *)
LEMMA ProgramsFine == \A t \in Threads : \A p \in Programs[t] : Fine(p)
<1>1. \A p \in CopierLoop : Fine(p)
  <2>1. <<"incoming">> \in Seq(Locks) /\ <<"copying_flags">> \in Seq(Locks)
    BY LockNames
  <2> QED
    BY <2>1, ApartLeads DEF CopierLoop, Fine
<1> QED
  BY <1>1, HandlersFine, WorkLoopFine DEF Programs, Threads

-----------------------------------------------------------------------------
(* What is left of a program after its first step.                         *)
LEMMA TailLeads ==
    ASSUME NEW h, NEW p, p # << >>, Leads(h, p, {})
    PROVE  Fits(h, Head(p)) /\ Head(p) \in LockSets /\ Leads(Head(p), Tail(p), {})
<1> DEFINE q == Tail(p)
<1>1. p \in Seq(LockSets) /\ Len(p) \in Nat /\ Len(p) > 0 /\ Head(p) = p[1]
  BY DEF Leads
<1>2. /\ q \in Seq(LockSets) /\ Len(q) = Len(p) - 1
      /\ \A i \in 1..Len(q) : q[i] = p[i + 1]
      /\ (q = << >> <=> Len(q) = 0)
  <2>1. q \in Seq(LockSets) /\ Len(q) = Len(p) - 1
    BY <1>1
  <2>2. \A i \in 1..Len(q) : q[i] = p[i + 1]
    BY <1>1
  <2> HIDE DEF q
  <2> QED
    BY <2>1, <2>2
<1> HIDE DEF q
<1>3. Fits(h, Head(p)) /\ Head(p) \in LockSets
  BY <1>1 DEF Leads, Before
<1>4. ASSUME NEW i \in 1..Len(q) PROVE Fits(Before(p[1], q, i), q[i])
  <2>1. i + 1 \in 1..Len(p) /\ i + 1 # 1 /\ (i + 1) - 1 = i
    BY <1>1, <1>2
  <2>2. Fits(p[i], p[i + 1])
    BY <2>1 DEF Leads, Before
  <2>3. Before(p[1], q, i) = p[i]
    <3>1. CASE i = 1
      BY <3>1 DEF Before
    <3>2. CASE i # 1
      <4>1. i - 1 \in 1..Len(q) /\ (i - 1) + 1 = i
        BY <1>1, <1>2, <3>2
      <4> QED
        BY <1>2, <3>2, <4>1 DEF Before
    <3> QED
      BY <3>1, <3>2
  <2> QED
    BY <1>2, <2>2, <2>3
<1>5. IF q = << >> THEN p[1] = {} ELSE q[Len(q)] = {}
  BY <1>1, <1>2 DEF Leads
<1> QED
  BY <1>1, <1>2, <1>3, <1>4, <1>5 DEF Leads, q

(* A thread at the end of its program holds nothing.                       *)
LEMMA EmptyLeads == ASSUME NEW h PROVE Leads(h, << >>, {}) <=> h = {}
<1>1. << >> \in Seq(LockSets) /\ Len(<< >>) = 0
  OBVIOUS
<1> QED
  BY <1>1 DEF Leads

(* No thread holds anything at first.                                      *)
LEMMA InitLock == Init => LockInv
BY EmptyLeads DEF Init, LockInv, LockSets, Exclusive, SelfLocked

(* A step takes or drops what the program of its thread says.              *)
LEMMA NextLock == LockInv /\ [Next]_vars => LockInv'
<1> SUFFICES ASSUME LockInv, [Next]_vars PROVE LockInv'
  OBVIOUS
<1>1. /\ ahead \in [Threads -> Seq(LockSets)] /\ held \in [Threads -> LockSets]
      /\ \A t \in Threads : Leads(held[t], ahead[t], {})
      /\ Exclusive /\ SelfLocked
  BY DEF LockInv
<1>2. ASSUME NEW t \in Threads, Begin(t) PROVE LockInv'
  <2>1. PICK p \in Programs[t] : ahead' = [ahead EXCEPT ![t] = p]
    BY <1>2 DEF Begin
  <2>2. Leads({}, p, {}) /\ p \in Seq(LockSets)
    BY ProgramsFine DEF Fine, Leads
  <2>3. held[t] = {} /\ held' = held
    BY <1>1, <1>2, EmptyLeads DEF Begin
  <2>4. \A u \in Threads : Leads(held'[u], ahead'[u], {})
    BY <1>1, <2>1, <2>2, <2>3
  <2>5. Exclusive' /\ SelfLocked'
    BY <1>1, <1>2, <2>3 DEF Begin, Exclusive, SelfLocked
  <2> QED
    BY <1>1, <2>1, <2>2, <2>3, <2>4, <2>5 DEF LockInv
<1>3. ASSUME NEW t \in Threads, Step(t) PROVE LockInv'
  <2>1. /\ ahead[t] # << >> /\ held' = [held EXCEPT ![t] = Head(ahead[t])]
        /\ ahead' = [ahead EXCEPT ![t] = Tail(ahead[t])]
    BY <1>3 DEF Step
  <2>2. /\ Head(ahead[t]) \in LockSets
        /\ Leads(Head(ahead[t]), Tail(ahead[t]), {}) /\ Tail(ahead[t]) \in Seq(LockSets)
    BY <1>1, <2>1, TailLeads DEF Leads
  <2>3. \A u \in Threads : Leads(held'[u], ahead'[u], {})
    BY <1>1, <2>1, <2>2
  <2>4. t \notin stuck /\ stuck' = stuck
    BY <1>1, <1>3 DEF Step, Wanted, Free, SelfLocked
  <2>5. \A u \in Threads : u # t => Head(ahead[t]) \cap held[u] = {}
    BY <1>1, <1>3, <2>1, <2>4 DEF Step, Wanted, Free, Exclusive
  <2>6. \A u \in Threads : held'[u] = IF u = t THEN Head(ahead[t]) ELSE held[u]
    BY <1>1, <2>1
  <2>7. Exclusive'
    BY <1>1, <2>5, <2>6 DEF Exclusive
  <2>8. SelfLocked'
    BY <1>1, <2>4, <2>6 DEF SelfLocked, Threads
  <2> QED
    BY <1>1, <2>1, <2>2, <2>3, <2>7, <2>8 DEF LockInv
<1>4. CASE ReturnEarly
  <2>1. << >> \in Seq(LockSets) /\ {} \in LockSets /\ Leads({}, << >>, {})
    BY EmptyLeads DEF LockSets
  <2>2. \A u \in Threads : Leads(held'[u], ahead'[u], {})
    BY <1>1, <1>4, <2>1 DEF ReturnEarly, Threads
  <2>3. \A u \in Threads : held'[u] = IF u = "listener" THEN {} ELSE held[u]
    BY <1>1, <1>4 DEF ReturnEarly
  <2>4. Exclusive'
    BY <1>1, <2>3 DEF Exclusive
  <2>5. SelfLocked'
    BY <1>1, <1>4, <2>3 DEF ReturnEarly, SelfLocked, Threads
  <2> QED
    BY <1>1, <1>4, <2>1, <2>2, <2>4, <2>5 DEF LockInv, ReturnEarly
<1>5. CASE StartFails
  BY <1>1, <1>5 DEF StartFails, LockInv, Exclusive, SelfLocked
<1>6. CASE UNCHANGED vars
  BY <1>1, <1>6 DEF vars, LockInv, Exclusive, SelfLocked
<1> QED
  BY <1>2, <1>3, <1>4, <1>5, <1>6 DEF Next

(* A thread that waits for a lock holds only locks that come before it.    *)
LEMMA InOrder == LockInv => OrderRespected
<1> SUFFICES ASSUME LockInv, NEW t \in Threads \ stuck,
                    NEW l \in Wanted(t), NEW k \in held[t]
             PROVE  Rank[k] < Rank[l]
  BY DEF OrderRespected, LockInv, SelfLocked
<1>1. ahead[t] # << >> /\ l \in Head(ahead[t]) \ held[t]
  BY DEF Wanted
<1>2. Fits(held[t], Head(ahead[t]))
  BY <1>1, TailLeads DEF LockInv
<1> QED
  BY <1>1, <1>2 DEF Fits

(* The documented order of locks (main.rs:36) is respected by every thread *)
(* and for matrices of any size, except where the copier thread, unable to *)
(* start a copy, asks for the lock of the queue it holds (copier.rs:131).  *)
THEOREM LocksInOrder == Spec => []OrderRespected
<1>1. Init => LockInv
  BY InitLock
<1>2. LockInv /\ [Next]_vars => LockInv'
  BY NextLock
<1>3. LockInv => OrderRespected
  BY InOrder
<1> QED
  BY <1>1, <1>2, <1>3, PTL DEF Spec

(* In a circle each thread waits for a lock that the next one holds, which *)
(* itself waits for one of a higher rank: ranks would grow without end.  A *)
(* stuck thread is in no circle, as it waits for no other thread.          *)
LEMMA NoCircle == LockInv => NoCircularWait
<1> SUFFICES ASSUME LockInv, NEW W \in (SUBSET Threads) \ {{}},
                    \A t \in W : \E u \in W : WaitsFor(t, u)
             PROVE  FALSE
  BY DEF NoCircularWait
<1> DEFINE Reach(n) == \E t \in W, u \in W : \E l \in Wanted(t) \cap held[u] : Rank[l] >= n
<1>1. \A u \in W : held[u] \in LockSets /\ \A l \in held[u] : l \in Locks /\ Rank[l] \in 1..9
  BY RankTyped DEF LockInv, LockSets
<1>2. \A t \in W : \A l \in Wanted(t), k \in held[t] : Rank[k] < Rank[l]
  <2>1. \A t \in W : t \notin stuck
    BY DEF WaitsFor, Wanted, LockInv, Exclusive, SelfLocked, Threads
  <2> QED
    BY <2>1, InOrder DEF OrderRespected
<1>3. Reach(1)
  <2>1. PICK t \in W : TRUE
    OBVIOUS
  <2>2. PICK u \in W : Wanted(t) \cap held[u] # {}
    BY DEF WaitsFor
  <2>3. PICK l \in Wanted(t) \cap held[u] : Rank[l] \in 1..9
    BY <1>1, <2>2
  <2> QED
    BY <2>3
<1>4. ASSUME NEW n \in Nat, Reach(n) PROVE Reach(n + 1)
  <2>1. PICK t \in W, u \in W : \E l \in Wanted(t) \cap held[u] : Rank[l] >= n
    BY <1>4
  <2>2. PICK l \in Wanted(t) \cap held[u] : Rank[l] >= n
    BY <2>1
  <2>3. PICK w \in W : Wanted(u) \cap held[w] # {}
    BY DEF WaitsFor
  <2>4. PICK k \in Wanted(u) \cap held[w] : TRUE
    BY <2>3
  <2>5. Rank[l] < Rank[k]
    BY <1>2, <2>2, <2>4
  <2>6. Rank[l] \in 1..9 /\ Rank[k] \in 1..9
    BY <1>1, <2>2, <2>4
  <2>7. Rank[k] >= n + 1
    BY <2>2, <2>5, <2>6
  <2> QED
    BY <2>4, <2>7
<1>5. ~Reach(10)
  BY <1>1
<1> HIDE DEF Reach
<1>6. Reach(2) /\ Reach(3) /\ Reach(4)
  BY <1>3, <1>4
<1>7. Reach(5) /\ Reach(6) /\ Reach(7)
  BY <1>4, <1>6
<1>8. Reach(8) /\ Reach(9) /\ Reach(10)
  BY <1>4, <1>7
<1> QED
  BY <1>5, <1>8

(* No threads ever wait for each other's locks in a circle, though one of  *)
(* them may wait for itself (copier.rs:131) and the others behind it.      *)
THEOREM NoDeadlockOfLocks == Spec => []NoCircularWait
<1>1. Init => LockInv
  BY InitLock
<1>2. LockInv /\ [Next]_vars => LockInv'
  BY NextLock
<1>3. LockInv => NoCircularWait
  BY NoCircle
<1> QED
  BY <1>1, <1>2, <1>3, PTL DEF Spec
=============================================================================
