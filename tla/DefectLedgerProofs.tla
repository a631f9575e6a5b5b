-------------------------- MODULE DefectLedgerProofs --------------------------
(***************************************************************************)
(* Proofs about DefectLedger, for any slots, reports, ledgers and scans:   *)
(* its invariants and its action properties. A commit is three folds over  *)
(* finite sets (of groups, of groups again, of defects), each of which is  *)
(* proved to keep what is wanted of it by induction over the subsets; the  *)
(* steps they fold are proved one by one. IInv is the inductive invariant. *)
(***************************************************************************)
EXTENDS DefectLedger, FiniteSetTheorems, WellFoundedInduction, TLAPS

\* Nobody commits beside an open transaction, and an open transaction knows
\* of no later report.
OrderInv ==
    /\ pc \in [Reports -> Pc]
    /\ committed \subseteq Reports
    /\ \A r, q \in Reports : pc[r] = "open" /\ pc[q] = "open" => r = q
    /\ \A r \in Reports : pc[r] = "open" => \A q \in committed : q <= r

-----------------------------------------------------------------------------
(* The steps that end a transaction and those that only move a report.     *)

LEMMA LeavesOpen ==
    ASSUME OrderInv, NEW r \in Reports, NEW end \in Pc \ {"open"},
           pc' = [pc EXCEPT ![r] = end], UNCHANGED committed
    PROVE  OrderInv'
  BY DEF OrderInv

\* The report that commits is the only one with an open transaction.
LEMMA CommitsAlone ==
    ASSUME OrderInv, NEW r \in Reports, NEW end \in Pc \ {"open"},
           pc[r] = "open" \/ NobodyCommits,
           pc' = [pc EXCEPT ![r] = end], committed' = committed \cup {r}
    PROVE  OrderInv'
<1>1. \A q \in Reports : pc'[q] # "open"
  BY DEF OrderInv, NobodyCommits
<1> QED BY <1>1 DEF OrderInv

LEMMA BeginInOrder ==
    ASSUME OrderInv, NEW r \in Reports, Begin(r)
    PROVE  OrderInv'
<1>1. \A q \in Reports : pc'[q] = "open" => q = r
  BY DEF OrderInv, Begin, NobodyCommits
<1>2. \A q \in committed' : q <= r
  BY DEF Begin, table
<1>3. pc' \in [Reports -> Pc] /\ committed' \subseteq Reports
  BY DEF OrderInv, Begin, Pc, table
<1> QED BY <1>1, <1>2, <1>3 DEF OrderInv

LEMMA StopsAreTerminal ==
    ASSUME OrderInv, NEW r \in Reports, NEW fault, Stopped(r, fault), UNCHANGED table
    PROVE  OrderInv'
<1>1. CASE Retry(r)
  BY <1>1, LeavesOpen DEF Retry, Pc, table
<1>2. CASE Done(r, "conflict") \/ Done(r, "rejected")
  BY <1>2, LeavesOpen DEF Done, Pc, table
<1> QED BY <1>1, <1>2 DEF Stopped

LEMMA StepOrder == OrderInv /\ [Next]_vars => OrderInv'
<1> SUFFICES ASSUME OrderInv, [Next]_vars PROVE OrderInv'
  OBVIOUS
<1>1. ASSUME NEW r \in Reports, Scanner(r) PROVE OrderInv'
  <2>1. CASE Load(r)
    BY <2>1, LeavesOpen DEF Load, Pc, table
  <2>2. CASE Begin(r)
    BY <2>2, BeginInOrder
  <2>3. CASE Supersede(r)
    BY <2>3, CommitsAlone DEF Supersede, Done, Pc
  <2>4. CASE Apply(r)
    BY <2>4, CommitsAlone DEF Apply, Done, Pc
  <2>5. CASE Conflict(r)
    BY <2>5, StopsAreTerminal DEF Conflict
  <2>6. CASE Refuse(r)
    BY <2>6, LeavesOpen DEF Refuse, Done, Pc, table
  <2>7. CASE Check(r)
    BY <2>7 DEF Check, OrderInv, table
  <2>8. CASE Collide(r)
    BY <2>8, LeavesOpen DEF Collide, Done, Pc, table
  <2> QED BY <1>1, <2>1, <2>2, <2>3, <2>4, <2>5, <2>6, <2>7, <2>8 DEF Scanner
<1>2. ASSUME NEW r \in Reports, Fault(r) PROVE OrderInv'
  <2>1. CASE Abort(r)
    BY <2>1, LeavesOpen DEF Abort, Done, Pc, table
  <2>2. CASE Rerun(r)
    BY <2>2, LeavesOpen DEF Rerun, Pc, table
  <2> QED BY <1>2, <2>1, <2>2 DEF Fault
<1>3. CASE People
  BY <1>3 DEF People, OrderInv, SetStatus, Merge, Split, Confirm, BindProbable,
              Purge, Unscanned, scanner
<1>4. CASE UNCHANGED vars
  BY <1>4 DEF OrderInv, vars, table, scanner
<1> QED BY <1>1, <1>2, <1>3, <1>4 DEF Next

LEMMA InitOrder == Init => OrderInv
  BY DEF Init, OrderInv, Pc

-----------------------------------------------------------------------------
\* The advisory lock of commitLedger: the transactions of two scans are never
\* open together, and an open one is of the latest report.
THEOREM CommitsInOrder == Spec => []OrderInv
  BY InitOrder, StepOrder, PTL DEF Spec

\* A report never writes the ledger after a later one did, however long ago
\* it was matched and however often it was tried (validateLatestLedgerReport).
THEOREM OldReportsStayOut == Spec => OldReportsNeverWrite
<1>1. OrderInv => \A r \in Reports : Commits(r) => \A q \in committed : q <= r
  BY DEF OrderInv, Commits
<1> QED BY <1>1, CommitsInOrder, PTL DEF OldReportsNeverWrite

-----------------------------------------------------------------------------
(* Folds over a finite set of numbers, the largest taken last. What is     *)
(* proved of them goes by induction over the subsets of the set: a set of  *)
(* subsets that has every T all of whose strict subsets it has has them    *)
(* all. Q says what is wanted of the result for each set that is folded.   *)

LEMMA SubsetInduction ==
    ASSUME NEW S, IsFiniteSet(S), NEW Q,
           \A T \in SUBSET S : (\A U \in SUBSET T : U # T => U \in Q) => T \in Q
    PROVE  \A T \in SUBSET S : T \in Q
<1> DEFINE bad == {T \in SUBSET S : T \notin Q}
<1> SUFFICES ASSUME bad # {} PROVE FALSE
  OBVIOUS
<1>1. IsWellFoundedOn(StrictSubsetOrdering(S), SUBSET S)
  <2>1. FiniteSubsetsOf(S) = SUBSET S
    BY FS_FiniteSubsetsOfFinite, Zenon
  <2>2. IsWellFoundedOn(StrictSubsetOrdering(S), FiniteSubsetsOf(S))
    BY FS_StrictSubsetOrderingWellFounded, Zenon
  <2> QED BY <2>1, <2>2, Zenon
<1>2. PICK T \in bad : \A U \in bad : ~(<<U, T>> \in StrictSubsetOrdering(S))
  <2>1. bad \subseteq SUBSET S
    OBVIOUS
  <2> HIDE DEF bad
  <2> QED BY <1>1, <2>1, WFMin
<1>3. \A U \in SUBSET T : U # T => U \in Q
  BY <1>2 DEF StrictSubsetOrdering
<1> QED BY <1>2, <1>3

LEMMA HasLargest ==
    ASSUME NEW S, IsFiniteSet(S), S \subseteq Nat, S # {}
    PROVE  Largest(S) \in S /\ \A y \in S : y <= Largest(S)
<1> DEFINE Q == {T \in SUBSET S : T # {} => \E x \in T : \A y \in T : y <= x}
<1>1. ASSUME NEW T \in SUBSET S, \A U \in SUBSET T : U # T => U \in Q
      PROVE  T \in Q
  <2>1. CASE T = {}
    BY <2>1
  <2>2. CASE T # {}
    <3>1. PICK z \in T : TRUE
      BY <2>2
    <3>2. CASE T = {z}
      BY <3>2
    <3>3. CASE T # {z}
      <4>1. T \ {z} # {} /\ T \ {z} # T /\ T \ {z} \in SUBSET T
        BY <3>1, <3>3
      <4>2. T \ {z} \in Q
        BY <1>1, <4>1
      <4>3. PICK x \in T \ {z} : \A y \in T \ {z} : y <= x
        BY <4>1, <4>2
      <4>4. CASE z <= x
        BY <4>3, <4>4
      <4>5. CASE ~(z <= x)
        BY <4>3, <4>5
      <4> QED BY <4>4, <4>5
    <3> QED BY <3>2, <3>3
  <2> QED BY <2>1, <2>2
<1>2. S \in Q
  <2> HIDE DEF Q
  <2> QED BY <1>1, SubsetInduction
<1> QED BY <1>2 DEF Largest

LEMMA HasSmallest ==
    ASSUME NEW S, S \subseteq Nat, S # {}
    PROVE  Smallest(S) \in S /\ \A y \in S : Smallest(S) <= y
<1>1. PICK m \in S : \A k \in S : ~(<<k, m>> \in OpToRel(<, Nat))
  BY NatLessThanWellFounded, WFMin
<1>2. \A k \in S : ~(k < m)
  BY <1>1 DEF OpToRel
<1>3. \A k \in S : m <= k
  BY <1>2
<1> QED BY <1>3 DEF Smallest

\* g is the fold of step over S from l; f follows it where it stays in L;
\* step keeps Q.
Solves(g, S, l, step) == \A T \in SUBSET S :
    g[T] = IF T = {} THEN l ELSE step[<<Largest(T), g[T \ {Largest(T)}]>>]
Follows(f, S, L, step) == \A T \in SUBSET S :
    T # {} /\ f[T \ {Largest(T)}] \in L
        => f[T] = step[<<Largest(T), f[T \ {Largest(T)}]>>]
Keeps(S, L, step, Q) == \A T \in SUBSET S : \A k \in L :
    T # {} /\ <<T \ {Largest(T)}, k>> \in Q => <<T, step[<<Largest(T), k>>]>> \in Q

LEMMA FoldExists ==
    ASSUME NEW S, IsFiniteSet(S), S \subseteq Nat,
           NEW L, NEW base \in L, NEW step \in [S \X L -> L]
    PROVE  \E g \in [SUBSET S -> L] : Solves(g, S, base, step)
<1> DEFINE Q == {V \in SUBSET S : \E g \in [SUBSET V -> L] : Solves(g, V, base, step)}
<1>0. ASSUME NEW T \in SUBSET S, T # {}
      PROVE  Largest(T) \in T /\ \A y \in T : y <= Largest(T)
  BY <1>0, HasLargest, FS_Subset
<1>1. ASSUME NEW V \in SUBSET S, \A U \in SUBSET V : U # V => U \in Q
      PROVE  V \in Q
  <2>1. CASE V = {}
    <3>1. /\ [T \in SUBSET V |-> base] \in [SUBSET V -> L]
          /\ Solves([T \in SUBSET V |-> base], V, base, step)
      BY <2>1 DEF Solves
    <3> QED BY <3>1
  <2>2. CASE V # {}
    <3> DEFINE m == Largest(V)
               W == V \ {m}
    <3>1. m \in V /\ \A y \in V : y <= m
      BY <1>0, <2>2
    <3> HIDE DEF m
    <3>2. W \in Q
      BY <1>1, <3>1
    <3>3. PICK g \in [SUBSET W -> L] : Solves(g, W, base, step)
      BY <3>2
    <3> DEFINE h == [T \in SUBSET V |-> IF m \in T THEN step[<<m, g[T \ {m}]>>] ELSE g[T]]
    <3>4. ASSUME NEW T \in SUBSET V
          PROVE  /\ h[T] \in L
                 /\ h[T] = IF T = {} THEN base
                           ELSE step[<<Largest(T), h[T \ {Largest(T)}]>>]
      <4>1. CASE m \in T
        <5>1. Largest(T) = m
          <6>1. Largest(T) \in T /\ m <= Largest(T) /\ Largest(T) <= m
            BY <1>0, <3>1, <4>1
          <6>2. Largest(T) \in Nat /\ m \in Nat
            BY <6>1, <3>1
          <6> QED BY <6>1, <6>2
        <5>2. T \ {m} \in SUBSET W /\ T \ {m} \in SUBSET V /\ m \notin T \ {m}
          OBVIOUS
        <5>3. h[T] = step[<<m, g[T \ {m}]>>] /\ h[T \ {m}] = g[T \ {m}]
          BY <4>1, <5>2
        <5>4. g[T \ {m}] \in L /\ m \in S
          BY <5>2, <3>1, <3>3
        <5>5. step[<<m, g[T \ {m}]>>] \in L
          BY <5>4
        <5> QED BY <5>1, <5>3, <5>5, <4>1
      <4>2. CASE m \notin T
        <5>1. T \in SUBSET W /\ h[T] = g[T] /\ g[T] \in L
          BY <4>2, <3>3
        <5>2. h[T \ {Largest(T)}] = g[T \ {Largest(T)}]
          BY <4>2
        <5>3. g[T] = IF T = {} THEN base
                     ELSE step[<<Largest(T), g[T \ {Largest(T)}]>>]
          BY <5>1, <3>3 DEF Solves
        <5> QED BY <5>1, <5>2, <5>3
      <4> QED BY <4>1, <4>2
    <3>5. h \in [SUBSET V -> L] /\ Solves(h, V, base, step)
      <4>1. h = [T \in SUBSET V |-> h[T]]
        OBVIOUS
      <4> HIDE DEF h
      <4> QED BY <3>4, <4>1 DEF Solves
    <3> QED BY <3>5
  <2> QED BY <2>1, <2>2
<1>2. S \in Q
  <2> HIDE DEF Q
  <2> QED BY <1>1, SubsetInduction
<1> QED BY <1>2

LEMMA FoldBy ==
    ASSUME NEW S, IsFiniteSet(S), S \subseteq Nat,
           NEW L, NEW l \in L, NEW step \in [S \X L -> L],
           NEW f, f[{}] = l, Follows(f, S, L, step),
           NEW Q, <<{}, l>> \in Q, Keeps(S, L, step, Q)
    PROVE  f[S] \in L /\ <<S, f[S]>> \in Q
<1> DEFINE good == {T \in SUBSET S : f[T] \in L /\ <<T, f[T]>> \in Q}
<1>1. ASSUME NEW T \in SUBSET S, \A U \in SUBSET T : U # T => U \in good
      PROVE  T \in good
  <2>1. CASE T = {}
    BY <2>1
  <2>2. CASE T # {}
    <3>1. Largest(T) \in T /\ Largest(T) \in S
      BY <2>2, HasLargest, FS_Subset
    <3>2. T \ {Largest(T)} \in good
      BY <3>1, <1>1
    <3>3. f[T] = step[<<Largest(T), f[T \ {Largest(T)}]>>]
      BY <2>2, <3>2 DEF Follows
    <3>4. f[T] \in L
      BY <3>1, <3>2, <3>3
    <3> QED BY <2>2, <3>2, <3>3, <3>4 DEF Keeps
  <2> QED BY <2>1, <2>2
<1>2. S \in good
  <2> HIDE DEF good
  <2> QED BY <1>1, SubsetInduction
<1> QED BY <1>2

LEMMA ObservedBy ==
    ASSUME NEW r, NEW S, IsFiniteSet(S), S \subseteq Nat, NEW L, NEW l \in L,
           \A s \in S : \A k \in L : Observe(k, r, s) \in L,
           NEW Q, <<{}, l>> \in Q,
           \A T \in SUBSET S : \A k \in L : T # {} /\ <<T \ {Largest(T)}, k>> \in Q
              => <<T, Observe(k, r, Largest(T))>> \in Q
    PROVE  Observed(r, S, l) \in L /\ <<S, Observed(r, S, l)>> \in Q
<1> DEFINE step == [p \in S \X L |-> Observe(p[2], r, p[1])]
           Eq(f) == f = [T \in SUBSET S |-> IF T = {} THEN l
                            ELSE Observe(f[T \ {Largest(T)}], r, Largest(T))]
           f == CHOOSE f : Eq(f)
<1>1. step \in [S \X L -> L] /\ \A s \in S : \A k \in L : step[<<s, k>>] = Observe(k, r, s)
  OBVIOUS
<1>2. \A T \in SUBSET S : T # {} => Largest(T) \in S
  BY HasLargest, FS_Subset
<1> HIDE DEF step
<1>3. \E g : Eq(g)
  <2>1. PICK g \in [SUBSET S -> L] : Solves(g, S, l, step)
    BY <1>1, FoldExists
  <2>2. g = [T \in SUBSET S |-> IF T = {} THEN l ELSE Observe(g[T \ {Largest(T)}], r, Largest(T))]
    BY <1>1, <1>2, <2>1 DEF Solves
  <2> QED BY <2>2
<1>4. Eq(f)
  <2> HIDE DEF Eq
  <2> QED BY <1>3
<1>5. Observed(r, S, l) = f[S]
  BY DEF Observed, InOrder, MapThenFoldSet
<1>6. f[{}] = l
  BY <1>4
<1>7. Follows(f, S, L, step)
  BY <1>1, <1>2, <1>4 DEF Follows
<1>8. Keeps(S, L, step, Q)
  BY <1>1, <1>2 DEF Keeps
<1> HIDE DEF f
<1>9. f[S] \in L /\ <<S, f[S]>> \in Q
  BY <1>1, <1>6, <1>7, <1>8, FoldBy
<1> QED BY <1>5, <1>9

LEMMA UpdatedBy ==
    ASSUME NEW r, NEW S, IsFiniteSet(S), S \subseteq Nat, NEW L, NEW l \in L,
           \A s \in S : \A k \in L : Update(k, r, s) \in L,
           NEW Q, <<{}, l>> \in Q,
           \A T \in SUBSET S : \A k \in L : T # {} /\ <<T \ {Largest(T)}, k>> \in Q
              => <<T, Update(k, r, Largest(T))>> \in Q
    PROVE  Updated(r, S, l) \in L /\ <<S, Updated(r, S, l)>> \in Q
<1> DEFINE step == [p \in S \X L |-> Update(p[2], r, p[1])]
           Eq(f) == f = [T \in SUBSET S |-> IF T = {} THEN l
                            ELSE Update(f[T \ {Largest(T)}], r, Largest(T))]
           f == CHOOSE f : Eq(f)
<1>1. step \in [S \X L -> L] /\ \A s \in S : \A k \in L : step[<<s, k>>] = Update(k, r, s)
  OBVIOUS
<1>2. \A T \in SUBSET S : T # {} => Largest(T) \in S
  BY HasLargest, FS_Subset
<1> HIDE DEF step
<1>3. \E g : Eq(g)
  <2>1. PICK g \in [SUBSET S -> L] : Solves(g, S, l, step)
    BY <1>1, FoldExists
  <2>2. g = [T \in SUBSET S |-> IF T = {} THEN l ELSE Update(g[T \ {Largest(T)}], r, Largest(T))]
    BY <1>1, <1>2, <2>1 DEF Solves
  <2> QED BY <2>2
<1>4. Eq(f)
  <2> HIDE DEF Eq
  <2> QED BY <1>3
<1>5. Updated(r, S, l) = f[S]
  BY DEF Updated, InOrder, MapThenFoldSet
<1>6. f[{}] = l
  BY <1>4
<1>7. Follows(f, S, L, step)
  BY <1>1, <1>2, <1>4 DEF Follows
<1>8. Keeps(S, L, step, Q)
  BY <1>1, <1>2 DEF Keeps
<1> HIDE DEF f
<1>9. f[S] \in L /\ <<S, f[S]>> \in Q
  BY <1>1, <1>6, <1>7, <1>8, FoldBy
<1> QED BY <1>5, <1>9

LEMMA AdvancedBy ==
    ASSUME NEW x, NEW view, IsFiniteSet(Present(view)), Present(view) \subseteq Nat,
           NEW L, NEW l \in L,
           \A d \in Present(view) : \A k \in L : Advance(k, x, d, view[d]) \in L,
           NEW Q, <<{}, l>> \in Q,
           \A T \in SUBSET Present(view) : \A k \in L : T # {} /\ <<T \ {Largest(T)}, k>> \in Q
              => <<T, Advance(k, x, Largest(T), view[Largest(T)])>> \in Q
    PROVE  AllAdvanced(x, view, l) \in L /\ <<Present(view), AllAdvanced(x, view, l)>> \in Q
<1> DEFINE step == [p \in Present(view) \X L |-> Advance(p[2], x, p[1], view[p[1]])]
           Eq(f) == f = [T \in SUBSET Present(view) |-> IF T = {} THEN l
                            ELSE Advance(f[T \ {Largest(T)}], x, Largest(T), view[Largest(T)])]
           f == CHOOSE f : Eq(f)
<1>1. /\ step \in [Present(view) \X L -> L]
      /\ \A s \in Present(view) : \A k \in L : step[<<s, k>>] = Advance(k, x, s, view[s])
  OBVIOUS
<1>2. \A T \in SUBSET Present(view) : T # {} => Largest(T) \in Present(view)
  BY HasLargest, FS_Subset
<1> HIDE DEF step
<1>3. \E g : Eq(g)
  <2>1. PICK g \in [SUBSET Present(view) -> L] : Solves(g, Present(view), l, step)
    BY <1>1, FoldExists
  <2>2. g = [T \in SUBSET Present(view) |-> IF T = {} THEN l
                ELSE Advance(g[T \ {Largest(T)}], x, Largest(T), view[Largest(T)])]
    BY <1>1, <1>2, <2>1 DEF Solves
  <2> QED BY <2>2
<1>4. Eq(f)
  <2> HIDE DEF Eq
  <2> QED BY <1>3
<1>5. AllAdvanced(x, view, l) = f[Present(view)]
  BY DEF AllAdvanced, InOrder, MapThenFoldSet
<1>6. f[{}] = l
  BY <1>4
<1>7. Follows(f, Present(view), L, step)
  BY <1>1, <1>2, <1>4 DEF Follows
<1>8. Keeps(Present(view), L, step, Q)
  BY <1>1, <1>2 DEF Keeps
<1> HIDE DEF f
<1>9. f[Present(view)] \in L /\ <<Present(view), f[Present(view)]>> \in Q
  BY <1>1, <1>6, <1>7, <1>8, FoldBy
<1> QED BY <1>5, <1>9

-----------------------------------------------------------------------------
(* One step of a commit: an observation is decided (Observe) or updates its *)
(* defect (Update), or an unobserved defect advances (Advance).            *)

Tx == [db : [Ids -> Row], view : [Ids -> Row], next : Nat \ {0},
       dirty : SUBSET Ids, seen : [Slots -> Decision], mem : [Slots -> Ids \cup {0}],
       matched : SUBSET Ids, snap : [Ids -> Snapshot \cup {NoSnapshot}],
       fault : {"none", "retry", "fatal", "bound"}]

\* k has other rows than l only where the transaction loaded a row that no
\* person had closed, and that nobody changed since.
Spares(l, k) == \A d \in Ids :
    l.view[d].status \in Exempt \/ l.db[d].version # l.view[d].version
       => k.db[d] = l.db[d]

\* The step from l to k writes row to d, and nothing else.
Writes(l, k, d, row) ==
    /\ d \in Ids /\ l.view[d].status \notin Exempt
    /\ l.db[d].version = l.view[d].version
    /\ k.db = [l.db EXCEPT ![d] = row]

LEMMA WritesSpare ==
    ASSUME NEW l \in Tx, NEW k, NEW d, NEW row, Writes(l, k, d, row)
    PROVE  Spares(l, k)
<1>1. \A c \in Ids \ {d} : k.db[c] = l.db[c]
  BY DEF Writes, Tx
<1> QED BY <1>1 DEF Writes, Spares

LEMMA WriteRows ==
    ASSUME NEW l, {"db", "view", "dirty", "snap", "fault"} \subseteq DOMAIN l,
           NEW d, NEW row, NEW before, NEW fault
    PROVE  LET k == Write(l, d, row, before, fault)
           IN  \/ k.db = l.db
               \/ /\ l.db[d].version = l.view[d].version
                  /\ k.db = [l.db EXCEPT ![d] = row]
  BY DEF Write

\* A row that is not active takes no place in the index.
LEMMA InactiveKeepsIndex ==
    ASSUME NEW db \in [Ids -> Row], IndexHolds(db), NEW d \in Ids,
           NEW row, row.status # Active
    PROVE  IndexHolds([db EXCEPT ![d] = row])
  BY DEF IndexHolds, Present

\* Nor does an active one whose slot was free.
LEMMA FreeSlotKeepsIndex ==
    ASSUME NEW db \in [Ids -> Row], IndexHolds(db), NEW d \in Ids,
           NEW row, ActiveIn(db, row.slot) \subseteq {d}
    PROVE  IndexHolds([db EXCEPT ![d] = row])
  BY DEF IndexHolds, Present, ActiveIn

-----------------------------------------------------------------------------
(* Update *)

LEMMA UpdateRow ==
    ASSUME NEW l \in Tx, NEW r \in Reports, NEW s \in Slots
    PROVE  \/ Update(l, r, s).db = l.db
           \/ \E row :
                /\ Writes(l, Update(l, r, s), l.seen[s].defect, row)
                /\ row.status = Active =>
                       ActiveIn(l.db, row.slot) \subseteq {l.seen[s].defect}
<1> DEFINE o == l.seen[s]
           d == o.defect
           v == l.view[d]
           status == Given(v, o.verdict)
           rivals == Rivals(l.db, d, v, status)
           new == WithStatus(v, status, rivals)
           k == IF rivals = {} THEN l ELSE [l EXCEPT !.mem[s] = Smallest(rivals)]
<1>1. CASE \/ l.fault # "none" \/ d = 0 \/ o.verdict = "NEW"
           \/ v.status \in Exempt \cup {"none"}
  BY <1>1 DEF Update
<1>2. CASE ~(\/ l.fault # "none" \/ d = 0 \/ o.verdict = "NEW"
             \/ v.status \in Exempt \cup {"none"})
  <2>1. d \in Ids /\ v \in Row /\ v.status \notin Exempt
    BY <1>2 DEF Tx, Decision
  <2>2. Update(l, r, s) = Rewrite(k, d, v, new, scan[r].moved)
    BY <1>2 DEF Update, Matched
  <2>3. k.db = l.db /\ k.view = l.view /\ k.fault = l.fault /\ k.dirty = l.dirty
        /\ k.snap = l.snap
    BY DEF Tx
  <2>4. new.slot = v.slot
    BY <2>1 DEF WithStatus, Row
  <2>5. new.status = Active => rivals = {} /\ status = Active
    <3>1. CASE rivals = {}
      BY <3>1, <2>1 DEF WithStatus, Row
    <3>2. CASE rivals # {}
      BY <3>2, <2>1 DEF WithStatus, Row, Active
    <3> QED BY <3>1, <3>2
  <2>6. new.status = Active => ActiveIn(l.db, v.slot) \subseteq {d}
    BY <2>5 DEF Rivals
  <2>7. /\ {"db", "view", "dirty", "snap", "fault"} \subseteq DOMAIN k
        /\ new.status = Active => ActiveIn(l.db, new.slot) \subseteq {d}
    BY <2>4, <2>6 DEF Tx
  <2>8. Bumped(new).status = new.status /\ Bumped(new).slot = new.slot
    BY <2>1 DEF Bumped, WithStatus, Row
  <2>9. \/ Update(l, r, s).db = l.db
        \/ \E row \in {new, Bumped(new)} :
              /\ l.db[d].version = l.view[d].version
              /\ Update(l, r, s).db = [l.db EXCEPT ![d] = row]
    <3> HIDE DEF k, new, v, d
    <3>1. PICK row, before :
             /\ row \in {new, Bumped(new)}
             /\ Update(l, r, s) = Write(k, d, row, before, "retry")
      BY <2>2 DEF Rewrite
    <3>2. \/ Write(k, d, row, before, "retry").db = k.db
          \/ /\ k.db[d].version = k.view[d].version
             /\ Write(k, d, row, before, "retry").db = [k.db EXCEPT ![d] = row]
      BY <2>7, WriteRows
    <3> QED BY <3>1, <3>2, <2>3
  <2>10. ASSUME NEW row \in {new, Bumped(new)}, l.db[d].version = l.view[d].version,
                Update(l, r, s).db = [l.db EXCEPT ![d] = row]
         PROVE  /\ Writes(l, Update(l, r, s), l.seen[s].defect, row)
                /\ row.status = Active =>
                       ActiveIn(l.db, row.slot) \subseteq {l.seen[s].defect}
    <3> HIDE DEF new, k
    <3> QED BY <2>1, <2>7, <2>8, <2>10 DEF Writes
  <2> HIDE DEF new, k
  <2> QED BY <2>9, <2>10
<1> QED BY <1>1, <1>2

-----------------------------------------------------------------------------
(* Observe *)

\* What is recorded after the decision touches no row.
LEMMA SettledRows ==
    ASSUME NEW l, "db" \in DOMAIN l, NEW s, NEW asked
    PROVE  Settled(l, s, asked).db = l.db
  BY DEF Settled, Record

LEMMA ObserveRow ==
    ASSUME NEW l \in Tx, NEW r \in Reports, NEW s \in Slots
    PROVE  \/ Observe(l, r, s).db = l.db
           \/ /\ l.next \in Ids /\ ActiveIn(l.db, s) = {}
              /\ Observe(l, r, s).db = [l.db EXCEPT ![l.next] = NewRow(s, r)]
<1> DEFINE new == \/ decision[r][s].verdict = "NEW"
                  \/ /\ decision[r][s].defect # 0
                     /\ l.view[decision[r][s].defect].status = "none"
           k == IF new THEN Create(l, r, s) ELSE [l EXCEPT !.seen[s] = decision[r][s]]
<1>1. Observe(l, r, s) = Settled(k, s, decision[r][s].verdict)
  BY DEF Observe
<1>2. CASE ~new
  <2>1. "db" \in DOMAIN k /\ k.db = l.db
    BY <1>2 DEF Tx
  <2> QED BY <1>1, <2>1, SettledRows
<1>3. CASE new /\ ActiveIn(l.db, s) = {}
  <2>1. k = Take(l, s, l.next, NewRow(s, r), "NEW", TRUE)
    BY <1>3 DEF Create
  <2> HIDE DEF k
  <2>2. /\ "db" \in DOMAIN k
        /\ \/ k.db = l.db
           \/ l.next \in Ids /\ k.db = [l.db EXCEPT ![l.next] = NewRow(s, r)]
    BY <2>1 DEF Take, Tx
  <2> QED BY <1>1, <1>3, <2>2, SettledRows
<1>4. CASE new /\ ActiveIn(l.db, s) # {}
  <2> DEFINE d == Smallest(ActiveIn(l.db, s))
  <2>1. PICK verdict : k = Take(l, s, d, l.db[d], verdict, FALSE)
    BY <1>4 DEF Create, Reuse
  <2> HIDE DEF k, d
  <2>2. /\ "db" \in DOMAIN k
        /\ k.db = l.db \/ (d \in Ids /\ k.db = [l.db EXCEPT ![d] = l.db[d]])
    BY <2>1 DEF Take, Tx
  <2>3. k.db = l.db
    BY <2>2 DEF Tx
  <2> QED BY <1>1, <2>2, <2>3, SettledRows
<1> QED BY <1>2, <1>3, <1>4

-----------------------------------------------------------------------------
(* Advance *)

\* Rounds never make a defect active again.
LEMMA RoundsNeverActivate ==
    ASSUME NEW v \in Row, NEW covered \in BOOLEAN, NEW counts \in BOOLEAN
    PROVE  Advanced(v, covered, counts).status # Active
<1>1. Severity[v.slot] \in {"high", "major", "minor"}
  BY LedgerAssumption DEF Row
<1>2. ASSUME NEW missed PROVE NextStatus(v, TRUE, missed) # Active
  BY <1>1 DEF NextStatus, Active
<1>3. CASE counts
  <2>1. Missed(v).status # Active
    BY <1>2 DEF Missed, Row
  <2>2. DOMAIN Missed(v) = DOMAIN v
    BY DEF Missed
  <2>3. Aged(Missed(v)).status # Active
    BY <2>1, <2>2 DEF Aged, Active, Row
  <2> QED BY <1>3, <2>1, <2>3 DEF Advanced
<1>4. CASE ~counts
  BY <1>4 DEF Advanced, NextStatus, Active, Row
<1> QED BY <1>3, <1>4

LEMMA AdvanceRow ==
    ASSUME NEW l \in Tx, NEW x, NEW d \in Ids
    PROVE  \/ Advance(l, x, d, l.view[d]).db = l.db
           \/ \E row : /\ Writes(l, Advance(l, x, d, l.view[d]), d, row)
                       /\ row.status # Active
<1> DEFINE v == l.view[d]
<1>0. v \in Row
  BY DEF Tx
<1> HIDE DEF v
<1> SUFFICES \/ Advance(l, x, d, v).db = l.db
             \/ \E row : Writes(l, Advance(l, x, d, v), d, row) /\ row.status # Active
  BY DEF v
<1>1. {"db", "view", "dirty", "snap", "fault"} \subseteq DOMAIN l
  BY DEF Tx
<1>2. ASSUME v.status \in Advancing, NEW new, new.status # Active, DOMAIN new = DOMAIN v,
             NEW fault, NEW before,
             Advance(l, x, d, v) = Write(l, d, Bumped(new), before, fault)
      PROVE  \/ Advance(l, x, d, v).db = l.db
             \/ \E row : Writes(l, Advance(l, x, d, v), d, row) /\ row.status # Active
  <2>2. Bumped(new).status = new.status
    BY <1>0, <1>2 DEF Bumped, Row
  <2>3. \/ Write(l, d, Bumped(new), before, fault).db = l.db
        \/ /\ l.db[d].version = l.view[d].version
           /\ Write(l, d, Bumped(new), before, fault).db = [l.db EXCEPT ![d] = Bumped(new)]
    BY <1>1, WriteRows
  <2>4. v.status \notin Exempt
    BY <1>2 DEF Exempt, Advancing, Active
  <2>5. l.db[d].version = l.view[d].version
           /\ Advance(l, x, d, v).db = [l.db EXCEPT ![d] = Bumped(new)]
        => Writes(l, Advance(l, x, d, v), d, Bumped(new))
    BY <2>4 DEF Writes, v
  <2> QED BY <1>2, <2>2, <2>3, <2>5
<1>2a. \A new, fault : \E before :
          Snapped(l, d, v, new, fault) = Write(l, d, Bumped(new), before, fault)
  BY DEF Snapped
<1>3. CASE l.fault # "none" \/ d \in l.matched \/ v.status \notin Advancing
  BY <1>3 DEF Advance
<1>4. CASE /\ ~(l.fault # "none" \/ d \in l.matched \/ v.status \notin Advancing)
           /\ Gone(x, v.slot)
  <2>1. Advance(l, x, d, v) = Snapped(l, d, v, [v EXCEPT !.status = "RESOLVED"], "fatal")
    BY <1>4 DEF Advance
  <2>2. /\ [v EXCEPT !.status = "RESOLVED"].status # Active
        /\ DOMAIN [v EXCEPT !.status = "RESOLVED"] = DOMAIN v
    BY <1>0 DEF Active, Row
  <2> QED BY <1>2, <1>2a, <1>4, <2>1, <2>2
<1>5. CASE /\ ~(l.fault # "none" \/ d \in l.matched \/ v.status \notin Advancing)
           /\ ~Gone(x, v.slot) /\ ~x.degraded
  <2> DEFINE new == Advanced(v, Covered(x, v.slot), Counts(x, v.slot))
  <2>1. Covered(x, v.slot) \in BOOLEAN /\ Counts(x, v.slot) \in BOOLEAN
    BY DEF Covered, Counts
  <2>2. new.status # Active
    BY <2>1, <1>0, RoundsNeverActivate
  <2>3. DOMAIN new = DOMAIN v
    BY DEF Advanced, Aged, Missed
  <2>4. Advance(l, x, d, v) = Snapped(l, d, v, new, "fatal")
    BY <1>5 DEF Advance
  <2> HIDE DEF new
  <2> QED BY <1>2, <1>2a, <1>5, <2>2, <2>3, <2>4
<1>6. CASE /\ ~(l.fault # "none" \/ d \in l.matched \/ v.status \notin Advancing)
           /\ ~Gone(x, v.slot) /\ x.degraded
  <2> DEFINE new == [v EXCEPT !.status = "GAP"]
  <2>1. \/ Advance(l, x, d, v) = l
        \/ Advance(l, x, d, v) = Write(l, d, Bumped(new), SnapshotOf(Withheld(v)), "retry")
    BY <1>6 DEF Advance, Withheld
  <2>2. new.status # Active /\ DOMAIN new = DOMAIN v
    BY <1>0 DEF Active, Row
  <2> HIDE DEF new
  <2> QED BY <1>2, <1>6, <2>1, <2>2
<1> QED BY <1>3, <1>4, <1>5, <1>6

-----------------------------------------------------------------------------
\* What a transaction that folds these steps over a scan relies on: no step
\* makes a second active defect of a slot, so the unique index has no reason
\* to reject the commit (reuse in createDefect, auto-merge in
\* updateMatchedDefect).
THEOREM StepsKeepIndex ==
    ASSUME NEW l \in Tx, IndexHolds(l.db), NEW r \in Reports, NEW s \in Slots,
           NEW x, NEW d \in Ids
    PROVE  /\ IndexHolds(Observe(l, r, s).db)
           /\ IndexHolds(Update(l, r, s).db)
           /\ IndexHolds(Advance(l, x, d, l.view[d]).db)
<1>1. l.db \in [Ids -> Row] /\ l.view[d] \in Row
  BY DEF Tx
<1>2. IndexHolds(Observe(l, r, s).db)
  <2>1. CASE Observe(l, r, s).db = l.db
    BY <2>1
  <2>2. CASE /\ l.next \in Ids /\ ActiveIn(l.db, s) = {}
             /\ Observe(l, r, s).db = [l.db EXCEPT ![l.next] = NewRow(s, r)]
    <3>1. ActiveIn(l.db, NewRow(s, r).slot) \subseteq {l.next}
      BY <2>2 DEF NewRow
    <3>2. IndexHolds([l.db EXCEPT ![l.next] = NewRow(s, r)])
      BY <1>1, <2>2, <3>1, FreeSlotKeepsIndex
    <3> QED BY <2>2, <3>2
  <2> QED BY <2>1, <2>2, ObserveRow
<1>3. ASSUME NEW k, NEW e, NEW row, Writes(l, k, e, row),
             row.status = Active => ActiveIn(l.db, row.slot) \subseteq {e}
      PROVE  IndexHolds(k.db)
  <2>1. IndexHolds([l.db EXCEPT ![e] = row])
    <3>1. CASE row.status = Active
      BY <1>1, <1>3, <3>1, FreeSlotKeepsIndex DEF Writes
    <3>2. CASE row.status # Active
      BY <1>1, <1>3, <3>2, InactiveKeepsIndex DEF Writes
    <3> QED BY <3>1, <3>2
  <2> QED BY <1>3, <2>1 DEF Writes
<1>4. IndexHolds(Update(l, r, s).db)
  BY <1>3, UpdateRow
<1>5. IndexHolds(Advance(l, x, d, l.view[d]).db)
  BY <1>3, AdvanceRow
<1> QED BY <1>2, <1>4, <1>5

\* No step writes a defect that a person had closed or merged when it was
\* loaded, or that anybody changed since: it was not given to another defect,
\* and the row_version tests of the statements fail the commit instead.
THEOREM StepsSparePeople ==
    ASSUME NEW l \in Tx, NEW r \in Reports, NEW s \in Slots, NEW x, NEW d \in Ids,
           l.next \in Ids => /\ l.view[l.next] = l.db[l.next]
                             /\ l.view[l.next].status = "none"
    PROVE  /\ Spares(l, Observe(l, r, s))
           /\ Spares(l, Update(l, r, s))
           /\ Spares(l, Advance(l, x, d, l.view[d]))
<1>1. l.db \in [Ids -> Row] /\ l.view[d] \in Row
  BY DEF Tx
<1>2. ASSUME NEW k, k.db = l.db PROVE Spares(l, k)
  BY <1>2 DEF Spares
<1>3. Spares(l, Observe(l, r, s))
  <2>1. CASE /\ l.next \in Ids
             /\ Observe(l, r, s).db = [l.db EXCEPT ![l.next] = NewRow(s, r)]
    <3>1. /\ l.view[l.next].status \notin Exempt
          /\ l.db[l.next].version = l.view[l.next].version
      BY <2>1 DEF Exempt
    <3>2. Writes(l, Observe(l, r, s), l.next, NewRow(s, r))
      BY <2>1, <3>1 DEF Writes
    <3> QED BY <3>2, WritesSpare
  <2> QED BY <1>2, <2>1, ObserveRow
<1>4. Spares(l, Update(l, r, s))
  BY <1>2, UpdateRow, WritesSpare
<1>5. Spares(l, Advance(l, x, d, l.view[d]))
  BY <1>2, AdvanceRow, WritesSpare
<1> QED BY <1>3, <1>4, <1>5
-----------------------------------------------------------------------------
(* What a step of a commit does, in full.                                  *)

SameRows(l, k) == k.db = l.db /\ k.view = l.view /\ k.dirty = l.dirty
Wrote(l, k, d, row) ==
    /\ k.db = [l.db EXCEPT ![d] = row] /\ k.view = [l.view EXCEPT ![d] = row]
    /\ k.dirty = l.dirty \cup {d}
Aside(l, k) == k.seen = l.seen /\ k.matched = l.matched /\ k.next = l.next

LEMMA WriteStep ==
    ASSUME NEW l \in Tx, NEW d \in Ids, NEW row \in Row,
           NEW before \in Snapshot \cup {NoSnapshot}, NEW fault \in {"retry", "fatal"},
           NEW k, k = Write(l, d, row, before, fault)
    PROVE  /\ k \in Tx /\ Aside(l, k) /\ k.mem = l.mem
           /\ \/ SameRows(l, k) /\ k.fault = fault
              \/ /\ l.db[d].version = l.view[d].version
                 /\ Wrote(l, k, d, row) /\ k.fault = l.fault
<1>1. k \in Tx
  BY DEF Write, Tx
<1>2. Aside(l, k) /\ k.mem = l.mem
  BY DEF Write, Tx, Aside
<1>3. CASE l.db[d].version # l.view[d].version
  BY <1>1, <1>2, <1>3 DEF Write, Tx, SameRows
<1>4. CASE l.db[d].version = l.view[d].version
  <2>1. k.db = [l.db EXCEPT ![d] = row] /\ k.view = [l.view EXCEPT ![d] = row]
    BY <1>4 DEF Write, Tx
  <2>2. k.dirty = l.dirty \cup {d} /\ k.fault = l.fault
    BY <1>4 DEF Write, Tx
  <2> QED BY <1>1, <1>2, <1>4, <2>1, <2>2 DEF Wrote
<1> QED BY <1>3, <1>4

\* The rows that the steps make.
LEMMA BumpedRow ==
    ASSUME NEW v \in Row
    PROVE  /\ Bumped(v) \in Row /\ Bumped(v).version = v.version + 1
           /\ Bumped(v).slot = v.slot /\ Bumped(v).status = v.status
           /\ Bumped(v).into = v.into
  BY DEF Bumped, Row

LEMMA SnapshotRow ==
    ASSUME NEW v \in Row, v.status # "none"
    PROVE  SnapshotOf(v) \in Snapshot
  BY DEF SnapshotOf, Snapshot, Row

LEMMA StatusRow ==
    ASSUME NEW v \in Row, NEW status \in Status, status # "MERGED",
           NEW rivals \in SUBSET Ids, NEW new, new = WithStatus(v, status, rivals)
    PROVE  /\ new \in Row /\ new.slot = v.slot /\ new.version = v.version
           /\ new.status \in {status, "MERGED"}
           /\ new.status = "MERGED" => new.into \in rivals
           /\ new.status # "MERGED" => rivals = {} /\ new = [v EXCEPT !.status = status]
<1>1. CASE rivals = {}
  BY <1>1 DEF WithStatus, Row
<1>2. CASE rivals # {}
  <2>1. Smallest(rivals) \in rivals
    <3>1. rivals \subseteq Nat
      BY DEF Ids
    <3> QED BY <1>2, <3>1, HasSmallest
  <2>2. new = [v EXCEPT !.status = "MERGED", !.into = Smallest(rivals)]
    BY <1>2 DEF WithStatus
  <2>3. Smallest(rivals) \in Ids \cup {0} /\ "MERGED" \in Status
    BY <2>1 DEF Status, Exempt
  <2> QED BY <1>2, <2>1, <2>2, <2>3 DEF Row
<1> QED BY <1>1, <1>2

\* What an observation with the verdict of o makes of the row v.
LEMMA GivenStatus ==
    ASSUME NEW v \in Row, v.status \notin Exempt \cup {"none"}, NEW verdict
    PROVE  /\ Given(v, verdict) \in Status /\ Given(v, verdict) # "MERGED"
           /\ Given(v, verdict) \in {Active, "RESOLVED", v.status}
           /\ verdict \in {"EXISTED", "REOPENED"} => Given(v, verdict) = Active
           /\ Given(v, verdict) = "RESOLVED" => verdict = "CLEARED" \/ v.status = "RESOLVED"
<1>1. v.status \in Status
  BY DEF Row
<1>2. Active \in Status /\ "RESOLVED" \in Status /\ "MERGED" \in Exempt
      /\ Active # "MERGED" /\ Active # "RESOLVED"
  BY DEF Status, Advancing, Exempt, Active
<1> QED BY <1>1, <1>2 DEF Given

\* The row that an observation o gives to its defect, in the state l.
Updates(l, o, row) ==
    LET v == l.view[o.defect]
    IN  /\ o.defect \in Ids /\ v.status \notin Exempt \cup {"none"}
        /\ l.db[o.defect].version = v.version
        /\ row \in Row /\ row.slot = v.slot /\ row.version >= v.version
        /\ row.status # v.status => row.version > v.version
        /\ row.status \in {Given(v, o.verdict), "MERGED"}
        /\ row.status = "MERGED" => row.into \in Present(l.db)
        /\ row.status = Active => ActiveIn(l.db, row.slot) \subseteq {o.defect}
Skipped(l, o) == \/ l.fault # "none" \/ o.defect = 0 \/ o.verdict = "NEW"
                 \/ l.view[o.defect].status \in Exempt \cup {"none"}

LEMMA UpdateStep ==
    ASSUME NEW l \in Tx, NEW r \in Reports, NEW s \in Slots, NEW k, k = Update(l, r, s)
    PROVE  /\ k \in Tx /\ Aside(l, k)
           /\ \A t \in Slots : k.mem[t] = l.mem[t] \/ k.mem[t] \in Present(l.db)
           /\ \/ k = l /\ Skipped(l, l.seen[s])
              \/ SameRows(l, k) /\ k.fault = "retry" /\ l.fault = "none"
              \/ \E row \in Row : /\ Updates(l, l.seen[s], row) /\ l.fault = "none"
                                  /\ Wrote(l, k, l.seen[s].defect, row) /\ k.fault = "none"
<1> DEFINE o == l.seen[s]
           d == o.defect
           v == l.view[d]
           status == Given(v, o.verdict)
           rivals == Rivals(l.db, d, v, status)
           new == WithStatus(v, status, rivals)
           m == IF rivals = {} THEN l ELSE [l EXCEPT !.mem[s] = Smallest(rivals)]
<1>1. CASE Skipped(l, o)
  <2>1. k = l
    BY <1>1 DEF Update, Skipped
  <2> QED BY <1>1, <2>1 DEF Aside
<1>2. CASE ~Skipped(l, o)
  <2>1. d \in Ids /\ v \in Row /\ v.status \notin Exempt \cup {"none"} /\ l.fault = "none"
    BY <1>2 DEF Tx, Decision, Skipped
  <2>2. k = Rewrite(m, d, v, new, scan[r].moved)
    BY <1>2 DEF Update, Matched, Skipped
  <2>3. rivals \in SUBSET Ids /\ rivals \subseteq Present(l.db)
    BY DEF Rivals, ActiveIn, Present, Active
  <2>4. /\ status \in Status /\ status # "MERGED"
        /\ status = Active => ActiveIn(l.db, v.slot) \subseteq rivals \cup {d}
    <3>1. status \in Status /\ status # "MERGED"
      BY <2>1, GivenStatus
    <3>2. status = Active => ActiveIn(l.db, v.slot) \subseteq rivals \cup {d}
      BY DEF Rivals
    <3> QED BY <3>1, <3>2
  <2> HIDE DEF status, rivals
  <2>5. /\ new \in Row /\ new.slot = v.slot /\ new.version = v.version
        /\ new.status \in {status, "MERGED"}
        /\ new.status = "MERGED" => new.into \in rivals
        /\ new.status # "MERGED" => rivals = {}
    BY <2>1, <2>3, <2>4, StatusRow
  <2>6. rivals # {} => Smallest(rivals) \in rivals
    <3>1. rivals \subseteq Nat
      BY <2>3 DEF Ids
    <3> QED BY <3>1, HasSmallest
  <2>7. /\ m \in Tx /\ Aside(l, m) /\ SameRows(l, m) /\ m.fault = l.fault
        /\ \A t \in Slots : m.mem[t] = l.mem[t] \/ m.mem[t] \in Present(l.db)
    <3>1. CASE rivals = {}
      BY <3>1 DEF Aside, SameRows
    <3>2. CASE rivals # {}
      <4>1. m = [l EXCEPT !.mem[s] = Smallest(rivals)] /\ Smallest(rivals) \in Ids \cup {0}
        BY <3>2, <2>3, <2>6
      <4>2. m \in Tx /\ Aside(l, m) /\ SameRows(l, m) /\ m.fault = l.fault
        BY <4>1 DEF Tx, Aside, SameRows
      <4>3. \A t \in Slots : m.mem[t] = l.mem[t] \/ m.mem[t] = Smallest(rivals)
        BY <4>1 DEF Tx
      <4>4. Smallest(rivals) \in Present(l.db)
        BY <3>2, <2>3, <2>6
      <4> QED BY <4>2, <4>3, <4>4
    <3> QED BY <3>1, <3>2
  <2> HIDE DEF m, new
  <2>8. /\ Bumped(new) \in Row /\ Bumped(new).version = new.version + 1
        /\ Bumped(new).slot = new.slot /\ Bumped(new).status = new.status
        /\ Bumped(new).into = new.into
    BY <2>5, BumpedRow
  <2>9. SnapshotOf(v) \in Snapshot
    BY <2>1, SnapshotRow
  <2> HIDE DEF v, d, o
  <2>10. PICK row \in {new, Bumped(new)}, before \in {SnapshotOf(v), NoSnapshot} :
            /\ k = Write(m, d, row, before, "retry")
            /\ row.status # v.status => row = Bumped(new)
    BY <2>2, <2>8 DEF Rewrite
  <2>11. row \in Row
    BY <2>5, <2>8
  <2>12. /\ k \in Tx /\ Aside(m, k) /\ k.mem = m.mem
         /\ \/ SameRows(m, k) /\ k.fault = "retry"
            \/ /\ m.db[d].version = m.view[d].version
               /\ Wrote(m, k, d, row) /\ k.fault = m.fault
    BY <2>1, <2>7, <2>9, <2>10, <2>11, WriteStep
  <2>13. Aside(l, k) /\ \A t \in Slots : k.mem[t] = l.mem[t] \/ k.mem[t] \in Present(l.db)
    BY <2>7, <2>12 DEF Aside
  <2>14. CASE SameRows(m, k) /\ k.fault = "retry"
    BY <2>1, <2>7, <2>12, <2>13, <2>14 DEF SameRows, o
  <2>15. CASE m.db[d].version = m.view[d].version /\ Wrote(m, k, d, row) /\ k.fault = m.fault
    <3>1. Wrote(l, k, d, row) /\ k.fault = "none"
      BY <2>1, <2>7, <2>15 DEF Wrote, SameRows
    <3>2. /\ v = l.view[d] /\ l.db[d].version = v.version /\ d = o.defect
          /\ status = Given(v, o.verdict)
      BY <2>7, <2>15 DEF SameRows, v, d, status
    <3>3. v.version \in Nat
      BY <2>1 DEF Row
    <3>4. row.slot = v.slot /\ row.version >= v.version
      BY <2>5, <2>8, <2>10, <3>3
    <3>5. row.status # v.status => row.version > v.version
      BY <2>5, <2>8, <2>10, <3>3
    <3>6. row.status = new.status /\ row.into = new.into
      BY <2>8, <2>10
    <3>7. row.status = Active => ActiveIn(l.db, row.slot) \subseteq {d}
      BY <2>4, <2>5, <3>4, <3>6 DEF Active
    <3>8. Updates(l, o, row)
      BY <2>1, <2>3, <2>5, <2>11, <3>2, <3>4, <3>5, <3>6, <3>7 DEF Updates
    <3> QED BY <2>1, <2>11, <2>12, <2>13, <3>1, <3>2, <3>8 DEF o
  <2> QED BY <2>12, <2>14, <2>15
<1> QED BY <1>1, <1>2

Aging(v, n, m, st) == [v EXCEPT !.missed = n, !.dormant = m, !.status = st]
LEMMA AgingRow ==
    ASSUME NEW v \in Row, NEW st \in Status, NEW n, NEW m, {n, m} \subseteq Nat,
           NEW w, w = Aging(v, n, m, st)
    PROVE  /\ w \in Row /\ w.slot = v.slot /\ w.version = v.version
           /\ w.status = st /\ w.missed = n /\ w.dormant = m
  BY DEF Row, Aging

LEMMA AdvancedRow ==
    ASSUME NEW v \in Row, v.status \in Advancing, NEW covered \in BOOLEAN,
           NEW counts \in BOOLEAN, NEW new, new = Advanced(v, covered, counts)
    PROVE  /\ new \in Row /\ new.slot = v.slot /\ new.version = v.version
           /\ new.status \in Status \ (Exempt \cup {Active})
           /\ new.status = "RESOLVED" => /\ counts /\ new.missed = v.missed + 1
                                         /\ new.missed >= ResolvedRounds
<1>1. Severity[v.slot] \in {"high", "major", "minor"}
  BY LedgerAssumption DEF Row
<1> DEFINE Kept == Status \ (Exempt \cup {Active})
<1>2. /\ {"GAP", "PENDING", "RESOLVED", "DORMANT", "OBSOLETE"} \subseteq Kept
      /\ \A st \in Advancing : st # Active => st \in Kept /\ st # "RESOLVED"
  BY DEF Status, Exempt, Advancing, Active
<1>3. Kept \subseteq Status
  OBVIOUS
<1>4. {v.missed, v.dormant} \subseteq Nat /\ {v.missed + 1, v.dormant} \subseteq Nat
  BY DEF Row
<1> HIDE DEF Kept
<1>5. CASE counts
  <2>1. PICK st \in Kept : /\ st = NextStatus(v, TRUE, v.missed + 1)
                           /\ st = "RESOLVED" => v.missed + 1 >= ResolvedRounds
    BY <1>1, <1>2 DEF NextStatus
  <2>2. PICK m : m = Aging(v, v.missed + 1, v.dormant, st)
    OBVIOUS
  <2>3. Missed(v) = m
    BY <2>1, <2>2 DEF Missed, Row, Aging
  <2>4. /\ m \in Row /\ m.slot = v.slot /\ m.version = v.version
        /\ m.status = st /\ m.missed = v.missed + 1 /\ m.dormant = v.dormant
    BY <1>3, <1>4, <2>2, AgingRow
  <2>5. new = m \/ new = Aged(m)
    BY <1>5, <2>3 DEF Advanced
  <2>6. CASE new = m
    BY <1>5, <2>1, <2>4, <2>6 DEF Kept
  <2>7. CASE new = Aged(m) /\ st = "DORMANT"
    <3>1. PICK end \in Kept \ {"RESOLVED"} :
             new = Aging(m, m.missed, m.dormant + 1, end)
      <4>1. PICK end \in {"OBSOLETE", "DORMANT"} :
               new = [m EXCEPT !.dormant = m.dormant + 1, !.status = end]
        BY <2>4, <2>7 DEF Aged
      <4>2. new = Aging(m, m.missed, m.dormant + 1, end)
        BY <2>4, <4>1 DEF Row, Aging
      <4>3. end \in Kept /\ end # "RESOLVED"
        BY <1>2
      <4> QED BY <4>2, <4>3
    <3>2. {m.missed, m.dormant + 1} \subseteq Nat
      BY <1>4, <2>4
    <3>3. new \in Row /\ new.slot = m.slot /\ new.version = m.version /\ new.status = end
      BY <1>3, <2>4, <3>1, <3>2, AgingRow
    <3> QED BY <1>5, <2>4, <3>3 DEF Kept
  <2>8. CASE new = Aged(m) /\ st # "DORMANT"
    BY <2>4, <2>6, <2>8 DEF Aged
  <2> QED BY <2>5, <2>6, <2>7, <2>8
<1>6. CASE ~counts
  <2>1. PICK st \in Kept \ {"RESOLVED"} : st = NextStatus(v, FALSE, v.missed)
    BY <1>2 DEF NextStatus, Active
  <2>2. new = Aging(v, v.missed, v.dormant, st)
    BY <1>6, <2>1 DEF Advanced, Row, Aging
  <2>3. {v.missed, v.dormant} \subseteq Nat /\ st \in Status
    BY <1>3, <1>4, <2>1
  <2>4. new \in Row /\ new.slot = v.slot /\ new.version = v.version /\ new.status = st
    BY <2>2, <2>3, AgingRow
  <2> QED BY <2>1, <2>4 DEF Kept
<1> QED BY <1>5, <1>6

\* Why the row w of v is resolved, if no observation named it: the file is gone,
\* or it counts, and the defect was missed often enough.
Resolves(x, v, w) ==
    \/ Gone(x, v.slot)
    \/ /\ ~x.degraded /\ Counts(x, v.slot)
       /\ w.missed = v.missed + 1 /\ w.missed >= ResolvedRounds

\* The row that the absence of its defect from the scan x gives to v.
Advances(l, x, d, v, row) ==
    /\ v.status \in Advancing /\ d \notin l.matched
    /\ l.db[d].version = l.view[d].version
    /\ row \in Row /\ row.slot = v.slot /\ row.version = v.version + 1
    /\ row.status \in Status \ (Exempt \cup {Active})
    /\ row.status = "RESOLVED" => Resolves(x, v, row)

LEMMA AdvanceStep ==
    ASSUME NEW l \in Tx, NEW x, NEW d \in Ids, NEW v \in Row,
           NEW k, k = Advance(l, x, d, v)
    PROVE  /\ k \in Tx /\ Aside(l, k) /\ k.mem = l.mem
           /\ \/ k = l
              \/ SameRows(l, k) /\ k.fault \in {"retry", "fatal"}
              \/ \E row \in Row : /\ Advances(l, x, d, v, row) /\ l.fault = "none"
                                  /\ Wrote(l, k, d, row) /\ k.fault = "none"
<1>1. CASE l.fault # "none" \/ d \in l.matched \/ v.status \notin Advancing
  <2>1. k = l
    BY <1>1 DEF Advance
  <2> QED BY <2>1 DEF Aside
<1>2. CASE l.fault = "none" /\ d \notin l.matched /\ v.status \in Advancing
  <2>1. ASSUME NEW new \in Row, new.slot = v.slot, new.version = v.version,
               new.status \in Status \ (Exempt \cup {Active}),
               new.status = "RESOLVED" => Resolves(x, v, new),
               NEW before \in Snapshot \cup {NoSnapshot}, NEW fault \in {"retry", "fatal"},
               k = Write(l, d, Bumped(new), before, fault)
        PROVE  /\ k \in Tx /\ Aside(l, k) /\ k.mem = l.mem
               /\ \/ SameRows(l, k) /\ k.fault \in {"retry", "fatal"}
                  \/ \E row \in Row : /\ Advances(l, x, d, v, row) /\ l.fault = "none"
                                      /\ Wrote(l, k, d, row) /\ k.fault = "none"
    <3>1. /\ Bumped(new) \in Row /\ Bumped(new).version = new.version + 1
          /\ Bumped(new).slot = new.slot /\ Bumped(new).status = new.status
      BY BumpedRow
    <3>2. Bumped(new).missed = new.missed
      BY DEF Bumped, Row
    <3>3. new.status = "RESOLVED" => Resolves(x, v, Bumped(new))
      BY <2>1, <3>2 DEF Resolves
    <3>4. /\ k \in Tx /\ Aside(l, k) /\ k.mem = l.mem
          /\ \/ SameRows(l, k) /\ k.fault = fault
             \/ /\ l.db[d].version = l.view[d].version
                /\ Wrote(l, k, d, Bumped(new)) /\ k.fault = l.fault
      BY <2>1, <3>1, WriteStep
    <3>5. l.db[d].version = l.view[d].version => Advances(l, x, d, v, Bumped(new))
      BY <1>2, <2>1, <3>1, <3>3 DEF Advances
    <3> QED BY <1>2, <3>1, <3>4, <3>5
  <2>2. \A st \in Status : /\ [v EXCEPT !.status = st] \in Row
                           /\ [v EXCEPT !.status = st].slot = v.slot
                           /\ [v EXCEPT !.status = st].version = v.version
                           /\ [v EXCEPT !.status = st].status = st
    BY DEF Row
  <2>3. {"RESOLVED", "GAP"} \subseteq Status \ (Exempt \cup {Active}) /\ "GAP" # "RESOLVED"
    BY DEF Status, Advancing, Exempt, Active
  <2>3a. \A new, fault : \E before \in Snapshot \cup {NoSnapshot} :
            Snapped(l, d, v, new, fault) = Write(l, d, Bumped(new), before, fault)
    <3>1. v.status # "none"
      BY <1>2 DEF Advancing, Active
    <3>2. Bumped(v) \in Row /\ Bumped(v).status = v.status
      BY BumpedRow
    <3>3. SnapshotOf(Bumped(v)) \in Snapshot
      BY <3>1, <3>2, SnapshotRow
    <3> QED BY <3>3 DEF Snapped
  <2>4. CASE Gone(x, v.slot)
    <3>1. k = Snapped(l, d, v, [v EXCEPT !.status = "RESOLVED"], "fatal")
      BY <1>2, <2>4 DEF Advance
    <3> DEFINE new == [v EXCEPT !.status = "RESOLVED"]
    <3>2. Resolves(x, v, new)
      BY <2>4 DEF Resolves
    <3>3. /\ new \in Row /\ new.slot = v.slot /\ new.version = v.version
          /\ new.status \in Status \ (Exempt \cup {Active})
      BY <2>2, <2>3
    <3>4. k = Snapped(l, d, v, new, "fatal")
      BY <3>1
    <3> HIDE DEF new
    <3> QED BY <2>1, <2>3a, <3>2, <3>3, <3>4
  <2>5. CASE ~Gone(x, v.slot) /\ ~x.degraded
    <3> DEFINE new == Advanced(v, Covered(x, v.slot), Counts(x, v.slot))
    <3>1. k = Snapped(l, d, v, new, "fatal")
      BY <1>2, <2>5 DEF Advance
    <3>2. Covered(x, v.slot) \in BOOLEAN /\ Counts(x, v.slot) \in BOOLEAN
      BY DEF Covered, Counts
    <3>3. /\ new \in Row /\ new.slot = v.slot /\ new.version = v.version
          /\ new.status \in Status \ (Exempt \cup {Active})
          /\ new.status = "RESOLVED" => /\ Counts(x, v.slot) /\ new.missed = v.missed + 1
                                        /\ new.missed >= ResolvedRounds
      BY <1>2, <3>2, AdvancedRow
    <3> HIDE DEF new
    <3>4. new.status = "RESOLVED" => Resolves(x, v, new)
      BY <2>5, <3>3 DEF Resolves
    <3> QED BY <2>1, <2>3a, <3>1, <3>3, <3>4
  <2>6. CASE ~Gone(x, v.slot) /\ x.degraded /\ v.status = Active
    <3> DEFINE new == [v EXCEPT !.status = "GAP"]
    <3>1. k = Write(l, d, Bumped(new), SnapshotOf(Withheld(v)), "retry")
      BY <1>2, <2>6 DEF Advance, Withheld
    <3>2. /\ new \in Row /\ new.slot = v.slot /\ new.version = v.version
          /\ new.status = "GAP"
      BY <2>2, <2>3
    <3>3. SnapshotOf(Withheld(v)) \in Snapshot
      <4>1. Withheld(v) = Bumped(new)
        BY DEF Withheld
      <4> HIDE DEF new
      <4>2. Bumped(new) \in Row /\ Bumped(new).status # "none"
        BY <3>2, BumpedRow
      <4> QED BY <4>1, <4>2, SnapshotRow
    <3> HIDE DEF new
    <3> QED BY <2>1, <2>3, <3>1, <3>2, <3>3
  <2>7. CASE ~Gone(x, v.slot) /\ x.degraded /\ v.status # Active
    <3>1. k = l
      BY <1>2, <2>7 DEF Advance
    <3> QED BY <3>1 DEF Aside
  <2> QED BY <2>4, <2>5, <2>6, <2>7
<1> QED BY <1>1, <1>2

\* What the decision of the group of slot s leads to, in the state l: it is
\* taken as it is, a defect of the slot is reused, or a new one is made.
TookDecision(l, k, r, s) ==
    /\ SameRows(l, k) /\ k.next = l.next
    /\ decision[r][s].verdict # "NEW"
    /\ decision[r][s].defect # 0 => l.view[decision[r][s].defect].status # "none"
    /\ k.seen[s] = Redirected(l.view, decision[r][s], decision[r][s].verdict)
TookActive(l, k, s) ==
    /\ k.seen[s].defect \in ActiveIn(l.db, s) /\ k.seen[s].verdict \in {"NEW", "EXISTED"}
    /\ k.db = l.db /\ k.dirty = l.dirty /\ k.next = l.next
    /\ k.view = [l.view EXCEPT ![k.seen[s].defect] = l.db[k.seen[s].defect]]
TookNew(l, k, r, s) ==
    /\ l.next \in Ids /\ ActiveIn(l.db, s) = {}
    /\ k.seen[s] = [defect |-> l.next, verdict |-> "NEW"]
    /\ Wrote(l, k, l.next, NewRow(s, r)) /\ k.next = l.next + 1

Chose(l, k, r, s) ==
    /\ \A t \in Slots \ {s} : k.seen[t] = l.seen[t] /\ k.mem[t] = l.mem[t]
    /\ k.matched = l.matched \cup ({k.seen[s].defect} \ {0})
    /\ k.mem[s] = k.seen[s].defect
    /\ TookDecision(l, k, r, s) \/ TookActive(l, k, s) \/ TookNew(l, k, r, s)

LEMMA RedirectedType ==
    ASSUME NEW view \in [Ids -> Row], NEW o \in Decision, NEW asked
    PROVE  Redirected(view, o, asked) \in Decision
<1>1. ASSUME NEW status PROVE MatchedVerdict(status) \in Verdicts
  BY DEF MatchedVerdict, Verdicts
<1>2. o.defect # 0 => view[o.defect].into \in Ids \cup {0}
  BY DEF Decision, Row
<1> QED BY <1>1, <1>2 DEF Redirected, Decision

Recorded(l, k, s, o) ==
    /\ k.fault = l.fault /\ SameRows(l, k) /\ k.next = l.next
    /\ \A t \in Slots \ {s} : k.seen[t] = l.seen[t] /\ k.mem[t] = l.mem[t]
    /\ l.fault = "none" =>
          /\ k.seen[s] = o /\ k.mem[s] = o.defect
          /\ k.matched = l.matched \cup ({o.defect} \ {0})

LEMMA RecordStep ==
    ASSUME NEW l \in Tx, NEW s \in Slots, NEW o \in Decision, NEW k, k = Record(l, s, o)
    PROVE  k \in Tx /\ Recorded(l, k, s, o)
<1>1. CASE l.fault # "none"
  BY <1>1 DEF Record, Recorded, SameRows
<1>2. CASE l.fault = "none"
  <2>1. k = [l EXCEPT !.seen[s] = o, !.mem[s] = o.defect,
                      !.matched = @ \cup ({o.defect} \ {0})]
    BY <1>2 DEF Record
  <2>2. o.defect \in Ids \cup {0}
    BY DEF Decision
  <2>3. k \in Tx
    <3> DEFINE seen == [l.seen EXCEPT ![s] = o]
               mem == [l.mem EXCEPT ![s] = o.defect]
               matched == l.matched \cup ({o.defect} \ {0})
    <3>1. k = [l EXCEPT !.seen = seen, !.mem = mem, !.matched = matched]
      BY <2>1 DEF Tx
    <3>2. /\ seen \in [Slots -> Decision] /\ mem \in [Slots -> Ids \cup {0}]
          /\ matched \in SUBSET Ids
      BY <2>2 DEF Tx
    <3> HIDE DEF seen, mem, matched
    <3> QED BY <3>1, <3>2 DEF Tx
  <2>4. k.fault = l.fault /\ SameRows(l, k) /\ k.next = l.next
    BY <2>1 DEF Tx, SameRows
  <2>5. /\ k.seen = [l.seen EXCEPT ![s] = o] /\ k.mem = [l.mem EXCEPT ![s] = o.defect]
        /\ k.matched = l.matched \cup ({o.defect} \ {0})
    BY <2>1 DEF Tx
  <2>6. l.seen \in [Slots -> Decision] /\ l.mem \in [Slots -> Ids \cup {0}]
    BY DEF Tx
  <2> QED BY <2>3, <2>4, <2>5, <2>6 DEF Recorded
<1> QED BY <1>1, <1>2

Taken(l, k, s, d, row, verdict, new) ==
    /\ k.matched = l.matched /\ k.mem = l.mem
    /\ \A t \in Slots \ {s} : k.seen[t] = l.seen[t]
    /\ \/ k.fault = "bound"
       \/ /\ d \in Ids /\ k.fault = l.fault
          /\ k.seen[s] = [defect |-> d, verdict |-> verdict]
          /\ k.db = [l.db EXCEPT ![d] = row] /\ k.view = [l.view EXCEPT ![d] = row]
          /\ new => k.dirty = l.dirty \cup {d} /\ k.next = d + 1
          /\ ~new => k.dirty = l.dirty /\ k.next = l.next

LEMMA TakeStep ==
    ASSUME NEW l \in Tx, NEW s \in Slots, NEW d, d \in Nat \ {0}, NEW row \in Row,
           NEW verdict \in {"NEW", "EXISTED"}, NEW new \in BOOLEAN,
           NEW k, k = Take(l, s, d, row, verdict, new)
    PROVE  k \in Tx /\ Taken(l, k, s, d, row, verdict, new)
<1>1. CASE d \notin Ids
  <2>1. k = [l EXCEPT !.fault = "bound"]
    BY <1>1 DEF Take
  <2> QED BY <2>1 DEF Tx, Taken
<1>2. CASE d \in Ids
  <2> DEFINE n == IF new THEN d + 1 ELSE l.next
             e == IF new THEN l.dirty \cup {d} ELSE l.dirty
             o == [defect |-> d, verdict |-> verdict]
  <2>1. k = [l EXCEPT !.db[d] = row, !.view[d] = row, !.next = n, !.dirty = e, !.seen[s] = o]
    BY <1>2 DEF Take, Tx
  <2>2. n \in Nat \ {0} /\ e \in SUBSET Ids
    BY <1>2 DEF Tx
  <2>3. o \in Decision
    BY <1>2 DEF Decision, Verdicts
  <2>4. (new => e = l.dirty \cup {d} /\ n = d + 1) /\ (~new => e = l.dirty /\ n = l.next)
    OBVIOUS
  <2>5. o = [defect |-> d, verdict |-> verdict]
    OBVIOUS
  <2> HIDE DEF n, e, o
  <2>6. k \in Tx
    <3> DEFINE db == [l.db EXCEPT ![d] = row]
               view == [l.view EXCEPT ![d] = row]
               seen == [l.seen EXCEPT ![s] = o]
    <3>1. k = [l EXCEPT !.db = db, !.view = view, !.next = n, !.dirty = e, !.seen = seen]
      BY <2>1 DEF Tx
    <3>2. /\ seen \in [Slots -> Decision] /\ db \in [Ids -> Row] /\ view \in [Ids -> Row]
      BY <2>3 DEF Tx
    <3> HIDE DEF seen, db, view
    <3> QED BY <2>2, <3>1, <3>2 DEF Tx
  <2>7. /\ k.matched = l.matched /\ k.mem = l.mem /\ k.fault = l.fault
        /\ k.next = n /\ k.dirty = e
        /\ k.db = [l.db EXCEPT ![d] = row] /\ k.view = [l.view EXCEPT ![d] = row]
        /\ k.seen = [l.seen EXCEPT ![s] = o]
    BY <2>1 DEF Tx
  <2>8. l.seen \in [Slots -> Decision]
    BY DEF Tx
  <2> QED BY <1>2, <2>4, <2>5, <2>6, <2>7, <2>8 DEF Taken
<1> QED BY <1>1, <1>2

\* A new row, for a slot without an active defect.
LEMMA NewRowType ==
    ASSUME NEW s \in Slots, NEW r \in Reports
    PROVE  /\ NewRow(s, r) \in Row /\ NewRow(s, r).status = Active
           /\ NewRow(s, r).slot = s /\ NewRow(s, r).version = 1
<1>1. r \in Nat
  BY LedgerAssumption
<1> QED BY <1>1 DEF NewRow, Row, Status, Advancing, Active

TookRow(l, k, s, d, row, verdict, new) ==
    /\ \A t \in Slots \ {s} : k.seen[t] = l.seen[t] /\ k.mem[t] = l.mem[t]
    /\ k.fault = "none" =>
          /\ l.fault = "none" /\ d \in Ids
          /\ k.matched = l.matched \cup ({k.seen[s].defect} \ {0})
          /\ k.mem[s] = k.seen[s].defect
          /\ k.seen[s] = [defect |-> d, verdict |-> verdict]
          /\ k.db = [l.db EXCEPT ![d] = row] /\ k.view = [l.view EXCEPT ![d] = row]
          /\ new => k.dirty = l.dirty \cup {d} /\ k.next = d + 1
          /\ ~new => k.dirty = l.dirty /\ k.next = l.next

LEMMA ObserveStep ==
    ASSUME NEW l \in Tx, NEW r \in Reports, decision[r] \in [Slots -> Decision],
           NEW s \in Slots, NEW k, k = Observe(l, r, s)
    PROVE  /\ k \in Tx
           /\ \A t \in Slots \ {s} : k.seen[t] = l.seen[t] /\ k.mem[t] = l.mem[t]
           /\ k.fault = "none" =>
                 /\ l.fault = "none"
                 /\ k.matched = l.matched \cup ({k.seen[s].defect} \ {0})
                 /\ k.mem[s] = k.seen[s].defect
                 /\ TookDecision(l, k, r, s) \/ TookActive(l, k, s) \/ TookNew(l, k, r, s)
<1> DEFINE dec == decision[r][s]
           new == dec.verdict = "NEW" \/ (dec.defect # 0 /\ l.view[dec.defect].status = "none")
           m == IF new THEN Create(l, r, s) ELSE [l EXCEPT !.seen[s] = dec]
           o == Redirected(m.view, m.seen[s], dec.verdict)
<1>1. dec \in Decision
  OBVIOUS
<1>2. k = Record(m, s, o)
  BY DEF Observe, Settled
<1>3. ASSUME m \in Tx, m.matched = l.matched, m.mem = l.mem, m.fault = "none" => l.fault = "none",
             \A t \in Slots \ {s} : m.seen[t] = l.seen[t]
      PROVE  /\ k \in Tx
             /\ \A t \in Slots \ {s} : k.seen[t] = l.seen[t] /\ k.mem[t] = l.mem[t]
             /\ k.fault = m.fault /\ SameRows(m, k) /\ k.next = m.next
             /\ k.fault = "none" =>
                   /\ l.fault = "none" /\ k.seen[s] = o
                   /\ k.matched = l.matched \cup ({k.seen[s].defect} \ {0})
                   /\ k.mem[s] = k.seen[s].defect
  <2>1. o \in Decision
    <3>1. m.view \in [Ids -> Row] /\ m.seen[s] \in Decision
      BY <1>3 DEF Tx
    <3> HIDE DEF m
    <3> QED BY <3>1, RedirectedType
  <2> HIDE DEF m, o
  <2>2. m \in Tx
    BY <1>3
  <2>3. k \in Tx /\ Recorded(m, k, s, o)
    BY <1>2, <2>1, <2>2, RecordStep
  <2> QED BY <1>3, <2>3 DEF Recorded
<1>4. CASE ~new
  <2>1. m = [l EXCEPT !.seen[s] = dec]
    BY <1>4
  <2>2. m \in Tx
    <3> DEFINE seen == [l.seen EXCEPT ![s] = dec]
    <3>1. m = [l EXCEPT !.seen = seen]
      BY <2>1 DEF Tx
    <3>2. seen \in [Slots -> Decision]
      BY <1>1 DEF Tx
    <3> HIDE DEF seen, m
    <3> QED BY <3>1, <3>2 DEF Tx
  <2>3. /\ m.db = l.db /\ m.view = l.view /\ m.dirty = l.dirty /\ m.next = l.next
        /\ m.matched = l.matched /\ m.mem = l.mem /\ m.fault = l.fault
        /\ m.seen = [l.seen EXCEPT ![s] = dec] /\ l.seen \in [Slots -> Decision]
    BY <2>1 DEF Tx
  <2> HIDE DEF m
  <2>4. m.seen[s] = dec /\ \A t \in Slots \ {s} : m.seen[t] = l.seen[t]
    BY <2>3
  <2>5. o = Redirected(l.view, dec, dec.verdict)
    BY <2>3, <2>4
  <2> HIDE DEF o
  <2>6. /\ SameRows(m, k) /\ k.next = m.next /\ k.fault = m.fault
        /\ k \in Tx
        /\ \A t \in Slots \ {s} : k.seen[t] = l.seen[t] /\ k.mem[t] = l.mem[t]
        /\ k.fault = "none" =>
                   /\ l.fault = "none" /\ k.seen[s] = o
                   /\ k.matched = l.matched \cup ({k.seen[s].defect} \ {0})
                   /\ k.mem[s] = k.seen[s].defect
    BY <1>3, <2>2, <2>3, <2>4
  <2>7. k.fault = "none" => TookDecision(l, k, r, s)
    BY <1>4, <2>3, <2>5, <2>6 DEF TookDecision, SameRows
  <2> QED BY <2>6, <2>7
<1>5. ASSUME NEW d, d \in Nat \ {0}, NEW row \in Row, row.status = Active,
             NEW verdict \in {"NEW", "EXISTED"}, NEW isnew \in BOOLEAN,
             m = Take(l, s, d, row, verdict, isnew)
      PROVE  k \in Tx /\ TookRow(l, k, s, d, row, verdict, isnew)
  <2> HIDE DEF m
  <2>1. /\ m \in Tx /\ m.matched = l.matched /\ m.mem = l.mem
        /\ \A t \in Slots \ {s} : m.seen[t] = l.seen[t]
        /\ \/ m.fault = "bound"
           \/ /\ d \in Ids /\ m.fault = l.fault
              /\ m.seen[s] = [defect |-> d, verdict |-> verdict]
              /\ m.db = [l.db EXCEPT ![d] = row] /\ m.view = [l.view EXCEPT ![d] = row]
              /\ isnew => m.dirty = l.dirty \cup {d} /\ m.next = d + 1
              /\ ~isnew => m.dirty = l.dirty /\ m.next = l.next
    <3>1. m \in Tx /\ Taken(l, m, s, d, row, verdict, isnew)
      BY <1>5, TakeStep
    <3> QED BY <3>1 DEF Taken
  <2>2. m.fault = "none" => o = [defect |-> d, verdict |-> verdict]
    <3> SUFFICES ASSUME m.fault = "none" PROVE o = [defect |-> d, verdict |-> verdict]
      OBVIOUS
    <3>1. m.view[d] = row /\ m.seen[s] = [defect |-> d, verdict |-> verdict]
      BY <2>1 DEF Tx
    <3>2. m.view[m.seen[s].defect].status = Active
      BY <1>5, <3>1
    <3> QED BY <3>1, <3>2 DEF Redirected, Active
  <2> HIDE DEF o
  <2>3. /\ k \in Tx
        /\ \A t \in Slots \ {s} : k.seen[t] = l.seen[t] /\ k.mem[t] = l.mem[t]
        /\ k.fault = m.fault /\ SameRows(m, k) /\ k.next = m.next
        /\ k.fault = "none" =>
              /\ l.fault = "none" /\ k.seen[s] = o
              /\ k.matched = l.matched \cup ({k.seen[s].defect} \ {0})
              /\ k.mem[s] = k.seen[s].defect
    BY <1>3, <2>1
  <2> QED BY <2>1, <2>2, <2>3 DEF SameRows, TookRow
<1>6. CASE new /\ ActiveIn(l.db, s) = {}
  <2>1. m = Take(l, s, l.next, NewRow(s, r), "NEW", TRUE)
    BY <1>6 DEF Create
  <2>2. l.next \in Nat \ {0}
    BY DEF Tx
  <2> HIDE DEF m
  <2>3. k \in Tx /\ TookRow(l, k, s, l.next, NewRow(s, r), "NEW", TRUE)
    BY <1>5, <2>1, <2>2, NewRowType
  <2> QED BY <1>6, <2>3 DEF TookNew, TookRow, Wrote
<1>7. CASE new /\ ActiveIn(l.db, s) # {}
  <2> DEFINE d == Smallest(ActiveIn(l.db, s))
  <2>1. d \in ActiveIn(l.db, s)
    <3>1. ActiveIn(l.db, s) \subseteq Nat
      BY DEF ActiveIn, Ids
    <3> QED BY <1>7, <3>1, HasSmallest
  <2>2. PICK verdict \in {"NEW", "EXISTED"} : m = Take(l, s, d, l.db[d], verdict, FALSE)
    BY <1>7 DEF Create, Reuse, MatchedVerdict
  <2> HIDE DEF m, d
  <2>3. d \in Ids /\ d \in Nat \ {0} /\ l.db[d] \in Row /\ l.db[d].status = Active
    <3>1. d \in Ids /\ l.db[d].status = Active
      BY <2>1 DEF ActiveIn
    <3>2. l.db \in [Ids -> Row]
      BY DEF Tx
    <3>3. d \in Nat \ {0}
      BY <3>1 DEF Ids
    <3> QED BY <3>1, <3>2, <3>3
  <2>4. k \in Tx /\ TookRow(l, k, s, d, l.db[d], verdict, FALSE)
    BY <1>5, <2>2, <2>3
  <2>5. [l.db EXCEPT ![d] = l.db[d]] = l.db
    BY DEF Tx
  <2> QED BY <2>1, <2>4, <2>5 DEF TookActive, TookRow
<1> QED BY <1>4, <1>6, <1>7

-----------------------------------------------------------------------------
(* What the fold keeps, first of all for a report that was not committed   *)
(* before. db0 are the rows as the transaction found them, view0 the       *)
(* copies it loaded when it began.                                         *)

\* w is v, or a later version of it that nobody had closed or merged.
Grown(v, w) ==
    \/ w = v
    \/ /\ v.status \notin Exempt
       /\ v.status # "none" =>
             /\ w.slot = v.slot /\ w.version >= v.version
             /\ w.status # v.status => w.version > v.version
Apart(db0, view0, k) ==
    /\ IndexHolds(k.db)
    /\ \A d \in Ids :
          /\ db0[d].status # "none" => k.db[d].status # "none"
          /\ k.db[d].status = "none" <=> k.view[d].status = "none"
          /\ k.view[d].version = k.db[d].version => k.view[d] = k.db[d]
          /\ k.view[d] = view0[d] \/ k.view[d] = k.db[d]
          /\ Grown(db0[d], k.db[d])

\* What a step may write: the row of a free place in the index, new or made
\* of the version the transaction loaded.
Fits(l, d, row) ==
    /\ d \in Ids /\ row \in Row /\ row.status # "none"
    /\ row.status = Active => ActiveIn(l.db, row.slot) \subseteq {d}
    /\ l.db[d].status # "none" =>
          /\ l.db[d].version = l.view[d].version
          /\ l.view[d].status \notin Exempt
          /\ row.slot = l.view[d].slot /\ row.version >= l.view[d].version
          /\ row.status # l.view[d].status => row.version > l.view[d].version

LEMMA GrownTwice ==
    ASSUME NEW u \in Row, NEW v \in Row, NEW w \in Row, Grown(u, v), Grown(v, w),
           u.status # "none" => v.status # "none"
    PROVE  Grown(u, w)
  BY DEF Grown, Row

LEMMA ApartWrite ==
    ASSUME NEW db0 \in [Ids -> Row], NEW view0, NEW l \in Tx, Apart(db0, view0, l),
           NEW d, NEW row, Fits(l, d, row), NEW k \in Tx, Wrote(l, k, d, row)
    PROVE  Apart(db0, view0, k)
<1>1. /\ d \in Ids /\ row \in Row /\ row.status # "none"
      /\ row.status = Active => ActiveIn(l.db, row.slot) \subseteq {d}
  BY DEF Fits
<1>2. l.db \in [Ids -> Row] /\ l.view \in [Ids -> Row]
  BY DEF Tx
<1>3. /\ k.db = [l.db EXCEPT ![d] = row] /\ k.view = [l.view EXCEPT ![d] = row]
  BY DEF Wrote
<1>4. /\ k.db[d] = row /\ k.view[d] = row
      /\ \A c \in Ids \ {d} : k.db[c] = l.db[c] /\ k.view[c] = l.view[c]
  BY <1>1, <1>2, <1>3
<1>5. IndexHolds(k.db)
  <2>1. IndexHolds(l.db)
    BY DEF Apart
  <2>2. CASE row.status = Active
    BY <1>1, <1>2, <1>3, <2>1, <2>2, FreeSlotKeepsIndex
  <2>3. CASE row.status # Active
    BY <1>1, <1>2, <1>3, <2>1, <2>3, InactiveKeepsIndex
  <2> QED BY <2>2, <2>3
<1>6. Grown(l.db[d], row)
  <2>1. CASE l.db[d].status = "none"
    BY <2>1 DEF Grown, Exempt
  <2>2. CASE l.db[d].status # "none"
    <3>1. l.view[d] = l.db[d]
      BY <1>1, <2>2 DEF Fits, Apart
    <3> QED BY <2>2, <3>1 DEF Fits, Grown
  <2> QED BY <2>1, <2>2
<1>7. Grown(db0[d], row)
  <2>1. Grown(db0[d], l.db[d]) /\ (db0[d].status # "none" => l.db[d].status # "none")
    BY <1>1 DEF Apart
  <2> QED BY <1>1, <1>2, <1>6, <2>1, GrownTwice
<1>8. ASSUME NEW c \in Ids
      PROVE  /\ db0[c].status # "none" => k.db[c].status # "none"
             /\ k.db[c].status = "none" <=> k.view[c].status = "none"
             /\ k.view[c].version = k.db[c].version => k.view[c] = k.db[c]
             /\ k.view[c] = view0[c] \/ k.view[c] = k.db[c]
             /\ Grown(db0[c], k.db[c])
  <2>1. CASE c = d
    BY <1>1, <1>4, <1>7, <2>1
  <2>2. CASE c # d
    BY <1>4, <2>2 DEF Apart
  <2> QED BY <2>1, <2>2
<1> QED BY <1>5, <1>8 DEF Apart

LEMMA ApartSame ==
    ASSUME NEW db0, NEW view0, NEW l, NEW k, Apart(db0, view0, l), SameRows(l, k)
    PROVE  Apart(db0, view0, k)
  BY DEF Apart, SameRows

LEMMA ApartObserve ==
    ASSUME NEW db0 \in [Ids -> Row], NEW view0, NEW l \in Tx, Apart(db0, view0, l),
           NEW r \in Reports, NEW s \in Slots, NEW k \in Tx,
           \A d \in Ids : d >= l.next => l.db[d].status = "none",
           Chose(l, k, r, s)
    PROVE  Apart(db0, view0, k)
<1>1. CASE TookDecision(l, k, r, s)
  BY <1>1, ApartSame DEF TookDecision
<1>2. CASE TookActive(l, k, s)
  <2> DEFINE d == k.seen[s].defect
  <2>1. d \in Ids /\ k.db = l.db /\ k.view = [l.view EXCEPT ![d] = l.db[d]]
    BY <1>2 DEF TookActive, ActiveIn
  <2>2. l.view \in [Ids -> Row]
    BY DEF Tx
  <2> HIDE DEF d
  <2>3. \A c \in Ids : k.view[c] = l.view[c] \/ k.view[c] = l.db[c]
    BY <2>1, <2>2
  <2> QED BY <2>1, <2>3 DEF Apart
<1>3. CASE TookNew(l, k, r, s)
  <2>1. l.next \in Ids /\ ActiveIn(l.db, s) = {} /\ Wrote(l, k, l.next, NewRow(s, r))
    BY <1>3 DEF TookNew
  <2>2. l.db[l.next].status = "none"
    BY <2>1 DEF Ids
  <2>3. NewRow(s, r) \in Row /\ NewRow(s, r).status = Active /\ NewRow(s, r).slot = s
    BY NewRowType
  <2>4. Fits(l, l.next, NewRow(s, r))
    BY <2>1, <2>2, <2>3 DEF Fits, Active
  <2> QED BY <2>1, <2>4, ApartWrite
<1> QED BY <1>1, <1>2, <1>3 DEF Chose

LEMMA UpdateFits ==
    ASSUME NEW l \in Tx, NEW o, NEW row \in Row, Updates(l, o, row)
    PROVE  Fits(l, o.defect, row)
<1>1. l.view[o.defect] \in Row /\ l.view[o.defect].status \notin Exempt \cup {"none"}
  BY DEF Updates, Tx
<1>2. Given(l.view[o.defect], o.verdict) \in Status
  BY <1>1, GivenStatus
<1>3. row.status # "none"
  BY <1>2 DEF Updates, Status, Exempt, Advancing, Active
<1> QED BY <1>1, <1>3 DEF Updates, Fits

LEMMA AdvanceFits ==
    ASSUME NEW l \in Tx, NEW x, NEW d \in Ids, NEW row \in Row,
           Advances(l, x, d, l.view[d], row)
    PROVE  Fits(l, d, row)
<1>1. l.view[d] \in Row /\ l.view[d].version \in Nat
  BY DEF Tx, Row
<1>2. row.status # "none" /\ row.status # Active
  BY DEF Advances, Status, Exempt, Advancing, Active
<1>3. l.view[d].status \notin Exempt
  BY DEF Advances, Exempt, Advancing, Active
<1> QED BY <1>1, <1>2, <1>3 DEF Advances, Fits

\* What holds for every report, after the groups S were observed and the
\* defects A advanced: rows that are not dirty are as they were, those that
\* neither an observation nor a round reached were not even loaded again.
Basic(r, S, A, db0, view0, k) ==
    /\ \A d \in Ids \ k.dirty : k.db[d] = defect[d]
    /\ \A d \in Ids : d >= k.next => k.db[d].status = "none" /\ k.view[d].status = "none"
    /\ \A s \in S :
          /\ k.seen[s].verdict \in Verdicts /\ k.seen[s].defect \in k.matched \cup {0}
          /\ k.seen[s].verdict = "CLEARED" => decision[r][s].verdict = "CLEARED"
    /\ \A d \in Ids \ (k.matched \cup A) : k.db[d] = db0[d] /\ k.view[d] = view0[d]

LEMMA BasicSame ==
    ASSUME NEW r, NEW S, NEW A, NEW B, A \subseteq B, NEW db0, NEW view0, NEW l, NEW k,
           Basic(r, S, A, db0, view0, l), SameRows(l, k), Aside(l, k)
    PROVE  Basic(r, S, B, db0, view0, k)
  BY DEF Basic, SameRows, Aside

LEMMA BasicWrite ==
    ASSUME NEW r, NEW S, NEW A, NEW B, A \subseteq B, NEW db0, NEW view0, NEW l \in Tx, NEW k,
           Basic(r, S, A, db0, view0, l), NEW d \in Ids, NEW row, Wrote(l, k, d, row),
           Aside(l, k), d \in l.matched \cup B, l.view[d].status # "none"
    PROVE  Basic(r, S, B, db0, view0, k)
<1>1. ~(d >= l.next)
  BY DEF Basic
<1>2. /\ k.db[d] = row /\ k.view[d] = row
      /\ \A c \in Ids \ {d} : k.db[c] = l.db[c] /\ k.view[c] = l.view[c]
  BY DEF Tx, Wrote
<1>3. k.dirty = l.dirty \cup {d} /\ k.matched = l.matched /\ k.seen = l.seen /\ k.next = l.next
  BY DEF Wrote, Aside
<1>4. \A c \in Ids \ k.dirty : k.db[c] = defect[c]
  BY <1>2, <1>3 DEF Basic
<1>5. \A c \in Ids : c >= k.next => k.db[c].status = "none" /\ k.view[c].status = "none"
  BY <1>1, <1>2, <1>3 DEF Basic
<1>6. \A c \in Ids \ (k.matched \cup B) : k.db[c] = db0[c] /\ k.view[c] = view0[c]
  BY <1>2, <1>3 DEF Basic
<1> QED BY <1>3, <1>4, <1>5, <1>6 DEF Basic

LEMMA CertainRedirect ==
    ASSUME NEW view, NEW o \in Decision, o.verdict # "none"
    PROVE  LET n == Redirected(view, o, o.verdict)
           IN  /\ n.verdict \in Verdicts
               /\ n.verdict = "CLEARED" => o.verdict = "CLEARED"
<1>1. ASSUME NEW status PROVE MatchedVerdict(status) \in Verdicts \ {"CLEARED"}
  BY DEF MatchedVerdict, Verdicts
<1>2. o.verdict \in Verdicts
  BY DEF Decision
<1> QED BY <1>1, <1>2 DEF Redirected

LEMMA BasicObserve ==
    ASSUME NEW r \in Reports, decision[r] \in [Slots -> Decision],
           NEW S \in SUBSET Slots, NEW s \in S, decision[r][s].verdict # "none",
           NEW db0, NEW view0, NEW l \in Tx, Basic(r, S \ {s}, {}, db0, view0, l),
           NEW k \in Tx, Chose(l, k, r, s)
    PROVE  Basic(r, S, {}, db0, view0, k)
<1>1. /\ k.seen[s].verdict \in Verdicts
      /\ k.seen[s].verdict = "CLEARED" => decision[r][s].verdict = "CLEARED"
  <2>1. CASE TookDecision(l, k, r, s)
    BY <2>1, CertainRedirect DEF TookDecision
  <2>2. CASE TookActive(l, k, s) \/ TookNew(l, k, r, s)
    BY <2>2 DEF TookActive, TookNew, Verdicts
  <2> QED BY <2>1, <2>2 DEF Chose
<1>2. k.matched = l.matched \cup ({k.seen[s].defect} \ {0})
  BY DEF Chose
<1>3. \A t \in S : /\ k.seen[t].verdict \in Verdicts /\ k.seen[t].defect \in k.matched \cup {0}
                   /\ k.seen[t].verdict = "CLEARED" => decision[r][t].verdict = "CLEARED"
  BY <1>1, <1>2 DEF Basic, Chose
<1>4. ASSUME /\ \A d \in Ids \ k.dirty : k.db[d] = defect[d]
             /\ \A d \in Ids : d >= k.next => k.db[d].status = "none" /\ k.view[d].status = "none"
             /\ \A d \in Ids \ k.matched : k.db[d] = l.db[d] /\ k.view[d] = l.view[d]
      PROVE  Basic(r, S, {}, db0, view0, k)
  <2>1. \A d \in Ids \ (k.matched \cup {}) : k.db[d] = db0[d] /\ k.view[d] = view0[d]
    BY <1>2, <1>4 DEF Basic
  <2> QED BY <1>3, <1>4, <2>1 DEF Basic
<1>5. l.db \in [Ids -> Row] /\ l.view \in [Ids -> Row] /\ l.next \in Nat \ {0}
  BY DEF Tx
<1>6. CASE TookDecision(l, k, r, s)
  <2>1. SameRows(l, k) /\ k.next = l.next
    BY <1>6 DEF TookDecision
  <2> QED BY <1>4, <2>1 DEF Basic, SameRows
<1>7. CASE TookActive(l, k, s)
  <2> DEFINE d == k.seen[s].defect
  <2>1. /\ d \in Ids /\ k.db = l.db /\ k.view = [l.view EXCEPT ![d] = l.db[d]]
        /\ l.db[d].status = Active
        /\ k.dirty = l.dirty /\ k.next = l.next
    BY <1>7 DEF TookActive, ActiveIn
  <2>2. d \in k.matched
    BY <1>2, <2>1 DEF Ids
  <2> HIDE DEF d
  <2>3. \A c \in Ids \ {d} : k.view[c] = l.view[c]
    BY <1>5, <2>1
  <2>4. ~(d >= l.next)
    BY <2>1 DEF Basic, Active
  <2> QED BY <1>4, <2>1, <2>2, <2>3, <2>4 DEF Basic
<1>8. CASE TookNew(l, k, r, s)
  <2>1. /\ l.next \in Ids /\ k.seen[s].defect = l.next /\ k.next = l.next + 1
        /\ k.db = [l.db EXCEPT ![l.next] = NewRow(s, r)]
        /\ k.view = [l.view EXCEPT ![l.next] = NewRow(s, r)]
        /\ k.dirty = l.dirty \cup {l.next}
    BY <1>8 DEF TookNew, Wrote
  <2>2. \A c \in Ids \ {l.next} : k.db[c] = l.db[c] /\ k.view[c] = l.view[c]
    BY <1>5, <2>1
  <2>3. l.next \in k.matched
    BY <1>2, <1>5, <2>1
  <2>4. \A c \in Ids \ k.dirty : k.db[c] = defect[c]
    BY <2>1, <2>2 DEF Basic
  <2>5. \A c \in Ids : c >= k.next => c >= l.next /\ c # l.next
    BY <1>5, <2>1 DEF Ids
  <2>6. \A c \in Ids : c >= k.next => k.db[c].status = "none" /\ k.view[c].status = "none"
    BY <2>2, <2>5 DEF Basic
  <2> QED BY <1>4, <2>2, <2>3, <2>4, <2>6
<1> QED BY <1>6, <1>7, <1>8 DEF Chose

\* What the rows, the observations and the memory of the transaction name is
\* there, as long as no commit was taken back.
Refs(S, k) ==
    /\ \A d \in Ids : k.db[d].status = "MERGED" => k.db[d].into \in Present(k.db)
    /\ \A d \in Ids : k.view[d].status = "MERGED" => k.view[d].into \in Present(k.db)
    /\ \A s \in S : k.seen[s].defect \in Present(k.db) \cup {0}
    /\ \A s \in Slots : k.mem[s] \in Present(k.db) \cup {0}
\* A finding is bound to a defect that its observation will open, or to one
\* that is open already, or nobody is sure.
Bound(r, S, k) == \A s \in S \cap scan[r].found :
    \/ k.seen[s].verdict = "PROBABLE"
    \/ /\ k.seen[s].defect # 0
       /\ \/ k.seen[s].verdict \in {"EXISTED", "REOPENED"}
          \/ k.db[k.seen[s].defect].status = Active
\* What the matching may decide for a finding.
Sure(r, s) == s \in scan[r].found =>
    /\ decision[r][s].verdict \in {"NEW", "EXISTED", "REOPENED", "PROBABLE"}
    /\ decision[r][s].defect = 0 => decision[r][s].verdict \in {"NEW", "PROBABLE"}

LEMMA RefsSame ==
    ASSUME NEW S, NEW l, NEW k, Refs(S, l), SameRows(l, k), Aside(l, k),
           \A t \in Slots : k.mem[t] = l.mem[t] \/ k.mem[t] \in Present(l.db)
    PROVE  Refs(S, k)
  BY DEF Refs, SameRows, Aside

LEMMA RefsWrite ==
    ASSUME NEW S, NEW l \in Tx, NEW k, Refs(S, l), NEW d \in Ids, NEW row,
           row.status # "none", row.status = "MERGED" => row.into \in Present(l.db),
           Wrote(l, k, d, row), Aside(l, k),
           \A t \in Slots : k.mem[t] = l.mem[t] \/ k.mem[t] \in Present(l.db)
    PROVE  Refs(S, k)
<1>1. /\ k.db[d] = row /\ k.view[d] = row
      /\ \A c \in Ids \ {d} : k.db[c] = l.db[c] /\ k.view[c] = l.view[c]
  BY DEF Tx, Wrote
<1>2. Present(l.db) \subseteq Present(k.db)
  BY <1>1 DEF Present
<1>3. \A c \in Ids : k.db[c].status = "MERGED" => k.db[c].into \in Present(k.db)
  BY <1>1, <1>2 DEF Refs
<1>4. \A c \in Ids : k.view[c].status = "MERGED" => k.view[c].into \in Present(k.db)
  BY <1>1, <1>2 DEF Refs
<1>5. k.seen = l.seen
  BY DEF Aside
<1> QED BY <1>2, <1>3, <1>4, <1>5 DEF Refs

LEMMA RefsObserve ==
    ASSUME NEW r \in Reports, decision[r] \in [Slots -> Decision],
           NEW S \in SUBSET Slots, NEW s \in S,
           NEW db0, NEW view0, NEW l \in Tx, Apart(db0, view0, l), Refs(S \ {s}, l),
           NEW k \in Tx, Chose(l, k, r, s)
    PROVE  Refs(S, k)
<1>1. l.db \in [Ids -> Row] /\ l.view \in [Ids -> Row]
  BY DEF Tx
<1>2. ASSUME Present(l.db) \subseteq Present(k.db), k.seen[s].defect \in Present(k.db) \cup {0},
             \A d \in Ids : k.db[d].status = "MERGED" => k.db[d] = l.db[d],
             \A d \in Ids : k.view[d].status = "MERGED" => k.view[d] = l.view[d]
      PROVE  Refs(S, k)
  <2>1. \A t \in S : k.seen[t].defect \in Present(k.db) \cup {0}
    BY <1>2 DEF Refs, Chose
  <2>2. \A t \in Slots : k.mem[t] \in Present(k.db) \cup {0}
    BY <1>2 DEF Refs, Chose
  <2> QED BY <1>2, <2>1, <2>2 DEF Refs
<1>3. CASE TookDecision(l, k, r, s)
  <2> DEFINE dec == decision[r][s]
  <2>1. /\ SameRows(l, k)
        /\ dec.defect # 0 => l.view[dec.defect].status # "none"
        /\ k.seen[s] = Redirected(l.view, dec, dec.verdict)
    BY <1>3 DEF TookDecision
  <2>2. dec.defect \in Ids \cup {0}
    BY DEF Decision
  <2>3. dec.defect \in Present(l.db) \cup {0}
    <3>1. \A d \in Ids : l.db[d].status = "none" <=> l.view[d].status = "none"
      BY DEF Apart
    <3> HIDE DEF dec
    <3> QED BY <2>1, <2>2, <3>1 DEF Present
  <2>4. \/ k.seen[s].defect = dec.defect
        \/ /\ l.view[dec.defect].status = "MERGED" /\ dec.defect # 0
           /\ k.seen[s].defect = l.view[dec.defect].into
    BY <2>1 DEF Redirected
  <2>5. k.seen[s].defect \in Present(l.db) \cup {0}
    BY <2>2, <2>3, <2>4 DEF Refs
  <2>6. k.db = l.db /\ k.view = l.view
    BY <2>1 DEF SameRows
  <2>7. k.seen[s].defect \in Present(k.db) \cup {0}
    BY <2>5, <2>6
  <2> HIDE DEF dec
  <2> QED BY <1>2, <2>6, <2>7
<1>4. CASE TookActive(l, k, s)
  <2> DEFINE d == k.seen[s].defect
  <2>1. /\ d \in Ids /\ k.db = l.db /\ k.view = [l.view EXCEPT ![d] = l.db[d]]
        /\ l.db[d].status = Active
    BY <1>4 DEF TookActive, ActiveIn
  <2>2. d \in Present(k.db)
    BY <2>1 DEF Present, Active
  <2>3. \A c \in Ids : k.view[c] = l.view[c] \/ k.view[c].status = Active
    BY <1>1, <2>1
  <2> QED BY <1>2, <2>1, <2>2, <2>3 DEF Active
<1>5. CASE TookNew(l, k, r, s)
  <2>1. /\ l.next \in Ids /\ k.seen[s].defect = l.next
        /\ k.db = [l.db EXCEPT ![l.next] = NewRow(s, r)]
        /\ k.view = [l.view EXCEPT ![l.next] = NewRow(s, r)]
        /\ NewRow(s, r).status = Active
    BY <1>5, NewRowType DEF TookNew, Wrote
  <2>2. /\ k.db[l.next].status = Active /\ k.view[l.next].status = Active
        /\ \A c \in Ids \ {l.next} : k.db[c] = l.db[c] /\ k.view[c] = l.view[c]
    BY <1>1, <2>1
  <2>3. Present(l.db) \subseteq Present(k.db) /\ l.next \in Present(k.db)
    BY <2>1, <2>2 DEF Present, Active
  <2> QED BY <1>2, <2>1, <2>2, <2>3 DEF Active
<1> QED BY <1>3, <1>4, <1>5 DEF Chose

LEMMA BoundObserve ==
    ASSUME NEW r \in Reports, decision[r] \in [Slots -> Decision],
           NEW S \in SUBSET Slots, NEW s \in S, Sure(r, s),
           NEW db0, NEW view0, NEW l \in Tx, Apart(db0, view0, l), Refs(S \ {s}, l),
           Bound(r, S \ {s}, l), Basic(r, S \ {s}, {}, db0, view0, l),
           NEW k \in Tx, Chose(l, k, r, s)
    PROVE  Bound(r, S, k)
<1>1. l.db \in [Ids -> Row] /\ l.view \in [Ids -> Row]
  BY DEF Tx
<1>2. ASSUME \A d \in Ids : l.db[d].status = Active => k.db[d] = l.db[d],
             s \in scan[r].found =>
                \/ k.seen[s].verdict = "PROBABLE"
                \/ /\ k.seen[s].defect # 0
                   /\ \/ k.seen[s].verdict \in {"EXISTED", "REOPENED"}
                      \/ k.db[k.seen[s].defect].status = Active
      PROVE  Bound(r, S, k)
  <2>1. ASSUME NEW t \in (S \ {s}) \cap scan[r].found
        PROVE  \/ k.seen[t].verdict = "PROBABLE"
               \/ /\ k.seen[t].defect # 0
                  /\ \/ k.seen[t].verdict \in {"EXISTED", "REOPENED"}
                     \/ k.db[k.seen[t].defect].status = Active
    <3>1. k.seen[t] = l.seen[t] /\ l.seen[t].defect \in Ids \cup {0}
      BY DEF Tx, Decision, Chose
    <3> QED BY <1>2, <3>1 DEF Bound
  <2> QED BY <1>2, <2>1 DEF Bound
<1>3. CASE TookDecision(l, k, r, s)
  <2> DEFINE dec == decision[r][s]
  <2>1. /\ SameRows(l, k) /\ dec.verdict # "NEW"
        /\ k.seen[s] = Redirected(l.view, dec, dec.verdict)
    BY <1>3 DEF TookDecision
  <2>2. ASSUME s \in scan[r].found
        PROVE  \/ k.seen[s].verdict = "PROBABLE"
               \/ k.seen[s].defect # 0 /\ k.seen[s].verdict \in {"EXISTED", "REOPENED"}
    <3>1. /\ dec.verdict \in {"EXISTED", "REOPENED", "PROBABLE"}
          /\ dec.defect = 0 => dec.verdict = "PROBABLE"
      BY <2>1, <2>2 DEF Sure
    <3>2. CASE k.seen[s] = dec
      BY <3>1, <3>2
    <3>3. CASE k.seen[s] # dec
      <4> DEFINE to == l.view[dec.defect].into
      <4>1. /\ dec.defect # 0 /\ l.view[dec.defect].status = "MERGED" /\ to # 0
            /\ k.seen[s] = [defect |-> to,
                            verdict |-> IF l.view[to].status # "none"
                                        THEN MatchedVerdict(l.view[to].status)
                                        ELSE dec.verdict]
        BY <2>1, <3>1, <3>3 DEF Redirected
      <4>2. dec.defect \in Ids
        BY <4>1 DEF Decision
      <4>3. to \in Present(l.db)
        BY <4>1, <4>2 DEF Refs
      <4>4. l.view[to].status # "none" /\ l.view[to] \in Row
        BY <1>1, <4>3 DEF Apart, Present
      <4>5. MatchedVerdict(l.view[to].status) \in {"EXISTED", "REOPENED", "PROBABLE"}
        BY DEF MatchedVerdict
      <4> HIDE DEF to, dec
      <4>6. k.seen[s].defect = to /\ k.seen[s].verdict = MatchedVerdict(l.view[to].status)
        BY <4>1, <4>4
      <4> QED BY <4>1, <4>5, <4>6
    <3> QED BY <3>2, <3>3
  <2> QED BY <1>2, <2>1, <2>2 DEF SameRows
<1>4. CASE TookActive(l, k, s)
  <2>1. k.db = l.db /\ k.seen[s].defect \in Ids /\ l.db[k.seen[s].defect].status = Active
    BY <1>4 DEF TookActive, ActiveIn
  <2>2. k.seen[s].defect # 0
    BY <2>1 DEF Ids
  <2> QED BY <1>2, <2>1, <2>2
<1>5. CASE TookNew(l, k, r, s)
  <2>1. /\ l.next \in Ids /\ k.seen[s].defect = l.next
        /\ k.db = [l.db EXCEPT ![l.next] = NewRow(s, r)]
        /\ NewRow(s, r).status = Active
    BY <1>5, NewRowType DEF TookNew, Wrote
  <2>2. l.db[l.next].status = "none" /\ l.next # 0
    BY <2>1 DEF Ids, Basic
  <2>3. /\ k.db[l.next].status = Active
        /\ \A c \in Ids : l.db[c].status = Active => k.db[c] = l.db[c]
    BY <1>1, <2>1, <2>2 DEF Active
  <2> QED BY <1>2, <2>1, <2>2, <2>3
<1> QED BY <1>3, <1>4, <1>5 DEF Chose

\* Where the findings of the groups S stand when the groups T have updated
\* their defects: FindingsLand, with those that are still to come.
Landed(r, S, T, view0, k) == \A s \in S \cap scan[r].found :
    \/ k.seen[s].verdict = "PROBABLE"
    \/ \E t \in S : k.seen[t].defect = k.seen[s].defect /\ k.seen[t].verdict = "CLEARED"
    \/ /\ k.seen[s].defect # 0
       /\ \/ view0[k.seen[s].defect].status \in Exempt
          \/ k.db[k.seen[s].defect].status \in {Active} \cup Exempt
          \/ s \notin T /\ k.seen[s].verdict \in {"EXISTED", "REOPENED"}

LEMMA LandedUpdate ==
    ASSUME NEW r \in Reports, NEW S \in SUBSET Slots, NEW T \in SUBSET S, NEW s \in T,
           NEW db0, NEW view0, NEW l \in Tx, l.fault = "none",
           Apart(db0, view0, l), Refs(S, l), Landed(r, S, T \ {s}, view0, l),
           NEW k \in Tx, Aside(l, k),
           \/ k = l /\ Skipped(l, l.seen[s])
           \/ \E row \in Row : /\ Updates(l, l.seen[s], row)
                               /\ Wrote(l, k, l.seen[s].defect, row)
    PROVE  Landed(r, S, T, view0, k)
<1> DEFINE o == l.seen[s]
<1>1. k.seen = l.seen /\ l.seen \in [Slots -> Decision] /\ l.db \in [Ids -> Row]
  BY DEF Aside, Tx
<1>2. ASSUME \A t \in S \cap scan[r].found :
                \/ l.seen[t].verdict = "PROBABLE"
                \/ \E u \in S : l.seen[u].defect = l.seen[t].defect /\ l.seen[u].verdict = "CLEARED"
                \/ /\ l.seen[t].defect # 0
                   /\ \/ view0[l.seen[t].defect].status \in Exempt
                      \/ k.db[l.seen[t].defect].status \in {Active} \cup Exempt
                      \/ t \notin T /\ l.seen[t].verdict \in {"EXISTED", "REOPENED"}
      PROVE  Landed(r, S, T, view0, k)
  BY <1>1, <1>2 DEF Landed
<1>3. ASSUME NEW t \in S \cap scan[r].found
      PROVE  \/ l.seen[t].verdict = "PROBABLE"
             \/ \E u \in S : l.seen[u].defect = l.seen[t].defect /\ l.seen[u].verdict = "CLEARED"
             \/ /\ l.seen[t].defect # 0
                /\ \/ view0[l.seen[t].defect].status \in Exempt
                   \/ l.db[l.seen[t].defect].status \in {Active} \cup Exempt
                   \/ t \notin T \ {s} /\ l.seen[t].verdict \in {"EXISTED", "REOPENED"}
  BY <1>3 DEF Landed
<1>4. CASE k = l /\ Skipped(l, o)
  <2>1. ASSUME o.defect # 0, o.verdict \in {"EXISTED", "REOPENED"}, s \in S
        PROVE  \/ view0[o.defect].status \in Exempt
               \/ k.db[o.defect].status \in {Active} \cup Exempt
    <3>1. o.defect \in Present(l.db)
      BY <2>1 DEF Refs
    <3>2. o.defect \in Ids /\ l.view[o.defect].status # "none"
      BY <3>1 DEF Apart, Present
    <3>3. l.view[o.defect].status \in Exempt
      BY <1>4, <2>1, <3>2 DEF Skipped
    <3>4. l.view[o.defect] = view0[o.defect] \/ l.view[o.defect] = l.db[o.defect]
      BY <3>2 DEF Apart
    <3> QED BY <1>4, <3>3, <3>4
  <2>2. ASSUME NEW t \in S \cap scan[r].found
        PROVE  \/ l.seen[t].verdict = "PROBABLE"
               \/ \E u \in S : l.seen[u].defect = l.seen[t].defect /\ l.seen[u].verdict = "CLEARED"
               \/ /\ l.seen[t].defect # 0
                  /\ \/ view0[l.seen[t].defect].status \in Exempt
                     \/ k.db[l.seen[t].defect].status \in {Active} \cup Exempt
                     \/ t \notin T /\ l.seen[t].verdict \in {"EXISTED", "REOPENED"}
    <3>1. CASE t = s
      BY <1>3, <1>4, <2>1, <2>2, <3>1
    <3>2. CASE t # s
      BY <1>3, <1>4, <2>2, <3>2
    <3> QED BY <3>1, <3>2
  <2> QED BY <1>2, <2>2
<1>5. ASSUME NEW row \in Row, Updates(l, o, row), Wrote(l, k, o.defect, row)
      PROVE  Landed(r, S, T, view0, k)
  <2> DEFINE d == o.defect
             v == l.view[d]
  <2>1. /\ d \in Ids /\ v.status \notin Exempt \cup {"none"} /\ l.db[d].version = v.version
        /\ row.status \in {Given(v, o.verdict), "MERGED"}
    BY <1>5 DEF Updates
  <2>2. v = l.db[d] /\ v \in Row
    BY <2>1 DEF Apart, Tx
  <2>3. k.db[d] = row /\ \A c \in Ids \ {d} : k.db[c] = l.db[c]
    BY <1>1, <1>5, <2>1 DEF Wrote
  <2>4. o.verdict \in {"EXISTED", "REOPENED"} => row.status \in {Active} \cup Exempt
    BY <2>1, <2>2, GivenStatus DEF Exempt
  <2>5. o.verdict = "CLEARED" \/ row.status = v.status \/ row.status \in {Active} \cup Exempt
    BY <2>1 DEF Given, Exempt
  <2>6. ASSUME NEW t \in S \cap scan[r].found
        PROVE  \/ l.seen[t].verdict = "PROBABLE"
               \/ \E u \in S : l.seen[u].defect = l.seen[t].defect /\ l.seen[u].verdict = "CLEARED"
               \/ /\ l.seen[t].defect # 0
                  /\ \/ view0[l.seen[t].defect].status \in Exempt
                     \/ k.db[l.seen[t].defect].status \in {Active} \cup Exempt
                     \/ t \notin T /\ l.seen[t].verdict \in {"EXISTED", "REOPENED"}
    <3>1. l.seen[t].defect \in Ids \cup {0} /\ s \in S
      BY <1>1 DEF Decision
    <3>2. CASE l.seen[t].defect # d
      <4>1. t # s
        BY <3>2
      <4>2. l.seen[t].defect # 0 => k.db[l.seen[t].defect] = l.db[l.seen[t].defect]
        BY <2>3, <3>1, <3>2
      <4> QED BY <1>3, <4>1, <4>2
    <3>3. CASE l.seen[t].defect = d
      <4>1. CASE o.verdict = "CLEARED"
        BY <3>1, <3>3, <4>1
      <4>2. CASE row.status \in {Active} \cup Exempt
        <5>1. d # 0
          BY <2>1 DEF Ids
        <5> QED BY <2>3, <3>3, <4>2, <5>1
      <4>3. CASE /\ o.verdict # "CLEARED" /\ row.status = v.status
                 /\ row.status \notin {Active} \cup Exempt
        <5>1. o.verdict \notin {"EXISTED", "REOPENED"}
          BY <2>4, <4>3
        <5>2. l.db[d].status \notin {Active} \cup Exempt
          BY <2>2, <4>3
        <5>3. t = s => l.seen[t].verdict \notin {"EXISTED", "REOPENED"}
          BY <5>1
        <5> QED BY <1>3, <3>3, <5>2, <5>3
      <4> QED BY <2>5, <4>1, <4>2, <4>3
    <3> QED BY <3>2, <3>3
  <2> QED BY <1>2, <2>6
<1> QED BY <1>4, <1>5

\* No observation resolves a defect when it is made; later it was cleared by
\* one, or no observation named it and the policy resolves it.
Unresolved(db0, k) == \A d \in Ids :
    db0[d].status # "RESOLVED" => k.db[d].status # "RESOLVED"
Evidence(S, x, db0, k) == \A d \in Ids :
    db0[d].status # "RESOLVED" /\ k.db[d].status = "RESOLVED" =>
        \/ d \notin k.matched /\ Resolves(x, db0[d], k.db[d])
        \/ \E t \in S : k.seen[t].defect = d /\ k.seen[t].verdict = "CLEARED"

LEMMA EvidenceUpdate ==
    ASSUME NEW r, NEW S, NEW s \in S, NEW x, NEW db0, NEW view0, NEW l \in Tx,
           Apart(db0, view0, l), Basic(r, S, {}, db0, view0, l),
           Evidence(S, x, db0, l), NEW k, Aside(l, k),
           NEW row \in Row, Updates(l, l.seen[s], row), Wrote(l, k, l.seen[s].defect, row)
    PROVE  Evidence(S, x, db0, k)
<1> DEFINE o == l.seen[s]
           d == o.defect
           v == l.view[d]
<1>1. /\ d \in Ids /\ v.status \notin Exempt \cup {"none"} /\ l.db[d].version = v.version
      /\ row.status \in {Given(v, o.verdict), "MERGED"}
  BY DEF Updates
<1>2. v = l.db[d] /\ v \in Row
  BY <1>1 DEF Apart, Tx
<1>3. k.db[d] = row /\ \A c \in Ids \ {d} : k.db[c] = l.db[c]
  BY <1>1 DEF Wrote, Tx
<1>4. row.status = "RESOLVED" => o.verdict = "CLEARED" \/ l.db[d].status = "RESOLVED"
  BY <1>1, <1>2, GivenStatus
<1>5. k.seen = l.seen /\ k.matched = l.matched
  BY DEF Aside
<1>6. d \in l.matched
  BY <1>1 DEF Basic, Ids
<1>7. ASSUME NEW c \in Ids, db0[c].status # "RESOLVED", k.db[c].status = "RESOLVED"
      PROVE  \/ c \notin k.matched /\ Resolves(x, db0[c], k.db[c])
             \/ \E t \in S : k.seen[t].defect = c /\ k.seen[t].verdict = "CLEARED"
  <2>1. CASE c # d
    BY <1>3, <1>5, <1>7, <2>1 DEF Evidence
  <2>2. CASE c = d /\ o.verdict = "CLEARED"
    BY <1>5, <2>2
  <2>3. CASE c = d /\ o.verdict # "CLEARED"
    <3>1. l.db[c].status = "RESOLVED" /\ c \in l.matched
      BY <1>3, <1>4, <1>6, <1>7, <2>3
    <3> QED BY <1>5, <1>7, <3>1 DEF Evidence
  <2> QED BY <2>1, <2>2, <2>3
<1> QED BY <1>7 DEF Evidence

LEMMA EvidenceAdvance ==
    ASSUME NEW r, NEW S, NEW A, NEW x, NEW db0, NEW view0, NEW l \in Tx,
           Apart(db0, view0, l), Basic(r, S, A, db0, view0, l), Evidence(S, x, db0, l),
           NEW d \in Ids \ A, NEW k, Aside(l, k),
           NEW row \in Row, Advances(l, x, d, view0[d], row), Wrote(l, k, d, row)
    PROVE  Evidence(S, x, db0, k)
<1>1. d \notin l.matched /\ l.db[d].version = l.view[d].version
  BY DEF Advances
<1>2. l.db[d] = db0[d] /\ l.view[d] = view0[d]
  BY <1>1 DEF Basic
<1>3. db0[d] = view0[d]
  BY <1>1, <1>2 DEF Apart
<1>4. k.db[d] = row /\ \A c \in Ids \ {d} : k.db[c] = l.db[c]
  BY DEF Wrote, Tx
<1>5. row.status = "RESOLVED" => Resolves(x, db0[d], row)
  BY <1>3 DEF Advances
<1>6. k.seen = l.seen /\ k.matched = l.matched
  BY DEF Aside
<1> QED BY <1>1, <1>4, <1>5, <1>6 DEF Evidence

LEMMA UnresolvedObserve ==
    ASSUME NEW db0, NEW l \in Tx, Unresolved(db0, l),
           NEW r \in Reports, NEW s \in Slots, NEW k,
           Chose(l, k, r, s)
    PROVE  Unresolved(db0, k)
<1>1. \A d \in Ids : k.db[d].status = "RESOLVED" => k.db[d] = l.db[d]
  <2>1. CASE TookDecision(l, k, r, s) \/ TookActive(l, k, s)
    BY <2>1 DEF TookDecision, TookActive, SameRows
  <2>2. CASE TookNew(l, k, r, s)
    <3>1. k.db = [l.db EXCEPT ![l.next] = NewRow(s, r)] /\ NewRow(s, r).status = Active
      BY <2>2, NewRowType DEF TookNew, Wrote
    <3>2. l.db \in [Ids -> Row]
      BY DEF Tx
    <3> QED BY <3>1, <3>2 DEF Active
  <2> QED BY <2>1, <2>2 DEF Chose
<1> QED BY <1>1 DEF Unresolved

-----------------------------------------------------------------------------
(* The three folds of a commit. S are the groups that take part.           *)

Phase1(r, T, db0, view0, k) ==
    /\ Basic(r, T, {}, db0, view0, k)
    /\ r \notin committed =>
          /\ Apart(db0, view0, k) /\ Unresolved(db0, k)
          /\ redone = {} => Refs(T, k) /\ Bound(r, T, k)
Phase2(r, S, T, db0, view0, k) ==
    /\ Basic(r, S, {}, db0, view0, k)
    /\ r \notin committed =>
          /\ Apart(db0, view0, k) /\ Evidence(S, scan[r], db0, k)
          /\ redone = {} => Refs(S, k) /\ Landed(r, S, T, view0, k)
Phase3(r, S, A, db0, view0, k) ==
    /\ Basic(r, S, A, db0, view0, k)
    /\ r \notin committed =>
          /\ Apart(db0, view0, k) /\ Evidence(S, scan[r], db0, k)
          /\ redone = {} => Refs(S, k) /\ Landed(r, S, S, view0, k)

\* What the matching leaves for the groups S, and what is loaded.
Given1(r, S, db0, view0) ==
    /\ decision[r] \in [Slots -> Decision] /\ S \in SUBSET Slots
    /\ \A s \in S : decision[r][s].verdict # "none" /\ Sure(r, s)
    /\ db0 \in [Ids -> Row] /\ view0 \in [Ids -> Row]

LEMMA Phase1Step ==
    ASSUME NEW r \in Reports, NEW S, NEW db0, NEW view0, Given1(r, S, db0, view0),
           NEW T \in SUBSET S, NEW s \in T, NEW l \in Tx, NEW k, k = Observe(l, r, s),
           l.fault = "none" => Phase1(r, T \ {s}, db0, view0, l)
    PROVE  k \in Tx /\ (k.fault = "none" => Phase1(r, T, db0, view0, k))
<1>1. /\ decision[r] \in [Slots -> Decision] /\ T \in SUBSET Slots /\ s \in Slots
      /\ decision[r][s].verdict # "none" /\ Sure(r, s)
      /\ db0 \in [Ids -> Row]
  BY DEF Given1
<1>2. /\ k \in Tx
      /\ k.fault = "none" => l.fault = "none" /\ Chose(l, k, r, s)
  BY <1>1, ObserveStep DEF Chose
<1> SUFFICES ASSUME k.fault = "none" PROVE Phase1(r, T, db0, view0, k)
  BY <1>2
<1>3. Basic(r, T \ {s}, {}, db0, view0, l)
  BY <1>2 DEF Phase1
<1>4. \A d \in Ids : d >= l.next => l.db[d].status = "none"
  BY <1>3 DEF Basic
<1>5. Basic(r, T, {}, db0, view0, k)
  BY <1>1, <1>2, <1>3, BasicObserve
<1>6. ASSUME r \notin committed
      PROVE  /\ Apart(db0, view0, k) /\ Unresolved(db0, k)
             /\ redone = {} => Refs(T, k) /\ Bound(r, T, k)
  <2>1. Apart(db0, view0, l) /\ Unresolved(db0, l)
    BY <1>2, <1>6 DEF Phase1
  <2>2. Apart(db0, view0, k)
    BY <1>1, <1>2, <1>4, <2>1, ApartObserve
  <2>3. Unresolved(db0, k)
    BY <1>1, <1>2, <2>1, UnresolvedObserve
  <2>4. ASSUME redone = {} PROVE Refs(T, k) /\ Bound(r, T, k)
    <3>1. Refs(T \ {s}, l) /\ Bound(r, T \ {s}, l)
      BY <1>2, <1>6, <2>4 DEF Phase1
    <3>2. Refs(T, k)
      BY <1>1, <1>2, <2>1, <3>1, RefsObserve
    <3>3. Bound(r, T, k)
      BY <1>1, <1>2, <1>3, <2>1, <3>1, BoundObserve
    <3> QED BY <3>2, <3>3
  <2> QED BY <2>2, <2>3, <2>4
<1> QED BY <1>5, <1>6 DEF Phase1

LEMMA Phase2Step ==
    ASSUME NEW r \in Reports, NEW S, NEW db0, NEW view0, Given1(r, S, db0, view0),
           NEW T \in SUBSET S, NEW s \in T, NEW l \in Tx, NEW k, k = Update(l, r, s),
           l.fault = "none" => Phase2(r, S, T \ {s}, db0, view0, l)
    PROVE  k \in Tx /\ (k.fault = "none" => Phase2(r, S, T, db0, view0, k))
<1>1. S \in SUBSET Slots /\ s \in S /\ s \in Slots /\ db0 \in [Ids -> Row]
  BY DEF Given1
<1>2. /\ k \in Tx /\ Aside(l, k)
      /\ \A t \in Slots : k.mem[t] = l.mem[t] \/ k.mem[t] \in Present(l.db)
      /\ \/ k = l /\ Skipped(l, l.seen[s])
         \/ SameRows(l, k) /\ k.fault = "retry" /\ l.fault = "none"
         \/ \E row \in Row : /\ Updates(l, l.seen[s], row) /\ l.fault = "none"
                             /\ Wrote(l, k, l.seen[s].defect, row) /\ k.fault = "none"
  BY <1>1, UpdateStep
<1> SUFFICES ASSUME k.fault = "none" PROVE Phase2(r, S, T, db0, view0, k)
  BY <1>2
<1>3. /\ l.fault = "none"
      /\ \/ k = l /\ Skipped(l, l.seen[s])
         \/ \E row \in Row : Updates(l, l.seen[s], row) /\ Wrote(l, k, l.seen[s].defect, row)
  BY <1>2
<1>4. Basic(r, S, {}, db0, view0, l)
  BY <1>3 DEF Phase2
<1>5. ASSUME r \notin committed, redone = {} PROVE Landed(r, S, T, view0, k)
  <2>1. Apart(db0, view0, l) /\ Refs(S, l) /\ Landed(r, S, T \ {s}, view0, l)
    BY <1>3, <1>5 DEF Phase2
  <2> QED BY <1>1, <1>2, <1>3, <2>1, LandedUpdate
<1>6. CASE k = l
  BY <1>3, <1>5, <1>6 DEF Phase2
<1>7. ASSUME NEW row \in Row, Updates(l, l.seen[s], row), Wrote(l, k, l.seen[s].defect, row)
      PROVE  Phase2(r, S, T, db0, view0, k)
  <2> DEFINE d == l.seen[s].defect
  <2>1. d \in Ids /\ l.view[d].status # "none" /\ d # 0
    BY <1>7 DEF Updates, Ids
  <2>2. d \in l.matched
    BY <1>1, <1>4, <2>1 DEF Basic
  <2>3. Fits(l, d, row)
    BY <1>7, UpdateFits
  <2>4. row.status # "none" /\ (row.status = "MERGED" => row.into \in Present(l.db))
    BY <1>7, <2>3 DEF Updates, Fits
  <2>5. Wrote(l, k, d, row)
    BY <1>7
  <2> HIDE DEF d
  <2>6. Basic(r, S, {}, db0, view0, k)
    BY <1>2, <1>4, <2>1, <2>2, <2>5, BasicWrite
  <2>7. ASSUME r \notin committed
        PROVE  /\ Apart(db0, view0, k) /\ Evidence(S, scan[r], db0, k)
               /\ redone = {} => Refs(S, k) /\ Landed(r, S, T, view0, k)
    <3>1. Apart(db0, view0, l) /\ Evidence(S, scan[r], db0, l)
      BY <1>3, <2>7 DEF Phase2
    <3>2. Apart(db0, view0, k)
      BY <1>1, <1>2, <2>3, <2>5, <3>1, ApartWrite
    <3>3. Evidence(S, scan[r], db0, k)
      BY <1>1, <1>2, <1>4, <1>7, <3>1, EvidenceUpdate
    <3>4. ASSUME redone = {} PROVE Refs(S, k)
      <4>1. Refs(S, l)
        BY <1>3, <2>7, <3>4 DEF Phase2
      <4> QED BY <1>2, <2>1, <2>4, <2>5, <4>1, RefsWrite
    <3> QED BY <1>5, <2>7, <3>2, <3>3, <3>4
  <2> QED BY <2>6, <2>7 DEF Phase2
<1> QED BY <1>3, <1>6, <1>7

LEMMA Phase3Step ==
    ASSUME NEW r \in Reports, NEW S, NEW db0, NEW view0, Given1(r, S, db0, view0),
           NEW A \in SUBSET Ids, NEW d \in A, NEW l \in Tx,
           NEW k, k = Advance(l, scan[r], d, view0[d]),
           l.fault = "none" => Phase3(r, S, A \ {d}, db0, view0, l)
    PROVE  k \in Tx /\ (k.fault = "none" => Phase3(r, S, A, db0, view0, k))
<1>1. S \in SUBSET Slots /\ db0 \in [Ids -> Row] /\ view0[d] \in Row /\ d \in Ids
  BY DEF Given1
<1>2. /\ k \in Tx /\ Aside(l, k) /\ k.mem = l.mem
      /\ \/ k = l
         \/ SameRows(l, k) /\ k.fault \in {"retry", "fatal"}
         \/ \E row \in Row : /\ Advances(l, scan[r], d, view0[d], row) /\ l.fault = "none"
                             /\ Wrote(l, k, d, row) /\ k.fault = "none"
  BY <1>1, AdvanceStep
<1> SUFFICES ASSUME k.fault = "none" PROVE Phase3(r, S, A, db0, view0, k)
  BY <1>2
<1>3. l.fault = "none"
  BY <1>2
<1>4. Basic(r, S, A \ {d}, db0, view0, l)
  BY <1>3 DEF Phase3
<1>5. CASE k = l
  <2>1. Basic(r, S, A, db0, view0, k)
    BY <1>2, <1>4, <1>5, BasicSame DEF SameRows
  <2> QED BY <1>3, <1>5, <2>1 DEF Phase3
<1>6. ASSUME NEW row \in Row, Advances(l, scan[r], d, view0[d], row), Wrote(l, k, d, row)
      PROVE  Phase3(r, S, A, db0, view0, k)
  <2>1. d \notin l.matched /\ row.status \in Status \ (Exempt \cup {Active})
    BY <1>6 DEF Advances
  <2>2. l.view[d] = view0[d] /\ d \notin A \ {d}
    BY <1>1, <1>4, <2>1 DEF Basic
  <2>3. Fits(l, d, row)
    BY <1>1, <1>6, <2>2, AdvanceFits
  <2>4. l.view[d].status # "none"
    BY <1>6, <2>2 DEF Advances, Advancing, Active
  <2>5. Basic(r, S, A, db0, view0, k)
    BY <1>1, <1>2, <1>4, <1>6, <2>4, BasicWrite
  <2>6. row.status # "none" /\ row.status # "MERGED"
    BY <2>1 DEF Status, Exempt, Advancing, Active
  <2>7. ASSUME r \notin committed
        PROVE  /\ Apart(db0, view0, k) /\ Evidence(S, scan[r], db0, k)
               /\ redone = {} => Refs(S, k) /\ Landed(r, S, S, view0, k)
    <3>1. Apart(db0, view0, l) /\ Evidence(S, scan[r], db0, l)
      BY <1>3, <2>7 DEF Phase3
    <3>2. Apart(db0, view0, k)
      BY <1>1, <1>2, <1>6, <2>3, <3>1, ApartWrite
    <3>3. Evidence(S, scan[r], db0, k)
      BY <1>1, <1>2, <1>4, <1>6, <2>2, <3>1, EvidenceAdvance
    <3>4. ASSUME redone = {} PROVE Refs(S, k) /\ Landed(r, S, S, view0, k)
      <4>1. Refs(S, l) /\ Landed(r, S, S, view0, l)
        BY <1>3, <2>7, <3>4 DEF Phase3
      <4>2. Refs(S, k)
        BY <1>1, <1>2, <1>6, <2>6, <4>1, RefsWrite
      <4>3. k.seen = l.seen /\ \A c \in Ids \ {d} : k.db[c] = l.db[c]
        BY <1>2, <1>6 DEF Aside, Wrote, Tx
      <4>4. \A s \in S : l.seen[s].defect # d
        BY <1>1, <1>4, <2>1 DEF Basic, Ids
      <4>5. \A s \in S : l.seen[s].defect \in Ids \cup {0}
        BY <1>1 DEF Tx, Decision
      <4>6. Landed(r, S, S, view0, k)
        BY <4>1, <4>3, <4>4, <4>5 DEF Landed
      <4> QED BY <4>2, <4>6
    <3> QED BY <3>2, <3>3, <3>4
  <2> QED BY <2>5, <2>7 DEF Phase3
<1> QED BY <1>2, <1>5, <1>6

LEMMA ObserveFold ==
    ASSUME NEW r \in Reports, NEW S, NEW db0, NEW view0, Given1(r, S, db0, view0),
           NEW l \in Tx, Phase1(r, {}, db0, view0, l), NEW k, k = Observed(r, S, l)
    PROVE  k \in Tx /\ (k.fault = "none" => Phase1(r, S, db0, view0, k))
<1> DEFINE Good(T, m) == m.fault = "none" => Phase1(r, T, db0, view0, m)
           Q == {p \in (SUBSET S) \X Tx : Good(p[1], p[2])}
<1>1. IsFiniteSet(S) /\ S \subseteq Nat /\ S \in SUBSET Slots
  BY LedgerAssumption, FS_Subset DEF Given1
<1>2. \A T \in SUBSET S : \A m \in Tx : <<T, m>> \in Q <=> Good(T, m)
  OBVIOUS
<1>3. ASSUME NEW T \in SUBSET S, NEW m \in Tx, T # {}, <<T \ {Largest(T)}, m>> \in Q
      PROVE  <<T, Observe(m, r, Largest(T))>> \in Q
  <2>1. Largest(T) \in T
    BY <1>1, <1>3, HasLargest, FS_Subset
  <2>2. Good(T \ {Largest(T)}, m)
    BY <1>2, <1>3
  <2>3. Observe(m, r, Largest(T)) \in Tx /\ Good(T, Observe(m, r, Largest(T)))
    BY <2>1, <2>2, Phase1Step
  <2> HIDE DEF Q, Good
  <2> QED BY <1>2, <2>3
<1>4. ASSUME NEW s \in S, NEW m \in Tx PROVE Observe(m, r, s) \in Tx
  BY <1>1, <1>4, ObserveStep DEF Given1
<1>5. <<{}, l>> \in Q
  BY <1>2
<1> HIDE DEF Q
<1>6. k \in Tx /\ <<S, k>> \in Q
  BY <1>1, <1>3, <1>4, <1>5, ObservedBy
<1> QED BY <1>2, <1>6

LEMMA UpdateFold ==
    ASSUME NEW r \in Reports, NEW S, NEW db0, NEW view0, Given1(r, S, db0, view0),
           NEW l \in Tx, l.fault = "none" => Phase2(r, S, {}, db0, view0, l),
           NEW k, k = Updated(r, S, l)
    PROVE  k \in Tx /\ (k.fault = "none" => Phase2(r, S, S, db0, view0, k))
<1> DEFINE Good(T, m) == m.fault = "none" => Phase2(r, S, T, db0, view0, m)
           Q == {p \in (SUBSET S) \X Tx : Good(p[1], p[2])}
<1>1. IsFiniteSet(S) /\ S \subseteq Nat /\ S \in SUBSET Slots
  BY LedgerAssumption, FS_Subset DEF Given1
<1>2. \A T \in SUBSET S : \A m \in Tx : <<T, m>> \in Q <=> Good(T, m)
  OBVIOUS
<1>3. ASSUME NEW T \in SUBSET S, NEW m \in Tx, T # {}, <<T \ {Largest(T)}, m>> \in Q
      PROVE  <<T, Update(m, r, Largest(T))>> \in Q
  <2>1. Largest(T) \in T
    BY <1>1, <1>3, HasLargest, FS_Subset
  <2>2. Good(T \ {Largest(T)}, m)
    BY <1>2, <1>3
  <2>3. Update(m, r, Largest(T)) \in Tx /\ Good(T, Update(m, r, Largest(T)))
    BY <2>1, <2>2, Phase2Step
  <2> HIDE DEF Q, Good
  <2> QED BY <1>2, <2>3
<1>4. ASSUME NEW s \in S, NEW m \in Tx PROVE Update(m, r, s) \in Tx
  BY <1>1, <1>4, UpdateStep
<1>5. <<{}, l>> \in Q
  BY <1>2
<1> HIDE DEF Q
<1>6. k \in Tx /\ <<S, k>> \in Q
  BY <1>1, <1>3, <1>4, <1>5, UpdatedBy
<1> QED BY <1>2, <1>6

LEMMA AdvanceFold ==
    ASSUME NEW r \in Reports, NEW S, NEW db0, NEW view0, Given1(r, S, db0, view0),
           NEW l \in Tx, l.fault = "none" => Phase3(r, S, {}, db0, view0, l),
           NEW k, k = AllAdvanced(scan[r], view0, l)
    PROVE  k \in Tx /\ (k.fault = "none" => Phase3(r, S, Present(view0), db0, view0, k))
<1> DEFINE Good(A, m) == m.fault = "none" => Phase3(r, S, A, db0, view0, m)
           P == Present(view0)
           Q == {p \in (SUBSET P) \X Tx : Good(p[1], p[2])}
<1>1. IsFiniteSet(P) /\ P \subseteq Nat /\ P \subseteq Ids
  <2>1. IsFiniteSet(Ids) /\ Ids \subseteq Nat
    <3>1. 1 \in Int /\ MaxId \in Int
      BY LedgerAssumption
    <3>2. IsFiniteSet(1 .. MaxId)
      BY <3>1, FS_Interval
    <3>3. Ids \subseteq Nat
      BY DEF Ids
    <3> QED BY <3>2, <3>3 DEF Ids
  <2>2. P \subseteq Ids
    BY DEF Present
  <2> QED BY <2>1, <2>2, FS_Subset
<1> HIDE DEF P
<1>2. \A A \in SUBSET P : \A m \in Tx : <<A, m>> \in Q <=> Good(A, m)
  OBVIOUS
<1>3. ASSUME NEW A \in SUBSET P, NEW m \in Tx, A # {}, <<A \ {Largest(A)}, m>> \in Q
      PROVE  <<A, Advance(m, scan[r], Largest(A), view0[Largest(A)])>> \in Q
  <2> DEFINE d == Largest(A)
             n == Advance(m, scan[r], d, view0[d])
  <2>1. d \in A
    BY <1>1, <1>3, HasLargest, FS_Subset
  <2>2. Good(A \ {d}, m)
    BY <1>2, <1>3
  <2>3. A \in SUBSET Ids
    BY <1>1
  <2>4. n \in Tx /\ Good(A, n)
    <3>1. n = Advance(m, scan[r], d, view0[d])
      OBVIOUS
    <3> HIDE DEF n, d, Q, Good
    <3>2. m.fault = "none" => Phase3(r, S, A \ {d}, db0, view0, m)
      BY <2>2 DEF Good
    <3>3. \A e \in A : \A w : w = Advance(m, scan[r], e, view0[e]) /\
             (m.fault = "none" => Phase3(r, S, A \ {e}, db0, view0, m))
             => w \in Tx /\ (w.fault = "none" => Phase3(r, S, A, db0, view0, w))
      BY <2>3, Phase3Step
    <3>4. n \in Tx /\ (n.fault = "none" => Phase3(r, S, A, db0, view0, n))
      BY <2>1, <3>1, <3>2, <3>3
    <3> QED BY <3>4 DEF Good
  <2> HIDE DEF Q, Good, n, d
  <2>5. <<A, n>> \in Q
    BY <1>2, <2>4
  <2> QED BY <2>5 DEF n, d
<1>4. ASSUME NEW d \in P, NEW m \in Tx PROVE Advance(m, scan[r], d, view0[d]) \in Tx
  <2>1. view0[d] \in Row /\ d \in Ids
    BY <1>1 DEF Given1
  <2> QED BY <2>1, AdvanceStep
<1>5. <<{}, l>> \in Q
  BY <1>2
<1> HIDE DEF Q
<1>6. k \in Tx /\ <<P, k>> \in Q
  BY <1>1, <1>3, <1>4, <1>5, AdvancedBy DEF P
<1> QED BY <1>2, <1>6 DEF P

\* What the folds together make of the rows the transaction started with.
LEMMA CommitFold ==
    ASSUME NEW r \in Reports, NEW S, NEW db0, NEW view0, Given1(r, S, db0, view0),
           NEW l \in Tx, Phase1(r, {}, db0, view0, l),
           NEW k, k = AllAdvanced(scan[r], view0, Updated(r, S, Observed(r, S, l)))
    PROVE  k \in Tx /\ (k.fault = "none" => Phase3(r, S, Present(view0), db0, view0, k))
<1> DEFINE m == Observed(r, S, l)
           n == Updated(r, S, m)
<1>1. m \in Tx /\ (m.fault = "none" => Phase1(r, S, db0, view0, m))
  BY ObserveFold
<1>2. k = AllAdvanced(scan[r], view0, n) /\ n = Updated(r, S, m)
  OBVIOUS
<1> HIDE DEF m, n
<1>3. m.fault = "none" => Phase2(r, S, {}, db0, view0, m)
  <2> SUFFICES ASSUME m.fault = "none" PROVE Phase2(r, S, {}, db0, view0, m)
    OBVIOUS
  <2>1. Phase1(r, S, db0, view0, m)
    BY <1>1
  <2>2. Unresolved(db0, m) => Evidence(S, scan[r], db0, m)
    BY DEF Evidence, Unresolved
  <2>3. Bound(r, S, m) => Landed(r, S, {}, view0, m)
    BY DEF Bound, Landed
  <2> QED BY <2>1, <2>2, <2>3 DEF Phase1, Phase2
<1>4. n \in Tx /\ (n.fault = "none" => Phase2(r, S, S, db0, view0, n))
  BY <1>1, <1>2, <1>3, UpdateFold
<1>5. n.fault = "none" => Phase3(r, S, {}, db0, view0, n)
  BY <1>4 DEF Phase2, Phase3
<1> QED BY <1>2, <1>4, <1>5, AdvanceFold

-----------------------------------------------------------------------------
(* The inductive invariant.                                                *)

\* What is on record is of a commit, or older than all.
History ==
    /\ \A o \in obs : o.report \in committed \cup {0}
    /\ \A s \in Slots : alias[s].last \in committed \cup {0}
NextFree == \A d \in Ids : d >= next => defect[d].status = "none"
\* Since the transaction loaded v, people may have made w of it.
Kept(v, w) ==
    /\ w.status = "none" <=> v.status = "none"
    /\ w.version >= v.version
    /\ w.version = v.version => w = v
\* What became active in a slot that the transaction t found free, a person changed.
Claimed(t, db) == \A c \in t.claims : \A d \in ActiveIn(db, c.slot) :
    db[d].version # t.view[d].version
OpenTx == \A r \in Reports : pc[r] = "open" =>
    /\ tx[r].view \in [Ids -> Row]
    /\ \A d \in Ids : d >= next => tx[r].view[d].status = "none"
    /\ r \notin committed =>
          /\ \A d \in Ids : Kept(tx[r].view[d], defect[d])
          /\ redone = {} => \A d \in Ids : tx[r].view[d].status = "MERGED" =>
                               tx[r].view[d].into \in Present(tx[r].view)
          /\ Claimed(tx[r], defect)
\* What the matching decided stays decided until the transaction ends.
Decided == \A r \in Reports : pc[r] \in {"matched", "open"} => \A s \in Slots :
    /\ Sure(r, s)
    /\ s \in scan[r].found \/ decision[r][s].defect # 0 => decision[r][s].verdict # "none"
IInv == /\ TypeOK /\ OrderInv /\ History /\ NextFree /\ IndexHolds(defect)
        /\ OpenTx /\ Decided /\ ReferencesExist

-----------------------------------------------------------------------------
(* The rollback at the start of a commit.                                  *)

LEMMA FiniteImage ==
    ASSUME NEW S, IsFiniteSet(S), NEW f
    PROVE  IsFiniteSet({f[x] : x \in S})
<1> DEFINE T == {f[x] : x \in S}
           g == [x \in S |-> f[x]]
<1>1. g \in Surjection(S, T)
  BY DEF Surjection
<1> HIDE DEF g
<1> QED BY <1>1, FS_Surjection

LEMMA ScanParts ==
    ASSUME TypeOK, NEW r \in Reports
    PROVE  scan[r].found \subseteq Slots /\ scan[r].passed \subseteq Slots
<1>1. scan[r] \in Scans \cup {NoScan}
  BY DEF TypeOK
<1>2. CASE scan[r] \in Scans
  BY <1>2, LedgerAssumption DEF ScanOK
<1>3. CASE scan[r] = NoScan
  BY <1>3 DEF NoScan
<1> QED BY <1>1, <1>2, <1>3

LEMMA RestoredRow ==
    ASSUME NEW row \in Row, row.status # "none", NEW old \in Snapshot \cup {NoSnapshot}
    PROVE  /\ Restored(row, old) \in Row /\ Restored(row, old).status # "none"
<1>1. CASE old = NoSnapshot
  BY <1>1 DEF Restored
<1>2. CASE old # NoSnapshot
  <2>1. old \in Snapshot
    BY <1>2
  <2> DEFINE st == old.status
             m == old.missed
             n == old.dormant
             v == old.version
  <2>2. st \in Status /\ m \in Nat /\ n \in Nat /\ v \in Nat
    BY <2>1 DEF Snapshot
  <2>3. "none" \notin Status
    BY DEF Status, Exempt, Advancing, Active
  <2>4. Restored(row, old) =
           [row EXCEPT !.status = st, !.missed = m, !.dormant = n, !.version = v]
    BY <1>2 DEF Restored
  <2> HIDE DEF st, m, n, v
  <2>5. Restored(row, old).status = st
    BY <2>4 DEF Row
  <2>6. Restored(row, old) \in Row
    BY <2>2, <2>4 DEF Row
  <2> QED BY <2>2, <2>3, <2>5, <2>6
<1> QED BY <1>1, <1>2

LEMMA AbsentRow ==
    ASSUME Slots # {}
    PROVE  Absent \in Row /\ Absent.status = "none"
<1>1. Smallest(Slots) \in Slots
  BY LedgerAssumption, HasSmallest
<1> QED BY <1>1 DEF Absent, Row

Alias == [owner : Ids \cup {0}, last : Reports \cup {0}]
LEMMA RollbackType ==
    ASSUME TypeOK, NEW r \in Reports, NEW back, back = Rollback(r)
    PROVE  /\ back.db \in [Ids -> Row] /\ back.touched \in SUBSET Ids
           /\ back.touched \subseteq Present(defect)
           /\ \A d \in Ids \ back.touched : back.db[d] = defect[d]
           /\ back.rest = Others(r) /\ back.rest \subseteq obs
           /\ back.alias \in [Slots -> Alias]
<1> DEFINE rest == Others(r)
           touched == Touched(rest)
           gone == OnlyIn(r, rest)
<1>1. rest \subseteq obs /\ touched \subseteq Present(defect) /\ gone \subseteq touched
      /\ Present(defect) \subseteq Ids
  BY DEF Others, Touched, OnlyIn, Present
<1>2. back = Undo(r, rest, touched, gone)
  BY DEF Rollback
<1> HIDE DEF rest, touched, gone
<1>3. /\ back.touched = touched /\ back.rest = rest
      /\ back.db = [d \in Ids |-> IF d \in gone THEN Absent
                                  ELSE IF d \in touched THEN Restored(defect[d], snap[r][d])
                                  ELSE defect[d]]
      /\ back.alias = [s \in Slots |-> Unhealed(alias[s], r, rest, gone)]
  BY <1>2 DEF Undo
<1>4. ASSUME NEW d \in Ids PROVE back.db[d] \in Row
  <2>1. defect[d] \in Row /\ snap[r][d] \in Snapshot \cup {NoSnapshot}
    BY DEF TypeOK
  <2>2. CASE d \in gone
    <3>1. Slots # {}
      BY <2>1 DEF Row
    <3> QED BY <1>3, <2>2, <3>1, AbsentRow
  <2>3. CASE d \notin gone /\ d \in touched
    <3>1. defect[d].status # "none"
      BY <1>1, <2>3 DEF Present
    <3> QED BY <1>3, <2>1, <2>3, <3>1, RestoredRow
  <2>4. CASE d \notin gone /\ d \notin touched
    BY <1>3, <2>1, <2>4
  <2> QED BY <2>2, <2>3, <2>4
<1>5. ASSUME NEW s \in Slots PROVE Unhealed(alias[s], r, rest, gone) \in Alias
  <2> DEFINE a == alias[s]
             seenIn == {o.report : o \in {q \in rest : q.defect = a.owner}}
  <2>1. a \in Alias
    BY DEF TypeOK, Alias
  <2>2. seenIn # {} => Largest(seenIn) \in Reports \cup {0}
    <3>1. IsFiniteSet({q \in rest : q.defect = a.owner})
      <4>1. {q \in rest : q.defect = a.owner} \subseteq obs
        BY <1>1
      <4> QED BY <4>1, FS_Subset DEF TypeOK
    <3>2. IsFiniteSet(seenIn)
      <4> DEFINE W == {q \in rest : q.defect = a.owner}
                 f == [o \in W |-> o.report]
      <4>1. IsFiniteSet({f[o] : o \in W})
        BY <3>1, FiniteImage
      <4>2. seenIn = {f[o] : o \in W}
        OBVIOUS
      <4> QED BY <4>1, <4>2
    <3>3. seenIn \subseteq Reports \cup {0}
      BY <1>1 DEF TypeOK, Observation
    <3>4. Reports \cup {0} \subseteq Nat
      BY LedgerAssumption
    <3> HIDE DEF seenIn
    <3> QED BY <3>2, <3>3, <3>4, HasLargest
  <2>3. Unhealed(a, r, rest, gone) = IF a.owner \notin gone /\ a.last # r THEN a
        ELSE IF a.owner \in gone \/ seenIn = {} THEN NoAlias
        ELSE [a EXCEPT !.last = Largest(seenIn)]
    BY DEF Unhealed
  <2> HIDE DEF seenIn, a
  <2>4. NoAlias \in Alias
    BY DEF NoAlias, Alias
  <2>5. seenIn # {} => [a EXCEPT !.last = Largest(seenIn)] \in Alias
    BY <2>1, <2>2 DEF Alias
  <2> QED BY <2>1, <2>3, <2>4, <2>5 DEF a
<1>6. \A d \in Ids \ touched : back.db[d] = defect[d]
  BY <1>1, <1>3
<1>7. back.db \in [Ids -> Row]
  BY <1>3, <1>4
<1>8. back.alias \in [Slots -> Alias]
  BY <1>3, <1>5
<1> QED BY <1>1, <1>3, <1>6, <1>7, <1>8 DEF rest

\* A report that was never committed has nothing to take back.
LEMMA RollbackFresh ==
    ASSUME TypeOK, History, NEW r \in Reports \ committed, NEW back, back = Rollback(r)
    PROVE  /\ back.db = defect /\ back.touched = {} /\ back.rest = obs
           /\ back.alias = alias
<1>0. r # 0
  BY LedgerAssumption
<1>1. Others(r) = obs
  BY <1>0 DEF Others, History
<1>2. Touched(obs) = {} /\ OnlyIn(r, obs) = {}
  BY DEF Touched, OnlyIn
<1>3. back = Undo(r, obs, {}, {})
  BY <1>1, <1>2 DEF Rollback
<1>4. \A s \in Slots : Unhealed(alias[s], r, obs, {}) = alias[s]
  BY <1>0 DEF Unhealed, History
<1>5. /\ back.touched = {} /\ back.rest = obs
      /\ back.db = [d \in Ids |-> defect[d]]
      /\ back.alias = [s \in Slots |-> alias[s]]
  BY <1>3, <1>4 DEF Undo
<1>6. defect \in [Ids -> Row] /\ alias \in [Slots -> Alias]
  BY DEF TypeOK, Alias
<1> QED BY <1>5, <1>6

-----------------------------------------------------------------------------
(* A commit, from the invariant.                                           *)

LEMMA StartedType ==
    ASSUME NEW view \in [Ids -> Row], NEW back, back.db \in [Ids -> Row],
           back.touched \in SUBSET Ids, next \in Nat \ {0},
           NEW l, l = Started(view, back)
    PROVE  /\ l \in Tx /\ l.fault = "none" /\ l.db = back.db /\ l.view = view
           /\ l.dirty = back.touched /\ l.next = next /\ l.matched = {}
           /\ \A s \in Slots : l.mem[s] = 0
<1>1. NoDecisions \in [Slots -> Decision]
  BY DEF NoDecisions, Undecided, Decision
<1>2. NoSnapshots \in [Ids -> Snapshot \cup {NoSnapshot}]
  BY DEF NoSnapshots
<1>3. [s \in Slots |-> 0] \in [Slots -> Ids \cup {0}]
  OBVIOUS
<1>4. l \in Tx
  BY <1>1, <1>2, <1>3 DEF Started, Tx
<1> QED BY <1>4 DEF Started

LEMMA CommitRows ==
    ASSUME IInv, NEW r \in Reports, pc[r] = "open", NEW back, back = Rollback(r),
           NEW c, c = Commit(r)
    PROVE  /\ c.row \in Tx
           /\ c.row.fault = "none" =>
                 Phase3(r, Committable(r), Present(tx[r].view), back.db, tx[r].view, c.row)
           /\ c = Outcome(r, back, c.row)
<1> DEFINE S == Committable(r)
           view == tx[r].view
           l == Started(view, back)
           k == AllAdvanced(scan[r], view, Updated(r, S, Observed(r, S, l)))
<1>1. /\ back.db \in [Ids -> Row] /\ back.touched \in SUBSET Ids
      /\ back.touched \subseteq Present(defect)
      /\ \A d \in Ids \ back.touched : back.db[d] = defect[d]
  BY RollbackType DEF IInv
<1>2. /\ view \in [Ids -> Row] /\ next \in Nat \ {0}
      /\ \A d \in Ids : d >= next => view[d].status = "none"
  BY DEF IInv, TypeOK, OpenTx
<1>3. Given1(r, S, back.db, view)
  <2>1. decision[r] \in [Slots -> Decision]
    BY DEF IInv, TypeOK
  <2>2. S \subseteq Slots
    BY ScanParts DEF IInv, Committable, Groups
  <2>3. \A s \in S : s \in scan[r].found \/ decision[r][s].defect # 0
    BY DEF Committable
  <2>4. \A s \in S : decision[r][s].verdict # "none" /\ Sure(r, s)
    BY <2>2, <2>3 DEF IInv, Decided
  <2> QED BY <1>1, <1>2, <2>1, <2>2, <2>4 DEF Given1
<1>4. /\ l \in Tx /\ l.fault = "none" /\ l.db = back.db /\ l.view = view
      /\ l.dirty = back.touched /\ l.next = next /\ l.matched = {}
      /\ \A s \in Slots : l.mem[s] = 0
  BY <1>1, <1>2, StartedType
<1>5. c = Outcome(r, back, k)
  BY DEF Commit, Steps
<1>6. c.row = k
  BY <1>5 DEF Outcome
<1> HIDE DEF S, view, l
<1>7. Basic(r, {}, {}, back.db, view, l)
  <2>1. \A d \in Ids : d >= next => back.db[d].status = "none"
    BY <1>1 DEF IInv, NextFree, Present
  <2> QED BY <1>1, <1>2, <1>4, <2>1 DEF Basic
<1>8. ASSUME r \notin committed
      PROVE  /\ Apart(back.db, view, l) /\ Unresolved(back.db, l)
             /\ redone = {} => Refs({}, l) /\ Bound(r, {}, l)
  <2>1. back.db = defect
    BY <1>8, RollbackFresh DEF IInv
  <2>2. /\ \A d \in Ids : Kept(view[d], defect[d])
        /\ redone = {} => \A d \in Ids : view[d].status = "MERGED" =>
                                            view[d].into \in Present(view)
    BY <1>8 DEF IInv, OpenTx, view
  <2>3. Apart(back.db, view, l)
    BY <1>4, <2>1, <2>2 DEF IInv, Apart, Kept, Grown
  <2>4. Unresolved(back.db, l)
    BY <1>4 DEF Unresolved
  <2>5. ASSUME redone = {} PROVE Refs({}, l)
    <3>1. Present(view) \subseteq Present(l.db)
      BY <1>4, <2>1, <2>2 DEF Present, Kept
    <3>2. \A d \in Ids : defect[d].status = "MERGED" => defect[d].into \in Present(defect)
      BY <2>5 DEF IInv, ReferencesExist
    <3>3. l.db = defect /\ l.view = view
      BY <1>4, <2>1
    <3>4. \A d \in Ids : view[d].status = "MERGED" => view[d].into \in Present(l.db)
      BY <2>2, <2>5, <3>1
    <3> QED BY <1>4, <3>2, <3>3, <3>4 DEF Refs
  <2>6. Bound(r, {}, l)
    BY DEF Bound
  <2> QED BY <2>3, <2>4, <2>5, <2>6
<1>9. Phase1(r, {}, back.db, view, l)
  BY <1>7, <1>8 DEF Phase1
<1>10. k \in Tx /\ (k.fault = "none" => Phase3(r, S, Present(view), back.db, view, k))
  BY <1>3, <1>4, <1>9, CommitFold
<1> HIDE DEF k
<1> QED BY <1>5, <1>6, <1>10 DEF S, view

-----------------------------------------------------------------------------
(* The invariant, action by action: what is stored, and where the reports  *)
(* are.                                                                    *)

TableType ==
    /\ defect \in [Ids -> Row] /\ next \in Nat \ {0}
    /\ obs \subseteq Observation /\ IsFiniteSet(obs)
    /\ snap \in [Reports -> [Ids -> Snapshot \cup {NoSnapshot}]]
    /\ alias \in [Slots -> Alias]
    /\ committed \subseteq Reports /\ redone \subseteq committed
ScannerType ==
    /\ pc \in [Reports -> Pc] /\ scan \in [Reports -> Scans \cup {NoScan}]
    /\ tries \in [Reports -> 1 .. MaxTries]
    /\ decision \in [Reports -> [Slots -> Decision]]
    /\ tx \in [Reports -> [view : [Ids -> Row] \cup {<<>>}, touched : SUBSET Ids,
                           claims : SUBSET Claim]]
CounterType == humans \in 0 .. MaxHuman /\ reruns \in 0 .. MaxReruns
TableInv == /\ TableType /\ History /\ NextFree /\ IndexHolds(defect) /\ ReferencesExist
ScannerInv == ScannerType /\ Decided

LEMMA InvParts ==
    IInv <=> /\ TableInv /\ ScannerInv /\ CounterType
             /\ OrderInv /\ OpenTx
  BY DEF IInv, TypeOK, TableInv, TableType, ScannerInv, ScannerType, CounterType, Alias

LEMMA InvNext ==
    ASSUME TableInv', ScannerInv', CounterType', OrderInv', OpenTx'
    PROVE  IInv'
<1>1. TypeOK'
  BY DEF TypeOK, TableInv, TableType, ScannerInv, ScannerType, CounterType, Alias
<1> QED BY <1>1 DEF IInv, TableInv, ScannerInv

LEMMA TableSame ==
    ASSUME TableInv, UNCHANGED table
    PROVE  TableInv'
<1>1. UNCHANGED <<defect, next, obs, snap, alias, committed, redone>>
  BY DEF table, rows
<1>2. TableType' /\ History'
  BY <1>1 DEF TableInv, TableType, History
<1>3. NextFree' /\ IndexHolds(defect)' /\ ReferencesExist'
  BY <1>1 DEF TableInv, NextFree, ReferencesExist
<1> QED BY <1>2, <1>3 DEF TableInv

LEMMA ScannerSame ==
    ASSUME ScannerInv, UNCHANGED scanner
    PROVE  ScannerInv'
  BY DEF ScannerInv, ScannerType, Decided, scanner, Sure

\* A report that moves on, and where it decides nothing.
LEMMA ReportMoves ==
    ASSUME ScannerInv, NEW r \in Reports, NEW end \in Pc \ {"matched", "open"},
           pc' = [pc EXCEPT ![r] = end],
           \A q \in Reports \ {r} : scan'[q] = scan[q] /\ decision'[q] = decision[q]
    PROVE  Decided'
<1>1. \A q \in Reports : pc'[q] \in {"matched", "open"} => q # r /\ pc'[q] = pc[q]
  BY DEF ScannerInv, ScannerType
<1> QED BY <1>1 DEF ScannerInv, Decided, Sure

LEMMA DoneInv ==
    ASSUME ScannerInv, NEW r \in Reports, NEW end \in Pc \ {"matched", "open"}, Done(r, end)
    PROVE  ScannerInv'
<1>1. /\ pc' = [pc EXCEPT ![r] = end] /\ tx' = [tx EXCEPT ![r] = NoTx]
      /\ scan' = [scan EXCEPT ![r] = NoScan] /\ decision' = [decision EXCEPT ![r] = NoDecisions]
      /\ tries' = [tries EXCEPT ![r] = 1]
  BY DEF Done
<1>2. NoDecisions \in [Slots -> Decision]
  BY DEF NoDecisions, Undecided, Decision
<1>3. NoTx \in [view : [Ids -> Row] \cup {<<>>}, touched : SUBSET Ids, claims : SUBSET Claim]
  BY DEF NoTx
<1>4. 1 \in 1 .. MaxTries
  BY LedgerAssumption
<1>5. ScannerType'
  BY <1>1, <1>2, <1>3, <1>4 DEF ScannerInv, ScannerType
<1>6. \A q \in Reports \ {r} : scan'[q] = scan[q] /\ decision'[q] = decision[q]
  BY <1>1 DEF ScannerInv, ScannerType
<1>7. Decided'
  BY <1>1, <1>6, ReportMoves
<1> QED BY <1>5, <1>7 DEF ScannerInv

\* An open transaction of another report loaded what it loaded.
LEMMA OpenSame ==
    ASSUME OpenTx, ScannerType, NEW r \in Reports, UNCHANGED table,
           pc'[r] # "open",
           \A q \in Reports \ {r} : pc'[q] = pc[q] /\ tx'[q] = tx[q]
    PROVE  OpenTx'
<1>1. UNCHANGED <<defect, next, committed, redone>>
  BY DEF table, rows
<1>2. \A q \in Reports : pc'[q] = "open" => pc[q] = "open" /\ tx'[q] = tx[q]
  OBVIOUS
<1> QED BY <1>1, <1>2 DEF OpenTx, Kept, Present, Claimed, ActiveIn

LEMMA NoneOpen ==
    ASSUME \A q \in Reports : pc'[q] # "open"
    PROVE  OpenTx'
  BY DEF OpenTx

\* What ends a report's attempt and stores nothing.
LEMMA EndsInv ==
    ASSUME IInv, NEW r \in Reports, NEW end \in Pc \ {"matched", "open"}, Done(r, end),
           UNCHANGED table
    PROVE  IInv'
<1>1. TableInv /\ ScannerInv /\ CounterType /\ OrderInv /\ OpenTx
  BY InvParts
<1>2. pc' = [pc EXCEPT ![r] = end] /\ tx' = [tx EXCEPT ![r] = NoTx] /\ UNCHANGED <<humans, reruns>>
  BY DEF Done
<1>3. pc \in [Reports -> Pc] /\ UNCHANGED committed
  BY <1>1 DEF ScannerInv, ScannerType, table
<1>4. TableInv' /\ ScannerInv'
  BY <1>1, TableSame, DoneInv
<1>5. OrderInv'
  BY <1>1, <1>2, <1>3, LeavesOpen
<1>6. CounterType'
  BY <1>1, <1>2 DEF CounterType
<1>7. OpenTx'
  BY <1>1, <1>2, <1>3, OpenSame DEF ScannerInv, ScannerType
<1> QED BY <1>4, <1>5, <1>6, <1>7, InvNext


-----------------------------------------------------------------------------
(* What a scan does to the invariant.                                      *)

LEMMA AbortInv ==
    ASSUME IInv, NEW r \in Reports, Abort(r)
    PROVE  IInv'
<1>1. Done(r, "failed") /\ UNCHANGED table /\ "failed" \in Pc \ {"matched", "open"}
  BY DEF Abort, Pc
<1> QED BY <1>1, EndsInv

LEMMA RefuseInv ==
    ASSUME IInv, NEW r \in Reports, Refuse(r)
    PROVE  IInv'
<1>1. Done(r, "rejected") /\ UNCHANGED table /\ "rejected" \in Pc \ {"matched", "open"}
  BY DEF Refuse, Pc
<1> QED BY <1>1, EndsInv

LEMMA CollideInv ==
    ASSUME IInv, NEW r \in Reports, Collide(r)
    PROVE  IInv'
<1>1. Done(r, "rejected") /\ UNCHANGED table /\ "rejected" \in Pc \ {"matched", "open"}
  BY DEF Collide, Pc
<1> QED BY <1>1, EndsInv

LEMMA RetryInv ==
    ASSUME IInv, NEW r \in Reports, Retry(r), UNCHANGED table
    PROVE  IInv'
<1>1. TableInv /\ ScannerInv /\ CounterType /\ OrderInv /\ OpenTx
  BY InvParts
<1>2. /\ pc' = [pc EXCEPT ![r] = "idle"] /\ tx' = [tx EXCEPT ![r] = NoTx]
      /\ decision' = [decision EXCEPT ![r] = NoDecisions]
      /\ tries[r] < MaxTries /\ tries' = [tries EXCEPT ![r] = @ + 1]
      /\ UNCHANGED <<scan, humans, reruns, committed>>
  BY DEF Retry, table
<1>3. pc \in [Reports -> Pc] /\ "idle" \in Pc \ {"matched", "open"}
  BY <1>1 DEF ScannerInv, ScannerType, Pc
<1>4. TableInv'
  BY <1>1, TableSame
<1>5. ScannerType'
  <2>1. NoDecisions \in [Slots -> Decision]
    BY DEF NoDecisions, Undecided, Decision
  <2>2. NoTx \in [view : [Ids -> Row] \cup {<<>>}, touched : SUBSET Ids, claims : SUBSET Claim]
    BY DEF NoTx
  <2>3. tries[r] + 1 \in 1 .. MaxTries
    <3>1. tries[r] \in 1 .. MaxTries /\ MaxTries \in Nat
      BY <1>1, LedgerAssumption DEF ScannerInv, ScannerType
    <3> QED BY <1>2, <3>1
  <2> QED BY <1>1, <1>2, <1>3, <2>1, <2>2, <2>3 DEF ScannerInv, ScannerType
<1>6. Decided'
  <2>1. \A q \in Reports \ {r} : scan'[q] = scan[q] /\ decision'[q] = decision[q]
    BY <1>1, <1>2 DEF ScannerInv, ScannerType
  <2> QED BY <1>1, <1>2, <1>3, <2>1, ReportMoves
<1>7. OrderInv'
  BY <1>1, <1>2, <1>3, LeavesOpen
<1>8. OpenTx'
  BY <1>1, <1>2, <1>3, OpenSame DEF ScannerInv, ScannerType
<1>10. CounterType' /\ ScannerInv'
  BY <1>1, <1>2, <1>5, <1>6 DEF CounterType, ScannerInv
<1> QED BY <1>4, <1>7, <1>8, <1>10, InvNext

LEMMA ConflictInv ==
    ASSUME IInv, NEW r \in Reports, Conflict(r)
    PROVE  IInv'
<1>1. UNCHANGED table /\ Stopped(r, Commit(r).fault) /\ pc[r] = "open"
  BY DEF Conflict
<1>2. {"conflict", "rejected"} \subseteq Pc \ {"matched", "open"}
  BY DEF Pc
<1>3. CASE Retry(r)
  BY <1>1, <1>3, RetryInv
<1>4. CASE Done(r, "conflict")
  BY <1>1, <1>2, <1>4, EndsInv
<1>5. CASE Done(r, "rejected")
  BY <1>1, <1>2, <1>5, EndsInv
<1> QED BY <1>1, <1>3, <1>4, <1>5 DEF Stopped

LEMMA RerunInv ==
    ASSUME IInv, NEW r \in Reports, Rerun(r)
    PROVE  IInv'
<1>1. TableInv /\ ScannerInv /\ CounterType /\ OrderInv /\ OpenTx
  BY InvParts
<1>2. /\ pc' = [pc EXCEPT ![r] = "idle"] /\ reruns < MaxReruns /\ reruns' = reruns + 1
      /\ UNCHANGED <<table, scan, tries, decision, tx, humans, committed>>
  BY DEF Rerun, table
<1>3. pc \in [Reports -> Pc] /\ "idle" \in Pc \ {"matched", "open"}
  BY <1>1 DEF ScannerInv, ScannerType, Pc
<1>4. TableInv' /\ OrderInv' /\ Decided'
  BY <1>1, <1>2, <1>3, TableSame, LeavesOpen, ReportMoves
<1>5. OpenTx'
  BY <1>1, <1>2, <1>3, OpenSame DEF ScannerInv, ScannerType
<1>6. ScannerInv'
  BY <1>1, <1>2, <1>3, <1>4 DEF ScannerInv, ScannerType
<1>7. CounterType'
  BY <1>1, <1>2, LedgerAssumption DEF CounterType
<1> QED BY <1>4, <1>5, <1>6, <1>7, InvNext

\* A report that was overtaken gets its mark, and nobody is committing.
LEMMA SupersedeInv ==
    ASSUME IInv, NEW r \in Reports, Supersede(r)
    PROVE  IInv'
<1>1. TableInv /\ ScannerInv /\ CounterType /\ OrderInv /\ OpenTx
  BY InvParts
<1>2. /\ Done(r, "superseded") /\ "superseded" \in Pc \ {"matched", "open"}
      /\ pc' = [pc EXCEPT ![r] = "superseded"] /\ committed' = committed \cup {r}
      /\ UNCHANGED <<defect, next, obs, snap, alias, redone, humans, reruns>>
      /\ NobodyCommits
  BY DEF Supersede, Done, rows, Pc
<1>3. pc \in [Reports -> Pc]
  BY <1>1 DEF ScannerInv, ScannerType
<1>4. TableInv'
  <2>1. TableType' /\ History'
    BY <1>1, <1>2 DEF TableInv, TableType, History
  <2>2. NextFree' /\ IndexHolds(defect)' /\ ReferencesExist'
    BY <1>1, <1>2 DEF TableInv, NextFree, ReferencesExist
  <2> QED BY <2>1, <2>2 DEF TableInv
<1>5. ScannerInv'
  BY <1>1, <1>2, DoneInv
<1>6. OrderInv' /\ OpenTx'
  <2>1. \A q \in Reports : pc'[q] # "open"
    BY <1>2, <1>3 DEF NobodyCommits
  <2>2. OrderInv'
    BY <1>1, <1>2, CommitsAlone
  <2> QED BY <2>1, <2>2, NoneOpen
<1>8. CounterType'
  BY <1>1, <1>2 DEF CounterType
<1> QED BY <1>4, <1>5, <1>6, <1>8, InvNext

-----------------------------------------------------------------------------
(* What the matching decides.                                              *)

LEMMA FoundDecision ==
    ASSUME NEW db \in [Ids -> Row], NEW c \in Candidates(db), NEW f, f = Found(db, c)
    PROVE  f \in Decision /\ f.defect # 0 /\ f.verdict \in {"EXISTED", "REOPENED", "PROBABLE"}
<1>1. c \in Ids /\ c # 0
  BY DEF Candidates, Present, Ids
<1>2. MatchedVerdict(db[c].status) \in {"EXISTED", "REOPENED", "PROBABLE"}
  BY DEF MatchedVerdict
<1>3. f.defect = c /\ f.verdict = MatchedVerdict(db[c].status)
      /\ f = [defect |-> f.defect, verdict |-> f.verdict]
  BY DEF Found
<1> QED BY <1>1, <1>2, <1>3 DEF Decision, Verdicts

LEMMA FindingDecided ==
    ASSUME NEW db \in [Ids -> Row], NEW x, NEW d \in MatchFindings(db, x), NEW s \in x.found
    PROVE  /\ d[s] \in Decision /\ d[s].verdict \in {"NEW", "EXISTED", "REOPENED", "PROBABLE"}
           /\ d[s].defect = 0 => d[s].verdict \in {"NEW", "PROBABLE"}
<1>1. PICK b \in StrongBinding(db, x.found) :
          d \in {e \in [x.found -> Decision] : \A t \in x.found :
                    IF b[t] # 0 THEN e[t] = Found(db, b[t])
                    ELSE e[t] \in {Found(db, c) : c \in Candidates(db)} \cup
                                  {[defect |-> 0, verdict |-> "NEW"],
                                   [defect |-> 0, verdict |-> "PROBABLE"]}}
  BY DEF MatchFindings
<1>2. b[s] \in Candidates(db) \cup {0}
  BY <1>1 DEF StrongBinding
<1>3. d[s] \in Decision
  BY <1>1
<1>4. \/ \E c \in Candidates(db) : d[s] = Found(db, c)
      \/ d[s] = [defect |-> 0, verdict |-> "NEW"] \/ d[s] = [defect |-> 0, verdict |-> "PROBABLE"]
  BY <1>1, <1>2
<1> QED BY <1>3, <1>4, FoundDecision

LEMMA PassDecided ==
    ASSUME NEW db \in [Ids -> Row], NEW x, NEW d, NEW p \in MatchPasses(db, x, d),
           NEW s \in x.passed
    PROVE  p[s] \in Decision /\ (p[s].defect # 0 => p[s].verdict # "none")
<1> DEFINE left == [c \in Ids |-> IF \E t \in x.found : d[t].defect = c THEN Absent ELSE db[c]]
           spare == Candidates(left)
<1>1. PICK b \in StrongBinding(left, x.passed) :
          p \in {e \in [x.passed -> Decision] : \A t \in x.passed :
                    IF b[t] # 0 THEN e[t] = Cleared(b[t])
                    ELSE e[t] \in {Cleared(c) : c \in spare} \cup
                                  {Found(db, c) : c \in spare} \cup {Undecided}}
  BY DEF MatchPasses
<1>2. p[s] \in Decision
  BY <1>1
<1>3. \/ \E c : p[s] = Cleared(c)
      \/ \E c \in spare : p[s] = Found(db, c)
      \/ p[s] = Undecided
  BY <1>1
<1>4. \A c : Cleared(c).verdict # "none" /\ Found(db, c).verdict # "none"
  BY DEF Cleared, Found, MatchedVerdict
<1>5. Undecided.defect = 0
  BY DEF Undecided
<1> QED BY <1>2, <1>3, <1>4, <1>5

LEMMA LoadInv ==
    ASSUME IInv, NEW r \in Reports, Load(r)
    PROVE  IInv'
<1>1. TableInv /\ ScannerInv /\ CounterType /\ OrderInv /\ OpenTx
  BY InvParts
<1>2. PICK x \in IF tries[r] = 1 THEN Scans ELSE {scan[r]} :
        \E d \in MatchFindings(defect, x) : \E p \in MatchPasses(defect, x, d) :
          /\ scan' = [scan EXCEPT ![r] = x]
          /\ decision' = [decision EXCEPT ![r] = [s \in Slots |->
                IF s \in x.found THEN d[s]
                ELSE IF s \in x.passed THEN p[s] ELSE Undecided]]
  BY Zenon DEF Load
<1>2a. x \in Scans \cup {NoScan}
  BY <1>1, <1>2 DEF ScannerInv, ScannerType
<1>3. PICK d \in MatchFindings(defect, x) : \E p \in MatchPasses(defect, x, d) :
          /\ scan' = [scan EXCEPT ![r] = x]
          /\ decision' = [decision EXCEPT ![r] = [s \in Slots |->
                IF s \in x.found THEN d[s]
                ELSE IF s \in x.passed THEN p[s] ELSE Undecided]]
  BY <1>2
<1>4. PICK p \in MatchPasses(defect, x, d) :
          /\ scan' = [scan EXCEPT ![r] = x]
          /\ decision' = [decision EXCEPT ![r] = [s \in Slots |->
                IF s \in x.found THEN d[s]
                ELSE IF s \in x.passed THEN p[s] ELSE Undecided]]
  BY <1>3
<1>5. /\ pc[r] = "idle" /\ pc' = [pc EXCEPT ![r] = "matched"]
      /\ UNCHANGED <<table, tries, tx, humans, reruns, committed>>
  BY DEF Load, table
<1>6. pc \in [Reports -> Pc] /\ "matched" \in Pc \ {"open"}
  BY <1>1 DEF ScannerInv, ScannerType, Pc
<1> DEFINE dec == [s \in Slots |-> IF s \in x.found THEN d[s]
                                   ELSE IF s \in x.passed THEN p[s] ELSE Undecided]
<1>7. \A s \in Slots :
         /\ dec[s] \in Decision
         /\ s \in x.found =>
               /\ dec[s].verdict \in {"NEW", "EXISTED", "REOPENED", "PROBABLE"}
               /\ dec[s].defect = 0 => dec[s].verdict \in {"NEW", "PROBABLE"}
         /\ dec[s].defect # 0 => dec[s].verdict # "none"
  <2> SUFFICES ASSUME NEW s \in Slots
               PROVE /\ dec[s] \in Decision
                     /\ s \in x.found =>
                           /\ dec[s].verdict \in {"NEW", "EXISTED", "REOPENED", "PROBABLE"}
                           /\ dec[s].defect = 0 => dec[s].verdict \in {"NEW", "PROBABLE"}
                     /\ dec[s].defect # 0 => dec[s].verdict # "none"
    OBVIOUS
  <2>0. defect \in [Ids -> Row]
    BY <1>1 DEF TableInv, TableType
  <2>1. CASE s \in x.found
    <3>1. dec[s] = d[s]
      BY <2>1
    <3>2. /\ d[s] \in Decision /\ d[s].verdict \in {"NEW", "EXISTED", "REOPENED", "PROBABLE"}
          /\ d[s].defect = 0 => d[s].verdict \in {"NEW", "PROBABLE"}
      BY <2>0, <2>1, FindingDecided
    <3> HIDE DEF dec
    <3> QED BY <3>1, <3>2
  <2>2. CASE s \notin x.found /\ s \in x.passed
    <3>1. dec[s] = p[s]
      BY <2>2
    <3>2. p[s] \in Decision /\ (p[s].defect # 0 => p[s].verdict # "none")
      BY <2>0, <2>2, PassDecided
    <3> HIDE DEF dec
    <3> QED BY <2>2, <3>1, <3>2
  <2>3. CASE s \notin x.found /\ s \notin x.passed
    <3>1. dec[s] = Undecided
      BY <2>3
    <3>2. Undecided \in Decision /\ Undecided.defect = 0
      BY DEF Undecided, Decision
    <3> HIDE DEF dec
    <3> QED BY <2>3, <3>1, <3>2
  <2> QED BY <2>1, <2>2, <2>3
<1>8. scan' = [scan EXCEPT ![r] = x] /\ decision' = [decision EXCEPT ![r] = dec]
      /\ dec \in [Slots -> Decision]
  BY <1>4, <1>7
<1> HIDE DEF dec
<1>9. ScannerType'
  BY <1>1, <1>2a, <1>5, <1>6, <1>8 DEF ScannerInv, ScannerType
<1>10. Decided'
  <2> SUFFICES ASSUME NEW q \in Reports, pc'[q] \in {"matched", "open"}, NEW s \in Slots
               PROVE /\ Sure(q, s)'
                     /\ s \in scan'[q].found \/ decision'[q][s].defect # 0
                           => decision'[q][s].verdict # "none"
    BY DEF Decided
  <2>1. CASE q = r
    <3>1. scan'[q] = x /\ decision'[q] = dec
      BY <1>1, <1>8, <2>1 DEF ScannerInv, ScannerType
    <3> QED BY <1>7, <3>1 DEF Sure
  <2>2. CASE q # r
    <3>1. scan'[q] = scan[q] /\ decision'[q] = decision[q] /\ pc'[q] = pc[q]
      BY <1>1, <1>5, <1>8, <2>2 DEF ScannerInv, ScannerType
    <3> QED BY <1>1, <3>1 DEF ScannerInv, Decided, Sure
  <2> QED BY <2>1, <2>2
<1>11. TableInv' /\ OrderInv'
  BY <1>1, <1>5, <1>6, TableSame, LeavesOpen
<1>12. OpenTx'
  BY <1>1, <1>5, <1>6, OpenSame DEF ScannerInv, ScannerType
<1>14. ScannerInv' /\ CounterType'
  BY <1>1, <1>5, <1>9, <1>10 DEF ScannerInv, CounterType
<1> QED BY <1>11, <1>12, <1>14, InvNext

LEMMA BeginInv ==
    ASSUME IInv, NEW r \in Reports, Begin(r)
    PROVE  IInv'
<1>1. TableInv /\ ScannerInv /\ CounterType /\ OrderInv /\ OpenTx
  BY InvParts
<1> DEFINE back == Rollback(r)
<1>2. /\ pc[r] = "matched" /\ pc' = [pc EXCEPT ![r] = "open"]
      /\ tx' = [tx EXCEPT ![r] = [view |-> back.db, touched |-> back.touched,
                                  claims |-> {}]]
      /\ UNCHANGED <<table, scan, tries, decision, humans, reruns>> /\ NobodyCommits
  BY DEF Begin, Opened
<1>3. /\ back.db \in [Ids -> Row] /\ back.touched \in SUBSET Ids
      /\ back.touched \subseteq Present(defect)
      /\ \A d \in Ids \ back.touched : back.db[d] = defect[d]
  BY RollbackType DEF IInv
<1>4. r \notin committed => back.db = defect
  BY RollbackFresh DEF IInv
<1> HIDE DEF back
<1>5. TableInv' /\ OrderInv'
  BY <1>1, <1>2, TableSame, BeginInOrder
<1>6. /\ pc \in [Reports -> Pc]
      /\ UNCHANGED <<defect, next, committed, redone>>
  BY <1>1, <1>2 DEF ScannerInv, ScannerType, table, rows
<1>7. ScannerType'
  BY <1>1, <1>2, <1>3 DEF ScannerInv, ScannerType, Pc
<1>8. Decided'
  BY <1>1, <1>2, <1>6 DEF ScannerInv, Decided, Sure
<1>9. OpenTx'
  <2> SUFFICES ASSUME NEW q \in Reports, pc'[q] = "open"
               PROVE /\ tx'[q].view \in [Ids -> Row]
                     /\ \A d \in Ids : d >= next' => tx'[q].view[d].status = "none"
                     /\ q \notin committed' =>
                           /\ \A d \in Ids : Kept(tx'[q].view[d], defect'[d])
                           /\ redone' = {} => \A d \in Ids : tx'[q].view[d].status = "MERGED" =>
                                                tx'[q].view[d].into \in Present(tx'[q].view)
                           /\ Claimed(tx'[q], defect')
    BY DEF OpenTx
  <2>1. q = r
    BY <1>2, <1>6 DEF NobodyCommits
  <2>2. tx'[q].view = back.db /\ Claimed(tx'[q], defect')
    BY <1>1, <1>2, <2>1 DEF ScannerInv, ScannerType, Claimed
  <2>3. \A d \in Ids : d >= next => back.db[d].status = "none"
    BY <1>1, <1>3 DEF TableInv, NextFree, Present
  <2>4. \A d \in Ids : Kept(defect[d], defect[d])
    BY <1>1 DEF Kept, TableInv, TableType, Row
  <2>5. redone = {} => \A d \in Ids : defect[d].status = "MERGED" =>
                          defect[d].into \in Present(defect)
    BY <1>1 DEF TableInv, ReferencesExist
  <2> QED BY <1>3, <1>4, <1>6, <2>1, <2>2, <2>3, <2>4, <2>5
<1>11. ScannerInv' /\ CounterType'
  BY <1>1, <1>2, <1>7, <1>8 DEF ScannerInv, CounterType
<1> QED BY <1>5, <1>9, <1>11, InvNext

\* Where the transaction looks for another active row, before a first commit,
\* there is none.
LEMMA CheckInv ==
    ASSUME IInv, NEW r \in Reports, Check(r)
    PROVE  IInv'
<1>1. TableInv /\ ScannerInv /\ CounterType /\ OrderInv /\ OpenTx
  BY InvParts
<1>2. /\ tx' = [tx EXCEPT ![r].claims = Claims(r)]
      /\ UNCHANGED <<table, pc, scan, tries, decision, humans, reruns>>
  BY DEF Check
<1>3. UNCHANGED <<defect, next, committed, redone>>
  BY <1>2 DEF table, rows
<1>4. /\ Claims(r) \in SUBSET Claim
      /\ \A c \in Claims(r) : ActiveIn(Rollback(r).db, c.slot) = {}
  BY DEF Claims
<1>5. \A c \in Claims(r) : r \notin committed => ActiveIn(defect, c.slot) = {}
  BY <1>4, RollbackFresh DEF IInv
<1> DEFINE claims == Claims(r)
<1>6. claims \in SUBSET Claim /\ tx' = [tx EXCEPT ![r].claims = claims]
  BY <1>2, <1>4
<1>7. \A c \in claims : r \notin committed => ActiveIn(defect, c.slot) = {}
  BY <1>5
<1> HIDE DEF claims
<1>8. tx \in [Reports -> [view : [Ids -> Row] \cup {<<>>}, touched : SUBSET Ids,
                          claims : SUBSET Claim]]
  BY <1>1 DEF ScannerInv, ScannerType
<1>9. /\ \A q \in Reports : tx'[q].view = tx[q].view
      /\ \A q \in Reports \ {r} : tx'[q] = tx[q]
      /\ tx'[r].claims = claims
  BY <1>6, <1>8
<1>10. ScannerType'
  BY <1>1, <1>2, <1>6, <1>8 DEF ScannerInv, ScannerType
<1>11. Decided'
  BY <1>1, <1>2 DEF ScannerInv, Decided, Sure
<1>12. OpenTx'
  <2>1. ASSUME NEW q \in Reports \ committed, pc[q] = "open"
        PROVE  Claimed(tx'[q], defect)
    <3>1. CASE q = r
      BY <1>7, <1>9, <2>1, <3>1 DEF Claimed
    <3>2. CASE q # r
      BY <1>1, <1>9, <2>1, <3>2 DEF OpenTx
    <3> QED BY <3>1, <3>2
  <2> SUFFICES ASSUME NEW q \in Reports, pc'[q] = "open"
               PROVE /\ tx'[q].view \in [Ids -> Row]
                     /\ \A d \in Ids : d >= next' => tx'[q].view[d].status = "none"
                     /\ q \notin committed' =>
                           /\ \A d \in Ids : Kept(tx'[q].view[d], defect'[d])
                           /\ redone' = {} => \A d \in Ids : tx'[q].view[d].status = "MERGED" =>
                                                tx'[q].view[d].into \in Present(tx'[q].view)
                           /\ Claimed(tx'[q], defect')
    BY DEF OpenTx
  <2> QED BY <1>1, <1>2, <1>3, <1>9, <2>1 DEF OpenTx
<1>13. TableInv' /\ OrderInv'
  BY <1>1, <1>2, <1>3, TableSame DEF OrderInv
<1>14. ScannerInv' /\ CounterType'
  BY <1>1, <1>2, <1>10, <1>11 DEF ScannerInv, CounterType
<1> QED BY <1>12, <1>13, <1>14, InvNext

-----------------------------------------------------------------------------
(* What a commit stores.                                                   *)

LEMMA Applied ==
    ASSUME IInv, NEW r \in Reports, Apply(r), NEW back, back = Rollback(r),
           NEW k, k = Commit(r).row
    PROVE  /\ k \in Tx /\ k.fault = "none" /\ IndexHolds(k.db)
           /\ Phase3(r, Committable(r), Present(tx[r].view), back.db, tx[r].view, k)
           /\ defect' = k.db /\ next' = k.next
           /\ obs' = back.rest \cup {[report |-> r, slot |-> s, defect |-> k.seen[s].defect,
                                      verdict |-> k.seen[s].verdict] : s \in Committable(r)}
           /\ alias' = [s \in Slots |-> Healed(back.alias[s], r, k.mem[s])]
           /\ snap' = [snap EXCEPT ![r] = k.snap]
<1> DEFINE c == Commit(r)
<1>1. pc[r] = "open" /\ Stored(r, c)
  BY DEF Apply
<1>2. c.row \in Tx /\ c = Outcome(r, back, c.row) /\ c.row = k
      /\ (k.fault = "none" =>
            Phase3(r, Committable(r), Present(tx[r].view), back.db, tx[r].view, k))
  BY <1>1, CommitRows
<1> HIDE DEF c
<1>3. c = Outcome(r, back, k) /\ c.row = k /\ k \in Tx
  BY <1>2
<1>4. c.fault = "none"
  BY <1>1 DEF Stored
<1>5. k.fault = "none" /\ IndexHolds(k.db)
  <2>1. c.fault = IF k.fault = "none" /\ ~IndexHolds(k.db) THEN "index" ELSE k.fault
    BY <1>3 DEF Outcome
  <2> QED BY <1>4, <2>1
<1>6. Phase3(r, Committable(r), Present(tx[r].view), back.db, tx[r].view, k)
  BY <1>2, <1>5
<1>7. defect' = k.db
  <2>1. defect' = [d \in Ids |-> IF d \in k.dirty THEN k.db[d] ELSE defect[d]]
    BY <1>1, <1>3 DEF Stored
  <2>2. \A d \in Ids \ k.dirty : k.db[d] = defect[d]
    BY <1>6 DEF Phase3, Basic
  <2>3. k.db \in [Ids -> Row]
    BY <1>3 DEF Tx
  <2> QED BY <2>1, <2>2, <2>3
<1>8. /\ next' = k.next
      /\ obs' = back.rest \cup {[report |-> r, slot |-> s, defect |-> k.seen[s].defect,
                                 verdict |-> k.seen[s].verdict] : s \in Committable(r)}
      /\ alias' = [s \in Slots |-> Healed(back.alias[s], r, k.mem[s])]
      /\ snap' = [snap EXCEPT ![r] = k.snap]
  BY <1>1, <1>3 DEF Stored, Outcome
<1> QED BY <1>3, <1>5, <1>6, <1>7, <1>8

LEMMA HealedType ==
    ASSUME NEW a \in Alias, NEW r \in Reports \cup {0}, NEW d \in Ids \cup {0}
    PROVE  /\ Healed(a, r, d) \in Alias
           /\ Healed(a, r, d).owner \in {a.owner, d}
           /\ Healed(a, r, d).last \in {a.last, r}
<1>1. CASE d = 0
  BY <1>1 DEF Healed
<1>2. CASE d # 0 /\ a.owner = 0
  BY <1>2 DEF Healed, Alias
<1>3. CASE d # 0 /\ a.owner # 0
  BY <1>3 DEF Healed, Alias
<1> QED BY <1>1, <1>2, <1>3

LEMMA AppliedObs ==
    ASSUME IInv, NEW r \in Reports, NEW k \in Tx, NEW S \in SUBSET Slots,
           \A s \in S : k.seen[s].verdict \in Verdicts, NEW rest \in SUBSET obs,
           NEW all, all = rest \cup {[report |-> r, slot |-> s, defect |-> k.seen[s].defect,
                                      verdict |-> k.seen[s].verdict] : s \in S}
    PROVE  all \subseteq Observation /\ IsFiniteSet(all)
<1> DEFINE f == [s \in S |-> [report |-> r, slot |-> s, defect |-> k.seen[s].defect,
                              verdict |-> k.seen[s].verdict]]
           own == {f[s] : s \in S}
<1>1. \A s \in S : k.seen[s].defect \in Ids \cup {0}
  BY DEF Tx, Decision
<1>2. own \subseteq Observation
  BY <1>1 DEF Observation
<1>3. IsFiniteSet(own)
  <2>1. IsFiniteSet(S)
    BY LedgerAssumption, FS_Subset
  <2> HIDE DEF f
  <2> QED BY <2>1, FiniteImage
<1>4. rest \subseteq Observation /\ IsFiniteSet(rest)
  BY FS_Subset DEF IInv, TypeOK
<1>5. all = rest \cup own
  OBVIOUS
<1> HIDE DEF f, own
<1>6. rest \cup own \subseteq Observation
  BY <1>2, <1>4
<1>7. IsFiniteSet(rest \cup own)
  BY <1>3, <1>4, FS_Union, Zenon
<1> QED BY <1>5, <1>6, <1>7, Zenon

\* The references that the commit leaves, if no commit was taken back.
LEMMA AppliedReferences ==
    ASSUME IInv, NEW r \in Reports, Apply(r), redone' = {}
    PROVE  ReferencesExist'
<1> DEFINE back == Rollback(r)
           k == Commit(r).row
           S == Committable(r)
<1>1. /\ k \in Tx /\ Phase3(r, S, Present(tx[r].view), back.db, tx[r].view, k)
      /\ defect' = k.db
      /\ obs' = back.rest \cup {[report |-> r, slot |-> s, defect |-> k.seen[s].defect,
                                 verdict |-> k.seen[s].verdict] : s \in S}
      /\ alias' = [s \in Slots |-> Healed(back.alias[s], r, k.mem[s])]
  BY Applied
<1>2. r \notin committed /\ redone = {}
  BY DEF Apply
<1>3. back.db = defect /\ back.rest = obs /\ back.alias = alias
  BY <1>2, RollbackFresh DEF IInv
<1> HIDE DEF back, k
<1>4. Refs(S, k) /\ Apart(defect, tx[r].view, k)
  BY <1>1, <1>2, <1>3 DEF Phase3
<1>5. Present(defect) \subseteq Present(k.db)
  BY <1>4 DEF Apart, Present
<1>6. /\ \A o \in obs : o.defect # 0 => o.defect \in Present(defect)
      /\ \A s \in Slots : alias[s].owner # 0 => alias[s].owner \in Present(defect)
  BY <1>2 DEF IInv, ReferencesExist
<1>7. \A o \in obs' : o.defect # 0 => o.defect \in Present(k.db)
  <2> SUFFICES ASSUME NEW o \in obs', o.defect # 0 PROVE o.defect \in Present(k.db)
    OBVIOUS
  <2>1. CASE o \in obs
    BY <1>5, <1>6, <2>1
  <2>2. CASE o \notin obs
    <3>1. PICK s \in S : o = [report |-> r, slot |-> s, defect |-> k.seen[s].defect,
                              verdict |-> k.seen[s].verdict]
      BY <1>1, <1>3, <2>2
    <3>2. k.seen[s].defect \in Present(k.db) \cup {0}
      BY <1>4 DEF Refs
    <3> QED BY <3>1, <3>2
  <2> QED BY <2>1, <2>2
<1>8. \A s \in Slots : alias'[s].owner # 0 => alias'[s].owner \in Present(k.db)
  <2> SUFFICES ASSUME NEW s \in Slots, alias'[s].owner # 0 PROVE alias'[s].owner \in Present(k.db)
    OBVIOUS
  <2>1. alias'[s] = Healed(alias[s], r, k.mem[s]) /\ alias[s] \in Alias
        /\ k.mem[s] \in Ids \cup {0} /\ k.mem[s] \in Present(k.db) \cup {0}
    BY <1>1, <1>3, <1>4 DEF Refs, Tx, IInv, TypeOK, Alias
  <2>2. alias'[s].owner \in {alias[s].owner, k.mem[s]}
    BY <2>1, HealedType
  <2> QED BY <1>5, <1>6, <2>1, <2>2
<1>9. \A d \in Ids : k.db[d].status = "MERGED" => k.db[d].into \in Present(k.db)
  BY <1>4 DEF Refs
<1> HIDE DEF S
<1>10. Present(defect)' = Present(k.db)
  BY <1>1 DEF Present
<1> QED BY <1>1, <1>7, <1>8, <1>9, <1>10 DEF ReferencesExist

LEMMA ApplyInv ==
    ASSUME IInv, NEW r \in Reports, Apply(r)
    PROVE  IInv'
<1> DEFINE back == Rollback(r)
           k == Commit(r).row
           S == Committable(r)
<1>1. TableInv /\ ScannerInv /\ CounterType /\ OrderInv /\ OpenTx
  BY InvParts
<1>2. /\ k \in Tx /\ k.fault = "none" /\ IndexHolds(k.db)
      /\ Phase3(r, S, Present(tx[r].view), back.db, tx[r].view, k)
      /\ defect' = k.db /\ next' = k.next
      /\ obs' = back.rest \cup {[report |-> r, slot |-> s, defect |-> k.seen[s].defect,
                                 verdict |-> k.seen[s].verdict] : s \in S}
      /\ alias' = [s \in Slots |-> Healed(back.alias[s], r, k.mem[s])]
      /\ snap' = [snap EXCEPT ![r] = k.snap]
  BY Applied
<1>3. back.rest = Others(r) /\ back.rest \in SUBSET obs /\ back.alias \in [Slots -> Alias]
  BY RollbackType DEF IInv
<1>4. S \in SUBSET Slots
  BY ScanParts DEF IInv, Committable, Groups
<1>5. \A d \in Ids : d >= k.next => k.db[d].status = "none"
  BY <1>2 DEF Phase3, Basic
<1>6. \A s \in S : k.seen[s].verdict \in Verdicts
  BY <1>2 DEF Phase3, Basic
<1>7. /\ pc[r] = "open" /\ pc' = [pc EXCEPT ![r] = "committed"] /\ committed' = committed \cup {r}
      /\ redone' = IF r \in committed THEN redone \cup {r} ELSE redone
      /\ Done(r, "committed") /\ "committed" \in Pc \ {"matched", "open"}
      /\ UNCHANGED <<humans, reruns>>
  BY DEF Apply, Done, Pc
<1>8. pc \in [Reports -> Pc]
  BY <1>1 DEF ScannerInv, ScannerType
<1>9. \A s \in Slots : back.alias[s].last \in committed \cup {0}
  <2> SUFFICES ASSUME NEW s \in Slots PROVE back.alias[s].last \in committed \cup {0}
    OBVIOUS
  <2> DEFINE seenIn == {o.report : o \in {q \in Others(r) : q.defect = alias[s].owner}}
             gone == OnlyIn(r, Others(r))
  <2>1. back.alias[s] = Unhealed(alias[s], r, Others(r), gone)
    BY DEF Rollback, Undo
  <2>2. alias[s].last \in committed \cup {0} /\ alias[s] \in Alias
    BY <1>1 DEF TableInv, TableType, History
  <2>3. seenIn # {} => Largest(seenIn) \in committed \cup {0}
    <3>1. IsFiniteSet({q \in Others(r) : q.defect = alias[s].owner})
      <4>1. {q \in Others(r) : q.defect = alias[s].owner} \subseteq obs /\ IsFiniteSet(obs)
        BY <1>1 DEF Others, TableInv, TableType
      <4> QED BY <4>1, FS_Subset
    <3>2. IsFiniteSet(seenIn)
      <4> DEFINE W == {q \in Others(r) : q.defect = alias[s].owner}
                 f == [o \in W |-> o.report]
      <4>1. IsFiniteSet({f[o] : o \in W})
        BY <3>1, FiniteImage
      <4>2. seenIn = {f[o] : o \in W}
        OBVIOUS
      <4> QED BY <4>1, <4>2
    <3>3. seenIn \subseteq committed \cup {0}
      BY <1>1 DEF TableInv, History, Others
    <3>4. committed \cup {0} \subseteq Nat
      BY <1>1, LedgerAssumption DEF TableInv, TableType
    <3> HIDE DEF seenIn
    <3> QED BY <3>2, <3>3, <3>4, HasLargest
  <2>4. Unhealed(alias[s], r, Others(r), gone) =
            IF alias[s].owner \notin gone /\ alias[s].last # r THEN alias[s]
            ELSE IF alias[s].owner \in gone \/ seenIn = {} THEN NoAlias
            ELSE [alias[s] EXCEPT !.last = Largest(seenIn)]
    BY DEF Unhealed
  <2>5. NoAlias.last = 0
    BY DEF NoAlias
  <2> HIDE DEF seenIn, gone, back
  <2>6. [alias[s] EXCEPT !.last = Largest(seenIn)].last = Largest(seenIn)
    BY <2>2 DEF Alias
  <2> QED BY <2>1, <2>2, <2>3, <2>4, <2>5, <2>6
<1> HIDE DEF back, k, S
<1>10. obs' \subseteq Observation /\ IsFiniteSet(obs')
  BY <1>2, <1>3, <1>4, <1>6, AppliedObs
<1>11. \A s \in Slots : /\ alias'[s] \in Alias
                        /\ alias'[s].last \in {back.alias[s].last, r}
  <2> SUFFICES ASSUME NEW s \in Slots
               PROVE alias'[s] \in Alias /\ alias'[s].last \in {back.alias[s].last, r}
    OBVIOUS
  <2>1. alias'[s] = Healed(back.alias[s], r, k.mem[s])
    BY <1>2
  <2>2. back.alias[s] \in Alias /\ k.mem[s] \in Ids \cup {0} /\ r \in Reports \cup {0}
    BY <1>2, <1>3 DEF Tx
  <2> QED BY <2>1, <2>2, HealedType
<1>12. TableType'
  <2>1. defect' \in [Ids -> Row] /\ next' \in Nat \ {0}
        /\ k.snap \in [Ids -> Snapshot \cup {NoSnapshot}]
    BY <1>2 DEF Tx
  <2>2. snap' \in [Reports -> [Ids -> Snapshot \cup {NoSnapshot}]]
    BY <1>1, <1>2, <2>1 DEF TableInv, TableType
  <2>3. alias' \in [Slots -> Alias]
    <3>1. alias' = [s \in Slots |-> alias'[s]]
      BY <1>2
    <3> QED BY <1>11, <3>1
  <2>4. committed' \subseteq Reports /\ redone' \subseteq committed'
    BY <1>1, <1>7 DEF TableInv, TableType
  <2> QED BY <1>10, <2>1, <2>2, <2>3, <2>4 DEF TableType
<1>13. History'
  <2>1. \A o \in obs' : o.report \in committed' \cup {0}
    <3> SUFFICES ASSUME NEW o \in obs' PROVE o.report \in committed' \cup {0}
      OBVIOUS
    <3>1. o \in obs \/ o.report = r
      BY <1>2, <1>3
    <3> QED BY <1>1, <1>7, <3>1 DEF TableInv, History
  <2>2. \A s \in Slots : alias'[s].last \in committed' \cup {0}
    BY <1>7, <1>9, <1>11
  <2> QED BY <2>1, <2>2 DEF History
<1>14. NextFree'
  BY <1>2, <1>5 DEF NextFree
<1>15. IndexHolds(defect)'
  <2>1. Present(defect)' = Present(k.db)
    BY <1>2 DEF Present
  <2> QED BY <1>2, <2>1 DEF IndexHolds
<1>16. ReferencesExist'
  <2>1. CASE redone' = {}
    BY <2>1, AppliedReferences
  <2>2. CASE redone' # {}
    BY <2>2 DEF ReferencesExist
  <2> QED BY <2>1, <2>2
<1>17. TableInv'
  BY <1>12, <1>13, <1>14, <1>15, <1>16 DEF TableInv
<1>18. ScannerInv'
  BY <1>1, <1>7, DoneInv
<1>19. OrderInv' /\ OpenTx'
  <2>1. \A q \in Reports : pc'[q] # "open"
    BY <1>1, <1>7, <1>8 DEF OrderInv
  <2>2. OrderInv'
    BY <1>1, <1>7, CommitsAlone
  <2> QED BY <2>1, <2>2, NoneOpen
<1>21. CounterType'
  BY <1>1, <1>7 DEF CounterType
<1> QED BY <1>17, <1>18, <1>19, <1>21, InvNext

-----------------------------------------------------------------------------
(* What people do to the invariant.                                        *)

\* A person leaves the scans as they are: it is the tables that matter, and
\* what the open transaction loaded of them.
LEMMA PersonInv ==
    ASSUME IInv, Unscanned, humans' \in 0 .. MaxHuman, TableInv', OpenTx'
    PROVE  IInv'
<1>1. TableInv /\ ScannerInv /\ CounterType /\ OrderInv /\ OpenTx
  BY InvParts
<1>2. UNCHANGED <<committed, redone, pc, scanner, reruns>>
  BY DEF Unscanned, scanner
<1>3. ScannerInv'
  BY <1>1, <1>2, ScannerSame
<1>4. OrderInv'
  BY <1>1, <1>2 DEF OrderInv
<1>6. CounterType'
  BY <1>1, <1>2 DEF CounterType
<1> QED BY <1>3, <1>4, <1>6, InvNext

LEMMA DecidesOnce ==
    ASSUME TypeOK, humans < MaxHuman, humans' = humans + 1
    PROVE  humans' \in 0 .. MaxHuman
<1>1. humans \in 0 .. MaxHuman /\ MaxHuman \in Nat
  BY LedgerAssumption DEF TypeOK
<1> QED BY <1>1

LEMMA NobodyOpen ==
    ASSUME NobodyCommits, UNCHANGED pc
    PROVE  OpenTx'
  BY DEF NobodyCommits, OpenTx

\* A person gives the row that is there a new version.
LEMMA PersonWrites ==
    ASSUME IInv, NEW d, d \in Present(defect), NEW row \in Row, row.status # "none",
           row.version > defect[d].version, defect' = [defect EXCEPT ![d] = row],
           UNCHANGED <<next, committed, redone, pc, tx>>
    PROVE  /\ defect' \in [Ids -> Row] /\ NextFree' /\ OpenTx'
           /\ Present(defect)' = Present(defect)
<1>1. d \in Ids /\ defect[d].status # "none" /\ defect \in [Ids -> Row]
  BY DEF Present, IInv, TypeOK
<1>2. defect' \in [Ids -> Row] /\ Present(defect)' = Present(defect)
  BY <1>1 DEF Present
<1>3. NextFree'
  BY <1>1 DEF IInv, NextFree
<1>4. ASSUME NEW r \in Reports \ committed, pc[r] = "open", NEW e \in Ids
      PROVE  Kept(tx[r].view[e], defect'[e])
  <2>1. Kept(tx[r].view[e], defect[e]) /\ tx[r].view[e] \in Row
    BY <1>4 DEF IInv, OpenTx
  <2>2. CASE e = d
    <3>1. defect'[e] = row
      BY <1>1, <2>2
    <3>2. row.version \in Nat /\ defect[d].version \in Nat /\ tx[r].view[e].version \in Nat
      BY <1>1, <2>1 DEF Row
    <3> QED BY <1>1, <2>1, <2>2, <3>1, <3>2 DEF Kept
  <2>3. CASE e # d
    BY <1>1, <2>1, <2>3
  <2> QED BY <2>2, <2>3
<1>4a. ASSUME NEW r \in Reports \ committed, pc[r] = "open" PROVE Claimed(tx[r], defect')
  <2>1. ASSUME NEW c \in tx[r].claims, NEW e \in ActiveIn(defect', c.slot)
        PROVE  defect'[e].version # tx[r].view[e].version
    <3>1. e \in Ids /\ Kept(tx[r].view[e], defect[e]) /\ tx[r].view[e] \in Row
      BY <1>4a, <2>1 DEF IInv, OpenTx, ActiveIn
    <3>2. CASE e = d
      <4>1. defect'[e] = row
        BY <1>1, <3>2
      <4>2. row.version \in Nat /\ defect[d].version \in Nat /\ tx[r].view[e].version \in Nat
        BY <1>1, <3>1 DEF Row
      <4> QED BY <3>1, <3>2, <4>1, <4>2 DEF Kept
    <3>3. CASE e # d
      <4>1. defect'[e] = defect[e] /\ e \in ActiveIn(defect, c.slot)
        BY <1>1, <2>1, <3>1, <3>3 DEF ActiveIn
      <4> QED BY <1>4a, <2>1, <4>1 DEF IInv, OpenTx, Claimed
    <3> QED BY <3>2, <3>3
  <2> QED BY <2>1 DEF Claimed
<1>5. OpenTx'
  <2> SUFFICES ASSUME NEW r \in Reports, pc'[r] = "open"
               PROVE /\ tx'[r].view \in [Ids -> Row]
                     /\ \A e \in Ids : e >= next' => tx'[r].view[e].status = "none"
                     /\ r \notin committed' =>
                           /\ \A e \in Ids : Kept(tx'[r].view[e], defect'[e])
                           /\ redone' = {} => \A e \in Ids : tx'[r].view[e].status = "MERGED" =>
                                                tx'[r].view[e].into \in Present(tx'[r].view)
                           /\ Claimed(tx'[r], defect')
    BY DEF OpenTx
  <2> QED BY <1>4, <1>4a DEF IInv, OpenTx
<1> QED BY <1>2, <1>3, <1>5

\* The parts of the tables, put together after a person's step.
LEMMA TablesChanged ==
    ASSUME IInv, defect' \in [Ids -> Row], next' \in Nat \ {0},
           obs' \subseteq Observation, IsFiniteSet(obs'),
           snap' \in [Reports -> [Ids -> Snapshot \cup {NoSnapshot}]],
           alias' \in [Slots -> Alias], UNCHANGED <<committed, redone>>,
           \A o \in obs' : o.report \in committed \cup {0},
           \A s \in Slots : alias'[s].last \in committed \cup {0},
           NextFree', IndexHolds(defect)', ReferencesExist'
    PROVE  TableInv'
<1>1. TableType'
  BY DEF TableType, IInv, TypeOK
<1>2. History'
  BY DEF History
<1> QED BY <1>1, <1>2 DEF TableInv

LEMMA TablesNow ==
    ASSUME IInv
    PROVE  /\ defect \in [Ids -> Row] /\ next \in Nat \ {0}
           /\ obs \subseteq Observation /\ IsFiniteSet(obs)
           /\ snap \in [Reports -> [Ids -> Snapshot \cup {NoSnapshot}]]
           /\ alias \in [Slots -> Alias]
           /\ \A o \in obs : o.report \in committed \cup {0}
           /\ \A s \in Slots : alias[s].last \in committed \cup {0}
  BY DEF IInv, TypeOK, History, Alias

LEMMA ObservationMoved ==
    ASSUME IInv, NEW o \in obs, NEW d \in Ids, NEW moved, moved = Moved(o, d)
    PROVE  /\ moved \subseteq Observation /\ IsFiniteSet(moved)
           /\ \A q \in moved : q.report \in committed \cup {0}
           /\ \A q \in moved : q \in obs \/ q.defect = d
<1> DEFINE p == [o EXCEPT !.defect = d, !.verdict = "EXISTED"]
<1>1. o \in Observation /\ o.report \in committed \cup {0}
  BY TablesNow
<1>2. p \in Observation /\ p.report = o.report /\ p.defect = d
  BY <1>1 DEF Observation, Verdicts
<1>3. moved = (obs \ {o}) \cup {p}
  BY DEF Moved
<1>4. IsFiniteSet(obs \ {o}) /\ IsFiniteSet({p})
  BY TablesNow, FS_Subset, FS_Singleton
<1> HIDE DEF p
<1>5. IsFiniteSet(moved)
  BY <1>3, <1>4, FS_Union
<1> QED BY <1>1, <1>2, <1>3, <1>5, TablesNow

LEMMA AliasHealed ==
    ASSUME IInv, NEW s \in Slots, NEW d \in Ids,
           alias' = [alias EXCEPT ![s] = Healed(@, 0, d)]
    PROVE  /\ alias' \in [Slots -> Alias]
           /\ \A t \in Slots : alias'[t].last \in committed \cup {0}
           /\ \A t \in Slots : alias'[t].owner \in {alias[t].owner, d}
<1>1. alias[s] \in Alias /\ alias \in [Slots -> Alias]
      /\ \A t \in Slots : alias[t].last \in committed \cup {0}
  BY TablesNow
<1>2. /\ Healed(alias[s], 0, d) \in Alias
      /\ Healed(alias[s], 0, d).owner \in {alias[s].owner, d}
      /\ Healed(alias[s], 0, d).last \in {alias[s].last, 0}
  BY <1>1, HealedType
<1> QED BY <1>1, <1>2

\* The row a person makes of v.
LEMMA PersonRow ==
    ASSUME NEW v \in Row, NEW st \in Status, NEW w \in Row, w.status = st, w.version = v.version,
           NEW row, row = Bumped(w)
    PROVE  /\ row \in Row /\ row.status = st /\ row.status # "none"
           /\ row.version > v.version /\ row.into = w.into /\ row.slot = w.slot
<1>1. /\ Bumped(w) \in Row /\ Bumped(w).version = w.version + 1
      /\ Bumped(w).slot = w.slot /\ Bumped(w).status = w.status /\ Bumped(w).into = w.into
  BY BumpedRow
<1>2. v.version \in Nat /\ st # "none"
  BY DEF Row, Status, Advancing, Exempt, Active
<1> QED BY <1>1, <1>2

LEMMA SetStatusInv ==
    ASSUME IInv, NEW d \in Ids, NEW st \in Status, SetStatus(d, st)
    PROVE  IInv'
<1> DEFINE row == Bumped([defect[d] EXCEPT !.status = st])
<1>1. /\ d \in Present(defect) /\ humans < MaxHuman /\ humans' = humans + 1
      /\ st \in Settable \cup {defect[d].status}
      /\ defect' = [defect EXCEPT ![d] = row] /\ IndexHolds(defect')
      /\ UNCHANGED <<next, obs, snap, alias, committed, redone, pc, tx>> /\ Unscanned
  BY DEF SetStatus, Decides, Admits, Unscanned, scanner
<1>2. defect \in [Ids -> Row] /\ defect[d] \in Row /\ defect[d].status # "none"
  BY <1>1, TablesNow DEF Present
<1>3. /\ row \in Row /\ row.status = st /\ row.into = defect[d].into
      /\ row.version > defect[d].version /\ row.status # "none"
  <2> DEFINE w == [defect[d] EXCEPT !.status = st]
  <2>1. w \in Row /\ w.status = st /\ w.version = defect[d].version /\ w.into = defect[d].into
    BY <1>2 DEF Row
  <2>2. row = Bumped(w)
    OBVIOUS
  <2> HIDE DEF w, row
  <2> QED BY <1>2, <2>1, <2>2, PersonRow
<1> HIDE DEF row
<1>4. /\ defect' \in [Ids -> Row] /\ NextFree' /\ OpenTx'
      /\ Present(defect)' = Present(defect)
  BY <1>1, <1>3, PersonWrites
<1>5. IndexHolds(defect)'
  BY <1>1, <1>4 DEF IndexHolds, Present
<1>6. ReferencesExist'
  <2>1. \A e \in Ids : defect'[e].status = "MERGED" =>
           defect[e].status = "MERGED" /\ defect'[e].into = defect[e].into
    BY <1>1, <1>2, <1>3, LedgerAssumption
  <2> QED BY <1>1, <1>4, <2>1 DEF IInv, ReferencesExist
<1>7. TableInv'
  BY <1>1, <1>4, <1>5, <1>6, TablesNow, TablesChanged
<1>8. humans' \in 0 .. MaxHuman
  BY <1>1, DecidesOnce DEF IInv
<1> QED BY <1>1, <1>4, <1>7, <1>8, PersonInv

LEMMA MergeInv ==
    ASSUME IInv, NEW d \in Ids, NEW e \in Ids, Merge(d, e)
    PROVE  IInv'
<1> DEFINE row == Bumped([defect[d] EXCEPT !.status = "MERGED", !.into = e])
<1>1. /\ d \in Present(defect) /\ e \in Present(defect)
      /\ humans < MaxHuman /\ humans' = humans + 1
      /\ defect' = [defect EXCEPT ![d] = row]
      /\ alias' = [s \in Slots |-> IF alias[s].owner = d
                                   THEN [alias[s] EXCEPT !.owner = e] ELSE alias[s]]
      /\ UNCHANGED <<next, obs, snap, committed, redone, pc, tx>> /\ Unscanned
  BY DEF Merge, Decides, Unscanned, scanner
<1>2. defect \in [Ids -> Row] /\ defect[d] \in Row /\ alias \in [Slots -> Alias]
  BY TablesNow
<1>3. /\ row \in Row /\ row.status = "MERGED" /\ row.into = e
      /\ row.version > defect[d].version /\ row.status # "none"
  <2> DEFINE w == [defect[d] EXCEPT !.status = "MERGED", !.into = e]
  <2>1. "MERGED" \in Status
    BY DEF Status, Exempt
  <2>2. w \in Row /\ w.status = "MERGED" /\ w.version = defect[d].version /\ w.into = e
    BY <1>2, <2>1 DEF Row
  <2>3. row = Bumped(w)
    OBVIOUS
  <2> HIDE DEF w, row
  <2> QED BY <1>2, <2>1, <2>2, <2>3, PersonRow
<1> HIDE DEF row
<1>4. /\ defect' \in [Ids -> Row] /\ NextFree' /\ OpenTx'
      /\ Present(defect)' = Present(defect)
  BY <1>1, <1>3, PersonWrites
<1>5. \A c \in Ids : defect'[c].status = Active => defect'[c] = defect[c]
  BY <1>1, <1>2, <1>3 DEF Active
<1>6. IndexHolds(defect)'
  BY <1>4, <1>5 DEF IInv, IndexHolds, Present
<1>7. \A s \in Slots : /\ alias'[s] \in Alias /\ alias'[s].last = alias[s].last
                       /\ alias'[s].owner \in {alias[s].owner, e}
  BY <1>1, <1>2 DEF Alias
<1>8. ReferencesExist'
  <2>1. \A c \in Ids : defect'[c].status = "MERGED" =>
           \/ defect[c].status = "MERGED" /\ defect'[c].into = defect[c].into
           \/ defect'[c].into = e
    BY <1>1, <1>2, <1>3
  <2> QED BY <1>1, <1>4, <1>7, <2>1 DEF IInv, ReferencesExist
<1>9. alias' \in [Slots -> Alias]
  <2>1. alias' = [s \in Slots |-> alias'[s]]
    BY <1>1
  <2> QED BY <1>7, <2>1
<1>10. TableInv'
  BY <1>1, <1>4, <1>6, <1>7, <1>8, <1>9, TablesNow, TablesChanged
<1>11. humans' \in 0 .. MaxHuman
  BY <1>1, DecidesOnce DEF IInv
<1> QED BY <1>1, <1>4, <1>10, <1>11, PersonInv

\* Somebody binds a probable observation to the defect d.
LEMMA BindParts ==
    ASSUME IInv, NEW o \in obs, NEW d, Bind(o, d), Unscanned
    PROVE  /\ d \in Ids /\ d \in Present(defect) /\ Present(defect)' = Present(defect)
           /\ defect' \in [Ids -> Row] /\ NextFree' /\ OpenTx' /\ IndexHolds(defect)'
           /\ \A e \in Ids : defect'[e].status = "MERGED" =>
                 defect[e].status = "MERGED" /\ defect'[e].into = defect[e].into
           /\ obs' \subseteq Observation /\ IsFiniteSet(obs')
           /\ \A q \in obs' : q.report \in committed \cup {0}
           /\ \A q \in obs' : q \in obs \/ q.defect = d
           /\ UNCHANGED <<next, snap>> /\ humans' \in 0 .. MaxHuman
<1> DEFINE st == IF defect[d].status \in Exempt THEN defect[d].status ELSE Active
           row == Bumped(Revived(defect[d]))
<1>1. /\ d \in Present(defect) /\ humans < MaxHuman /\ humans' = humans + 1
      /\ defect' = [defect EXCEPT ![d] = row]
      /\ IndexHolds(defect') /\ obs' = Moved(o, d)
      /\ UNCHANGED <<next, snap, committed, redone, pc, tx>>
  BY DEF Bind, Decides, Admits, Unscanned, scanner
<1>2. d \in Ids /\ defect \in [Ids -> Row] /\ defect[d] \in Row /\ defect[d].status # "none"
  BY <1>1, TablesNow DEF Present
<1>3. st \in Status /\ (st = "MERGED" => defect[d].status = "MERGED")
  BY DEF Status, Exempt, Advancing, Active
<1>5. /\ row \in Row /\ row.status = st /\ row.into = defect[d].into
      /\ row.version > defect[d].version /\ row.status # "none"
  <2> DEFINE w == Revived(defect[d])
  <2>3. w = [defect[d] EXCEPT !.status = st]
    BY <1>2 DEF Revived, Row
  <2> HIDE DEF st
  <2>1. w \in Row /\ w.status = st /\ w.version = defect[d].version /\ w.into = defect[d].into
    BY <1>2, <1>3, <2>3 DEF Row
  <2>2. row = Bumped(w)
    OBVIOUS
  <2> HIDE DEF w, row
  <2> QED BY <1>2, <1>3, <2>1, <2>2, PersonRow
<1> HIDE DEF row, st
<1>6. /\ defect' \in [Ids -> Row] /\ NextFree' /\ OpenTx'
      /\ Present(defect)' = Present(defect)
  BY <1>1, <1>5, PersonWrites
<1>7. IndexHolds(defect)'
  BY <1>1, <1>6 DEF IndexHolds, Present
<1>8. \A e \in Ids : defect'[e].status = "MERGED" =>
           defect[e].status = "MERGED" /\ defect'[e].into = defect[e].into
  BY <1>1, <1>2, <1>3, <1>5
<1>9. /\ obs' \subseteq Observation /\ IsFiniteSet(obs')
      /\ \A q \in obs' : q.report \in committed \cup {0}
      /\ \A q \in obs' : q \in obs \/ q.defect = d
  BY <1>1, <1>2, ObservationMoved
<1>10. humans' \in 0 .. MaxHuman
  BY <1>1, DecidesOnce DEF IInv
<1> QED BY <1>1, <1>2, <1>6, <1>7, <1>8, <1>9, <1>10

LEMMA BindInv ==
    ASSUME IInv, NEW o \in obs, NEW d, Bind(o, d), Unscanned,
           UNCHANGED alias \/ alias' = [alias EXCEPT ![o.slot] = Healed(@, 0, d)]
    PROVE  IInv'
<1>1. /\ d \in Ids /\ d \in Present(defect) /\ Present(defect)' = Present(defect)
      /\ defect' \in [Ids -> Row] /\ NextFree' /\ OpenTx' /\ IndexHolds(defect)'
      /\ \A e \in Ids : defect'[e].status = "MERGED" =>
            defect[e].status = "MERGED" /\ defect'[e].into = defect[e].into
      /\ obs' \subseteq Observation /\ IsFiniteSet(obs')
      /\ \A q \in obs' : q.report \in committed \cup {0}
      /\ \A q \in obs' : q \in obs \/ q.defect = d
      /\ UNCHANGED <<next, snap>> /\ humans' \in 0 .. MaxHuman
  BY BindParts
<1>2. o.slot \in Slots
  BY TablesNow DEF Observation
<1>3. /\ alias' \in [Slots -> Alias]
      /\ \A t \in Slots : alias'[t].last \in committed \cup {0}
      /\ \A t \in Slots : alias'[t].owner \in {alias[t].owner, d}
  <2>1. CASE UNCHANGED alias
    BY <2>1, TablesNow
  <2>2. CASE alias' = [alias EXCEPT ![o.slot] = Healed(@, 0, d)]
    BY <1>1, <1>2, <2>2, AliasHealed
  <2> QED BY <2>1, <2>2
<1>4. UNCHANGED <<committed, redone>>
  BY DEF Unscanned
<1>5. ReferencesExist'
  BY <1>1, <1>3, <1>4 DEF IInv, ReferencesExist
<1>6. TableInv'
  BY <1>1, <1>3, <1>4, <1>5, TablesNow, TablesChanged
<1> QED BY <1>1, <1>6, PersonInv

\* createDefect for an observation: the row is new, or the active one.
LEMMA CreateInv ==
    ASSUME IInv, NEW o \in obs, o.report # 0, CreateFor(o), Unscanned, humans' \in 0 .. MaxHuman
    PROVE  IInv'
<1> DEFINE owner == ActiveIn(defect, o.slot)
           d == IF owner = {} THEN next ELSE Smallest(owner)
           row == NewRow(o.slot, o.report)
<1>1. /\ NobodyCommits /\ d \in Ids
      /\ defect' = IF owner = {} THEN [defect EXCEPT ![d] = row] ELSE defect
      /\ next' = IF owner = {} THEN next + 1 ELSE next
      /\ obs' = Moved(o, d) /\ alias' = [alias EXCEPT ![o.slot] = Healed(@, 0, d)]
      /\ UNCHANGED <<snap, committed, redone, pc>>
  BY DEF CreateFor, Unscanned, scanner
<1>2. o.slot \in Slots /\ o.report \in Reports
  BY TablesNow DEF Observation
<1>3. row \in Row /\ row.status = Active /\ row.slot = o.slot
  BY <1>2, NewRowType
<1>4. owner # {} => d \in Present(defect)
  <2>1. owner \subseteq Ids /\ owner \subseteq Nat
    BY DEF ActiveIn, Ids
  <2>2. owner # {} => Smallest(owner) \in owner
    BY <2>1, HasSmallest
  <2>3. owner \subseteq Present(defect)
    BY DEF ActiveIn, Present, Active
  <2> QED BY <2>2, <2>3
<1>5. d \in Ids /\ (owner = {} => d = next /\ next \in Ids)
  BY <1>1
<1> HIDE DEF d, row
<1>6. owner = {} <=> \A e \in Ids : ~(defect[e].status = Active /\ defect[e].slot = o.slot)
  BY DEF ActiveIn
<1> HIDE DEF owner
<1>7. defect \in [Ids -> Row] /\ next \in Nat \ {0} /\ NextFree /\ IndexHolds(defect)
  BY TablesNow DEF IInv
<1>8. defect' \in [Ids -> Row] /\ next' \in Nat \ {0} /\ next' >= next
  BY <1>1, <1>3, <1>7
<1>9. Present(defect) \subseteq Present(defect)' /\ d \in Present(defect)'
  <2>1. Active # "none"
    BY DEF Active
  <2>2. CASE owner = {}
    BY <1>1, <1>3, <1>5, <1>7, <2>1, <2>2 DEF Present
  <2>3. CASE owner # {}
    <3>1. defect' = defect
      BY <1>1, <2>3
    <3>2. d \in Present(defect)
      BY <1>4, <2>3
    <3> QED BY <3>1, <3>2 DEF Present
  <2> QED BY <2>2, <2>3
<1>10. NextFree'
  <2>1. CASE owner = {}
    <3>1. ASSUME NEW e \in Ids, e >= next' PROVE defect'[e].status = "none"
      <4>1. e # next /\ e >= next
        BY <1>1, <1>7, <2>1, <3>1 DEF Ids
      <4> QED BY <1>1, <1>5, <1>7, <2>1, <4>1 DEF NextFree
    <3> QED BY <3>1 DEF NextFree
  <2>2. CASE owner # {}
    BY <1>1, <1>7, <2>2 DEF NextFree
  <2> QED BY <2>1, <2>2
<1>11. IndexHolds(defect)'
  <2>1. CASE owner = {}
    BY <1>1, <1>3, <1>5, <1>6, <1>7, <2>1 DEF IndexHolds, Present, Active
  <2>2. CASE owner # {}
    BY <1>1, <1>7, <2>2 DEF IndexHolds, Present
  <2> QED BY <2>1, <2>2
<1>12. /\ obs' \subseteq Observation /\ IsFiniteSet(obs')
       /\ \A q \in obs' : q.report \in committed \cup {0}
       /\ \A q \in obs' : q \in obs \/ q.defect = d
  BY <1>1, ObservationMoved
<1>13. /\ alias' \in [Slots -> Alias]
       /\ \A t \in Slots : alias'[t].last \in committed \cup {0}
       /\ \A t \in Slots : alias'[t].owner \in {alias[t].owner, d}
  BY <1>1, <1>2, AliasHealed
<1>14. \A e \in Ids : defect'[e].status = "MERGED" =>
           defect[e].status = "MERGED" /\ defect'[e] = defect[e]
  BY <1>1, <1>3, <1>7 DEF Active
<1>15. ReferencesExist'
  BY <1>1, <1>9, <1>12, <1>13, <1>14 DEF IInv, ReferencesExist
<1>16. TableInv'
  BY <1>1, <1>8, <1>10, <1>11, <1>12, <1>13, <1>15, TablesNow, TablesChanged
<1>17. OpenTx'
  BY <1>1, NobodyOpen
<1> QED BY <1>16, <1>17, PersonInv

LEMMA PurgeInv ==
    ASSUME IInv, NEW r \in Reports \cup {0}, Purge(r)
    PROVE  IInv'
<1>1. /\ obs' = {o \in obs : o.report # r} /\ humans < MaxHuman /\ humans' = humans + 1
      /\ snap' = [q \in Reports |-> IF q = r THEN NoSnapshots ELSE snap[q]]
      /\ UNCHANGED <<defect, next, alias, committed, redone, pc, tx>> /\ Unscanned
  BY DEF Purge, Unscanned, scanner
<1>2. obs' \subseteq obs /\ IsFiniteSet(obs')
  <2>1. obs' \subseteq obs
    BY <1>1
  <2> QED BY <2>1, TablesNow, FS_Subset
<1>3. snap' \in [Reports -> [Ids -> Snapshot \cup {NoSnapshot}]]
  <2>1. NoSnapshots \in [Ids -> Snapshot \cup {NoSnapshot}]
    BY DEF NoSnapshots
  <2>2. \A q \in Reports : snap'[q] \in [Ids -> Snapshot \cup {NoSnapshot}]
    BY <1>1, <2>1, TablesNow
  <2> QED BY <1>1, <2>2
<1>4. NextFree' /\ IndexHolds(defect)' /\ OpenTx'
  BY <1>1 DEF IInv, NextFree, OpenTx
<1>5. ReferencesExist'
  BY <1>1, <1>2 DEF IInv, ReferencesExist
<1>6. TableInv'
  BY <1>1, <1>2, <1>3, <1>4, <1>5, TablesNow, TablesChanged
<1>7. humans' \in 0 .. MaxHuman
  BY <1>1, DecidesOnce DEF IInv
<1> QED BY <1>1, <1>4, <1>6, <1>7, PersonInv

LEMMA PeopleInv == ASSUME IInv, People PROVE IInv'
<1>1. ASSUME NEW d \in Ids, NEW st \in Status, SetStatus(d, st) PROVE IInv'
  BY <1>1, SetStatusInv
<1>2. ASSUME NEW d \in Ids, NEW e \in Ids, Merge(d, e) PROVE IInv'
  BY <1>2, MergeInv
<1>3. ASSUME NEW o \in obs, Split(o) PROVE IInv'
  <2>1. o.report # 0 /\ CreateFor(o) /\ Unscanned /\ humans < MaxHuman /\ humans' = humans + 1
    BY <1>3 DEF Split, Decides
  <2>2. humans' \in 0 .. MaxHuman
    BY <2>1, DecidesOnce DEF IInv
  <2> QED BY <2>1, <2>2, CreateInv
<1>4. ASSUME NEW o \in obs, NEW d \in Ids, BindProbable(o, d) PROVE IInv'
  BY <1>4, BindInv DEF BindProbable
<1>5. ASSUME NEW o \in obs, Confirm(o) PROVE IInv'
  <2> DEFINE same == {d \in Present(defect) : defect[d].slot = o.slot}
  <2>1. CASE Bind(o, Smallest(same)) /\ Unscanned
             /\ alias' = [alias EXCEPT ![o.slot] = Healed(@, 0, Smallest(same))]
    <3> HIDE DEF same
    <3> QED BY <2>1, BindInv
  <2>2. CASE CreateFor(o) /\ o.report # 0 /\ Unscanned /\ humans < MaxHuman /\ humans' = humans + 1
    <3>1. humans' \in 0 .. MaxHuman
      BY <2>2, DecidesOnce DEF IInv
    <3> QED BY <2>2, <3>1, CreateInv
  <2> QED BY <1>5, <2>1, <2>2 DEF Confirm
<1>6. ASSUME NEW r \in Reports \cup {0}, Purge(r) PROVE IInv'
  BY <1>6, PurgeInv
<1> QED BY <1>1, <1>2, <1>3, <1>4, <1>5, <1>6 DEF People

-----------------------------------------------------------------------------
(* The invariant holds.                                                    *)

LEMMA IdsFinite == IsFiniteSet(Ids)
<1>1. 1 \in Int /\ MaxId \in Int
  BY LedgerAssumption
<1> QED BY <1>1, FS_Interval DEF Ids

LEMMA InitInv == ASSUME Init PROVE IInv
<1>1. PICK l \in Ledgers :
        /\ defect = l.defect /\ next = l.next
        /\ alias = [s \in Slots |-> [owner |-> l.alias[s], last |-> 0]]
        /\ obs = {[report |-> 0, slot |-> l.defect[d].slot, defect |-> d,
                   verdict |-> "EXISTED"] : d \in Present(l.defect)}
  BY DEF Init
<1>2. LedgerOK(l)
  BY LedgerAssumption
<1>3. /\ defect \in [Ids -> Row] /\ next \in Nat \ {0} /\ l.alias \in [Slots -> Ids \cup {0}]
      /\ \A s \in Slots : l.alias[s] < next
      /\ \A d \in Ids : defect[d].status = "none" <=> d >= next
  BY <1>1, <1>2 DEF LedgerOK
<1>4. \A d \in Ids : d < next => d \in Present(defect)
  BY <1>3 DEF Present, Ids
<1>5. obs \subseteq Observation /\ IsFiniteSet(obs)
  <2> DEFINE f == [d \in Present(defect) |->
                      [report |-> 0, slot |-> defect[d].slot, defect |-> d, verdict |-> "EXISTED"]]
  <2>1. obs = {f[d] : d \in Present(defect)}
    BY <1>1
  <2>2. Present(defect) \subseteq Ids
    BY DEF Present
  <2>3. \A d \in Present(defect) : f[d] \in Observation
    <3>1. \A d \in Present(defect) : defect[d].slot \in Slots
      BY <1>3, <2>2 DEF Row
    <3> QED BY <2>2, <3>1 DEF Observation, Verdicts
  <2>4. IsFiniteSet(Present(defect))
    BY <2>2, IdsFinite, FS_Subset
  <2> HIDE DEF f
  <2>5. IsFiniteSet({f[d] : d \in Present(defect)})
    BY <2>4, FiniteImage
  <2> QED BY <2>1, <2>3, <2>5
<1>6. snap = [r \in Reports |-> NoSnapshots] /\ committed = {} /\ redone = {}
      /\ pc = [r \in Reports |-> "idle"] /\ scan = [r \in Reports |-> NoScan]
      /\ tries = [r \in Reports |-> 1] /\ decision = [r \in Reports |-> NoDecisions]
      /\ tx = [r \in Reports |-> NoTx] /\ humans = 0 /\ reruns = 0
  BY DEF Init
<1>7. TableInv
  <2>1. /\ alias \in [Slots -> Alias]
        /\ \A s \in Slots : alias[s].last = 0
        /\ \A s \in Slots : alias[s].owner = l.alias[s]
    BY <1>1, <1>3 DEF Alias
  <2>2. NoSnapshots \in [Ids -> Snapshot \cup {NoSnapshot}]
    BY DEF NoSnapshots
  <2>3. TableType
    BY <1>3, <1>5, <1>6, <2>1, <2>2 DEF TableType
  <2>4. History
    <3>1. \A o \in obs : o.report = 0
      BY <1>1
    <3> QED BY <2>1, <3>1 DEF History
  <2>5. NextFree
    BY <1>3 DEF NextFree
  <2>6. IndexHolds(defect)
    <3>1. \A d, e \in Ids :
             /\ defect[d].status = Active /\ defect[e].status = Active
             /\ defect[d].slot = defect[e].slot
             => d = e
      BY <1>1, <1>2 DEF LedgerOK
    <3> QED BY <3>1 DEF IndexHolds, Present
  <2>7. ReferencesExist
    <3>1. \A o \in obs : o.defect \in Present(defect)
      BY <1>1
    <3>2. \A s \in Slots : alias[s].owner # 0 => alias[s].owner \in Present(defect)
      BY <1>3, <1>4, <2>1
    <3>3. \A d \in Ids : defect[d].status = "MERGED" => defect[d].into \in Present(defect)
      <4>1. \A d \in Ids : defect[d].status = "MERGED" =>
               defect[d].into # 0 /\ defect[d].into < next
        BY <1>1, <1>2 DEF LedgerOK
      <4>2. \A d \in Ids : defect[d].into \in Ids \cup {0}
        BY <1>3 DEF Row
      <4> QED BY <1>4, <4>1, <4>2
    <3> QED BY <3>1, <3>2, <3>3 DEF ReferencesExist
  <2> QED BY <2>3, <2>4, <2>5, <2>6, <2>7 DEF TableInv
<1>8. ScannerInv
  <2>1. NoDecisions \in [Slots -> Decision]
    BY DEF NoDecisions, Undecided, Decision
  <2>2. NoTx \in [view : [Ids -> Row] \cup {<<>>}, touched : SUBSET Ids, claims : SUBSET Claim]
    BY DEF NoTx
  <2>3. 1 \in 1 .. MaxTries
    BY LedgerAssumption
  <2>4. ScannerType
    BY <1>6, <2>1, <2>2, <2>3 DEF ScannerType, Pc
  <2>5. Decided
    BY <1>6 DEF Decided
  <2> QED BY <2>4, <2>5 DEF ScannerInv
<1>9. CounterType /\ OpenTx
  BY <1>6, LedgerAssumption DEF CounterType, OpenTx
<1>10. OrderInv
  BY InitOrder
<1> QED BY <1>7, <1>8, <1>9, <1>10, InvParts

LEMMA StutterInv == ASSUME IInv, UNCHANGED vars PROVE IInv'
<1>1. TableInv /\ ScannerInv /\ CounterType /\ OrderInv /\ OpenTx
  BY InvParts
<1>2. UNCHANGED <<table, scanner, humans, reruns, defect, next, committed, redone, pc, tx>>
  BY DEF vars, table, rows, scanner
<1>3. TableInv' /\ ScannerInv'
  BY <1>1, <1>2, TableSame, ScannerSame
<1>4. CounterType' /\ OrderInv'
  BY <1>1, <1>2 DEF CounterType, OrderInv
<1>5. OpenTx'
  BY <1>1, <1>2 DEF OpenTx, Kept, Present, Claimed, ActiveIn
<1> QED BY <1>3, <1>4, <1>5, InvNext

LEMMA StepInv == IInv /\ [Next]_vars => IInv'
<1> SUFFICES ASSUME IInv, [Next]_vars PROVE IInv'
  OBVIOUS
<1>1. ASSUME NEW r \in Reports, Scanner(r) PROVE IInv'
  BY <1>1, LoadInv, BeginInv, RefuseInv, SupersedeInv, CheckInv, CollideInv, ApplyInv,
     ConflictInv DEF Scanner
<1>2. ASSUME NEW r \in Reports, Fault(r) PROVE IInv'
  BY <1>2, AbortInv, RerunInv DEF Fault
<1>3. CASE People
  BY <1>3, PeopleInv
<1>4. CASE UNCHANGED vars
  BY <1>4, StutterInv
<1> QED BY <1>1, <1>2, <1>3, <1>4 DEF Next

\* The inductive invariant: what is stored fits together, and an open
\* transaction still knows what people did since it began.
THEOREM LedgerInvariant == Spec => []IInv
<1>1. Init => IInv
  BY InitInv
<1> QED BY <1>1, StepInv, PTL DEF Spec

\* Every row, observation, alias, decision and counter keeps its type,
\* whatever a commit folds into them (commitLedger, the handlers of people).
THEOREM LedgerTypes == Spec => []TypeOK
<1>1. IInv => TypeOK
  BY DEF IInv
<1> QED BY <1>1, LedgerInvariant, PTL

\* Observations, strong aliases and merges name defects that are there, until
\* a rollback takes a commit back (rollbackLedgerObservations, retention.go).
THEOREM ReferencesStayGood == Spec => []ReferencesExist
<1>1. IInv => ReferencesExist
  BY DEF IInv
<1> QED BY <1>1, LedgerInvariant, PTL

-----------------------------------------------------------------------------
(* What the first commit of a report may do.                               *)

\* The step is Apply.
LEMMA CommitIsApply ==
    ASSUME IInv, [Next]_vars, NEW r \in Reports, Commits(r)
    PROVE  Apply(r)
<1>1. pc[r] = "open" /\ pc'[r] = "committed" /\ pc \in [Reports -> Pc]
  BY DEF Commits, IInv, OrderInv
<1>2. ASSUME NEW q \in Reports, Scanner(q) \/ Fault(q) PROVE Apply(r)
  <2>1. CASE Load(q)
    BY <1>1, <2>1 DEF Load
  <2>2. CASE Begin(q)
    BY <1>1, <2>2 DEF Begin
  <2>3. CASE Refuse(q)
    BY <1>1, <2>3 DEF Refuse, Done
  <2>4. CASE Supersede(q)
    BY <1>1, <2>4 DEF Supersede, Done
  <2>5. CASE Apply(q)
    BY <1>1, <2>5 DEF Apply, Done
  <2>6. CASE Conflict(q)
    BY <1>1, <2>6 DEF Conflict, Stopped, Retry, Done
  <2>7. CASE Abort(q)
    BY <1>1, <2>7 DEF Abort, Done
  <2>8. CASE Rerun(q)
    BY <1>1, <2>8 DEF Rerun
  <2>9. CASE Check(q)
    BY <1>1, <2>9 DEF Check
  <2>10. CASE Collide(q)
    BY <1>1, <2>10 DEF Collide, Done
  <2> QED BY <1>2, <2>1, <2>2, <2>3, <2>4, <2>5, <2>6, <2>7, <2>8, <2>9, <2>10
          DEF Scanner, Fault
<1>3. CASE People
  <2>1. UNCHANGED pc
    BY <1>3 DEF People, SetStatus, Merge, Split, Confirm, BindProbable, Purge,
                Unscanned, scanner
  <2> QED BY <1>1, <2>1
<1>4. CASE UNCHANGED vars
  BY <1>1, <1>4 DEF vars, scanner
<1> QED BY <1>2, <1>3, <1>4 DEF Next

\* What it stored, against the rows as they were.
LEMMA FirstStored ==
    ASSUME IInv, [Next]_vars, NEW r \in Reports, First(r),
           NEW k, k = Commit(r).row
    PROVE  /\ k \in Tx /\ defect' = k.db
           /\ Basic(r, Committable(r), Present(tx[r].view), defect, tx[r].view, k)
           /\ Apart(defect, tx[r].view, k)
           /\ Evidence(Committable(r), scan[r], defect, k)
           /\ redone = {} => Refs(Committable(r), k)
                             /\ Landed(r, Committable(r), Committable(r), tx[r].view, k)
           /\ \A s \in Committable(r) :
                 [report |-> r, slot |-> s, defect |-> k.seen[s].defect,
                  verdict |-> k.seen[s].verdict] \in obs'
           /\ \A o \in obs' : o.report = r =>
                 \E s \in Committable(r) : o.defect = k.seen[s].defect
<1>1. Commits(r) /\ r \notin committed
  BY DEF First
<1>2. Apply(r)
  BY <1>1, CommitIsApply
<1> DEFINE back == Rollback(r)
<1>3. /\ k \in Tx /\ defect' = k.db
      /\ Phase3(r, Committable(r), Present(tx[r].view), back.db, tx[r].view, k)
      /\ obs' = back.rest \cup {[report |-> r, slot |-> s, defect |-> k.seen[s].defect,
                                 verdict |-> k.seen[s].verdict] : s \in Committable(r)}
  BY <1>2, Applied
<1>4. back.db = defect /\ back.rest = obs
  BY <1>1, RollbackFresh DEF IInv
<1> HIDE DEF back
<1>5. \A s \in Committable(r) :
        [report |-> r, slot |-> s, defect |-> k.seen[s].defect,
         verdict |-> k.seen[s].verdict] \in obs'
  BY <1>3
<1>6. \A o \in obs : o.report # r
  <2>1. r # 0
    BY LedgerAssumption
  <2> QED BY <1>1, <2>1 DEF IInv, History
<1>7. \A o \in obs' : o.report = r =>
         \E s \in Committable(r) : o.defect = k.seen[s].defect
  BY <1>3, <1>4, <1>6
<1> QED BY <1>1, <1>3, <1>4, <1>5, <1>7 DEF Phase3

LEMMA FirstSticks ==
    ASSUME IInv, [Next]_vars, NEW r \in Reports, First(r), NEW d \in Present(defect)
    PROVE  /\ defect[d].status \in Exempt => defect'[d].status = defect[d].status
           /\ defect'[d].status # defect[d].status => defect'[d].version > defect[d].version
<1> DEFINE k == Commit(r).row
<1>1. Apart(defect, tx[r].view, k) /\ defect' = k.db
  BY FirstStored
<1> HIDE DEF k
<1>2. d \in Ids /\ defect[d].status # "none"
  BY DEF Present
<1> QED BY <1>1, <1>2 DEF Apart, Grown

LEMMA FirstEvidence ==
    ASSUME IInv, [Next]_vars, NEW r \in Reports, First(r), NEW d \in Ids,
           defect[d].status # "RESOLVED", defect'[d].status = "RESOLVED"
    PROVE  \/ /\ \A o \in obs' : o.report = r => o.defect # d
              /\ Resolves(scan[r], defect[d], defect'[d])
           \/ /\ ~scan[r].degraded
              /\ \E o \in obs' : o.report = r /\ o.defect = d /\ o.verdict = "CLEARED"
<1> DEFINE k == Commit(r).row
           S == Committable(r)
<1>1. /\ defect' = k.db /\ Evidence(S, scan[r], defect, k)
      /\ Basic(r, S, Present(tx[r].view), defect, tx[r].view, k)
      /\ \A s \in S : [report |-> r, slot |-> s, defect |-> k.seen[s].defect,
                       verdict |-> k.seen[s].verdict] \in obs'
      /\ \A o \in obs' : o.report = r => \E s \in S : o.defect = k.seen[s].defect
  BY FirstStored
<1> HIDE DEF k
<1>2. \/ d \notin k.matched /\ Resolves(scan[r], defect[d], defect'[d])
      \/ \E t \in S : k.seen[t].defect = d /\ k.seen[t].verdict = "CLEARED"
  BY <1>1 DEF Evidence
<1>3. ASSUME NEW t \in S, k.seen[t].defect = d, k.seen[t].verdict = "CLEARED"
      PROVE  /\ ~scan[r].degraded
             /\ \E o \in obs' : o.report = r /\ o.defect = d /\ o.verdict = "CLEARED"
  <2>1. decision[r][t].verdict = "CLEARED"
    BY <1>1, <1>3 DEF Basic
  <2>2. t \in Slots
    BY ScanParts DEF IInv, Committable, Groups
  <2>3. pc[r] = "open"
    BY DEF First, Commits
  <2>4. t \notin scan[r].found
    BY <2>1, <2>2, <2>3 DEF IInv, Decided, Sure
  <2>5. ~scan[r].degraded
    BY <2>1, <2>4 DEF Committable
  <2> HIDE DEF S
  <2> QED BY <1>1, <1>3, <2>5
<1>4. ASSUME d \notin k.matched, NEW o \in obs', o.report = r PROVE o.defect # d
  <2>1. PICK s \in S : o.defect = k.seen[s].defect
    BY <1>1, <1>4
  <2>2. k.seen[s].defect \in k.matched \cup {0} /\ d # 0
    BY <1>1 DEF Basic, Ids
  <2> QED BY <1>4, <2>1, <2>2
<1> QED BY <1>2, <1>3, <1>4

LEMMA FirstLands ==
    ASSUME IInv, [Next]_vars, NEW r \in Reports, First(r), redone = {}, NEW s \in scan[r].found
    PROVE  \E o \in obs' :
             /\ o.report = r /\ o.slot = s
             /\ \/ o.verdict = "PROBABLE"
                \/ defect'[o.defect].status \in {Active} \cup Exempt
                \/ tx[r].view[o.defect].status \in Exempt
                \/ \E p \in obs' : /\ p.report = r /\ p.defect = o.defect
                                   /\ p.verdict = "CLEARED"
<1> DEFINE k == Commit(r).row
           S == Committable(r)
           o == [report |-> r, slot |-> s, defect |-> k.seen[s].defect,
                 verdict |-> k.seen[s].verdict]
<1>1. /\ defect' = k.db /\ Landed(r, S, S, tx[r].view, k)
      /\ \A t \in S : [report |-> r, slot |-> t, defect |-> k.seen[t].defect,
                       verdict |-> k.seen[t].verdict] \in obs'
  BY FirstStored
<1>2. s \in S
  BY DEF Committable, Groups
<1> HIDE DEF k, S
<1>3. o \in obs' /\ o.report = r /\ o.slot = s
      /\ o.defect = k.seen[s].defect /\ o.verdict = k.seen[s].verdict
  BY <1>1, <1>2
<1>4. \/ o.verdict = "PROBABLE"
      \/ defect'[o.defect].status \in {Active} \cup Exempt
      \/ tx[r].view[o.defect].status \in Exempt
      \/ \E t \in S : k.seen[t].defect = o.defect /\ k.seen[t].verdict = "CLEARED"
  BY <1>1, <1>2, <1>3 DEF Landed
<1>5. ASSUME NEW t \in S, k.seen[t].defect = o.defect, k.seen[t].verdict = "CLEARED"
      PROVE  \E p \in obs' : p.report = r /\ p.defect = o.defect /\ p.verdict = "CLEARED"
  BY <1>1, <1>5
<1> HIDE DEF o
<1> QED BY <1>3, <1>4, <1>5

\* The first commit of a report leaves what a person closed or merged alone,
\* however late the decision came (the optimistic version check of
\* updateMatchedDefect and advanceUnmatchedDefects), and changes no status
\* without a new version.
THEOREM PeopleAreRespected == Spec => HumanDecisionsStick
<1>1. IInv /\ [Next]_vars => \A r \in Reports : First(r) => \A d \in Present(defect) :
        /\ defect[d].status \in Exempt => defect'[d].status = defect[d].status
        /\ defect'[d].status # defect[d].status => defect'[d].version > defect[d].version
  BY FirstSticks
<1> QED BY <1>1, LedgerInvariant, PTL DEF Spec, HumanDecisionsStick

\* No finding of a first commit is lost between the matching and the ledger:
\* it ends with a defect that is open, or with one of the reasons it is not
\* (persistFindingGroups, createDefect, updateMatchedDefect).
THEOREM FindingsAreNotLost == Spec => FindingsLand
<1>1. IInv /\ [Next]_vars =>
        \A r \in Reports : First(r) /\ redone = {} => \A s \in scan[r].found :
          \E o \in obs' :
             /\ o.report = r /\ o.slot = s
             /\ \/ o.verdict = "PROBABLE"
                \/ defect'[o.defect].status \in {Active} \cup Exempt
                \/ tx[r].view[o.defect].status \in Exempt
                \/ \E p \in obs' : /\ p.report = r /\ p.defect = o.defect
                                   /\ p.verdict = "CLEARED"
  BY FirstLands
<1> QED BY <1>1, LedgerInvariant, PTL DEF Spec, FindingsLand

\* What a first commit resolves has evidence: a passing group cleared it, in a
\* coverage that is not degraded, or no observation named it and the policy of
\* the scan resolves it (advanceUnmatchedDefects, the filter of the passing
\* groups).
THEOREM ResolutionsHaveEvidence == Spec => ResolvedOnEvidence
<1>1. IInv /\ [Next]_vars => \A r \in Reports : First(r) => \A d \in Ids :
        defect[d].status # "RESOLVED" /\ defect'[d].status = "RESOLVED"
             => \/ /\ ~scan[r].degraded
                   /\ \E o \in obs' : /\ o.report = r /\ o.defect = d
                                      /\ o.verdict = "CLEARED"
                \/ /\ \A o \in obs' : o.report = r => o.defect # d
                   /\ \/ Gone(scan[r], defect[d].slot)
                      \/ /\ ~scan[r].degraded /\ Counts(scan[r], defect[d].slot)
                         /\ defect'[d].missed = defect[d].missed + 1
                         /\ defect'[d].missed >= ResolvedRounds
  BY FirstEvidence DEF Resolves
<1> QED BY <1>1, LedgerInvariant, PTL DEF Spec, ResolvedOnEvidence

-----------------------------------------------------------------------------
(* What the unique index rejects.                                          *)

\* The index has nothing to reject in what a first commit writes.
LEMMA CommitFits ==
    ASSUME IInv, NEW r \in Reports \ committed, pc[r] = "open"
    PROVE  Commit(r).fault # "index"
<1> DEFINE back == Rollback(r)
           c == Commit(r)
<1>1. /\ c.row \in Tx
      /\ c.row.fault = "none" =>
            Phase3(r, Committable(r), Present(tx[r].view), back.db, tx[r].view, c.row)
      /\ c = Outcome(r, back, c.row)
  BY CommitRows
<1> HIDE DEF back, c
<1>2. c.fault = IF c.row.fault = "none" /\ ~IndexHolds(c.row.db) THEN "index" ELSE c.row.fault
  BY <1>1 DEF Outcome
<1>3. c.row.fault = "none" => IndexHolds(c.row.db)
  BY <1>1 DEF Phase3, Apart
<1>4. c.row.fault # "index"
  BY <1>1 DEF Tx
<1> QED BY <1>2, <1>3, <1>4 DEF c

\* Before the first commit of a report there is nothing the rollback restores.
LEMMA RefuseRedone ==
    ASSUME IInv, NEW r \in Reports, Refuse(r)
    PROVE  r \in committed
<1> SUFFICES ASSUME r \notin committed PROVE FALSE
  OBVIOUS
<1>1. Rollback(r).touched = {}
  BY RollbackFresh DEF IInv
<1>2. PICK done \in SUBSET Rollback(r).touched :
        ~IndexHolds([d \in Ids |-> IF d \in done THEN Rollback(r).db[d] ELSE defect[d]])
  BY DEF Refuse
<1>3. done = {}
  BY <1>1, <1>2
<1>4. [d \in Ids |-> IF d \in done THEN Rollback(r).db[d] ELSE defect[d]] = defect
  BY <1>3 DEF IInv, TypeOK
<1> QED BY <1>2, <1>4 DEF IInv

\* Where a claim of a first commit is lost, a person changed a row.
LEMMA CollideChanged ==
    ASSUME IInv, NEW r \in Reports \ committed, Collide(r)
    PROVE  \E d \in Ids : /\ defect[d].status = Active
                          /\ defect[d].version # tx[r].view[d].version
<1>1. PICK c \in tx[r].claims : Lost(r, c)
  BY DEF Collide
<1>2. Rollback(r).db = defect
  BY RollbackFresh DEF IInv
<1>3. PICK d : d \in ActiveIn(defect, c.slot)
  BY <1>1, <1>2 DEF Lost
<1>4. pc[r] = "open" /\ Claimed(tx[r], defect)
  BY DEF Collide, IInv, OpenTx
<1>5. defect[d].version # tx[r].view[d].version
  BY <1>1, <1>3, <1>4 DEF Claimed
<1> QED BY <1>3, <1>5 DEF ActiveIn

LEMMA FirstRejected ==
    ASSUME IInv, [Next]_vars, NEW r \in Reports \ committed,
           pc[r] # "rejected", pc'[r] = "rejected"
    PROVE  /\ pc[r] = "open"
           /\ \E d \in Ids : /\ defect[d].status = Active
                             /\ defect[d].version # tx[r].view[d].version
<1>1. pc \in [Reports -> Pc]
  BY DEF IInv, OrderInv
<1>2. Conflict(r) \/ Collide(r) \/ Refuse(r)
  <2>1. ASSUME NEW q \in Reports, Scanner(q) \/ Fault(q)
        PROVE  Conflict(r) \/ Collide(r) \/ Refuse(r)
    <3>1. CASE Load(q) \/ Begin(q) \/ Check(q) \/ Rerun(q)
      BY <1>1, <3>1 DEF Load, Begin, Check, Rerun
    <3>2. CASE Supersede(q) \/ Apply(q) \/ Abort(q)
      BY <1>1, <3>2 DEF Supersede, Apply, Abort, Done
    <3>3. CASE Refuse(q)
      <4>1. q = r
        BY <1>1, <3>3 DEF Refuse, Done
      <4> QED BY <3>3, <4>1
    <3>4. CASE Collide(q)
      <4>1. q = r
        BY <1>1, <3>4 DEF Collide, Done
      <4> QED BY <3>4, <4>1
    <3>5. CASE Conflict(q)
      <4>1. q = r
        BY <1>1, <3>5 DEF Conflict, Stopped, Retry, Done
      <4> QED BY <3>5, <4>1
    <3> QED BY <2>1, <3>1, <3>2, <3>3, <3>4, <3>5 DEF Scanner, Fault
  <2>2. CASE People
    <3>1. UNCHANGED pc
      BY <2>2 DEF People, SetStatus, Merge, Split, Confirm, BindProbable, Purge,
                  Unscanned, scanner
    <3> QED BY <3>1
  <2>3. CASE UNCHANGED vars
    BY <2>3 DEF vars, scanner
  <2> QED BY <2>1, <2>2, <2>3 DEF Next
<1>3. ~Refuse(r)
  BY RefuseRedone
<1>4. ~Conflict(r)
  <2> SUFFICES ASSUME Conflict(r) PROVE FALSE
    OBVIOUS
  <2>1. pc[r] = "open" /\ Stopped(r, Commit(r).fault)
    BY DEF Conflict
  <2>2. Commit(r).fault # "index"
    BY <2>1, CommitFits
  <2>3. pc'[r] \in {"idle", "conflict"}
    BY <1>1, <2>1, <2>2 DEF Stopped, Retry, Done
  <2> QED BY <2>3
<1>5. Collide(r)
  BY <1>2, <1>3, <1>4
<1> QED BY <1>5, CollideChanged DEF Collide

\* The partial unique index on active defects (models.go) rejects the first
\* commit of a report only because of a decision that a person made while the
\* transaction was open, between the query for another active row and the write
\* of its own: the reuse in createDefect and the merge in updateMatchedDefect
\* are enough for everything people did before.
THEOREM FirstCommitsFailOnlyByRace == Spec => RejectedOnlyByRace
<1>1. IInv /\ [Next]_vars =>
        \A r \in Reports \ committed : pc[r] # "rejected" /\ pc'[r] = "rejected" =>
          /\ pc[r] = "open"
          /\ \E d \in Ids : /\ defect[d].status = Active
                            /\ defect[d].version # tx[r].view[d].version
  BY FirstRejected
<1> QED BY <1>1, LedgerInvariant, PTL DEF Spec, RejectedOnlyByRace

=============================================================================
