----------------------------- MODULE DebateProofs -----------------------------
(***************************************************************************)
(* Proofs about one analysis of the debate engine and its resumptions, for *)
(* any number of bundles and commits, any plan and any recovery            *)
(* configuration: types, the verdicts of the judge, the bound on calls.    *)
(***************************************************************************)
EXTENDS Debate, SequenceTheorems, WellFoundedInduction, TLAPS

-----------------------------------------------------------------------------
(* The batches of the judge.                                               *)

\* The size of the batches and the rest, of n candidates.
LEMMA Quotient ==
    ASSUME NEW n \in Nat, NEW m \in Nat \ {0}
    PROVE  /\ n \div m \in Nat /\ n % m \in 0 .. m - 1
           /\ n = m * (n \div m) + (n % m)
  OBVIOUS

LEMMA BatchNumber ==
    ASSUME NEW n \in Nat
    PROVE  NBatches(n) \in Nat /\ (n > 0 => NBatches(n) > 0) /\ NBatches(0) = 0
<1>1. BatchSize \in Nat \ {0}
  BY DebateAssumption
<1> DEFINE k == n + BatchSize - 1
<1>2. k \in Nat /\ NBatches(n) = k \div BatchSize
  BY <1>1 DEF NBatches
<1>3. k = BatchSize * (k \div BatchSize) + (k % BatchSize)
      /\ k \div BatchSize \in Nat /\ k % BatchSize \in 0 .. BatchSize - 1
  BY <1>1, <1>2, Quotient
<1>4. n > 0 => k \div BatchSize # 0
  BY <1>1, <1>3
<1>5. NBatches(0) = 0
  BY <1>1 DEF NBatches
<1> QED BY <1>2, <1>3, <1>4, <1>5

LEMMA Products ==
    ASSUME NEW i \in Nat, NEW q \in Nat
    PROVE  i * q \in Nat /\ (i + 1) * q = i * q + q
  OBVIOUS

LEMMA ProductsMonotonic ==
    ASSUME NEW i \in Nat, NEW j \in Nat, NEW q \in Nat, i <= j
    PROVE  i * q <= j * q
<1>1. j * q = i * q + (j - i) * q
  OBVIOUS
<1>2. (j - i) * q \in Nat /\ i * q \in Nat /\ j * q \in Nat
  OBVIOUS
<1> QED BY <1>1, <1>2

LEMMA OffsetRange ==
    ASSUME NEW n \in Nat \ {0}, NEW i \in 0 .. NBatches(n)
    PROVE  /\ Offset(n, i) \in 0 .. n
           /\ Offset(n, 0) = 0 /\ Offset(n, NBatches(n)) = n
           /\ i < NBatches(n) => Offset(n, i) <= Offset(n, i + 1)
<1> DEFINE nb == NBatches(n)
           q == n \div nb
           m == n % nb
<1>1. nb \in Nat \ {0}
  BY BatchNumber
<1>2. q \in Nat /\ m \in 0 .. nb - 1 /\ n = nb * q + m
  BY <1>1, Quotient
<1>3. \A j \in 0 .. nb : Offset(n, j) = j * q + Least(j, m)
  BY DEF Offset
<1> HIDE DEF nb, q, m
<1>4. \A j \in 0 .. nb : j * q \in Nat /\ Least(j, m) \in 0 .. m
  BY <1>1, <1>2, Products DEF Least
<1>5. i \in 0 .. nb
  BY DEF nb
<1>6. Offset(n, i) \in 0 .. n
  <2>1. i * q <= nb * q
    BY <1>1, <1>2, <1>5, ProductsMonotonic
  <2> QED BY <1>1, <1>2, <1>3, <1>4, <1>5, <2>1
<1>7. Offset(n, 0) = 0
  BY <1>1, <1>2, <1>3 DEF Least
<1>8. Offset(n, nb) = n
  BY <1>1, <1>2, <1>3 DEF Least
<1>9. i < nb => Offset(n, i) <= Offset(n, i + 1)
  <2> HAVE i < nb
  <2>1. (i + 1) * q = i * q + q /\ i * q \in Nat
    BY <1>2, <1>5, Products
  <2>2. Least(i, m) <= Least(i + 1, m)
    BY <1>1, <1>2, <1>5 DEF Least
  <2>3. i + 1 \in 0 .. nb
    BY <1>1, <1>5
  <2>4. Offset(n, i) = i * q + Least(i, m) /\ Offset(n, i + 1) = i * q + q + Least(i + 1, m)
    BY <1>3, <1>5, <2>1, <2>3
  <2> QED BY <1>2, <1>4, <1>5, <2>1, <2>2, <2>3, <2>4
<1> QED BY <1>6, <1>7, <1>8, <1>9 DEF nb

\* There are k verdicts, one for each of the first k candidates.
RuledOn(s, k) == /\ s \in Seq(Nat) /\ Len(s) = k
                 /\ \A c \in 1 .. k : \E i \in 1 .. k : s[i] = c

LEMMA NoneRuled == RuledOn(<<>>, 0)
  BY DEF RuledOn

LEMMA IdsRuled ==
    ASSUME NEW k \in Nat
    PROVE  RuledOn(Ids(0, k), k)
<1>1. /\ Ids(0, k) \in Seq(Nat) /\ Len(Ids(0, k)) = k
      /\ \A i \in 1 .. k : Ids(0, k)[i] = i
  BY DEF Ids
<1> QED BY <1>1 DEF RuledOn

\* What a batch may be answered with: as many verdicts as it has candidates,
\* one for each of them.
Answered(answer, a, c) ==
    /\ answer \in Seq(Nat) /\ Len(answer) = c - a
    /\ \A x \in a + 1 .. c : \E i \in 1 .. c - a : answer[i] = x

LEMMA RulingJoins ==
    ASSUME NEW a \in Nat, NEW c \in Nat, a <= c,
           NEW s, RuledOn(s, a), NEW t, Answered(t, a, c)
    PROVE  RuledOn(s \o t, c)
<1> DEFINE u == s \o t
<1>1. s \in Seq(Nat) /\ Len(s) = a /\ t \in Seq(Nat) /\ Len(t) = c - a
  BY DEF RuledOn, Answered
<1>2. /\ u \in Seq(Nat) /\ Len(u) = Len(s) + Len(t)
      /\ \A i \in 1 .. Len(s) + Len(t) : u[i] = IF i <= Len(s) THEN s[i] ELSE t[i - Len(s)]
  BY <1>1, ConcatProperties
<1>3. Len(s) + Len(t) = c
  BY <1>1
<1>4. /\ u \in Seq(Nat) /\ Len(u) = c
      /\ \A i \in 1 .. c : u[i] = IF i <= a THEN s[i] ELSE t[i - a]
  BY <1>1, <1>2, <1>3
<1> HIDE DEF u
<1>5. ASSUME NEW x \in 1 .. c PROVE \E i \in 1 .. c : u[i] = x
  <2>1. CASE x <= a
    <3>1. PICK i \in 1 .. a : s[i] = x
      BY <2>1 DEF RuledOn
    <3>2. i \in 1 .. c /\ i <= a
      BY <3>1
    <3> QED BY <1>4, <3>1, <3>2
  <2>2. CASE ~(x <= a)
    <3>1. x \in a + 1 .. c
      BY <2>2
    <3>2. PICK i \in 1 .. c - a : t[i] = x
      BY <3>1 DEF Answered
    <3>3. a + i \in 1 .. c /\ ~(a + i <= a) /\ (a + i) - a = i
      BY <3>2
    <3>4. u[a + i] = t[i]
      BY <1>4, <3>3
    <3> QED BY <3>2, <3>3, <3>4
  <2> QED BY <2>1, <2>2
<1> QED BY <1>4, <1>5 DEF RuledOn, u

-----------------------------------------------------------------------------
(* Parts and their halves.                                                 *)

Block == (SUBSET Units) \ {{}}
IsPart(part) == part \in Seq(Block) /\ part # <<>>
ArePartsOf(parts, U) ==
    /\ parts \in Seq(Seq(Block)) /\ parts # <<>>
    /\ \A i \in 1 .. Len(parts) : IsPart(parts[i]) /\ UnitsOf(parts[i]) \subseteq U

LEMMA PartFacts ==
    ASSUME NEW part, IsPart(part)
    PROVE  /\ Len(part) \in Nat /\ Len(part) > 0 /\ DOMAIN part = 1 .. Len(part)
           /\ \A i \in 1 .. Len(part) : part[i] \in Block
<1>1. part \in Seq(Block) /\ part # <<>>
  BY DEF IsPart
<1> QED BY <1>1, EmptySeq, LenProperties, ElementOfSeq

LEMMA PartUnits ==
    ASSUME NEW part, IsPart(part)
    PROVE  /\ UnitsOf(part) # {} /\ UnitsOf(part) \subseteq Units
           /\ \A u : u \in UnitsOf(part) <=> \E i \in 1 .. Len(part) : u \in part[i]
<1>1. \A u : u \in UnitsOf(part) <=> \E i \in 1 .. Len(part) : u \in part[i]
  BY PartFacts DEF UnitsOf, ToSet
<1>2. UnitsOf(part) # {}
  <2>1. 1 \in 1 .. Len(part)
    BY PartFacts
  <2>2. part[1] \in Block
    <3>1. \A i \in 1 .. Len(part) : part[i] \in Block
      BY PartFacts
    <3> QED BY <2>1, <3>1
  <2>3. PICK u : u \in part[1]
    BY <2>2 DEF Block
  <2> QED BY <1>1, <2>1, <2>3
<1>3. UnitsOf(part) \subseteq Units
  BY <1>1, PartFacts DEF Block
<1> QED BY <1>1, <1>2, <1>3

\* Every set of naturals that is not empty has a least element.
LEMMA LeastNatural ==
    ASSUME NEW S, S \subseteq Nat, S # {}
    PROVE  \E m \in S : \A k \in S : m <= k
<1>1. PICK m \in S : \A k \in S : ~(<<k, m>> \in OpToRel(<, Nat))
  BY NatLessThanWellFounded, WFMin
<1>2. \A k \in S : ~(k < m)
  BY <1>1 DEF OpToRel
<1> QED BY <1>2

LEMMA SplitPoint ==
    ASSUME NEW part, IsPart(part), Len(part) >= 2
    PROVE  SplitAt(part) \in 1 .. Len(part) - 1
<1> DEFINE n == Len(part) - 1
           S == {k \in 1 .. n : Enough(part, k)}
<1>1. n \in Nat \ {0}
  BY PartFacts
<1>2. n \in S
  BY <1>1 DEF Enough
<1>3. S \subseteq Nat /\ S # {}
  BY <1>1, <1>2
<1> HIDE DEF S
<1>4. PICK k \in S : \A j \in S : k <= j
  BY <1>3, LeastNatural
<1>5. k \in 1 .. n /\ Enough(part, k)
  BY <1>4 DEF S
<1>6. \A j \in 1 .. k - 1 : ~Enough(part, j)
  BY <1>1, <1>4, <1>5 DEF S
<1> QED BY <1>5, <1>6 DEF SplitAt

\* Each half is a part, of the same units.
LEMMA SubPart ==
    ASSUME NEW part, IsPart(part), NEW m \in 1 .. Len(part), NEW n \in m .. Len(part)
    PROVE  /\ IsPart(SubSeq(part, m, n))
           /\ UnitsOf(SubSeq(part, m, n)) \subseteq UnitsOf(part)
<1> DEFINE q == SubSeq(part, m, n)
<1>1. Len(part) \in Nat /\ m \in Int /\ n \in Int /\ m <= n /\ m >= 1 /\ n <= Len(part)
  BY PartFacts
<1>2. \A i \in m .. n : part[i] \in Block
  BY <1>1, PartFacts
<1>3. /\ q \in Seq(Block) /\ Len(q) = n - m + 1
      /\ \A i \in 1 .. n - m + 1 : q[i] = part[m + i - 1]
  BY <1>1, <1>2, SubSeqProperties
<1> HIDE DEF q
<1>4. IsPart(q)
  <2>1. Len(q) # 0
    BY <1>1, <1>3
  <2> QED BY <1>3, <2>1, EmptySeq DEF IsPart
<1>5. ASSUME NEW u \in UnitsOf(q) PROVE u \in UnitsOf(part)
  <2>1. PICK i \in 1 .. Len(q) : u \in q[i]
    BY <1>4, PartUnits
  <2>2. u \in part[m + i - 1] /\ m + i - 1 \in 1 .. Len(part)
    BY <1>1, <1>3, <2>1
  <2> QED BY <2>2, PartUnits
<1> QED BY <1>4, <1>5 DEF q

LEMMA HalvesOfPart ==
    ASSUME NEW part, IsPart(part), Len(part) >= 2
    PROVE  /\ Halves(part) \in Seq(Seq(Block)) /\ Len(Halves(part)) = 2
           /\ \A i \in 1 .. 2 : /\ IsPart(Halves(part)[i])
                                /\ UnitsOf(Halves(part)[i]) \subseteq UnitsOf(part)
<1> DEFINE k == SplitAt(part)
           n == Len(part)
<1>1. n \in Nat /\ k \in 1 .. n - 1
  BY PartFacts, SplitPoint
<1>2. /\ 1 \in 1 .. n /\ k \in 1 .. n /\ k + 1 \in 1 .. n /\ n \in k + 1 .. n
  BY <1>1
<1> HIDE DEF k
<1>3. /\ IsPart(SubSeq(part, 1, k))
      /\ UnitsOf(SubSeq(part, 1, k)) \subseteq UnitsOf(part)
  BY <1>2, SubPart
<1>4. /\ IsPart(SubSeq(part, k + 1, n))
      /\ UnitsOf(SubSeq(part, k + 1, n)) \subseteq UnitsOf(part)
  BY <1>2, SubPart
<1> DEFINE x == SubSeq(part, 1, k)
           y == SubSeq(part, k + 1, n)
<1>5. Halves(part) = <<x, y>>
  BY DEF Halves, k
<1>6. x \in Seq(Block) /\ y \in Seq(Block)
  BY <1>3, <1>4 DEF IsPart
<1> HIDE DEF x, y
<1>7. /\ <<x, y>> \in Seq(Seq(Block)) /\ Len(<<x, y>>) = 2
      /\ <<x, y>>[1] = x /\ <<x, y>>[2] = y
  BY <1>6
<1>8. \A i \in 1 .. 2 : i = 1 \/ i = 2
  OBVIOUS
<1> QED BY <1>3, <1>4, <1>5, <1>7, <1>8 DEF x, y

\* The first part is replaced by its halves, or done.
LEMMA PartsSplit ==
    ASSUME NEW parts, NEW U, ArePartsOf(parts, U), Len(Head(parts)) >= 2
    PROVE  /\ ArePartsOf(Halves(Head(parts)) \o Tail(parts), U)
           /\ Len(Halves(Head(parts)) \o Tail(parts)) = Len(parts) + 1
<1> DEFINE h == Halves(Head(parts))
           t == Tail(parts)
           q == h \o t
<1>1. parts \in Seq(Seq(Block)) /\ parts # <<>> /\ Len(parts) \in Nat \ {0}
  BY EmptySeq DEF ArePartsOf
<1>2. Head(parts) = parts[1]
  BY <1>1
<1>3. IsPart(Head(parts)) /\ UnitsOf(Head(parts)) \subseteq U
  BY <1>1, <1>2 DEF ArePartsOf
<1>4. /\ h \in Seq(Seq(Block)) /\ Len(h) = 2
      /\ \A i \in 1 .. 2 : IsPart(h[i]) /\ UnitsOf(h[i]) \subseteq U
  BY <1>3, HalvesOfPart
<1>5. /\ t \in Seq(Seq(Block)) /\ Len(t) = Len(parts) - 1
      /\ \A i \in 1 .. Len(t) : t[i] = parts[i + 1]
  BY <1>1, HeadTailProperties
<1> HIDE DEF h, t
<1>6. /\ q \in Seq(Seq(Block)) /\ Len(q) = Len(h) + Len(t)
      /\ \A i \in 1 .. Len(h) + Len(t) : q[i] = IF i <= Len(h) THEN h[i] ELSE t[i - Len(h)]
  BY <1>4, <1>5, ConcatProperties
<1> HIDE DEF q
<1>7. Len(q) = Len(parts) + 1
  BY <1>1, <1>4, <1>5, <1>6
<1>8. ASSUME NEW i \in 1 .. Len(q) PROVE IsPart(q[i]) /\ UnitsOf(q[i]) \subseteq U
  <2>1. CASE i <= 2
    BY <1>4, <1>6, <2>1
  <2>2. CASE i > 2
    <3> DEFINE m == Len(parts)
    <3>1. m \in Nat /\ Len(h) = 2 /\ Len(t) = m - 1 /\ i \in 1 .. m + 1
      BY <1>1, <1>4, <1>5, <1>7
    <3>2. i - 2 \in 1 .. m - 1 /\ i - 1 \in 1 .. m /\ i \in 1 .. 2 + (m - 1)
      BY <2>2, <3>1
    <3>3. q[i] = t[i - 2]
      BY <1>6, <2>2, <3>1, <3>2
    <3>4. t[i - 2] = parts[(i - 2) + 1]
      BY <1>5, <3>1, <3>2
    <3>5. q[i] = parts[i - 1]
      BY <3>2, <3>3, <3>4
    <3> QED BY <3>2, <3>5 DEF ArePartsOf
  <2> QED BY <1>1, <1>7, <2>1, <2>2
<1>9. q # <<>>
  BY <1>1, <1>7, EmptySeq
<1> QED BY <1>6, <1>7, <1>8, <1>9 DEF ArePartsOf, q, h, t

LEMMA PartsTail ==
    ASSUME NEW parts, NEW U, ArePartsOf(parts, U), Len(parts) > 1
    PROVE  ArePartsOf(Tail(parts), U) /\ Len(Tail(parts)) = Len(parts) - 1
<1> DEFINE t == Tail(parts)
<1>1. parts \in Seq(Seq(Block)) /\ parts # <<>> /\ Len(parts) \in Nat \ {0}
  BY EmptySeq DEF ArePartsOf
<1>2. /\ t \in Seq(Seq(Block)) /\ Len(t) = Len(parts) - 1
      /\ \A i \in 1 .. Len(t) : t[i] = parts[i + 1]
  BY <1>1, HeadTailProperties
<1> HIDE DEF t
<1>3. ASSUME NEW i \in 1 .. Len(t) PROVE IsPart(t[i]) /\ UnitsOf(t[i]) \subseteq U
  <2>1. t[i] = parts[i + 1] /\ i + 1 \in 1 .. Len(parts)
    BY <1>1, <1>2
  <2> QED BY <2>1 DEF ArePartsOf
<1>4. t # <<>>
  BY <1>1, <1>2, EmptySeq
<1> QED BY <1>2, <1>3, <1>4 DEF ArePartsOf, t

\* A bundle is one part at first.
LEMMA BundleIsPart ==
    ASSUME plan \in Plans, NEW b \in Bundles
    PROVE  /\ IsPart(plan.bundle[b])
           /\ ArePartsOf(<<plan.bundle[b]>>, UnitsOf(plan.bundle[b]))
           /\ Len(<<plan.bundle[b]>>) = 1
<1> DEFINE p == plan.bundle[b]
<1>1. /\ p \in Seq(SUBSET Units) /\ p # <<>>
      /\ \A i \in DOMAIN p : p[i] # {}
  BY PlansAssumption DEF PlanOK
<1>2. p \in Seq(Block) /\ p # <<>>
  BY <1>1 DEF Block
<1> HIDE DEF p
<1>3. /\ <<p>> \in Seq(Seq(Block)) /\ <<p>> # <<>> /\ Len(<<p>>) = 1 /\ <<p>>[1] = p
  BY <1>2
<1>4. \A i \in 1 .. 1 : i = 1
  OBVIOUS
<1> QED BY <1>2, <1>3, <1>4 DEF IsPart, ArePartsOf, p

-----------------------------------------------------------------------------
(* Attempts.                                                               *)

LEMMA FirstTryType ==
    ASSUME NEW r \in 1 .. Resources
    PROVE  FirstTry(r) \in Try /\ FirstTry(r).n = 1
  BY RecoveryAssumption DEF FirstTry, Try

LEMMA FollowingType ==
    ASSUME NEW t \in Try, NEW class, NEW divisible,
           NEW d, d = Decision(t, class, divisible), d \in {"retry", "failover"}
    PROVE  Following(t, d) \in Try /\ Following(t, d).n = t.n + 1
<1>1. /\ t.n \in 1 .. MaxTotalAttempts /\ t.on \in Nat \ {0} /\ t.res \in 1 .. Resources
      /\ t.failovers \in 0 .. MaxCandidateFailovers
      /\ t = [n |-> t.n, on |-> t.on, res |-> t.res, failovers |-> t.failovers]
      /\ {Resources, MaxTotalAttempts, MaxCandidateFailovers} \subseteq Nat
  BY RecoveryAssumption DEF Try
<1>2. CASE d = "retry"
  <2>1. t.n < MaxTotalAttempts
    BY <1>2 DEF Decision, CanRetry
  <2>2. Following(t, d) = [n |-> t.n + 1, on |-> t.on + 1, res |-> t.res,
                           failovers |-> t.failovers]
    BY <1>1, <1>2 DEF Following, Retried
  <2>3. t.n + 1 \in 1 .. MaxTotalAttempts /\ t.on + 1 \in Nat \ {0}
    BY <1>1, <2>1
  <2> QED BY <1>1, <2>2, <2>3 DEF Try
<1>3. CASE d = "failover"
  <2>1. t.n < MaxTotalAttempts /\ t.res < Resources /\ t.failovers < MaxCandidateFailovers
    BY <1>3 DEF Decision, CanFailOver
  <2>2. Following(t, d) = [n |-> t.n + 1, on |-> 1, res |-> t.res + 1,
                           failovers |-> t.failovers + 1]
    BY <1>3 DEF Following, FailedOver
  <2>3. /\ t.n + 1 \in 1 .. MaxTotalAttempts /\ t.res + 1 \in 1 .. Resources
        /\ t.failovers + 1 \in 0 .. MaxCandidateFailovers
    BY <1>1, <2>1
  <2> QED BY <2>2, <2>3 DEF Try
<1> QED BY <1>2, <1>3

LEMMA KeptType ==
    ASSUME NEW n \in Nat
    PROVE  Kept(n) \in Nat /\ Kept(0) = 0 /\ (n > 0 => Kept(n) > 0)
  BY DebateAssumption DEF Kept

-----------------------------------------------------------------------------
(* The work of a goroutine: what it is at every step.                      *)

Work == [pc : Pc, pass : {1, 2}, parts : Seq(Seq(Block)), try : Try,
         splits : 0 .. MaxSplitDepth, found : Nat, batch : Nat,
         verdicts : Seq(Nat), units : SUBSET Units, ok : BOOLEAN,
         read : SUBSET Nat, snap : Nat]
\* The judge has ruled on the candidates of the batches before this one.
Due(w) == IF w.pc \in {"challenger", "judge"} THEN Offset(w.found, w.batch)
          ELSE IF w.pc = "hash" THEN w.found ELSE 0
WorkOK(b, w) ==
    /\ w \in Work
    /\ w.units \subseteq UnitsOf(plan.bundle[b])
    /\ w.pc = "hunter" => /\ ArePartsOf(w.parts, UnitsOf(plan.bundle[b]))
                          /\ plan.assessment => w.found = 0
    /\ w.pc \in {"challenger", "judge"} =>
          w.found > 0 /\ w.batch < NBatches(w.found)
    /\ w.pc = "challenger" => w.batch = 0
    /\ RuledOn(w.verdicts, Due(w))

LEMMA NoWorkOK ==
    ASSUME NEW b
    PROVE  WorkOK(b, NoWork) /\ WorkOK(b, [NoWork EXCEPT !.pc = "done"])
<1>1. FirstTry(1) \in Try
  BY FirstTryType, RecoveryAssumption
<1>2. NoWork \in Work
  BY <1>1, DebateAssumption DEF NoWork, Work, Pc
<1>3. [NoWork EXCEPT !.pc = "done"] \in Work
  BY <1>2 DEF Work, Pc
<1> QED BY <1>2, <1>3, NoneRuled DEF NoWork, WorkOK, Due

LEMMA HereOK ==
    ASSUME NEW b \in Bundles, NEW w, WorkOK(b, w), tree \in Commits
    PROVE  WorkOK(b, Here(w, b))
<1> DEFINE v == Here(w, b)
<1>1. w \in Work /\ Content[tree][b] \in Nat
  BY DebateAssumption DEF WorkOK
<1>2. v \in Work
  BY <1>1 DEF Here, Work
<1>3. /\ v.pc = w.pc /\ v.units = w.units /\ v.parts = w.parts /\ v.found = w.found
      /\ v.batch = w.batch /\ v.verdicts = w.verdicts
  BY <1>1 DEF Here, Work
<1> HIDE DEF v
<1> QED BY <1>2, <1>3 DEF WorkOK, Due, v

LEMMA ReturnedOK ==
    ASSUME NEW b \in Bundles, NEW w \in Work, w.units \subseteq UnitsOf(plan.bundle[b]),
           NEW pc, \/ pc = "hash" /\ w.found = 0
                   \/ pc = "challenger" /\ w.found > 0
    PROVE  WorkOK(b, Returned(w, pc))
<1> DEFINE v == Returned(w, pc)
<1>1. /\ v = [NoWork EXCEPT !.pc = pc, !.found = Kept(w.found),
                            !.units = w.units, !.read = w.read]
      /\ NoWork \in Work /\ Kept(w.found) \in Nat /\ pc \in Pc
  BY NoWorkOK, KeptType DEF Returned, WorkOK, Work, Pc
<1>2. v \in Work
  BY <1>1 DEF Work
<1>3. /\ v.pc = pc /\ v.units = w.units /\ v.found = Kept(w.found)
      /\ v.batch = 0 /\ v.verdicts = <<>>
  BY <1>1 DEF NoWork
<1> HIDE DEF v
<1>4. CASE pc = "hash" /\ w.found = 0
  <2>1. Due(v) = 0
    BY <1>3, <1>4, KeptType DEF Due
  <2> QED BY <1>2, <1>3, <1>4, <2>1, NoneRuled DEF WorkOK, v
<1>5. CASE pc = "challenger" /\ w.found > 0
  <2>1. v.found \in Nat \ {0}
    BY <1>3, <1>5, KeptType DEF Work
  <2>2. NBatches(v.found) \in Nat /\ NBatches(v.found) > 0
    BY <2>1, BatchNumber
  <2>3. Offset(v.found, 0) = 0
    BY <2>1, <2>2, OffsetRange
  <2>4. Due(v) = 0
    BY <1>3, <1>5, <2>3 DEF Due
  <2> QED BY <1>2, <1>3, <1>5, <2>1, <2>2, <2>4, NoneRuled DEF WorkOK, v
<1> QED BY <1>4, <1>5

-----------------------------------------------------------------------------
(* What is left to a hunter.                                               *)

LeftOf(p, x, n) == (2 - p) * Budget + MaxTotalAttempts * x - (n - 1)
Rest(w) == 2 * (MaxSplitDepth - w.splits) + Len(w.parts)

LEMMA Spending ==
    ASSUME NEW p \in {1, 2}, NEW x \in Nat \ {0}, NEW n \in 1 .. MaxTotalAttempts
    PROVE  /\ LeftOf(p, x, n) \in Nat \ {0}
           /\ n < MaxTotalAttempts => LeftOf(p, x, n + 1) \in 1 .. LeftOf(p, x, n) - 1
           /\ x > 1 => LeftOf(p, x - 1, 1) \in 1 .. LeftOf(p, x, n) - 1
           /\ p = 1 => LeftOf(2, 2 * MaxSplitDepth + 1, 1) \in 1 .. LeftOf(p, x, n) - 1
           /\ LeftOf(1, 2 * MaxSplitDepth + 1, 1) = 2 * Budget
<1> DEFINE m == MaxTotalAttempts
           B == Budget
           y == 2 * MaxSplitDepth + 1
<1>1. m \in Nat \ {0} /\ y \in Nat \ {0}
  BY RecoveryAssumption, DebateAssumption
<1>2. B = m * y
  BY DEF Budget
<1>3. \A i \in Nat \ {0} : /\ m * i \in Nat /\ m * i >= m
                            /\ m * (i - 1) \in Nat /\ m * (i - 1) = m * i - m
  <2> TAKE i \in Nat \ {0}
  <2>1. i - 1 \in Nat
    OBVIOUS
  <2>2. (i - 1) * m \in Nat /\ ((i - 1) + 1) * m = (i - 1) * m + m
    BY <1>1, <2>1, Products
  <2>3. (i - 1) + 1 = i /\ i * m = m * i /\ (i - 1) * m = m * (i - 1)
    BY <1>1
  <2> QED BY <1>1, <2>2, <2>3
<1>4. B \in Nat /\ m * y = B /\ B >= m
  BY <1>1, <1>2, <1>3
<1>5. \A j \in Nat \ {0}, k \in 1 .. m : /\ LeftOf(1, j, k) = B + m * j - (k - 1)
                                          /\ LeftOf(2, j, k) = m * j - (k - 1)
  <2>1. (2 - 1) * B = B /\ (2 - 2) * B = 0
    BY <1>4
  <2> QED BY <1>1, <1>3, <1>4, <2>1 DEF LeftOf
<1>6. n \in 1 .. m
  OBVIOUS
<1> HIDE DEF m, B, y
<1>7. 1 \in 1 .. m /\ (n < m => n + 1 \in 1 .. m)
  BY <1>1, <1>6
<1>8. /\ LeftOf(p, x, n) \in Nat \ {0}
      /\ n < m => LeftOf(p, x, n + 1) \in 1 .. LeftOf(p, x, n) - 1
  <2>1. m * x \in Nat /\ m * x >= m
    BY <1>3
  <2>2. \A k \in 1 .. m : p = 1 => LeftOf(p, x, k) = B + m * x - (k - 1)
    BY <1>5
  <2>3. \A k \in 1 .. m : p = 2 => LeftOf(p, x, k) = m * x - (k - 1)
    BY <1>5
  <2>4. CASE p = 1
    <3>1. LeftOf(p, x, n) = B + m * x - (n - 1)
      BY <1>6, <2>2, <2>4
    <3>2. n < m => LeftOf(p, x, n + 1) = B + m * x - ((n + 1) - 1)
      BY <1>7, <2>2, <2>4
    <3> QED BY <1>1, <1>4, <1>6, <2>1, <3>1, <3>2
  <2>5. CASE p = 2
    <3>1. LeftOf(p, x, n) = m * x - (n - 1)
      BY <1>6, <2>3, <2>5
    <3>2. n < m => LeftOf(p, x, n + 1) = m * x - ((n + 1) - 1)
      BY <1>7, <2>3, <2>5
    <3> QED BY <1>1, <1>6, <2>1, <3>1, <3>2
  <2> QED BY <2>4, <2>5
<1>10. x > 1 => LeftOf(p, x - 1, 1) \in 1 .. LeftOf(p, x, n) - 1
  <2> HAVE x > 1
  <2>1. x - 1 \in Nat \ {0}
    OBVIOUS
  <2>2. m * (x - 1) = m * x - m /\ m * (x - 1) >= m /\ m * x \in Nat
    BY <1>3, <2>1
  <2>3. CASE p = 1
    <3>1. LeftOf(p, x - 1, 1) = B + m * (x - 1) - (1 - 1)
      BY <1>5, <1>7, <2>1, <2>3
    <3>2. LeftOf(p, x, n) = B + m * x - (n - 1)
      BY <1>5, <1>6, <2>3
    <3> QED BY <1>1, <1>4, <1>6, <2>2, <3>1, <3>2
  <2>4. CASE p = 2
    <3>1. LeftOf(p, x - 1, 1) = m * (x - 1) - (1 - 1)
      BY <1>5, <1>7, <2>1, <2>4
    <3>2. LeftOf(p, x, n) = m * x - (n - 1)
      BY <1>5, <1>6, <2>4
    <3> QED BY <1>1, <1>6, <2>2, <3>1, <3>2
  <2> QED BY <2>3, <2>4
<1>11. p = 1 => LeftOf(2, y, 1) \in 1 .. LeftOf(p, x, n) - 1
  <2> HAVE p = 1
  <2>1. LeftOf(2, y, 1) = m * y - (1 - 1)
    BY <1>1, <1>5, <1>7
  <2>2. LeftOf(p, x, n) = B + m * x - (n - 1)
    BY <1>5, <1>6
  <2>3. m * x \in Nat /\ m * x >= m
    BY <1>3
  <2> QED BY <1>1, <1>4, <1>6, <2>1, <2>2, <2>3
<1>12. LeftOf(1, y, 1) = 2 * B
  <2>1. LeftOf(1, y, 1) = B + m * y - (1 - 1)
    BY <1>1, <1>5, <1>7
  <2> QED BY <1>4, <2>1
<1> QED BY <1>8, <1>10, <1>11, <1>12 DEF m, B, y

\* A goroutine goes on: what a step that starts with work w makes of it.
Onward(b, w, v) ==
    /\ WorkOK(b, v) /\ v.pc \notin {"none", "done"}
    /\ v.read \in {w.read, Evidence(b)}
    /\ v.pc = "write" => v.snap = Content[tree][b]
    /\ v.pc = "hunter" => w.pc = "hunter" /\ Left(v) \in 1 .. Left(w) - 1

LEMMA HunterFacts ==
    ASSUME NEW b, NEW w, WorkOK(b, w), w.pc = "hunter"
    PROVE  /\ Left(w) = LeftOf(w.pass, Rest(w), w.try.n)
           /\ w.try.n \in 1 .. MaxTotalAttempts /\ w.pass \in {1, 2}
           /\ Len(w.parts) \in Nat \ {0} /\ Rest(w) \in Nat \ {0}
           /\ w.splits \in 0 .. MaxSplitDepth
<1>1. w.try.n \in 1 .. MaxTotalAttempts /\ w.pass \in {1, 2} /\ w.splits \in 0 .. MaxSplitDepth
  BY DEF WorkOK, Work, Try
<1>2. Len(w.parts) \in Nat \ {0}
  BY EmptySeq DEF WorkOK, ArePartsOf
<1>3. Rest(w) \in Nat \ {0}
  BY <1>1, <1>2, DebateAssumption DEF Rest
<1> QED BY <1>1, <1>2, <1>3 DEF Left, LeftOf, Rest

-----------------------------------------------------------------------------
(* The steps of a goroutine, one by one.                                   *)

LEMMA NextPartOnward ==
    ASSUME NEW b \in Bundles, NEW w, WorkOK(b, w), w.pc = "hunter", Len(w.parts) > 1,
           NEW r \in 1 .. Resources
    PROVE  Onward(b, w, NextPart(w, r))
<1> DEFINE v == NextPart(w, r)
           U == UnitsOf(plan.bundle[b])
<1>1. /\ w \in Work /\ ArePartsOf(w.parts, U)
      /\ plan.assessment => w.found = 0
  BY DEF WorkOK
<1>2. ArePartsOf(Tail(w.parts), U) /\ Len(Tail(w.parts)) = Len(w.parts) - 1
  BY <1>1, PartsTail
<1>3. FirstTry(r) \in Try /\ FirstTry(r).n = 1 /\ Tail(w.parts) \in Seq(Seq(Block))
  BY <1>2, FirstTryType DEF ArePartsOf
<1>4. /\ v \in Work /\ v.pc = "hunter" /\ v.parts = Tail(w.parts) /\ v.found = w.found
      /\ v.units = w.units /\ v.verdicts = w.verdicts /\ v.read = w.read
      /\ v.pass = w.pass /\ v.splits = w.splits /\ v.try = FirstTry(r)
  BY <1>1, <1>3 DEF NextPart, Work
<1> HIDE DEF v
<1>5. WorkOK(b, v)
  BY <1>1, <1>2, <1>4 DEF WorkOK, Due
<1>6. Rest(v) = Rest(w) - 1
  <2>1. Len(v.parts) = Len(w.parts) - 1 /\ Len(w.parts) \in Nat
    BY <1>2, <1>4, HunterFacts
  <2>2. w.splits \in Nat /\ MaxSplitDepth \in Nat
    BY DebateAssumption, HunterFacts
  <2> QED BY <1>4, <2>1, <2>2 DEF Rest
<1>7. Left(v) = LeftOf(w.pass, Rest(w) - 1, 1) /\ Rest(v) \in Nat \ {0}
  BY <1>3, <1>4, <1>5, <1>6, HunterFacts
<1>8. Left(v) \in 1 .. Left(w) - 1
  <2>1. /\ Left(w) = LeftOf(w.pass, Rest(w), w.try.n) /\ Rest(w) \in Nat \ {0}
        /\ w.try.n \in 1 .. MaxTotalAttempts /\ w.pass \in {1, 2}
    BY HunterFacts
  <2>2. Rest(w) > 1
    BY <1>6, <1>7, <2>1
  <2> QED BY <1>7, <2>1, <2>2, Spending
<1> QED BY <1>4, <1>5, <1>8 DEF Onward, v

LEMMA AgainOnward ==
    ASSUME plan \in Plans, built \in Commits, NEW b \in Bundles, NEW w, WorkOK(b, w),
           w.pc = "hunter", w.pass = 1, NEW r \in 1 .. Resources
    PROVE  Onward(b, w, Again(b, w, r))
<1> DEFINE v == Again(b, w, r)
           parts == <<plan.bundle[b]>>
           U == UnitsOf(plan.bundle[b])
<1>1. ArePartsOf(parts, U) /\ Len(parts) = 1
  BY BundleIsPart
<1> HIDE DEF parts
<1>2. /\ FirstTry(r) \in Try /\ FirstTry(r).n = 1 /\ parts \in Seq(Seq(Block))
      /\ NoWork \in Work /\ Evidence(b) \in SUBSET Nat
  <2>1. Evidence(b) \in SUBSET Nat
    BY DebateAssumption DEF Evidence
  <2> QED BY <1>1, <2>1, FirstTryType, NoWorkOK DEF ArePartsOf, WorkOK
<1>3. v = [NoWork EXCEPT !.pc = "hunter", !.pass = 2, !.try = FirstTry(r), !.parts = parts,
                         !.read = Evidence(b)]
  BY DEF Again, parts
<1>4. v \in Work
  BY <1>2, <1>3 DEF Work, Pc
<1>5. /\ v.pc = "hunter" /\ v.parts = parts /\ v.found = 0
      /\ v.units = {} /\ v.verdicts = <<>> /\ v.read = Evidence(b)
      /\ v.pass = 2 /\ v.splits = 0 /\ v.try = FirstTry(r)
  BY <1>3 DEF NoWork
<1> HIDE DEF v
<1>6. WorkOK(b, v)
  BY <1>1, <1>4, <1>5, NoneRuled DEF WorkOK, Due
<1>7. Rest(v) = 2 * MaxSplitDepth + 1
  <2>1. MaxSplitDepth \in Nat /\ Len(v.parts) = 1 /\ v.splits = 0
    BY <1>1, <1>5, DebateAssumption
  <2> QED BY <2>1 DEF Rest
<1>8. Left(v) = LeftOf(2, 2 * MaxSplitDepth + 1, 1)
  BY <1>2, <1>5, <1>6, <1>7, HunterFacts
<1>9. Left(v) \in 1 .. Left(w) - 1
  BY <1>8, HunterFacts, Spending
<1> QED BY <1>5, <1>6, <1>9 DEF Onward, v

LEMMA SplitOnward ==
    ASSUME NEW b \in Bundles, NEW w, WorkOK(b, w), w.pc = "hunter", CanSplit(w),
           NEW r \in 1 .. Resources
    PROVE  Onward(b, w, Split(w, r))
<1> DEFINE v == Split(w, r)
           parts == Halves(Head(w.parts)) \o Tail(w.parts)
           U == UnitsOf(plan.bundle[b])
<1>1. /\ w \in Work /\ ArePartsOf(w.parts, U) /\ Len(Head(w.parts)) >= 2
      /\ w.splits < MaxSplitDepth /\ (plan.assessment => w.found = 0)
  BY DEF WorkOK, CanSplit
<1>2. ArePartsOf(parts, U) /\ Len(parts) = Len(w.parts) + 1
  BY <1>1, PartsSplit
<1> HIDE DEF parts
<1>3. /\ FirstTry(r) \in Try /\ FirstTry(r).n = 1 /\ parts \in Seq(Seq(Block))
      /\ w.splits + 1 \in 0 .. MaxSplitDepth /\ MaxSplitDepth \in Nat
  <2>1. w.splits \in 0 .. MaxSplitDepth /\ MaxSplitDepth \in Nat
    BY HunterFacts, DebateAssumption
  <2>2. w.splits + 1 \in 0 .. MaxSplitDepth
    BY <1>1, <2>1
  <2>3. parts \in Seq(Seq(Block))
    BY <1>2 DEF ArePartsOf
  <2>4. FirstTry(r) \in Try /\ FirstTry(r).n = 1
    BY FirstTryType
  <2> QED BY <2>1, <2>2, <2>3, <2>4
<1>4. v = [w EXCEPT !.parts = parts, !.splits = @ + 1, !.try = FirstTry(r)]
  BY DEF Split, parts
<1>5. /\ v \in Work /\ v.pc = "hunter" /\ v.parts = parts /\ v.found = w.found
      /\ v.units = w.units /\ v.verdicts = w.verdicts /\ v.read = w.read
      /\ v.pass = w.pass /\ v.splits = w.splits + 1 /\ v.try = FirstTry(r)
  BY <1>1, <1>3, <1>4 DEF Work
<1> HIDE DEF v
<1>6. WorkOK(b, v)
  BY <1>1, <1>2, <1>5 DEF WorkOK, Due
<1>7. Rest(v) = Rest(w) - 1
  <2>1. Len(v.parts) = Len(w.parts) + 1 /\ Len(w.parts) \in Nat
    BY <1>2, <1>5, HunterFacts
  <2>2. w.splits \in Nat /\ v.splits = w.splits + 1
    BY <1>5, HunterFacts
  <2> QED BY <1>3, <2>1, <2>2 DEF Rest
<1>8. Left(v) = LeftOf(w.pass, Rest(w) - 1, 1) /\ Rest(v) \in Nat \ {0}
  BY <1>3, <1>5, <1>6, <1>7, HunterFacts
<1>9. Left(v) \in 1 .. Left(w) - 1
  <2>1. /\ Left(w) = LeftOf(w.pass, Rest(w), w.try.n) /\ Rest(w) \in Nat \ {0}
        /\ w.try.n \in 1 .. MaxTotalAttempts /\ w.pass \in {1, 2}
    BY HunterFacts
  <2>2. Rest(w) > 1
    BY <1>7, <1>8, <2>1
  <2> QED BY <1>8, <2>1, <2>2, Spending
<1> QED BY <1>5, <1>6, <1>9 DEF Onward, v

LEMMA FollowingOnward ==
    ASSUME NEW b \in Bundles, NEW w, WorkOK(b, w), w.pc = "hunter",
           NEW class, NEW divisible,
           NEW d, d = Decision(w.try, class, divisible), d \in {"retry", "failover"}
    PROVE  Onward(b, w, [w EXCEPT !.try = Following(@, d)])
<1> DEFINE t == Following(w.try, d)
           v == [w EXCEPT !.try = t]
<1>1. w \in Work /\ w.try \in Try
  BY DEF WorkOK, Work
<1>2. t \in Try /\ t.n = w.try.n + 1
  BY <1>1, FollowingType
<1> HIDE DEF t
<1>3. /\ v \in Work /\ v.pc = "hunter" /\ v.parts = w.parts /\ v.found = w.found
      /\ v.units = w.units /\ v.verdicts = w.verdicts /\ v.read = w.read
      /\ v.pass = w.pass /\ v.splits = w.splits /\ v.try = t
  BY <1>1, <1>2 DEF Work
<1>4. v = [w EXCEPT !.try = Following(@, d)]
  BY DEF t
<1> HIDE DEF v
<1>5. WorkOK(b, v)
  BY <1>3 DEF WorkOK, Due
<1>6. Rest(v) = Rest(w)
  BY <1>3 DEF Rest
<1>7. Left(v) = LeftOf(w.pass, Rest(w), w.try.n + 1) /\ w.try.n + 1 \in 1 .. MaxTotalAttempts
  BY <1>2, <1>3, <1>5, <1>6, HunterFacts
<1>8. w.try.n \in Nat /\ MaxTotalAttempts \in Nat
  BY RecoveryAssumption, HunterFacts
<1>9. Left(v) \in 1 .. Left(w) - 1
  <2>1. /\ Left(w) = LeftOf(w.pass, Rest(w), w.try.n) /\ Rest(w) \in Nat \ {0}
        /\ w.try.n \in 1 .. MaxTotalAttempts /\ w.pass \in {1, 2}
    BY HunterFacts
  <2>2. w.try.n < MaxTotalAttempts
    BY <1>7, <1>8
  <2> QED BY <1>7, <2>1, <2>2, Spending
<1> QED BY <1>3, <1>4, <1>5, <1>9 DEF Onward

LEMMA GivenUpOnward ==
    ASSUME NEW b \in Bundles, NEW w, WorkOK(b, w)
    PROVE  Onward(b, w, GivenUp(w))
<1> DEFINE v == GivenUp(w)
<1>1. NoWork \in Work /\ w \in Work /\ w.units \subseteq UnitsOf(plan.bundle[b])
  BY NoWorkOK DEF WorkOK
<1>2. v = [NoWork EXCEPT !.pc = "hash", !.found = 0, !.units = w.units, !.read = w.read,
                         !.ok = FALSE]
  BY <1>1 DEF GivenUp, Returned, NoWork
<1>3. v \in Work
  <2>1. w.units \in SUBSET Units /\ w.read \in SUBSET Nat
    BY <1>1 DEF Work
  <2>2. 0 \in Nat /\ FALSE \in BOOLEAN /\ "hash" \in Pc
    BY DEF Pc
  <2> HIDE DEF v
  <2> QED BY <1>1, <1>2, <2>1, <2>2 DEF Work
<1>4. /\ v.pc = "hash" /\ v.found = 0 /\ v.units = w.units /\ v.read = w.read
      /\ v.verdicts = <<>>
  BY <1>2 DEF NoWork
<1> HIDE DEF v
<1>5. WorkOK(b, v)
  BY <1>1, <1>3, <1>4, NoneRuled DEF WorkOK, Due
<1> QED BY <1>4, <1>5 DEF Onward, v

LEMMA ReturnedOnward ==
    ASSUME NEW b \in Bundles, NEW w, WorkOK(b, w),
           NEW pc, \/ pc = "hash" /\ w.found = 0
                   \/ pc = "challenger" /\ w.found > 0
    PROVE  Onward(b, w, Returned(w, pc))
<1>1. WorkOK(b, Returned(w, pc))
  BY ReturnedOK DEF WorkOK
<1>2. Returned(w, pc).pc = pc /\ Returned(w, pc).read = w.read
  BY DEF Returned, NoWork
<1> QED BY <1>1, <1>2 DEF Onward

\* The hunter finds something, or units are assessed.
With(w, n, S) == [w EXCEPT !.found = w.found + n, !.units = w.units \cup S]
LEMMA Gathered ==
    ASSUME plan \in Plans, NEW b \in Bundles, NEW w, WorkOK(b, w), w.pc = "hunter",
           NEW n \in Nat, n = 0 \/ ~plan.assessment,
           NEW S, S \subseteq UnitsOf(plan.bundle[b]),
           NEW v, v = With(w, n, S)
    PROVE  /\ WorkOK(b, v) /\ v.pc = "hunter" /\ Left(v) = Left(w) /\ v.read = w.read
           /\ v.parts = w.parts /\ v.found = w.found + n
<1>1. /\ w \in Work /\ ArePartsOf(w.parts, UnitsOf(plan.bundle[b]))
      /\ w.units \subseteq UnitsOf(plan.bundle[b])
      /\ plan.assessment => w.found = 0
  BY DEF WorkOK
<1>2. w.units \cup S \in SUBSET Units /\ w.found + n \in Nat
  <2>1. S \subseteq Units
    BY BundleIsPart, PartUnits
  <2> QED BY <1>1, <2>1 DEF Work
<1>3. /\ v \in Work /\ v.pc = "hunter" /\ v.parts = w.parts /\ v.found = w.found + n
      /\ v.units = w.units \cup S /\ v.verdicts = w.verdicts /\ v.read = w.read
      /\ v.pass = w.pass /\ v.splits = w.splits /\ v.try = w.try
  BY <1>1, <1>2 DEF Work, With
<1>4. w.found \in Nat /\ (plan.assessment => n = 0)
  BY <1>1 DEF Work
<1>5. WorkOK(b, v)
  BY <1>1, <1>3, <1>4 DEF WorkOK, Due
<1>6. Left(v) = Left(w)
  BY <1>3 DEF Left
<1> QED BY <1>3, <1>5, <1>6

LEMMA ChallengeOnward ==
    ASSUME NEW b \in Bundles, NEW w, WorkOK(b, w), w.pc = "challenger"
    PROVE  Onward(b, w, [w EXCEPT !.pc = "judge"])
<1> DEFINE v == [w EXCEPT !.pc = "judge"]
<1>1. w \in Work
  BY DEF WorkOK
<1>2. /\ v \in Work /\ v.pc = "judge" /\ v.found = w.found /\ v.batch = w.batch
      /\ v.units = w.units /\ v.verdicts = w.verdicts /\ v.read = w.read
  BY <1>1 DEF Work, Pc
<1> HIDE DEF v
<1>3. WorkOK(b, v)
  BY <1>2 DEF WorkOK, Due
<1> QED BY <1>2, <1>3 DEF Onward, v

\* Whatever the judge says, what is taken has a verdict for each candidate of
\* the batch, and no more.
LEMMA RulingsAnswer ==
    ASSUME NEW w, NEW a \in Nat, NEW c \in Nat, a <= c,
           Batch(w.found, w.batch + 1) = Ids(a, c), w.found \in Nat,
           NEW ruling \in Rulings(w)
    PROVE  Answered(ruling, a, c)
<1> DEFINE batch == Ids(a, c)
<1>1. PICK answer \in Answers(w.found) : ruling = Verdicts(answer, batch)
  BY DEF Rulings
<1>2. /\ batch \in Seq(Nat) /\ Len(batch) = c - a /\ DOMAIN batch = 1 .. c - a
      /\ \A i \in 1 .. c - a : batch[i] = a + i
  BY DEF Ids
<1>3. \A x \in a + 1 .. c : x - a \in 1 .. c - a /\ a + (x - a) = x
  OBVIOUS
<1> HIDE DEF batch
<1>4. \A x \in a + 1 .. c : \E i \in 1 .. c - a : batch[i] = x
  BY <1>2, <1>3
<1>5. CASE Valid(answer, batch)
  <2>1. PICK m \in 0 .. BatchSize : answer \in [1 .. m -> 0 .. w.found]
    BY DEF Answers, BoundedSeq, SeqOf
  <2>2. answer \in Seq(Nat) /\ DOMAIN answer = 1 .. Len(answer)
    BY <2>1, DebateAssumption
  <2>3. Len(answer) = c - a /\ ToSet(batch) \subseteq ToSet(answer)
    BY <1>2, <1>5 DEF Valid
  <2>4. ASSUME NEW x \in a + 1 .. c PROVE \E i \in 1 .. c - a : answer[i] = x
    <3>1. x \in ToSet(batch)
      BY <1>2, <1>4 DEF ToSet
    <3>2. x \in ToSet(answer)
      BY <2>3, <3>1
    <3> QED BY <2>2, <2>3, <3>2 DEF ToSet
  <2> QED BY <1>1, <1>5, <2>2, <2>3, <2>4 DEF Answered, Verdicts
<1>6. CASE ~Valid(answer, batch)
  BY <1>1, <1>2, <1>4, <1>6 DEF Answered, Verdicts
<1> QED BY <1>5, <1>6

\* After its batch, the judge has ruled on all candidates up to its end.
LEMMA BatchRuled ==
    ASSUME NEW w, NEW n \in Nat \ {0}, n = w.found,
           NEW k \in 0 .. NBatches(n) - 1, k = w.batch,
           NEW s, RuledOn(s, Offset(n, k)), NEW ruling \in Rulings(w)
    PROVE  RuledOn(s \o ruling, Offset(n, k + 1))
<1> DEFINE a == Offset(n, k)
           c == Offset(n, k + 1)
<1>1. NBatches(n) \in Nat \ {0}
  BY BatchNumber
<1>2. k \in 0 .. NBatches(n) /\ k + 1 \in 0 .. NBatches(n) /\ k < NBatches(n)
  BY <1>1
<1>3. a \in 0 .. n /\ c \in 0 .. n /\ a <= c
  BY <1>2, OffsetRange
<1>4. Batch(n, k + 1) = Ids(a, c) /\ a \in Nat /\ c \in Nat
  <2>1. (k + 1) - 1 = k
    OBVIOUS
  <2> QED BY <1>3, <2>1 DEF Batch
<1> HIDE DEF a, c
<1>5. Batch(w.found, w.batch + 1) = Ids(a, c) /\ w.found \in Nat
  BY <1>4
<1>6. Answered(ruling, a, c)
  BY <1>3, <1>4, <1>5, RulingsAnswer
<1>7. RuledOn(s, a)
  BY DEF a
<1>8. RuledOn(s \o ruling, c)
  BY <1>3, <1>4, <1>6, <1>7, RulingJoins
<1> QED BY <1>8 DEF c

LEMMA JudgeBatchOnward ==
    ASSUME NEW b \in Bundles, NEW w, WorkOK(b, w), w.pc = "judge",
           NEW ruling \in Rulings(w)
    PROVE  Onward(b, w, [w EXCEPT !.batch = @ + 1, !.verdicts = @ \o ruling,
                         !.pc = IF w.batch + 1 = NBatches(w.found) THEN "hash" ELSE @])
<1> DEFINE n == w.found
           k == w.batch
           r == w.verdicts \o ruling
           pc == IF k + 1 = NBatches(n) THEN "hash" ELSE "judge"
           v == [w EXCEPT !.batch = k + 1, !.verdicts = r, !.pc = pc]
<1>1. /\ w \in Work /\ n \in Nat \ {0} /\ k \in Nat /\ k < NBatches(n)
      /\ RuledOn(w.verdicts, Offset(n, k))
  BY DEF WorkOK, Due, Work
<1>2. NBatches(n) \in Nat
  BY <1>1, BatchNumber
<1>3. k \in 0 .. NBatches(n) - 1
  BY <1>1, <1>2
<1>4. RuledOn(r, Offset(n, k + 1)) /\ r \in Seq(Nat)
  <2>1. RuledOn(r, Offset(n, k + 1))
    BY <1>1, <1>3, BatchRuled
  <2> QED BY <2>1 DEF RuledOn
<1>5. k + 1 = NBatches(n) => Offset(n, k + 1) = n
  <2>1. 0 \in 0 .. NBatches(n)
    BY <1>2
  <2> QED BY <1>1, <2>1, OffsetRange
<1>6. v = [w EXCEPT !.batch = @ + 1, !.verdicts = @ \o ruling,
                    !.pc = IF w.batch + 1 = NBatches(w.found) THEN "hash" ELSE @]
  BY <1>1
<1> HIDE DEF r, pc
<1>7. /\ pc \in {"hash", "judge"} /\ (pc = "hash" => k + 1 = NBatches(n))
      /\ pc = "judge" => k + 1 # NBatches(n)
  BY DEF pc
<1>8. /\ v \in Work /\ v.pc = pc /\ v.found = n /\ v.batch = k + 1
      /\ v.units = w.units /\ v.verdicts = r /\ v.read = w.read
  <2>1. pc \in Pc /\ k + 1 \in Nat
    BY <1>1, <1>7 DEF Pc
  <2> QED BY <1>1, <1>4, <2>1 DEF Work
<1>9. w.units \subseteq UnitsOf(plan.bundle[b])
  BY DEF WorkOK
<1> HIDE DEF v
<1>10. Due(v) = Offset(n, k + 1)
  BY <1>5, <1>7, <1>8 DEF Due
<1>11. pc = "judge" => v.found > 0 /\ v.batch < NBatches(v.found)
  BY <1>1, <1>2, <1>7, <1>8
<1>12. WorkOK(b, v)
  BY <1>4, <1>7, <1>8, <1>9, <1>10, <1>11 DEF WorkOK
<1> QED BY <1>6, <1>7, <1>8, <1>12 DEF Onward

LEMMA JudgeFailsOnward ==
    ASSUME NEW b \in Bundles, NEW w, WorkOK(b, w), w.pc = "judge"
    PROVE  Onward(b, w, [w EXCEPT !.pc = "hash", !.batch = NBatches(w.found),
                                  !.verdicts = Ids(0, w.found)])
<1> DEFINE r == Ids(0, w.found)
           k == NBatches(w.found)
           v == [w EXCEPT !.pc = "hash", !.batch = k, !.verdicts = r]
<1>1. w \in Work /\ w.found \in Nat /\ w.units \subseteq UnitsOf(plan.bundle[b])
  BY DEF WorkOK, Work
<1>2. k \in Nat
  BY <1>1, BatchNumber
<1>3. RuledOn(r, w.found) /\ r \in Seq(Nat)
  <2>1. RuledOn(r, w.found)
    BY <1>1, IdsRuled
  <2> QED BY <2>1 DEF RuledOn
<1> HIDE DEF k, r
<1>4. /\ v \in Work /\ v.pc = "hash" /\ v.found = w.found
      /\ v.units = w.units /\ v.verdicts = r /\ v.read = w.read
  BY <1>1, <1>2, <1>3 DEF Work, Pc
<1> HIDE DEF v
<1>5. WorkOK(b, v)
  BY <1>1, <1>3, <1>4 DEF WorkOK, Due
<1> QED BY <1>4, <1>5 DEF Onward, v, r, k

LEMMA HashOnward ==
    ASSUME plan \in Plans, tree \in Commits, NEW b \in Bundles, NEW w, WorkOK(b, w),
           w.pc = "hash"
    PROVE  Onward(b, w, [w EXCEPT !.snap = Content[tree][b], !.verdicts = <<>>,
                         !.pc = IF w.ok THEN "write" ELSE "merge",
                         !.units = IF w.ok /\ ~plan.assessment
                                   THEN UnitsOf(plan.bundle[b]) ELSE @])
<1> DEFINE U == IF w.ok /\ ~plan.assessment THEN UnitsOf(plan.bundle[b]) ELSE w.units
           pc == IF w.ok THEN "write" ELSE "merge"
           v == [w EXCEPT !.snap = Content[tree][b], !.verdicts = <<>>, !.pc = pc, !.units = U]
<1>1. /\ w \in Work /\ w.units \subseteq UnitsOf(plan.bundle[b])
      /\ Content[tree][b] \in Nat
  BY DebateAssumption DEF WorkOK
<1>2. v = [w EXCEPT !.snap = Content[tree][b], !.verdicts = <<>>,
                    !.pc = IF w.ok THEN "write" ELSE "merge",
                    !.units = IF w.ok /\ ~plan.assessment
                              THEN UnitsOf(plan.bundle[b]) ELSE @]
  BY <1>1
<1>3. UnitsOf(plan.bundle[b]) \subseteq Units
  BY BundleIsPart, PartUnits
<1>4. U \subseteq UnitsOf(plan.bundle[b]) /\ U \in SUBSET Units /\ pc \in {"write", "merge"}
  BY <1>1, <1>3
<1> HIDE DEF U, pc
<1>5. /\ v \in Work /\ v.pc = pc /\ v.units = U /\ v.verdicts = <<>> /\ v.read = w.read
      /\ v.snap = Content[tree][b]
  <2>1. pc \in Pc /\ <<>> \in Seq(Nat)
    BY <1>4 DEF Pc
  <2> QED BY <1>1, <1>4, <2>1 DEF Work
<1> HIDE DEF v
<1>6. WorkOK(b, v)
  BY <1>4, <1>5, NoneRuled DEF WorkOK, Due
<1> QED BY <1>2, <1>4, <1>5, <1>6 DEF Onward

LEMMA WrittenOK ==
    ASSUME NEW b \in Bundles, NEW w, WorkOK(b, w), w.pc = "write"
    PROVE  WorkOK(b, [w EXCEPT !.pc = "merge"])
<1> DEFINE v == [w EXCEPT !.pc = "merge"]
<1>1. w \in Work
  BY DEF WorkOK
<1>2. /\ v \in Work /\ v.pc = "merge" /\ v.units = w.units /\ v.verdicts = w.verdicts
  BY <1>1 DEF Work, Pc
<1> HIDE DEF v
<1> QED BY <1>2 DEF WorkOK, Due, v

\* A bundle that starts has twice the budget, for its two passes.
LEMMA SpawnedOK ==
    ASSUME plan \in Plans, {tree, built} \subseteq Commits, NEW b \in Bundles,
           NEW r \in 1 .. Resources,
           NEW w, w = [NoWork EXCEPT !.pc = "hunter", !.parts = <<plan.bundle[b]>>,
                                     !.try = FirstTry(r),
                                     !.read = Evidence(b) \cup {Content[tree][b]}]
    PROVE  /\ WorkOK(b, w) /\ w.pc = "hunter" /\ w.read = Evidence(b) \cup {Content[tree][b]}
           /\ Left(w) = 2 * Budget
<1> DEFINE parts == <<plan.bundle[b]>>
<1>1. ArePartsOf(parts, UnitsOf(plan.bundle[b])) /\ Len(parts) = 1
  BY BundleIsPart
<1>2. Evidence(b) \cup {Content[tree][b]} \in SUBSET Nat
  BY DebateAssumption DEF Evidence
<1> HIDE DEF parts
<1>3. /\ FirstTry(r) \in Try /\ FirstTry(r).n = 1 /\ parts \in Seq(Seq(Block))
      /\ NoWork \in Work
  BY <1>1, FirstTryType, NoWorkOK DEF ArePartsOf, WorkOK
<1>4. w = [NoWork EXCEPT !.pc = "hunter", !.parts = parts, !.try = FirstTry(r),
                         !.read = Evidence(b) \cup {Content[tree][b]}]
  BY DEF parts
<1>5. w \in Work
  <2>1. "hunter" \in Pc /\ Evidence(b) \cup {Content[tree][b]} \in SUBSET Nat
    BY <1>2 DEF Pc
  <2> QED BY <1>3, <1>4, <2>1 DEF Work
<1>6. /\ w.pc = "hunter" /\ w.parts = parts /\ w.found = 0
      /\ w.units = {} /\ w.verdicts = <<>> /\ w.read = Evidence(b) \cup {Content[tree][b]}
      /\ w.pass = 1 /\ w.splits = 0 /\ w.try = FirstTry(r)
  BY <1>4 DEF NoWork
<1>7. WorkOK(b, w)
  BY <1>1, <1>5, <1>6, NoneRuled DEF WorkOK, Due
<1>8. Rest(w) = 2 * MaxSplitDepth + 1
  <2>1. MaxSplitDepth \in Nat /\ Len(w.parts) = 1 /\ w.splits = 0
    BY <1>1, <1>6, DebateAssumption
  <2> QED BY <2>1 DEF Rest
<1>9. Left(w) = LeftOf(1, 2 * MaxSplitDepth + 1, 1) /\ Rest(w) \in Nat \ {0}
  BY <1>3, <1>6, <1>7, <1>8, HunterFacts
<1>10. Left(w) = 2 * Budget
  <2>1. 1 \in 1 .. MaxTotalAttempts
    BY RecoveryAssumption
  <2> QED BY <1>8, <1>9, <2>1, Spending
<1> QED BY <1>6, <1>7, <1>10

-----------------------------------------------------------------------------
(* A step of a goroutine that shares nothing: the calls, the judge, the    *)
(* hash.                                                                   *)

Local(b) == \/ HunterFinds(b) \/ UnitsAssessed(b) \/ HunterFails(b) \/ HunterStopped(b)
            \/ Challenge(b) \/ JudgeBatch(b) \/ JudgeFails(b) \/ Hash(b)
Moves(b, v) == Onward(b, work[b], v) /\ Started(b) /\ Step(b, v)

LEMMA SelectedResource == \A r \in Selected : r \in 1 .. Resources
  BY DebateAssumption

LEMMA FindsMove ==
    ASSUME plan \in Plans, tree \in Commits, NEW b \in Bundles, WorkOK(b, work[b]),
           HunterFinds(b)
    PROVE  \E v : Moves(b, v)
<1> DEFINE w == work[b]
<1>1. PICK n \in Finds, r \in Selected :
        LET v == [w EXCEPT !.found = @ + n]
        IN  Step(b, CASE Len(w.parts) > 1               -> NextPart(v, r)
                      [] Len(w.parts) = 1 /\ v.found = 0 -> Returned(v, "hash")
                      [] Len(w.parts) = 1 /\ v.found > 0 -> Returned(v, "challenger"))
  BY DEF HunterFinds
<1>2. /\ w.pc = "hunter" /\ ~plan.assessment /\ Started(b) /\ w \in Work
      /\ n \in Nat /\ r \in 1 .. Resources
  BY DebateAssumption, SelectedResource DEF HunterFinds, Started, WorkOK
<1> DEFINE v == [w EXCEPT !.found = @ + n]
<1>3. v = With(w, n, {})
  BY <1>2 DEF Work, With
<1>4. {} \subseteq UnitsOf(plan.bundle[b])
  OBVIOUS
<1>5. (n = 0 \/ ~plan.assessment) /\ WorkOK(b, w)
  BY <1>2
<1> DEFINE u == CASE Len(w.parts) > 1               -> NextPart(v, r)
                  [] Len(w.parts) = 1 /\ v.found = 0 -> Returned(v, "hash")
                  [] Len(w.parts) = 1 /\ v.found > 0 -> Returned(v, "challenger")
<1>6. Step(b, u)
  BY <1>1
<1> HIDE DEF v, w, u
<1>7. /\ WorkOK(b, v) /\ v.pc = "hunter" /\ Left(v) = Left(w) /\ v.read = w.read
      /\ v.parts = w.parts
  BY <1>2, <1>3, <1>4, <1>5, Gathered
<1>8. /\ Len(w.parts) \in Nat \ {0} /\ v.found \in Nat
      /\ \/ Len(w.parts) > 1
         \/ Len(w.parts) = 1 /\ v.found = 0
         \/ Len(w.parts) = 1 /\ v.found > 0
  <2>1. v.found \in Nat
    BY <1>7 DEF WorkOK, Work
  <2>2. Len(w.parts) \in Nat \ {0}
    BY <1>2, <1>5, HunterFacts
  <2> DEFINE k == Len(w.parts)
  <2>3. k \in Nat /\ k # 0
    BY <2>2
  <2> HIDE DEF k
  <2>4. k > 1 \/ k = 1
    BY <2>3
  <2>5. v.found = 0 \/ v.found > 0
    BY <2>1
  <2> QED BY <2>1, <2>2, <2>4, <2>5 DEF k
<1>9. CASE Len(w.parts) > 1
  <2>1. u = NextPart(v, r)
    <3> DEFINE k == Len(w.parts)
    <3>1. k \in Nat /\ k > 1
      BY <1>8, <1>9
    <3> HIDE DEF k
    <3>2. k # 1
      BY <3>1
    <3> QED BY <1>9, <3>2, Zenon DEF u, k
  <2>2. Onward(b, v, NextPart(v, r))
    BY <1>2, <1>7, <1>9, NextPartOnward
  <2>3. Onward(b, w, u)
    BY <1>2, <1>7, <2>1, <2>2 DEF Onward
  <2>4. Moves(b, u)
    BY <1>2, <1>6, <2>3 DEF Moves, w
  <2> QED BY <2>4
<1>10. CASE Len(w.parts) = 1 /\ v.found = 0
  <2>1. u = Returned(v, "hash")
    BY <1>8, <1>10 DEF u
  <2>2. Onward(b, v, Returned(v, "hash"))
    BY <1>7, <1>10, ReturnedOnward
  <2>3. Onward(b, w, u)
    BY <1>2, <1>7, <2>1, <2>2 DEF Onward
  <2>4. Moves(b, u)
    BY <1>2, <1>6, <2>3 DEF Moves, w
  <2> QED BY <2>4
<1>11. CASE Len(w.parts) = 1 /\ v.found > 0
  <2>1. u = Returned(v, "challenger")
    BY <1>8, <1>11 DEF u
  <2>2. Onward(b, v, Returned(v, "challenger"))
    BY <1>7, <1>11, ReturnedOnward
  <2>3. Onward(b, w, u)
    BY <1>2, <1>7, <2>1, <2>2 DEF Onward
  <2>4. Moves(b, u)
    BY <1>2, <1>6, <2>3 DEF Moves, w
  <2> QED BY <2>4
<1> QED BY <1>8, <1>9, <1>10, <1>11

LEMMA AssessedMove ==
    ASSUME plan \in Plans, tree \in Commits, NEW b \in Bundles, WorkOK(b, work[b]),
           UnitsAssessed(b)
    PROVE  \E v : Moves(b, v)
<1> DEFINE w == work[b]
<1>1. PICK S \in (SUBSET UnitsOf(Head(w.parts))) \ {{}}, r \in Selected :
        LET v == [w EXCEPT !.units = @ \cup S]
        IN  Step(b, IF Len(w.parts) > 1 THEN NextPart(v, r) ELSE Returned(v, "hash"))
  BY DEF UnitsAssessed
<1>2. /\ w.pc = "hunter" /\ plan.assessment /\ Started(b) /\ w \in Work
      /\ r \in 1 .. Resources /\ w.found = 0
      /\ ArePartsOf(w.parts, UnitsOf(plan.bundle[b]))
  BY SelectedResource DEF UnitsAssessed, Started, WorkOK
<1>3. S \subseteq UnitsOf(plan.bundle[b])
  <2>1. Head(w.parts) = w.parts[1]
    BY <1>2 DEF ArePartsOf
  <2>2. 1 \in 1 .. Len(w.parts)
    BY <1>2, HunterFacts
  <2> QED BY <1>2, <2>1, <2>2 DEF ArePartsOf
<1> DEFINE v == [w EXCEPT !.units = @ \cup S]
<1>4. v = With(w, 0, S)
  <2>1. w.found + 0 = w.found
    BY <1>2
  <2>2. [w EXCEPT !.found = w.found, !.units = w.units \cup S] = v
    BY <1>2 DEF Work
  <2> QED BY <2>1, <2>2 DEF With
<1>5. (0 = 0 \/ ~plan.assessment) /\ WorkOK(b, w) /\ 0 \in Nat
  OBVIOUS
<1> DEFINE u == IF Len(w.parts) > 1 THEN NextPart(v, r) ELSE Returned(v, "hash")
<1>6. Step(b, u)
  BY <1>1
<1> HIDE DEF v, w, u
<1>7. /\ WorkOK(b, v) /\ v.pc = "hunter" /\ Left(v) = Left(w) /\ v.read = w.read
      /\ v.parts = w.parts /\ v.found = 0
  BY <1>2, <1>3, <1>4, <1>5, Gathered
<1>8. CASE Len(w.parts) > 1
  <2>1. u = NextPart(v, r)
    BY <1>8 DEF u
  <2>2. Onward(b, v, NextPart(v, r))
    BY <1>2, <1>7, <1>8, NextPartOnward
  <2>3. Onward(b, w, u)
    BY <1>2, <1>7, <2>1, <2>2 DEF Onward
  <2>4. Moves(b, u)
    BY <1>2, <1>6, <2>3 DEF Moves, w
  <2> QED BY <2>4
<1>9. CASE ~(Len(w.parts) > 1)
  <2>1. u = Returned(v, "hash")
    BY <1>9 DEF u
  <2>2. Onward(b, v, Returned(v, "hash"))
    BY <1>7, ReturnedOnward
  <2>3. Onward(b, w, u)
    BY <1>2, <1>7, <2>1, <2>2 DEF Onward
  <2>4. Moves(b, u)
    BY <1>2, <1>6, <2>3 DEF Moves, w
  <2> QED BY <2>4
<1> QED BY <1>8, <1>9

LEMMA FailsMove ==
    ASSUME plan \in Plans, {tree, built} \subseteq Commits, NEW b \in Bundles, WorkOK(b, work[b]),
           HunterFails(b)
    PROVE  \E v : Moves(b, v)
<1> DEFINE w == work[b]
           divisible == FilesIn(Head(w.parts)) > 1
           D(class) == Decision(w.try, class, divisible)
<1>1. PICK class \in Classes, r \in Selected :
        Step(b, Recovered(b, w, class, D(class), r))
  BY DEF HunterFails
<1> DEFINE d == D(class)
           v == Recovered(b, w, class, d, r)
<1>2. w.pc = "hunter" /\ Started(b) /\ r \in 1 .. Resources
  BY SelectedResource DEF HunterFails, Started
<1>3. d = Decision(w.try, class, divisible)
  OBVIOUS
<1>4. Step(b, v)
  BY <1>1
<1>5. Onward(b, w, Failed(b, w, class, r))
  <2>1. CASE w.pass = 1 /\ RetryBundle(class)
    BY <1>2, <2>1, AgainOnward DEF Failed
  <2>2. CASE ~(w.pass = 1 /\ RetryBundle(class))
    BY <2>2, GivenUpOnward DEF Failed
  <2> QED BY <2>1, <2>2
<1> HIDE DEF d, D, divisible
<1>6. Onward(b, w, v)
  <2>1. CASE d \in {"retry", "failover"}
    <3>1. v = [w EXCEPT !.try = Following(@, d)]
      BY <2>1 DEF Recovered
    <3> HIDE DEF v, w
    <3>2. Onward(b, w, [w EXCEPT !.try = Following(@, d)])
      BY <1>2, <1>3, <2>1, FollowingOnward DEF w
    <3> QED BY <3>1, <3>2
  <2>2. CASE d \notin {"retry", "failover"} /\ d = "split" /\ CanSplit(w)
    <3>1. v = Split(w, r)
      BY <2>2 DEF Recovered
    <3> QED BY <1>2, <2>2, <3>1, SplitOnward
  <2>3. CASE d \notin {"retry", "failover"} /\ ~(d = "split" /\ CanSplit(w))
    <3>1. v = Failed(b, w, class, r)
      BY <2>3 DEF Recovered
    <3> QED BY <1>5, <3>1
  <2> QED BY <2>1, <2>2, <2>3
<1> QED BY <1>2, <1>4, <1>6 DEF Moves

LEMMA LocalMoves ==
    ASSUME plan \in Plans, {tree, built} \subseteq Commits, NEW b \in Bundles, WorkOK(b, work[b]),
           Local(b)
    PROVE  \E v : Moves(b, v)
<1> DEFINE w == work[b]
<1>1. CASE HunterFinds(b)
  BY <1>1, FindsMove
<1>2. CASE UnitsAssessed(b)
  BY <1>2, AssessedMove
<1>3. CASE HunterFails(b)
  BY <1>3, FailsMove
<1>4. CASE HunterStopped(b)
  <2>1. Moves(b, GivenUp(w))
    BY <1>4, GivenUpOnward DEF HunterStopped, Moves, Started
  <2> QED BY <2>1
<1>5. CASE Challenge(b)
  <2>1. Moves(b, [w EXCEPT !.pc = "judge"])
    BY <1>5, ChallengeOnward DEF Challenge, Moves, Started
  <2> QED BY <2>1
<1>6. CASE JudgeBatch(b)
  <2>0. w.pc = "judge" /\ \E ruling \in Rulings(w) :
          Step(b, [w EXCEPT !.batch = @ + 1, !.verdicts = @ \o ruling,
                     !.pc = IF w.batch + 1 = NBatches(w.found) THEN "hash" ELSE @])
    BY <1>6 DEF JudgeBatch
  <2> PICK ruling \in Rulings(w) :
          Step(b, [w EXCEPT !.batch = @ + 1, !.verdicts = @ \o ruling,
                     !.pc = IF w.batch + 1 = NBatches(w.found) THEN "hash" ELSE @])
    BY <2>0
  <2> DEFINE v == [w EXCEPT !.batch = @ + 1, !.verdicts = @ \o ruling,
                            !.pc = IF w.batch + 1 = NBatches(w.found) THEN "hash" ELSE @]
  <2>1. w.pc = "judge" /\ Step(b, v)
    BY <2>0
  <2>2. Onward(b, w, v)
    BY <2>1, JudgeBatchOnward
  <2> HIDE DEF v
  <2>3. Moves(b, v)
    BY <2>1, <2>2 DEF Moves, Started
  <2> QED BY <2>3
<1>7. CASE JudgeFails(b)
  <2> DEFINE v == [w EXCEPT !.pc = "hash", !.batch = NBatches(w.found),
                            !.verdicts = Ids(0, w.found)]
  <2>1. w.pc = "judge" /\ Step(b, v)
    BY <1>7 DEF JudgeFails
  <2>2. Onward(b, w, v)
    BY <2>1, JudgeFailsOnward
  <2> HIDE DEF v
  <2>3. Moves(b, v)
    BY <2>1, <2>2 DEF Moves, Started
  <2> QED BY <2>3
<1>8. CASE Hash(b)
  <2> DEFINE v == [w EXCEPT !.snap = Content[tree][b], !.verdicts = <<>>,
                            !.pc = IF w.ok THEN "write" ELSE "merge",
                            !.units = IF w.ok /\ ~plan.assessment
                                      THEN UnitsOf(plan.bundle[b]) ELSE @]
  <2>1. w.pc = "hash" /\ Step(b, v)
    BY <1>8 DEF Hash
  <2>2. Onward(b, w, v)
    BY <2>1, HashOnward
  <2> HIDE DEF v
  <2>3. Moves(b, v)
    BY <2>1, <2>2 DEF Moves, Started
  <2> QED BY <2>3
<1> QED BY <1>1, <1>2, <1>3, <1>4, <1>5, <1>6, <1>7, <1>8 DEF Local

-----------------------------------------------------------------------------
(* What a step of the system does to the goroutines.                       *)

BundlesInv ==
    /\ plan \in Plans /\ {tree, built} \subseteq Commits /\ meta \in Commits \cup {Unknown}
    /\ work \in [Bundles -> Work] /\ \A b \in Bundles : WorkOK(b, work[b])

\* The work of bundle b becomes w, and a hunter has less to do.
Spends(b, w) == IF work[b].pc = "hunter" THEN Left(w) \in 1 .. Left(work[b]) - 1
                ELSE Left(w) = 2 * Budget
Becomes(b, w) == /\ work' = [work EXCEPT ![b] = w] /\ WorkOK(b, w)
                 /\ w.pc = "hunter" => Spends(b, w)
Evolves == \/ work' = work \/ work' = [b \in Bundles |-> NoWork]
           \/ \E b \in Bundles : \E w : Becomes(b, w)

\* The files that are there are read on the way.
LEMMA MovesBecome ==
    ASSUME tree \in Commits, NEW b \in Bundles, NEW v, Moves(b, v)
    PROVE  Becomes(b, Here(v, b)) /\ plan' = plan /\ tree' = tree /\ built' = built /\ meta' = meta
<1> DEFINE w == Here(v, b)
<1>1. WorkOK(b, v) /\ v \in Work
  BY DEF Moves, Onward, WorkOK
<1>2. WorkOK(b, w)
  BY <1>1, HereOK
<1>3. w.pc = v.pc /\ Left(w) = Left(v)
  BY <1>1 DEF Here, Work, Left
<1>4. work' = [work EXCEPT ![b] = w]
  BY DEF Moves, Step
<1> HIDE DEF w
<1>5. w.pc = "hunter" => Spends(b, w)
  BY <1>3 DEF Moves, Onward, Spends
<1>6. Becomes(b, w)
  BY <1>2, <1>4, <1>5 DEF Becomes
<1> QED BY <1>6 DEF w, Moves, Step, Idle, run

LEMMA SpawnBecomes ==
    ASSUME BundlesInv, NEW b \in Bundles, Spawn(b), work[b].pc # "hunter"
    PROVE  work' = work \/ \E w : Becomes(b, w)
<1>1. CASE Skip(b)
  BY <1>1 DEF Spawn
<1>2. CASE ~Skip(b)
  <2>1. PICK r \in Selected :
          work' = [work EXCEPT ![b] =
            [NoWork EXCEPT !.pc = "hunter", !.parts = <<plan.bundle[b]>>,
                           !.try = FirstTry(r), !.read = Evidence(b) \cup {Content[tree][b]}]]
    BY <1>2 DEF Spawn
  <2> DEFINE w == [NoWork EXCEPT !.pc = "hunter", !.parts = <<plan.bundle[b]>>,
                                 !.try = FirstTry(r), !.read = Evidence(b) \cup {Content[tree][b]}]
  <2>2. plan \in Plans /\ {tree, built} \subseteq Commits /\ r \in 1 .. Resources
    BY SelectedResource DEF BundlesInv
  <2>3. WorkOK(b, w) /\ Left(w) = 2 * Budget
    BY <2>2, SpawnedOK
  <2>4. work' = [work EXCEPT ![b] = w]
    BY <2>1
  <2> HIDE DEF w
  <2>5. Becomes(b, w)
    BY <2>3, <2>4 DEF Becomes, Spends
  <2> QED BY <2>5
<1> QED BY <1>1, <1>2

LEMMA WriteBecomes ==
    ASSUME BundlesInv, NEW b \in Bundles, Write(b)
    PROVE  \E w : Becomes(b, w)
<1> DEFINE w == [work[b] EXCEPT !.pc = "merge"]
<1>1. work' = [work EXCEPT ![b] = w] /\ work[b].pc = "write"
  BY DEF Write
<1>2. WorkOK(b, w)
  BY <1>1, WrittenOK DEF BundlesInv
<1>3. w.pc = "merge"
  BY DEF BundlesInv, Work
<1> HIDE DEF w
<1>4. Becomes(b, w)
  BY <1>1, <1>2, <1>3 DEF Becomes
<1> QED BY <1>4

LEMMA LeaveBecomes ==
    ASSUME NEW b \in Bundles, Leave(b)
    PROVE  \E w : Becomes(b, w)
<1> DEFINE w == [NoWork EXCEPT !.pc = "done"]
<1>1. work' = [work EXCEPT ![b] = w]
  BY DEF Leave
<1>2. WorkOK(b, w)
  BY NoWorkOK
<1>3. w.pc = "done"
  BY DEF NoWork
<1> HIDE DEF w
<1>4. Becomes(b, w)
  BY <1>1, <1>2, <1>3 DEF Becomes
<1> QED BY <1>4

\* The other disjuncts leave the goroutines alone, or end them all.
Others == Plan \/ Start \/ Break \/ Finish \/ Cancel \/ Crash
          \/ (\E c \in Commits : Switch(c)) \/ (\E b \in Bundles : Reuse(b))

LEMMA OthersEvolve ==
    ASSUME BundlesInv, Others
    PROVE  /\ work' = work \/ work' = [b \in Bundles |-> NoWork]
           /\ plan' = plan /\ {tree', built'} \subseteq Commits /\ meta' \in Commits \cup {Unknown}
<1>0. CASE Plan
  BY <1>0 DEF Plan, Fresh, BundlesInv
<1>1. CASE Start
  BY <1>1 DEF Start, Idle, BundlesInv
<1>2. CASE Break
  BY <1>2 DEF Break, Idle, BundlesInv
<1>3. CASE Finish
  BY <1>3 DEF Finish, Idle, BundlesInv
<1>4. CASE Cancel
  BY <1>4 DEF Cancel, BundlesInv
<1>5. CASE Crash
  BY <1>5 DEF Crash, Fresh, BundlesInv
<1>6. CASE \E c \in Commits : Switch(c)
  BY <1>6 DEF Switch, run, BundlesInv
<1>7. CASE \E b \in Bundles : Reuse(b)
  BY <1>7 DEF Reuse, Idle, BundlesInv
<1> QED BY <1>0, <1>1, <1>2, <1>3, <1>4, <1>5, <1>6, <1>7 DEF Others

LEMMA BundleNumbers ==
    /\ NBundles \in Nat \ {0}
    /\ \A b \in Bundles : b \in 1 .. NBundles /\ b \in Nat
    /\ 2 * NBundles = NBundles + NBundles
  BY DebateAssumption DEF Bundles

\* A bundle that is going to be started has no goroutine.
NotYet == mode = "running" => \A b \in Bundles : at <= NBundles + b => ~Started(b)

LEMMA NextCases ==
    ASSUME Next
    PROVE  Others \/ \E b \in Bundles : Spawn(b) \/ Local(b) \/ Write(b) \/ MergeBundle(b)
  BY DEF Next, Main, Environment, Goroutine, Others, Local

LEMMA StepEvolves ==
    ASSUME BundlesInv, NotYet, [Next]_vars
    PROVE  /\ Evolves
           /\ plan' = plan /\ {tree', built'} \subseteq Commits /\ meta' \in Commits \cup {Unknown}
<1>1. CASE Others
  BY <1>1, OthersEvolve DEF Evolves
<1>2. ASSUME NEW b \in Bundles, Spawn(b)
      PROVE  Evolves /\ plan' = plan /\ tree' = tree /\ built' = built /\ meta' = meta
  <2>1. work[b].pc # "hunter"
    <3>1. at = NBundles + b /\ mode = "running"
      BY <1>2 DEF Spawn
    <3>2. NBundles + b <= NBundles + b
      BY BundleNumbers
    <3> QED BY <3>1, <3>2 DEF NotYet, Started
  <2>2. Evolves
    BY <1>2, <2>1, SpawnBecomes DEF Evolves
  <2> QED BY <1>2, <2>2 DEF Spawn, Idle
<1>3. ASSUME NEW b \in Bundles, Local(b)
      PROVE  Evolves /\ plan' = plan /\ tree' = tree /\ built' = built /\ meta' = meta
  <2>1. PICK v : Moves(b, v)
    BY <1>3, LocalMoves DEF BundlesInv
  <2>2. Becomes(b, Here(v, b)) /\ plan' = plan /\ tree' = tree /\ built' = built /\ meta' = meta
    BY <2>1, MovesBecome DEF BundlesInv
  <2> QED BY <2>2 DEF Evolves
<1>4. ASSUME NEW b \in Bundles, Write(b)
      PROVE  Evolves /\ plan' = plan /\ tree' = tree /\ built' = built /\ meta' = meta
  <2>1. \E w : Becomes(b, w)
    BY <1>4, WriteBecomes
  <2> QED BY <1>4, <2>1 DEF Evolves, Write, Idle, run
<1>5. ASSUME NEW b \in Bundles, MergeBundle(b)
      PROVE  Evolves /\ plan' = plan /\ tree' = tree /\ built' = built /\ meta' = meta
  <2>1. \E w : Becomes(b, w)
    BY <1>5, LeaveBecomes DEF MergeBundle
  <2> QED BY <1>5, <2>1 DEF Evolves, MergeBundle, Idle, run
<1>6. CASE UNCHANGED vars
  BY <1>6 DEF vars, run, Evolves, BundlesInv
<1>7. CASE Next
  BY <1>1, <1>2, <1>3, <1>4, <1>5, <1>7, NextCases DEF BundlesInv
<1> QED BY <1>6, <1>7

LEMMA BundlesInvKept ==
    ASSUME BundlesInv, NotYet, [Next]_vars
    PROVE  BundlesInv'
<1>1. Evolves /\ plan' = plan /\ {tree', built'} \subseteq Commits /\ meta' \in Commits \cup {Unknown}
  BY StepEvolves
<1>2. \A b, w : WorkOK(b, w) => w \in Work
  BY DEF WorkOK
<1>3. work' \in [Bundles -> Work] /\ \A b \in Bundles : WorkOK(b, work'[b])
  <2>1. CASE work' = work
    BY <2>1 DEF BundlesInv
  <2>2. CASE work' = [b \in Bundles |-> NoWork]
    BY <1>2, <2>2, NoWorkOK
  <2>3. CASE \E b \in Bundles : \E w : Becomes(b, w)
    <3>1. PICK b \in Bundles : \E w : Becomes(b, w)
      BY <2>3
    <3>2. PICK w : Becomes(b, w)
      BY <3>1
    <3>3. work' = [work EXCEPT ![b] = w] /\ WorkOK(b, w) /\ w \in Work
      BY <1>2, <3>2 DEF Becomes
    <3> QED BY <3>3 DEF BundlesInv
  <2> QED BY <1>1, <2>1, <2>2, <2>3 DEF Evolves
<1>4. \A b, w : WorkOK(b, w) => WorkOK(b, w)'
  BY <1>1 DEF WorkOK, Due
<1> QED BY <1>1, <1>3, <1>4 DEF BundlesInv

-----------------------------------------------------------------------------
(* Which goroutines run, and where the main loop is.                       *)

RunningSet == {b \in Bundles : Started(b)}
ControlInv ==
    /\ mode \in {"idle", "planned", "running", "ended"} /\ at \in 0 .. 2 * NBundles + 1
    /\ mode # "running" => RunningSet = {}
    /\ NotYet

LEMMA LocalKeepsRunning ==
    ASSUME BundlesInv, NEW b \in Bundles, Local(b) \/ Write(b)
    PROVE  /\ mode = "running" /\ RunningSet' = RunningSet /\ Started(b)
           /\ UNCHANGED <<run, slots, merged, result>> /\ Idle
           /\ Local(b) => UNCHANGED saved
<1>1. CASE Local(b)
  <2>1. PICK v : Moves(b, v)
    BY <1>1, LocalMoves DEF BundlesInv
  <2>2. v \in Work /\ v.pc \notin {"none", "done"}
    BY <2>1 DEF Moves, Onward, WorkOK
  <2>3. Here(v, b).pc = v.pc
    BY <2>2 DEF Here, Work
  <2>4. work' = [work EXCEPT ![b] = Here(v, b)] /\ Started(b)
    BY <2>1 DEF Moves, Step
  <2>5. \A c \in Bundles : Started(c)' <=> Started(c)
    BY <2>2, <2>3, <2>4 DEF Started, BundlesInv
  <2>6. RunningSet' = RunningSet
    BY <2>5 DEF RunningSet
  <2> QED BY <2>1, <2>4, <2>6 DEF Moves, Step
<1>2. CASE Write(b)
  <2>1. /\ work' = [work EXCEPT ![b] = [work[b] EXCEPT !.pc = "merge"]]
        /\ work[b].pc = "write" /\ work[b] \in Work
    BY <1>2 DEF Write, BundlesInv
  <2>2. [work[b] EXCEPT !.pc = "merge"].pc = "merge"
    BY <2>1 DEF Work
  <2>3. \A c \in Bundles : Started(c)' <=> Started(c)
    BY <2>1, <2>2 DEF Started, BundlesInv
  <2>4. RunningSet' = RunningSet
    BY <2>3 DEF RunningSet
  <2>5. ~Local(b)
    BY <2>1 DEF Local, HunterFinds, UnitsAssessed, HunterFails, HunterStopped,
                Challenge, JudgeBatch, JudgeFails, Hash
  <2>6. mode = "running" /\ UNCHANGED <<run, slots, merged, result>> /\ Idle
    BY <1>2 DEF Write
  <2> QED BY <2>1, <2>4, <2>5, <2>6 DEF Started
<1> QED BY <1>1, <1>2

LEMMA SpawnRuns ==
    ASSUME BundlesInv, ControlInv, NEW b \in Bundles, Spawn(b)
    PROVE  /\ ~Started(b)
           /\ Skip(b) => UNCHANGED <<slots, work>> /\ RunningSet' = RunningSet
           /\ ~Skip(b) => /\ RunningSet' = RunningSet \cup {b}
                          /\ slots < width /\ slots' = slots + 1
                          /\ work'[b].read = Evidence(b) \cup {Content[tree][b]} /\ work'[b].pc = "hunter"
                          /\ \A c \in Bundles \ {b} : work'[c] = work[c]
<1>1. ~Started(b)
  <2>1. at = NBundles + b /\ mode = "running"
    BY DEF Spawn
  <2>2. NBundles + b <= NBundles + b
    BY BundleNumbers
  <2> QED BY <2>1, <2>2 DEF ControlInv, NotYet
<1>2. ASSUME Skip(b) PROVE UNCHANGED <<slots, work>> /\ RunningSet' = RunningSet
  BY <1>2 DEF Spawn, RunningSet, Started
<1>3. ASSUME ~Skip(b)
      PROVE  /\ RunningSet' = RunningSet \cup {b}
             /\ slots < width /\ slots' = slots + 1
             /\ work'[b].read = Evidence(b) \cup {Content[tree][b]} /\ work'[b].pc = "hunter"
             /\ \A c \in Bundles \ {b} : work'[c] = work[c]
  <2>1. PICK r \in Selected :
          work' = [work EXCEPT ![b] =
            [NoWork EXCEPT !.pc = "hunter", !.parts = <<plan.bundle[b]>>,
                           !.try = FirstTry(r), !.read = Evidence(b) \cup {Content[tree][b]}]]
    BY <1>3 DEF Spawn
  <2> DEFINE w == [NoWork EXCEPT !.pc = "hunter", !.parts = <<plan.bundle[b]>>,
                                 !.try = FirstTry(r), !.read = Evidence(b) \cup {Content[tree][b]}]
  <2>2. plan \in Plans /\ {tree, built} \subseteq Commits /\ r \in 1 .. Resources
    BY SelectedResource DEF BundlesInv
  <2>3. w.pc = "hunter" /\ w.read = Evidence(b) \cup {Content[tree][b]}
    BY <2>2, SpawnedOK
  <2>4. work' = [work EXCEPT ![b] = w] /\ work \in [Bundles -> Work]
    BY <2>1 DEF BundlesInv
  <2> HIDE DEF w
  <2>5. work'[b] = w /\ \A c \in Bundles \ {b} : work'[c] = work[c]
    BY <2>4
  <2>6. \A c \in Bundles : Started(c)' <=> Started(c) \/ c = b
    BY <2>3, <2>5 DEF Started
  <2>7. RunningSet' = RunningSet \cup {b}
    BY <2>6 DEF RunningSet
  <2>8. slots < width /\ slots' = slots + 1
    BY <1>3 DEF Spawn
  <2> QED BY <2>3, <2>5, <2>7, <2>8
<1> QED BY <1>1, <1>2, <1>3

LEMMA LeaveEnds ==
    ASSUME BundlesInv, NEW b \in Bundles, MergeBundle(b)
    PROVE  /\ Started(b) /\ RunningSet' = RunningSet \ {b} /\ slots' = slots - 1
           /\ \A c \in Bundles \ {b} : work'[c] = work[c]
           /\ work'[b].pc = "done"
<1>1. /\ work' = [work EXCEPT ![b] = [NoWork EXCEPT !.pc = "done"]]
      /\ slots' = slots - 1 /\ work[b].pc = "merge"
  BY DEF MergeBundle, Leave
<1>2. [NoWork EXCEPT !.pc = "done"].pc = "done"
  BY DEF NoWork
<1>3. work'[b].pc = "done" /\ \A c \in Bundles \ {b} : work'[c] = work[c]
  BY <1>1, <1>2 DEF BundlesInv
<1>4. \A c \in Bundles : Started(c)' <=> Started(c) /\ c # b
  BY <1>3 DEF Started
<1>5. RunningSet' = RunningSet \ {b}
  BY <1>4 DEF RunningSet
<1> QED BY <1>1, <1>3, <1>5 DEF Started

LEMMA OthersRunning ==
    ASSUME Others
    PROVE  RunningSet' = RunningSet \/ RunningSet' = {}
<1>1. work' = work \/ Fresh
  BY DEF Others, Plan, Start, Break, Finish, Cancel, Crash, Switch, Reuse
<1>2. CASE work' = work
  BY <1>2 DEF RunningSet, Started
<1>3. CASE Fresh
  BY <1>3 DEF Fresh, RunningSet, Started, NoWork
<1> QED BY <1>1, <1>2, <1>3

LEMMA ControlInvKept ==
    ASSUME BundlesInv, ControlInv, [Next]_vars
    PROVE  ControlInv'
<1> USE BundleNumbers
<1>1. ASSUME NEW b \in Bundles, Local(b) \/ Write(b) PROVE ControlInv'
  <2>1. mode = "running" /\ RunningSet' = RunningSet /\ UNCHANGED run
    BY <1>1, LocalKeepsRunning
  <2>2. \A c \in Bundles : Started(c)' <=> Started(c)
    BY <2>1 DEF RunningSet
  <2> QED BY <2>1, <2>2 DEF ControlInv, NotYet, run
<1>2. ASSUME NEW b \in Bundles, Spawn(b) PROVE ControlInv'
  <2>1. /\ mode = "running" /\ mode' = mode /\ at = NBundles + b /\ at' = at + 1
    BY <1>2 DEF Spawn
  <2>2. \A c \in Bundles : Started(c)' => Started(c) \/ c = b
    BY <1>2, SpawnRuns DEF RunningSet
  <2>3. \A c \in Bundles : at' <= NBundles + c => at <= NBundles + c /\ c # b
    BY <2>1
  <2>4. at' \in 0 .. 2 * NBundles + 1
    BY <2>1
  <2> QED BY <2>1, <2>2, <2>3, <2>4 DEF ControlInv, NotYet
<1>3. ASSUME NEW b \in Bundles, MergeBundle(b) PROVE ControlInv'
  <2>1. mode = "running" /\ UNCHANGED run
    BY <1>3 DEF MergeBundle
  <2>2. \A c \in Bundles : Started(c)' => Started(c)
    BY <1>3, LeaveEnds DEF RunningSet
  <2> QED BY <2>1, <2>2 DEF ControlInv, NotYet, run
<1>4. ASSUME Plan \/ Crash PROVE ControlInv'
  <2>1. mode' \in {"idle", "planned"} /\ at' = 0 /\ Fresh
    BY <1>4 DEF Plan, Crash
  <2>2. \A c \in Bundles : ~Started(c)'
    BY <2>1 DEF Fresh, Started, NoWork
  <2> QED BY <2>1, <2>2 DEF ControlInv, NotYet, RunningSet
<1>7. ASSUME Start PROVE ControlInv'
  <2>1. mode = "planned" /\ mode' = "running" /\ at' = 1 /\ work' = work
    BY <1>7 DEF Start
  <2>2. \A c \in Bundles : ~Started(c)
    BY <2>1 DEF ControlInv, RunningSet
  <2>3. \A c \in Bundles : ~Started(c)'
    BY <2>1, <2>2 DEF Started
  <2> QED BY <2>1, <2>3 DEF ControlInv, NotYet, RunningSet
<1>5. ASSUME Break \/ Finish \/ Cancel \/ (\E c \in Commits : Switch(c)) \/ UNCHANGED vars
      PROVE  ControlInv'
  <2>1. /\ \A c \in Bundles : Started(c)' <=> Started(c)
        /\ RunningSet' = RunningSet
    BY <1>5 DEF Break, Finish, Cancel, Switch, vars, Started, RunningSet
  <2>2. CASE mode' = mode /\ at' = at
    BY <2>1, <2>2 DEF ControlInv, NotYet
  <2>3. CASE Break
    <3>1. mode' = mode /\ mode = "running" /\ at' = 2 * NBundles + 1
      BY <2>3 DEF Break
    <3>2. \A c \in Bundles : ~(at' <= NBundles + c)
      BY <3>1
    <3>3. at' \in 0 .. 2 * NBundles + 1
      BY <3>1
    <3> QED BY <3>1, <3>2, <3>3 DEF ControlInv, NotYet
  <2>4. CASE Finish
    <3>1. mode' = "ended" /\ at' = at /\ RunningSet = {}
      BY <2>4 DEF Finish, RunningSet
    <3> QED BY <2>1, <3>1 DEF ControlInv, NotYet
  <2> QED BY <1>5, <2>2, <2>3, <2>4 DEF Cancel, Switch, run, vars
<1>6. ASSUME NEW b \in Bundles, Reuse(b) PROVE ControlInv'
  <2>1. mode = "running" /\ mode' = mode /\ at = b /\ at' = b + 1 /\ work' = work
    BY <1>6 DEF Reuse
  <2>2. \A c \in Bundles : Started(c)' <=> Started(c)
    BY <2>1 DEF Started
  <2>3. \A c \in Bundles : at <= NBundles + c
    BY <2>1
  <2>4. at' \in 0 .. 2 * NBundles + 1
    BY <2>1
  <2> QED BY <2>1, <2>2, <2>3, <2>4 DEF ControlInv, NotYet
<1> QED BY <1>1, <1>2, <1>3, <1>4, <1>5, <1>6, <1>7, NextCases DEF Others

-----------------------------------------------------------------------------
(* The theorems about single bundles.                                      *)

WorkInv == BundlesInv /\ ControlInv

LEMMA WorkInvInit == Init => WorkInv
<1> SUFFICES ASSUME Init PROVE WorkInv
  OBVIOUS
<1>1. /\ plan \in Plans /\ {tree, built} \subseteq Commits /\ meta \in Commits
      /\ work = [b \in Bundles |-> NoWork] /\ mode = "idle" /\ at = 0
  BY DebateAssumption DEF Init
<1>2. NoWork \in Work /\ \A b : WorkOK(b, NoWork)
  BY NoWorkOK DEF WorkOK
<1>3. BundlesInv
  BY <1>1, <1>2 DEF BundlesInv
<1>4. \A b \in Bundles : ~Started(b)
  BY <1>1 DEF Started, NoWork
<1>5. at \in 0 .. 2 * NBundles + 1
  BY <1>1, BundleNumbers
<1>6. ControlInv
  BY <1>1, <1>4, <1>5 DEF ControlInv, NotYet, RunningSet
<1> QED BY <1>3, <1>6 DEF WorkInv

LEMMA WorkInvNext == WorkInv /\ [Next]_vars => WorkInv'
  BY BundlesInvKept, ControlInvKept DEF WorkInv, ControlInv

LEMMA WorkInvHolds == Spec => []WorkInv
  BY WorkInvInit, WorkInvNext, PTL DEF Spec

LEMMA RuledAll ==
    ASSUME WorkInv
    PROVE  OneVerdictEach
<1> SUFFICES ASSUME NEW b \in Bundles, work[b].pc = "hash"
             PROVE  RuledOn(work[b].verdicts, work[b].found)
  BY DEF OneVerdictEach, RuledOn
<1> QED BY DEF WorkInv, BundlesInv, WorkOK, Due

\* Whatever the number of candidates, the size of the batches, what the judge
\* answers and in which order, and the calls that fail: its stage leaves as many
\* verdicts as candidates and one for each, so exactly one.
THEOREM OneVerdictForEach == Spec => []OneVerdictEach
  BY WorkInvHolds, RuledAll, PTL

LEMMA HuntersSpend ==
    ASSUME WorkInv, [Next]_vars, NEW b \in Bundles,
           work'[b].pc = "hunter", work'[b] # work[b]
    PROVE  IF work[b].pc = "hunter" THEN Left(work'[b]) \in 1 .. Left(work[b]) - 1
           ELSE Left(work'[b]) = 2 * Budget
<1>1. Evolves
  BY StepEvolves DEF WorkInv, ControlInv
<1>2. work' # work
  OBVIOUS
<1>3. work' # [c \in Bundles |-> NoWork]
  BY DEF NoWork
<1>4. PICK c \in Bundles : \E w : Becomes(c, w)
  BY <1>1, <1>2, <1>3 DEF Evolves
<1>5. PICK w : Becomes(c, w)
  BY <1>4
<1>6. work' = [work EXCEPT ![c] = w] /\ (w.pc = "hunter" => Spends(c, w))
  BY <1>5 DEF Becomes
<1>7. c = b /\ work'[b] = w
  BY <1>6 DEF WorkInv, BundlesInv
<1> QED BY <1>6, <1>7 DEF Spends

\* For every configuration of retries, failovers and splits and every sequence
\* of errors: a bundle starts with a budget of calls that the configuration
\* gives, every attempt that follows a failed one has less of it, and never
\* less than one.
THEOREM CallsAreBounded == Spec => CallsBounded
<1>1. WorkInv /\ [Next]_vars =>
        [\A b \in Bundles : work'[b].pc = "hunter" /\ work'[b] # work[b] =>
           IF work[b].pc = "hunter" THEN Left(work'[b]) \in 1 .. Left(work[b]) - 1
           ELSE Left(work'[b]) = 2 * Budget]_vars
  BY HuntersSpend
<1> QED BY <1>1, WorkInvHolds, PTL DEF Spec, CallsBounded
=============================================================================
