-------------------------- MODULE RoundRobinProofs --------------------------
(* That round robin, plain and weighted, never leaves its list and deals    *)
(* fairly, for any listing and weights, any number of callers and any width *)
(* of the counter.                                                          *)
EXTENDS LoadBalancerProofs

----------------------------------------------------------------------------
(* The list that selectRoundRobin indexes, weighted or plain. *)

LEMMA ShareType ==
  ASSUME NEW kind, NEW i \in Instances
  PROVE  Share(kind, i) \in Nat \ {0}
BY BalancerAssumption DEF Share, WeightOf

\* A new candidate makes the list longer by its share.
LEMMA SharesAdd ==
  ASSUME NEW kind, NEW C \in SUBSET Instances, IsFiniteSet(C)
  PROVE  /\ Shares(kind, C) \in Nat
         /\ \A x \in Instances \ C : Shares(kind, C \cup {x}) = Shares(kind, C) + Share(kind, x)
<1> DEFINE f == [i \in Instances |-> Share(kind, i)]
<1>1. \A i \in Instances : f[i] = Share(kind, i) /\ f[i] \in Nat
  BY ShareType
<1>2. \A D : Shares(kind, D) = SumFunctionOnSet(f, D)
  BY DEF Shares
<1> HIDE DEF f
<1>3. /\ Shares(kind, C) = Cardinality(Slots(f, C))
      /\ IsFiniteSet(Slots(f, C)) /\ Cardinality(Slots(f, C)) \in Nat
  BY <1>1, <1>2, SumOfSlots, SlotsFinite
<1>4. ASSUME NEW x \in Instances \ C
      PROVE  Shares(kind, C \cup {x}) = Shares(kind, C) + Share(kind, x)
  <2> DEFINE D == C \cup {x}
  <2>1. IsFiniteSet(D) /\ \A i \in D : f[i] \in Nat
    BY <1>1, FS_AddElement
  <2> HIDE DEF D
  <2>2. Shares(kind, D) = Cardinality(Slots(f, D))
    BY <1>2, <2>1, SumOfSlots
  <2>3. Cardinality(Slots(f, D)) = f[x] + Cardinality(Slots(f, C))
    BY <1>1, <1>3, SlotsAdd, Zenon DEF D
  <2> QED
    BY <1>1, <1>3, <2>2, <2>3 DEF D
<1> QED
  BY <1>3, <1>4

LEMMA SharesEmpty == \A kind : Shares(kind, {}) = 0
<1> TAKE kind
<1> DEFINE f == [i \in Instances |-> Share(kind, i)]
<1>1. Shares(kind, {}) = Cardinality(Slots(f, {}))
  BY SlotsEmpty, SumOfSlots DEF Shares
<1> QED
  BY <1>1, SlotsEmpty

LEMMA SharesMonotonic ==
  ASSUME NEW kind, NEW D \in SUBSET Instances, IsFiniteSet(D), NEW C \in SUBSET D
  PROVE  Shares(kind, C) <= Shares(kind, D)
<1> DEFINE f == [i \in Instances |-> Share(kind, i)]
<1>1. \A i \in Instances : f[i] \in Nat
  BY ShareType
<1>2. \A X : Shares(kind, X) = SumFunctionOnSet(f, X)
  BY DEF Shares
<1> HIDE DEF f
<1>3. IsFiniteSet(C)
  BY FS_Subset
<1>4. /\ Shares(kind, C) = Cardinality(Slots(f, C))
      /\ Shares(kind, D) = Cardinality(Slots(f, D)) /\ IsFiniteSet(Slots(f, D))
  BY <1>1, <1>2, <1>3, SumOfSlots, SlotsFinite
<1>5. Slots(f, C) \in SUBSET Slots(f, D)
  BY DEF Slots
<1> QED
  BY <1>4, <1>5, FS_Subset

LEMMA MembersFinite ==
  ASSUME NEW s \in Services
  PROVE  IsFiniteSet(Members(s))
<1> DEFINE l == Listing[s]
<1>1. l \in Seq(Instances)
  BY BalancerAssumption
<1>2. DOMAIN l = 1..Len(l) /\ Len(l) \in Nat /\ l \in [1..Len(l) -> Instances]
  BY <1>1
<1>3. IsFiniteSet(DOMAIN l)
  BY <1>2, FS_Interval
<1>4. l \in Surjection(DOMAIN l, Members(s))
  BY <1>2 DEF Surjection, Members
<1> HIDE DEF l
<1> QED
  BY <1>3, <1>4, FS_Surjection

LEMMA RankType ==
  ASSUME NEW s \in Services
  PROVE  \A i \in Members(s) : /\ Rank(s, i) \in Nat
                               /\ Rank(s, i) \in DOMAIN Listing[s]
                               /\ Listing[s][Rank(s, i)] = i
<1>1. DOMAIN Listing[s] \subseteq Nat
  BY BalancerAssumption
<1>2. ASSUME NEW i \in Members(s)
      PROVE  Rank(s, i) \in DOMAIN Listing[s] /\ Listing[s][Rank(s, i)] = i
  BY Zenon DEF Rank, Members
<1> QED
  BY <1>1, <1>2

\* No two members have the same rank.
LEMMA RankInjective ==
  ASSUME NEW s \in Services, NEW i \in Members(s), NEW j \in Members(s), i # j
  PROVE  Rank(s, i) < Rank(s, j) \/ Rank(s, j) < Rank(s, i)
<1>1. Rank(s, i) # Rank(s, j)
  BY RankType
<1>2. Rank(s, i) \in Nat /\ Rank(s, j) \in Nat
  BY RankType
<1> QED
  BY <1>1, <1>2

\* A set of members has a last one, which all the others are ahead of.
LEMMA LastOne ==
  ASSUME NEW s \in Services, NEW D \in SUBSET Members(s), D # {}
  PROVE  \E j \in D : D = Ahead(s, D, j) \cup {j}
<1> DEFINE Last(T, j) == \A i \in T \ {j} : Rank(s, i) < Rank(s, j)
           Bad == {T \in SUBSET D : T # {} /\ ~\E j \in T : Last(T, j)}
<1>1. ASSUME NEW T \in Bad
      PROVE  \E x \in T : T \ {x} \in Bad
  <2>1. PICK x \in T : TRUE
    OBVIOUS
  <2>2. T \ {x} # {}
    BY <2>1
  <2>3. ASSUME NEW j \in T \ {x}, Last(T \ {x}, j)
        PROVE  FALSE
    <3>1. Rank(s, x) < Rank(s, j) \/ Rank(s, j) < Rank(s, x)
      BY <2>1, RankInjective
    <3>2. \A i \in T : Rank(s, i) \in Nat
      BY RankType
    <3>3. Last(T, j) \/ Last(T, x)
      BY <2>1, <2>3, <3>1, <3>2
    <3> QED
      BY <2>1, <3>3
  <2> QED
    BY <2>1, <2>2, <2>3
<1>2. Bad = {}
  <2>1. IsFiniteSet(D) /\ Bad \in SUBSET SUBSET D
    BY MembersFinite, FS_Subset
  <2> HIDE DEF Bad
  <2> QED
    BY <1>1, <2>1, NoBadSubset, Zenon
<1>3. PICK j \in D : Last(D, j)
  BY <1>2
<1> QED
  BY <1>3 DEF Ahead

\* Where the places of i begin in the list of the candidates C.
Before(s, kind, C, i) == Shares(kind, Ahead(s, C, i))

\* The places of a candidate lie in the list, and end before those of the
\* candidates behind it begin.
LEMMA Places ==
  ASSUME NEW s \in Services, NEW kind, NEW C \in SUBSET Members(s), NEW i \in C
  PROVE  /\ Before(s, kind, C, i) \in Nat /\ Shares(kind, C) \in Nat
         /\ Share(kind, i) \in Nat \ {0}
         /\ Shares(kind, Ahead(s, C, i) \cup {i}) = Before(s, kind, C, i) + Share(kind, i)
         /\ Before(s, kind, C, i) + Share(kind, i) <= Shares(kind, C)
         /\ \A j \in C : Rank(s, i) < Rank(s, j)
              => Before(s, kind, C, i) + Share(kind, i) <= Before(s, kind, C, j)
<1>1. C \subseteq Instances /\ IsFiniteSet(C)
  BY Basics, MembersFinite, FS_Subset
<1>2. \A j \in C : Rank(s, j) \in Nat
  BY RankType
<1> DEFINE A == Ahead(s, C, i)
           B == A \cup {i}
<1>3. A \in SUBSET Instances /\ IsFiniteSet(A) /\ i \in Instances \ A
  <2>1. A \in SUBSET C /\ i \notin A
    BY <1>2 DEF Ahead
  <2> QED
    BY <1>1, <2>1, FS_Subset
<1>4. Shares(kind, A) \in Nat /\ Shares(kind, B) = Shares(kind, A) + Share(kind, i)
  BY <1>3, SharesAdd
<1>5. Share(kind, i) \in Nat \ {0} /\ Shares(kind, C) \in Nat
  BY <1>1, <1>3, ShareType, SharesAdd
<1>6. Shares(kind, B) <= Shares(kind, C)
  <2>1. B \in SUBSET C
    BY DEF Ahead
  <2> QED
    BY <1>1, <2>1, SharesMonotonic
<1>7. ASSUME NEW j \in C, Rank(s, i) < Rank(s, j)
      PROVE  Shares(kind, B) <= Shares(kind, Ahead(s, C, j))
  <2>1. B \in SUBSET Ahead(s, C, j)
    BY <1>2, <1>7 DEF Ahead
  <2>2. Ahead(s, C, j) \in SUBSET Instances /\ IsFiniteSet(Ahead(s, C, j))
    <3>1. Ahead(s, C, j) \in SUBSET C
      BY DEF Ahead
    <3> QED
      BY <1>1, <3>1, FS_Subset
  <2> QED
    BY <2>1, <2>2, SharesMonotonic
<1> QED
  BY <1>4, <1>5, <1>6, <1>7, Zenon DEF Before

\* Instance i stands at place x of the list.
At(s, kind, C, x, i) ==
  Before(s, kind, C, i) <= x /\ x < Before(s, kind, C, i) + Share(kind, i)

\* Every place of the list has an instance,
LEMMA PlaceTaken ==
  ASSUME NEW s \in Services, NEW kind, NEW C \in SUBSET Members(s),
         NEW x \in Nat, x < Shares(kind, C)
  PROVE  \E i \in C : At(s, kind, C, x, i)
<1> DEFINE Beyond == {i \in C : x < Before(s, kind, C, i) + Share(kind, i)}
<1>1. C # {}
  BY SharesEmpty
<1>2. PICK j \in C : C = Ahead(s, C, j) \cup {j}
  BY <1>1, LastOne
<1>3. j \in Beyond
  BY <1>2, Places
<1> DEFINE First(i) == \A k \in Beyond : ~(Rank(s, k) < Rank(s, i))
<1>4. PICK i \in Beyond : First(i)
  <2> DEFINE R == {Rank(s, k) : k \in Beyond}
  <2>1. R \in SUBSET Nat /\ R # {}
    BY <1>3, RankType
  <2>2. PICK r \in R : \A q \in R : <<q, r>> \notin OpToRel(<, Nat)
    <3> HIDE DEF R
    <3> QED
      BY <2>1, NatLessThanWellFounded, WFMin, Zenon
  <2>3. \A q \in R : ~(q < r)
    BY <2>1, <2>2, Zenon DEF OpToRel
  <2> QED
    BY <2>3
<1> DEFINE A == Ahead(s, C, i)
<1>5. Before(s, kind, C, i) <= x
  <2>1. CASE A = {}
    BY <2>1, SharesEmpty DEF Before
  <2>2. CASE A # {}
    <3>1. A \in SUBSET Members(s)
      BY DEF Ahead
    <3>2. PICK k \in A : A = Ahead(s, A, k) \cup {k}
      BY <2>2, <3>1, LastOne
    <3>3. k \in C /\ Rank(s, k) < Rank(s, i)
      BY <3>2 DEF Ahead
    <3>4. Ahead(s, A, k) = Ahead(s, C, k)
      BY <3>3, RankType DEF Ahead
    <3>5. Before(s, kind, C, i) = Before(s, kind, C, k) + Share(kind, k)
      BY <3>2, <3>3, <3>4, Places DEF Before
    <3>6. ~(x < Before(s, kind, C, k) + Share(kind, k))
      BY <1>4, <3>3
    <3>7. Before(s, kind, C, k) \in Nat /\ Share(kind, k) \in Nat
      BY <3>3, Places, Zenon
    <3> QED
      BY <3>5, <3>6, <3>7
  <2> QED
    BY <2>1, <2>2
<1> QED
  BY <1>4, <1>5 DEF At

\* and only one.
LEMMA PlaceTakenOnce ==
  ASSUME NEW s \in Services, NEW kind, NEW C \in SUBSET Members(s), NEW x \in Int,
         NEW i \in C, NEW j \in C, At(s, kind, C, x, i), At(s, kind, C, x, j)
  PROVE  i = j
<1> SUFFICES ASSUME i # j PROVE FALSE
  OBVIOUS
<1>1. Rank(s, i) < Rank(s, j) \/ Rank(s, j) < Rank(s, i)
  BY RankInjective
<1>2. /\ Before(s, kind, C, i) \in Nat /\ Before(s, kind, C, j) \in Nat
      /\ Share(kind, i) \in Nat /\ Share(kind, j) \in Nat
  BY Places, Zenon
<1>3. \/ Before(s, kind, C, i) + Share(kind, i) <= Before(s, kind, C, j)
      \/ Before(s, kind, C, j) + Share(kind, j) <= Before(s, kind, C, i)
  BY <1>1, Places, Zenon
<1> QED
  BY <1>2, <1>3 DEF At

\* The index that selectRoundRobin computes.
Index(kind, C, n) == abs64(n) % Shares(kind, C)

LEMMA IndexType ==
  ASSUME NEW s \in Services, NEW kind, NEW C \in SUBSET Members(s), C # {},
         NEW n \in MinInt..MaxInt
  PROVE  /\ Shares(kind, C) \in Nat \ {0}
         /\ Index(kind, C, n) \in 0..(Shares(kind, C) - 1)
         /\ \A i : Dealt(s, kind, C, n, i) <=> At(s, kind, C, Index(kind, C, n), i)
<1>1. Shares(kind, C) \in Nat \ {0}
  <2>1. PICK i \in C : TRUE
    OBVIOUS
  <2>2. /\ Before(s, kind, C, i) \in Nat /\ Share(kind, i) \in Nat \ {0}
        /\ Shares(kind, C) \in Nat
        /\ Before(s, kind, C, i) + Share(kind, i) <= Shares(kind, C)
    BY <2>1, Places, Zenon
  <2> QED
    BY <2>2
<1>2. abs64(n) \in Nat
  BY AbsNeverNegative
<1>3. Index(kind, C, n) \in 0..(Shares(kind, C) - 1)
  BY <1>1, <1>2 DEF Index
<1>4. Remainder(abs64(n), Shares(kind, C)) = Index(kind, C, n)
  BY <1>2 DEF Remainder, Index
<1> QED
  BY <1>1, <1>3, <1>4 DEF Dealt, At, Before

\* Every counter value is dealt to exactly one candidate.
LEMMA DealtToOne ==
  ASSUME NEW s \in Services, NEW kind, NEW C \in SUBSET Members(s), C # {},
         NEW n \in MinInt..MaxInt
  PROVE  \E i \in C : \A j \in C : Dealt(s, kind, C, n, j) <=> j = i
<1> DEFINE x == Index(kind, C, n)
<1>1. x \in Nat /\ x < Shares(kind, C)
  <2>1. Shares(kind, C) \in Nat /\ x \in 0..(Shares(kind, C) - 1)
    BY IndexType
  <2> QED
    BY <2>1
<1>2. \A j : Dealt(s, kind, C, n, j) <=> At(s, kind, C, x, j)
  BY IndexType
<1> HIDE DEF x
<1>3. PICK i \in C : At(s, kind, C, x, i)
  BY <1>1, PlaceTaken
<1>4. \A j \in C : At(s, kind, C, x, j) => j = i
  BY <1>1, <1>3, PlaceTakenOnce
<1> QED
  BY <1>2, <1>3, <1>4

\* Without weights the list is as long as there are candidates.
LEMMA PlainShares ==
  ASSUME NEW C \in SUBSET Instances, IsFiniteSet(C)
  PROVE  Shares("plain", C) = Cardinality(C)
<1> DEFINE Bad == {T \in SUBSET C : Shares("plain", T) # Cardinality(T)}
<1>1. ASSUME NEW T \in Bad
      PROVE  \E x \in T : T \ {x} \in Bad
  <2>1. T # {}
    BY SharesEmpty, FS_EmptySet
  <2>2. PICK x \in T : TRUE
    BY <2>1
  <2> DEFINE D == T \ {x}
  <2>3. D \in SUBSET C /\ D \in SUBSET Instances /\ x \in Instances \ D /\ T = D \cup {x}
    BY <2>2
  <2>4. IsFiniteSet(D)
    BY <2>3, FS_Subset
  <2>5. Shares("plain", T) = Shares("plain", D) + 1
    BY <2>3, <2>4, SharesAdd DEF Share
  <2>6. Cardinality(T) = Cardinality(D) + 1
    BY <2>3, <2>4, FS_AddElement, Zenon
  <2>7. D \in Bad
    BY <2>3, <2>5, <2>6
  <2> QED
    BY <2>2, <2>7
<1>2. Bad = {}
  <2>1. Bad \in SUBSET SUBSET C
    OBVIOUS
  <2> HIDE DEF Bad
  <2> QED
    BY <1>1, <2>1, NoBadSubset, Zenon
<1> QED
  BY <1>2

\* Every key is hashed to exactly one candidate.
LEMMA HashedToOne ==
  ASSUME NEW s \in Services, NEW C \in SUBSET Members(s), C # {}, NEW key \in Sessions
  PROVE  \E i \in C : \A j \in C : Hashed(s, C, key, j) <=> j = i
<1> DEFINE x == Hash[key] % Cardinality(C)
<1>1. C \in SUBSET Instances /\ IsFiniteSet(C)
  BY Basics, MembersFinite, FS_Subset
<1>2. Cardinality(C) \in Nat \ {0}
  BY <1>1, FS_CardinalityType, FS_EmptySet
<1>3. x \in Nat /\ x < Cardinality(C) /\ Shares("plain", C) = Cardinality(C)
  BY <1>1, <1>2, PlainShares, BalancerAssumption
<1>4. ASSUME NEW j \in C
      PROVE  Hashed(s, C, key, j) <=> At(s, "plain", C, x, j)
  <2>1. Ahead(s, C, j) \in SUBSET C
    BY DEF Ahead
  <2>2. /\ Ahead(s, C, j) \in SUBSET Instances /\ IsFiniteSet(Ahead(s, C, j))
        /\ Cardinality(Ahead(s, C, j)) \in Nat
    BY <1>1, <2>1, FS_Subset, FS_CardinalityType
  <2>3. Before(s, "plain", C, j) = Cardinality(Ahead(s, C, j)) /\ Share("plain", j) = 1
    BY <2>2, PlainShares DEF Before, Share
  <2> QED
    BY <1>3, <2>2, <2>3 DEF Hashed, At
<1> HIDE DEF x
<1>5. PICK i \in C : At(s, "plain", C, x, i)
  BY <1>3, PlaceTaken
<1>6. \A j \in C : At(s, "plain", C, x, j) => j = i
  BY <1>3, <1>5, PlaceTakenOnce
<1> QED
  BY <1>4, <1>5, <1>6

(***************************************************************************)
(* For any listing, weights and hash, and wherever the counter stands, the *)
(* indices abs64(n) % len(instances) of selectRoundRobin and h % len of    *)
(* selectIPHash lie in the list and name exactly one candidate.            *)
(***************************************************************************)
THEOREM RoundRobinInRange == Spec => []IndexInRange
<1>1. LocatedInv => IndexInRange
  <2> SUFFICES ASSUME LocatedInv, NEW p \in Callers, call[p].at = "choosing"
               PROVE  LET s == call[p].serviceName
                          C == call[p].candidates
                      IN  /\ \A kind \in {"plain", "weighted"} : \E i \in C : \A j \in C :
                               Dealt(s, kind, C, Increment(roundRobinIdx[<<s, kind>>]), j)
                                 <=> j = i
                          /\ \A key \in Sessions : \E i \in C : \A j \in C :
                               Hashed(s, C, key, j) <=> j = i
    BY Zenon DEF IndexInRange, Choosing
  <2> DEFINE s == call[p].serviceName
             C == call[p].candidates
  <2>1. s \in Services /\ C # {} /\ C \in SUBSET Members(s)
    BY DEF LocatedInv, Located
  <2>2. \A kind \in {"plain", "weighted"} :
          Increment(roundRobinIdx[<<s, kind>>]) \in MinInt..MaxInt
    <3> TAKE kind \in {"plain", "weighted"}
    <3>1. roundRobinIdx[<<s, kind>>] \in MinInt..MaxInt
      BY <2>1 DEF LocatedInv, TypeOK, Keys
    <3> QED
      BY <3>1, AbsNeverNegative
  <2> HIDE DEF s, C
  <2>3. \A kind \in {"plain", "weighted"} : \E i \in C : \A j \in C :
          Dealt(s, kind, C, Increment(roundRobinIdx[<<s, kind>>]), j) <=> j = i
    BY <2>1, <2>2, DealtToOne
  <2>4. \A key \in Sessions : \E i \in C : \A j \in C : Hashed(s, C, key, j) <=> j = i
    BY <2>1, HashedToOne
  <2> QED
    BY <2>3, <2>4 DEF s, C
<1> QED
  BY <1>1, LocatedAlways, PTL

----------------------------------------------------------------------------
Kind == {"plain", "weighted"}

\* The counter values at which the sequence abs64(n) turns or repeats.
Turns == {MinInt, MinInt + 1, 1}

\* The counter values from m to n that were dealt to j.
Passes(s, kind, C, m, n, j) == {x \in m..n : Dealt(s, kind, C, x, j)}

\* What a lap has dealt when the counter stands at n: the counter values from
\* some m on, no more than the list is long and without a turn after m.
DealtSoFar(s, kind, C, n, served) ==
  \E m \in MinInt..n :
    /\ n - m < Shares(kind, C)
    /\ Turns \cap ((m + 1)..n) = {}
    /\ \A j \in C : served[j] = Cardinality(Passes(s, kind, C, m, n, j))

OnLap(s, kind) ==
  LET k == <<s, kind>>
      C == lap[k].candidates
  IN  /\ C \subseteq Members(s)
      /\ \A j \in Instances \ C : lap[k].served[j] = 0
      /\ C # {} => DealtSoFar(s, kind, C, roundRobinIdx[k], lap[k].served)

\* Numbers that are less than L apart have different remainders.
LEMMA RemaindersDiffer ==
  ASSUME NEW L \in Nat \ {0}, NEW a \in Nat, NEW b \in Nat, a < b, b - a < L
  PROVE  a % L # b % L
<1> SUFFICES ASSUME a % L = b % L PROVE FALSE
  OBVIOUS
<1>0. a \div L \in Int /\ b \div L \in Int
  OBVIOUS
<1>1. PICK q \in Int : q = a \div L
  BY <1>0, Zenon
<1>2. PICK r \in Int : r = b \div L
  BY <1>0, Zenon
<1>3. a = L * q + (a % L) /\ b = L * r + (b % L) /\ a % L \in Int
  BY <1>1, <1>2
<1>4. b - a = L * r - L * q
  BY <1>3
<1>5. L * r - L * q = L * (r - q)
  OBVIOUS
<1>6. PICK d \in Int : d = r - q
  OBVIOUS
<1>7. b - a = L * d
  BY <1>4, <1>5, <1>6
<1>8. CASE d <= 0
  <2>1. L * d <= 0
    BY <1>8
  <2> QED
    BY <1>7, <2>1
<1>9. CASE d >= 1
  <2>1. L * d >= L
    BY <1>9
  <2> QED
    BY <1>7, <2>1
<1> QED
  BY <1>8, <1>9

\* Between two turns abs64 goes up or down by one each time.
LEMMA Straight ==
  ASSUME NEW m \in MinInt..MaxInt, NEW n \in MinInt..MaxInt, Turns \cap ((m + 1)..n) = {},
         NEW x \in m..n, NEW y \in m..n, x < y
  PROVE  abs64(y) - abs64(x) = y - x \/ abs64(x) - abs64(y) = y - x
<1>1. MaxInt \in Nat /\ MinInt = -MaxInt - 1 /\ x \in Int /\ y \in Int
  BY Basics DEF MinInt
<1>2. \A t \in (x + 1)..y : t # MinInt + 1 /\ t # 1
  BY <1>1 DEF Turns
<1>3. x # MinInt
  BY <1>1, <1>2
<1>4. y # MinInt
  BY <1>1
<1>5. x >= 1 \/ y <= 0
  BY <1>1, <1>2
<1> QED
  BY <1>1, <1>3, <1>4, <1>5 DEF abs64

\* A lap shorter than the list uses no index twice.
LEMMA IndicesDiffer ==
  ASSUME NEW s \in Services, NEW kind, NEW C \in SUBSET Members(s), C # {},
         NEW m \in MinInt..MaxInt, NEW n \in MinInt..MaxInt, Turns \cap ((m + 1)..n) = {},
         n - m < Shares(kind, C),
         NEW x \in m..n, NEW y \in m..n, x # y
  PROVE  Index(kind, C, x) # Index(kind, C, y)
<1>1. ASSUME NEW a \in m..n, NEW b \in m..n, a < b
      PROVE  Index(kind, C, a) # Index(kind, C, b)
  <2>1. abs64(b) - abs64(a) = b - a \/ abs64(a) - abs64(b) = b - a
    BY <1>1, Straight
  <2>2. MaxInt \in Nat /\ MinInt \in Int
    BY Basics DEF MinInt
  <2>3. a \in MinInt..MaxInt /\ b \in MinInt..MaxInt
    BY <2>2
  <2>4. abs64(a) \in Nat /\ abs64(b) \in Nat
    BY <2>3, AbsNeverNegative
  <2>5. Shares(kind, C) \in Nat \ {0}
    BY <2>3, IndexType
  <2>6. b - a < Shares(kind, C) /\ b - a > 0
    BY <1>1, <2>2, <2>5
  <2>7. CASE abs64(b) - abs64(a) = b - a
    <3>1. abs64(a) < abs64(b) /\ abs64(b) - abs64(a) < Shares(kind, C)
      BY <2>2, <2>4, <2>6, <2>7
    <3> QED
      BY <2>4, <2>5, <3>1, RemaindersDiffer DEF Index
  <2>8. CASE abs64(a) - abs64(b) = b - a
    <3>1. abs64(b) < abs64(a) /\ abs64(a) - abs64(b) < Shares(kind, C)
      BY <2>2, <2>4, <2>6, <2>8
    <3> QED
      BY <2>4, <2>5, <3>1, RemaindersDiffer DEF Index
  <2> QED
    BY <2>1, <2>7, <2>8
<1>2. x < y \/ y < x
  BY Basics DEF MinInt
<1> QED
  BY <1>1, <1>2

\* The places of j in the list.
Owned(s, kind, C, j) ==
  Before(s, kind, C, j)..(Before(s, kind, C, j) + Share(kind, j) - 1)

LEMMA OwnedCount ==
  ASSUME NEW s \in Services, NEW kind, NEW C \in SUBSET Members(s), NEW j \in C
  PROVE  /\ IsFiniteSet(Owned(s, kind, C, j))
         /\ Cardinality(Owned(s, kind, C, j)) = Share(kind, j)
         /\ \A x \in Int : x \in Owned(s, kind, C, j) <=> At(s, kind, C, x, j)
<1> DEFINE b == Before(s, kind, C, j)
           w == Share(kind, j)
<1>1. b \in Nat /\ w \in Nat \ {0}
  BY Places, Zenon
<1>2. Owned(s, kind, C, j) = b..(b + w - 1)
  BY DEF Owned
<1>3. \A x \in Int : At(s, kind, C, x, j) <=> b <= x /\ x < b + w
  BY DEF At
<1> HIDE DEF b, w
<1>4. IsFiniteSet(b..(b + w - 1)) /\ Cardinality(b..(b + w - 1)) = w
  BY <1>1, FS_Interval
<1> QED
  BY <1>1, <1>2, <1>3, <1>4 DEF w

\* In a lap shorter than the list nobody gets more than its share.
LEMMA AtMostShare ==
  ASSUME NEW s \in Services, NEW kind, NEW C \in SUBSET Members(s), C # {},
         NEW m \in MinInt..MaxInt, NEW n \in MinInt..MaxInt, Turns \cap ((m + 1)..n) = {},
         n - m < Shares(kind, C), NEW j \in C
  PROVE  Cardinality(Passes(s, kind, C, m, n, j)) <= Share(kind, j)
<1> DEFINE P == Passes(s, kind, C, m, n, j)
           O == Owned(s, kind, C, j)
           f == [x \in P |-> Index(kind, C, x)]
<1>1. m..n \subseteq MinInt..MaxInt
  BY Basics DEF MinInt
<1>2. P \subseteq m..n
  BY DEF Passes
<1>3. ASSUME NEW x \in P
      PROVE  Index(kind, C, x) \in O
  <2>1. Dealt(s, kind, C, x, j) /\ x \in MinInt..MaxInt
    BY <1>1, <1>2 DEF Passes
  <2>2. Index(kind, C, x) \in Int /\ At(s, kind, C, Index(kind, C, x), j)
    BY <2>1, IndexType
  <2> QED
    BY <2>2, OwnedCount
<1>4. \A x, y \in P : x # y => Index(kind, C, x) # Index(kind, C, y)
  BY <1>2, IndicesDiffer
<1> HIDE DEF P, O
<1>5. f \in Injection(P, O)
  BY <1>3, <1>4 DEF Injection, IsInjective
<1>6. IsFiniteSet(O) /\ Cardinality(O) = Share(kind, j)
  BY OwnedCount DEF O
<1> HIDE DEF f
<1>7. Cardinality(P) <= Cardinality(O)
  BY <1>5, <1>6, FS_Injection
<1> QED
  BY <1>6, <1>7 DEF P

\* In a lap as long as the list everybody gets its share.
LEMMA FullShare ==
  ASSUME NEW s \in Services, NEW kind, NEW C \in SUBSET Members(s), C # {},
         NEW m \in MinInt..MaxInt, NEW n \in MinInt..MaxInt, Turns \cap ((m + 1)..n) = {},
         n - m + 1 = Shares(kind, C), NEW j \in C
  PROVE  Cardinality(Passes(s, kind, C, m, n, j)) >= Share(kind, j)
<1> DEFINE P == Passes(s, kind, C, m, n, j)
           O == Owned(s, kind, C, j)
           L == Shares(kind, C)
           f == [x \in m..n |-> Index(kind, C, x)]
           g == [x \in P |-> Index(kind, C, x)]
<1>1. m..n \subseteq MinInt..MaxInt /\ m \in Int /\ n \in Int
  BY Basics DEF MinInt
<1>2. L \in Nat \ {0} /\ \A x \in m..n : Index(kind, C, x) \in 0..(L - 1)
  BY <1>1, IndexType
<1>3. n - m < L
  BY <1>1, <1>2
<1>4. \A x, y \in m..n : x # y => Index(kind, C, x) # Index(kind, C, y)
  BY <1>3, IndicesDiffer
<1> HIDE DEF L
<1>5. f \in Injection(m..n, 0..(L - 1))
  BY <1>2, <1>4 DEF Injection, IsInjective
<1>6. /\ IsFiniteSet(m..n) /\ Cardinality(m..n) = L
      /\ IsFiniteSet(0..(L - 1)) /\ Cardinality(0..(L - 1)) = L
  <2>1. n - m + 1 = L
    BY DEF L
  <2>2. IsFiniteSet(m..n) /\ Cardinality(m..n) = L
    <3>1. IsFiniteSet(m..n) /\ Cardinality(m..n) = IF m > n THEN 0 ELSE n - m + 1
      BY <1>1, FS_Interval
    <3> QED
      BY <1>1, <1>2, <2>1, <3>1
  <2>3. IsFiniteSet(0..(L - 1)) /\ Cardinality(0..(L - 1)) = L
    <3>1. L - 1 \in Int /\ ~(0 > L - 1) /\ L - 1 - 0 + 1 = L
      BY <1>2
    <3> QED
      BY <3>1, FS_Interval
  <2> QED
    BY <2>2, <2>3
<1>7. f \in Surjection(m..n, 0..(L - 1))
  <2> HIDE DEF f
  <2> QED
    BY <1>5, <1>6, FS_Injection
<1>8. \A t \in 0..(L - 1) : \E x \in m..n : Index(kind, C, x) = t
  BY <1>7, Zenon DEF Surjection
<1>9. O \subseteq 0..(L - 1)
  <2> DEFINE b == Before(s, kind, C, j)
             w == Share(kind, j)
  <2>1. b \in Nat /\ w \in Nat /\ b + w <= L
    BY Places, Zenon DEF L
  <2>2. O = b..(b + w - 1)
    BY DEF Owned
  <2> HIDE DEF b, w
  <2> QED
    BY <1>2, <2>1, <2>2
<1>10. ASSUME NEW t \in O
       PROVE  \E x \in P : g[x] = t
  <2>1. PICK x \in m..n : Index(kind, C, x) = t
    BY <1>8, <1>9
  <2>2. At(s, kind, C, t, j)
    <3>1. t \in Int
      BY <1>9
    <3> QED
      BY <3>1, OwnedCount
  <2>3. Dealt(s, kind, C, x, j)
    BY <1>1, <2>1, <2>2, IndexType
  <2>4. x \in P
    BY <2>3 DEF Passes
  <2> QED
    BY <2>1, <2>4
<1>11. ASSUME NEW x \in P
       PROVE  Index(kind, C, x) \in O
  <2>1. Dealt(s, kind, C, x, j) /\ x \in MinInt..MaxInt
    BY <1>1 DEF Passes
  <2>2. Index(kind, C, x) \in Int /\ At(s, kind, C, Index(kind, C, x), j)
    BY <2>1, IndexType
  <2> QED
    BY <2>2, OwnedCount
<1>12. P \in SUBSET (m..n)
  BY DEF Passes
<1> HIDE DEF P, O
<1>13. g \in Surjection(P, O)
  BY <1>10, <1>11 DEF Surjection
<1>14. IsFiniteSet(P)
  BY <1>6, <1>12, FS_Subset, Zenon
<1> HIDE DEF g
<1>15. Cardinality(O) <= Cardinality(P)
  BY <1>13, <1>14, FS_Surjection
<1>16. Cardinality(O) = Share(kind, j)
  BY OwnedCount DEF O
<1> QED
  BY <1>14, <1>15, <1>16, Places, FS_CardinalityType DEF P

LEMMA DealtOnce ==
  ASSUME NEW s \in Services, NEW kind, NEW C \in SUBSET Members(s), NEW n \in MinInt..MaxInt,
         NEW i \in C, Dealt(s, kind, C, n, i), NEW j \in C
  PROVE  Dealt(s, kind, C, n, j) <=> j = i
<1>1. C # {}
  OBVIOUS
<1>2. PICK x \in C : \A y \in C : Dealt(s, kind, C, n, y) <=> y = x
  BY <1>1, DealtToOne
<1> QED
  BY <1>2, Zenon

\* What counter value n adds to the passes.
LEMMA PassesAdd ==
  ASSUME NEW s, NEW kind, NEW C, NEW j,
         NEW m \in Int, NEW o \in Int, NEW n \in Int, n = o + 1, m <= n
  PROVE  /\ Dealt(s, kind, C, n, j) => Cardinality(Passes(s, kind, C, m, n, j))
                                         = Cardinality(Passes(s, kind, C, m, o, j)) + 1
         /\ ~Dealt(s, kind, C, n, j) => Cardinality(Passes(s, kind, C, m, n, j))
                                         = Cardinality(Passes(s, kind, C, m, o, j))
         /\ Cardinality(Passes(s, kind, C, m, o, j)) \in Nat
<1> DEFINE P == Passes(s, kind, C, m, o, j)
           Q == Passes(s, kind, C, m, n, j)
<1>1. P \in SUBSET (m..o) /\ n \notin P
  BY DEF Passes
<1>2. /\ Dealt(s, kind, C, n, j) => Q = P \cup {n}
      /\ ~Dealt(s, kind, C, n, j) => Q = P
  <2>1. m..n = (m..o) \cup {n}
    OBVIOUS
  <2> QED
    BY <2>1 DEF Passes
<1>3. IsFiniteSet(P)
  <2>1. IsFiniteSet(m..o)
    BY FS_Interval
  <2> QED
    BY <1>1, <2>1, FS_Subset
<1>4. Cardinality(P) \in Nat /\ Cardinality(P \cup {n}) = Cardinality(P) + 1
  BY <1>1, <1>3, FS_AddElement, FS_CardinalityType
<1> QED
  BY <1>2, <1>4

LEMMA NoPasses ==
  ASSUME NEW s, NEW kind, NEW C, NEW n \in Int, NEW j
  PROVE  Cardinality(Passes(s, kind, C, n, n - 1, j)) = 0
<1>1. Passes(s, kind, C, n, n - 1, j) = {}
  BY DEF Passes
<1> QED
  BY <1>1, FS_EmptySet

LEMMA LapBegins ==
  ASSUME NEW s \in Services, NEW kind, NEW C \in SUBSET Members(s), NEW n \in MinInt..MaxInt,
         NEW i \in C, Dealt(s, kind, C, n, i),
         NEW served, \A j \in C : served[j] = IF j = i THEN 1 ELSE 0
  PROVE  DealtSoFar(s, kind, C, n, served)
<1>1. n \in Int /\ n <= n /\ n \in MinInt..n /\ n - n = 0
  BY Basics DEF MinInt
<1>2. n - n < Shares(kind, C)
  <2>1. Shares(kind, C) \in Nat \ {0}
    BY IndexType
  <2> QED
    BY <1>1, <2>1
<1>3. Turns \cap ((n + 1)..n) = {}
  BY <1>1
<1>4. \A j \in C : Dealt(s, kind, C, n, j) <=> j = i
  BY DealtOnce
<1>5. ASSUME NEW j \in C
      PROVE  served[j] = Cardinality(Passes(s, kind, C, n, n, j))
  <2>0. PICK o \in Int : n = o + 1 /\ o = n - 1
    BY <1>1
  <2>1. CASE j = i
    <3>1. Cardinality(Passes(s, kind, C, n, n, j)) = Cardinality(Passes(s, kind, C, n, o, j)) + 1
      BY <1>1, <1>4, <2>0, <2>1, PassesAdd
    <3> QED
      BY <1>1, <2>0, <2>1, <3>1, NoPasses
  <2>2. CASE j # i
    <3>1. Cardinality(Passes(s, kind, C, n, n, j)) = Cardinality(Passes(s, kind, C, n, o, j))
      BY <1>1, <1>4, <2>0, <2>2, PassesAdd
    <3> QED
      BY <1>1, <2>0, <2>2, <3>1, NoPasses
  <2> QED
    BY <2>1, <2>2
<1> QED
  BY <1>1, <1>2, <1>3, <1>5 DEF DealtSoFar

LEMMA LapGoesOn ==
  ASSUME NEW s \in Services, NEW kind, NEW C \in SUBSET Members(s),
         NEW o \in MinInt..MaxInt, NEW n \in MinInt..MaxInt, n = o + 1, n \notin Turns,
         NEW i \in C, Dealt(s, kind, C, n, i),
         NEW old, DealtSoFar(s, kind, C, o, old),
         \E j \in C : ~(old[j] >= Share(kind, j)),
         NEW served, \A j \in C : served[j] = old[j] + (IF j = i THEN 1 ELSE 0)
  PROVE  DealtSoFar(s, kind, C, n, served)
<1>1. PICK m \in MinInt..o :
        /\ o - m < Shares(kind, C)
        /\ Turns \cap ((m + 1)..o) = {}
        /\ \A j \in C : old[j] = Cardinality(Passes(s, kind, C, m, o, j))
  BY DEF DealtSoFar
<1>2. /\ MinInt \in Int /\ MaxInt \in Int /\ n \in Int /\ o \in Int /\ m \in Int
      /\ m \in MinInt..MaxInt /\ m \in MinInt..n /\ m <= n /\ n - 1 = o
  BY Basics DEF MinInt
<1>3. n - m < Shares(kind, C)
  <2>1. o - m + 1 # Shares(kind, C)
    <3>1. PICK j \in C : ~(Cardinality(Passes(s, kind, C, m, o, j)) >= Share(kind, j))
      BY <1>1
    <3> QED
      BY <1>1, <1>2, <3>1, FullShare
  <2>2. Shares(kind, C) \in Nat
    BY IndexType
  <2> QED
    BY <1>1, <1>2, <2>1, <2>2
<1>4. Turns \cap ((m + 1)..n) = {}
  <2>1. (m + 1)..n = ((m + 1)..o) \cup {n}
    BY <1>2
  <2> QED
    BY <1>1, <2>1
<1>5. \A j \in C : Dealt(s, kind, C, n, j) <=> j = i
  BY DealtOnce
<1>6. ASSUME NEW j \in C
      PROVE  served[j] = Cardinality(Passes(s, kind, C, m, n, j))
  <2>1. /\ old[j] = Cardinality(Passes(s, kind, C, m, o, j))
        /\ Cardinality(Passes(s, kind, C, m, o, j)) \in Nat
    BY <1>1, <1>2, PassesAdd
  <2>2. CASE j = i
    <3>1. Cardinality(Passes(s, kind, C, m, n, j)) = Cardinality(Passes(s, kind, C, m, o, j)) + 1
      BY <1>2, <1>5, <2>2, PassesAdd
    <3> QED
      BY <2>1, <2>2, <3>1
  <2>3. CASE j # i
    <3>1. Cardinality(Passes(s, kind, C, m, n, j)) = Cardinality(Passes(s, kind, C, m, o, j))
      BY <1>2, <1>5, <2>3, PassesAdd
    <3> QED
      BY <2>1, <2>3, <3>1
  <2> QED
    BY <2>2, <2>3
<1> QED
  BY <1>2, <1>3, <1>4, <1>6 DEF DealtSoFar

\* One call of selectRoundRobin keeps the lap of its counter in order.
LEMMA LapDeal ==
  ASSUME LocatedInv, NEW p \in Callers, call[p].at = "choosing", NEW kind \in Kind,
         NEW s \in Services, s = call[p].serviceName, OnLap(s, kind),
         NEW i \in call[p].candidates, Deal(p, i, kind)
  PROVE  OnLap(s, kind)'
<1>1. PICK C : C = call[p].candidates
  OBVIOUS
<1>2. C \in SUBSET Members(s) /\ C # {} /\ i \in C /\ C \subseteq Instances
  BY <1>1, Basics DEF LocatedInv, Located
<1>3. PICK k : k = <<s, kind>>
  BY Zenon
<1>4. k \in Keys /\ k[2] = kind
  BY <1>3 DEF Keys, Kind
<1>5. PICK o : o = roundRobinIdx[k]
  OBVIOUS
<1>6. PICK n : n = Increment(o)
  OBVIOUS
<1>7. o \in MinInt..MaxInt /\ n \in MinInt..MaxInt
  BY <1>4, <1>5, <1>6, AbsNeverNegative DEF LocatedInv, TypeOK
<1>8. PICK old : old = lap[k].served
  OBVIOUS
<1>9. PICK new : new = lap'[k].served
  OBVIOUS
<1> DEFINE over == \/ lap[k].candidates # C
                   \/ n \in Turns
                   \/ \A j \in C : old[j] >= Share(kind, j)
<1>10. /\ Dealt(s, kind, C, n, i)
       /\ roundRobinIdx' = [roundRobinIdx EXCEPT ![k] = n]
       /\ lap' = [lap EXCEPT ![k] = NextLap(k, C, n, i)]
  BY <1>1, <1>3, <1>5, <1>6 DEF Deal
<1>11. /\ roundRobinIdx'[k] = n
       /\ lap'[k] = NextLap(k, C, n, i)
  BY <1>4, <1>10 DEF LocatedInv, TypeOK
<1>12. /\ lap'[k].candidates = C
       /\ new = [j \in Instances |-> (IF over THEN 0 ELSE old[j]) + (IF j = i THEN 1 ELSE 0)]
  BY <1>4, <1>8, <1>9, <1>11 DEF NextLap, Turns
<1>13. SUFFICES /\ \A j \in Instances \ C : new[j] = 0
                /\ DealtSoFar(s, kind, C, n, new)
  BY <1>2, <1>3, <1>9, <1>11, <1>12, Zenon DEF OnLap
<1>14. CASE over
  <2> HIDE DEF over
  <2>1. \A j \in Instances : new[j] = IF j = i THEN 1 ELSE 0
    BY <1>12, <1>14
  <2>2. DealtSoFar(s, kind, C, n, new)
    BY <1>2, <1>7, <1>10, <2>1, LapBegins
  <2> QED
    BY <1>2, <2>1, <2>2
<1>15. CASE ~over
  <2>1. /\ lap[k].candidates = C /\ n \notin Turns
        /\ \E j \in C : ~(old[j] >= Share(kind, j))
    BY <1>15
  <2>2. n = o + 1
    BY <1>6, <1>7, <2>1, Basics DEF Increment, Turns, MinInt
  <2>3. DealtSoFar(s, kind, C, o, old) /\ \A j \in Instances \ C : old[j] = 0
    BY <1>2, <1>3, <1>5, <1>8, <2>1, Zenon DEF OnLap
  <2> HIDE DEF over
  <2>4. \A j \in Instances : new[j] = old[j] + (IF j = i THEN 1 ELSE 0)
    BY <1>12, <1>15
  <2>5. DealtSoFar(s, kind, C, n, new)
    BY <1>2, <1>7, <1>10, <2>1, <2>2, <2>3, <2>4, LapGoesOn
  <2> QED
    BY <1>2, <2>3, <2>4, <2>5
<1> QED
  BY <1>14, <1>15

LapInv == \A s \in Services, kind \in Kind : OnLap(s, kind)

LEMMA LapStep ==
  ASSUME LocatedInv, LapInv, [Next]_vars
  PROVE  LapInv'
<1>1. ASSUME NEW s \in Services, NEW kind \in Kind,
             lap'[<<s, kind>>] = lap[<<s, kind>>],
             roundRobinIdx'[<<s, kind>>] = roundRobinIdx[<<s, kind>>]
      PROVE  OnLap(s, kind)'
  <2>1. OnLap(s, kind)
    BY DEF LapInv
  <2> QED
    BY <1>1, <2>1, Zenon DEF OnLap
<1>2. CASE UNCHANGED <<lap, roundRobinIdx>>
  BY <1>1, <1>2 DEF LapInv
<1>3. ASSUME NEW p \in Callers, NEW i \in call[p].candidates, NEW kind \in Kind,
             call[p].at = "choosing", Deal(p, i, kind)
      PROVE  LapInv'
  <2>1. PICK s \in Services : s = call[p].serviceName
    BY <1>3 DEF LocatedInv, Located
  <2>2. OnLap(s, kind)'
    BY <1>3, <2>1, LapDeal DEF LapInv
  <2>3. ASSUME NEW t \in Services, NEW d \in Kind, <<t, d>> # <<s, kind>>
        PROVE  OnLap(t, d)'
    <3>1. <<t, d>> \in Keys
      BY DEF Keys, Kind
    <3>2. /\ lap'[<<t, d>>] = lap[<<t, d>>]
          /\ roundRobinIdx'[<<t, d>>] = roundRobinIdx[<<t, d>>]
      BY <1>3, <2>1, <2>3, <3>1 DEF Deal, LocatedInv, TypeOK
    <3> QED
      BY <1>1, <3>2
  <2> QED
    BY <2>2, <2>3 DEF LapInv
<1>4. ASSUME NEW p \in Callers, NEW i \in call[p].candidates,
             selectRoundRobin(p, i) \/ selectWeightedRoundRobin(p, i)
      PROVE  LapInv'
  BY <1>3, <1>4 DEF selectRoundRobin, selectWeightedRoundRobin, Choosing, Kind
<1>5. ASSUME NEW p \in Callers, NEW s, NEW C, NEW chosen, Begin(p, s, C, chosen)
      PROVE  LapInv'
  BY <1>2, <1>5 DEF Begin
<1>6. ASSUME NEW p \in Callers, NEW i, selectIPHash(p, i) \/ selectRandom(p, i) \/ Scan(p, i)
      PROVE  LapInv'
  BY <1>2, <1>6 DEF selectIPHash, selectRandom, Scan
<1>7. ASSUME NEW p \in Callers, Add(p) \/ recordRequest(p) \/ ReportResult(p)
      PROVE  LapInv'
  BY <1>2, <1>7 DEF Add, recordRequest, ReportResult
<1>8. CASE UNCHANGED vars
  BY <1>2, <1>8 DEF vars
<1> QED
  BY <1>4, <1>5, <1>6, <1>7, <1>8 DEF Next

(***************************************************************************)
(* Round robin, plain or weighted, is fair for any interleaving of any     *)
(* number of callers, any weights and any width of the counter: it hands   *)
(* nobody more than its share before everybody has had theirs.             *)
(***************************************************************************)
THEOREM FairLaps == Spec => []LapsAreFair
<1> DEFINE Inv == LocatedInv /\ LapInv
<1>1. Init => Inv
  <2>1. ASSUME Init, NEW s \in Services, NEW kind \in Kind
        PROVE  OnLap(s, kind)
    <3>1. lap[<<s, kind>>] = NoLap
      BY <2>1 DEF Init, Keys, Kind
    <3> QED
      BY <3>1 DEF OnLap, NoLap
  <2> QED
    BY <2>1, LocatedInit DEF LapInv
<1>2. Inv /\ [Next]_vars => Inv'
  BY LocatedStep, LapStep
<1>3. Inv => LapsAreFair
  <2> SUFFICES ASSUME Inv, NEW k \in Keys, NEW i \in Instances
               PROVE  lap[k].served[i] <= Share(k[2], i)
    BY DEF LapsAreFair
  <2>1. PICK s \in Services, kind \in Kind : k = <<s, kind>> /\ k[2] = kind
    BY DEF Keys, Kind
  <2>2. OnLap(s, kind)
    BY DEF LapInv
  <2>3. Share(kind, i) \in Nat
    BY ShareType
  <2> DEFINE C == lap[k].candidates
             n == roundRobinIdx[k]
  <2>4. CASE i \notin C
    BY <2>1, <2>2, <2>3, <2>4 DEF OnLap
  <2>5. CASE i \in C
    <3>1. C \in SUBSET Members(s) /\ C # {} /\ n \in MinInt..MaxInt
      BY <2>1, <2>2, <2>5, Zenon DEF OnLap, LocatedInv, TypeOK
    <3>2. PICK m \in MinInt..n :
            /\ n - m < Shares(kind, C)
            /\ Turns \cap ((m + 1)..n) = {}
            /\ \A j \in C : lap[k].served[j] = Cardinality(Passes(s, kind, C, m, n, j))
      BY <2>1, <2>2, <3>1, Zenon DEF OnLap, DealtSoFar
    <3>3. m \in MinInt..MaxInt
      BY <3>1, Basics DEF MinInt
    <3> HIDE DEF C, n
    <3>4. Cardinality(Passes(s, kind, C, m, n, i)) <= Share(kind, i)
      BY <2>5, <3>1, <3>2, <3>3, AtMostShare
    <3> QED
      BY <2>1, <2>5, <3>2, <3>4
  <2> QED
    BY <2>4, <2>5
<1> QED
  BY <1>1, <1>2, <1>3, PTL DEF Spec
=============================================================================
