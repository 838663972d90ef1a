------------------------------ MODULE SetFacts ------------------------------
(***************************************************************************)
(* Facts about naturals, finite sets and sequences that the proofs of several *)
(* modules need.  The induction theorems of the library take an operator;   *)
(* here an induction is over the members of a set, which the theorems about  *)
(* well-founded orderings give without one.                                 *)
(***************************************************************************)
EXTENDS Integers, FiniteSets, TLAPS, FiniteSetTheorems, FunctionTheorems,
        WellFoundedInduction, SequenceTheorems

\* A set of sizes or counts has a smallest member: among the intervals up to its
\* members one is minimal under inclusion.
LEMMA LeastNatural ==
    ASSUME NEW M, M \subseteq Nat, M # {}
    PROVE  \E m \in M : \A k \in M : m <= k
<1> DEFINE Below == {1..k : k \in M}
<1>1. IsWellFoundedOn(StrictSubsetOrdering(Nat), FiniteSubsetsOf(Nat))
    BY FS_StrictSubsetOrderingWellFounded
<1>2. Below \subseteq FiniteSubsetsOf(Nat)
    BY FS_Interval DEF FiniteSubsetsOf
<1>3. Below # {}
    OBVIOUS
<1>4. \E x \in Below : \A y \in Below : ~(<<y, x>> \in StrictSubsetOrdering(Nat))
    <2> HIDE DEF Below
    <2> QED
        BY <1>1, <1>2, <1>3, WFMin
<1>5. PICK m \in M : \A k \in M : ~(<<1..k, 1..m>> \in StrictSubsetOrdering(Nat))
    BY <1>4
<1>6. ASSUME NEW k \in M, k < m PROVE FALSE
    <2>1. <<1..k, 1..m>> \in StrictSubsetOrdering(Nat)
        <3>1. 1..k \subseteq 1..m /\ m \in 1..m /\ m \notin 1..k
            BY <1>6
        <3> QED
            BY <3>1 DEF StrictSubsetOrdering
    <2> QED
        BY <2>1, <1>5
<1> QED
    BY <1>6, <1>5

\* Induction, over a set of naturals: what holds of a loop before its first
\* turn, and after each turn that it held before, holds after every turn.
LEMMA NaturalInduction ==
    ASSUME NEW M, 0 \in M, \A n \in Nat : n \in M => n + 1 \in M
    PROVE  Nat \subseteq M
<1> SUFFICES ASSUME Nat \ M # {} PROVE FALSE
    OBVIOUS
<1>1. PICK m \in Nat \ M : \A k \in Nat \ M : m <= k
    BY LeastNatural
<1>2. m - 1 \in Nat /\ m - 1 \in M
    BY <1>1
<1> QED
    BY <1>1, <1>2

\* The newest of a finite set of releases: a finite set that is not empty has a
\* member that no other one exceeds, in any transitive and irreflexive relation.
LEMMA FiniteMaximum ==
    ASSUME NEW S, IsFiniteSet(S), S # {}, NEW R,
           \A x \in S : <<x, x>> \notin R,
           \A x, y, z \in S : <<x, y>> \in R /\ <<y, z>> \in R => <<x, z>> \in R
    PROVE  \E x \in S : \A y \in S : <<y, x>> \notin R
<1> DEFINE Good(T) == \E x \in T : \A y \in T : <<y, x>> \notin R
           M == {n \in Nat : \A T \in SUBSET S :
                                IsFiniteSet(T) /\ Cardinality(T) = n + 1 => Good(T)}
<1>1. 0 \in M
    <2> SUFFICES ASSUME NEW T \in SUBSET S, IsFiniteSet(T), Cardinality(T) = 1 PROVE Good(T)
        OBVIOUS
    <2>1. PICK x : T = {x}
        BY FS_Singleton
    <2> QED
        BY <2>1
<1>2. ASSUME NEW n \in Nat, n \in M PROVE n + 1 \in M
    <2> SUFFICES ASSUME NEW T \in SUBSET S, IsFiniteSet(T), Cardinality(T) = n + 1 + 1
                 PROVE  Good(T)
        OBVIOUS
    <2>1. T # {}
        BY FS_EmptySet
    <2>2. PICK e \in T : TRUE
        BY <2>1
    <2>3. IsFiniteSet(T \ {e}) /\ Cardinality(T \ {e}) = n + 1
        BY FS_RemoveElement
    <2>4. Good(T \ {e})
        BY <1>2, <2>3
    <2>5. PICK x \in T \ {e} : \A y \in T \ {e} : <<y, x>> \notin R
        BY <2>4
    <2>6. CASE <<e, x>> \in R
        <3>1. \A y \in T : <<y, e>> \notin R
            BY <2>5, <2>6
        <3> QED
            BY <3>1
    <2>7. CASE <<e, x>> \notin R
        BY <2>5, <2>7
    <2> QED
        BY <2>6, <2>7
<1> HIDE DEF M
<1>3. Nat \subseteq M
    BY <1>1, <1>2, NaturalInduction
<1>4. Cardinality(S) \in Nat /\ Cardinality(S) # 0
    BY FS_CardinalityType, FS_EmptySet
<1>5. Cardinality(S) - 1 \in M
    BY <1>3, <1>4
<1> QED
    BY <1>4, <1>5 DEF M

\* The same for sequences: what holds of the empty one, and after each element
\* that is appended, holds of all.
LEMMA SequenceInduction ==
    ASSUME NEW S, NEW M, <<>> \in M,
           \A s \in Seq(S), e \in S : s \in M => Append(s, e) \in M
    PROVE  Seq(S) \subseteq M
<1> DEFINE N == {n \in Nat : \A s \in Seq(S) : Len(s) = n => s \in M}
<1>1. 0 \in N
    BY EmptySeq
<1>2. ASSUME NEW n \in Nat, n \in N, NEW s \in Seq(S), Len(s) = n + 1
      PROVE  s \in M
    <2>1. s # <<>>
        BY <1>2, EmptySeq
    <2>2. PICK r \in Seq(S), e \in S : s = Append(r, e)
        BY <2>1, SequenceEmptyOrAppend
    <2>3. Len(r) = n
        BY <1>2, <2>2, AppendProperties, LenProperties
    <2> QED
        BY <1>2, <2>2, <2>3
<1>3. \A n \in Nat : n \in N => n + 1 \in N
    BY <1>2
<1>4. Nat \subseteq N
    <2> HIDE DEF N
    <2> QED
        BY <1>1, <1>3, NaturalInduction
<1> QED
    BY <1>4, LenProperties

-----------------------------------------------------------------------------
(* Counted slots: what the members of S hold when d holds f[d] of a resource, *)
(* each unit with its holder.                                               *)

Slots(S, f) == UNION {{d} \X (1..f[d]) : d \in S}

\* One holder has as many slots as it is said to hold.
LEMMA SlotsOfOne ==
    ASSUME NEW d, NEW n \in Nat
    PROVE  IsFiniteSet({d} \X (1..n)) /\ Cardinality({d} \X (1..n)) = n
<1>1. IsFiniteSet(1..n) /\ Cardinality(1..n) = n
    BY FS_Interval
<1>2. IsFiniteSet({d}) /\ Cardinality({d}) = 1
    BY FS_Singleton
<1> QED
    BY <1>1, <1>2, FS_Product

\* Finitely many holders have finitely many slots.
LEMMA SlotsFinite ==
    ASSUME NEW S, IsFiniteSet(S), NEW f, \A d \in S : f[d] \in Nat
    PROVE  IsFiniteSet(Slots(S, f)) /\ Cardinality(Slots(S, f)) \in Nat
<1> DEFINE Each == {{d} \X (1..f[d]) : d \in S}
           g == [d \in S |-> {d} \X (1..f[d])]
<1>1. g \in Surjection(S, Each)
    <2>1. g \in [S -> Each] /\ \A t \in Each : \E s \in S : g[s] = t
        OBVIOUS
    <2> QED
        BY <2>1 DEF Surjection
<1>2. IsFiniteSet(Each)
    <2> HIDE DEF Each, g
    <2> QED
        BY <1>1, FS_Surjection
<1>3. ASSUME NEW T \in Each PROVE IsFiniteSet(T)
    <2>1. PICK d \in S : T = {d} \X (1..f[d])
        OBVIOUS
    <2>2. f[d] \in Nat
        OBVIOUS
    <2> QED
        BY <2>1, <2>2, SlotsOfOne
<1>4. IsFiniteSet(UNION Each)
    <2> HIDE DEF Each
    <2> QED
        BY <1>2, <1>3, FS_UNION
<1> QED
    BY <1>4, FS_CardinalityType DEF Slots

\* The slots are those of one holder and those of the others.
LEMMA SlotsSplit ==
    ASSUME NEW S, IsFiniteSet(S), NEW f, \A d \in S : f[d] \in Nat, NEW c \in S
    PROVE  Cardinality(Slots(S, f)) = f[c] + Cardinality(Slots(S \ {c}, f))
<1> DEFINE mine == {c} \X (1..f[c])
           rest == Slots(S \ {c}, f)
<1>1. Slots(S, f) = mine \cup rest
    BY DEF Slots
<1>2. mine \cap rest = {}
    BY DEF Slots
<1>3. IsFiniteSet(mine) /\ Cardinality(mine) = f[c]
    BY SlotsOfOne
<1>4. IsFiniteSet(rest) /\ Cardinality(rest) \in Nat
    BY FS_RemoveElement, SlotsFinite
<1>5. Cardinality(mine \cup rest)
          = Cardinality(mine) + Cardinality(rest) - Cardinality(mine \cap rest)
    <2> HIDE DEF mine, rest
    <2> QED
        BY <1>3, <1>4, FS_Union
<1>6. f[c] \in Nat /\ Cardinality(mine \cap rest) = 0
    BY <1>2, FS_EmptySet
<1> HIDE DEF mine, rest
<1>7. Cardinality(Slots(S, f)) = f[c] + Cardinality(rest)
    BY <1>1, <1>3, <1>4, <1>5, <1>6
<1> QED
    BY <1>7 DEF rest

\* When one holder's count changes, the slots change by as much.
LEMMA SlotsChange ==
    ASSUME NEW S, IsFiniteSet(S), NEW c \in S,
           NEW f, \A d \in S : f[d] \in Nat,
           NEW g, \A d \in S : g[d] \in Nat,
           \A d \in S \ {c} : g[d] = f[d]
    PROVE  Cardinality(Slots(S, g)) - g[c] = Cardinality(Slots(S, f)) - f[c]
<1>1. Slots(S \ {c}, g) = Slots(S \ {c}, f)
    BY DEF Slots
<1>2. Cardinality(Slots(S \ {c}, f)) \in Nat
    BY FS_RemoveElement, SlotsFinite
<1>3. /\ Cardinality(Slots(S, f)) = f[c] + Cardinality(Slots(S \ {c}, f))
      /\ Cardinality(Slots(S, g)) = g[c] + Cardinality(Slots(S \ {c}, g))
    BY SlotsSplit
<1> QED
    BY <1>1, <1>2, <1>3
=============================================================================
