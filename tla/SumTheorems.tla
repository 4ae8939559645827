------------------------------ MODULE SumTheorems ------------------------------
(***************************************************************************)
(* What SumFunctionOnSet computes: zero for the empty set, one summand more *)
(* for one element more, in whatever order the fold takes the elements.    *)
(* The library's induction theorems take an operator and cannot be used;   *)
(* its least element of a well-founded set can: a counterexample would     *)
(* have a least one.                                                       *)
(***************************************************************************)
EXTENDS Functions, FiniteSetTheorems, WellFoundedInduction, TLAPS

(* The element that the fold takes first, and the function that it defines. *)
Taken(s) == CHOOSE x \in s : TRUE
Total(g, f, s) == IF s = {} THEN 0 ELSE f[Taken(s)] + g[s \ {Taken(s)}]
IsSum(g, f, S) == g = [s \in SUBSET S |-> Total(g, f, s)]

LEMMA SumIsChosen ==
  ASSUME NEW f, NEW S
  PROVE  SumFunctionOnSet(f, S) = (CHOOSE g : IsSum(g, f, S))[S]
BY Zenon DEF SumFunctionOnSet, FoldFunctionOnSet, MapThenFoldSet, IsSum, Total, Taken

LEMMA TakenIsElement ==
  ASSUME NEW s, s # {}
  PROVE  Taken(s) \in s
BY DEF Taken

(* A set of subsets of a finite set has one that contains no other. *)
LEMMA MinimalSubset ==
  ASSUME NEW S, IsFiniteSet(S), NEW B \in SUBSET (SUBSET S), B # {}
  PROVE  \E m \in B : \A s \in B : s \subseteq m => s = m
<1>1. B \subseteq FiniteSubsetsOf(S)
  BY FS_Subset DEF FiniteSubsetsOf
<1>2. PICK m \in B : \A s \in B : <<s, m>> \notin StrictSubsetOrdering(S)
  BY <1>1, FS_StrictSubsetOrderingWellFounded, WFMin, Zenon
<1>3. ASSUME NEW s \in B, s \subseteq m PROVE s = m
  BY <1>2, <1>3 DEF StrictSubsetOrdering
<1> QED
  BY <1>3

LEMMA SumUnique ==
  ASSUME NEW f, NEW S, IsFiniteSet(S), NEW T \in SUBSET S, NEW g, NEW h,
         IsSum(g, f, S), IsSum(h, f, T)
  PROVE  \A s \in SUBSET T : g[s] = h[s]
<1> DEFINE B == {s \in SUBSET T : g[s] # h[s]}
<1>1. SUFFICES ASSUME B # {} PROVE FALSE
  OBVIOUS
<1>2. IsFiniteSet(T)
  BY FS_Subset
<1>3. PICK m \in B : \A s \in B : s \subseteq m => s = m
  <2>1. B \in SUBSET (SUBSET T)
    OBVIOUS
  <2> HIDE DEF B
  <2> QED
    BY <1>1, <1>2, <2>1, MinimalSubset
<1>4. g[m] = Total(g, f, m) /\ h[m] = Total(h, f, m)
  BY DEF IsSum
<1>5. m # {}
  BY <1>4 DEF Total
<1>6. Taken(m) \in m
  BY <1>5, TakenIsElement
<1>7. m \ {Taken(m)} \notin B
  BY <1>3, <1>6
<1>8. g[m \ {Taken(m)}] = h[m \ {Taken(m)}]
  BY <1>7
<1> QED
  BY <1>4, <1>5, <1>8, Zenon DEF Total

LEMMA SumExists ==
  ASSUME NEW f, NEW S, IsFiniteSet(S)
  PROVE  \E g : IsSum(g, f, S)
<1> DEFINE B == {T \in SUBSET S : ~ \E g : IsSum(g, f, T)}
<1>1. SUFFICES ASSUME B # {} PROVE FALSE
  OBVIOUS
<1>2. PICK T \in B : \A s \in B : s \subseteq T => s = T
  <2>1. B \in SUBSET (SUBSET S)
    OBVIOUS
  <2> HIDE DEF B
  <2> QED
    BY <1>1, <2>1, MinimalSubset
<1>3. T \in SUBSET S /\ IsFiniteSet(T)
  BY FS_Subset
<1> DEFINE H(s) == CHOOSE g : IsSum(g, f, s)
           Rest(s) == s \ {Taken(s)}
           G == [s \in SUBSET T |->
                   IF s = {} THEN 0 ELSE f[Taken(s)] + H(Rest(s))[Rest(s)]]
<1>4. ASSUME NEW s \in SUBSET T, s # T PROVE IsSum(H(s), f, s)
  BY <1>2, <1>3, <1>4
<1>5. ASSUME NEW s \in SUBSET T, s # {} PROVE Rest(s) \in SUBSET T /\ Rest(s) # T
  BY <1>5, TakenIsElement
<1>6. ASSUME NEW s \in SUBSET T, s # T PROVE G[s] = H(s)[s]
  <2>1. H(s)[s] = Total(H(s), f, s)
    <3>1. IsSum(H(s), f, s)
      BY <1>4, <1>6
    <3> HIDE DEF H
    <3> QED
      BY <3>1, Zenon DEF IsSum
  <2>2. CASE s = {}
    BY <2>1, <2>2 DEF Total
  <2>3. CASE s # {}
    <3>1. Rest(s) \in SUBSET s /\ Rest(s) \in SUBSET T /\ Rest(s) # T
      BY <1>5, <2>3
    <3>2. IsSum(H(s), f, s) /\ IsSum(H(Rest(s)), f, Rest(s))
      BY <1>4, <1>6, <3>1
    <3>3. IsFiniteSet(s)
      BY <1>3, FS_Subset
    <3> HIDE DEF H, Rest
    <3>4. H(s)[Rest(s)] = H(Rest(s))[Rest(s)]
      BY <3>1, <3>2, <3>3, SumUnique
    <3>5. H(s)[s] = f[Taken(s)] + H(s)[Rest(s)]
      BY <2>1, <2>3, Zenon DEF Total, Rest
    <3>6. G[s] = f[Taken(s)] + H(Rest(s))[Rest(s)]
      BY <2>3, Zenon
    <3> QED
      BY <3>4, <3>5, <3>6, Zenon
  <2> QED
    BY <2>2, <2>3
<1>7. IsSum(G, f, T)
  <2>1. ASSUME NEW s \in SUBSET T, s # {}
        PROVE  f[Taken(s)] + H(Rest(s))[Rest(s)] = f[Taken(s)] + G[Rest(s)]
    BY <1>5, <1>6, <2>1, Zenon
  <2> HIDE DEF H
  <2>2. \A s \in SUBSET T : G[s] = Total(G, f, s)
    BY <2>1, Zenon DEF Total
  <2> QED
    BY <2>2, Zenon DEF IsSum
<1> QED
  BY <1>7

(* The equations of the sum. *)
LEMMA SumEquations ==
  ASSUME NEW f, NEW S, IsFiniteSet(S)
  PROVE  SumFunctionOnSet(f, S) =
           IF S = {} THEN 0
           ELSE f[Taken(S)] + SumFunctionOnSet(f, S \ {Taken(S)})
<1> DEFINE g == CHOOSE h : IsSum(h, f, S)
           R == S \ {Taken(S)}
           r == CHOOSE h : IsSum(h, f, R)
<1>1. IsSum(g, f, S)
  BY SumExists
<1>2. IsFiniteSet(R)
  BY FS_Subset
<1>3. IsSum(r, f, R)
  BY <1>2, SumExists
<1>4. SumFunctionOnSet(f, S) = g[S] /\ SumFunctionOnSet(f, R) = r[R]
  BY SumIsChosen
<1> HIDE DEF g, r
<1>5. g[R] = r[R]
  BY <1>1, <1>3, SumUnique
<1>6. g[S] = Total(g, f, S)
  BY <1>1 DEF IsSum
<1> QED
  BY <1>4, <1>5, <1>6, Zenon DEF Total
-----------------------------------------------------------------------------
LEMMA SumOfNone == \A f : SumFunctionOnSet(f, {}) = 0
BY SumEquations, FS_EmptySet

LEMMA SumNat ==
  ASSUME NEW D, NEW f \in [D -> Nat], NEW S \in SUBSET D, IsFiniteSet(S)
  PROVE  SumFunctionOnSet(f, S) \in Nat
<1> DEFINE B == {s \in SUBSET S : SumFunctionOnSet(f, s) \notin Nat}
<1>1. SUFFICES ASSUME B # {} PROVE FALSE
  OBVIOUS
<1>2. PICK m \in B : \A s \in B : s \subseteq m => s = m
  <2>1. B \in SUBSET (SUBSET S)
    OBVIOUS
  <2> HIDE DEF B
  <2> QED
    BY <1>1, <2>1, MinimalSubset
<1>3. IsFiniteSet(m)
  BY FS_Subset
<1>4. m # {}
  BY SumOfNone
<1>5. Taken(m) \in m
  BY <1>4, TakenIsElement
<1>6. SumFunctionOnSet(f, m \ {Taken(m)}) \in Nat
  BY <1>2, <1>5
<1>7. SumFunctionOnSet(f, m) = f[Taken(m)] + SumFunctionOnSet(f, m \ {Taken(m)})
  BY <1>3, <1>4, SumEquations
<1>8. f[Taken(m)] \in Nat
  BY <1>5
<1> QED
  BY <1>6, <1>7, <1>8

(* Whichever element is taken out, it is one summand. *)
LEMMA SumRemove ==
  ASSUME NEW D, NEW f \in [D -> Nat], NEW S \in SUBSET D, IsFiniteSet(S), NEW x \in S
  PROVE  SumFunctionOnSet(f, S) = f[x] + SumFunctionOnSet(f, S \ {x})
<1> DEFINE Fine(s) ==
             \A y \in s : SumFunctionOnSet(f, s) = f[y] + SumFunctionOnSet(f, s \ {y})
           B == {s \in SUBSET S : ~Fine(s)}
<1>1. SUFFICES ASSUME B # {} PROVE FALSE
  OBVIOUS
<1>2. PICK m \in B : \A s \in B : s \subseteq m => s = m
  <2>1. B \in SUBSET (SUBSET S)
    OBVIOUS
  <2> HIDE DEF B
  <2> QED
    BY <1>1, <2>1, MinimalSubset
<1>3. PICK y \in m : SumFunctionOnSet(f, m) # f[y] + SumFunctionOnSet(f, m \ {y})
  BY <1>2
<1> DEFINE c == Taken(m)
<1>4. c \in m
  BY <1>3, TakenIsElement
<1>5. IsFiniteSet(m)
  BY FS_Subset
<1>6. SumFunctionOnSet(f, m) = f[c] + SumFunctionOnSet(f, m \ {c})
  BY <1>4, <1>5, SumEquations
<1>7. c # y
  BY <1>3, <1>6
<1>8. Fine(m \ {c}) /\ Fine(m \ {y})
  BY <1>2, <1>3, <1>4
<1>9. SumFunctionOnSet(f, m \ {c}) = f[y] + SumFunctionOnSet(f, (m \ {c}) \ {y})
  BY <1>7, <1>8
<1>10. SumFunctionOnSet(f, m \ {y}) = f[c] + SumFunctionOnSet(f, (m \ {y}) \ {c})
  BY <1>4, <1>7, <1>8
<1>11. (m \ {c}) \ {y} = (m \ {y}) \ {c}
  OBVIOUS
<1>12. SumFunctionOnSet(f, (m \ {y}) \ {c}) \in Nat
  BY <1>5, FS_Subset, SumNat
<1>13. f[c] \in Nat /\ f[y] \in Nat
  BY <1>4
<1> HIDE DEF c
<1> QED
  BY <1>3, <1>6, <1>9, <1>10, <1>11, <1>12, <1>13

(* Only the summands count. *)
LEMMA SumAgree ==
  ASSUME NEW f, NEW g, NEW S, IsFiniteSet(S), \A x \in S : f[x] = g[x]
  PROVE  SumFunctionOnSet(f, S) = SumFunctionOnSet(g, S)
<1> DEFINE B == {s \in SUBSET S : SumFunctionOnSet(f, s) # SumFunctionOnSet(g, s)}
<1>1. SUFFICES ASSUME B # {} PROVE FALSE
  OBVIOUS
<1>2. PICK m \in B : \A s \in B : s \subseteq m => s = m
  <2>1. B \in SUBSET (SUBSET S)
    OBVIOUS
  <2> HIDE DEF B
  <2> QED
    BY <1>1, <2>1, MinimalSubset
<1>3. IsFiniteSet(m)
  BY FS_Subset
<1>4. m # {}
  BY SumOfNone
<1>5. Taken(m) \in m
  BY <1>4, TakenIsElement
<1>6. SumFunctionOnSet(f, m \ {Taken(m)}) = SumFunctionOnSet(g, m \ {Taken(m)})
  BY <1>2, <1>5
<1>7. f[Taken(m)] = g[Taken(m)]
  BY <1>5
<1>8. /\ SumFunctionOnSet(f, m) = f[Taken(m)] + SumFunctionOnSet(f, m \ {Taken(m)})
      /\ SumFunctionOnSet(g, m) = g[Taken(m)] + SumFunctionOnSet(g, m \ {Taken(m)})
  BY <1>3, <1>4, SumEquations
<1> QED
  BY <1>6, <1>7, <1>8, Zenon

(* Only the element t changes. *)
LEMMA SumChange ==
  ASSUME NEW D, IsFiniteSet(D), NEW f \in [D -> Nat], NEW g \in [D -> Nat],
         NEW S \in SUBSET D, NEW T \in SUBSET D, NEW t \in D,
         \A u \in D \ {t} : f[u] = g[u] /\ (u \in S <=> u \in T)
  PROVE  /\ SumFunctionOnSet(f, S) \in Nat /\ SumFunctionOnSet(g, T) \in Nat
         /\ SumFunctionOnSet(g, T) + (IF t \in S THEN f[t] ELSE 0)
              = SumFunctionOnSet(f, S) + (IF t \in T THEN g[t] ELSE 0)
<1> DEFINE R == S \ {t}
<1>1. IsFiniteSet(S) /\ IsFiniteSet(T) /\ IsFiniteSet(R)
  BY FS_Subset
<1>2. R = T \ {t}
  OBVIOUS
<1>3. SumFunctionOnSet(f, R) = SumFunctionOnSet(g, R)
  <2>1. \A x \in R : f[x] = g[x]
    OBVIOUS
  <2> HIDE DEF R
  <2> QED
    BY <1>1, <2>1, SumAgree
<1>4. SumFunctionOnSet(f, S) = SumFunctionOnSet(f, R) + (IF t \in S THEN f[t] ELSE 0)
  <2>1. CASE t \in S
    BY <1>1, <2>1, SumRemove, SumNat
  <2>2. CASE t \notin S
    BY <1>1, <2>2, SumNat
  <2> QED
    BY <2>1, <2>2
<1>5. SumFunctionOnSet(g, T) = SumFunctionOnSet(g, R) + (IF t \in T THEN g[t] ELSE 0)
  <2>1. CASE t \in T
    BY <1>1, <1>2, <2>1, SumRemove, SumNat
  <2>2. CASE t \notin T
    BY <1>1, <1>2, <2>2, SumNat
  <2> QED
    BY <2>1, <2>2
<1>6. SumFunctionOnSet(f, R) \in Nat /\ SumFunctionOnSet(g, R) \in Nat
  BY <1>1, SumNat
<1> HIDE DEF R
<1> QED
  BY <1>3, <1>4, <1>5, <1>6
=============================================================================
