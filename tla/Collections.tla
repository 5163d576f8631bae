----------------------------- MODULE Collections -----------------------------
(***************************************************************************)
(* Facts about collections that several proofs need: induction over the    *)
(* subsets of a finite set, the sum of a function, the best element of a   *)
(* set, and the elements of a FIFO queue without duplicates.               *)
(***************************************************************************)
EXTENDS Naturals, Sequences, FiniteSets, Functions, Folds, FiniteSetTheorems,
        WellFoundedInduction, TLAPS

(* Induction over finite sets, as the search for a least counterexample:   *)
(* a collection of subsets of a finite set has a member that contains no   *)
(* other member.                                                           *)
LEMMA MinimalSubset ==
  ASSUME NEW S, IsFiniteSet(S), NEW C \in SUBSET SUBSET S, C # {}
  PROVE  \E T \in C : \A U \in C : U \subseteq T => U = T
<1> DEFINE R == StrictSubsetOrdering(S)
<1>1. C \subseteq FiniteSubsetsOf(S)
  BY FS_Subset DEF FiniteSubsetsOf
<1>2. IsWellFoundedOn(R, FiniteSubsetsOf(S))
  BY FS_StrictSubsetOrderingWellFounded
<1>3. PICK T \in C : \A U \in C : <<U, T>> \notin R
  <2> HIDE DEF R
  <2> QED
    BY <1>1, <1>2, WFMin
<1>4. \A U \in C : U \subseteq T => U = T
  BY <1>3 DEF StrictSubsetOrdering
<1> QED
  BY <1>4

(* Of finitely many candidates one is best: most in e, least in o among    *)
(* those that tie (_select_best_temperature_run, cli.py 1842-1854).        *)
LEMMA BestExists ==
  ASSUME NEW S, IsFiniteSet(S), S # {},
         NEW e \in [S -> Nat], NEW o \in [S -> Nat]
  PROVE  \E t \in S : \A u \in S : e[t] > e[u] \/ (e[t] = e[u] /\ o[t] <= o[u])
<1> DEFINE Above(t, u) == e[t] > e[u] \/ (e[t] = e[u] /\ o[t] <= o[u])
           Bad == {T \in SUBSET S :
                     T # {} /\ \A t \in T : \E u \in T : ~Above(t, u)}
<1>1. ASSUME Bad # {} PROVE FALSE
  <2>1. PICK T \in Bad : \A U \in Bad : U \subseteq T => U = T
    <3>1. Bad \in SUBSET SUBSET S
      OBVIOUS
    <3> HIDE DEF Bad
    <3> QED
      BY <1>1, <3>1, MinimalSubset
  <2>2. PICK x : x \in T
    OBVIOUS
  <2>3. \A t, u, v \in T : /\ Above(t, u) \/ Above(u, t)
                           /\ Above(t, u) /\ Above(u, v) => Above(t, v)
    OBVIOUS
  <2>4. CASE T = {x}
    BY <2>3, <2>4
  <2>5. CASE T # {x}
    <3>1. T \ {x} \notin Bad
      BY <2>1, <2>2
    <3>2. PICK t \in T \ {x} : \A u \in T \ {x} : Above(t, u)
      BY <2>2, <2>5, <3>1
    <3> HIDE DEF Above
    <3>3. \A u \in T : Above(x, u) \/ Above(t, u)
      BY <2>2, <2>3, <3>2
    <3>4. (\A u \in T : Above(x, u)) \/ \A u \in T : Above(t, u)
      BY <2>2, <2>3, <3>2
    <3> QED
      BY <2>2, <3>2, <3>4
  <2> QED
    BY <2>4, <2>5
<1>2. S \notin Bad
  BY <1>1
<1> QED
  BY <1>2

(* A sum over a finite set takes one element after the other: the function *)
(* from subsets to partial sums exists.  The proof extends such a function *)
(* from a largest family of subsets by one more.                           *)
LEMMA SumRecursion ==
  ASSUME NEW S, IsFiniteSet(S), NEW f \in [S -> Nat],
         NEW pick, \A s \in SUBSET S : s # {} => pick[s] \in s
  PROVE  \E g \in [SUBSET S -> Nat] : \A s \in SUBSET S :
           g[s] = IF s = {} THEN 0 ELSE f[pick[s]] + g[s \ {pick[s]}]
<1> DEFINE Val(g, s) == IF s = {} THEN 0 ELSE f[pick[s]] + g[s \ {pick[s]}]
           Closed(D) == \A s \in D : s # {} => s \ {pick[s]} \in D
           Sums(D, g) == g \in [D -> Nat] /\ \A s \in D : g[s] = Val(g, s)
           Left == {E \in SUBSET SUBSET S : /\ Closed((SUBSET S) \ E)
                                            /\ \E g : Sums((SUBSET S) \ E, g)}
<1>1. SUBSET S \in Left
  <2> DEFINE N == (SUBSET S) \ (SUBSET S)
             h == [s \in N |-> 0]
  <2>1. \A s : s \notin N
    OBVIOUS
  <2>2. h \in [N -> Nat]
    OBVIOUS
  <2>3. Closed(N) /\ Sums(N, h)
    <3> HIDE DEF N, h
    <3> QED
      BY <2>1, <2>2
  <2> QED
    BY <2>3
<1>2. PICK E \in Left : \A F \in Left : F \subseteq E => F = E
  <2>1. Left \in SUBSET SUBSET (SUBSET S)
    OBVIOUS
  <2>2. IsFiniteSet(SUBSET S)
    BY FS_SUBSET
  <2> HIDE DEF Left
  <2> QED
    BY <1>1, <2>1, <2>2, MinimalSubset
<1>3. PICK g : Sums((SUBSET S) \ E, g)
  BY <1>2
<1>4. ASSUME E # {} PROVE FALSE
  <2>1. PICK T \in E : \A U \in E : U \subseteq T => U = T
    <3>1. E \in SUBSET SUBSET S
      OBVIOUS
    <3> QED
      BY <1>4, <3>1, MinimalSubset
  <2> DEFINE D == (SUBSET S) \ E
             DT == (SUBSET S) \ (E \ {T})
             h == [s \in DT |-> IF s = T THEN Val(g, T) ELSE g[s]]
  <2>3. T \in SUBSET S /\ T \notin D /\ Closed(D) /\ DT = D \cup {T}
    BY <2>1
  <2>4. T # {} => T \ {pick[T]} \in D /\ pick[T] \in S
    BY <2>1, <2>3
  <2>5. Closed(DT)
    BY <2>3, <2>4
  <2>6. Val(g, T) \in Nat
    BY <2>4, <1>3
  <2>7. h \in [DT -> Nat]
    BY <2>3, <2>6, <1>3
  <2>8. \A s \in D : h[s] = g[s]
    BY <2>3
  <2>9. \A s \in DT : h[s] = Val(g, s)
    BY <2>3, <2>8, <1>3
  <2>10. \A s \in DT : h[s] = Val(h, s)
    BY <2>3, <2>4, <2>8, <2>9
  <2>11. Sums(DT, h)
    BY <2>7, <2>10
  <2>12. E \ {T} \in Left
    <3>1. E \ {T} \in SUBSET SUBSET S
      OBVIOUS
    <3> HIDE DEF Closed, Sums, h
    <3> QED
      BY <2>5, <2>11, <3>1
  <2>13. E \ {T} \subseteq E /\ E \ {T} # E
    BY <2>1
  <2> HIDE DEF Left
  <2> QED
    BY <2>12, <2>13, <1>2
<1>5. E = {} => (SUBSET S) \ E = SUBSET S
  OBVIOUS
<1> QED
  BY <1>3, <1>4, <1>5

(* The points of results add up to a number (score_benchmark, scorer.py    *)
(* 85-114).                                                                *)
LEMMA SumNat ==
  ASSUME NEW S, IsFiniteSet(S), NEW f \in [S -> Nat]
  PROVE  SumFunction(f) \in Nat
<1> DEFINE pick == [s \in SUBSET S |-> CHOOSE x \in s : TRUE]
           any(s) == CHOOSE x \in s : TRUE
           iter == CHOOSE g : g = [s \in SUBSET S |->
                     IF s = {} THEN 0 ELSE f[any(s)] + g[s \ {any(s)}]]
<1>1. SumFunction(f) = iter[S]
  BY DEF SumFunction, SumFunctionOnSet, FoldFunctionOnSet, MapThenFoldSet
<1>2. \A s \in SUBSET S : s # {} => pick[s] \in s
  OBVIOUS
<1>3. PICK g \in [SUBSET S -> Nat] : \A s \in SUBSET S :
        g[s] = IF s = {} THEN 0 ELSE f[pick[s]] + g[s \ {pick[s]}]
  <2>1. \A p : (\A s \in SUBSET S : s # {} => p[s] \in s) =>
          \E g \in [SUBSET S -> Nat] : \A s \in SUBSET S :
            g[s] = IF s = {} THEN 0 ELSE f[p[s]] + g[s \ {p[s]}]
    BY SumRecursion
  <2> HIDE DEF pick
  <2> QED
    BY <1>2, <2>1, Zenon
<1>4. g = [s \in SUBSET S |->
             IF s = {} THEN 0 ELSE f[any(s)] + g[s \ {any(s)}]]
  BY <1>3
<1>5. iter = [s \in SUBSET S |->
             IF s = {} THEN 0 ELSE f[any(s)] + iter[s \ {any(s)}]]
  BY <1>4, Zenon
<1> HIDE DEF iter
<1>6. \A s \in SUBSET S :
        iter[s] = IF s = {} THEN 0 ELSE f[pick[s]] + iter[s \ {pick[s]}]
  BY <1>5
<1> HIDE DEF pick
<1> DEFINE Bad == {s \in SUBSET S : iter[s] \notin Nat}
<1>7. ASSUME Bad # {} PROVE FALSE
  <2>1. PICK T \in Bad : \A U \in Bad : U \subseteq T => U = T
    <3>1. Bad \in SUBSET SUBSET S
      OBVIOUS
    <3> HIDE DEF Bad
    <3> QED
      BY <1>7, <3>1, MinimalSubset
  <2>2. T # {} /\ pick[T] \in T
    <3>1. T \in SUBSET S /\ iter[T] \notin Nat
      OBVIOUS
    <3>2. T # {}
      BY <1>6, <3>1
    <3> QED
      BY <1>2, <3>1, <3>2
  <2>3. T \ {pick[T]} \notin Bad
    BY <2>1, <2>2
  <2>4. f[pick[T]] \in Nat /\ iter[T \ {pick[T]}] \in Nat
    BY <2>2, <2>3
  <2>5. iter[T] = f[pick[T]] + iter[T \ {pick[T]}] /\ iter[T] \notin Nat
    BY <1>6, <2>2
  <2> HIDE DEF Bad
  <2> QED
    BY <2>4, <2>5
<1> QED
  BY <1>1, <1>7
-----------------------------------------------------------------------------
(* What Append and Tail do to the elements of a queue, and that they keep  *)
(* a queue free of duplicates.                                             *)
LEMMA AppendElements ==
  ASSUME NEW S, NEW q \in Seq(S), NEW x \in S
  PROVE  /\ Append(q, x) \in Seq(S)
         /\ Len(Append(q, x)) = Len(q) + 1
         /\ Range(Append(q, x)) = Range(q) \cup {x}
         /\ x \notin Range(q) /\ IsInjective(q) => IsInjective(Append(q, x))
<1> DEFINE r == Append(q, x)
<1>1. /\ r \in Seq(S) /\ Len(q) \in Nat /\ Len(r) = Len(q) + 1
      /\ DOMAIN q = 1..Len(q) /\ DOMAIN r = 1..(Len(q) + 1)
      /\ r[Len(q) + 1] = x
      /\ \A i \in 1..Len(q) : r[i] = q[i]
  OBVIOUS
<1>2. DOMAIN r = DOMAIN q \cup {Len(q) + 1} /\ Len(q) + 1 \notin DOMAIN q
  BY <1>1
<1> HIDE DEF r
<1>3. Range(r) = Range(q) \cup {x}
  BY <1>1, <1>2 DEF Range
<1>4. ASSUME x \notin Range(q), IsInjective(q) PROVE IsInjective(r)
  BY <1>1, <1>2, <1>4 DEF Range, IsInjective
<1> QED
  BY <1>1, <1>3, <1>4 DEF r

(* The empty queue has no elements. *)
LEMMA EmptyElements == Range(<<>>) = {} /\ IsInjective(<<>>)
  BY DOMAIN <<>> = {} DEF Range, IsInjective

(* Tail takes exactly the head out of a queue free of duplicates. *)
LEMMA TailElements ==
  ASSUME NEW S, NEW q \in Seq(S), q # <<>>
  PROVE  /\ Head(q) \in S
         /\ Tail(q) \in Seq(S)
         /\ Len(Tail(q)) = Len(q) - 1
         /\ Len(q) \in Nat \ {0}
         /\ Range(q) = {Head(q)} \cup Range(Tail(q))
         /\ IsInjective(q) => IsInjective(Tail(q)) /\ Head(q) \notin Range(Tail(q))
<1> DEFINE t == Tail(q)
<1>1. /\ Head(q) \in S /\ t \in Seq(S) /\ Len(t) = Len(q) - 1
      /\ Len(q) \in Nat \ {0} /\ Head(q) = q[1]
      /\ DOMAIN q = 1..Len(q) /\ DOMAIN t = 1..(Len(q) - 1)
      /\ \A i \in 1..(Len(q) - 1) : t[i] = q[i + 1]
  OBVIOUS
<1> HIDE DEF t
<1>2. \A i \in DOMAIN t : i + 1 \in DOMAIN q /\ i + 1 # 1 /\ i \in Nat
  BY <1>1
<1>3. \A i \in DOMAIN q : i = 1 \/ (i - 1 \in DOMAIN t /\ t[i - 1] = q[i])
  BY <1>1
<1>4. Range(q) = {Head(q)} \cup Range(t)
  <2>1. ASSUME NEW i \in DOMAIN q PROVE q[i] \in {Head(q)} \cup Range(t)
    BY <1>1, <1>3 DEF Range
  <2>2. ASSUME NEW i \in DOMAIN t PROVE t[i] \in Range(q)
    BY <1>1, <1>2 DEF Range
  <2>3. Head(q) \in Range(q)
    <3>1. 1 \in DOMAIN q
      BY <1>1
    <3> QED
      BY <1>1, <3>1 DEF Range
  <2> QED
    BY <2>1, <2>2, <2>3 DEF Range
<1>5. ASSUME IsInjective(q) PROVE IsInjective(t) /\ Head(q) \notin Range(t)
  <2>1. 1 \in DOMAIN q
    BY <1>1
  <2> QED
    BY <1>1, <1>2, <1>5, <2>1 DEF Range, IsInjective
<1> QED
  BY <1>1, <1>4, <1>5 DEF t
=============================================================================
