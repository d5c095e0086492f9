---------------------------- MODULE SumTheorems ----------------------------
(***************************************************************************)
(* Sums of a function over a finite set, as SumFunctionOnSet of Functions  *)
(* defines them: a recursive function that picks the elements one by one.  *)
(* Induction is by a least counterexample: among the subsets of a finite   *)
(* set for which something fails there is one all of whose own subsets are *)
(* free of it.                                                             *)
(***************************************************************************)
EXTENDS Sequences, Functions, FiniteSetTheorems, TLAPS

\* The element a sum takes next.
Picked(s) == CHOOSE x \in s : TRUE

\* What the recursive function of a sum over S has to satisfy.
Sums(iter, fun, S) ==
  iter = [s \in SUBSET S |-> IF s = {} THEN 0 ELSE fun[Picked(s)] + iter[s \ {Picked(s)}]]

Iter(fun, S) == CHOOSE iter : Sums(iter, fun, S)

LEMMA SumIsIter ==
  ASSUME NEW fun, NEW S
  PROVE  SumFunctionOnSet(fun, S) = Iter(fun, S)[S]
BY DEF SumFunctionOnSet, FoldFunctionOnSet, MapThenFoldSet, Iter, Sums, Picked

\* Among the subsets of a finite set that fail, some least one.
LEMMA LeastCounterexample ==
  ASSUME NEW S, IsFiniteSet(S), NEW Fails, Fails \subseteq SUBSET S, Fails # {}
  PROVE  \E T \in Fails : /\ T \subseteq S /\ IsFiniteSet(T)
                          /\ \A U \in SUBSET T : U # T => U \notin Fails
<1>1. IsWellFoundedOn(StrictSubsetOrdering(S), SUBSET S)
  BY FS_StrictSubsetOrderingWellFounded, FS_FiniteSubsetsOfFinite
<1>2. PICK T \in Fails : \A U \in Fails : <<U, T>> \notin StrictSubsetOrdering(S)
  BY <1>1, WFMin
<1>3. ASSUME NEW U \in SUBSET T, U # T
      PROVE  U \notin Fails
  BY <1>2, <1>3 DEF StrictSubsetOrdering
<1> QED BY <1>2, <1>3, FS_Subset

LEMMA PickedIn ==
  ASSUME NEW s, s # {}
  PROVE  Picked(s) \in s /\ s \ {Picked(s)} # s
BY DEF Picked

\* Two functions that satisfy the equation agree where both are defined.
LEMMA SumsAgree ==
  ASSUME NEW fun, NEW S, NEW T \in SUBSET S, IsFiniteSet(T),
         NEW f, Sums(f, fun, S), NEW g, Sums(g, fun, T)
  PROVE  \A U \in SUBSET T : f[U] = g[U]
<1> DEFINE Fails == {U \in SUBSET T : f[U] # g[U]}
<1> SUFFICES ASSUME Fails # {} PROVE FALSE
  OBVIOUS
<1>1. PICK U \in Fails : \A V \in SUBSET U : V # U => V \notin Fails
  <2> HIDE DEF Fails
  <2>1. Fails \subseteq SUBSET T
    BY DEF Fails
  <2> QED BY <2>1, LeastCounterexample
<1>2. U \in SUBSET T /\ U \in SUBSET S
  OBVIOUS
<1>3. /\ f[U] = IF U = {} THEN 0 ELSE fun[Picked(U)] + f[U \ {Picked(U)}]
      /\ g[U] = IF U = {} THEN 0 ELSE fun[Picked(U)] + g[U \ {Picked(U)}]
  BY <1>2 DEF Sums
<1>4. CASE U = {}
  BY <1>3, <1>4
<1>5. CASE U # {}
  <2>1. U \ {Picked(U)} \in SUBSET T /\ U \ {Picked(U)} # U
    BY <1>2, <1>5, PickedIn
  <2>2. f[U \ {Picked(U)}] = g[U \ {Picked(U)}]
    BY <1>1, <2>1
  <2> QED BY <1>3, <1>5, <2>2
<1> QED BY <1>4, <1>5

\* The recursive function of a sum exists.
LEMMA IterSums ==
  ASSUME NEW fun, NEW S, IsFiniteSet(S)
  PROVE  Sums(Iter(fun, S), fun, S)
<1> DEFINE Fails == {T \in SUBSET S : ~\E iter : Sums(iter, fun, T)}
<1>1. ASSUME Fails # {} PROVE FALSE
  <2>1. PICK T \in Fails : /\ T \subseteq S /\ IsFiniteSet(T)
                           /\ \A U \in SUBSET T : U # T => U \notin Fails
    <3> HIDE DEF Fails
    <3>1. Fails \subseteq SUBSET S
      BY DEF Fails
    <3> QED BY <1>1, <3>1, LeastCounterexample
  <2> DEFINE rest(s) == s \ {Picked(s)}
             total(s) == Iter(fun, s)[s]
             iter == [s \in SUBSET T |->
                        IF s = {} THEN 0 ELSE fun[Picked(s)] + total(rest(s))]
  <2>2. ASSUME NEW U \in SUBSET T, U # T
        PROVE  Sums(Iter(fun, U), fun, U)
    <3>1. \E it : Sums(it, fun, U)
      BY <2>1, <2>2
    <3> QED BY <3>1 DEF Iter
  <2>3. ASSUME NEW s \in SUBSET T, s # {}
        PROVE  iter[rest(s)] = total(rest(s))
    <3>1. rest(s) \in SUBSET T /\ rest(s) # T
      BY <2>3, PickedIn
    <3>2. Sums(Iter(fun, rest(s)), fun, rest(s))
      BY <2>2, <3>1
    <3>3. total(rest(s)) = IF rest(s) = {} THEN 0
                           ELSE fun[Picked(rest(s))]
                                + Iter(fun, rest(s))[rest(s) \ {Picked(rest(s))}]
      BY <3>2 DEF Sums
    <3>4. CASE rest(s) = {}
      BY <3>1, <3>3, <3>4
    <3>5. CASE rest(s) # {}
      <4>1. /\ rest(rest(s)) \in SUBSET rest(s)
            /\ rest(rest(s)) \in SUBSET T /\ rest(rest(s)) # T
            /\ IsFiniteSet(rest(rest(s)))
        BY <2>1, <3>1, FS_Subset
      <4>2. Sums(Iter(fun, rest(rest(s))), fun, rest(rest(s)))
        BY <2>2, <4>1
      <4>3. Iter(fun, rest(s))[rest(rest(s))] = total(rest(rest(s)))
        BY <3>2, <4>1, <4>2, SumsAgree
      <4>4. iter[rest(s)] = fun[Picked(rest(s))] + total(rest(rest(s)))
        BY <3>1, <3>5
      <4> QED BY <3>3, <3>5, <4>3, <4>4
    <3> QED BY <3>4, <3>5
  <2>4. Sums(iter, fun, T)
    BY <2>3 DEF Sums
  <2> QED BY <2>1, <2>4
<1>2. \E iter : Sums(iter, fun, S)
  BY <1>1
<1> QED BY <1>2 DEF Iter

(***************************************************************************)
(* What is used of a sum.                                                  *)
(***************************************************************************)
LEMMA SumOfNothing ==
  ASSUME NEW fun
  PROVE  SumFunctionOnSet(fun, {}) = 0
<1>1. Sums(Iter(fun, {}), fun, {})
  BY IterSums, FS_EmptySet
<1>2. Iter(fun, {})[{}] = 0
  BY <1>1 DEF Sums
<1> QED BY <1>2, SumIsIter

LEMMA SumTakesPicked ==
  ASSUME NEW fun, NEW S, IsFiniteSet(S), S # {}
  PROVE  SumFunctionOnSet(fun, S)
           = fun[Picked(S)] + SumFunctionOnSet(fun, S \ {Picked(S)})
<1> DEFINE rest == S \ {Picked(S)}
<1>1. IsFiniteSet(rest) /\ rest \in SUBSET S
  BY FS_Subset
<1>2. Sums(Iter(fun, S), fun, S) /\ Sums(Iter(fun, rest), fun, rest)
  BY <1>1, IterSums
<1>3. Iter(fun, S)[rest] = Iter(fun, rest)[rest]
  <2> HIDE DEF rest
  <2> QED BY <1>1, <1>2, SumsAgree
<1>4. Iter(fun, S)[S] = fun[Picked(S)] + Iter(fun, S)[rest]
  BY <1>2 DEF Sums
<1> QED BY <1>3, <1>4, SumIsIter

LEMMA SumInInt ==
  ASSUME NEW fun, NEW S, IsFiniteSet(S), \A x \in S : fun[x] \in Int
  PROVE  SumFunctionOnSet(fun, S) \in Int
<1> DEFINE Fails == {T \in SUBSET S : SumFunctionOnSet(fun, T) \notin Int}
<1> SUFFICES ASSUME Fails # {} PROVE FALSE
  OBVIOUS
<1>1. PICK T \in Fails : /\ T \subseteq S /\ IsFiniteSet(T)
                         /\ \A U \in SUBSET T : U # T => U \notin Fails
  <2> HIDE DEF Fails
  <2>1. Fails \subseteq SUBSET S
    BY DEF Fails
  <2> QED BY <2>1, LeastCounterexample
<1>2. T # {}
  <2>1. SumFunctionOnSet(fun, {}) \in Int
    BY SumOfNothing
  <2> QED BY <1>1, <2>1
<1>3. SumFunctionOnSet(fun, T \ {Picked(T)}) \in Int /\ fun[Picked(T)] \in Int
  BY <1>1, <1>2, PickedIn
<1>4. SumFunctionOnSet(fun, T) \in Int
  BY <1>1, <1>2, <1>3, SumTakesPicked
<1> QED BY <1>4

LEMMA SumInNat ==
  ASSUME NEW fun, NEW S, IsFiniteSet(S), \A x \in S : fun[x] \in Nat
  PROVE  SumFunctionOnSet(fun, S) \in Nat
<1> DEFINE Fails == {T \in SUBSET S : SumFunctionOnSet(fun, T) \notin Nat}
<1> SUFFICES ASSUME Fails # {} PROVE FALSE
  OBVIOUS
<1>1. PICK T \in Fails : /\ T \subseteq S /\ IsFiniteSet(T)
                         /\ \A U \in SUBSET T : U # T => U \notin Fails
  <2> HIDE DEF Fails
  <2>1. Fails \subseteq SUBSET S
    BY DEF Fails
  <2> QED BY <2>1, LeastCounterexample
<1>2. T # {}
  <2>1. SumFunctionOnSet(fun, {}) \in Nat
    BY SumOfNothing
  <2> QED BY <1>1, <2>1
<1>3. SumFunctionOnSet(fun, T \ {Picked(T)}) \in Nat /\ fun[Picked(T)] \in Nat
  BY <1>1, <1>2, PickedIn
<1>4. SumFunctionOnSet(fun, T) \in Nat
  BY <1>1, <1>2, <1>3, SumTakesPicked
<1> QED BY <1>4

\* The order does not matter: any element can be taken first.
LEMMA SumTakesAny ==
  ASSUME NEW fun, NEW S, IsFiniteSet(S), \A x \in S : fun[x] \in Int, NEW y \in S
  PROVE  SumFunctionOnSet(fun, S) = fun[y] + SumFunctionOnSet(fun, S \ {y})
<1> DEFINE Holds(T, z) ==
             SumFunctionOnSet(fun, T) = fun[z] + SumFunctionOnSet(fun, T \ {z})
           Fails == {T \in SUBSET S : \E z \in T : ~Holds(T, z)}
<1>1. ASSUME Fails # {} PROVE FALSE
  <2>1. PICK T \in Fails : /\ T \subseteq S /\ IsFiniteSet(T)
                           /\ \A U \in SUBSET T : U # T => U \notin Fails
    <3> HIDE DEF Fails
    <3>1. Fails \subseteq SUBSET S
      BY DEF Fails
    <3> QED BY <1>1, <3>1, LeastCounterexample
  <2>2. PICK z \in T : ~Holds(T, z)
    BY <2>1
  <2> DEFINE p == Picked(T)
             both == (T \ {z}) \ {p}
  <2>3. p \in T
    BY PickedIn
  <2>4. Holds(T, p)
    BY <2>1, <2>2, SumTakesPicked
  <2>5. p # z
    BY <2>2, <2>4
  <2>6. Holds(T \ {p}, z) /\ Holds(T \ {z}, p)
    <3>1. /\ T \ {p} \in SUBSET T /\ T \ {p} # T /\ z \in T \ {p}
          /\ T \ {z} \in SUBSET T /\ T \ {z} # T /\ p \in T \ {z}
      BY <2>3, <2>5
    <3>2. T \ {p} \in SUBSET S /\ T \ {z} \in SUBSET S
      BY <2>1
    <3> HIDE DEF p, Holds
    <3> QED BY <2>1, <3>1, <3>2
  <2>7. (T \ {p}) \ {z} = both
    OBVIOUS
  <2>8. /\ SumFunctionOnSet(fun, both) \in Int
        /\ fun[p] \in Int /\ fun[z] \in Int
    <3>1. IsFiniteSet(both) /\ both \subseteq S
      BY <2>1, FS_Subset
    <3> HIDE DEF both, p
    <3> QED BY <2>1, <2>2, <2>3, <3>1, SumInInt
  <2>9. Holds(T, z)
    <3> DEFINE s0 == SumFunctionOnSet(fun, both)
               sT == SumFunctionOnSet(fun, T)
               sp == SumFunctionOnSet(fun, T \ {p})
               sz == SumFunctionOnSet(fun, T \ {z})
    <3>1. sT = fun[p] + sp
      BY <2>4
    <3>2. sp = fun[z] + s0
      BY <2>6, <2>7
    <3>3. sz = fun[p] + s0
      BY <2>6
    <3>4. s0 \in Int
      BY <2>8
    <3> HIDE DEF s0, sT, sp, sz, p
    <3>5. sT = fun[z] + sz
      BY <2>8, <3>1, <3>2, <3>3, <3>4
    <3> QED BY <3>5 DEF sT, sz
  <2> QED BY <2>2, <2>9
<1> QED BY <1>1

LEMMA SumAddsElement ==
  ASSUME NEW fun, NEW S, IsFiniteSet(S), NEW y, y \notin S,
         \A x \in S \cup {y} : fun[x] \in Int
  PROVE  SumFunctionOnSet(fun, S \cup {y}) = fun[y] + SumFunctionOnSet(fun, S)
<1>1. IsFiniteSet(S \cup {y}) /\ (S \cup {y}) \ {y} = S
  BY FS_AddElement
<1> QED BY <1>1, SumTakesAny

LEMMA SumOfOne ==
  ASSUME NEW fun, NEW y, fun[y] \in Int
  PROVE  SumFunctionOnSet(fun, {y}) = fun[y]
<1>1. {} \cup {y} = {y} /\ y \notin {} /\ IsFiniteSet({})
  BY FS_EmptySet
<1>2. SumFunctionOnSet(fun, {y}) = fun[y] + SumFunctionOnSet(fun, {})
  <2>1. \A x \in {} \cup {y} : fun[x] \in Int
    OBVIOUS
  <2>2. SumFunctionOnSet(fun, {} \cup {y}) = fun[y] + SumFunctionOnSet(fun, {})
    BY <1>1, <2>1, SumAddsElement
  <2> QED BY <1>1, <2>2
<1> QED BY <1>2, SumOfNothing

\* Only the values of the elements matter.
LEMMA SumSame ==
  ASSUME NEW f, NEW g, NEW S, IsFiniteSet(S), \A x \in S : f[x] = g[x]
  PROVE  SumFunctionOnSet(f, S) = SumFunctionOnSet(g, S)
<1> DEFINE Fails == {T \in SUBSET S : SumFunctionOnSet(f, T) # SumFunctionOnSet(g, T)}
<1> SUFFICES ASSUME Fails # {} PROVE FALSE
  OBVIOUS
<1>1. PICK T \in Fails : /\ T \subseteq S /\ IsFiniteSet(T)
                         /\ \A U \in SUBSET T : U # T => U \notin Fails
  <2> HIDE DEF Fails
  <2>1. Fails \subseteq SUBSET S
    BY DEF Fails
  <2> QED BY <2>1, LeastCounterexample
<1>2. T # {}
  BY <1>1, SumOfNothing
<1>3. /\ SumFunctionOnSet(f, T \ {Picked(T)}) = SumFunctionOnSet(g, T \ {Picked(T)})
      /\ f[Picked(T)] = g[Picked(T)]
  BY <1>1, <1>2, PickedIn
<1>4. SumFunctionOnSet(f, T) = SumFunctionOnSet(g, T)
  BY <1>1, <1>2, <1>3, SumTakesPicked
<1> QED BY <1>4

\* Nothing but zeros comes to zero.
LEMMA SumOfZeros ==
  ASSUME NEW fun, NEW S, IsFiniteSet(S), \A x \in S : fun[x] = 0
  PROVE  SumFunctionOnSet(fun, S) = 0
<1> DEFINE Fails == {T \in SUBSET S : SumFunctionOnSet(fun, T) # 0}
<1> SUFFICES ASSUME Fails # {} PROVE FALSE
  OBVIOUS
<1>1. PICK T \in Fails : /\ T \subseteq S /\ IsFiniteSet(T)
                         /\ \A U \in SUBSET T : U # T => U \notin Fails
  <2> Fails \subseteq SUBSET S
    OBVIOUS
  <2> HIDE DEF Fails
  <2> QED BY LeastCounterexample
<1>2. T # {}
  BY <1>1, SumOfNothing
<1>3. /\ Picked(T) \in T
      /\ T \ {Picked(T)} \in SUBSET T /\ T \ {Picked(T)} # T
  BY <1>2, PickedIn
<1>4. SumFunctionOnSet(fun, T \ {Picked(T)}) = 0
  BY <1>1, <1>3
<1>5. SumFunctionOnSet(fun, T) = fun[Picked(T)] + SumFunctionOnSet(fun, T \ {Picked(T)})
  BY <1>1, <1>2, SumTakesPicked
<1> QED BY <1>1, <1>3, <1>4, <1>5

LEMMA SumOfUnion ==
  ASSUME NEW fun, NEW R, NEW S, IsFiniteSet(R), IsFiniteSet(S), R \cap S = {},
         \A x \in R \cup S : fun[x] \in Int
  PROVE  SumFunctionOnSet(fun, R \cup S)
           = SumFunctionOnSet(fun, R) + SumFunctionOnSet(fun, S)
<1> DEFINE Holds(T) == SumFunctionOnSet(fun, R \cup T)
                         = SumFunctionOnSet(fun, R) + SumFunctionOnSet(fun, T)
           Fails == {T \in SUBSET S : ~Holds(T)}
<1> SUFFICES ASSUME Fails # {} PROVE FALSE
  OBVIOUS
<1>1. PICK T \in Fails : /\ T \subseteq S /\ IsFiniteSet(T)
                         /\ \A U \in SUBSET T : U # T => U \notin Fails
  <2> HIDE DEF Fails
  <2>1. Fails \subseteq SUBSET S
    BY DEF Fails
  <2>2. \A finite, bad : IsFiniteSet(finite) /\ bad \subseteq SUBSET finite /\ bad # {} =>
          \E T \in bad : /\ T \subseteq finite /\ IsFiniteSet(T)
                         /\ \A U \in SUBSET T : U # T => U \notin bad
    BY LeastCounterexample
  <2>3. IsFiniteSet(S) /\ Fails # {}
    OBVIOUS
  <2> QED BY <2>1, <2>2, <2>3, SMTT(60)
<1>2. SumFunctionOnSet(fun, R) \in Int
  BY SumInInt
<1>3. T # {}
  <2>1. R \cup {} = R
    OBVIOUS
  <2>2. Holds({})
    BY <1>2, <2>1, SumOfNothing
  <2> QED BY <1>1, <2>2
<1> DEFINE p == Picked(T)
           rest == T \ {p}
<1>4. p \in T /\ rest # T /\ rest \in SUBSET T /\ p \notin R \cup rest
  BY <1>1, <1>3, PickedIn
<1>5. IsFiniteSet(rest) /\ IsFiniteSet(R \cup rest)
  BY <1>1, FS_Subset, FS_Union
<1>6. Holds(rest)
  <2> HIDE DEF rest, Holds
  <2> QED BY <1>1, <1>4
<1>7. SumFunctionOnSet(fun, rest) \in Int /\ fun[p] \in Int
  <2>1. p \in S /\ \A x \in rest : x \in S
    BY <1>1, <1>4
  <2> HIDE DEF rest, p
  <2> QED BY <1>5, <2>1, SumInInt
<1>8. SumFunctionOnSet(fun, T) = fun[p] + SumFunctionOnSet(fun, rest)
  BY <1>1, <1>3, SumTakesPicked
<1>9. SumFunctionOnSet(fun, R \cup T) = fun[p] + SumFunctionOnSet(fun, R \cup rest)
  <2>1. R \cup T = (R \cup rest) \cup {p}
    BY <1>4
  <2>2. \A x \in (R \cup rest) \cup {p} : fun[x] \in Int
    BY <1>1, <1>4
  <2> HIDE DEF rest, p
  <2> QED BY <1>4, <1>5, <2>1, <2>2, SumAddsElement
<1>10. Holds(T)
  <2> DEFINE s1 == SumFunctionOnSet(fun, R)
             s2 == SumFunctionOnSet(fun, rest)
             s3 == SumFunctionOnSet(fun, R \cup rest)
  <2>1. /\ s1 \in Int /\ s2 \in Int /\ fun[p] \in Int /\ s3 = s1 + s2
    BY <1>2, <1>6, <1>7
  <2>2. SumFunctionOnSet(fun, T) = fun[p] + s2 /\ SumFunctionOnSet(fun, R \cup T) = fun[p] + s3
    BY <1>8, <1>9
  <2> HIDE DEF s1, s2, s3, p
  <2>3. SumFunctionOnSet(fun, R \cup T) = s1 + SumFunctionOnSet(fun, T)
    BY <2>1, <2>2
  <2> QED BY <2>3 DEF s1
<1> QED BY <1>1, <1>10

\* The sum over the indices of f is the sum over its values, when f takes none
\* twice.
LEMMA SumOfImage ==
  ASSUME NEW S, IsFiniteSet(S), NEW f, DOMAIN f = S, IsInjective(f),
         NEW val, \A x \in S : val[f[x]] \in Int
  PROVE  /\ IsFiniteSet(Range(f))
         /\ Cardinality(Range(f)) = Cardinality(S)
         /\ SumFunctionOnSet(val, Range(f)) = SumFunctionOnSet([x \in S |-> val[f[x]]], S)
<1> DEFINE along == [x \in S |-> val[f[x]]]
           image(T) == {f[x] : x \in T}
           Holds(T) == /\ IsFiniteSet(image(T))
                       /\ Cardinality(image(T)) = Cardinality(T)
                       /\ SumFunctionOnSet(val, image(T)) = SumFunctionOnSet(along, T)
           Fails == {T \in SUBSET S : ~Holds(T)}
<1>1. ASSUME Fails # {} PROVE FALSE
  <2>1. PICK T \in Fails : /\ T \subseteq S /\ IsFiniteSet(T)
                           /\ \A U \in SUBSET T : U # T => U \notin Fails
    <3> HIDE DEF Fails
    <3>1. Fails \subseteq SUBSET S
      BY DEF Fails
    <3> QED BY <1>1, <3>1, LeastCounterexample
  <2>2. T # {}
    <3>1. image({}) = {}
      OBVIOUS
    <3>2. Holds({})
      BY <3>1, SumOfNothing, FS_EmptySet
    <3> QED BY <2>1, <3>2
  <2> DEFINE p == Picked(T)
             rest == T \ {p}
  <2>3. p \in T /\ rest # T /\ rest \in SUBSET T
    BY <2>2, PickedIn
  <2>4. Holds(rest)
    <3> HIDE DEF rest, Holds
    <3> QED BY <2>1, <2>3
  <2>5. image(T) = image(rest) \cup {f[p]} /\ f[p] \notin image(rest)
    <3>1. \A x \in rest : f[x] # f[p]
      BY <2>1, <2>3 DEF IsInjective
    <3>2. T = rest \cup {p}
      BY <2>3
    <3> HIDE DEF rest, p
    <3> QED BY <3>1, <3>2
  <2>6. /\ IsFiniteSet(image(T))
        /\ Cardinality(image(T)) = Cardinality(image(rest)) + 1
    <3> HIDE DEF image, p, rest
    <3> QED BY <2>4, <2>5, FS_AddElement
  <2>7. Cardinality(rest) = Cardinality(T) - 1 /\ Cardinality(T) \in Nat
    BY <2>1, <2>3, FS_RemoveElement, FS_CardinalityType
  <2>8. SumFunctionOnSet(val, image(T)) = val[f[p]] + SumFunctionOnSet(val, image(rest))
    <3>1. \A y \in image(rest) \cup {f[p]} : val[y] \in Int
      BY <2>1, <2>3
    <3> HIDE DEF image, p, rest
    <3> QED BY <2>4, <2>5, <3>1, SumAddsElement
  <2>9. SumFunctionOnSet(along, T) = along[p] + SumFunctionOnSet(along, rest)
    BY <2>1, <2>2, SumTakesPicked
  <2>10. along[p] = val[f[p]]
    BY <2>1, <2>3
  <2>11. Holds(T)
    <3> HIDE DEF image, along, p, rest
    <3> QED BY <2>4, <2>6, <2>7, <2>8, <2>9, <2>10
  <2> QED BY <2>1, <2>11
<1>2. Holds(S)
  BY <1>1
<1>3. Range(f) = image(S)
  BY DEF Range
<1> QED BY <1>2, <1>3

(***************************************************************************)
(* Sums over sequences.                                                    *)
(***************************************************************************)
LEMMA SumOfPair ==
  ASSUME NEW x \in Int, NEW y \in Int
  PROVE  SumFunction(<<x, y>>) = x + y
<1> DEFINE pair == <<x, y>>
<1>1. DOMAIN pair = {1} \cup {2} /\ pair[1] = x /\ pair[2] = y
  OBVIOUS
<1>2. 2 \notin {1} /\ \A k \in {1} \cup {2} : pair[k] \in Int
  OBVIOUS
<1> HIDE DEF pair
<1>3. SumFunctionOnSet(pair, {1} \cup {2}) = pair[2] + SumFunctionOnSet(pair, {1})
  <2>1. IsFiniteSet({1})
    BY FS_Singleton
  <2> QED BY <1>2, <2>1, SumAddsElement
<1>4. SumFunctionOnSet(pair, {1}) = x
  BY <1>1, SumOfOne
<1>5. SumFunction(pair) = x + y
  BY <1>1, <1>3, <1>4 DEF SumFunction
<1> QED BY <1>5 DEF pair

LEMMA SumOfSingle ==
  ASSUME NEW x \in Int
  PROVE  SumFunction(<<x>>) = x
<1> DEFINE single == <<x>>
<1>1. DOMAIN single = {1} /\ single[1] = x
  OBVIOUS
<1> HIDE DEF single
<1>2. SumFunction(single) = x
  BY <1>1, SumOfOne DEF SumFunction
<1> QED BY <1>2 DEF single

LEMMA SumOfNats ==
  ASSUME NEW s \in Seq(Nat)
  PROVE  /\ SumFunction(s) \in Nat
         /\ \A k \in DOMAIN s : s[k] <= SumFunction(s)
<1>1. DOMAIN s = 1..Len(s) /\ Len(s) \in Nat /\ \A k \in DOMAIN s : s[k] \in Nat
  OBVIOUS
<1>2. IsFiniteSet(DOMAIN s)
  BY <1>1, FS_Interval
<1>3. SumFunction(s) \in Nat
  BY <1>1, <1>2, SumInNat DEF SumFunction
<1>4. ASSUME NEW k \in DOMAIN s
      PROVE  s[k] <= SumFunction(s)
  <2>1. SumFunction(s) = s[k] + SumFunctionOnSet(s, DOMAIN s \ {k})
    BY <1>1, <1>2, SumTakesAny DEF SumFunction
  <2>2. SumFunctionOnSet(s, DOMAIN s \ {k}) \in Nat
    <3>1. IsFiniteSet(DOMAIN s \ {k})
      BY <1>2, FS_RemoveElement
    <3> QED BY <1>1, <3>1, SumInNat
  <2> QED BY <1>1, <2>1, <2>2
<1> QED BY <1>3, <1>4

\* A constant more for each element.
LEMMA SumPlus ==
  ASSUME NEW f, NEW g, NEW c \in Nat, NEW S, IsFiniteSet(S),
         \A x \in S : f[x] \in Nat /\ g[x] = f[x] + c
  PROVE  SumFunctionOnSet(g, S) = SumFunctionOnSet(f, S) + Cardinality(S) * c
<1> DEFINE Fails == {T \in SUBSET S :
                       SumFunctionOnSet(g, T) # SumFunctionOnSet(f, T) + Cardinality(T) * c}
<1> SUFFICES ASSUME Fails # {} PROVE FALSE
  OBVIOUS
<1>1. PICK T \in Fails : /\ T \subseteq S /\ IsFiniteSet(T)
                         /\ \A U \in SUBSET T : U # T => U \notin Fails
  <2> HIDE DEF Fails
  <2>1. Fails \subseteq SUBSET S
    BY DEF Fails
  <2> QED BY <2>1, LeastCounterexample, SMTT(60)
<1>2. SumFunctionOnSet(g, {}) = SumFunctionOnSet(f, {}) + Cardinality({}) * c
  BY SumOfNothing, FS_EmptySet
<1>3. T # {}
  BY <1>1, <1>2
<1> DEFINE y == Picked(T)
           rest == T \ {y}
<1>4. y \in T /\ rest # T /\ rest \in SUBSET T
  BY <1>3, PickedIn
<1>5. SumFunctionOnSet(g, rest) = SumFunctionOnSet(f, rest) + Cardinality(rest) * c
  BY <1>1, <1>4
<1>6. /\ SumFunctionOnSet(f, T) = f[y] + SumFunctionOnSet(f, rest)
      /\ SumFunctionOnSet(g, T) = g[y] + SumFunctionOnSet(g, rest)
  BY <1>1, <1>3, SumTakesPicked
<1>7. f[y] \in Nat /\ g[y] = f[y] + c
  BY <1>1, <1>4
<1>8. IsFiniteSet(rest) /\ SumFunctionOnSet(f, rest) \in Nat
  <2>1. IsFiniteSet(rest)
    BY <1>1, FS_RemoveElement
  <2>2. \A x \in rest : f[x] \in Nat
    BY <1>1, <1>4
  <2> HIDE DEF rest
  <2> QED BY <2>1, <2>2, SumInNat
<1>9. Cardinality(rest) = Cardinality(T) - 1 /\ Cardinality(T) \in Nat
  BY <1>1, <1>4, FS_RemoveElement, FS_CardinalityType
<1> DEFINE n == Cardinality(T)
           m == Cardinality(rest)
           a == SumFunctionOnSet(f, rest)
<1>10. n = m + 1 /\ m \in Nat /\ a \in Nat
  BY <1>8, <1>9, FS_CardinalityType
<1>11. SumFunctionOnSet(g, rest) = a + m * c
  BY <1>5
<1> HIDE DEF n, m, a, y, rest, Fails
<1>12. (m + 1) * c = m * c + c /\ m * c \in Nat
  BY <1>10
<1>13. SumFunctionOnSet(g, T) = SumFunctionOnSet(f, T) + Cardinality(T) * c
  BY <1>6, <1>7, <1>10, <1>11, <1>12 DEF n, a
<1> QED BY <1>1, <1>13 DEF Fails

\* More for each element is more in all.
LEMMA SumMonotone ==
  ASSUME NEW f, NEW g, NEW S, IsFiniteSet(S),
         \A x \in S : f[x] \in Nat /\ g[x] \in Nat /\ f[x] <= g[x]
  PROVE  SumFunctionOnSet(f, S) <= SumFunctionOnSet(g, S)
<1> DEFINE Fails == {T \in SUBSET S : ~(SumFunctionOnSet(f, T) <= SumFunctionOnSet(g, T))}
<1> SUFFICES ASSUME Fails # {} PROVE FALSE
  OBVIOUS
<1>1. PICK T \in Fails : /\ T \subseteq S /\ IsFiniteSet(T)
                         /\ \A U \in SUBSET T : U # T => U \notin Fails
  <2> HIDE DEF Fails
  <2>1. Fails \subseteq SUBSET S
    BY DEF Fails
  <2> QED BY <2>1, LeastCounterexample
<1>2. T # {}
  <2>1. SumFunctionOnSet(f, {}) <= SumFunctionOnSet(g, {})
    BY SumOfNothing
  <2> QED BY <1>1, <2>1
<1> DEFINE y == Picked(T)
           rest == T \ {y}
<1>3. y \in T /\ rest # T /\ rest \in SUBSET T
  BY <1>2, PickedIn
<1>4. SumFunctionOnSet(f, rest) <= SumFunctionOnSet(g, rest)
  BY <1>1, <1>3
<1>5. /\ SumFunctionOnSet(f, T) = f[y] + SumFunctionOnSet(f, rest)
      /\ SumFunctionOnSet(g, T) = g[y] + SumFunctionOnSet(g, rest)
  BY <1>1, <1>2, SumTakesPicked
<1>6. SumFunctionOnSet(f, rest) \in Nat /\ SumFunctionOnSet(g, rest) \in Nat
  <2>1. IsFiniteSet(rest)
    BY <1>1, FS_RemoveElement
  <2>2. \A x \in rest : f[x] \in Nat /\ g[x] \in Nat
    BY <1>1, <1>3
  <2> HIDE DEF rest
  <2> QED BY <2>1, <2>2, SumInNat
<1>7. f[y] \in Nat /\ g[y] \in Nat /\ f[y] <= g[y]
  BY <1>1, <1>3
<1> HIDE DEF y, rest
<1>8. SumFunctionOnSet(f, T) <= SumFunctionOnSet(g, T)
  BY <1>4, <1>5, <1>6, <1>7
<1> QED BY <1>1, <1>8

\* At least a constant more for each element.
LEMMA SumBelow ==
  ASSUME NEW f, NEW g, NEW c \in Nat, NEW S, IsFiniteSet(S),
         \A x \in S : f[x] \in Nat /\ g[x] \in Nat /\ f[x] + c <= g[x]
  PROVE  SumFunctionOnSet(f, S) + Cardinality(S) * c <= SumFunctionOnSet(g, S)
<1> DEFINE between == [x \in S |-> f[x] + c]
<1>1. \A x \in S : /\ f[x] \in Nat /\ between[x] = f[x] + c
                   /\ between[x] \in Nat /\ g[x] \in Nat /\ between[x] <= g[x]
  OBVIOUS
<1> HIDE DEF between
<1>2. SumFunctionOnSet(between, S) = SumFunctionOnSet(f, S) + Cardinality(S) * c
  BY <1>1, SumPlus
<1>3. SumFunctionOnSet(between, S) <= SumFunctionOnSet(g, S)
  BY <1>1, SumMonotone
<1> QED BY <1>2, <1>3

\* The elements of a sequence that names none twice.
LEMMA SumOfSequence ==
  ASSUME NEW s, NEW n \in Nat, DOMAIN s = 1..n, IsInjective(s),
         NEW val, \A k \in DOMAIN s : val[s[k]] \in Nat
  PROVE  /\ IsFiniteSet(Range(s))
         /\ SumFunctionOnSet(val, Range(s)) = SumFunction([k \in DOMAIN s |-> val[s[k]]])
<1>1. IsFiniteSet(DOMAIN s)
  BY FS_Interval
<1>2. /\ IsFiniteSet(Range(s))
      /\ SumFunctionOnSet(val, Range(s))
           = SumFunctionOnSet([k \in DOMAIN s |-> val[s[k]]], DOMAIN s)
  BY <1>1, SumOfImage
<1> QED BY <1>2 DEF SumFunction

LEMMA IntervalSize ==
  ASSUME NEW n \in Nat
  PROVE  IsFiniteSet(1..n) /\ Cardinality(1..n) = n
<1>1. IsFiniteSet(1..n) /\ Cardinality(1..n) = IF 1 > n THEN 0 ELSE n - 1 + 1
  BY FS_Interval
<1> QED BY <1>1
=============================================================================
