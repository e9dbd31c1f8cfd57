---------------------------------- MODULE Sums ----------------------------------
(***************************************************************************)
(* Sums over finite sets, which the books of the system are made of: what   *)
(* SumFunctionOnSet(f, S) comes to when S gains or loses an element, when f *)
(* changes in one place, and when S is taken apart.                        *)
(*                                                                         *)
(* The operator is a fold, that is a recursive function on the subsets of S. *)
(* Induction is by a least counterexample: a set of subsets that is not     *)
(* empty has a member of which no other member is a part (WFMin).           *)
(***************************************************************************)
EXTENDS Integers, FiniteSets, Functions, FiniteSetTheorems, TLAPS

Chosen(T) == CHOOSE x \in T : TRUE

\* g is the recursive function that adds up f over the subsets of S.
Adds(f, S, g) == g = [T \in SUBSET S |-> IF T = {} THEN 0 ELSE f[Chosen(T)] + g[T \ {Chosen(T)}]]

-----------------------------------------------------------------------------
(* The recursion is well founded.                                          *)

\* Among subsets of a finite set there is a least one.
LEMMA Minimal ==
  ASSUME NEW S, IsFiniteSet(S), NEW T, T \subseteq SUBSET S, T # {}
  PROVE  \E t \in T : \A u \in T : u \subseteq t => u = t
<1>1. IsWellFoundedOn(StrictSubsetOrdering(S), SUBSET S)
  BY FS_StrictSubsetOrderingWellFounded, FS_FiniteSubsetsOfFinite
<1>2. PICK t \in T : \A u \in T : ~(<<u, t>> \in StrictSubsetOrdering(S))
  BY <1>1, WFMin
<1> QED BY <1>2 DEF StrictSubsetOrdering

\* Two such functions agree where both are defined.
LEMMA AddsAgree ==
  ASSUME NEW f, NEW S, IsFiniteSet(S), NEW U \in SUBSET S, NEW g, NEW h,
         Adds(f, S, g), Adds(f, U, h)
  PROVE  \A T \in SUBSET U : g[T] = h[T]
<1> DEFINE Bad == {T \in SUBSET U : g[T] # h[T]}
<1>1. IsFiniteSet(U)
  BY FS_Subset
<1>2. SUFFICES ASSUME Bad # {} PROVE FALSE
  OBVIOUS
<1>3. PICK t \in Bad : \A u \in Bad : u \subseteq t => u = t
  <2>1. Bad \subseteq SUBSET U
    OBVIOUS
  <2> HIDE DEF Bad
  <2> QED BY <1>1, <1>2, <2>1, Minimal
<1>4. /\ g[t] = IF t = {} THEN 0 ELSE f[Chosen(t)] + g[t \ {Chosen(t)}]
      /\ h[t] = IF t = {} THEN 0 ELSE f[Chosen(t)] + h[t \ {Chosen(t)}]
  BY DEF Adds
<1>5. t # {} => Chosen(t) \in t
  BY DEF Chosen
<1>6. t # {} => g[t \ {Chosen(t)}] = h[t \ {Chosen(t)}]
  BY <1>3, <1>5
<1> QED BY <1>4, <1>6

\* There is one for every finite set.
LEMMA AddsExists ==
  ASSUME NEW f, NEW S, IsFiniteSet(S)
  PROVE  \E g : Adds(f, S, g)
<1> DEFINE Bad == {T \in SUBSET S : ~\E g : Adds(f, T, g)}
           G(T) == CHOOSE g : Adds(f, T, g)
<1>1. SUFFICES ASSUME Bad # {} PROVE FALSE
  OBVIOUS
<1>2. PICK t \in Bad : \A u \in Bad : u \subseteq t => u = t
  <2>1. Bad \subseteq SUBSET S
    OBVIOUS
  <2> HIDE DEF Bad
  <2> QED BY <1>1, <2>1, Minimal
<1>3. \A u \in SUBSET t : u # t => Adds(f, u, G(u))
  BY <1>2
<1> DEFINE h == [T \in SUBSET t |-> IF T = {} THEN 0
                                    ELSE f[Chosen(T)] + G(T \ {Chosen(T)})[T \ {Chosen(T)}]]
<1>4. ASSUME NEW T \in SUBSET t, T # {}
      PROVE  h[T \ {Chosen(T)}] = G(T \ {Chosen(T)})[T \ {Chosen(T)}]
  <2> DEFINE V == T \ {Chosen(T)}
  <2>1. Chosen(T) \in T
    BY <1>4 DEF Chosen
  <2>2. V \in SUBSET t /\ V # t /\ Adds(f, V, G(V))
    BY <1>3, <2>1
  <2>3. G(V)[V] = IF V = {} THEN 0 ELSE f[Chosen(V)] + G(V)[V \ {Chosen(V)}]
    BY <2>2 DEF Adds
  <2>4. ASSUME V # {} PROVE G(V)[V \ {Chosen(V)}] = G(V \ {Chosen(V)})[V \ {Chosen(V)}]
    <3>1. Chosen(V) \in V
      BY <2>4 DEF Chosen
    <3>2. V \ {Chosen(V)} \in SUBSET t /\ V \ {Chosen(V)} # t
      BY <2>2, <3>1
    <3>3. Adds(f, V \ {Chosen(V)}, G(V \ {Chosen(V)}))
      BY <1>3, <3>2
    <3>4. IsFiniteSet(V)
      BY FS_Subset
    <3>5. V \ {Chosen(V)} \in SUBSET V /\ V \ {Chosen(V)} \in SUBSET (V \ {Chosen(V)})
      OBVIOUS
    <3> DEFINE W == V \ {Chosen(V)}
    <3> HIDE DEF V, W, G, h
    <3>6. Adds(f, V, G(V)) /\ Adds(f, W, G(W)) /\ W \in SUBSET V /\ W \in SUBSET W
      BY <2>2, <3>3, <3>5 DEF W
    <3>7. G(V)[W] = G(W)[W]
      BY <3>4, <3>6, AddsAgree
    <3> QED BY <3>7 DEF W
  <2>5. h[V] = IF V = {} THEN 0 ELSE f[Chosen(V)] + G(V \ {Chosen(V)})[V \ {Chosen(V)}]
    BY <2>2
  <2> QED BY <2>3, <2>4, <2>5
<1>5. \A T \in SUBSET t : h[T] = IF T = {} THEN 0 ELSE f[Chosen(T)] + h[T \ {Chosen(T)}]
  <2>1. \A T \in SUBSET t : h[T] = IF T = {} THEN 0 ELSE f[Chosen(T)] + G(T \ {Chosen(T)})[T \ {Chosen(T)}]
    BY DEF G
  <2> HIDE DEF h, G
  <2> QED BY <1>4, <2>1
<1>6. Adds(f, t, h)
  <2> HIDE DEF G
  <2>1. h = [T \in SUBSET t |-> h[T]]
    OBVIOUS
  <2> HIDE DEF h
  <2> QED BY <1>5, <2>1 DEF Adds
<1> QED BY <1>2, <1>6

\* The library's sum is that function at S.
LEMMA SumIsFold ==
  ASSUME NEW f, NEW S
  PROVE  SumFunctionOnSet(f, S) = (CHOOSE g : Adds(f, S, g))[S]
BY DEF SumFunctionOnSet, FoldFunctionOnSet, MapThenFoldSet, Adds, Chosen

\* A sum is its chosen element and the sum of the others.
LEMMA SumIsRecursive ==
  ASSUME NEW f, NEW S, IsFiniteSet(S)
  PROVE  SumFunctionOnSet(f, S) =
           IF S = {} THEN 0 ELSE f[Chosen(S)] + SumFunctionOnSet(f, S \ {Chosen(S)})
<1> DEFINE G(T) == CHOOSE g : Adds(f, T, g)
<1>1. IsFiniteSet(S \ {Chosen(S)})
  BY FS_Subset
<1>2. Adds(f, S, G(S)) /\ Adds(f, S \ {Chosen(S)}, G(S \ {Chosen(S)}))
  BY <1>1, AddsExists
<1>3. G(S)[S] = IF S = {} THEN 0 ELSE f[Chosen(S)] + G(S)[S \ {Chosen(S)}]
  BY <1>2 DEF Adds
<1>4. G(S)[S \ {Chosen(S)}] = G(S \ {Chosen(S)})[S \ {Chosen(S)}]
  <2> HIDE DEF G
  <2> QED BY <1>2, AddsAgree
<1>5. /\ SumFunctionOnSet(f, S) = G(S)[S]
      /\ SumFunctionOnSet(f, S \ {Chosen(S)}) = G(S \ {Chosen(S)})[S \ {Chosen(S)}]
  BY SumIsFold
<1> QED BY <1>3, <1>4, <1>5

-----------------------------------------------------------------------------
(* What proofs about sums use.                                             *)

\* The sum of nothing is zero.
LEMMA SumOfNone ==
  ASSUME NEW f
  PROVE  SumFunctionOnSet(f, {}) = 0
BY SumIsRecursive, FS_EmptySet

\* Functions that agree on S have the same sum there.
LEMMA SumSame ==
  ASSUME NEW S, IsFiniteSet(S), NEW f, NEW g, \A x \in S : f[x] = g[x]
  PROVE  SumFunctionOnSet(f, S) = SumFunctionOnSet(g, S)
<1> DEFINE Bad == {T \in SUBSET S : SumFunctionOnSet(f, T) # SumFunctionOnSet(g, T)}
<1>1. SUFFICES ASSUME Bad # {} PROVE FALSE
  OBVIOUS
<1>2. PICK t \in Bad : \A u \in Bad : u \subseteq t => u = t
  <2>1. Bad \subseteq SUBSET S
    OBVIOUS
  <2> HIDE DEF Bad
  <2> QED BY <1>1, <2>1, Minimal
<1>3. IsFiniteSet(t)
  BY FS_Subset
<1>4. t # {} => Chosen(t) \in t
  BY DEF Chosen
<1>5. t # {} => SumFunctionOnSet(f, t \ {Chosen(t)}) = SumFunctionOnSet(g, t \ {Chosen(t)})
  BY <1>2, <1>4
<1> QED BY <1>3, <1>4, <1>5, SumIsRecursive

\* A sum of integers is one.
LEMMA SumIsInt ==
  ASSUME NEW S, IsFiniteSet(S), NEW f, \A x \in S : f[x] \in Int
  PROVE  SumFunctionOnSet(f, S) \in Int
<1> DEFINE Bad == {T \in SUBSET S : SumFunctionOnSet(f, T) \notin Int}
<1>1. SUFFICES ASSUME Bad # {} PROVE FALSE
  OBVIOUS
<1>2. PICK t \in Bad : \A u \in Bad : u \subseteq t => u = t
  <2>1. Bad \subseteq SUBSET S
    OBVIOUS
  <2> HIDE DEF Bad
  <2> QED BY <1>1, <2>1, Minimal
<1>3. IsFiniteSet(t)
  BY FS_Subset
<1>4. t # {} => Chosen(t) \in t
  BY DEF Chosen
<1>5. t # {} => SumFunctionOnSet(f, t \ {Chosen(t)}) \in Int /\ f[Chosen(t)] \in Int
  BY <1>2, <1>4
<1>6. SumFunctionOnSet(f, t) = IF t = {} THEN 0 ELSE f[Chosen(t)] + SumFunctionOnSet(f, t \ {Chosen(t)})
  BY <1>3, SumIsRecursive
<1>7. SumFunctionOnSet(f, t) \in Int
  BY <1>5, <1>6
<1> QED BY <1>7

\* A sum of zeros is zero.
LEMMA SumOfZeros ==
  ASSUME NEW S, IsFiniteSet(S), NEW f, \A x \in S : f[x] = 0
  PROVE  SumFunctionOnSet(f, S) = 0
<1> DEFINE Bad == {T \in SUBSET S : SumFunctionOnSet(f, T) # 0}
<1>1. SUFFICES ASSUME Bad # {} PROVE FALSE
  OBVIOUS
<1>2. PICK t \in Bad : \A u \in Bad : u \subseteq t => u = t
  <2>1. Bad \subseteq SUBSET S
    OBVIOUS
  <2> HIDE DEF Bad
  <2> QED BY <1>1, <2>1, Minimal
<1>3. IsFiniteSet(t)
  BY FS_Subset
<1>4. t # {} => Chosen(t) \in t
  BY DEF Chosen
<1>5. t # {} => SumFunctionOnSet(f, t \ {Chosen(t)}) = 0 /\ f[Chosen(t)] = 0
  BY <1>2, <1>4
<1>6. SumFunctionOnSet(f, t) = IF t = {} THEN 0 ELSE f[Chosen(t)] + SumFunctionOnSet(f, t \ {Chosen(t)})
  BY <1>3, SumIsRecursive
<1>7. SumFunctionOnSet(f, t) = 0
  BY <1>5, <1>6
<1> QED BY <1>7

\* Chosen element may be taken first.
LEMMA SumTakes ==
  ASSUME NEW S, IsFiniteSet(S), NEW f, \A x \in S : f[x] \in Int, NEW y \in S
  PROVE  SumFunctionOnSet(f, S) = f[y] + SumFunctionOnSet(f, S \ {y})
<1> DEFINE Bad == {T \in SUBSET S :
              \E z \in T : SumFunctionOnSet(f, T) # f[z] + SumFunctionOnSet(f, T \ {z})}
<1>1. SUFFICES ASSUME Bad # {} PROVE FALSE
  BY FS_Subset
<1>2. PICK t \in Bad : \A u \in Bad : u \subseteq t => u = t
  <2>1. Bad \subseteq SUBSET S
    OBVIOUS
  <2> HIDE DEF Bad
  <2> QED BY <1>1, <2>1, Minimal
<1>3. PICK z \in t : SumFunctionOnSet(f, t) # f[z] + SumFunctionOnSet(f, t \ {z})
  BY <1>2
<1> DEFINE x == Chosen(t)
<1>4. x \in t
  BY DEF Chosen
<1>5. /\ IsFiniteSet(t) /\ IsFiniteSet(t \ {x}) /\ IsFiniteSet(t \ {z}) /\ IsFiniteSet((t \ {x}) \ {z})
      /\ (t \ {z}) \ {x} = (t \ {x}) \ {z}
  <2>1. t \subseteq S
    OBVIOUS
  <2> HIDE DEF Bad, x
  <2> QED BY <2>1, FS_Subset
<1>6. SumFunctionOnSet(f, t) = f[x] + SumFunctionOnSet(f, t \ {x})
  BY <1>4, <1>5, SumIsRecursive
<1>7. x # z
  BY <1>3, <1>6
<1>8. t \ {x} \notin Bad /\ t \ {z} \notin Bad
  <2> HIDE DEF Bad, x
  <2> QED BY <1>2, <1>3, <1>4
<1>9. SumFunctionOnSet(f, t \ {x}) = f[z] + SumFunctionOnSet(f, (t \ {x}) \ {z})
  BY <1>7, <1>8
<1>10. SumFunctionOnSet(f, t \ {z}) = f[x] + SumFunctionOnSet(f, (t \ {x}) \ {z})
  BY <1>4, <1>5, <1>7, <1>8
<1>11. f[x] \in Int /\ f[z] \in Int /\ SumFunctionOnSet(f, (t \ {x}) \ {z}) \in Int
  BY <1>4, <1>5, SumIsInt
<1> HIDE DEF x
<1> QED BY <1>3, <1>6, <1>9, <1>10, <1>11

\* A set gains an element.
LEMMA SumGains ==
  ASSUME NEW S, IsFiniteSet(S), NEW y, y \notin S, NEW f, \A x \in S \cup {y} : f[x] \in Int
  PROVE  SumFunctionOnSet(f, S \cup {y}) = f[y] + SumFunctionOnSet(f, S)
<1>1. IsFiniteSet(S \cup {y}) /\ (S \cup {y}) \ {y} = S
  BY FS_AddElement
<1> QED BY <1>1, SumTakes

\* One place changes.
LEMMA SumChanges ==
  ASSUME NEW S, IsFiniteSet(S), NEW y \in S, NEW f, NEW g,
         \A x \in S : f[x] \in Int /\ g[x] \in Int, \A x \in S \ {y} : f[x] = g[x]
  PROVE  SumFunctionOnSet(g, S) = SumFunctionOnSet(f, S) - f[y] + g[y]
<1>1. IsFiniteSet(S \ {y})
  BY FS_Subset
<1>2. SumFunctionOnSet(f, S \ {y}) = SumFunctionOnSet(g, S \ {y})
  BY <1>1, SumSame
<1>3. /\ SumFunctionOnSet(f, S) = f[y] + SumFunctionOnSet(f, S \ {y})
      /\ SumFunctionOnSet(g, S) = g[y] + SumFunctionOnSet(g, S \ {y})
  BY SumTakes
<1>4. SumFunctionOnSet(f, S \ {y}) \in Int
  BY <1>1, SumIsInt
<1> QED BY <1>2, <1>3, <1>4

\* A sum of natural numbers is one.
LEMMA SumIsNat ==
  ASSUME NEW S, IsFiniteSet(S), NEW f, \A x \in S : f[x] \in Nat
  PROVE  SumFunctionOnSet(f, S) \in Nat
<1> DEFINE Bad == {T \in SUBSET S : SumFunctionOnSet(f, T) \notin Nat}
<1>1. SUFFICES ASSUME Bad # {} PROVE FALSE
  OBVIOUS
<1>2. PICK t \in Bad : \A u \in Bad : u \subseteq t => u = t
  <2>1. Bad \subseteq SUBSET S
    OBVIOUS
  <2> HIDE DEF Bad
  <2> QED BY <1>1, <2>1, Minimal
<1>3. IsFiniteSet(t)
  BY FS_Subset
<1>4. t # {} => Chosen(t) \in t
  BY DEF Chosen
<1>5. t # {} => SumFunctionOnSet(f, t \ {Chosen(t)}) \in Nat /\ f[Chosen(t)] \in Nat
  BY <1>2, <1>4
<1>6. SumFunctionOnSet(f, t) = IF t = {} THEN 0 ELSE f[Chosen(t)] + SumFunctionOnSet(f, t \ {Chosen(t)})
  BY <1>3, SumIsRecursive
<1>7. SumFunctionOnSet(f, t) \in Nat
  BY <1>5, <1>6
<1> QED BY <1>7

\* The sum of a union of sets that have nothing in common.
LEMMA SumSplits ==
  ASSUME NEW S, IsFiniteSet(S), NEW U, IsFiniteSet(U), S \cap U = {},
         NEW f, \A x \in S \cup U : f[x] \in Int
  PROVE  SumFunctionOnSet(f, S \cup U) = SumFunctionOnSet(f, S) + SumFunctionOnSet(f, U)
<1> DEFINE Bad == {T \in SUBSET U :
              SumFunctionOnSet(f, S \cup T) # SumFunctionOnSet(f, S) + SumFunctionOnSet(f, T)}
<1>1. SUFFICES ASSUME Bad # {} PROVE FALSE
  OBVIOUS
<1>2. PICK t \in Bad : \A u \in Bad : u \subseteq t => u = t
  <2>1. Bad \subseteq SUBSET U
    OBVIOUS
  <2> HIDE DEF Bad
  <2> QED BY <1>1, <2>1, Minimal
<1>3. t # {}
  <2>1. SumFunctionOnSet(f, S) \in Int
    BY SumIsInt
  <2>2. SumFunctionOnSet(f, S \cup {}) = SumFunctionOnSet(f, S) + SumFunctionOnSet(f, {})
    BY <2>1, SumOfNone, S \cup {} = S
  <2> QED BY <2>2
<1> DEFINE x == Chosen(t)
<1>4. x \in t /\ t \subseteq U
  BY <1>3 DEF Chosen
<1> HIDE DEF x
<1>5. /\ IsFiniteSet(t) /\ IsFiniteSet(t \ {x}) /\ IsFiniteSet(S \cup t)
      /\ (S \cup t) \ {x} = S \cup (t \ {x})
  <2>1. IsFiniteSet(t)
    BY <1>4, FS_Subset
  <2>2. IsFiniteSet(t \ {x}) /\ IsFiniteSet(S \cup t)
    BY <2>1, FS_Subset, FS_Union
  <2> QED BY <1>4, <2>1, <2>2
<1>6. SumFunctionOnSet(f, S \cup (t \ {x})) = SumFunctionOnSet(f, S) + SumFunctionOnSet(f, t \ {x})
  <2> HIDE DEF Bad
  <2>1. t \ {x} \notin Bad
    BY <1>2, <1>4
  <2> QED BY <1>4, <2>1 DEF Bad
<1>7. SumFunctionOnSet(f, S \cup t) = f[x] + SumFunctionOnSet(f, S \cup (t \ {x}))
  BY <1>4, <1>5, SumTakes
<1>8. SumFunctionOnSet(f, t) = f[x] + SumFunctionOnSet(f, t \ {x})
  BY <1>4, <1>5, SumTakes
<1>9. f[x] \in Int /\ SumFunctionOnSet(f, S) \in Int /\ SumFunctionOnSet(f, t \ {x}) \in Int
  BY <1>4, <1>5, SumIsInt
<1> QED BY <1>2, <1>6, <1>7, <1>8, <1>9

\* A sum of sums, place by place.
LEMMA SumAdds ==
  ASSUME NEW S, IsFiniteSet(S), NEW f, NEW g, NEW h,
         \A x \in S : f[x] \in Int /\ g[x] \in Int /\ h[x] = f[x] + g[x]
  PROVE  SumFunctionOnSet(h, S) = SumFunctionOnSet(f, S) + SumFunctionOnSet(g, S)
<1> DEFINE Bad == {T \in SUBSET S :
              SumFunctionOnSet(h, T) # SumFunctionOnSet(f, T) + SumFunctionOnSet(g, T)}
<1>1. SUFFICES ASSUME Bad # {} PROVE FALSE
  OBVIOUS
<1>2. PICK t \in Bad : \A u \in Bad : u \subseteq t => u = t
  <2>1. Bad \subseteq SUBSET S
    OBVIOUS
  <2> HIDE DEF Bad
  <2> QED BY <1>1, <2>1, Minimal
<1>3. t # {}
  <2>1. /\ SumFunctionOnSet(h, {}) = 0 /\ SumFunctionOnSet(f, {}) = 0
        /\ SumFunctionOnSet(g, {}) = 0
    BY SumOfNone
  <2>2. SumFunctionOnSet(h, t) # SumFunctionOnSet(f, t) + SumFunctionOnSet(g, t)
    BY <1>2
  <2> HIDE DEF Bad
  <2> QED BY <2>1, <2>2
<1> DEFINE x == Chosen(t)
<1>4. x \in t /\ t \subseteq S
  BY <1>3 DEF Chosen
<1> HIDE DEF x
<1>5. IsFiniteSet(t) /\ IsFiniteSet(t \ {x})
  BY <1>4, FS_Subset
<1>6. SumFunctionOnSet(h, t \ {x}) = SumFunctionOnSet(f, t \ {x}) + SumFunctionOnSet(g, t \ {x})
  <2> HIDE DEF Bad
  <2>1. t \ {x} \notin Bad
    BY <1>2, <1>4
  <2> QED BY <1>4, <2>1 DEF Bad
<1>7. \A y \in t : f[y] \in Int /\ g[y] \in Int /\ h[y] \in Int
  BY <1>4
<1>8. /\ SumFunctionOnSet(h, t) = h[x] + SumFunctionOnSet(h, t \ {x})
      /\ SumFunctionOnSet(f, t) = f[x] + SumFunctionOnSet(f, t \ {x})
      /\ SumFunctionOnSet(g, t) = g[x] + SumFunctionOnSet(g, t \ {x})
  BY <1>4, <1>5, <1>7, SumTakes
<1>9. SumFunctionOnSet(f, t \ {x}) \in Int /\ SumFunctionOnSet(g, t \ {x}) \in Int
  BY <1>5, <1>7, SumIsInt
<1>10. SumFunctionOnSet(h, t) = SumFunctionOnSet(f, t) + SumFunctionOnSet(g, t)
  <2> HIDE DEF Bad
  <2> QED BY <1>4, <1>6, <1>7, <1>8, <1>9
<1> QED BY <1>2, <1>10
=============================================================================
