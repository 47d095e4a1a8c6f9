-------------------------------- MODULE Sums --------------------------------
(* Sums over finite sets: what SumFunctionOnSet of the community modules computes,
   whose definition picks the elements in an unknown order. *)
EXTENDS Integers, FiniteSets, Functions, TLAPS, FiniteSetTheorems, WellFoundedInduction

-----------------------------------------------------------------------------
(* Smallest counterexamples *)

(* Among the subsets of a finite set that have a property, one has no proper subset
   with it. *)
LEMMA SmallestSubset ==
    \A S : IsFiniteSet(S) => \A Bad \in SUBSET (SUBSET S) : Bad # {} =>
        \E s \in Bad : \A t \in SUBSET s : t # s => t \notin Bad
<1> SUFFICES ASSUME NEW S, IsFiniteSet(S), NEW Bad \in SUBSET (SUBSET S), Bad # {}
    PROVE  \E s \in Bad : \A t \in SUBSET s : t # s => t \notin Bad
  OBVIOUS
<1>1. IsWellFoundedOn(StrictSubsetOrdering(S), SUBSET S)
  BY FS_StrictSubsetOrderingWellFounded, FS_FiniteSubsetsOfFinite
<1>2. PICK s \in Bad : \A t \in Bad : <<t, s>> \notin StrictSubsetOrdering(S)
  BY <1>1, WFMin
<1>3. ASSUME NEW t \in SUBSET s, t # s PROVE t \notin Bad
  BY <1>2, <1>3 DEF StrictSubsetOrdering
<1> QED BY <1>2, <1>3

-----------------------------------------------------------------------------
(* The definition: a recursive function on the subsets *)

Pick(s) == CHOOSE x \in s : TRUE
Rest(s) == s \ {Pick(s)}
IsIter(g, f, S) == g = [s \in SUBSET S |-> IF s = {} THEN 0 ELSE f[Pick(s)] + g[Rest(s)]]
Iter(f, S) == CHOOSE g : IsIter(g, f, S)

LEMMA SumIter == \A f, S : SumFunctionOnSet(f, S) = Iter(f, S)[S]
BY DEF SumFunctionOnSet, FoldFunctionOnSet, MapThenFoldSet, Iter, IsIter, Pick, Rest

LEMMA IterStep ==
    \A f, S, g : IsIter(g, f, S) =>
        \A s \in SUBSET S : /\ s = {} => g[s] = 0
                            /\ s # {} => g[s] = f[Pick(s)] + g[Rest(s)]
BY DEF IsIter

LEMMA RestIn == \A s : s # {} => Pick(s) \in s /\ Rest(s) \in SUBSET s /\ Rest(s) # s
BY DEF Pick, Rest

(* Two such functions agree wherever both are defined. *)
LEMMA IterAgree ==
    \A f, S, T, g, h : IsFiniteSet(S) /\ IsIter(g, f, S) /\ IsIter(h, f, T) =>
        \A s \in SUBSET S : s \in SUBSET T => g[s] = h[s]
<1> SUFFICES ASSUME NEW f, NEW S, IsFiniteSet(S), NEW T, NEW g, NEW h,
                    IsIter(g, f, S), IsIter(h, f, T)
             PROVE  \A s \in SUBSET S : s \in SUBSET T => g[s] = h[s]
  OBVIOUS
<1> DEFINE Bad == {s \in SUBSET S : s \in SUBSET T /\ g[s] # h[s]}
<1> SUFFICES ASSUME Bad # {} PROVE FALSE OBVIOUS
<1>0. Bad \in SUBSET (SUBSET S) OBVIOUS
<1>00. \A s : s \in Bad <=> s \in SUBSET S /\ s \in SUBSET T /\ g[s] # h[s] OBVIOUS
<1> HIDE DEF Bad
<1>1. PICK s \in Bad : \A t \in SUBSET s : t # s => t \notin Bad
  BY <1>0, SmallestSubset
<1>2. s \in SUBSET S /\ s \in SUBSET T /\ g[s] # h[s] BY <1>1, <1>00
<1>3. s # {} BY <1>2, IterStep
<1>4. Rest(s) \in SUBSET s /\ Rest(s) # s BY <1>3, RestIn
<1>6. g[Rest(s)] = h[Rest(s)] BY <1>1, <1>2, <1>4, <1>00
<1>7. g[s] = f[Pick(s)] + g[Rest(s)] BY <1>2, <1>3, IterStep
<1>8. h[s] = f[Pick(s)] + h[Rest(s)] BY <1>2, <1>3, IterStep
<1> QED BY <1>2, <1>6, <1>7, <1>8

(* And there is one. *)
LEMMA IterExists == \A f, S : IsFiniteSet(S) => \E g : IsIter(g, f, S)
<1> SUFFICES ASSUME NEW f, NEW S, IsFiniteSet(S) PROVE \E g : IsIter(g, f, S)
  OBVIOUS
<1> DEFINE Bad == {T \in SUBSET S : ~\E g : IsIter(g, f, T)}
<1> SUFFICES ASSUME Bad # {} PROVE FALSE BY DEF Bad
<1>0. Bad \in SUBSET (SUBSET S) OBVIOUS
<1>00. \A T : T \in Bad <=> T \in SUBSET S /\ ~\E g : IsIter(g, f, T) OBVIOUS
<1> HIDE DEF Bad
<1>1. PICK T \in Bad : \A t \in SUBSET T : t # T => t \notin Bad
  BY <1>0, SmallestSubset
<1>2. T \in SUBSET S /\ ~\E g : IsIter(g, f, T) BY <1>1, <1>00
<1>3. \A t \in SUBSET T : t # T => \E g : IsIter(g, f, t) BY <1>1, <1>2, <1>00
<1> DEFINE G(t) == CHOOSE g : IsIter(g, f, t)
           val(t) == G(t)[t]
           h == [s \in SUBSET T |-> IF s = {} THEN 0 ELSE f[Pick(s)] + val(Rest(s))]
<1>4. \A t \in SUBSET T : t # T => IsIter(G(t), f, t) BY <1>3
<1>h. \A s \in SUBSET T : /\ s = {} => h[s] = 0
                          /\ s # {} => h[s] = f[Pick(s)] + val(Rest(s))
  OBVIOUS
<1>d. \A t : val(t) = G(t)[t] OBVIOUS
<1>e. h = [s \in SUBSET T |-> h[s]] OBVIOUS
<1> HIDE DEF G, val, h
<1>5. ASSUME NEW t \in SUBSET T, t # T PROVE val(t) = h[t]
  <2>1. IsIter(G(t), f, t) BY <1>4, <1>5
  <2>3. CASE t = {} BY <2>1, <2>3, <1>d, <1>h, IterStep
  <2>4. CASE t # {}
    <3>1. Rest(t) \in SUBSET t /\ Rest(t) # t /\ Rest(t) # T BY <2>4, RestIn, <1>5
    <3>2. IsIter(G(Rest(t)), f, Rest(t)) BY <3>1, <1>4, <1>5
    <3>3. IsFiniteSet(t) BY <1>2, <1>5, FS_Subset
    <3>4. G(t)[Rest(t)] = G(Rest(t))[Rest(t)] BY <2>1, <3>1, <3>2, <3>3, IterAgree
    <3>5. G(t)[t] = f[Pick(t)] + G(t)[Rest(t)] BY <2>1, <2>4, IterStep
    <3> QED BY <3>4, <3>5, <2>4, <1>5, <1>d, <1>h
  <2> QED BY <2>3, <2>4
<1>6. ASSUME NEW s \in SUBSET T
      PROVE  h[s] = IF s = {} THEN 0 ELSE f[Pick(s)] + h[Rest(s)]
  <2>1. CASE s = {} BY <2>1, <1>h
  <2>2. CASE s # {}
    <3>1. Rest(s) \in SUBSET T /\ Rest(s) # T BY <2>2, RestIn
    <3>2. val(Rest(s)) = h[Rest(s)] BY <3>1, <1>5
    <3> QED BY <2>2, <3>2, <1>h
  <2> QED BY <2>1, <2>2
<1>8. IsIter(h, f, T) BY <1>6, <1>e DEF IsIter
<1> QED BY <1>2, <1>8

LEMMA IterIs == \A f, S : IsFiniteSet(S) => IsIter(Iter(f, S), f, S)
BY IterExists DEF Iter

-----------------------------------------------------------------------------
(* Sums, element by element *)

LEMMA SumEmpty == \A f : SumFunctionOnSet(f, {}) = 0
<1> TAKE f
<1>1. IsIter(Iter(f, {}), f, {}) BY IterIs, FS_EmptySet
<1>2. Iter(f, {})[{}] = 0 BY <1>1, IterStep
<1> QED BY <1>2, SumIter

LEMMA SumPick ==
    \A f, S : IsFiniteSet(S) /\ S # {} =>
        SumFunctionOnSet(f, S) = f[Pick(S)] + SumFunctionOnSet(f, Rest(S))
<1> SUFFICES ASSUME NEW f, NEW S, IsFiniteSet(S), S # {}
             PROVE  SumFunctionOnSet(f, S) = f[Pick(S)] + SumFunctionOnSet(f, Rest(S))
  OBVIOUS
<1>1. Rest(S) \in SUBSET S /\ IsFiniteSet(Rest(S)) BY RestIn, FS_Subset
<1>2. IsIter(Iter(f, S), f, S) /\ IsIter(Iter(f, Rest(S)), f, Rest(S)) BY <1>1, IterIs
<1>3. Iter(f, S)[S] = f[Pick(S)] + Iter(f, S)[Rest(S)] BY <1>2, IterStep
<1>4. Iter(f, S)[Rest(S)] = Iter(f, Rest(S))[Rest(S)] BY <1>1, <1>2, IterAgree
<1> QED BY <1>3, <1>4, SumIter

LEMMA SumInt ==
    \A f, S : IsFiniteSet(S) /\ (\A x \in S : f[x] \in Int) => SumFunctionOnSet(f, S) \in Int
<1> SUFFICES ASSUME NEW f, NEW S, IsFiniteSet(S), \A x \in S : f[x] \in Int
             PROVE  SumFunctionOnSet(f, S) \in Int
  OBVIOUS
<1> DEFINE Bad == {T \in SUBSET S : SumFunctionOnSet(f, T) \notin Int}
<1> SUFFICES ASSUME Bad # {} PROVE FALSE OBVIOUS
<1>0. Bad \in SUBSET (SUBSET S) OBVIOUS
<1>00. \A T : T \in Bad <=> T \in SUBSET S /\ SumFunctionOnSet(f, T) \notin Int OBVIOUS
<1> HIDE DEF Bad
<1>1. PICK T \in Bad : \A t \in SUBSET T : t # T => t \notin Bad BY <1>0, SmallestSubset
<1>2. T \in SUBSET S /\ SumFunctionOnSet(f, T) \notin Int BY <1>1, <1>00
<1>3. T # {} BY <1>2, SumEmpty
<1>4. Pick(T) \in S /\ Rest(T) \in SUBSET T /\ Rest(T) # T BY <1>2, <1>3, RestIn
<1>5. SumFunctionOnSet(f, Rest(T)) \in Int BY <1>1, <1>2, <1>4, <1>00
<1>6. IsFiniteSet(T) BY <1>2, FS_Subset
<1>7. SumFunctionOnSet(f, T) = f[Pick(T)] + SumFunctionOnSet(f, Rest(T)) BY <1>3, <1>6, SumPick
<1>8. f[Pick(T)] \in Int BY <1>4
<1> QED BY <1>2, <1>5, <1>7, <1>8

(* The order does not matter: any element may be taken out first. *)
LEMMA SumRemove ==
    \A f, S : IsFiniteSet(S) /\ (\A x \in S : f[x] \in Int) =>
        \A x \in S : SumFunctionOnSet(f, S) = f[x] + SumFunctionOnSet(f, S \ {x})
<1> SUFFICES ASSUME NEW f, NEW S, IsFiniteSet(S), \A x \in S : f[x] \in Int
             PROVE  \A x \in S : SumFunctionOnSet(f, S) = f[x] + SumFunctionOnSet(f, S \ {x})
  OBVIOUS
<1> DEFINE Good(T) == \A x \in T : SumFunctionOnSet(f, T) = f[x] + SumFunctionOnSet(f, T \ {x})
           Bad == {T \in SUBSET S : ~Good(T)}
<1> SUFFICES ASSUME Bad # {} PROVE FALSE OBVIOUS
<1>0. Bad \in SUBSET (SUBSET S) OBVIOUS
<1>00. \A T : T \in Bad <=> T \in SUBSET S /\ ~Good(T) OBVIOUS
<1> HIDE DEF Bad
<1>1. PICK T \in Bad : \A t \in SUBSET T : t # T => t \notin Bad BY <1>0, SmallestSubset
<1>2. T \in SUBSET S /\ ~Good(T) BY <1>1, <1>00
<1>3. PICK x \in T : SumFunctionOnSet(f, T) # f[x] + SumFunctionOnSet(f, T \ {x}) BY <1>2
<1> DEFINE p == Pick(T)
<1>4. p \in T /\ Rest(T) = T \ {p} /\ Rest(T) # T /\ T # {} BY <1>3, RestIn DEF Rest
<1> HIDE DEF p
<1>5. IsFiniteSet(T) /\ IsFiniteSet(T \ {x}) /\ IsFiniteSet(T \ {p}) /\ IsFiniteSet((T \ {x}) \ {p})
  BY <1>2, FS_Subset
<1>6. SumFunctionOnSet(f, T) = f[p] + SumFunctionOnSet(f, T \ {p})
  BY <1>4, <1>5, SumPick DEF p
<1>7. x # p BY <1>3, <1>6
<1>8. Good(T \ {p}) /\ Good(T \ {x})
  <2>1. T \ {p} \in SUBSET T /\ T \ {p} # T /\ T \ {p} \in SUBSET S BY <1>2, <1>4
  <2>2. T \ {x} \in SUBSET T /\ T \ {x} # T /\ T \ {x} \in SUBSET S BY <1>2, <1>3
  <2> HIDE DEF Good
  <2> QED BY <1>1, <2>1, <2>2, <1>00
<1>9. x \in T \ {p} /\ p \in T \ {x} /\ (T \ {p}) \ {x} = (T \ {x}) \ {p} BY <1>4, <1>7
<1> DEFINE rest == SumFunctionOnSet(f, (T \ {x}) \ {p})
<1>10. SumFunctionOnSet(f, T \ {p}) = f[x] + rest BY <1>8, <1>9
<1>11. SumFunctionOnSet(f, T \ {x}) = f[p] + rest BY <1>8, <1>9
<1>12. rest \in Int /\ f[x] \in Int /\ f[p] \in Int BY <1>2, <1>4, <1>5, SumInt
<1> HIDE DEF rest
<1> QED BY <1>3, <1>6, <1>10, <1>11, <1>12

LEMMA SumSame ==
    \A f, g, S : IsFiniteSet(S) /\ (\A x \in S : f[x] = g[x]) =>
        SumFunctionOnSet(f, S) = SumFunctionOnSet(g, S)
<1> SUFFICES ASSUME NEW f, NEW g, NEW S, IsFiniteSet(S), \A x \in S : f[x] = g[x]
             PROVE  SumFunctionOnSet(f, S) = SumFunctionOnSet(g, S)
  OBVIOUS
<1> DEFINE Good(T) == SumFunctionOnSet(f, T) = SumFunctionOnSet(g, T)
           Bad == {T \in SUBSET S : ~Good(T)}
<1> SUFFICES ASSUME Bad # {} PROVE FALSE OBVIOUS
<1>0. Bad \in SUBSET (SUBSET S) OBVIOUS
<1>00. \A T : T \in Bad <=> T \in SUBSET S /\ ~Good(T) OBVIOUS
<1> HIDE DEF Bad
<1>1. PICK T \in Bad : \A t \in SUBSET T : t # T => t \notin Bad BY <1>0, SmallestSubset
<1>2. T \in SUBSET S /\ ~Good(T) BY <1>1, <1>00
<1>3. T # {} BY <1>2, SumEmpty
<1>4. Pick(T) \in S /\ Rest(T) \in SUBSET T /\ Rest(T) # T BY <1>2, <1>3, RestIn
<1>5. Good(Rest(T))
  <2> HIDE DEF Good
  <2> QED BY <1>1, <1>2, <1>4, <1>00
<1>6. IsFiniteSet(T) BY <1>2, FS_Subset
<1>7. /\ SumFunctionOnSet(f, T) = f[Pick(T)] + SumFunctionOnSet(f, Rest(T))
      /\ SumFunctionOnSet(g, T) = g[Pick(T)] + SumFunctionOnSet(g, Rest(T))
  BY <1>3, <1>6, SumPick
<1> QED BY <1>2, <1>4, <1>5, <1>7

LEMMA SumAdd ==
    \A f, g, h, S :
        /\ IsFiniteSet(S)
        /\ \A x \in S : f[x] \in Int /\ g[x] \in Int /\ h[x] = f[x] + g[x]
        => SumFunctionOnSet(h, S) = SumFunctionOnSet(f, S) + SumFunctionOnSet(g, S)
<1> SUFFICES ASSUME NEW f, NEW g, NEW h, NEW S, IsFiniteSet(S),
                    \A x \in S : f[x] \in Int /\ g[x] \in Int /\ h[x] = f[x] + g[x]
             PROVE  SumFunctionOnSet(h, S) = SumFunctionOnSet(f, S) + SumFunctionOnSet(g, S)
  OBVIOUS
<1> DEFINE Good(T) == SumFunctionOnSet(h, T) = SumFunctionOnSet(f, T) + SumFunctionOnSet(g, T)
           Bad == {T \in SUBSET S : ~Good(T)}
<1> SUFFICES ASSUME Bad # {} PROVE FALSE OBVIOUS
<1>0. Bad \in SUBSET (SUBSET S) OBVIOUS
<1>00. \A T : T \in Bad <=> T \in SUBSET S /\ ~Good(T) OBVIOUS
<1> HIDE DEF Bad
<1>1. PICK T \in Bad : \A t \in SUBSET T : t # T => t \notin Bad BY <1>0, SmallestSubset
<1>2. T \in SUBSET S /\ ~Good(T) BY <1>1, <1>00
<1>3. T # {} BY <1>2, SumEmpty
<1>4. Pick(T) \in S /\ Rest(T) \in SUBSET T /\ Rest(T) # T /\ Rest(T) \in SUBSET S
  BY <1>2, <1>3, RestIn
<1>5. Good(Rest(T))
  <2> HIDE DEF Good
  <2> QED BY <1>1, <1>2, <1>4, <1>00
<1>6. IsFiniteSet(T) /\ IsFiniteSet(Rest(T)) BY <1>2, <1>4, FS_Subset
<1>7. /\ SumFunctionOnSet(f, T) = f[Pick(T)] + SumFunctionOnSet(f, Rest(T))
      /\ SumFunctionOnSet(g, T) = g[Pick(T)] + SumFunctionOnSet(g, Rest(T))
      /\ SumFunctionOnSet(h, T) = h[Pick(T)] + SumFunctionOnSet(h, Rest(T))
  BY <1>3, <1>6, SumPick
<1>8. /\ SumFunctionOnSet(f, Rest(T)) \in Int /\ SumFunctionOnSet(g, Rest(T)) \in Int
      /\ f[Pick(T)] \in Int /\ g[Pick(T)] \in Int /\ h[Pick(T)] = f[Pick(T)] + g[Pick(T)]
  BY <1>4, <1>6, SumInt
<1> QED BY <1>2, <1>5, <1>7, <1>8

LEMMA Distribute == \A c, a, b \in Int : c * (a + b) = c * a + c * b
OBVIOUS

LEMMA SumScale ==
    \A c, f, h, S :
        IsFiniteSet(S) /\ c \in Int /\ (\A x \in S : f[x] \in Int /\ h[x] = c * f[x])
        => SumFunctionOnSet(h, S) = c * SumFunctionOnSet(f, S)
<1> SUFFICES ASSUME NEW c \in Int, NEW f, NEW h, NEW S, IsFiniteSet(S),
                    \A x \in S : f[x] \in Int /\ h[x] = c * f[x]
             PROVE  SumFunctionOnSet(h, S) = c * SumFunctionOnSet(f, S)
  OBVIOUS
<1> DEFINE Good(T) == SumFunctionOnSet(h, T) = c * SumFunctionOnSet(f, T)
           Bad == {T \in SUBSET S : ~Good(T)}
<1> SUFFICES ASSUME Bad # {} PROVE FALSE OBVIOUS
<1>0. Bad \in SUBSET (SUBSET S) OBVIOUS
<1>00. \A T : T \in Bad <=> T \in SUBSET S /\ ~Good(T) OBVIOUS
<1> HIDE DEF Bad
<1>1. PICK T \in Bad : \A t \in SUBSET T : t # T => t \notin Bad BY <1>0, SmallestSubset
<1>2. T \in SUBSET S /\ ~Good(T) BY <1>1, <1>00
<1>3. T # {}
  <2>1. c * 0 = 0 OBVIOUS
  <2> QED BY <1>2, <2>1, SumEmpty
<1>4. Pick(T) \in S /\ Rest(T) \in SUBSET T /\ Rest(T) # T /\ Rest(T) \in SUBSET S
  BY <1>2, <1>3, RestIn
<1>5. Good(Rest(T))
  <2> HIDE DEF Good
  <2> QED BY <1>1, <1>2, <1>4, <1>00
<1>6. IsFiniteSet(T) /\ IsFiniteSet(Rest(T)) BY <1>2, <1>4, FS_Subset
<1>7. /\ SumFunctionOnSet(f, T) = f[Pick(T)] + SumFunctionOnSet(f, Rest(T))
      /\ SumFunctionOnSet(h, T) = h[Pick(T)] + SumFunctionOnSet(h, Rest(T))
  BY <1>3, <1>6, SumPick
<1>8. SumFunctionOnSet(f, Rest(T)) \in Int /\ f[Pick(T)] \in Int /\ h[Pick(T)] = c * f[Pick(T)]
  BY <1>4, <1>6, SumInt
<1>9. c * SumFunctionOnSet(f, T) = c * f[Pick(T)] + c * SumFunctionOnSet(f, Rest(T))
  BY <1>7, <1>8, Distribute
<1> QED BY <1>2, <1>5, <1>7, <1>8, <1>9

LEMMA SumLess ==
    \A f, g, S :
        IsFiniteSet(S) /\ (\A x \in S : f[x] \in Int /\ g[x] \in Int /\ f[x] <= g[x])
        => SumFunctionOnSet(f, S) <= SumFunctionOnSet(g, S)
<1> SUFFICES ASSUME NEW f, NEW g, NEW S, IsFiniteSet(S),
                    \A x \in S : f[x] \in Int /\ g[x] \in Int /\ f[x] <= g[x]
             PROVE  SumFunctionOnSet(f, S) <= SumFunctionOnSet(g, S)
  OBVIOUS
<1> DEFINE Good(T) == SumFunctionOnSet(f, T) <= SumFunctionOnSet(g, T)
           Bad == {T \in SUBSET S : ~Good(T)}
<1> SUFFICES ASSUME Bad # {} PROVE FALSE OBVIOUS
<1>0. Bad \in SUBSET (SUBSET S) OBVIOUS
<1>00. \A T : T \in Bad <=> T \in SUBSET S /\ ~Good(T) OBVIOUS
<1> HIDE DEF Bad
<1>1. PICK T \in Bad : \A t \in SUBSET T : t # T => t \notin Bad BY <1>0, SmallestSubset
<1>2. T \in SUBSET S /\ ~Good(T) BY <1>1, <1>00
<1>3. T # {} BY <1>2, SumEmpty
<1>4. Pick(T) \in S /\ Rest(T) \in SUBSET T /\ Rest(T) # T /\ Rest(T) \in SUBSET S
  BY <1>2, <1>3, RestIn
<1>5. Good(Rest(T))
  <2> HIDE DEF Good
  <2> QED BY <1>1, <1>2, <1>4, <1>00
<1>6. IsFiniteSet(T) /\ IsFiniteSet(Rest(T)) BY <1>2, <1>4, FS_Subset
<1>7. /\ SumFunctionOnSet(f, T) = f[Pick(T)] + SumFunctionOnSet(f, Rest(T))
      /\ SumFunctionOnSet(g, T) = g[Pick(T)] + SumFunctionOnSet(g, Rest(T))
  BY <1>3, <1>6, SumPick
<1>8. /\ SumFunctionOnSet(f, Rest(T)) \in Int /\ SumFunctionOnSet(g, Rest(T)) \in Int
      /\ f[Pick(T)] \in Int /\ g[Pick(T)] \in Int /\ f[Pick(T)] <= g[Pick(T)]
  BY <1>4, <1>6, SumInt
<1> QED BY <1>2, <1>5, <1>7, <1>8

(* Elements that count zero can be left out; a sum of ones counts. *)
LEMMA SumSupport ==
    \A f, S : IsFiniteSet(S) => \A U \in SUBSET S :
        (\A x \in S : f[x] \in Int) /\ (\A x \in S \ U : f[x] = 0) =>
        SumFunctionOnSet(f, S) = SumFunctionOnSet(f, U)
<1> SUFFICES ASSUME NEW f, NEW S, IsFiniteSet(S), NEW U \in SUBSET S,
                    \A x \in S : f[x] \in Int, \A x \in S \ U : f[x] = 0
             PROVE  SumFunctionOnSet(f, S) = SumFunctionOnSet(f, U)
  OBVIOUS
<1> DEFINE Good(T) == U \subseteq T => SumFunctionOnSet(f, T) = SumFunctionOnSet(f, U)
           Bad == {T \in SUBSET S : ~Good(T)}
<1> SUFFICES ASSUME Bad # {} PROVE FALSE OBVIOUS
<1>0. Bad \in SUBSET (SUBSET S) OBVIOUS
<1>00. \A T : T \in Bad <=> T \in SUBSET S /\ ~Good(T) OBVIOUS
<1> HIDE DEF Bad
<1>1. PICK T \in Bad : \A t \in SUBSET T : t # T => t \notin Bad BY <1>0, SmallestSubset
<1>2. T \in SUBSET S /\ ~Good(T) BY <1>1, <1>00
<1>3. PICK x \in T : x \notin U BY <1>2
<1>4. T \ {x} \in SUBSET T /\ T \ {x} # T /\ T \ {x} \in SUBSET S BY <1>2
<1>5. Good(T \ {x})
  <2> HIDE DEF Good
  <2> QED BY <1>1, <1>4, <1>00
<1>6. IsFiniteSet(T) /\ IsFiniteSet(T \ {x}) BY <1>2, <1>4, FS_Subset
<1>7. SumFunctionOnSet(f, T) = f[x] + SumFunctionOnSet(f, T \ {x}) BY <1>2, <1>6, SumRemove
<1>8. f[x] = 0 /\ SumFunctionOnSet(f, T \ {x}) \in Int BY <1>2, <1>3, <1>4, <1>6, SumInt
<1> QED BY <1>2, <1>3, <1>5, <1>7, <1>8

(* A sum of natural numbers is one. *)
LEMMA SumNat ==
    \A f, S : IsFiniteSet(S) /\ (\A x \in S : f[x] \in Nat) => SumFunctionOnSet(f, S) \in Nat
<1> SUFFICES ASSUME NEW f, NEW S, IsFiniteSet(S), \A x \in S : f[x] \in Nat
             PROVE  SumFunctionOnSet(f, S) \in Nat
  OBVIOUS
<1> DEFINE zero == [x \in S |-> 0]
<1>1. \A x \in S : zero[x] \in Int /\ f[x] \in Int /\ zero[x] <= f[x] /\ zero[x] = 0 OBVIOUS
<1> HIDE DEF zero
<1>2. SumFunctionOnSet(zero, S) <= SumFunctionOnSet(f, S) BY <1>1, SumLess
<1>3. {} \in SUBSET S OBVIOUS
<1>4. SumFunctionOnSet(zero, S) = 0 BY <1>1, <1>3, SumSupport, SumEmpty
<1>5. SumFunctionOnSet(f, S) \in Int BY <1>1, SumInt
<1> QED BY <1>2, <1>4, <1>5

LEMMA SumOnes ==
    \A f, S : IsFiniteSet(S) /\ (\A x \in S : f[x] = 1) => SumFunctionOnSet(f, S) = Cardinality(S)
<1> SUFFICES ASSUME NEW f, NEW S, IsFiniteSet(S), \A x \in S : f[x] = 1
             PROVE  SumFunctionOnSet(f, S) = Cardinality(S)
  OBVIOUS
<1> DEFINE Good(T) == SumFunctionOnSet(f, T) = Cardinality(T)
           Bad == {T \in SUBSET S : ~Good(T)}
<1> SUFFICES ASSUME Bad # {} PROVE FALSE OBVIOUS
<1>0. Bad \in SUBSET (SUBSET S) OBVIOUS
<1>00. \A T : T \in Bad <=> T \in SUBSET S /\ ~Good(T) OBVIOUS
<1> HIDE DEF Bad
<1>1. PICK T \in Bad : \A t \in SUBSET T : t # T => t \notin Bad BY <1>0, SmallestSubset
<1>2. T \in SUBSET S /\ ~Good(T) BY <1>1, <1>00
<1>3. T # {} BY <1>2, SumEmpty, FS_EmptySet
<1>4. Pick(T) \in T /\ Rest(T) \in SUBSET T /\ Rest(T) # T /\ Rest(T) \in SUBSET S
  BY <1>2, <1>3, RestIn
<1>5. Good(Rest(T))
  <2> HIDE DEF Good
  <2> QED BY <1>1, <1>2, <1>4, <1>00
<1>6. IsFiniteSet(T) /\ IsFiniteSet(Rest(T)) BY <1>2, <1>4, FS_Subset
<1>7. SumFunctionOnSet(f, T) = f[Pick(T)] + SumFunctionOnSet(f, Rest(T)) BY <1>3, <1>6, SumPick
<1>8. f[Pick(T)] = 1 BY <1>2, <1>4
<1>9. Cardinality(Rest(T)) = Cardinality(T) - 1 /\ Cardinality(T) \in Nat
  BY <1>4, <1>6, FS_RemoveElement, FS_CardinalityType DEF Rest
<1> QED BY <1>2, <1>5, <1>7, <1>8, <1>9
\* The sum moves by what one element moves.
LEMMA SumMoves ==
    \A f, g, S, x :
        /\ IsFiniteSet(S) /\ x \in S
        /\ \A y \in S : f[y] \in Int /\ g[y] \in Int /\ (y # x => g[y] = f[y])
        => SumFunctionOnSet(g, S) = SumFunctionOnSet(f, S) - f[x] + g[x]
<1> SUFFICES ASSUME NEW f, NEW g, NEW S, IsFiniteSet(S), NEW x \in S,
                    \A y \in S : f[y] \in Int /\ g[y] \in Int /\ (y # x => g[y] = f[y])
             PROVE  SumFunctionOnSet(g, S) = SumFunctionOnSet(f, S) - f[x] + g[x]
  OBVIOUS
<1> DEFINE T == S \ {x}
<1>1. IsFiniteSet(T) BY FS_Subset
<1>2. SumFunctionOnSet(f, S) = f[x] + SumFunctionOnSet(f, T)
      /\ SumFunctionOnSet(g, S) = g[x] + SumFunctionOnSet(g, T)
  BY SumRemove
<1>3. SumFunctionOnSet(g, T) = SumFunctionOnSet(f, T) BY <1>1, SumSame
<1>4. SumFunctionOnSet(f, T) \in Int BY <1>1, SumInt
<1> QED BY <1>2, <1>3, <1>4

\* One element of a family moves, from p to q.
Shifts(f, g, S, x, p, q) ==
    /\ x \in S /\ f[x] = p /\ g[x] = q
    /\ \A y \in S : f[y] \in Int /\ g[y] \in Int /\ (y # x => g[y] = f[y])

LEMMA SumShift ==
    \A f, g, S, x, p, q : IsFiniteSet(S) /\ Shifts(f, g, S, x, p, q) =>
        /\ SumFunctionOnSet(f, S) \in Int
        /\ SumFunctionOnSet(g, S) = (SumFunctionOnSet(f, S) - p) + q
<1> SUFFICES ASSUME NEW f, NEW g, NEW S, IsFiniteSet(S), NEW x \in S,
                    \A y \in S : f[y] \in Int /\ g[y] \in Int /\ (y # x => g[y] = f[y])
             PROVE  /\ SumFunctionOnSet(f, S) \in Int
                    /\ SumFunctionOnSet(g, S) = (SumFunctionOnSet(f, S) - f[x]) + g[x]
  BY DEF Shifts
<1>1. SumFunctionOnSet(g, S) = SumFunctionOnSet(f, S) - f[x] + g[x] BY SumMoves
<1>2. SumFunctionOnSet(f, S) \in Int BY SumInt
<1> QED BY <1>1, <1>2

LEMMA SumConstant ==
    \A c, f, S : IsFiniteSet(S) /\ c \in Int /\ (\A x \in S : f[x] = c) =>
        SumFunctionOnSet(f, S) = c * Cardinality(S)
<1> SUFFICES ASSUME NEW c \in Int, NEW f, NEW S, IsFiniteSet(S), \A x \in S : f[x] = c
             PROVE  SumFunctionOnSet(f, S) = c * Cardinality(S)
  OBVIOUS
<1> DEFINE ones == [x \in S |-> 1]
<1>1. \A x \in S : ones[x] = 1 OBVIOUS
<1> HIDE DEF ones
<1>2. \A x \in S : ones[x] \in Int /\ f[x] = c * ones[x] BY <1>1
<1>3. SumFunctionOnSet(f, S) = c * SumFunctionOnSet(ones, S) BY <1>2, SumScale
<1> QED BY <1>1, <1>3, SumOnes

\* A finite set of integers has a greatest element.
LEMMA Greatest ==
    \A S : IsFiniteSet(S) /\ S # {} /\ S \subseteq Int => \E x \in S : \A y \in S : y <= x
<1> SUFFICES ASSUME NEW S, IsFiniteSet(S), S # {}, S \subseteq Int, ~\E x \in S : \A y \in S : y <= x
             PROVE  FALSE
  OBVIOUS
<1> DEFINE Bad == {T \in SUBSET S : T # {} /\ ~\E x \in T : \A y \in T : y <= x}
<1>0. Bad # {} /\ Bad \in SUBSET (SUBSET S) OBVIOUS
<1>00. \A T : T \in Bad <=> T \in SUBSET S /\ T # {} /\ ~\E x \in T : \A y \in T : y <= x OBVIOUS
<1> HIDE DEF Bad
<1>1. PICK T \in Bad : \A t \in SUBSET T : t # T => t \notin Bad BY <1>0, SmallestSubset
<1>2. PICK a \in T : TRUE BY <1>1, <1>00
<1>3. T \subseteq Int /\ a \in Int BY <1>1, <1>2, <1>00
<1> DEFINE U == T \ {a}
<1>4. U # {} BY <1>1, <1>2, <1>3, <1>00
<1>5. U \in SUBSET T /\ U # T /\ U \in SUBSET S BY <1>1, <1>2, <1>00
<1>u. \A y \in T : y = a \/ y \in U OBVIOUS
<1> HIDE DEF U
<1>e. U \notin Bad BY <1>1, <1>5
<1>6. PICK b \in U : \A y \in U : y <= b BY <1>e, <1>4, <1>5, <1>00
<1>7. CASE a <= b
  <2>1. \A y \in T : y <= b BY <1>3, <1>6, <1>7, <1>u
  <2> QED BY <2>1, <1>1, <1>5, <1>6, <1>00
<1>8. CASE ~(a <= b)
  <2>1. \A y \in T : y <= a BY <1>3, <1>5, <1>6, <1>8, <1>u
  <2> QED BY <2>1, <1>1, <1>2, <1>00
<1> QED BY <1>7, <1>8

=============================================================================
