------------------------------- MODULE SumLemmas -------------------------------
(***************************************************************************)
(* Sums over the entries of a table, as SumFunction computes them: pick an *)
(* entry, add the rest.  What is said of a finite set is shown for one     *)
(* that includes no other counterexample (Smallest): the finite sets are   *)
(* well founded under strict inclusion.                                    *)
(***************************************************************************)
EXTENDS Integers, Functions, FiniteSetTheorems, WellFoundedInduction, TLAPS

LEMMA Smallest ==
  ASSUME NEW S, IsFiniteSet(S), NEW B \in SUBSET SUBSET S, B # {}
  PROVE  \E s \in B : \A t \in B : t \subseteq s => t = s
<1>1. IsWellFoundedOn(StrictSubsetOrdering(S), SUBSET S)
  BY FS_StrictSubsetOrderingWellFounded, FS_FiniteSubsetsOfFinite
<1>2. PICK s \in B : \A t \in B : <<t, s>> \notin StrictSubsetOrdering(S)
  BY <1>1, WFMin, Zenon
<1>3. ASSUME NEW t \in B, t \subseteq s, t # s PROVE FALSE
  <2>1. <<t, s>> \in (SUBSET S) \X (SUBSET S)
    OBVIOUS
  <2>2. <<t, s>> \in StrictSubsetOrdering(S)
    BY <1>3, <2>1 DEF StrictSubsetOrdering
  <2> QED
    BY <1>2, <2>2
<1> QED
  BY <1>3

-----------------------------------------------------------------------------
(***************************************************************************)
(* The recursive function behind a sum, and that there is at most one.     *)
(***************************************************************************)
Picked(s) == CHOOSE x \in s : TRUE

Partial(f, S, g) ==
  g = [s \in SUBSET S |-> IF s = {} THEN 0 ELSE f[Picked(s)] + g[s \ {Picked(s)}]]

LEMMA PickedIn == ASSUME NEW s, s # {} PROVE Picked(s) \in s
BY DEF Picked

LEMMA SumIsPartial ==
  ASSUME NEW f, NEW S
  PROVE  SumFunctionOnSet(f, S) = (CHOOSE g : Partial(f, S, g))[S]
BY DEF SumFunctionOnSet, FoldFunctionOnSet, MapThenFoldSet, Partial, Picked

LEMMA PartialAt ==
  ASSUME NEW f, NEW S, NEW g, Partial(f, S, g), NEW s \in SUBSET S
  PROVE  /\ s = {} => g[s] = 0
         /\ s # {} => g[s] = f[Picked(s)] + g[s \ {Picked(s)}]
BY DEF Partial

LEMMA PartialUnique ==
  ASSUME NEW f, NEW S, IsFiniteSet(S),
         NEW T \in SUBSET S, NEW g, Partial(f, S, g), NEW h, Partial(f, T, h)
  PROVE  \A s \in SUBSET T : g[s] = h[s]
<1> DEFINE B == {s \in SUBSET T : g[s] # h[s]}
<1>1. SUFFICES ASSUME B # {} PROVE FALSE
  OBVIOUS
<1>2. PICK s \in B : \A t \in B : t \subseteq s => t = s
  <2>1. B \in SUBSET SUBSET S
    OBVIOUS
  <2> HIDE DEF B
  <2> QED
    BY <1>1, <2>1, Smallest
<1>3. /\ s \in SUBSET T /\ s \in SUBSET S
      /\ g[s] # h[s]
  OBVIOUS
<1>4. s # {}
  BY <1>3, PartialAt
<1> DEFINE t == s \ {Picked(s)}
<1>5. t \in SUBSET T /\ t \subseteq s /\ t # s
  BY <1>3, <1>4, PickedIn
<1>6. g[t] = h[t]
  BY <1>2, <1>5
<1> HIDE DEF B, t
<1>7. g[s] = f[Picked(s)] + g[t]
  BY <1>3, <1>4, PartialAt DEF t
<1>8. h[s] = f[Picked(s)] + h[t]
  BY <1>3, <1>4, PartialAt DEF t
<1> QED
  BY <1>3, <1>6, <1>7, <1>8

-----------------------------------------------------------------------------
(***************************************************************************)
(* A sum is that of the entry picked and of the rest.                      *)
(***************************************************************************)
SumStep(f, s) ==
  SumFunctionOnSet(f, s) =
    IF s = {} THEN 0 ELSE f[Picked(s)] + SumFunctionOnSet(f, s \ {Picked(s)})

LEMMA SumStepFrom ==
  ASSUME NEW f, NEW S, IsFiniteSet(S), \A t \in SUBSET S : t # S => SumStep(f, t)
  PROVE  SumStep(f, S)
<1> DEFINE g == [s \in SUBSET S |-> IF s = {} THEN 0
                   ELSE f[Picked(s)] + SumFunctionOnSet(f, s \ {Picked(s)})]
<1>1. \A s \in SUBSET S : s # S => g[s] = SumFunctionOnSet(f, s)
  BY DEF SumStep
<1>2. Partial(f, S, g)
  <2>1. ASSUME NEW s \in SUBSET S, s # {}
        PROVE  g[s \ {Picked(s)}] = SumFunctionOnSet(f, s \ {Picked(s)})
    <3>1. s \ {Picked(s)} \in SUBSET S /\ s \ {Picked(s)} # S
      BY <2>1, PickedIn
    <3> QED
      BY <1>1, <3>1
  <2>2. g = [s \in SUBSET S |-> IF s = {} THEN 0 ELSE f[Picked(s)] + g[s \ {Picked(s)}]]
    BY <2>1
  <2> QED
    BY <2>2 DEF Partial
<1> HIDE DEF g
<1> DEFINE h == CHOOSE k : Partial(f, S, k)
<1>3. Partial(f, S, h)
  BY <1>2
<1>4. SumFunctionOnSet(f, S) = h[S]
  BY SumIsPartial
<1> HIDE DEF h
<1>5. h[S] = g[S]
  BY <1>2, <1>3, PartialUnique
<1> QED
  BY <1>4, <1>5 DEF SumStep, g

LEMMA SumStepAll ==
  ASSUME NEW f, NEW S, IsFiniteSet(S)
  PROVE  SumStep(f, S)
<1> DEFINE B == {s \in SUBSET S : ~SumStep(f, s)}
<1>1. SUFFICES ASSUME B # {} PROVE FALSE
  OBVIOUS
<1>2. PICK s \in B : \A t \in B : t \subseteq s => t = s
  <2>1. B \in SUBSET SUBSET S
    OBVIOUS
  <2> HIDE DEF B
  <2> QED
    BY <1>1, <2>1, Smallest
<1>3. s \in SUBSET S /\ ~SumStep(f, s)
  OBVIOUS
<1>4. \A t \in SUBSET s : t # s => SumStep(f, t)
  BY <1>2, <1>3
<1>5. IsFiniteSet(s)
  BY <1>3, FS_Subset
<1> QED
  BY <1>3, <1>4, <1>5, SumStepFrom

LEMMA SumPicked ==
  ASSUME NEW f, NEW S, IsFiniteSet(S)
  PROVE  /\ S = {} => SumFunctionOnSet(f, S) = 0
         /\ S # {} => SumFunctionOnSet(f, S)
                        = f[Picked(S)] + SumFunctionOnSet(f, S \ {Picked(S)})
BY SumStepAll DEF SumStep

(***************************************************************************)
(* Sums of integers are integers.                                          *)
(***************************************************************************)
LEMMA SumInt ==
  ASSUME NEW f, NEW S, IsFiniteSet(S), \A x \in S : f[x] \in Int
  PROVE  SumFunctionOnSet(f, S) \in Int
<1> DEFINE B == {s \in SUBSET S : SumFunctionOnSet(f, s) \notin Int}
<1>1. SUFFICES ASSUME B # {} PROVE FALSE
  OBVIOUS
<1>2. PICK s \in B : \A t \in B : t \subseteq s => t = s
  <2>1. B \in SUBSET SUBSET S
    OBVIOUS
  <2> HIDE DEF B
  <2> QED
    BY <1>1, <2>1, Smallest
<1>3. s \in SUBSET S /\ SumFunctionOnSet(f, s) \notin Int /\ IsFiniteSet(s)
  BY FS_Subset
<1>4. s # {}
  <2>1. s = {} => SumFunctionOnSet(f, s) = 0
    BY <1>3, SumPicked
  <2> QED
    BY <1>3, <2>1
<1> DEFINE t == s \ {Picked(s)}
<1>5. t \in SUBSET S /\ t \subseteq s /\ t # s
  BY <1>3, <1>4, PickedIn
<1>6. SumFunctionOnSet(f, t) \in Int
  BY <1>2, <1>5
<1>7. f[Picked(s)] \in Int
  BY <1>3, <1>4, PickedIn
<1> HIDE DEF t, B
<1>8. SumFunctionOnSet(f, s) = f[Picked(s)] + SumFunctionOnSet(f, t)
  BY <1>3, <1>4, SumPicked DEF t
<1> QED
  BY <1>3, <1>6, <1>7, <1>8

(***************************************************************************)
(* Any entry can be taken out first: the order of picking is immaterial.   *)
(***************************************************************************)
SumSplits(f, s) ==
  \A x \in s : SumFunctionOnSet(f, s) = f[x] + SumFunctionOnSet(f, s \ {x})

LEMMA SumSplitFrom ==
  ASSUME NEW f, NEW S, IsFiniteSet(S), \A x \in S : f[x] \in Int,
         \A t \in SUBSET S : t # S => SumSplits(f, t)
  PROVE  SumSplits(f, S)
<1> SUFFICES ASSUME NEW x \in S, x # Picked(S)
             PROVE  SumFunctionOnSet(f, S) = f[x] + SumFunctionOnSet(f, S \ {x})
  BY SumPicked DEF SumSplits
<1> DEFINE p == Picked(S)
           rest == (S \ {p}) \ {x}
<1>1. p \in S
  BY PickedIn
<1>2. SumFunctionOnSet(f, S) = f[p] + SumFunctionOnSet(f, S \ {p})
  BY SumPicked
<1>3. SumFunctionOnSet(f, S \ {p}) = f[x] + SumFunctionOnSet(f, rest)
  <2>1. S \ {p} \in SUBSET S /\ S \ {p} # S /\ x \in S \ {p}
    BY <1>1
  <2> QED
    BY <2>1 DEF SumSplits
<1>4. SumFunctionOnSet(f, S \ {x}) = f[p] + SumFunctionOnSet(f, rest)
  <2>1. S \ {x} \in SUBSET S /\ S \ {x} # S /\ p \in S \ {x}
    BY <1>1
  <2>2. (S \ {x}) \ {p} = rest
    OBVIOUS
  <2> HIDE DEF rest
  <2> QED
    BY <2>1, <2>2 DEF SumSplits
<1>5. SumFunctionOnSet(f, rest) \in Int
  <2>1. IsFiniteSet(rest)
    BY FS_Subset
  <2> QED
    BY <2>1, SumInt
<1> HIDE DEF p, rest
<1> QED
  BY <1>1, <1>2, <1>3, <1>4, <1>5

LEMMA SumSplit ==
  ASSUME NEW f, NEW S, IsFiniteSet(S), \A x \in S : f[x] \in Int, NEW x \in S
  PROVE  SumFunctionOnSet(f, S) = f[x] + SumFunctionOnSet(f, S \ {x})
<1> DEFINE B == {s \in SUBSET S : ~SumSplits(f, s)}
<1>1. SUFFICES ASSUME B # {} PROVE FALSE
  BY DEF SumSplits
<1>2. PICK s \in B : \A t \in B : t \subseteq s => t = s
  <2>1. B \in SUBSET SUBSET S
    OBVIOUS
  <2> HIDE DEF B
  <2> QED
    BY <1>1, <2>1, Smallest
<1>3. s \in SUBSET S /\ ~SumSplits(f, s) /\ IsFiniteSet(s)
  BY FS_Subset
<1>4. \A t \in SUBSET s : t # s => SumSplits(f, t)
  BY <1>2, <1>3
<1> QED
  BY <1>3, <1>4, SumSplitFrom

-----------------------------------------------------------------------------
(***************************************************************************)
(* Tables that agree have the same sum.                                    *)
(***************************************************************************)
LEMMA SumSame ==
  ASSUME NEW f, NEW g, NEW S, IsFiniteSet(S), \A x \in S : f[x] = g[x]
  PROVE  SumFunctionOnSet(f, S) = SumFunctionOnSet(g, S)
<1> DEFINE B == {s \in SUBSET S : SumFunctionOnSet(f, s) # SumFunctionOnSet(g, s)}
<1>1. SUFFICES ASSUME B # {} PROVE FALSE
  OBVIOUS
<1>2. PICK s \in B : \A t \in B : t \subseteq s => t = s
  <2>1. B \in SUBSET SUBSET S
    OBVIOUS
  <2> HIDE DEF B
  <2> QED
    BY <1>1, <2>1, Smallest
<1>3. /\ s \in SUBSET S /\ IsFiniteSet(s)
      /\ SumFunctionOnSet(f, s) # SumFunctionOnSet(g, s)
  BY FS_Subset
<1>4. s # {}
  BY <1>3, SumPicked
<1> DEFINE t == s \ {Picked(s)}
<1>5. t \in SUBSET S /\ t \subseteq s /\ t # s /\ f[Picked(s)] = g[Picked(s)]
  BY <1>3, <1>4, PickedIn
<1>6. SumFunctionOnSet(f, t) = SumFunctionOnSet(g, t)
  BY <1>2, <1>5
<1> HIDE DEF t, B
<1>7. SumFunctionOnSet(f, s) = f[Picked(s)] + SumFunctionOnSet(f, t)
  BY <1>3, <1>4, SumPicked DEF t
<1>8. SumFunctionOnSet(g, s) = g[Picked(s)] + SumFunctionOnSet(g, t)
  BY <1>3, <1>4, SumPicked DEF t
<1> QED
  BY <1>3, <1>5, <1>6, <1>7, <1>8

(***************************************************************************)
(* A table that differs in one entry.                                      *)
(***************************************************************************)
LEMMA SumChange ==
  ASSUME NEW f, NEW g, NEW S, IsFiniteSet(S), NEW x \in S,
         \A y \in S : f[y] \in Int /\ g[y] \in Int,
         \A y \in S \ {x} : f[y] = g[y]
  PROVE  SumFunctionOnSet(g, S) = SumFunctionOnSet(f, S) - f[x] + g[x]
<1> DEFINE a == SumFunctionOnSet(f, S \ {x})
           b == SumFunctionOnSet(g, S \ {x})
<1>1. IsFiniteSet(S \ {x})
  BY FS_RemoveElement
<1>2. a \in Int /\ a = b
  BY <1>1, SumInt, SumSame
<1>3. SumFunctionOnSet(f, S) = f[x] + a
  BY SumSplit
<1>4. SumFunctionOnSet(g, S) = g[x] + b
  BY SumSplit
<1> HIDE DEF a, b
<1> QED
  BY <1>2, <1>3, <1>4

(***************************************************************************)
(* Nothing sums to zero, and a sum of amounts is at least each of them.    *)
(***************************************************************************)
LEMMA SumZero ==
  ASSUME NEW f, NEW S, IsFiniteSet(S), \A x \in S : f[x] = 0
  PROVE  SumFunctionOnSet(f, S) = 0
<1> DEFINE B == {s \in SUBSET S : SumFunctionOnSet(f, s) # 0}
<1>1. SUFFICES ASSUME B # {} PROVE FALSE
  OBVIOUS
<1>2. PICK s \in B : \A t \in B : t \subseteq s => t = s
  <2>1. B \in SUBSET SUBSET S
    OBVIOUS
  <2> HIDE DEF B
  <2> QED
    BY <1>1, <2>1, Smallest
<1>3. s \in SUBSET S /\ IsFiniteSet(s) /\ SumFunctionOnSet(f, s) # 0
  BY FS_Subset
<1>4. s # {}
  BY <1>3, SumPicked
<1> DEFINE t == s \ {Picked(s)}
<1>5. t \in SUBSET S /\ t \subseteq s /\ t # s /\ f[Picked(s)] = 0
  BY <1>3, <1>4, PickedIn
<1>6. SumFunctionOnSet(f, t) = 0
  BY <1>2, <1>5
<1> HIDE DEF t, B
<1>7. SumFunctionOnSet(f, s) = f[Picked(s)] + SumFunctionOnSet(f, t)
  BY <1>3, <1>4, SumPicked DEF t
<1> QED
  BY <1>3, <1>5, <1>6, <1>7

(***************************************************************************)
(* The same, for a whole table: what the specifications total.             *)
(***************************************************************************)
LEMMA TotalInt ==
  ASSUME NEW S, IsFiniteSet(S), NEW f \in [S -> Int]
  PROVE  SumFunction(f) \in Int
<1>1. SumFunction(f) = SumFunctionOnSet(f, S)
  BY DEF SumFunction
<1> QED
  BY <1>1, SumInt

LEMMA TotalChange ==
  ASSUME NEW S, IsFiniteSet(S), NEW f \in [S -> Int], NEW g \in [S -> Int], NEW x \in S,
         \A y \in S \ {x} : f[y] = g[y]
  PROVE  SumFunction(g) = SumFunction(f) - f[x] + g[x]
<1>1. SumFunction(f) = SumFunctionOnSet(f, S) /\ SumFunction(g) = SumFunctionOnSet(g, S)
  BY DEF SumFunction
<1> QED
  BY <1>1, SumChange

LEMMA TotalZero ==
  ASSUME NEW S, IsFiniteSet(S), NEW f \in [S -> Int], \A x \in S : f[x] = 0
  PROVE  SumFunction(f) = 0
<1>1. SumFunction(f) = SumFunctionOnSet(f, S)
  BY DEF SumFunction
<1> QED
  BY <1>1, SumZero

=============================================================================
