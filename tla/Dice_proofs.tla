----------------------------- MODULE Dice_proofs -----------------------------
(***************************************************************************)
(* Theorems about the dice engine, for expressions nested to any depth,    *)
(* for ints of any width and any limit on the dice of a roll: the parser   *)
(* reads what is typed, the total is what it means, and the explanations,  *)
(* read by the same grammar, give the total.                               *)
(*                                                                         *)
(* The recursive definitions are functions.  Each is shown to satisfy its  *)
(* equation (the lemmas named ...Def) by induction over how deep its       *)
(* argument is nested, which rests on the least number of a set; what      *)
(* holds of a tree when it holds of its parts then holds of every tree     *)
(* (TreeInduction).                                                        *)
(***************************************************************************)
EXTENDS DiceExpression, FiniteSetTheorems, TLAPS

(* Every set of natural numbers that has a number has a least one.         *)
LEMMA LeastNumber ==
    ASSUME NEW S \in SUBSET Nat, S # {}
    PROVE \E m \in S : \A k \in S : m <= k
<1> DEFINE T == {0..m : m \in S}
<1>1. T \subseteq FiniteSubsetsOf(Nat) /\ T # {}
  <2>1. \A m \in S : 0..m \subseteq Nat /\ IsFiniteSet(0..m)
    BY FS_Interval
  <2> QED BY <2>1 DEF FiniteSubsetsOf
<1>2. PICK x \in T : \A y \in T : ~(<<y, x>> \in StrictSubsetOrdering(Nat))
  <2>1. IsWellFoundedOn(StrictSubsetOrdering(Nat), FiniteSubsetsOf(Nat))
    BY FS_StrictSubsetOrderingWellFounded
  <2> HIDE DEF T
  <2> QED BY <1>1, <2>1, WFMin
<1>3. PICK m \in S : x = 0..m
  BY DEF T
<1>4. ASSUME NEW k \in S, k < m PROVE FALSE
  <2>1. 0..k \in T
    BY DEF T
  <2>2. 0..k \subseteq 0..m /\ 0..k \subseteq Nat /\ 0..m \subseteq Nat
    BY <1>4
  <2>3. m \in 0..m /\ m \notin 0..k
    BY <1>4
  <2>4. <<0..k, 0..m>> \in StrictSubsetOrdering(Nat)
    BY <2>2, <2>3 DEF StrictSubsetOrdering
  <2> QED BY <1>2, <1>3, <2>1, <2>4
<1> QED BY <1>4

(* A set of numbers that has 0, and the successor of each of its numbers   *)
(* below n, has every number up to n.                                      *)
LEMMA Induction ==
    ASSUME NEW n \in Nat, NEW S, 0 \in S, \A k \in 0..(n - 1) : k \in S => k + 1 \in S
    PROVE 0..n \subseteq S
<1> SUFFICES ASSUME (0..n) \ S # {} PROVE FALSE
  OBVIOUS
<1> DEFINE T == (0..n) \ S
<1>0. T \in SUBSET Nat /\ T # {}
  OBVIOUS
<1> HIDE DEF T
<1>1. PICK m \in T : \A k \in T : m <= k
  BY <1>0, LeastNumber
<1> USE DEF T
<1>2. m # 0 /\ m - 1 \in 0..(n - 1) /\ (m - 1) + 1 = m
  OBVIOUS
<1>3. m - 1 \in S
  BY <1>1, <1>2
<1> QED BY <1>2, <1>3

(* Recursive definitions are functions.                                    *)
NestedBody(f, n) == IF n = 0 THEN Leaves ELSE Deeper(f[n - 1])

LEMMA NestedDef == Nested = [n \in 0..MaxDepth |-> NestedBody(Nested, n)]
<1> DEFINE Good(N) == \E f : f = [n \in 0..N |-> NestedBody(f, n)]
           S == {N \in Nat : Good(N)}
<1>1. 0 \in S
  <2> DEFINE f == [n \in 0..0 |-> Leaves]
  <2>1. f = [n \in 0..0 |-> NestedBody(f, n)]
    BY DEF NestedBody
  <2> QED BY <2>1
<1>2. ASSUME NEW N \in 0..(MaxDepth - 1), N \in S PROVE N + 1 \in S
  <2>0. N \in Nat /\ N + 1 \in Nat
    BY GrammarAssumption
  <2>1. PICK f : f = [n \in 0..N |-> NestedBody(f, n)]
    BY <1>2
  <2> DEFINE g == [n \in 0..(N + 1) |-> NestedBody(f, n)]
  <2>2. \A n \in 0..N : f[n] = g[n]
    BY <2>0, <2>1
  <2>3. \A n \in 0..(N + 1) : n # 0 => n - 1 \in 0..N
    BY <2>0
  <2>4. \A n \in 0..(N + 1) : NestedBody(f, n) = NestedBody(g, n)
    BY <2>2, <2>3 DEF NestedBody
  <2>5. g = [n \in 0..(N + 1) |-> NestedBody(g, n)]
    BY <2>4
  <2> QED BY <2>0, <2>5
<1>3. Good(MaxDepth)
  <2> HIDE DEF Good
  <2>1. MaxDepth \in 0..MaxDepth /\ MaxDepth \in Nat
    BY GrammarAssumption
  <2>2. \A k \in 0..(MaxDepth - 1) : k \in S => k + 1 \in S
    BY <1>2
  <2> HIDE DEF S
  <2>3. 0..MaxDepth \subseteq S
    BY <1>1, <2>1, <2>2, Induction
  <2> QED BY <2>1, <2>3 DEF S
<1> QED BY <1>3 DEF Nested, NestedBody

(* What a recursive definition says of its function: what is nested at     *)
(* most n deep.                                                            *)
LEMMA NestedAt ==
    /\ Nested[0] = Leaves
    /\ \A n \in 0..MaxDepth : n + 1 \in 0..MaxDepth => Nested[n + 1] = Deeper(Nested[n])
<1>1. \A n \in 0..MaxDepth : Nested[n] = NestedBody(Nested, n)
  BY NestedDef
<1>2. 0 \in 0..MaxDepth
  BY GrammarAssumption
<1>3. \A n \in 0..MaxDepth : n + 1 # 0 /\ (n + 1) - 1 = n
  OBVIOUS
<1> QED BY <1>1, <1>2, <1>3 DEF NestedBody

(* A tree is a number, or an operator on trees that are less deep.         *)
LEMMA PartsOf ==
    ASSUME NEW T, NEW t \in Deeper(T)
    PROVE \/ t.kind = "number" /\ t = MakeNumber(t.value) /\ t.value \in Nat
          \/ t.kind = "minus" /\ t = MakeUnaryMinus(t.left) /\ t.left \in T
          \/ t.kind = "roll" /\ t = MakeDiceRoll(t.left, t.right) /\ t.left \in T /\ t.right \in T
          \/ /\ t.kind = "binary" /\ t = MakeBinaryOp(t.op, t.left, t.right) /\ t.op \in Op
             /\ t.left \in T /\ t.right \in T
BY DEF Deeper, Leaves, Negated, Rolls, Operations,
       MakeNumber, MakeUnaryMinus, MakeDiceRoll, MakeBinaryOp

(* Trees that are nested one deeper.                                       *)
LEMMA LeavesAre == \A t \in Leaves : t.kind = "number" /\ t = MakeNumber(t.value) /\ t.value \in Nat
BY DEF Leaves, MakeNumber

LEMMA DeeperGrows == ASSUME NEW T, NEW U, T \subseteq U PROVE Deeper(T) \subseteq Deeper(U)
<1>1. Negated(T) \subseteq Negated(U)
  BY DEF Negated
<1>2. Rolls(T, T) \subseteq Rolls(U, U)
  BY DEF Rolls
<1>3. Operations(T, T) \subseteq Operations(U, U)
  BY DEF Operations
<1> QED BY <1>1, <1>2, <1>3 DEF Deeper

LEMMA NestedGrows ==
    \A n \in 0..MaxDepth : n + 1 \in 0..MaxDepth => Nested[n] \subseteq Nested[n + 1]
<1> DEFINE S == {n \in 0..MaxDepth : n + 1 \in 0..MaxDepth => Nested[n] \subseteq Nested[n + 1]}
<1>1. MaxDepth \in Nat /\ 0 \in 0..MaxDepth
  BY GrammarAssumption
<1>2. 0 \in S
  BY <1>1, NestedAt DEF Deeper
<1>3. ASSUME NEW n \in 0..(MaxDepth - 1), n \in S PROVE n + 1 \in S
  <2>1. n \in 0..MaxDepth /\ n + 1 \in 0..MaxDepth
    BY <1>1
  <2>2. ASSUME (n + 1) + 1 \in 0..MaxDepth PROVE Nested[n + 1] \subseteq Nested[(n + 1) + 1]
    <3>1. Nested[n] \subseteq Nested[n + 1]
      BY <1>3, <2>1
    <3>2. Nested[n + 1] = Deeper(Nested[n])
      BY <2>1, NestedAt
    <3>3. Nested[(n + 1) + 1] = Deeper(Nested[n + 1])
      BY <2>1, <2>2, NestedAt
    <3> QED BY <3>1, <3>2, <3>3, DeeperGrows
  <2> QED BY <2>1, <2>2
<1>4. 0..MaxDepth \subseteq S
  <2> HIDE DEF S
  <2> QED BY <1>1, <1>2, <1>3, Induction
<1> QED BY <1>4

TypedBody(f, t) ==
    IF t.kind = "number" THEN Num(t.value)
    ELSE IF t.kind = "minus" THEN Tok("-") \o Within(t.left, f[t.left], 3)
    ELSE IF t.kind = "roll"
    THEN    Within(t.left, f[t.left], 4) \o Tok("d") \o
            (IF t.right.kind = "minus"
             THEN Tok("-") \o Within(t.right.left, f[t.right.left], 5)
             ELSE Within(t.right, f[t.right], 5))
    ELSE    Within(t.left, f[t.left], Level(t)) \o Tok(t.op) \o
            Within(t.right, f[t.right], Level(t) + 1)

(* What the parts of a tree are, by how deep it is nested.                 *)
Parts(t) == (IF t.kind = "number" THEN {} ELSE {t.left})
            \cup (IF t.kind \in {"roll", "binary"} THEN {t.right} ELSE {})

(* A tree is nested one deeper than its parts, which are trees, and has    *)
(* one of four kinds.                                                      *)
LEMMA PartsLessDeep ==
    /\ \A t \in Nested[0] : t.kind = "number" /\ t = MakeNumber(t.value) /\ t.value \in Nat
    /\ \A n \in 0..MaxDepth : n + 1 \in 0..MaxDepth =>
          \A t \in Nested[n + 1] : Parts(t) \subseteq Nested[n]
<1>1. \A T : \A t \in Deeper(T) : Parts(t) \subseteq T
  BY PartsOf DEF Parts
<1> QED BY <1>1, NestedAt, LeavesAre

LEMMA PartsWithin ==
    \A n \in 0..MaxDepth : \A t \in Nested[n] : Parts(t) \subseteq Nested[n]
<1> SUFFICES ASSUME NEW n \in 0..MaxDepth, NEW t \in Nested[n] PROVE Parts(t) \subseteq Nested[n]
  OBVIOUS
<1>1. CASE n = 0
  BY <1>1, PartsLessDeep DEF Parts
<1>2. CASE n # 0
  <2>1. n - 1 \in 0..MaxDepth /\ (n - 1) + 1 = n
    BY <1>2, GrammarAssumption
  <2> QED BY <2>1, PartsLessDeep, NestedGrows
<1> QED BY <1>1, <1>2

LEMMA KindsOf ==
    ASSUME NEW n \in 0..MaxDepth, NEW t \in Nested[n]
    PROVE \/ t.kind = "number" /\ t = MakeNumber(t.value) /\ t.value \in Nat
          \/ t.kind = "minus" /\ t = MakeUnaryMinus(t.left)
          \/ t.kind = "roll" /\ t = MakeDiceRoll(t.left, t.right)
          \/ t.kind = "binary" /\ t = MakeBinaryOp(t.op, t.left, t.right) /\ t.op \in Op
<1>1. CASE n = 0
  BY <1>1, PartsLessDeep
<1>2. CASE n # 0
  <2>1. n - 1 \in 0..MaxDepth /\ (n - 1) + 1 = n
    BY <1>2, GrammarAssumption
  <2> QED BY <2>1, NestedAt, PartsOf
<1> QED BY <1>1, <1>2

LEMMA TreeParts ==
    ASSUME NEW t \in Tree
    PROVE /\ Parts(t) \subseteq Tree
          /\ \/ t.kind = "number" /\ t = MakeNumber(t.value) /\ t.value \in Nat
             \/ t.kind = "minus" /\ t = MakeUnaryMinus(t.left)
             \/ t.kind = "roll" /\ t = MakeDiceRoll(t.left, t.right)
             \/ t.kind = "binary" /\ t = MakeBinaryOp(t.op, t.left, t.right) /\ t.op \in Op
<1>1. MaxDepth \in 0..MaxDepth
  BY GrammarAssumption
<1> QED BY <1>1, PartsWithin, KindsOf DEF Tree

(* What holds of a tree when it holds of its parts holds of every tree.    *)
LEMMA TreeInduction ==
    ASSUME NEW S, \A t \in Tree : Parts(t) \subseteq S => t \in S
    PROVE Tree \subseteq S
<1> DEFINE Levels == {n \in 0..MaxDepth : Nested[n] \subseteq S}
<1>1. MaxDepth \in Nat /\ MaxDepth \in 0..MaxDepth
  BY GrammarAssumption
<1>2. \A n \in 0..MaxDepth : Nested[n] \subseteq Tree
  <2> DEFINE Below(m) == \A n \in 0..m : Nested[n] \subseteq Nested[m]
             M == {m \in 0..MaxDepth : Below(m)}
  <2>1. 0 \in M
    <3>1. Below(0)
      <4>1. \A n \in 0..0 : n = 0
        OBVIOUS
      <4> QED BY <4>1
    <3> QED BY <3>1, <1>1
  <2>2. ASSUME NEW m \in 0..(MaxDepth - 1), m \in M PROVE m + 1 \in M
    <3>1. m \in 0..MaxDepth /\ m + 1 \in 0..MaxDepth
      BY <1>1
    <3>2. Nested[m] \subseteq Nested[m + 1]
      BY <3>1, NestedGrows
    <3>3. \A n \in 0..(m + 1) : n \in 0..m \/ n = m + 1
      BY <3>1
    <3>4. Below(m + 1)
      BY <2>2, <3>2, <3>3
    <3> QED BY <3>1, <3>4
  <2>3. 0..MaxDepth \subseteq M
    <3> HIDE DEF M
    <3> QED BY <1>1, <2>1, <2>2, Induction
  <2> QED BY <1>1, <2>3 DEF Tree
<1>3. 0 \in Levels
  <2>1. \A t \in Nested[0] : Parts(t) = {}
    BY PartsLessDeep DEF Parts
  <2> QED BY <1>1, <1>2, <2>1
<1>4. ASSUME NEW n \in 0..(MaxDepth - 1), n \in Levels PROVE n + 1 \in Levels
  <2>1. n \in 0..MaxDepth /\ n + 1 \in 0..MaxDepth
    BY <1>1
  <2>2. \A t \in Nested[n + 1] : Parts(t) \subseteq S
    BY <1>4, <2>1, PartsLessDeep
  <2>3. Nested[n + 1] \subseteq S
    BY <1>2, <2>1, <2>2
  <2> QED BY <2>1, <2>3
<1>5. 0..MaxDepth \subseteq Levels
  <2> HIDE DEF Levels
  <2> QED BY <1>1, <1>3, <1>4, Induction
<1> QED BY <1>1, <1>5 DEF Tree

(* How a tree is typed depends on how its parts and their parts are; hence *)
(* the text that TypedText gives is what its definition says.              *)
LEMMA TypedAlike ==
    ASSUME NEW f, NEW g, NEW t, t.kind \in {"number", "minus", "roll", "binary"},
           \A u \in Parts(t) : f[u] = g[u] /\ \A v \in Parts(u) : f[v] = g[v]
    PROVE TypedBody(f, t) = TypedBody(g, t)
<1>1. CASE t.kind = "number"
  BY <1>1 DEF TypedBody
<1>2. CASE t.kind = "minus"
  BY <1>2 DEF TypedBody, Parts
<1>3. CASE t.kind = "roll"
  <2>1. t.left \in Parts(t) /\ t.right \in Parts(t)
        /\ (t.right.kind = "minus" => t.right.left \in Parts(t.right))
    BY <1>3 DEF Parts
  <2> QED BY <1>3, <2>1 DEF TypedBody
<1>4. CASE t.kind = "binary"
  <2>1. t.left \in Parts(t) /\ t.right \in Parts(t)
    BY <1>4 DEF Parts
  <2> QED BY <1>4, <2>1 DEF TypedBody
<1> QED BY <1>1, <1>2, <1>3, <1>4

LEMMA TypedDef == TypedText = [t \in Tree |-> TypedBody(TypedText, t)]
<1> DEFINE Good(N) == \E f : f = [t \in Nested[N] |-> TypedBody(f, t)]
           S == {N \in 0..MaxDepth : Good(N)}
<1>1. MaxDepth \in Nat /\ MaxDepth \in 0..MaxDepth /\ 0 \in 0..MaxDepth
  BY GrammarAssumption
<1>2. 0 \in S
  <2> DEFINE f == [t \in Nested[0] |-> Num(t.value)]
  <2>1. \A t \in Nested[0] : TypedBody(f, t) = Num(t.value)
    BY PartsLessDeep DEF TypedBody
  <2>2. f = [t \in Nested[0] |-> TypedBody(f, t)]
    BY <2>1
  <2> QED BY <1>1, <2>2
<1>3. ASSUME NEW N \in 0..(MaxDepth - 1), N \in S PROVE N + 1 \in S
  <2>0. N \in 0..MaxDepth /\ N + 1 \in 0..MaxDepth
    BY <1>1
  <2>1. PICK f : f = [t \in Nested[N] |-> TypedBody(f, t)]
    BY <1>3
  <2> DEFINE g == [t \in Nested[N + 1] |-> TypedBody(f, t)]
  <2>2. \A t \in Nested[N] : f[t] = g[t]
    BY <2>0, <2>1, NestedGrows
  <2>3. ASSUME NEW t \in Nested[N + 1] PROVE TypedBody(f, t) = TypedBody(g, t)
    <3>1. Parts(t) \subseteq Nested[N] /\ \A u \in Parts(t) : Parts(u) \subseteq Nested[N]
      BY <2>0, PartsLessDeep, PartsWithin
    <3>2. t.kind \in {"number", "minus", "roll", "binary"}
      BY <2>0, KindsOf
    <3>3. \A u \in Parts(t) : f[u] = g[u] /\ \A v \in Parts(u) : f[v] = g[v]
      BY <2>2, <3>1
    <3> HIDE DEF g
    <3> QED BY <3>2, <3>3, TypedAlike
  <2>4. g = [t \in Nested[N + 1] |-> TypedBody(g, t)]
    BY <2>3
  <2> QED BY <2>0, <2>4
<1>4. Good(MaxDepth)
  <2> HIDE DEF S
  <2>3. 0..MaxDepth \subseteq S
    BY <1>1, <1>2, <1>3, Induction
  <2> QED BY <1>1, <2>3 DEF S
<1> QED BY <1>4 DEF TypedText, TypedBody, Tree

(* The sequence u stands in s at the position p.                           *)
Stands(s, p, u) == /\ p + Len(u) <= Len(s) + 1
               /\ \A i \in 1..Len(u) : s[p + (i - 1)] = u[i]

(* A joined text stands where its first part does and the second after it. *)
LEMMA StandsJoined ==
    ASSUME NEW T, NEW s \in Seq(T), NEW p \in Nat, NEW u \in Seq(T), NEW v \in Seq(T)
    PROVE Stands(s, p, u \o v) <=> Stands(s, p, u) /\ Stands(s, p + Len(u), v)
<1>1. Len(u \o v) = Len(u) + Len(v) /\ Len(u) \in Nat /\ Len(v) \in Nat /\ Len(s) \in Nat
  OBVIOUS
<1>2. \A i \in 1..Len(u) : (u \o v)[i] = u[i] /\ i \in 1..Len(u \o v)
  BY <1>1
<1>3. \A i \in 1..Len(v) : (u \o v)[Len(u) + i] = v[i] /\ Len(u) + i \in 1..Len(u \o v)
  BY <1>1
<1>4. ASSUME Stands(s, p, u \o v) PROVE Stands(s, p, u)
  BY <1>1, <1>2, <1>4 DEF Stands
<1>5. ASSUME Stands(s, p, u \o v) PROVE Stands(s, p + Len(u), v)
  <2>1. ASSUME NEW i \in 1..Len(v) PROVE s[(p + Len(u)) + (i - 1)] = v[i]
    <3>1. (p + Len(u)) + (i - 1) = p + ((Len(u) + i) - 1)
      BY <1>1
    <3> QED BY <1>3, <1>5, <3>1 DEF Stands
  <2>2. (p + Len(u)) + Len(v) <= Len(s) + 1
    BY <1>1, <1>5 DEF Stands
  <2> QED BY <2>1, <2>2 DEF Stands
<1>6. ASSUME Stands(s, p, u), Stands(s, p + Len(u), v) PROVE Stands(s, p, u \o v)
  <2>1. ASSUME NEW i \in 1..Len(u \o v) PROVE s[p + (i - 1)] = (u \o v)[i]
    <3>1. CASE i \in 1..Len(u)
      BY <1>2, <1>6, <3>1 DEF Stands
    <3>2. CASE i \notin 1..Len(u)
      <4> DEFINE j == i - Len(u)
      <4>1. j \in 1..Len(v) /\ i = Len(u) + j /\ p + (i - 1) = (p + Len(u)) + (j - 1)
        BY <1>1, <3>2
      <4> HIDE DEF j
      <4> QED BY <1>3, <1>6, <4>1 DEF Stands
    <3> QED BY <3>1, <3>2
  <2> QED BY <1>1, <1>6, <2>1 DEF Stands
<1> QED BY <1>4, <1>5, <1>6

-----------------------------------------------------------------------------
(* The parser: what is read of a text does not depend on how deep the      *)
(* calls are nested, once they are nested deep enough.                     *)
ReadingBody(s, f, n) ==
    IF n = 0 THEN [c \in Calls |-> Failed] ELSE [c \in Calls |-> Returned(s, f[n - 1], c)]

(* What the definition of Reading says of it.                              *)
LEMMA DeepestIs ==
    ASSUME NEW s, Len(s) \in Nat
    PROVE Deepest(s) \in Nat /\ Deepest(s) = 4 * Len(s) + 8
BY DEF Deepest

LEMMA ReadingDef ==
    ASSUME NEW s, Len(s) \in Nat
    PROVE Reading(s) = [n \in 0..Deepest(s) |-> ReadingBody(s, Reading(s), n)]
<1> DEFINE D == Deepest(s)
           Good(N) == \E f : f = [n \in 0..N |-> ReadingBody(s, f, n)]
           S == {N \in Nat : Good(N)}
<1>0. D \in Nat
  BY DeepestIs
<1> HIDE DEF D
<1>1. 0 \in S
  <2> DEFINE f == [n \in 0..0 |-> [c \in Calls |-> Failed]]
  <2>1. f = [n \in 0..0 |-> ReadingBody(s, f, n)]
    BY DEF ReadingBody
  <2> QED BY <2>1
<1>2. ASSUME NEW N \in 0..(D - 1), N \in S PROVE N + 1 \in S
  <2>0. N \in Nat /\ N + 1 \in Nat
    BY <1>0
  <2>1. PICK f : f = [n \in 0..N |-> ReadingBody(s, f, n)]
    BY <1>2
  <2> DEFINE g == [n \in 0..(N + 1) |-> ReadingBody(s, f, n)]
  <2>2. \A n \in 0..N : f[n] = g[n]
    BY <2>0, <2>1
  <2>3. \A n \in 0..(N + 1) : n # 0 => n - 1 \in 0..N
    BY <2>0
  <2>4. \A n \in 0..(N + 1) : ReadingBody(s, f, n) = ReadingBody(s, g, n)
    BY <2>2, <2>3 DEF ReadingBody
  <2>5. g = [n \in 0..(N + 1) |-> ReadingBody(s, g, n)]
    BY <2>4
  <2> QED BY <2>0, <2>5
<1>3. Good(D)
  <2> HIDE DEF S
  <2>1. 0..D \subseteq S
    BY <1>0, <1>1, <1>2, Induction
  <2> QED BY <1>0, <2>1 DEF S
<1> QED BY <1>3 DEF Reading, ReadingBody, D

LEMMA ReadingAt ==
    ASSUME NEW s, Len(s) \in Nat, NEW n \in 1..Deepest(s), NEW c \in Calls
    PROVE Reading(s)[n][c] = Returned(s, Reading(s)[n - 1], c)
<1>1. n \in 0..Deepest(s) /\ n # 0
  BY DeepestIs
<1>2. Reading(s)[n] = ReadingBody(s, Reading(s), n)
  BY <1>1, ReadingDef
<1> QED BY <1>1, <1>2 DEF ReadingBody

-----------------------------------------------------------------------------
(* How far a call can still be nested before it is out of calls.           *)
Rank(fn) == IF fn = "expression" THEN 4 ELSE IF fn = "term" THEN 3
            ELSE IF fn \in {"factor", "signs"} THEN 2 ELSE 1
Fuel(s, c) == 4 * (Len(s) + 1 - c.at) + Rank(c.fn)

(* The call c returns x.                                                   *)
Gives(s, c, x) == \A n \in 1..Deepest(s) : n >= Fuel(s, c) => Reading(s)[n][c] = x

Texts == Seq([type : {"number", "+", "-", "*", "/", "d", "(", ")"}, value : Nat])

(* The same of texts, and of a single token.                               *)
LEMMA StandsJoinedText ==
    ASSUME NEW s \in Texts, NEW p \in Nat, NEW u \in Texts, NEW v \in Texts
    PROVE Stands(s, p, u \o v) <=> Stands(s, p, u) /\ Stands(s, p + Len(u), v)
BY StandsJoined DEF Texts

LEMMA StandsToken ==
    ASSUME NEW s \in Texts, NEW p \in Nat \ {0}, NEW tok, Stands(s, p, <<tok>>)
    PROVE p \in 1..Len(s) /\ s[p] = tok /\ Peek(s, p) = tok.type
<1>1. Len(<<tok>>) = 1 /\ <<tok>>[1] = tok /\ Len(s) \in Nat
  BY DEF Texts
<1>2. p + (1 - 1) = p /\ 1 \in 1..1
  OBVIOUS
<1> QED BY <1>1, <1>2 DEF Stands, Peek

(* A call that gives x at some depth gives it at every greater one, and    *)
(* what a call gives follows from the calls it makes.                      *)
LEMMA Later ==
    ASSUME NEW s \in Texts, NEW c, NEW e, NEW x, Gives(s, e, x),
           Fuel(s, e) \in Nat \ {0}, Fuel(s, c) \in Nat, Fuel(s, e) < Fuel(s, c),
           NEW n \in 1..Deepest(s), n >= Fuel(s, c)
    PROVE Reading(s)[n - 1][e] = x
<1>1. Deepest(s) \in Nat
  BY DeepestIs DEF Texts
<1>2. n - 1 \in 1..Deepest(s) /\ n - 1 >= Fuel(s, e)
  BY <1>1
<1> QED BY <1>2 DEF Gives

LEMMA GivesBy ==
    ASSUME NEW s \in Texts, NEW c \in Calls, NEW x,
           \A n \in 1..Deepest(s) : n >= Fuel(s, c) => Returned(s, Reading(s)[n - 1], c) = x
    PROVE Gives(s, c, x)
BY ReadingAt DEF Gives, Texts

(* The calls, their fuel and what they return.                             *)
LEMMA CallsAre ==
    ASSUME NEW p \in Nat \ {0}
    PROVE /\ \A fn \in {"expression", "term", "factor", "primary"} : Call(fn, p) \in Calls
          /\ \A fn \in {"sums", "products", "rolls"}, t \in Tree : Loop(fn, t, p) \in Calls
          /\ \A b \in BOOLEAN : Signs(b, p) \in Calls
BY DEF Call, Loop, Signs, Calls

LEMMA FuelIs ==
    ASSUME NEW s, NEW p, NEW t, NEW b
    PROVE /\ Fuel(s, Call("expression", p)) = 4 * (Len(s) + 1 - p) + 4
          /\ Fuel(s, Call("term", p)) = 4 * (Len(s) + 1 - p) + 3
          /\ Fuel(s, Call("factor", p)) = 4 * (Len(s) + 1 - p) + 2
          /\ Fuel(s, Call("primary", p)) = 4 * (Len(s) + 1 - p) + 1
          /\ Fuel(s, Loop("sums", t, p)) = 4 * (Len(s) + 1 - p) + 1
          /\ Fuel(s, Loop("products", t, p)) = 4 * (Len(s) + 1 - p) + 1
          /\ Fuel(s, Loop("rolls", t, p)) = 4 * (Len(s) + 1 - p) + 1
          /\ Fuel(s, Signs(b, p)) = 4 * (Len(s) + 1 - p) + 2
BY DEF Fuel, Rank, Call, Loop, Signs

(* A call that stands further on, or at the same place of a lower rank,    *)
(* needs less fuel.                                                        *)
LEMMA FuelLess ==
    ASSUME NEW l \in Nat, NEW p \in Nat \ {0}, NEW q \in Nat, p <= q, q <= l + 1,
           NEW i \in 1..4, NEW j \in 1..4, p < q \/ j < i
    PROVE /\ 4 * (l + 1 - p) + i \in Nat \ {0}
          /\ 4 * (l + 1 - q) + j \in Nat \ {0}
          /\ 4 * (l + 1 - q) + j < 4 * (l + 1 - p) + i
OBVIOUS

LEMMA ReturnedIs ==
    ASSUME NEW s, NEW read, NEW p, NEW t, NEW b
    PROVE /\ Returned(s, read, Call("expression", p)) = ParseExpression(s, read, p)
          /\ Returned(s, read, Call("term", p)) = ParseTerm(s, read, p)
          /\ Returned(s, read, Call("factor", p)) = ParseFactor(s, read, p)
          /\ Returned(s, read, Call("primary", p)) = ParsePrimary(s, read, p)
          /\ Returned(s, read, Loop("sums", t, p)) = ExpressionRest(s, read, t, p)
          /\ Returned(s, read, Loop("products", t, p)) = TermRest(s, read, t, p)
          /\ Returned(s, read, Loop("rolls", t, p)) = RollRest(s, read, t, p)
          /\ Returned(s, read, Signs(b, p)) = ParseSigned(s, read, b, p)
BY DEF Returned, Call, Loop, Signs

-----------------------------------------------------------------------------
(* What each of the parser's functions gives, from what the functions it   *)
(* calls give: parsePrimary of a number, and of an expression in brackets. *)
LEMMA GivesNumber ==
    ASSUME NEW s \in Texts, NEW p \in Nat \ {0}, p <= Len(s), s[p].type = "number"
    PROVE Gives(s, Call("primary", p), Parsed(MakeNumber(s[p].value), p + 1))
<1>1. Len(s) \in Nat /\ Peek(s, p) = "number"
  BY DEF Texts, Peek
<1>2. Call("primary", p) \in Calls
  BY <1>1, CallsAre
<1>3. \A read : Returned(s, read, Call("primary", p)) = Parsed(MakeNumber(s[p].value), p + 1)
  BY <1>1, ReturnedIs DEF ParsePrimary
<1> QED BY <1>2, <1>3, GivesBy

LEMMA GivesBracketed ==
    ASSUME NEW s \in Texts, NEW p \in Nat \ {0}, p <= Len(s), s[p].type = "(",
           NEW t, NEW q \in Nat, q <= Len(s), s[q].type = ")",
           Gives(s, Call("expression", p + 1), Parsed(t, q))
    PROVE Gives(s, Call("primary", p), Parsed(t, q + 1))
<1>1. Len(s) \in Nat /\ Peek(s, p) = "(" /\ Peek(s, q) = ")"
  BY DEF Texts, Peek
<1> DEFINE c == Call("primary", p)
           e == Call("expression", p + 1)
<1>2. c \in Calls /\ Fuel(s, c) \in Nat \ {0} /\ Fuel(s, e) \in Nat \ {0} /\ Fuel(s, e) < Fuel(s, c)
  <2>1. c \in Calls
    BY CallsAre
  <2>2. Fuel(s, c) = 4 * (Len(s) + 1 - p) + 1
    BY FuelIs
  <2>3. Fuel(s, e) = 4 * (Len(s) + 1 - (p + 1)) + 4
    BY FuelIs
  <2>4. /\ 4 * (Len(s) + 1 - p) + 1 \in Nat \ {0}
        /\ 4 * (Len(s) + 1 - (p + 1)) + 4 \in Nat \ {0}
        /\ 4 * (Len(s) + 1 - (p + 1)) + 4 < 4 * (Len(s) + 1 - p) + 1
    BY <1>1, FuelLess
  <2> HIDE DEF c, e
  <2> QED BY <2>1, <2>2, <2>3, <2>4
<1>3. ASSUME NEW n \in 1..Deepest(s), n >= Fuel(s, c)
      PROVE Returned(s, Reading(s)[n - 1], c) = Parsed(t, q + 1)
  <2>1. Reading(s)[n - 1][e] = Parsed(t, q)
    <3> HIDE DEF c, e
    <3> QED BY <1>2, <1>3, Later DEF e
  <2>2. Returned(s, Reading(s)[n - 1], c) = ParsePrimary(s, Reading(s)[n - 1], p)
    BY ReturnedIs
  <2>3. Parsed(t, q).ok /\ Parsed(t, q).tree = t /\ Parsed(t, q).next = q
    BY DEF Parsed
  <2> QED BY <1>1, <2>1, <2>2, <2>3 DEF ParsePrimary
<1> QED
  <2> HIDE DEF c
  <2> QED BY <1>2, <1>3, GivesBy DEF c

(* parseFactor without a sign.                                             *)
LEMMA GivesFactor ==
    ASSUME NEW s \in Texts, NEW p \in Nat \ {0}, NEW q \in Nat, p < q, q <= Len(s) + 1,
           Peek(s, p) \in {"number", "("}, NEW t \in Tree, NEW x,
           Gives(s, Call("primary", p), Parsed(t, q)),
           Gives(s, Loop("rolls", t, q), x)
    PROVE Gives(s, Call("factor", p), x)
<1> DEFINE c == Call("factor", p)
           e == Call("primary", p)
           f == Loop("rolls", t, q)
<1>1. Len(s) \in Nat
  BY DEF Texts
<1>2. /\ c \in Calls /\ Fuel(s, c) \in Nat \ {0}
      /\ Fuel(s, e) \in Nat \ {0} /\ Fuel(s, e) < Fuel(s, c)
      /\ Fuel(s, f) \in Nat \ {0} /\ Fuel(s, f) < Fuel(s, c)
  <2>1. c \in Calls
    BY CallsAre
  <2>2. Fuel(s, c) = 4 * (Len(s) + 1 - p) + 2
    BY FuelIs
  <2>3. Fuel(s, e) = 4 * (Len(s) + 1 - p) + 1
    BY FuelIs
  <2>4. Fuel(s, f) = 4 * (Len(s) + 1 - q) + 1
    BY FuelIs
  <2> HIDE DEF c, e, f
  <2> QED BY <1>1, <2>1, <2>2, <2>3, <2>4, FuelLess
<1>3. ASSUME NEW n \in 1..Deepest(s), n >= Fuel(s, c)
      PROVE Returned(s, Reading(s)[n - 1], c) = x
  <2>1. Reading(s)[n - 1][e] = Parsed(t, q) /\ Reading(s)[n - 1][f] = x
    <3> HIDE DEF c, e, f
    <3> QED BY <1>2, <1>3, Later DEF e, f
  <2>2. Returned(s, Reading(s)[n - 1], c) = ParseFactor(s, Reading(s)[n - 1], p)
    BY ReturnedIs
  <2>3. Parsed(t, q).ok /\ Parsed(t, q).tree = t /\ Parsed(t, q).next = q
    BY DEF Parsed
  <2> QED BY <1>1, <2>1, <2>2, <2>3 DEF ParseFactor, Continue
<1> QED
  <2> HIDE DEF c
  <2> QED BY <1>2, <1>3, GivesBy DEF c

LEMMA ParsedIs ==
    ASSUME NEW t, NEW q
    PROVE Parsed(t, q).ok /\ Parsed(t, q).tree = t /\ Parsed(t, q).next = q
BY DEF Parsed

(* parseFactor with a sign; the sides of a roll, and their sign.           *)
LEMMA GivesMinus ==
    ASSUME NEW s \in Texts, NEW p \in Nat \ {0}, p <= Len(s), s[p].type = "-",
           NEW t, NEW q, Gives(s, Call("factor", p + 1), Parsed(t, q))
    PROVE Gives(s, Call("factor", p), Parsed(MakeUnaryMinus(t), q))
<1> DEFINE c == Call("factor", p)
           e == Call("factor", p + 1)
<1>1. Len(s) \in Nat /\ Peek(s, p) = "-"
  BY DEF Texts, Peek
<1>2. /\ c \in Calls /\ Fuel(s, c) \in Nat \ {0}
      /\ Fuel(s, e) \in Nat \ {0} /\ Fuel(s, e) < Fuel(s, c)
  <2>1. c \in Calls
    BY CallsAre
  <2>2. Fuel(s, c) = 4 * (Len(s) + 1 - p) + 2
    BY FuelIs
  <2>3. Fuel(s, e) = 4 * (Len(s) + 1 - (p + 1)) + 2
    BY FuelIs
  <2>4. /\ 4 * (Len(s) + 1 - p) + 2 \in Nat \ {0}
        /\ 4 * (Len(s) + 1 - (p + 1)) + 2 \in Nat \ {0}
        /\ 4 * (Len(s) + 1 - (p + 1)) + 2 < 4 * (Len(s) + 1 - p) + 2
    BY <1>1, FuelLess
  <2> HIDE DEF c, e
  <2> QED BY <2>1, <2>2, <2>3, <2>4
<1>3. ASSUME NEW n \in 1..Deepest(s), n >= Fuel(s, c)
      PROVE Returned(s, Reading(s)[n - 1], c) = Parsed(MakeUnaryMinus(t), q)
  <2>1. Reading(s)[n - 1][e] = Parsed(t, q)
    <3> HIDE DEF c, e
    <3> QED BY <1>2, <1>3, Later DEF e
  <2>2. Returned(s, Reading(s)[n - 1], c) = ParseFactor(s, Reading(s)[n - 1], p)
    BY ReturnedIs
  <2> QED BY <1>1, <2>1, <2>2, ParsedIs DEF ParseFactor
<1> QED
  <2> HIDE DEF c
  <2> QED BY <1>2, <1>3, GivesBy DEF c

LEMMA GivesSides ==
    ASSUME NEW s \in Texts, NEW p \in Nat \ {0}, p <= Len(s), Peek(s, p) \in {"number", "("},
           NEW b \in BOOLEAN, NEW t, NEW q, Gives(s, Call("primary", p), Parsed(t, q))
    PROVE Gives(s, Signs(b, p), Parsed(IF b THEN MakeUnaryMinus(t) ELSE t, q))
<1> DEFINE c == Signs(b, p)
           e == Call("primary", p)
<1>1. Len(s) \in Nat
  BY DEF Texts, Peek
<1>2. /\ c \in Calls /\ Fuel(s, c) \in Nat \ {0}
      /\ Fuel(s, e) \in Nat \ {0} /\ Fuel(s, e) < Fuel(s, c)
  <2>1. c \in Calls
    BY CallsAre
  <2>2. Fuel(s, c) = 4 * (Len(s) + 1 - p) + 2
    BY FuelIs
  <2>3. Fuel(s, e) = 4 * (Len(s) + 1 - p) + 1
    BY FuelIs
  <2>4. /\ 4 * (Len(s) + 1 - p) + 2 \in Nat \ {0}
        /\ 4 * (Len(s) + 1 - p) + 1 \in Nat \ {0}
        /\ 4 * (Len(s) + 1 - p) + 1 < 4 * (Len(s) + 1 - p) + 2
    BY <1>1, FuelLess
  <2> HIDE DEF c, e
  <2> QED BY <2>1, <2>2, <2>3, <2>4
<1>3. ASSUME NEW n \in 1..Deepest(s), n >= Fuel(s, c)
      PROVE Returned(s, Reading(s)[n - 1], c) = Parsed(IF b THEN MakeUnaryMinus(t) ELSE t, q)
  <2>1. Reading(s)[n - 1][e] = Parsed(t, q)
    <3> HIDE DEF c, e
    <3> QED BY <1>2, <1>3, Later DEF e
  <2>2. Returned(s, Reading(s)[n - 1], c) = ParseSigned(s, Reading(s)[n - 1], b, p)
    BY ReturnedIs
  <2>5. Peek(s, p) \notin {"+", "-"}
    OBVIOUS
  <2>6. ParseSigned(s, Reading(s)[n - 1], b, p)
        = IF Parsed(t, q).ok /\ b THEN Parsed(MakeUnaryMinus(Parsed(t, q).tree), Parsed(t, q).next)
          ELSE Parsed(t, q)
    BY <2>1, <2>5, Zenon DEF ParseSigned
  <2> HIDE DEF c, e
  <2>3. CASE b
    <3>1. Parsed(t, q).ok = TRUE /\ Parsed(t, q).tree = t /\ Parsed(t, q).next = q
      BY DEF Parsed
    <3>2. ParseSigned(s, Reading(s)[n - 1], b, p) = Parsed(MakeUnaryMinus(Parsed(t, q).tree), Parsed(t, q).next)
      BY <2>3, <2>6, <3>1, Zenon
    <3>3. ParseSigned(s, Reading(s)[n - 1], b, p) = Parsed(MakeUnaryMinus(t), q)
      BY <3>1, <3>2, Zenon
    <3> QED BY <2>2, <2>3, <3>3, Zenon
  <2>4. CASE ~b
    BY <2>2, <2>4, <2>6, ParsedIs
  <2> QED BY <2>3, <2>4
<1> QED
  <2> HIDE DEF c
  <2> QED BY <1>2, <1>3, GivesBy DEF c

LEMMA GivesSigned ==
    ASSUME NEW s \in Texts, NEW p \in Nat \ {0}, p <= Len(s), s[p].type = "-",
           NEW x, Gives(s, Signs(TRUE, p + 1), x)
    PROVE Gives(s, Signs(FALSE, p), x)
<1> DEFINE c == Signs(FALSE, p)
           e == Signs(TRUE, p + 1)
<1>1. Len(s) \in Nat /\ Peek(s, p) = "-"
  BY DEF Texts, Peek
<1>2. /\ c \in Calls /\ Fuel(s, c) \in Nat \ {0}
      /\ Fuel(s, e) \in Nat \ {0} /\ Fuel(s, e) < Fuel(s, c)
  <2>1. c \in Calls
    BY CallsAre
  <2>2. Fuel(s, c) = 4 * (Len(s) + 1 - p) + 2
    BY FuelIs
  <2>3. Fuel(s, e) = 4 * (Len(s) + 1 - (p + 1)) + 2
    BY FuelIs
  <2>4. /\ 4 * (Len(s) + 1 - p) + 2 \in Nat \ {0}
        /\ 4 * (Len(s) + 1 - (p + 1)) + 2 \in Nat \ {0}
        /\ 4 * (Len(s) + 1 - (p + 1)) + 2 < 4 * (Len(s) + 1 - p) + 2
    BY <1>1, FuelLess
  <2> HIDE DEF c, e
  <2> QED BY <2>1, <2>2, <2>3, <2>4
<1>3. ASSUME NEW n \in 1..Deepest(s), n >= Fuel(s, c)
      PROVE Returned(s, Reading(s)[n - 1], c) = x
  <2>1. Reading(s)[n - 1][e] = x
    <3> HIDE DEF c, e
    <3> QED BY <1>2, <1>3, Later DEF e
  <2>2. Returned(s, Reading(s)[n - 1], c) = ParseSigned(s, Reading(s)[n - 1], FALSE, p)
    BY ReturnedIs
  <2> QED BY <1>1, <2>1, <2>2, ParsedIs DEF ParseSigned
<1> QED
  <2> HIDE DEF c
  <2> QED BY <1>2, <1>3, GivesBy DEF c

(* parseTerm and parseExpression begin with their first operand.           *)
LEMMA GivesTerm ==
    ASSUME NEW s \in Texts, NEW p \in Nat \ {0}, NEW q \in Nat, p < q, q <= Len(s) + 1,
           NEW t \in Tree, NEW x,
           Gives(s, Call("factor", p), Parsed(t, q)),
           Gives(s, Loop("products", t, q), x)
    PROVE Gives(s, Call("term", p), x)
<1> DEFINE c == Call("term", p)
           e == Call("factor", p)
           f == Loop("products", t, q)
<1>1. Len(s) \in Nat
  BY DEF Texts, Peek
<1>2. /\ c \in Calls /\ Fuel(s, c) \in Nat \ {0}
      /\ Fuel(s, e) \in Nat \ {0} /\ Fuel(s, e) < Fuel(s, c)
      /\ Fuel(s, f) \in Nat \ {0} /\ Fuel(s, f) < Fuel(s, c)
  <2>1. c \in Calls
    BY CallsAre
  <2>2. Fuel(s, c) = 4 * (Len(s) + 1 - p) + 3
    BY FuelIs
  <2>3. Fuel(s, e) = 4 * (Len(s) + 1 - p) + 2
    BY FuelIs
  <2>4. Fuel(s, f) = 4 * (Len(s) + 1 - q) + 1
    BY FuelIs
  <2> HIDE DEF c, e, f
  <2> QED BY <1>1, <2>1, <2>2, <2>3, <2>4, FuelLess
<1>3. ASSUME NEW n \in 1..Deepest(s), n >= Fuel(s, c)
      PROVE Returned(s, Reading(s)[n - 1], c) = x
  <2>1. Reading(s)[n - 1][e] = Parsed(t, q) /\ Reading(s)[n - 1][f] = x
    <3> HIDE DEF c, e, f
    <3> QED BY <1>2, <1>3, Later DEF e, f
  <2>2. Returned(s, Reading(s)[n - 1], c) = ParseTerm(s, Reading(s)[n - 1], p)
    BY ReturnedIs
  <2> QED BY <1>1, <2>1, <2>2, ParsedIs DEF ParseTerm, Continue
<1> QED
  <2> HIDE DEF c
  <2> QED BY <1>2, <1>3, GivesBy DEF c

LEMMA GivesExpression ==
    ASSUME NEW s \in Texts, NEW p \in Nat \ {0}, NEW q \in Nat, p < q, q <= Len(s) + 1,
           NEW t \in Tree, NEW x,
           Gives(s, Call("term", p), Parsed(t, q)),
           Gives(s, Loop("sums", t, q), x)
    PROVE Gives(s, Call("expression", p), x)
<1> DEFINE c == Call("expression", p)
           e == Call("term", p)
           f == Loop("sums", t, q)
<1>1. Len(s) \in Nat
  BY DEF Texts, Peek
<1>2. /\ c \in Calls /\ Fuel(s, c) \in Nat \ {0}
      /\ Fuel(s, e) \in Nat \ {0} /\ Fuel(s, e) < Fuel(s, c)
      /\ Fuel(s, f) \in Nat \ {0} /\ Fuel(s, f) < Fuel(s, c)
  <2>1. c \in Calls
    BY CallsAre
  <2>2. Fuel(s, c) = 4 * (Len(s) + 1 - p) + 4
    BY FuelIs
  <2>3. Fuel(s, e) = 4 * (Len(s) + 1 - p) + 3
    BY FuelIs
  <2>4. Fuel(s, f) = 4 * (Len(s) + 1 - q) + 1
    BY FuelIs
  <2> HIDE DEF c, e, f
  <2> QED BY <1>1, <2>1, <2>2, <2>3, <2>4, FuelLess
<1>3. ASSUME NEW n \in 1..Deepest(s), n >= Fuel(s, c)
      PROVE Returned(s, Reading(s)[n - 1], c) = x
  <2>1. Reading(s)[n - 1][e] = Parsed(t, q) /\ Reading(s)[n - 1][f] = x
    <3> HIDE DEF c, e, f
    <3> QED BY <1>2, <1>3, Later DEF e, f
  <2>2. Returned(s, Reading(s)[n - 1], c) = ParseExpression(s, Reading(s)[n - 1], p)
    BY ReturnedIs
  <2> QED BY <1>1, <2>1, <2>2, ParsedIs DEF ParseExpression, Continue
<1> QED
  <2> HIDE DEF c
  <2> QED BY <1>2, <1>3, GivesBy DEF c

(* One more operand of a sum, of a product, and one more roll.             *)
LEMMA GivesSums ==
    ASSUME NEW s \in Texts, NEW p \in Nat \ {0}, p <= Len(s), s[p].type \in {"+", "-"},
           NEW left \in Tree,
           NEW t, NEW q \in Nat, p < q, q <= Len(s) + 1,
           MakeBinaryOp(s[p].type, left, t) \in Tree, NEW x,
           Gives(s, Call("term", p + 1), Parsed(t, q)),
           Gives(s, Loop("sums", MakeBinaryOp(s[p].type, left, t), q), x)
    PROVE Gives(s, Loop("sums", left, p), x)
<1> DEFINE c == Loop("sums", left, p)
           e == Call("term", p + 1)
           f == Loop("sums", MakeBinaryOp(s[p].type, left, t), q)
<1>1. Len(s) \in Nat /\ Peek(s, p) = s[p].type
  BY DEF Texts, Peek
<1>2. /\ c \in Calls /\ Fuel(s, c) \in Nat \ {0}
      /\ Fuel(s, e) \in Nat \ {0} /\ Fuel(s, e) < Fuel(s, c)
      /\ Fuel(s, f) \in Nat \ {0} /\ Fuel(s, f) < Fuel(s, c)
  <2>1. c \in Calls
    BY CallsAre
  <2>2. Fuel(s, c) = 4 * (Len(s) + 1 - p) + 1
    BY FuelIs
  <2>3. Fuel(s, e) = 4 * (Len(s) + 1 - (p + 1)) + 3
    BY FuelIs
  <2>4. Fuel(s, f) = 4 * (Len(s) + 1 - q) + 1
    BY FuelIs
  <2> HIDE DEF c, e, f
  <2> QED BY <1>1, <2>1, <2>2, <2>3, <2>4, FuelLess
<1>3. ASSUME NEW n \in 1..Deepest(s), n >= Fuel(s, c)
      PROVE Returned(s, Reading(s)[n - 1], c) = x
  <2>1. Reading(s)[n - 1][e] = Parsed(t, q) /\ Reading(s)[n - 1][f] = x
    <3> HIDE DEF c, e, f
    <3> QED BY <1>2, <1>3, Later DEF e, f
  <2>2. Returned(s, Reading(s)[n - 1], c) = ExpressionRest(s, Reading(s)[n - 1], left, p)
    BY ReturnedIs
  <2> QED BY <1>1, <2>1, <2>2, ParsedIs DEF ExpressionRest
<1> QED
  <2> HIDE DEF c
  <2> QED BY <1>2, <1>3, GivesBy DEF c

LEMMA GivesProducts ==
    ASSUME NEW s \in Texts, NEW p \in Nat \ {0}, p <= Len(s), s[p].type \in {"*", "/"},
           NEW left \in Tree,
           NEW t, NEW q \in Nat, p < q, q <= Len(s) + 1,
           MakeBinaryOp(s[p].type, left, t) \in Tree, NEW x,
           Gives(s, Call("factor", p + 1), Parsed(t, q)),
           Gives(s, Loop("products", MakeBinaryOp(s[p].type, left, t), q), x)
    PROVE Gives(s, Loop("products", left, p), x)
<1> DEFINE c == Loop("products", left, p)
           e == Call("factor", p + 1)
           f == Loop("products", MakeBinaryOp(s[p].type, left, t), q)
<1>1. Len(s) \in Nat /\ Peek(s, p) = s[p].type
  BY DEF Texts, Peek
<1>2. /\ c \in Calls /\ Fuel(s, c) \in Nat \ {0}
      /\ Fuel(s, e) \in Nat \ {0} /\ Fuel(s, e) < Fuel(s, c)
      /\ Fuel(s, f) \in Nat \ {0} /\ Fuel(s, f) < Fuel(s, c)
  <2>1. c \in Calls
    BY CallsAre
  <2>2. Fuel(s, c) = 4 * (Len(s) + 1 - p) + 1
    BY FuelIs
  <2>3. Fuel(s, e) = 4 * (Len(s) + 1 - (p + 1)) + 2
    BY FuelIs
  <2>4. Fuel(s, f) = 4 * (Len(s) + 1 - q) + 1
    BY FuelIs
  <2> HIDE DEF c, e, f
  <2> QED BY <1>1, <2>1, <2>2, <2>3, <2>4, FuelLess
<1>3. ASSUME NEW n \in 1..Deepest(s), n >= Fuel(s, c)
      PROVE Returned(s, Reading(s)[n - 1], c) = x
  <2>1. Reading(s)[n - 1][e] = Parsed(t, q) /\ Reading(s)[n - 1][f] = x
    <3> HIDE DEF c, e, f
    <3> QED BY <1>2, <1>3, Later DEF e, f
  <2>2. Returned(s, Reading(s)[n - 1], c) = TermRest(s, Reading(s)[n - 1], left, p)
    BY ReturnedIs
  <2> QED BY <1>1, <2>1, <2>2, ParsedIs DEF TermRest
<1> QED
  <2> HIDE DEF c
  <2> QED BY <1>2, <1>3, GivesBy DEF c

LEMMA GivesRolls ==
    ASSUME NEW s \in Texts, NEW p \in Nat \ {0}, p <= Len(s), s[p].type \in {"d"},
           NEW left \in Tree,
           NEW t, NEW q \in Nat, p < q, q <= Len(s) + 1, MakeDiceRoll(left, t) \in Tree, NEW x,
           Gives(s, Signs(FALSE, p + 1), Parsed(t, q)),
           Gives(s, Loop("rolls", MakeDiceRoll(left, t), q), x)
    PROVE Gives(s, Loop("rolls", left, p), x)
<1> DEFINE c == Loop("rolls", left, p)
           e == Signs(FALSE, p + 1)
           f == Loop("rolls", MakeDiceRoll(left, t), q)
<1>1. Len(s) \in Nat /\ Peek(s, p) = s[p].type
  BY DEF Texts, Peek
<1>2. /\ c \in Calls /\ Fuel(s, c) \in Nat \ {0}
      /\ Fuel(s, e) \in Nat \ {0} /\ Fuel(s, e) < Fuel(s, c)
      /\ Fuel(s, f) \in Nat \ {0} /\ Fuel(s, f) < Fuel(s, c)
  <2>1. c \in Calls
    BY CallsAre
  <2>2. Fuel(s, c) = 4 * (Len(s) + 1 - p) + 1
    BY FuelIs
  <2>3. Fuel(s, e) = 4 * (Len(s) + 1 - (p + 1)) + 2
    BY FuelIs
  <2>4. Fuel(s, f) = 4 * (Len(s) + 1 - q) + 1
    BY FuelIs
  <2> HIDE DEF c, e, f
  <2> QED BY <1>1, <2>1, <2>2, <2>3, <2>4, FuelLess
<1>3. ASSUME NEW n \in 1..Deepest(s), n >= Fuel(s, c)
      PROVE Returned(s, Reading(s)[n - 1], c) = x
  <2>1. Reading(s)[n - 1][e] = Parsed(t, q) /\ Reading(s)[n - 1][f] = x
    <3> HIDE DEF c, e, f
    <3> QED BY <1>2, <1>3, Later DEF e, f
  <2>2. Returned(s, Reading(s)[n - 1], c) = RollRest(s, Reading(s)[n - 1], left, p)
    BY ReturnedIs
  <2> QED BY <1>1, <2>1, <2>2, ParsedIs DEF RollRest
<1> QED
  <2> HIDE DEF c
  <2> QED BY <1>2, <1>3, GivesBy DEF c

(* The loops end where no operator follows.                                *)
LEMMA GivesEnd ==
    ASSUME NEW s \in Texts, NEW p \in Nat \ {0}, p <= Len(s) + 1, NEW t \in Tree
    PROVE /\ Peek(s, p) # "d" => Gives(s, Loop("rolls", t, p), Parsed(t, p))
          /\ Peek(s, p) \notin {"*", "/"} => Gives(s, Loop("products", t, p), Parsed(t, p))
          /\ Peek(s, p) \notin {"+", "-"} => Gives(s, Loop("sums", t, p), Parsed(t, p))
<1>1. \A fn \in {"sums", "products", "rolls"} : Loop(fn, t, p) \in Calls
  BY CallsAre
<1>2. ASSUME Peek(s, p) # "d" PROVE Gives(s, Loop("rolls", t, p), Parsed(t, p))
  <2>1. \A read : Returned(s, read, Loop("rolls", t, p)) = Parsed(t, p)
    BY <1>2, ReturnedIs DEF RollRest
  <2> QED BY <1>1, <2>1, GivesBy
<1>3. ASSUME Peek(s, p) \notin {"*", "/"} PROVE Gives(s, Loop("products", t, p), Parsed(t, p))
  <2>1. \A read : Returned(s, read, Loop("products", t, p)) = Parsed(t, p)
    BY <1>3, ReturnedIs DEF TermRest
  <2> QED BY <1>1, <2>1, GivesBy
<1>4. ASSUME Peek(s, p) \notin {"+", "-"} PROVE Gives(s, Loop("sums", t, p), Parsed(t, p))
  <2>1. \A read : Returned(s, read, Loop("sums", t, p)) = Parsed(t, p)
    BY <1>4, ReturnedIs DEF ExpressionRest
  <2> QED BY <1>1, <2>1, GivesBy
<1> QED BY <1>2, <1>3, <1>4

(* Wherever the text u stands in s, the parser reads it as the tree t, at  *)
(* the level k of the grammar: as a primary (5), as the beginning of the   *)
(* rolls of a factor (4), as a factor (3), as the beginning of a term (2)  *)
(* or of an expression (1).  The last two and 3 do not hold where the text *)
(* that follows belongs to the last operand.                               *)
ReadsPrimary(s, p, q, t) == /\ Peek(s, p) \in {"number", "("}
                            /\ Gives(s, Call("primary", p), Parsed(t, q))
ReadsRolls(s, p, q, t) ==
    \A x : Gives(s, Loop("rolls", t, q), x) => Gives(s, Call("factor", p), x)
ReadsFactor(s, p, q, t) == Peek(s, q) # "d" => Gives(s, Call("factor", p), Parsed(t, q))
ReadsProducts(s, p, q, t) ==
    Peek(s, q) # "d" =>
        \A x : Gives(s, Loop("products", t, q), x) => Gives(s, Call("term", p), x)
ReadsSums(s, p, q, t) ==
    Peek(s, q) \notin {"d", "*", "/"} =>
        \A x : Gives(s, Loop("sums", t, q), x) => Gives(s, Call("expression", p), x)

ReadsAt(s, p, q, t, k) == IF k = 5 THEN ReadsPrimary(s, p, q, t)
                          ELSE IF k = 4 THEN ReadsRolls(s, p, q, t)
                          ELSE IF k = 3 THEN ReadsFactor(s, p, q, t)
                          ELSE IF k = 2 THEN ReadsProducts(s, p, q, t)
                          ELSE ReadsSums(s, p, q, t)

Reads(s, u, t, k) ==
    /\ u \in Texts /\ Len(u) > 0
    /\ \A p \in Nat \ {0} : Stands(s, p, u) => ReadsAt(s, p, p + Len(u), t, k)

Between(s, p, q) == p \in Nat \ {0} /\ q \in Nat /\ p < q /\ q <= Len(s) + 1

-----------------------------------------------------------------------------
(* What is read at a level of the grammar is read at the lower ones.       *)
LEMMA Weaker ==
    ASSUME NEW s \in Texts, NEW p, NEW q, Between(s, p, q), NEW t \in Tree
    PROVE /\ ReadsPrimary(s, p, q, t) => ReadsRolls(s, p, q, t)
          /\ ReadsRolls(s, p, q, t) => ReadsFactor(s, p, q, t)
          /\ ReadsFactor(s, p, q, t) => ReadsProducts(s, p, q, t)
          /\ ReadsProducts(s, p, q, t) => ReadsSums(s, p, q, t)
<1>1. p \in Nat \ {0} /\ q \in Nat \ {0} /\ p < q /\ q <= Len(s) + 1
  BY DEF Between
<1>2. ReadsPrimary(s, p, q, t) => ReadsRolls(s, p, q, t)
  BY <1>1, GivesFactor DEF ReadsPrimary, ReadsRolls
<1>3. ReadsRolls(s, p, q, t) => ReadsFactor(s, p, q, t)
  BY <1>1, GivesEnd DEF ReadsRolls, ReadsFactor
<1>4. ReadsFactor(s, p, q, t) => ReadsProducts(s, p, q, t)
  BY <1>1, GivesTerm DEF ReadsFactor, ReadsProducts
<1>5. ASSUME ReadsProducts(s, p, q, t) PROVE ReadsSums(s, p, q, t)
  <2> SUFFICES ASSUME Peek(s, q) \notin {"d", "*", "/"}, NEW x, Gives(s, Loop("sums", t, q), x)
               PROVE Gives(s, Call("expression", p), x)
    BY DEF ReadsSums
  <2>1. Gives(s, Loop("products", t, q), Parsed(t, q))
    BY <1>1, GivesEnd
  <2>2. Gives(s, Call("term", p), Parsed(t, q))
    BY <1>5, <2>1 DEF ReadsProducts
  <2> QED BY <1>1, <2>2, GivesExpression
<1> QED BY <1>2, <1>3, <1>4, <1>5

(* A text that stands somewhere is read there.                             *)
LEMMA StandsBetween ==
    ASSUME NEW s \in Texts, NEW u \in Texts, Len(u) > 0, NEW p \in Nat \ {0}, Stands(s, p, u)
    PROVE Between(s, p, p + Len(u))
BY DEF Between, Stands, Texts

LEMMA ReadsThere ==
    ASSUME NEW s, NEW u, NEW t, NEW k, Reads(s, u, t, k), NEW p \in Nat \ {0}, Stands(s, p, u)
    PROVE ReadsAt(s, p, p + Len(u), t, k)
BY DEF Reads

LEMMA ReadsWeaker ==
    ASSUME NEW s \in Texts, NEW u, NEW t \in Tree, NEW k \in 1..5, NEW l \in 1..5, l <= k,
           Reads(s, u, t, k)
    PROVE Reads(s, u, t, l)
<1>1. u \in Texts /\ Len(u) > 0
  BY DEF Reads
<1>2. ASSUME NEW p \in Nat \ {0}, Stands(s, p, u) PROVE ReadsAt(s, p, p + Len(u), t, l)
  <2>1. ReadsAt(s, p, p + Len(u), t, k)
    BY <1>2 DEF Reads
  <2>2. Between(s, p, p + Len(u))
    BY <1>1, <1>2, StandsBetween
  <2> QED BY <2>1, <2>2, Weaker DEF ReadsAt
<1> QED BY <1>1, <1>2 DEF Reads

(* What follows a text that is read as an expression is not an operator,   *)
(* or nothing.                                                             *)
LEMMA ReadsExpression ==
    ASSUME NEW s \in Texts, NEW u, NEW t \in Tree, Reads(s, u, t, 1),
           NEW p \in Nat \ {0}, Stands(s, p, u), Peek(s, p + Len(u)) \in {")", "eof"}
    PROVE Gives(s, Call("expression", p), Parsed(t, p + Len(u)))
<1> DEFINE q == p + Len(u)
<1>1. u \in Texts /\ Len(u) > 0 /\ ReadsSums(s, p, q, t)
  BY DEF Reads, ReadsAt
<1>2. Between(s, p, q)
  BY <1>1, StandsBetween
<1> HIDE DEF q
<1>3. q \in Nat \ {0} /\ q <= Len(s) + 1
  BY <1>2 DEF Between
<1>4. Peek(s, q) \in {")", "eof"}
  BY DEF q
<1>5. Gives(s, Loop("sums", t, q), Parsed(t, q))
  BY <1>3, <1>4, GivesEnd
<1>6. Gives(s, Call("expression", p), Parsed(t, q))
  BY <1>1, <1>4, <1>5 DEF ReadsSums
<1> QED BY <1>6 DEF q

(* Tokens and texts.                                                       *)
LEMMA TokIs ==
    ASSUME NEW ty \in {"+", "-", "*", "/", "d", "(", ")"}
    PROVE Tok(ty) \in Texts /\ Len(Tok(ty)) = 1 /\ Tok(ty) = <<[type |-> ty, value |-> 0]>>
<1>1. Tok(ty) = <<[type |-> ty, value |-> 0]>>
  BY DEF Tok
<1>2. [type |-> ty, value |-> 0] \in [type : {"number", "+", "-", "*", "/", "d", "(", ")"}, value : Nat]
  OBVIOUS
<1> QED BY <1>1, <1>2 DEF Texts

LEMMA StandsTok ==
    ASSUME NEW s \in Texts, NEW p \in Nat \ {0}, NEW ty \in {"+", "-", "*", "/", "d", "(", ")"},
           Stands(s, p, Tok(ty))
    PROVE p <= Len(s) /\ s[p].type = ty /\ Peek(s, p) = ty
<1>1. p \in 1..Len(s) /\ s[p] = [type |-> ty, value |-> 0] /\ Peek(s, p) = s[p].type
  BY TokIs, StandsToken
<1> QED BY <1>1

LEMMA JoinedText ==
    ASSUME NEW u \in Texts, NEW v \in Texts
    PROVE u \o v \in Texts /\ Len(u \o v) = Len(u) + Len(v) /\ Len(u) \in Nat /\ Len(v) \in Nat
<1> DEFINE T == [type : {"number", "+", "-", "*", "/", "d", "(", ")"}, value : Nat]
<1>1. u \in Seq(T) /\ v \in Seq(T)
  BY DEF Texts
<1>2. \A S : u \in Seq(S) /\ v \in Seq(S)
             => u \o v \in Seq(S) /\ Len(u \o v) = Len(u) + Len(v) /\ Len(u) \in Nat /\ Len(v) \in Nat
  OBVIOUS
<1> QED BY <1>1, <1>2 DEF Texts

(* A number, and a text in brackets, are primaries.                        *)
LEMMA ReadsNumber ==
    ASSUME NEW s \in Texts, NEW n \in Nat
    PROVE Reads(s, Num(n), MakeNumber(n), 5)
<1>1. Num(n) = <<[type |-> "number", value |-> n]>> /\ Num(n) \in Texts /\ Len(Num(n)) = 1
  <2>1. [type |-> "number", value |-> n] \in [type : {"number", "+", "-", "*", "/", "d", "(", ")"}, value : Nat]
    OBVIOUS
  <2> QED BY <2>1 DEF Num, Texts
<1>2. ASSUME NEW p \in Nat \ {0}, Stands(s, p, Num(n)) PROVE ReadsPrimary(s, p, p + 1, MakeNumber(n))
  <2>1. p \in 1..Len(s) /\ s[p] = [type |-> "number", value |-> n] /\ Peek(s, p) = s[p].type
    BY <1>1, <1>2, StandsToken
  <2>2. Gives(s, Call("primary", p), Parsed(MakeNumber(s[p].value), p + 1))
    BY <2>1, GivesNumber
  <2> QED BY <2>1, <2>2 DEF ReadsPrimary
<1> QED BY <1>1, <1>2 DEF Reads, ReadsAt

LEMMA ReadsBracketed ==
    ASSUME NEW s \in Texts, NEW u, NEW t \in Tree, Reads(s, u, t, 1)
    PROVE Reads(s, Bracketed(u), t, 5)
<1>1. u \in Texts /\ Len(u) \in Nat /\ Len(u) > 0
  BY DEF Reads, Texts
<1>2. /\ Tok("(") \o u \in Texts /\ Bracketed(u) \in Texts
      /\ Len(Tok("(") \o u) = Len(u) + 1 /\ Len(Bracketed(u)) = Len(u) + 2
  <2>1. Tok("(") \in Texts /\ Len(Tok("(")) = 1 /\ Tok(")") \in Texts /\ Len(Tok(")")) = 1
    BY TokIs
  <2>2. Tok("(") \o u \in Texts /\ Len(Tok("(") \o u) = 1 + Len(u)
    BY <1>1, <2>1, JoinedText
  <2>3. Bracketed(u) \in Texts /\ Len(Bracketed(u)) = Len(Tok("(") \o u) + 1
    BY <2>1, <2>2, JoinedText DEF Bracketed
  <2> QED BY <1>1, <2>2, <2>3
<1>3. ASSUME NEW p \in Nat \ {0}, Stands(s, p, Bracketed(u))
      PROVE ReadsPrimary(s, p, p + Len(Bracketed(u)), t)
  <2>1. Stands(s, p, Tok("(") \o u) /\ Stands(s, p + (Len(u) + 1), Tok(")"))
    BY <1>2, <1>3, TokIs, StandsJoinedText DEF Bracketed
  <2>2. Stands(s, p, Tok("(")) /\ Stands(s, p + 1, u)
    BY <1>1, <2>1, TokIs, StandsJoinedText
  <2> DEFINE q == (p + 1) + Len(u)
  <2>3. q \in Nat /\ q = p + (Len(u) + 1) /\ p + Len(Bracketed(u)) = q + 1 /\ q # 0
        /\ p + 1 \in Nat \ {0}
    BY <1>1, <1>2
  <2>4. p <= Len(s) /\ s[p].type = "(" /\ Peek(s, p) = "("
    BY <2>2, StandsTok
  <2>5. q <= Len(s) /\ s[q].type = ")" /\ Peek(s, q) = ")"
    <3> HIDE DEF q
    <3> QED BY <2>1, <2>3, StandsTok
  <2>6. Gives(s, Call("expression", p + 1), Parsed(t, q))
    BY <2>2, <2>3, <2>5, ReadsExpression
  <2>7. Gives(s, Call("primary", p), Parsed(t, q + 1))
    <3> HIDE DEF q
    <3> QED BY <2>3, <2>4, <2>5, <2>6, GivesBracketed
  <2> QED BY <2>3, <2>4, <2>7 DEF ReadsPrimary
<1> QED BY <1>1, <1>2, <1>3 DEF Reads, ReadsAt

(* A negation is a factor.                                                 *)
LEMMA ReadsMinus ==
    ASSUME NEW s \in Texts, NEW u, NEW t, Reads(s, u, t, 3)
    PROVE Reads(s, Tok("-") \o u, MakeUnaryMinus(t), 3)
<1>1. u \in Texts /\ Len(u) \in Nat /\ Len(u) > 0
  BY DEF Reads, Texts
<1>2. Tok("-") \o u \in Texts /\ Len(Tok("-") \o u) = Len(u) + 1
  <2>1. Tok("-") \in Texts /\ Len(Tok("-")) = 1
    BY TokIs
  <2>2. Tok("-") \o u \in Texts /\ Len(Tok("-") \o u) = 1 + Len(u)
    BY <1>1, <2>1, JoinedText
  <2> QED BY <1>1, <2>2
<1>3. ASSUME NEW p \in Nat \ {0}, Stands(s, p, Tok("-") \o u)
      PROVE ReadsFactor(s, p, p + (Len(u) + 1), MakeUnaryMinus(t))
  <2>1. Stands(s, p, Tok("-")) /\ Stands(s, p + 1, u)
    BY <1>1, <1>3, TokIs, StandsJoinedText
  <2>2. p <= Len(s) /\ s[p].type = "-"
    BY <2>1, StandsTok
  <2>3. p + 1 \in Nat \ {0} /\ (p + 1) + Len(u) = p + (Len(u) + 1)
    BY <1>1
  <2>4. ReadsFactor(s, p + 1, (p + 1) + Len(u), t)
    BY <2>1, <2>3 DEF Reads, ReadsAt
  <2> QED BY <2>2, <2>3, <2>4, GivesMinus DEF ReadsFactor
<1> QED BY <1>1, <1>2, <1>3 DEF Reads, ReadsAt

(* The sides of a roll: a primary, or its negation.                        *)
ReadsSides(s, v, b) ==
    /\ v \in Texts /\ Len(v) > 0
    /\ \A p \in Nat \ {0} : Stands(s, p, v) => Gives(s, Signs(FALSE, p), Parsed(b, p + Len(v)))

(* Sides without a sign, and with one.                                     *)
LEMMA ReadsPlainSides ==
    ASSUME NEW s \in Texts, NEW v, NEW b, Reads(s, v, b, 5)
    PROVE ReadsSides(s, v, b)
<1>1. v \in Texts /\ Len(v) > 0
  BY DEF Reads
<1>2. ASSUME NEW p \in Nat \ {0}, Stands(s, p, v)
      PROVE Gives(s, Signs(FALSE, p), Parsed(b, p + Len(v)))
  <2>1. ReadsPrimary(s, p, p + Len(v), b)
    BY <1>2 DEF Reads, ReadsAt
  <2>2. p <= Len(s)
    BY <1>1, <1>2 DEF Stands, Texts
  <2>3. FALSE \in BOOLEAN /\ (IF FALSE THEN MakeUnaryMinus(b) ELSE b) = b
    OBVIOUS
  <2>4. Peek(s, p) \in {"number", "("} /\ Gives(s, Call("primary", p), Parsed(b, p + Len(v)))
    BY <2>1 DEF ReadsPrimary
  <2>5. Gives(s, Signs(FALSE, p), Parsed(IF FALSE THEN MakeUnaryMinus(b) ELSE b, p + Len(v)))
    BY <2>2, <2>3, <2>4, GivesSides
  <2> QED BY <2>5
<1> QED BY <1>1, <1>2 DEF ReadsSides

LEMMA ReadsNegativeSides ==
    ASSUME NEW s \in Texts, NEW v, NEW b, Reads(s, v, b, 5)
    PROVE ReadsSides(s, Tok("-") \o v, MakeUnaryMinus(b))
<1>1. v \in Texts /\ Len(v) \in Nat /\ Len(v) > 0
  BY DEF Reads, Texts
<1>2. Tok("-") \o v \in Texts /\ Len(Tok("-") \o v) = Len(v) + 1
  <2>1. Tok("-") \in Texts /\ Len(Tok("-")) = 1
    BY TokIs
  <2>2. Tok("-") \o v \in Texts /\ Len(Tok("-") \o v) = 1 + Len(v)
    BY <1>1, <2>1, JoinedText
  <2> QED BY <1>1, <2>2
<1>3. ASSUME NEW p \in Nat \ {0}, Stands(s, p, Tok("-") \o v)
      PROVE Gives(s, Signs(FALSE, p), Parsed(MakeUnaryMinus(b), p + (Len(v) + 1)))
  <2>1. Stands(s, p, Tok("-")) /\ Stands(s, p + 1, v)
    BY <1>1, <1>3, TokIs, StandsJoinedText
  <2>2. p <= Len(s) /\ s[p].type = "-"
    BY <2>1, StandsTok
  <2> DEFINE q == p + (Len(v) + 1)
  <2>3. p + 1 \in Nat \ {0} /\ (p + 1) + Len(v) = q
    BY <1>1
  <2>4. ReadsPrimary(s, p + 1, q, b)
    BY <2>1, <2>3 DEF Reads, ReadsAt
  <2>5. p + 1 <= Len(s)
    BY <1>1, <2>1 DEF Stands, Texts
  <2> HIDE DEF q
  <2>6. Peek(s, p + 1) \in {"number", "("} /\ Gives(s, Call("primary", p + 1), Parsed(b, q))
    BY <2>4 DEF ReadsPrimary
  <2>7. TRUE \in BOOLEAN /\ (IF TRUE THEN MakeUnaryMinus(b) ELSE b) = MakeUnaryMinus(b)
    OBVIOUS
  <2>8. Gives(s, Signs(TRUE, p + 1), Parsed(IF TRUE THEN MakeUnaryMinus(b) ELSE b, q))
    BY <2>3, <2>5, <2>6, <2>7, GivesSides
  <2>9. Gives(s, Signs(FALSE, p), Parsed(MakeUnaryMinus(b), q))
    BY <2>2, <2>7, <2>8, GivesSigned
  <2> QED BY <2>9 DEF q
<1> DEFINE w == Tok("-") \o v
<1>4. \A p \in Nat \ {0} : Stands(s, p, w) => Gives(s, Signs(FALSE, p), Parsed(MakeUnaryMinus(b), p + Len(w)))
  BY <1>2, <1>3
<1>5. w \in Texts /\ Len(w) > 0
  BY <1>1, <1>2
<1> HIDE DEF w
<1>6. ReadsSides(s, w, MakeUnaryMinus(b))
  BY <1>4, <1>5 DEF ReadsSides
<1> QED BY <1>6 DEF w

Infix == {"+", "-", "*", "/", "d"}

(* Three texts in a row.                                                   *)
LEMMA StandsThree ==
    ASSUME NEW s \in Texts, NEW u \in Texts, NEW v \in Texts,
           NEW ty \in Infix
    PROVE /\ u \o Tok(ty) \o v \in Texts
          /\ Len(u \o Tok(ty) \o v) = (Len(u) + 1) + Len(v)
          /\ \A p \in Nat \ {0} : Stands(s, p, u \o Tok(ty) \o v) =>
                /\ Stands(s, p, u) /\ Stands(s, (p + Len(u)) + 1, v)
                /\ p + Len(u) <= Len(s) /\ s[p + Len(u)].type = ty /\ Peek(s, p + Len(u)) = ty
                /\ p + Len(u \o Tok(ty) \o v) = ((p + Len(u)) + 1) + Len(v)
<1>0. ty \in {"+", "-", "*", "/", "d", "(", ")"}
  BY DEF Infix
<1>1. Tok(ty) \in Texts /\ Len(Tok(ty)) = 1
  BY <1>0, TokIs
<1>2. u \o Tok(ty) \in Texts /\ Len(u \o Tok(ty)) = Len(u) + 1 /\ Len(u) \in Nat /\ Len(v) \in Nat
  <2>1. Len(u) \in Nat /\ Len(v) \in Nat
    BY DEF Texts
  <2>2. u \o Tok(ty) \in Texts /\ Len(u \o Tok(ty)) = Len(u) + Len(Tok(ty))
    BY <1>1, JoinedText
  <2> QED BY <1>1, <2>1, <2>2
<1>3. /\ (u \o Tok(ty)) \o v \in Texts
      /\ Len((u \o Tok(ty)) \o v) = (Len(u) + 1) + Len(v)
  <2> DEFINE w == u \o Tok(ty)
  <2>1. w \in Texts /\ Len(w) = Len(u) + 1
    BY <1>2
  <2> HIDE DEF w
  <2>2. w \o v \in Texts /\ Len(w \o v) = Len(w) + Len(v)
    BY <2>1, JoinedText
  <2> QED BY <2>1, <2>2 DEF w
<1>4. ASSUME NEW p \in Nat \ {0}, Stands(s, p, (u \o Tok(ty)) \o v)
      PROVE /\ Stands(s, p, u) /\ Stands(s, (p + Len(u)) + 1, v)
            /\ p + Len(u) <= Len(s) /\ s[p + Len(u)].type = ty /\ Peek(s, p + Len(u)) = ty
  <2>1. Stands(s, p, u \o Tok(ty)) /\ Stands(s, p + (Len(u) + 1), v)
    BY <1>2, <1>4, StandsJoinedText
  <2>2. Stands(s, p, u) /\ Stands(s, p + Len(u), Tok(ty))
    BY <1>1, <2>1, StandsJoinedText
  <2>3. p + Len(u) \in Nat \ {0} /\ p + (Len(u) + 1) = (p + Len(u)) + 1
    BY <1>2
  <2> QED BY <1>0, <2>1, <2>2, <2>3, StandsTok
<1>5. \A p \in Nat \ {0} : p + ((Len(u) + 1) + Len(v)) = ((p + Len(u)) + 1) + Len(v)
  BY <1>2
<1> QED BY <1>3, <1>4, <1>5

(* Two operands and their operator, each in its place.                     *)
LEMMA StandsApart ==
    ASSUME NEW s \in Texts, NEW u \in Texts, NEW v \in Texts, NEW ty \in Infix,
           NEW p \in Nat \ {0}, Stands(s, p, u \o Tok(ty) \o v)
    PROVE /\ Stands(s, p, u) /\ Stands(s, (p + Len(u)) + 1, v)
          /\ p + Len(u) <= Len(s) /\ s[p + Len(u)].type = ty /\ Peek(s, p + Len(u)) = ty
          /\ p + Len(u \o Tok(ty) \o v) = ((p + Len(u)) + 1) + Len(v)
BY StandsThree

(* A roll, a product and a sum are read from their operands.               *)
LEMMA ReadsRoll ==
    ASSUME NEW s \in Texts, NEW u, NEW v, NEW a \in Tree, NEW b, MakeDiceRoll(a, b) \in Tree,
           Reads(s, u, a, 4), ReadsSides(s, v, b)
    PROVE Reads(s, u \o Tok("d") \o v, MakeDiceRoll(a, b), 4)
<1> DEFINE w == u \o Tok("d") \o v
<1>0. "d" \in Infix
  BY DEF Infix
<1>1. u \in Texts /\ Len(u) \in Nat /\ Len(u) > 0 /\ v \in Texts /\ Len(v) \in Nat /\ Len(v) > 0
  BY DEF Reads, ReadsSides, Texts
<1>2. w \in Texts /\ Len(w) > 0
  <2>1. w \in Texts /\ Len(w) = (Len(u) + 1) + Len(v)
    BY <1>0, <1>1, StandsThree
  <2> QED BY <1>1, <2>1
<1>3. ASSUME NEW p \in Nat \ {0}, Stands(s, p, w) PROVE ReadsRolls(s, p, p + Len(w), MakeDiceRoll(a, b))
  <2> DEFINE q == p + Len(u)
             r == (q + 1) + Len(v)
  <2>1. /\ Stands(s, p, u) /\ Stands(s, q + 1, v) /\ q <= Len(s) /\ s[q].type = "d"
        /\ p + Len(w) = r
    BY <1>0, <1>1, <1>3, StandsApart
  <2>2. q \in Nat \ {0} /\ q + 1 \in Nat \ {0} /\ r \in Nat /\ q < r /\ r <= Len(s) + 1
    <3>1. q \in Nat \ {0} /\ q + 1 \in Nat \ {0}
      BY <1>1
    <3>2. Between(s, q + 1, r)
      BY <1>1, <2>1, <3>1, StandsBetween
    <3> HIDE DEF q, r
    <3> QED BY <3>1, <3>2 DEF Between
  <2>3. ReadsRolls(s, p, q, a)
    BY <2>1 DEF Reads, ReadsAt
  <2>4. Gives(s, Signs(FALSE, q + 1), Parsed(b, r))
    BY <2>1, <2>2 DEF ReadsSides
  <2> HIDE DEF q, r, w
  <2>5. ASSUME NEW x, Gives(s, Loop("rolls", MakeDiceRoll(a, b), r), x) PROVE Gives(s, Call("factor", p), x)
    <3>1. Gives(s, Loop("rolls", a, q), x)
      BY <2>1, <2>2, <2>4, <2>5, GivesRolls
    <3> QED BY <2>3, <3>1 DEF ReadsRolls
  <2> QED BY <2>1, <2>5 DEF ReadsRolls
<1> HIDE DEF w
<1>4. Reads(s, w, MakeDiceRoll(a, b), 4)
  BY <1>2, <1>3 DEF Reads, ReadsAt
<1> QED BY <1>4 DEF w

LEMMA ReadsProduct ==
    ASSUME NEW s \in Texts, NEW u, NEW v, NEW a \in Tree, NEW b, NEW op \in {"*", "/"},
           MakeBinaryOp(op, a, b) \in Tree, Reads(s, u, a, 2), Reads(s, v, b, 3)
    PROVE Reads(s, u \o Tok(op) \o v, MakeBinaryOp(op, a, b), 2)
<1> DEFINE w == u \o Tok(op) \o v
<1>0. op \in Infix
  BY DEF Infix
<1>1. u \in Texts /\ Len(u) \in Nat /\ Len(u) > 0 /\ v \in Texts /\ Len(v) \in Nat /\ Len(v) > 0
  BY DEF Reads, Texts
<1>2. w \in Texts /\ Len(w) > 0
  <2>1. w \in Texts /\ Len(w) = (Len(u) + 1) + Len(v)
    BY <1>0, <1>1, StandsThree
  <2> QED BY <1>1, <2>1
<1>3. ASSUME NEW p \in Nat \ {0}, Stands(s, p, w), Peek(s, p + Len(w)) # "d"
      PROVE ReadsProducts(s, p, p + Len(w), MakeBinaryOp(op, a, b))
  <2> DEFINE q == p + Len(u)
             r == (q + 1) + Len(v)
  <2>1. /\ Stands(s, p, u) /\ Stands(s, q + 1, v)
        /\ q <= Len(s) /\ s[q].type = op /\ Peek(s, q) = op
        /\ p + Len(w) = r
    BY <1>0, <1>1, <1>3, StandsApart
  <2>2. q \in Nat \ {0} /\ q + 1 \in Nat \ {0} /\ r \in Nat /\ q < r /\ r <= Len(s) + 1
    <3>1. q \in Nat \ {0} /\ q + 1 \in Nat \ {0}
      BY <1>1
    <3>2. Between(s, q + 1, r)
      BY <1>1, <2>1, <3>1, StandsBetween
    <3> HIDE DEF q, r
    <3> QED BY <3>1, <3>2 DEF Between
  <2>3. ReadsProducts(s, p, q, a) /\ ReadsFactor(s, q + 1, r, b)
    <3>1. ReadsAt(s, p, q, a, 2)
      BY <2>1, ReadsThere
    <3>2. ReadsAt(s, q + 1, r, b, 3)
      BY <2>1, <2>2, ReadsThere
    <3> HIDE DEF q, r
    <3> QED BY <3>1, <3>2 DEF ReadsAt
  <2> HIDE DEF q, r, w
  <2>4. Gives(s, Call("factor", q + 1), Parsed(b, r))
    BY <1>3, <2>1, <2>3 DEF ReadsFactor
  <2>5. ASSUME NEW x, Gives(s, Loop("products", MakeBinaryOp(op, a, b), r), x)
        PROVE Gives(s, Call("term", p), x)
    <3>1. Gives(s, Loop("products", a, q), x)
      BY <2>1, <2>2, <2>4, <2>5, GivesProducts
    <3>2. Peek(s, q) # "d"
      BY <2>1
    <3> QED BY <2>3, <3>1, <3>2 DEF ReadsProducts
  <2> QED BY <2>1, <2>5 DEF ReadsProducts
<1>4. \A p \in Nat \ {0} : Stands(s, p, w) => ReadsProducts(s, p, p + Len(w), MakeBinaryOp(op, a, b))
  BY <1>3 DEF ReadsProducts
<1> HIDE DEF w
<1>5. Reads(s, w, MakeBinaryOp(op, a, b), 2)
  BY <1>2, <1>4 DEF Reads, ReadsAt
<1> QED BY <1>5 DEF w

LEMMA ReadsSum ==
    ASSUME NEW s \in Texts, NEW u, NEW v, NEW a \in Tree, NEW b \in Tree, NEW op \in {"+", "-"},
           MakeBinaryOp(op, a, b) \in Tree, Reads(s, u, a, 1), Reads(s, v, b, 2)
    PROVE Reads(s, u \o Tok(op) \o v, MakeBinaryOp(op, a, b), 1)
<1> DEFINE w == u \o Tok(op) \o v
<1>0. op \in Infix
  BY DEF Infix
<1>1. u \in Texts /\ Len(u) \in Nat /\ Len(u) > 0 /\ v \in Texts /\ Len(v) \in Nat /\ Len(v) > 0
  BY DEF Reads, Texts
<1>2. w \in Texts /\ Len(w) > 0
  <2>1. w \in Texts /\ Len(w) = (Len(u) + 1) + Len(v)
    BY <1>0, <1>1, StandsThree
  <2> QED BY <1>1, <2>1
<1>3. ASSUME NEW p \in Nat \ {0}, Stands(s, p, w), Peek(s, p + Len(w)) \notin {"d", "*", "/"}
      PROVE ReadsSums(s, p, p + Len(w), MakeBinaryOp(op, a, b))
  <2> DEFINE q == p + Len(u)
             r == (q + 1) + Len(v)
  <2>1. /\ Stands(s, p, u) /\ Stands(s, q + 1, v)
        /\ q <= Len(s) /\ s[q].type = op /\ Peek(s, q) = op
        /\ p + Len(w) = r
    BY <1>0, <1>1, <1>3, StandsApart
  <2>2. /\ q \in Nat \ {0} /\ q + 1 \in Nat \ {0} /\ r \in Nat \ {0}
        /\ q < r /\ r <= Len(s) + 1
    <3>1. q \in Nat \ {0} /\ q + 1 \in Nat \ {0}
      BY <1>1
    <3>2. Between(s, q + 1, r)
      BY <1>1, <2>1, <3>1, StandsBetween
    <3> HIDE DEF q, r
    <3> QED BY <3>1, <3>2 DEF Between
  <2>3. ReadsSums(s, p, q, a) /\ ReadsProducts(s, q + 1, r, b)
    <3>1. ReadsAt(s, p, q, a, 1)
      BY <2>1, ReadsThere
    <3>2. ReadsAt(s, q + 1, r, b, 2)
      BY <2>1, <2>2, ReadsThere
    <3> HIDE DEF q, r
    <3> QED BY <3>1, <3>2 DEF ReadsAt
  <2> HIDE DEF q, r, w
  <2>4. Gives(s, Call("term", q + 1), Parsed(b, r))
    <3>1. Gives(s, Loop("products", b, r), Parsed(b, r))
      BY <1>3, <2>1, <2>2, GivesEnd
    <3> QED BY <1>3, <2>1, <2>3, <3>1 DEF ReadsProducts
  <2>5. ASSUME NEW x, Gives(s, Loop("sums", MakeBinaryOp(op, a, b), r), x)
        PROVE Gives(s, Call("expression", p), x)
    <3>1. Gives(s, Loop("sums", a, q), x)
      BY <2>1, <2>2, <2>4, <2>5, GivesSums
    <3>2. Peek(s, q) \notin {"d", "*", "/"}
      BY <2>1
    <3> QED BY <2>3, <3>1, <3>2 DEF ReadsSums
  <2> QED BY <2>1, <2>5 DEF ReadsSums
<1>4. \A p \in Nat \ {0} : Stands(s, p, w) => ReadsSums(s, p, p + Len(w), MakeBinaryOp(op, a, b))
  BY <1>3 DEF ReadsSums
<1> HIDE DEF w
<1>5. Reads(s, w, MakeBinaryOp(op, a, b), 1)
  BY <1>2, <1>4 DEF Reads, ReadsAt
<1> QED BY <1>5 DEF w

(* Every typed expression is read back: a tree is typed at its own level.  *)
LEMMA WithinReads ==
    ASSUME NEW s \in Texts, NEW t \in Tree, NEW u, NEW k \in 1..5,
           Reads(s, u, t, Level(t))
    PROVE Reads(s, Within(t, u, k), t, k)
<1>0. Level(t) \in 1..5
  BY DEF Level
<1>1. CASE Level(t) >= k
  BY <1>0, <1>1, ReadsWeaker DEF Within
<1>2. CASE Level(t) < k
  <2>1. Reads(s, u, t, 1)
    BY <1>0, ReadsWeaker
  <2>2. Reads(s, Bracketed(u), t, k)
    BY <2>1, ReadsBracketed, ReadsWeaker
  <2> QED BY <1>2, <2>2 DEF Within
<1> QED BY <1>0, <1>1, <1>2

(* A tree is read from its text at its own level, by induction over its    *)
(* parts.                                                                  *)
LEMMA TypedAt == ASSUME NEW t \in Tree PROVE TypedText[t] = TypedBody(TypedText, t)
BY TypedDef

LEMMA TypedReads ==
    ASSUME NEW s \in Texts
    PROVE \A t \in Tree : Reads(s, TypedText[t], t, Level(t))
<1> DEFINE Read(t) == Reads(s, TypedText[t], t, Level(t))
           S == {t \in Tree : Read(t) /\ \A u \in Parts(t) : Read(u)}
<1>1. ASSUME NEW t \in Tree, Parts(t) \subseteq S PROVE t \in S
  <2>0. /\ TypedText[t] = TypedBody(TypedText, t)
        /\ Parts(t) \subseteq Tree
        /\ \A u \in Parts(t) : \A k \in 1..5 : Reads(s, Within(u, TypedText[u], k), u, k)
    <3>1. Parts(t) \subseteq Tree
      BY TreeParts
    <3> QED BY <1>1, <3>1, TypedAt, WithinReads
  <2>5. \A u \in Parts(t) : Read(u) /\ \A v \in Parts(u) : Read(v)
    BY <1>1
  <2> SUFFICES Reads(s, TypedText[t], t, Level(t))
    BY <2>5
  <2> HIDE DEF S
  <2>1. CASE t.kind = "number"
    <3>1. t = MakeNumber(t.value) /\ t.value \in Nat
      BY <2>1, TreeParts
    <3>2. TypedText[t] = Num(t.value) /\ Level(t) = 5
      BY <2>0, <2>1 DEF TypedBody, Level
    <3> QED BY <3>1, <3>2, ReadsNumber
  <2>2. CASE t.kind = "minus"
    <3>1. t = MakeUnaryMinus(t.left) /\ t.left \in Parts(t)
      BY <2>2, TreeParts DEF Parts
    <3>2. TypedText[t] = Tok("-") \o Within(t.left, TypedText[t.left], 3) /\ Level(t) = 3
      BY <2>0, <2>2 DEF TypedBody, Level
    <3>3. Reads(s, Within(t.left, TypedText[t.left], 3), t.left, 3)
      BY <2>0, <3>1
    <3> QED BY <3>1, <3>2, <3>3, ReadsMinus
  <2>3. CASE t.kind = "roll"
    <3>1. t = MakeDiceRoll(t.left, t.right) /\ t.left \in Parts(t) /\ t.right \in Parts(t)
      BY <2>3, TreeParts DEF Parts
    <3>2. Level(t) = 4
      BY <2>3 DEF Level
    <3> DEFINE v == IF t.right.kind = "minus"
                    THEN Tok("-") \o Within(t.right.left, TypedText[t.right.left], 5)
                    ELSE Within(t.right, TypedText[t.right], 5)
    <3>3. TypedText[t] = Within(t.left, TypedText[t.left], 4) \o Tok("d") \o v
      BY <2>0, <2>3 DEF TypedBody
    <3>4. ReadsSides(s, v, t.right)
      <4>1. CASE t.right.kind = "minus"
        <5>1. t.right = MakeUnaryMinus(t.right.left) /\ t.right.left \in Parts(t.right)
          BY <2>0, <3>1, <4>1, TreeParts DEF Parts
        <5>2. t.right.left \in Tree
          BY <2>0, <3>1, <5>1, TreeParts
        <5>3. Reads(s, TypedText[t.right.left], t.right.left, Level(t.right.left))
          BY <2>5, <3>1, <5>1
        <5>4. Reads(s, Within(t.right.left, TypedText[t.right.left], 5), t.right.left, 5)
          BY <5>2, <5>3, WithinReads
        <5>5. ReadsSides(s, Tok("-") \o Within(t.right.left, TypedText[t.right.left], 5),
                         MakeUnaryMinus(t.right.left))
          BY <5>4, ReadsNegativeSides
        <5> QED BY <4>1, <5>1, <5>5
      <4>2. CASE t.right.kind # "minus"
        <5>1. Reads(s, Within(t.right, TypedText[t.right], 5), t.right, 5)
          BY <2>0, <3>1
        <5> QED BY <4>2, <5>1, ReadsPlainSides
      <4> QED BY <4>1, <4>2
    <3>5. Reads(s, Within(t.left, TypedText[t.left], 4), t.left, 4)
      BY <2>0, <3>1
    <3> HIDE DEF v
    <3> QED BY <2>0, <3>1, <3>2, <3>3, <3>4, <3>5, ReadsRoll
  <2>4. CASE t.kind = "binary"
    <3>1. /\ t = MakeBinaryOp(t.op, t.left, t.right) /\ t.op \in Op
          /\ t.left \in Parts(t) /\ t.right \in Parts(t)
      BY <2>4, TreeParts DEF Parts
    <3>2. TypedText[t] = Within(t.left, TypedText[t.left], Level(t)) \o Tok(t.op) \o
                     Within(t.right, TypedText[t.right], Level(t) + 1)
      BY <2>0, <2>4 DEF TypedBody
    <3>3. CASE t.op \in {"*", "/"}
      <4>1. Level(t) = 2 /\ Level(t) + 1 = 3
        BY <2>4, <3>3 DEF Level
      <4>2. Reads(s, Within(t.left, TypedText[t.left], 2), t.left, 2)
            /\ Reads(s, Within(t.right, TypedText[t.right], 3), t.right, 3)
        BY <2>0, <3>1
      <4> QED BY <2>0, <3>1, <3>2, <3>3, <4>1, <4>2, ReadsProduct
    <3>4. CASE t.op \in {"+", "-"}
      <4>1. Level(t) = 1 /\ Level(t) + 1 = 2
        BY <2>4, <3>4 DEF Level
      <4>2. Reads(s, Within(t.left, TypedText[t.left], 1), t.left, 1)
            /\ Reads(s, Within(t.right, TypedText[t.right], 2), t.right, 2)
        BY <2>0, <3>1
      <4> QED BY <2>0, <3>1, <3>2, <3>4, <4>1, <4>2, ReadsSum
    <3> QED BY <3>1, <3>3, <3>4 DEF Op
  <2> QED BY <2>1, <2>2, <2>3, <2>4, TreeParts
<1>2. Tree \subseteq S
  <2> HIDE DEF S
  <2> QED BY <1>1, TreeInduction
<1> QED BY <1>2

(* dice_expression.cpp:407-538. The parser reads every tree, however deep  *)
(* and whatever its numbers, from the text in which it is typed with as    *)
(* few brackets as the grammar allows: precedence, association and the     *)
(* signs of sides and factors are as the tree means them.                  *)
THEOREM ParsesWhatIsTyped ==
    \A t \in Tree : /\ TypedText[t] \in Texts
                    /\ ParseAll(TypedText[t]) = Parsed(t, Len(TypedText[t]) + 1)
<1> SUFFICES ASSUME NEW t \in Tree
             PROVE /\ TypedText[t] \in Texts
                   /\ ParseAll(TypedText[t]) = Parsed(t, Len(TypedText[t]) + 1)
  OBVIOUS
<1> DEFINE s == TypedText[t]
<1>1. s \in Texts
  <2>1. <<>> \in Texts
    BY DEF Texts
  <2> QED BY <2>1, TypedReads DEF Reads
<1>2. Reads(s, s, t, Level(t))
  BY <1>1, TypedReads
<1> HIDE DEF s
<1>3. Level(t) \in 1..5 /\ Len(s) \in Nat
  BY <1>1 DEF Level, Texts
<1>4. Reads(s, s, t, 1)
  BY <1>1, <1>2, <1>3, ReadsWeaker
<1>5. Stands(s, 1, s)
  BY <1>3 DEF Stands
<1>6. Peek(s, 1 + Len(s)) = "eof"
  BY <1>3 DEF Peek
<1>7. Gives(s, Call("expression", 1), Parsed(t, 1 + Len(s)))
  BY <1>1, <1>4, <1>5, <1>6, ReadsExpression
<1>8. Deepest(s) \in 1..Deepest(s) /\ Deepest(s) >= Fuel(s, Call("expression", 1))
  BY <1>3, DeepestIs, FuelIs
<1>9. Reading(s)[Deepest(s)][Call("expression", 1)] = Parsed(t, Len(s) + 1)
  BY <1>3, <1>7, <1>8 DEF Gives
<1> QED BY <1>1, <1>9, ParsedIs DEF ParseAll, s

RenderBody(d, f, t) == [parenDice \in BOOLEAN |->
    IF t.kind = "number"
    THEN [ok |-> TRUE, value |-> Wrap(t.value), text |-> Num(t.value), precedence |-> Atom]
    ELSE IF t.kind = "minus"
    THEN LET x == f[t.left][TRUE] IN IF x.ok THEN RenderMinus(d, x) ELSE Failed
    ELSE RenderNode(d, t, f[t.left][TRUE], f[t.right][TRUE], parenDice)]

-----------------------------------------------------------------------------
(* What the recursive definitions of the evaluator say of their functions: *)
(* renderEval, flattenAdditive, Meaning and Nodes. Each depends on the     *)
(* parts of a tree only.                                                   *)
LEMMA RenderAlike ==
    ASSUME NEW d, NEW f, NEW g, NEW t, t.kind \in {"number", "minus", "roll", "binary"},
           \A u \in Parts(t) : f[u] = g[u]
    PROVE RenderBody(d, f, t) = RenderBody(d, g, t)
<1>1. CASE t.kind = "number"
  BY <1>1 DEF RenderBody
<1>2. CASE t.kind = "minus"
  BY <1>2 DEF RenderBody, Parts
<1>3. CASE t.kind \in {"roll", "binary"}
  <2>1. f[t.left] = g[t.left] /\ f[t.right] = g[t.right]
    BY <1>3 DEF Parts
  <2> QED BY <1>3, <2>1 DEF RenderBody
<1> QED BY <1>1, <1>2, <1>3

LEMMA RenderDef ==
    ASSUME NEW d
    PROVE RenderEval(d) = [t \in Tree |-> RenderBody(d, RenderEval(d), t)]
<1> DEFINE Good(N) == \E f : f = [t \in Nested[N] |-> RenderBody(d, f, t)]
           S == {N \in 0..MaxDepth : Good(N)}
<1>1. MaxDepth \in Nat /\ MaxDepth \in 0..MaxDepth /\ 0 \in 0..MaxDepth
  BY GrammarAssumption
<1>2. 0 \in S
  <2> DEFINE f == [t \in Nested[0] |-> RenderBody(d, <<>>, t)]
  <2>1. ASSUME NEW t \in Nested[0] PROVE RenderBody(d, f, t) = RenderBody(d, <<>>, t)
    <3>1. t.kind = "number" /\ Parts(t) = {}
      BY PartsLessDeep DEF Parts
    <3> HIDE DEF f
    <3> QED BY <3>1, RenderAlike
  <2>2. f = [t \in Nested[0] |-> RenderBody(d, f, t)]
    BY <2>1
  <2> QED BY <1>1, <2>2
<1>3. ASSUME NEW N \in 0..(MaxDepth - 1), N \in S PROVE N + 1 \in S
  <2>0. N \in 0..MaxDepth /\ N + 1 \in 0..MaxDepth
    BY <1>1
  <2>1. PICK f : f = [t \in Nested[N] |-> RenderBody(d, f, t)]
    BY <1>3
  <2> DEFINE g == [t \in Nested[N + 1] |-> RenderBody(d, f, t)]
  <2>2. \A t \in Nested[N] : f[t] = g[t]
    BY <2>0, <2>1, NestedGrows
  <2>3. ASSUME NEW t \in Nested[N + 1] PROVE RenderBody(d, f, t) = RenderBody(d, g, t)
    <3>1. Parts(t) \subseteq Nested[N]
      BY <2>0, PartsLessDeep
    <3>2. t.kind \in {"number", "minus", "roll", "binary"}
      BY <2>0, KindsOf
    <3> HIDE DEF g
    <3> QED BY <2>2, <3>1, <3>2, RenderAlike
  <2>4. g = [t \in Nested[N + 1] |-> RenderBody(d, g, t)]
    BY <2>3
  <2> QED BY <2>0, <2>4
<1>4. Good(MaxDepth)
  <2> HIDE DEF S
  <2>3. 0..MaxDepth \subseteq S
    BY <1>1, <1>2, <1>3, Induction
  <2> QED BY <1>1, <2>3 DEF S
<1> QED BY <1>4 DEF RenderEval, RenderBody, Tree

FlattenBody(f, t) == [negative \in BOOLEAN |->
    IF IsBinary(t, {"+", "-"})
    THEN f[t.left][negative] \o f[t.right][IF t.op = "-" THEN ~negative ELSE negative]
    ELSE <<[negative |-> negative, term |-> t]>>]

LEMMA FlattenAlike ==
    ASSUME NEW f, NEW g, NEW t, t.kind \in {"number", "minus", "roll", "binary"},
           \A u \in Parts(t) : f[u] = g[u]
    PROVE FlattenBody(f, t) = FlattenBody(g, t)
<1>1. CASE IsBinary(t, {"+", "-"})
  <2>1. f[t.left] = g[t.left] /\ f[t.right] = g[t.right]
    BY <1>1 DEF Parts, IsBinary
  <2> QED BY <2>1 DEF FlattenBody
<1>2. CASE ~IsBinary(t, {"+", "-"})
  BY <1>2 DEF FlattenBody
<1> QED BY <1>1, <1>2

LEMMA FlattenDef ==
    FlattenAdditive = [t \in Tree |-> FlattenBody(FlattenAdditive, t)]
<1> DEFINE Good(N) == \E f : f = [t \in Nested[N] |-> FlattenBody(f, t)]
           S == {N \in 0..MaxDepth : Good(N)}
<1>1. MaxDepth \in Nat /\ MaxDepth \in 0..MaxDepth /\ 0 \in 0..MaxDepth
  BY GrammarAssumption
<1>2. 0 \in S
  <2> DEFINE f == [t \in Nested[0] |-> FlattenBody(<<>>, t)]
  <2>1. ASSUME NEW t \in Nested[0] PROVE FlattenBody(f, t) = FlattenBody(<<>>, t)
    <3>1. t.kind = "number" /\ Parts(t) = {}
      BY PartsLessDeep DEF Parts
    <3> HIDE DEF f
    <3> QED BY <3>1, FlattenAlike
  <2>2. f = [t \in Nested[0] |-> FlattenBody(f, t)]
    BY <2>1
  <2> QED BY <1>1, <2>2
<1>3. ASSUME NEW N \in 0..(MaxDepth - 1), N \in S PROVE N + 1 \in S
  <2>0. N \in 0..MaxDepth /\ N + 1 \in 0..MaxDepth
    BY <1>1
  <2>1. PICK f : f = [t \in Nested[N] |-> FlattenBody(f, t)]
    BY <1>3
  <2> DEFINE g == [t \in Nested[N + 1] |-> FlattenBody(f, t)]
  <2>2. \A t \in Nested[N] : f[t] = g[t]
    BY <2>0, <2>1, NestedGrows
  <2>3. ASSUME NEW t \in Nested[N + 1] PROVE FlattenBody(f, t) = FlattenBody(g, t)
    <3>1. Parts(t) \subseteq Nested[N]
      BY <2>0, PartsLessDeep
    <3>2. t.kind \in {"number", "minus", "roll", "binary"}
      BY <2>0, KindsOf
    <3> HIDE DEF g
    <3> QED BY <2>2, <3>1, <3>2, FlattenAlike
  <2>4. g = [t \in Nested[N + 1] |-> FlattenBody(g, t)]
    BY <2>3
  <2> QED BY <2>0, <2>4
<1>4. Good(MaxDepth)
  <2> HIDE DEF S
  <2>3. 0..MaxDepth \subseteq S
    BY <1>1, <1>2, <1>3, Induction
  <2> QED BY <1>1, <2>3 DEF S
<1> QED BY <1>4 DEF FlattenAdditive, FlattenBody, Tree

MeaningBody(d, f, t) ==
    IF t.kind = "number" THEN [ok |-> TRUE, value |-> t.value]
    ELSE IF t.kind = "minus"
    THEN IF f[t.left].ok THEN [ok |-> TRUE, value |-> -f[t.left].value] ELSE Failed
    ELSE Meant(d, t, f[t.left], f[t.right])

LEMMA MeaningAlike ==
    ASSUME NEW d, NEW f, NEW g, NEW t, t.kind \in {"number", "minus", "roll", "binary"},
           \A u \in Parts(t) : f[u] = g[u]
    PROVE MeaningBody(d, f, t) = MeaningBody(d, g, t)
<1>1. CASE t.kind = "number"
  BY <1>1 DEF MeaningBody
<1>2. CASE t.kind = "minus"
  BY <1>2 DEF MeaningBody, Parts
<1>3. CASE t.kind \in {"roll", "binary"}
  <2>1. f[t.left] = g[t.left] /\ f[t.right] = g[t.right]
    BY <1>3 DEF Parts
  <2> QED BY <1>3, <2>1 DEF MeaningBody
<1> QED BY <1>1, <1>2, <1>3

LEMMA MeaningDef ==
    ASSUME NEW d
    PROVE Meaning(d) = [t \in Tree |-> MeaningBody(d, Meaning(d), t)]
<1> DEFINE Good(N) == \E f : f = [t \in Nested[N] |-> MeaningBody(d, f, t)]
           S == {N \in 0..MaxDepth : Good(N)}
<1>1. MaxDepth \in Nat /\ MaxDepth \in 0..MaxDepth /\ 0 \in 0..MaxDepth
  BY GrammarAssumption
<1>2. 0 \in S
  <2> DEFINE f == [t \in Nested[0] |-> MeaningBody(d, <<>>, t)]
  <2>1. ASSUME NEW t \in Nested[0] PROVE MeaningBody(d, f, t) = MeaningBody(d, <<>>, t)
    <3>1. t.kind = "number" /\ Parts(t) = {}
      BY PartsLessDeep DEF Parts
    <3> HIDE DEF f
    <3> QED BY <3>1, MeaningAlike
  <2>2. f = [t \in Nested[0] |-> MeaningBody(d, f, t)]
    BY <2>1
  <2> QED BY <1>1, <2>2
<1>3. ASSUME NEW N \in 0..(MaxDepth - 1), N \in S PROVE N + 1 \in S
  <2>0. N \in 0..MaxDepth /\ N + 1 \in 0..MaxDepth
    BY <1>1
  <2>1. PICK f : f = [t \in Nested[N] |-> MeaningBody(d, f, t)]
    BY <1>3
  <2> DEFINE g == [t \in Nested[N + 1] |-> MeaningBody(d, f, t)]
  <2>2. \A t \in Nested[N] : f[t] = g[t]
    BY <2>0, <2>1, NestedGrows
  <2>3. ASSUME NEW t \in Nested[N + 1] PROVE MeaningBody(d, f, t) = MeaningBody(d, g, t)
    <3>1. Parts(t) \subseteq Nested[N]
      BY <2>0, PartsLessDeep
    <3>2. t.kind \in {"number", "minus", "roll", "binary"}
      BY <2>0, KindsOf
    <3> HIDE DEF g
    <3> QED BY <2>2, <3>1, <3>2, MeaningAlike
  <2>4. g = [t \in Nested[N + 1] |-> MeaningBody(d, g, t)]
    BY <2>3
  <2> QED BY <2>0, <2>4
<1>4. Good(MaxDepth)
  <2> HIDE DEF S
  <2>3. 0..MaxDepth \subseteq S
    BY <1>1, <1>2, <1>3, Induction
  <2> QED BY <1>1, <2>3 DEF S
<1> QED BY <1>4 DEF Meaning, MeaningBody, Tree

NodesBody(f, t) ==
    {t} \cup (IF t.kind = "number" THEN {} ELSE f[t.left])
        \cup (IF t.kind \in {"roll", "binary"} THEN f[t.right] ELSE {})

LEMMA NodesAlike ==
    ASSUME NEW f, NEW g, NEW t, t.kind \in {"number", "minus", "roll", "binary"},
           \A u \in Parts(t) : f[u] = g[u]
    PROVE NodesBody(f, t) = NodesBody(g, t)
<1>1. CASE t.kind = "number"
  BY <1>1 DEF NodesBody
<1>2. CASE t.kind = "minus"
  BY <1>2 DEF NodesBody, Parts
<1>3. CASE t.kind \in {"roll", "binary"}
  <2>1. f[t.left] = g[t.left] /\ f[t.right] = g[t.right]
    BY <1>3 DEF Parts
  <2> QED BY <1>3, <2>1 DEF NodesBody
<1> QED BY <1>1, <1>2, <1>3

LEMMA NodesDef ==
    Nodes = [t \in Tree |-> NodesBody(Nodes, t)]
<1> DEFINE Good(N) == \E f : f = [t \in Nested[N] |-> NodesBody(f, t)]
           S == {N \in 0..MaxDepth : Good(N)}
<1>1. MaxDepth \in Nat /\ MaxDepth \in 0..MaxDepth /\ 0 \in 0..MaxDepth
  BY GrammarAssumption
<1>2. 0 \in S
  <2> DEFINE f == [t \in Nested[0] |-> NodesBody(<<>>, t)]
  <2>1. ASSUME NEW t \in Nested[0] PROVE NodesBody(f, t) = NodesBody(<<>>, t)
    <3>1. t.kind = "number" /\ Parts(t) = {}
      BY PartsLessDeep DEF Parts
    <3> HIDE DEF f
    <3> QED BY <3>1, NodesAlike
  <2>2. f = [t \in Nested[0] |-> NodesBody(f, t)]
    BY <2>1
  <2> QED BY <1>1, <2>2
<1>3. ASSUME NEW N \in 0..(MaxDepth - 1), N \in S PROVE N + 1 \in S
  <2>0. N \in 0..MaxDepth /\ N + 1 \in 0..MaxDepth
    BY <1>1
  <2>1. PICK f : f = [t \in Nested[N] |-> NodesBody(f, t)]
    BY <1>3
  <2> DEFINE g == [t \in Nested[N + 1] |-> NodesBody(f, t)]
  <2>2. \A t \in Nested[N] : f[t] = g[t]
    BY <2>0, <2>1, NestedGrows
  <2>3. ASSUME NEW t \in Nested[N + 1] PROVE NodesBody(f, t) = NodesBody(g, t)
    <3>1. Parts(t) \subseteq Nested[N]
      BY <2>0, PartsLessDeep
    <3>2. t.kind \in {"number", "minus", "roll", "binary"}
      BY <2>0, KindsOf
    <3> HIDE DEF g
    <3> QED BY <2>2, <3>1, <3>2, NodesAlike
  <2>4. g = [t \in Nested[N + 1] |-> NodesBody(g, t)]
    BY <2>3
  <2> QED BY <2>0, <2>4
<1>4. Good(MaxDepth)
  <2> HIDE DEF S
  <2>3. 0..MaxDepth \subseteq S
    BY <1>1, <1>2, <1>3, Induction
  <2> QED BY <1>1, <2>3 DEF S
<1> QED BY <1>4 DEF Nodes, NodesBody, Tree

(* Numbers that are equal modulo the width of an int.                      *)
Cong(a, b) == \E k \in Int : a = b + k * (2 * Half)

(* Wrap gives an int, equal modulo the width, and leaves an int alone; two *)
(* ints that are equal modulo the width are equal.                         *)
LEMMA HalfIs == Half \in Nat /\ Half > 0
BY GrammarAssumption

LEMMA WrapIs ==
    ASSUME NEW n \in Int
    PROVE Wrap(n) \in Int /\ Fits(Wrap(n)) /\ Cong(Wrap(n), n)
<1> DEFINE m == 2 * Half
           r == (n + Half) % m
           k == (n + Half) \div m
<1>1. m \in Nat /\ m > 0 /\ Half \in Nat
  BY HalfIs
<1>2. k \in Int /\ r \in Int /\ 0 <= r /\ r < m /\ n + Half = m * k + r
  <2> HIDE DEF m
  <2> QED BY <1>1
<1> HIDE DEF r, k
<1>3. Wrap(n) = r - Half
  BY DEF Wrap, r
<1>4. (-k) \in Int /\ r - Half = n + (-k) * m
  BY <1>1, <1>2
<1>5. Fits(Wrap(n)) /\ Wrap(n) \in Int
  BY <1>1, <1>2, <1>3 DEF Fits
<1> QED BY <1>3, <1>4, <1>5 DEF Cong

LEMMA CongFits ==
    ASSUME NEW a \in Int, NEW b \in Int, Fits(a), Fits(b), Cong(a, b)
    PROVE a = b
<1>1. PICK k \in Int : a = b + k * (2 * Half)
  BY DEF Cong
<1>2. Half \in Nat /\ Half > 0
  BY HalfIs
<1>3. -(2 * Half) < a - b /\ a - b < 2 * Half
  BY <1>2 DEF Fits
<1>4. k * (2 * Half) = a - b
  BY <1>1, <1>2
<1>5. ~(k >= 1)
  <2> SUFFICES ASSUME k >= 1 PROVE FALSE
    OBVIOUS
  <2>1. k * (2 * Half) >= 2 * Half
    BY <1>2
  <2> QED BY <1>2, <1>3, <1>4, <2>1
<1>6. ~(k <= -1)
  <2> SUFFICES ASSUME k <= -1 PROVE FALSE
    OBVIOUS
  <2>1. k * (2 * Half) <= -(2 * Half)
    BY <1>2
  <2> QED BY <1>2, <1>3, <1>4, <2>1
<1>7. k = 0
  BY <1>5, <1>6
<1> QED BY <1>1, <1>2, <1>7

(* An equivalence, which the operators respect.                            *)
LEMMA CongIs ==
    /\ \A a \in Int : Cong(a, a)
    /\ \A a, b \in Int : Cong(a, b) => Cong(b, a)
    /\ \A a, b, c \in Int : Cong(a, b) /\ Cong(b, c) => Cong(a, c)
<1>0. Half \in Nat
  BY HalfIs
<1>1. ASSUME NEW a \in Int PROVE Cong(a, a)
  <2>1. a = a + 0 * (2 * Half)
    BY <1>0
  <2> QED BY <2>1 DEF Cong
<1>2. ASSUME NEW a \in Int, NEW b \in Int, Cong(a, b) PROVE Cong(b, a)
  <2>1. PICK k \in Int : a = b + k * (2 * Half)
    BY <1>2 DEF Cong
  <2>2. b = a + (-k) * (2 * Half) /\ -k \in Int
    BY <1>0, <2>1
  <2> QED BY <2>2 DEF Cong
<1>3. ASSUME NEW a \in Int, NEW b \in Int, NEW c \in Int, Cong(a, b), Cong(b, c) PROVE Cong(a, c)
  <2>1. PICK k \in Int : a = b + k * (2 * Half)
    BY <1>3 DEF Cong
  <2>2. PICK j \in Int : b = c + j * (2 * Half)
    BY <1>3 DEF Cong
  <2>3. a = c + (k + j) * (2 * Half) /\ k + j \in Int
    BY <1>0, <2>1, <2>2
  <2> QED BY <2>3 DEF Cong
<1> QED BY <1>1, <1>2, <1>3

LEMMA CongApply ==
    ASSUME NEW a \in Int, NEW b \in Int, NEW c \in Int, NEW e \in Int, Cong(a, c), Cong(b, e)
    PROVE Cong(a + b, c + e) /\ Cong(a - b, c - e) /\ Cong(a * b, c * e) /\ Cong(-a, -c)
<1>0. Half \in Nat
  BY HalfIs
<1>1. PICK k \in Int : a = c + k * (2 * Half)
  BY DEF Cong
<1>2. PICK j \in Int : b = e + j * (2 * Half)
  BY DEF Cong
<1>3. a + b = (c + e) + (k + j) * (2 * Half) /\ k + j \in Int
  BY <1>0, <1>1, <1>2
<1>4. a - b = (c - e) + (k - j) * (2 * Half) /\ k - j \in Int
  BY <1>0, <1>1, <1>2
<1>5. -a = (-c) + (-k) * (2 * Half) /\ -k \in Int
  BY <1>0, <1>1
<1> DEFINE h == 2 * Half
<1>6. h \in Int
  BY <1>0
<1>7. a * b = (c * e) + (c * j + k * e + k * j * h) * h
  <2> HIDE DEF h
  <2>1. a = c + k * h /\ b = e + j * h
    BY <1>1, <1>2 DEF h
  <2>2. (c + k * h) * (e + j * h) = (c * e) + (c * j + k * e + k * j * h) * h
    BY <1>6
  <2> QED BY <2>1, <2>2
<1>8. c * j + k * e + k * j * h \in Int
  <2> HIDE DEF h
  <2> QED BY <1>6
<1> QED BY <1>3, <1>4, <1>5, <1>7, <1>8 DEF Cong

LEMMA FitsWrap ==
    ASSUME NEW n \in Int, Fits(n)
    PROVE Wrap(n) = n
BY WrapIs, CongFits

Expressions == [checked : BOOLEAN, faces : {"low", "high"}]

(* A result is an error, or an int.                                        *)
IsResult(x) == x.ok \in BOOLEAN /\ (x.ok => x.value \in Int /\ Fits(x.value))
IsExact(x) == x.ok \in BOOLEAN /\ (x.ok => x.value \in Int)

(* checkedValue gives an int: the value itself when it is checked.         *)
LEMMA RenderedIs ==
    ASSUME NEW d \in Expressions, NEW v \in Int, NEW text, NEW prec
    PROVE /\ IsResult(Rendered(d, v, text, prec))
          /\ Rendered(d, v, text, prec).ok => Rendered(d, v, text, prec).value = Wrap(v)
          /\ d.checked /\ Rendered(d, v, text, prec).ok => Rendered(d, v, text, prec).value = v
          /\ ~d.checked => Rendered(d, v, text, prec).ok
<1> DEFINE x == Rendered(d, v, text, prec)
<1>1. CASE d.checked /\ ~Fits(v)
  <2>1. x = Failed
    BY <1>1 DEF Rendered
  <2> HIDE DEF x
  <2>2. x.ok = FALSE
    BY <2>1 DEF Failed
  <2> QED BY <1>1, <2>2 DEF IsResult, x
<1>2. CASE ~(d.checked /\ ~Fits(v))
  <2>1. x = [ok |-> TRUE, value |-> Wrap(v), text |-> text, precedence |-> prec]
    BY <1>2 DEF Rendered
  <2> HIDE DEF x
  <2>2. x.ok = TRUE /\ x.value = Wrap(v)
    BY <2>1
  <2>3. Wrap(v) \in Int /\ Fits(Wrap(v)) /\ (Fits(v) => Wrap(v) = v)
    BY WrapIs, FitsWrap
  <2> QED BY <1>2, <2>2, <2>3 DEF IsResult, x
<1> QED BY <1>1, <1>2

(* The operators and the dice have integers for results.                   *)
LEMMA AbsIs == ASSUME NEW n \in Int PROVE Abs(n) \in Nat /\ (n # 0 => Abs(n) > 0)
BY DEF Abs

LEMMA ApplyIs ==
    ASSUME NEW op \in Op, NEW a \in Int, NEW b \in Int, op = "/" => b # 0
    PROVE Apply(op, a, b) \in Int
<1>1. CASE op = "/"
  <2>1. Abs(a) \in Nat /\ Abs(b) \in Nat /\ Abs(b) > 0
    BY <1>1, AbsIs
  <2>2. Abs(a) \div Abs(b) \in Int
    BY <2>1
  <2>3. Quotient(a, b) \in Int
    BY <2>2 DEF Quotient
  <2> QED BY <1>1, <2>3 DEF Apply
<1>2. CASE op # "/"
  BY <1>2 DEF Apply, Op
<1> QED BY <1>1, <1>2

LEMMA FaceIs == ASSUME NEW d \in Expressions, NEW n \in Int PROVE Face(d, n) \in Int
BY DEF Face

(* What a roll, a negation and an operator are rendered as.                *)
LEMMA RenderRollIs ==
    ASSUME NEW d \in Expressions, NEW t, NEW count \in Int, NEW sides \in Int, NEW p \in BOOLEAN
    PROVE /\ IsResult(RenderRoll(d, t, count, sides, p))
          /\ RenderRoll(d, t, count, sides, p).ok => Legal(count, sides)
          /\ d.checked /\ RenderRoll(d, t, count, sides, p).ok =>
                RenderRoll(d, t, count, sides, p).value = count * Face(d, sides)
<1> DEFINE x == RenderRoll(d, t, count, sides, p)
           sum == count * Face(d, sides)
<1>1. sum \in Int
  BY FaceIs
<1>2. CASE ~Legal(count, sides)
  <2>1. x = Failed
    BY <1>2 DEF RenderRoll
  <2> QED BY <1>2, <2>1 DEF IsResult, Failed
<1>3. CASE Legal(count, sides)
  <2>1. \E text, prec : x = Rendered(d, sum, text, prec)
    <3>1. \/ x = Rendered(d, sum, Bracketed(Digits(Wrap(sum))), Atom)
          \/ x = Rendered(d, sum, Bracketed(Faces(count, Face(d, sides))), Atom)
          \/ x = Rendered(d, sum, Faces(count, Face(d, sides)), IF count > 1 THEN Additive ELSE Atom)
      BY <1>3 DEF RenderRoll
    <3> HIDE DEF x, sum
    <3> QED BY <3>1
  <2> HIDE DEF x, sum
  <2>2. /\ IsResult(x)
        /\ d.checked /\ x.ok => x.value = sum
    BY <1>1, <2>1, RenderedIs
  <2> QED BY <1>3, <2>2 DEF x, sum
<1> QED BY <1>2, <1>3

LEMMA RenderMinusIs ==
    ASSUME NEW d \in Expressions, NEW x, IsResult(x), x.ok
    PROVE /\ IsResult(RenderMinus(d, x))
          /\ d.checked /\ RenderMinus(d, x).ok => RenderMinus(d, x).value = -x.value
          /\ RenderMinus(d, x).ok => RenderMinus(d, x).value = Wrap(-x.value)
          /\ ~d.checked => RenderMinus(d, x).ok
<1>1. -x.value \in Int
  BY DEF IsResult
<1> QED BY <1>1, RenderedIs DEF RenderMinus

LEMMA RenderBinaryIs ==
    ASSUME NEW d \in Expressions, NEW t, t.op \in Op,
           NEW l, NEW r, IsResult(l), IsResult(r), l.ok, r.ok
    PROVE /\ IsResult(RenderBinary(d, t, l, r))
          /\ RenderBinary(d, t, l, r).ok => ~(t.op = "/" /\ r.value = 0)
          /\ d.checked /\ RenderBinary(d, t, l, r).ok =>
                RenderBinary(d, t, l, r).value = Apply(t.op, l.value, r.value)
          /\ ~d.checked /\ t.op # "/" =>
                /\ RenderBinary(d, t, l, r).ok
                /\ RenderBinary(d, t, l, r).value = Wrap(Apply(t.op, l.value, r.value))
<1> DEFINE x == RenderBinary(d, t, l, r)
           v == Apply(t.op, l.value, r.value)
<1>1. CASE t.op = "/" /\ r.value = 0
  <2>1. x = Failed
    BY <1>1 DEF RenderBinary
  <2> QED BY <1>1, <2>1 DEF IsResult, Failed
<1>2. CASE ~(t.op = "/" /\ r.value = 0)
  <2>1. v \in Int
    BY <1>2, ApplyIs DEF IsResult
  <2>2. PICK text, prec : x = Rendered(d, v, text, prec)
    <3>1. \E text : \E prec : x = Rendered(d, v, text, prec)
      BY <1>2 DEF RenderBinary
    <3> QED BY <3>1
  <2> HIDE DEF x, v
  <2>3. /\ IsResult(x)
        /\ x.ok => x.value = Wrap(v)
        /\ d.checked /\ x.ok => x.value = v
        /\ ~d.checked => x.ok
    BY <2>1, <2>2, RenderedIs
  <2> QED BY <1>2, <2>3 DEF x, v
<1> QED BY <1>1, <1>2

(* What the definitions say of one tree.                                   *)
LEMMA NodesAt ==
    ASSUME NEW t \in Tree
    PROVE t \in Nodes[t] /\ \A u \in Parts(t) : Nodes[u] \subseteq Nodes[t]
<1>1. Nodes[t] = NodesBody(Nodes, t)
  BY NodesDef
<1> QED BY <1>1 DEF NodesBody, Parts

LEMMA MeaningAt == ASSUME NEW d, NEW t \in Tree PROVE Meaning(d)[t] = MeaningBody(d, Meaning(d), t)
BY MeaningDef

(* What an expression means is an integer, or an error.                    *)
LEMMA MeantIs ==
    ASSUME NEW d \in Expressions, NEW t, t.kind = "roll" \/ (t.kind = "binary" /\ t.op \in Op),
           NEW l, NEW r, IsExact(l), IsExact(r)
    PROVE IsExact(Meant(d, t, l, r))
<1>1. CASE ~l.ok \/ ~r.ok
  BY <1>1 DEF Meant, IsExact, Failed
<1>2. CASE l.ok /\ r.ok /\ t.kind = "roll"
  <2>1. l.value * Face(d, r.value) \in Int
    BY <1>2, FaceIs DEF IsExact
  <2> QED BY <1>2, <2>1 DEF Meant, IsExact, Failed
<1>3. CASE l.ok /\ r.ok /\ t.kind = "binary"
  <2>1. ~(t.op = "/" /\ r.value = 0) => Apply(t.op, l.value, r.value) \in Int
    BY <1>3, ApplyIs DEF IsExact
  <2> QED BY <1>3, <2>1 DEF Meant, IsExact, Failed
<1> QED BY <1>1, <1>2, <1>3 DEF IsExact

LEMMA MeaningIs ==
    ASSUME NEW d \in Expressions
    PROVE \A t \in Tree : IsExact(Meaning(d)[t])
<1> DEFINE S == {t \in Tree : IsExact(Meaning(d)[t])}
<1>1. ASSUME NEW t \in Tree, Parts(t) \subseteq S PROVE t \in S
  <2>1. Meaning(d)[t] = MeaningBody(d, Meaning(d), t)
    BY MeaningAt
  <2>2. \A u \in Parts(t) : IsExact(Meaning(d)[u])
    BY <1>1
  <2> SUFFICES IsExact(Meaning(d)[t])
    OBVIOUS
  <2> HIDE DEF S
  <2>3. CASE t.kind = "number"
    <3>1. t.value \in Int
      BY <2>3, TreeParts
    <3> QED BY <2>1, <2>3, <3>1 DEF MeaningBody, IsExact
  <2>4. CASE t.kind = "minus"
    <3>1. IsExact(Meaning(d)[t.left])
      BY <2>2, <2>4 DEF Parts
    <3> QED BY <2>1, <2>4, <3>1 DEF MeaningBody, IsExact, Failed
  <2>5. CASE t.kind = "roll" \/ t.kind = "binary"
    <3>1. IsExact(Meaning(d)[t.left]) /\ IsExact(Meaning(d)[t.right])
      BY <2>2, <2>5 DEF Parts
    <3>2. t.kind = "roll" \/ (t.kind = "binary" /\ t.op \in Op)
      BY <2>5, TreeParts
    <3>3. Meaning(d)[t] = Meant(d, t, Meaning(d)[t.left], Meaning(d)[t.right])
      BY <2>1, <2>5 DEF MeaningBody
    <3> QED BY <3>1, <3>2, <3>3, MeantIs
  <2> QED BY <2>3, <2>4, <2>5, TreeParts
<1>2. Tree \subseteq S
  <2> HIDE DEF S
  <2> QED BY <1>1, TreeInduction
<1> QED BY <1>2

(* What a node is rendered as.                                             *)
LEMMA RenderAt ==
    ASSUME NEW d, NEW t \in Tree, NEW p \in BOOLEAN
    PROVE LET x == RenderEval(d)[t][p]
              l == RenderEval(d)[t.left][TRUE]
              r == RenderEval(d)[t.right][TRUE] IN
          /\ t.kind = "number" =>
                x = [ok |-> TRUE, value |-> Wrap(t.value), text |-> Num(t.value), precedence |-> Atom]
          /\ t.kind = "minus" => x = IF l.ok THEN RenderMinus(d, l) ELSE Failed
          /\ t.kind \in {"roll", "binary"} => x = RenderNode(d, t, l, r, p)
<1>1. RenderEval(d)[t] = RenderBody(d, RenderEval(d), t)
  BY RenderDef
<1> QED BY <1>1 DEF RenderBody

(* Every node is rendered as an int, or an error.                          *)
LEMMA RenderIs ==
    ASSUME NEW d \in Expressions
    PROVE \A t \in Tree : \A p \in BOOLEAN : IsResult(RenderEval(d)[t][p])
<1> DEFINE S == {t \in Tree : \A p \in BOOLEAN : IsResult(RenderEval(d)[t][p])}
<1>1. ASSUME NEW t \in Tree, Parts(t) \subseteq S, NEW p \in BOOLEAN
      PROVE IsResult(RenderEval(d)[t][p])
  <2> DEFINE x == RenderEval(d)[t][p]
             l == RenderEval(d)[t.left][TRUE]
             r == RenderEval(d)[t.right][TRUE]
  <2>1. \A u \in Parts(t) : IsResult(RenderEval(d)[u][TRUE])
    BY <1>1
  <2>2. /\ t.kind = "number" =>
              x = [ok |-> TRUE, value |-> Wrap(t.value), text |-> Num(t.value), precedence |-> Atom]
        /\ t.kind = "minus" => x = IF l.ok THEN RenderMinus(d, l) ELSE Failed
        /\ t.kind \in {"roll", "binary"} => x = RenderNode(d, t, l, r, p)
    BY RenderAt
  <2>3. Failed.ok = FALSE
    BY DEF Failed
  <2> HIDE DEF S
  <2>4. CASE t.kind = "number"
    <3>1. t.value \in Int
      BY <2>4, TreeParts
    <3>2. Wrap(t.value) \in Int /\ Fits(Wrap(t.value))
      BY <3>1, WrapIs
    <3> HIDE DEF x, l, r
    <3>3. x.ok = TRUE /\ x.value = Wrap(t.value)
      BY <2>2, <2>4
    <3>4. IsResult(x)
      BY <3>2, <3>3 DEF IsResult
    <3> QED BY <3>4 DEF x
  <2>5. CASE t.kind = "minus"
    <3>1. IsResult(l)
      BY <2>1, <2>5 DEF Parts
    <3> HIDE DEF x, l, r
    <3>2. IsResult(x)
      BY <2>2, <2>3, <2>5, <3>1, RenderMinusIs DEF IsResult
    <3> QED BY <3>2 DEF x
  <2>6. CASE t.kind \in {"roll", "binary"}
    <3>1. IsResult(l) /\ IsResult(r)
      BY <2>1, <2>6 DEF Parts
    <3>2. x = RenderNode(d, t, l, r, p)
      BY <2>2, <2>6
    <3>3. t.kind = "binary" => t.op \in Op
      BY TreeParts
    <3> HIDE DEF x, l, r
    <3>4. CASE ~l.ok \/ ~r.ok
      <4>1. x = Failed
        BY <3>2, <3>4 DEF RenderNode
      <4>2. IsResult(x)
        BY <2>3, <4>1 DEF IsResult
      <4> QED BY <4>2 DEF x
    <3>5. CASE l.ok /\ r.ok /\ t.kind = "roll"
      <4>1. x = RenderRoll(d, t, l.value, r.value, p)
        BY <3>2, <3>5 DEF RenderNode
      <4>2. IsResult(x)
        BY <3>1, <3>5, <4>1, RenderRollIs DEF IsResult
      <4> QED BY <4>2 DEF x
    <3>6. CASE l.ok /\ r.ok /\ t.kind = "binary"
      <4>1. x = RenderBinary(d, t, l, r)
        BY <3>2, <3>6 DEF RenderNode
      <4>2. IsResult(x)
        BY <3>1, <3>3, <3>6, <4>1, RenderBinaryIs
      <4> QED BY <4>2 DEF x
    <3> QED BY <2>6, <3>1, <3>4, <3>5, <3>6 DEF IsResult
  <2> QED BY <2>4, <2>5, <2>6, TreeParts
<1>2. Tree \subseteq S
  <2>1. \A t \in Tree : Parts(t) \subseteq S => t \in S
    BY <1>1
  <2> HIDE DEF S
  <2> QED BY <2>1, TreeInduction
<1> QED BY <1>2

(* Every number is an int; and, besides, nothing is rolled or divided, so  *)
(* that an overflow wraps.                                                 *)
Small(t) == \A u \in Nodes[t] : u.kind = "number" => u.value < Half
Wrapping(t) == \A u \in Nodes[t] : IF u.kind = "number" THEN u.value < Half
                                ELSE u.kind # "roll" /\ ~IsBinary(u, {"/"})

(* What is small or wrapping has parts that are.                           *)
LEMMA SmallParts ==
    ASSUME NEW t \in Tree
    PROVE /\ Small(t) => \A u \in Parts(t) : Small(u)
          /\ Wrapping(t) => \A u \in Parts(t) : Wrapping(u)
          /\ Wrapping(t) => Small(t)
          /\ Wrapping(t) => t.kind # "roll" /\ (t.kind = "binary" => t.op # "/")
          /\ Small(t) /\ t.kind = "number" => t.value \in Int /\ Fits(t.value)
<1>1. t \in Nodes[t] /\ \A u \in Parts(t) : Nodes[u] \subseteq Nodes[t]
  BY NodesAt
<1>2. Small(t) /\ t.kind = "number" => t.value \in Int /\ Fits(t.value)
  BY <1>1, HalfIs, TreeParts DEF Small, Fits
<1>3. Wrapping(t) => t.kind # "roll" /\ (t.kind = "binary" => t.op # "/")
  BY <1>1 DEF Wrapping, IsBinary
<1> QED BY <1>1, <1>2, <1>3 DEF Small, Wrapping

(* With checked arithmetic what is rendered has the value that is meant.   *)
LEMMA RenderExact ==
    ASSUME NEW d \in Expressions, d.checked
    PROVE \A t \in Tree : Small(t) => \A p \in BOOLEAN :
              RenderEval(d)[t][p].ok =>
                 Meaning(d)[t].ok /\ RenderEval(d)[t][p].value = Meaning(d)[t].value
<1> DEFINE Exact(t, p) ==
               RenderEval(d)[t][p].ok =>
                  Meaning(d)[t].ok /\ RenderEval(d)[t][p].value = Meaning(d)[t].value
           S == {t \in Tree : Small(t) => \A p \in BOOLEAN : Exact(t, p)}
<1>1. ASSUME NEW t \in Tree, Parts(t) \subseteq S, Small(t), NEW p \in BOOLEAN
      PROVE Exact(t, p)
  <2> DEFINE x == RenderEval(d)[t][p]
             l == RenderEval(d)[t.left][TRUE]
             r == RenderEval(d)[t.right][TRUE]
             e == Meaning(d)[t]
             el == Meaning(d)[t.left]
             er == Meaning(d)[t.right]
  <2>1. \A u \in Parts(t) : /\ u \in Tree /\ Exact(u, TRUE)
                            /\ IsResult(RenderEval(d)[u][TRUE])
    BY <1>1, SmallParts, RenderIs
  <2>2. /\ t.kind = "number" =>
              x = [ok |-> TRUE, value |-> Wrap(t.value), text |-> Num(t.value), precedence |-> Atom]
        /\ t.kind = "minus" => x = IF l.ok THEN RenderMinus(d, l) ELSE Failed
        /\ t.kind \in {"roll", "binary"} => x = RenderNode(d, t, l, r, p)
    BY RenderAt
  <2>3. Failed.ok = FALSE
    BY DEF Failed
  <2>4. e = MeaningBody(d, Meaning(d), t)
    BY MeaningAt
  <2> SUFFICES ASSUME x.ok PROVE e.ok /\ x.value = e.value
    OBVIOUS
  <2> HIDE DEF S
  <2>5. CASE t.kind = "number"
    <3>1. t.value \in Int /\ Fits(t.value)
      BY <1>1, <2>5, SmallParts
    <3>2. Wrap(t.value) = t.value
      BY <3>1, FitsWrap
    <3>3. e = [ok |-> TRUE, value |-> t.value]
      BY <2>4, <2>5 DEF MeaningBody
    <3> HIDE DEF x, e, l, r
    <3> QED BY <2>2, <2>5, <3>2, <3>3
  <2>6. CASE t.kind = "minus"
    <3>1. IsResult(l) /\ (l.ok => el.ok /\ l.value = el.value)
      BY <2>1, <2>6 DEF Parts
    <3>2. e = IF el.ok THEN [ok |-> TRUE, value |-> -el.value] ELSE Failed
      BY <2>4, <2>6 DEF MeaningBody
    <3> HIDE DEF x, l, r, e, el
    <3>3. l.ok
      BY <2>2, <2>3, <2>6
    <3>4. x = RenderMinus(d, l) /\ x.value = -l.value
      BY <2>2, <2>6, <3>1, <3>3, RenderMinusIs
    <3> QED BY <3>1, <3>2, <3>3, <3>4
  <2>7. CASE t.kind \in {"roll", "binary"}
    <3>1. /\ IsResult(l) /\ (l.ok => el.ok /\ l.value = el.value)
          /\ IsResult(r) /\ (r.ok => er.ok /\ r.value = er.value)
      BY <2>1, <2>7 DEF Parts
    <3>2. x = RenderNode(d, t, l, r, p)
      BY <2>2, <2>7
    <3>3. t.kind = "binary" => t.op \in Op
      BY TreeParts
    <3>4. e = Meant(d, t, el, er)
      BY <2>4, <2>7 DEF MeaningBody
    <3> HIDE DEF x, l, r, e, el, er
    <3>5. l.ok /\ r.ok /\ el.ok /\ er.ok /\ l.value = el.value /\ r.value = er.value
      BY <2>3, <3>1, <3>2 DEF RenderNode
    <3>6. CASE t.kind = "roll"
      <4>1. x = RenderRoll(d, t, l.value, r.value, p)
        BY <3>2, <3>5, <3>6 DEF RenderNode
      <4>2. Legal(l.value, r.value) /\ x.value = l.value * Face(d, r.value)
        BY <3>1, <3>5, <4>1, RenderRollIs DEF IsResult
      <4>3. e = [ok |-> TRUE, value |-> el.value * Face(d, er.value)]
        BY <3>4, <3>5, <3>6, <4>2 DEF Meant
      <4> QED BY <3>5, <4>2, <4>3
    <3>7. CASE t.kind = "binary"
      <4>1. x = RenderBinary(d, t, l, r)
        BY <3>2, <3>5, <3>7 DEF RenderNode
      <4>2. ~(t.op = "/" /\ r.value = 0) /\ x.value = Apply(t.op, l.value, r.value)
        BY <3>1, <3>3, <3>5, <3>7, <4>1, RenderBinaryIs
      <4>3. e = [ok |-> TRUE, value |-> Apply(t.op, el.value, er.value)]
        BY <3>4, <3>5, <3>7, <4>2 DEF Meant
      <4> QED BY <3>5, <4>2, <4>3
    <3> QED BY <2>7, <3>6, <3>7
  <2> QED BY <2>5, <2>6, <2>7, TreeParts
<1>2. Tree \subseteq S
  <2>1. \A t \in Tree : Parts(t) \subseteq S => t \in S
    BY <1>1
  <2> HIDE DEF S
  <2> QED BY <2>1, TreeInduction
<1> QED BY <1>2

(* Without, it has that value modulo the width of an int, where sums,      *)
(* differences and products of ints are concerned.                         *)
LEMMA RenderModulo ==
    ASSUME NEW d \in Expressions, ~d.checked
    PROVE \A t \in Tree : Wrapping(t) => \A p \in BOOLEAN :
              /\ RenderEval(d)[t][p].ok /\ Meaning(d)[t].ok
              /\ Cong(RenderEval(d)[t][p].value, Meaning(d)[t].value)
<1> DEFINE Modulo(t, p) == /\ RenderEval(d)[t][p].ok /\ Meaning(d)[t].ok
                           /\ Cong(RenderEval(d)[t][p].value, Meaning(d)[t].value)
           S == {t \in Tree : Wrapping(t) => \A p \in BOOLEAN : Modulo(t, p)}
<1>1. ASSUME NEW t \in Tree, Parts(t) \subseteq S, Wrapping(t), NEW p \in BOOLEAN
      PROVE Modulo(t, p)
  <2> DEFINE x == RenderEval(d)[t][p]
             l == RenderEval(d)[t.left][TRUE]
             r == RenderEval(d)[t.right][TRUE]
             e == Meaning(d)[t]
             el == Meaning(d)[t.left]
             er == Meaning(d)[t.right]
  <2>1. \A u \in Parts(t) : /\ u \in Tree /\ Modulo(u, TRUE)
                            /\ IsResult(RenderEval(d)[u][TRUE]) /\ IsExact(Meaning(d)[u])
    BY <1>1, SmallParts, RenderIs, MeaningIs
  <2>2. /\ t.kind = "number" =>
              x = [ok |-> TRUE, value |-> Wrap(t.value), text |-> Num(t.value), precedence |-> Atom]
        /\ t.kind = "minus" => x = IF l.ok THEN RenderMinus(d, l) ELSE Failed
        /\ t.kind \in {"roll", "binary"} => x = RenderNode(d, t, l, r, p)
    BY RenderAt
  <2>3. t.kind # "roll" /\ (t.kind = "binary" => t.op # "/")
    BY <1>1, SmallParts
  <2>4. e = MeaningBody(d, Meaning(d), t)
    BY MeaningAt
  <2> SUFFICES x.ok /\ e.ok /\ Cong(x.value, e.value)
    OBVIOUS
  <2> HIDE DEF S
  <2>5. CASE t.kind = "number"
    <3>1. t.value \in Int
      BY <2>5, TreeParts
    <3>2. Cong(Wrap(t.value), t.value)
      BY <3>1, WrapIs
    <3>3. e = [ok |-> TRUE, value |-> t.value]
      BY <2>4, <2>5 DEF MeaningBody
    <3> HIDE DEF x, e, l, r
    <3> QED BY <2>2, <2>5, <3>2, <3>3
  <2>6. CASE t.kind = "minus"
    <3>1. IsResult(l) /\ l.ok /\ IsExact(el) /\ el.ok /\ Cong(l.value, el.value)
      BY <2>1, <2>6 DEF Parts
    <3>2. e = IF el.ok THEN [ok |-> TRUE, value |-> -el.value] ELSE Failed
      BY <2>4, <2>6 DEF MeaningBody
    <3> HIDE DEF x, l, r, e, el
    <3>3. l.value \in Int /\ el.value \in Int
      BY <3>1 DEF IsResult, IsExact
    <3>4. x = RenderMinus(d, l) /\ x.ok /\ x.value = Wrap(-l.value)
      BY <2>2, <2>6, <3>1, RenderMinusIs
    <3>5. Cong(-l.value, -el.value)
      BY <3>1, <3>3, CongApply
    <3>6. Cong(Wrap(-l.value), -el.value)
      <4>1. -l.value \in Int /\ -el.value \in Int
        BY <3>3
      <4> QED BY <3>5, <4>1, WrapIs, CongIs
    <3> QED BY <3>1, <3>2, <3>4, <3>6
  <2>7. CASE t.kind = "binary"
    <3>1. /\ IsResult(l) /\ l.ok /\ IsExact(el) /\ el.ok /\ Cong(l.value, el.value)
          /\ IsResult(r) /\ r.ok /\ IsExact(er) /\ er.ok /\ Cong(r.value, er.value)
      BY <2>1, <2>7 DEF Parts
    <3>2. x = RenderNode(d, t, l, r, p)
      BY <2>2, <2>7
    <3>3. t.op \in Op /\ t.op # "/"
      BY <2>3, <2>7, TreeParts
    <3>4. e = Meant(d, t, el, er)
      BY <2>4, <2>7 DEF MeaningBody
    <3> HIDE DEF x, l, r, e, el, er
    <3>5. l.value \in Int /\ el.value \in Int /\ r.value \in Int /\ er.value \in Int
      BY <3>1 DEF IsResult, IsExact
    <3>6. x = RenderBinary(d, t, l, r)
      BY <2>7, <3>1, <3>2 DEF RenderNode
    <3>7. x.ok /\ x.value = Wrap(Apply(t.op, l.value, r.value))
      BY <3>1, <3>3, <3>6, RenderBinaryIs
    <3>8. e = [ok |-> TRUE, value |-> Apply(t.op, el.value, er.value)]
      BY <2>7, <3>1, <3>3, <3>4 DEF Meant
    <3> DEFINE v == Apply(t.op, l.value, r.value)
               w == Apply(t.op, el.value, er.value)
    <3>9. v \in Int /\ w \in Int /\ Cong(v, w)
      <4>1. /\ Cong(l.value + r.value, el.value + er.value)
            /\ Cong(l.value - r.value, el.value - er.value)
            /\ Cong(l.value * r.value, el.value * er.value)
        BY <3>1, <3>5, CongApply
      <4>2. CASE t.op = "+"
        BY <3>5, <4>1, <4>2 DEF Apply
      <4>3. CASE t.op = "-"
        BY <3>5, <4>1, <4>3 DEF Apply
      <4>4. CASE t.op = "*"
        BY <3>5, <4>1, <4>4 DEF Apply
      <4> QED BY <3>3, <4>2, <4>3, <4>4 DEF Op
    <3> HIDE DEF v, w
    <3>10. Cong(Wrap(v), w)
      BY <3>9, WrapIs, CongIs
    <3> QED BY <3>7, <3>8, <3>10 DEF v, w
  <2> QED BY <2>3, <2>5, <2>6, <2>7, TreeParts
<1>2. Tree \subseteq S
  <2>1. \A t \in Tree : Parts(t) \subseteq S => t \in S
    BY <1>1
  <2> HIDE DEF S
  <2> QED BY <2>1, TreeInduction
<1> QED BY <1>2

JoinBody(d, terms, f, n) ==
    IF n = 0 THEN Nothing
    ELSE LET x == RenderEval(d)[terms[n].term][Len(terms) > 1 \/ terms[n].term.kind = "binary"]
         IN IF ~f[n - 1].ok \/ ~x.ok THEN Failed
            ELSE JoinTerm(d, f[n - 1], terms[n].negative, x, n = 1)

-----------------------------------------------------------------------------
(* What the definition of the loop in evaluate() says of it.               *)
LEMMA JoinDef ==
    ASSUME NEW d, NEW terms, Len(terms) \in Nat
    PROVE JoinTerms(d, terms) = [n \in 0..Len(terms) |-> JoinBody(d, terms, JoinTerms(d, terms), n)]
<1> DEFINE D == Len(terms)
           Good(N) == \E f : f = [n \in 0..N |-> JoinBody(d, terms, f, n)]
           S == {N \in Nat : Good(N)}
<1>0. D \in Nat
  OBVIOUS
<1> HIDE DEF D
<1>1. 0 \in S
  <2> DEFINE f == [n \in 0..0 |-> Nothing]
  <2>1. f = [n \in 0..0 |-> JoinBody(d, terms, f, n)]
    BY DEF JoinBody
  <2> QED BY <2>1
<1>2. ASSUME NEW N \in 0..(D - 1), N \in S PROVE N + 1 \in S
  <2>0. N \in Nat /\ N + 1 \in Nat
    BY <1>0
  <2>1. PICK f : f = [n \in 0..N |-> JoinBody(d, terms, f, n)]
    BY <1>2
  <2> DEFINE g == [n \in 0..(N + 1) |-> JoinBody(d, terms, f, n)]
  <2>2. \A n \in 0..N : f[n] = g[n]
    BY <2>0, <2>1
  <2>3. \A n \in 0..(N + 1) : n # 0 => f[n - 1] = g[n - 1]
    BY <2>0, <2>2
  <2>4. ASSUME NEW n \in 0..(N + 1) PROVE JoinBody(d, terms, f, n) = JoinBody(d, terms, g, n)
    <3>1. n # 0 => f[n - 1] = g[n - 1]
      BY <2>3
    <3> HIDE DEF g
    <3> QED BY <3>1 DEF JoinBody
  <2>5. g = [n \in 0..(N + 1) |-> JoinBody(d, terms, g, n)]
    BY <2>4
  <2> QED BY <2>0, <2>5
<1>3. Good(D)
  <2> HIDE DEF S
  <2>1. 0..D \subseteq S
    BY <1>0, <1>1, <1>2, Induction
  <2> QED BY <1>0, <2>1 DEF S
<1> QED BY <1>3 DEF JoinTerms, JoinBody, D

(* The terms of a sum.                                                     *)
Term == [negative : BOOLEAN, term : Tree]

(* TRUE or FALSE: the sign of a term.                                      *)
Sign == BOOLEAN
SignOf(t, negative) == IF t.op = "-" THEN ~negative ELSE negative

(* The terms of a sum are those of its operands; there is at least one.    *)
LEMMA FlattenAt ==
    ASSUME NEW t \in Tree, NEW negative \in Sign
    PROVE /\ IsBinary(t, {"+", "-"}) =>
                FlattenAdditive[t][negative] =
                    FlattenAdditive[t.left][negative] \o
                    FlattenAdditive[t.right][SignOf(t, negative)]
          /\ ~IsBinary(t, {"+", "-"}) =>
                FlattenAdditive[t][negative] = <<[negative |-> negative, term |-> t]>>
<1>1. FlattenAdditive[t] = FlattenBody(FlattenAdditive, t)
  BY FlattenDef
<1> QED BY <1>1 DEF FlattenBody, SignOf, Sign

LEMMA FlattenIs ==
    \A t \in Tree : \A negative \in Sign :
        FlattenAdditive[t][negative] \in Seq(Term) /\ Len(FlattenAdditive[t][negative]) > 0
<1> DEFINE Good(t) == \A negative \in Sign :
               FlattenAdditive[t][negative] \in Seq(Term) /\ Len(FlattenAdditive[t][negative]) > 0
           S == {t \in Tree : Good(t)}
<1>1. ASSUME NEW t \in Tree, Parts(t) \subseteq S, NEW negative \in Sign
      PROVE FlattenAdditive[t][negative] \in Seq(Term) /\ Len(FlattenAdditive[t][negative]) > 0
  <2>1. CASE IsBinary(t, {"+", "-"})
    <3> DEFINE l == FlattenAdditive[t.left][negative]
               r == FlattenAdditive[t.right][SignOf(t, negative)]
    <3>1. FlattenAdditive[t][negative] = l \o r
      BY <2>1, FlattenAt
    <3>2. t.left \in S /\ t.right \in S
      BY <1>1, <2>1 DEF Parts, IsBinary
    <3>3. SignOf(t, negative) \in Sign
      BY DEF SignOf, Sign
    <3>4. l \in Seq(Term) /\ Len(l) > 0 /\ r \in Seq(Term) /\ Len(r) > 0
      BY <3>2, <3>3
    <3> HIDE DEF l, r
    <3> QED BY <3>1, <3>4
  <2>2. CASE ~IsBinary(t, {"+", "-"})
    <3>1. FlattenAdditive[t][negative] = <<[negative |-> negative, term |-> t]>>
      BY <2>2, FlattenAt
    <3>2. [negative |-> negative, term |-> t] \in Term
      BY DEF Term, Sign
    <3> HIDE DEF S
    <3> QED BY <3>1, <3>2
  <2> QED BY <2>1, <2>2
<1>2. Tree \subseteq S
  <2>1. \A t \in Tree : Parts(t) \subseteq S => t \in S
    BY <1>1
  <2> HIDE DEF S
  <2> QED BY <2>1, TreeInduction
<1> QED BY <1>2

Signed(negative, n) == IF negative THEN -n ELSE n
IsTotal(x) == x.ok \in BOOLEAN /\ (x.ok => x.total \in Int /\ Fits(x.total))

(* One turn of the loop adds the signed term, exactly or modulo the width. *)
LEMMA JoinTermIs ==
    ASSUME NEW d \in Expressions, NEW before, IsTotal(before), before.ok,
           NEW negative \in BOOLEAN, NEW x, IsResult(x), x.ok, NEW first \in BOOLEAN
    PROVE LET y == JoinTerm(d, before, negative, x, first) IN
          /\ IsTotal(y)
          /\ d.checked /\ y.ok => y.total = before.total + Signed(negative, x.value)
          /\ ~d.checked => y.ok /\ Cong(y.total, before.total + Signed(negative, x.value))
<1> DEFINE signed == IF negative THEN Rendered(d, -x.value, <<>>, Atom) ELSE x
           total == Rendered(d, before.total + signed.value, <<>>, Atom)
           y == JoinTerm(d, before, negative, x, first)
           v == Signed(negative, x.value)
<1>1. /\ x.value \in Int /\ -x.value \in Int /\ v \in Int /\ before.total \in Int
      /\ before.total + v \in Int
  BY DEF IsResult, IsTotal, Signed
<1>2. /\ IsResult(signed)
      /\ d.checked /\ signed.ok => signed.value = v
      /\ ~d.checked => signed.ok /\ Cong(signed.value, v)
  <2>1. CASE negative
    <3> DEFINE z == Rendered(d, -x.value, <<>>, Atom)
    <3>1. signed = z /\ v = -x.value
      BY <2>1 DEF Signed
    <3>2. /\ IsResult(z) /\ (z.ok => z.value = Wrap(-x.value))
          /\ (d.checked /\ z.ok => z.value = -x.value) /\ (~d.checked => z.ok)
      BY <1>1, RenderedIs
    <3> HIDE DEF z, signed, v
    <3>3. Cong(Wrap(-x.value), -x.value)
      BY <1>1, WrapIs
    <3> QED BY <3>1, <3>2, <3>3
  <2>2. CASE ~negative
    <3>1. signed = x /\ v = x.value
      BY <2>2 DEF Signed
    <3> HIDE DEF signed, v
    <3> QED BY <1>1, <3>1, CongIs
  <2> QED BY <2>1, <2>2
<1>3. y.ok => signed.ok /\ total.ok /\ y.total = total.value /\ y.ok = TRUE
  BY DEF JoinTerm, Failed
<1>4. signed.ok /\ total.ok => y.ok /\ y.total = total.value
  BY DEF JoinTerm
<1>5. y.ok \in BOOLEAN
  BY DEF JoinTerm, Failed
<1> HIDE DEF y, signed, v
<1>6. signed.ok => signed.value \in Int /\ before.total + signed.value \in Int
  BY <1>1, <1>2 DEF IsResult
<1>7. signed.ok =>
        /\ IsResult(total)
        /\ total.ok => total.value = Wrap(before.total + signed.value)
        /\ d.checked /\ total.ok => total.value = before.total + signed.value
        /\ ~d.checked => total.ok
  BY <1>6, RenderedIs
<1> HIDE DEF total
<1>8. IsTotal(y)
  BY <1>3, <1>4, <1>5, <1>7 DEF IsTotal, IsResult
<1>9. d.checked /\ y.ok => y.total = before.total + v
  BY <1>2, <1>3, <1>7
<1>10. ASSUME ~d.checked PROVE y.ok /\ Cong(y.total, before.total + v)
  <2>1. signed.ok /\ total.ok /\ y.ok /\ y.total = Wrap(before.total + signed.value)
    BY <1>2, <1>4, <1>7, <1>10
  <2>2. Cong(before.total + signed.value, before.total + v)
    BY <1>1, <1>2, <1>6, <1>10, <2>1, CongIs, CongApply
  <2>3. Wrap(before.total + signed.value) \in Int
        /\ Cong(Wrap(before.total + signed.value), before.total + signed.value)
    BY <1>6, <2>1, WrapIs
  <2> QED BY <1>1, <1>6, <2>1, <2>2, <2>3, CongIs
<1> QED BY <1>8, <1>9, <1>10 DEF y, v

(* The loop, turn by turn.                                                 *)
LEMMA JoinAt ==
    ASSUME NEW d, NEW terms \in Seq(Term), NEW n \in 1..Len(terms)
    PROVE /\ JoinTerms(d, terms)[0] = Nothing
          /\ JoinTerms(d, terms)[n] = JoinBody(d, terms, JoinTerms(d, terms), n)
<1>1. Len(terms) \in Nat /\ 0 \in 0..Len(terms) /\ n \in 0..Len(terms)
  OBVIOUS
<1>2. \A m \in 0..Len(terms) : JoinTerms(d, terms)[m] = JoinBody(d, terms, JoinTerms(d, terms), m)
  BY <1>1, JoinDef
<1>3. JoinTerms(d, terms)[0] = JoinBody(d, terms, JoinTerms(d, terms), 0)
  BY <1>1, <1>2
<1>4. JoinBody(d, terms, JoinTerms(d, terms), 0) = Nothing
  BY DEF JoinBody
<1> QED BY <1>1, <1>2, <1>3, <1>4

(* One more term.                                                          *)
LEMMA JoinNext ==
    ASSUME NEW d \in Expressions, NEW terms \in Seq(Term), NEW n \in 1..Len(terms),
           IsTotal(JoinTerms(d, terms)[n - 1])
    PROVE LET before == JoinTerms(d, terms)[n - 1]
              y == JoinTerms(d, terms)[n] IN
          \E p \in BOOLEAN :
              LET x == RenderEval(d)[terms[n].term][p] IN
              /\ IsTotal(y)
              /\ y.ok => before.ok /\ x.ok
              /\ d.checked /\ y.ok => y.total = before.total + Signed(terms[n].negative, x.value)
              /\ ~d.checked /\ before.ok /\ x.ok =>
                    y.ok /\ Cong(y.total, before.total + Signed(terms[n].negative, x.value))
<1> DEFINE before == JoinTerms(d, terms)[n - 1]
           y == JoinTerms(d, terms)[n]
           p == Len(terms) > 1 \/ terms[n].term.kind = "binary"
           x == RenderEval(d)[terms[n].term][p]
<1>1. terms[n].term \in Tree /\ terms[n].negative \in BOOLEAN /\ p \in BOOLEAN /\ n # 0
  <2>1. terms[n] \in Term
    OBVIOUS
  <2> QED BY <2>1 DEF Term
<1>2. IsResult(x)
  BY <1>1, RenderIs
<1>3. y = IF ~before.ok \/ ~x.ok THEN Failed
          ELSE JoinTerm(d, before, terms[n].negative, x, n = 1)
  BY <1>1, JoinAt DEF JoinBody
<1>4. IsTotal(before)
  OBVIOUS
<1> HIDE DEF before, y, x
<1>5. CASE ~before.ok \/ ~x.ok
  <2>1. y = Failed
    BY <1>3, <1>5
  <2>2. y.ok = FALSE
    BY <2>1 DEF Failed
  <2>3. IsTotal(y)
    BY <2>2 DEF IsTotal
  <2> HIDE DEF p
  <2> QED BY <1>1, <1>5, <2>2, <2>3 DEF before, y, x
<1>6. CASE before.ok /\ x.ok
  <2>0. PICK first \in BOOLEAN : first = (n = 1)
    OBVIOUS
  <2>1. y = JoinTerm(d, before, terms[n].negative, x, first)
    BY <1>3, <1>6, <2>0
  <2>2. /\ IsTotal(y)
        /\ d.checked /\ y.ok => y.total = before.total + Signed(terms[n].negative, x.value)
        /\ ~d.checked => y.ok /\ Cong(y.total, before.total + Signed(terms[n].negative, x.value))
    BY <1>1, <1>2, <1>4, <1>6, <2>1, JoinTermIs
  <2> HIDE DEF p
  <2> QED BY <1>1, <1>6, <2>2 DEF before, y, x
<1> QED BY <1>5, <1>6

(* Every total is an int, or an error.                                     *)
LEMMA JoinIs ==
    ASSUME NEW d \in Expressions, NEW terms \in Seq(Term), Len(terms) > 0
    PROVE /\ JoinTerms(d, terms)[0] = Nothing
          /\ \A n \in 0..Len(terms) : IsTotal(JoinTerms(d, terms)[n])
<1> DEFINE S == {n \in 0..Len(terms) : IsTotal(JoinTerms(d, terms)[n])}
<1>1. Len(terms) \in Nat /\ 1 \in 1..Len(terms) /\ 0 \in 0..Len(terms)
  OBVIOUS
<1>2. JoinTerms(d, terms)[0] = Nothing
  BY <1>1, JoinAt
<1>3. 0 \in S
  <2>1. Nothing.ok = TRUE /\ Nothing.total = 0
    BY DEF Nothing
  <2>2. 0 \in Int /\ Fits(0)
    BY HalfIs DEF Fits
  <2>3. IsTotal(Nothing)
    BY <2>1, <2>2 DEF IsTotal
  <2> QED BY <1>1, <1>2, <2>3
<1>4. ASSUME NEW k \in 0..(Len(terms) - 1), k \in S PROVE k + 1 \in S
  <2>1. k + 1 \in 1..Len(terms) /\ (k + 1) - 1 = k /\ k + 1 \in 0..Len(terms)
    BY <1>1
  <2>2. IsTotal(JoinTerms(d, terms)[(k + 1) - 1])
    BY <1>4, <2>1
  <2>3. IsTotal(JoinTerms(d, terms)[k + 1])
    BY <2>1, <2>2, JoinNext
  <2> QED BY <2>1, <2>3
<1>5. 0..Len(terms) \subseteq S
  <2> HIDE DEF S
  <2> QED BY <1>1, <1>3, <1>4, Induction
<1> QED BY <1>2, <1>5

(* What a sum means, and the signs of its terms.                           *)
LEMMA MeantSum ==
    ASSUME NEW d \in Expressions, NEW t \in Tree, IsBinary(t, {"+", "-"})
    PROVE LET el == Meaning(d)[t.left]
              er == Meaning(d)[t.right]
              e == Meaning(d)[t] IN
          /\ t.left \in Parts(t) /\ t.right \in Parts(t)
          /\ el.ok /\ er.ok => e.ok /\ e.value = IF t.op = "-" THEN el.value - er.value ELSE el.value + er.value
<1> DEFINE el == Meaning(d)[t.left]
           er == Meaning(d)[t.right]
           e == Meaning(d)[t]
<1>1. t.left \in Parts(t) /\ t.right \in Parts(t) /\ t.kind = "binary" /\ t.op \in {"+", "-"}
  BY DEF Parts, IsBinary
<1>2. t.left \in Tree /\ t.right \in Tree
  BY <1>1, TreeParts
<1>3. IsExact(el) /\ IsExact(er)
  BY <1>2, MeaningIs
<1>4. e = Meant(d, t, el, er)
  BY <1>1, MeaningAt DEF MeaningBody
<1> HIDE DEF el, er, e
<1>5. ASSUME el.ok, er.ok PROVE e.ok /\ e.value = IF t.op = "-" THEN el.value - er.value ELSE el.value + er.value
  <2>1. e = [ok |-> TRUE, value |-> Apply(t.op, el.value, er.value)]
    BY <1>1, <1>4, <1>5 DEF Meant
  <2>2. el.value \in Int /\ er.value \in Int
    BY <1>3, <1>5 DEF IsExact
  <2>3. Apply(t.op, el.value, er.value)
        = IF t.op = "-" THEN el.value - er.value ELSE el.value + er.value
    BY <1>1 DEF Apply
  <2> QED BY <2>1, <2>3
<1> QED BY <1>1, <1>5 DEF el, er, e

LEMMA SignedIs ==
    ASSUME NEW a \in Sign, NEW m \in Int
    PROVE Signed(a, m) \in Int
BY DEF Signed, Sign

LEMMA SignedSum ==
    ASSUME NEW t \in Tree, NEW a \in Sign, NEW m \in Int, NEW n \in Int, NEW v \in Int,
           t.op = "-" => v = m - n, t.op # "-" => v = m + n
    PROVE Signed(a, v) = Signed(a, m) + Signed(SignOf(t, a), n)
<1>0. \A k : Signed(TRUE, k) = -k /\ Signed(FALSE, k) = k
  BY DEF Signed
<1>1. CASE t.op = "-" /\ a = TRUE
  <2>1. SignOf(t, a) = FALSE
    BY <1>1 DEF SignOf
  <2>2. Signed(SignOf(t, a), n) = n
    BY <1>0, <2>1
  <2>3. v = m - n /\ Signed(a, v) = -v /\ Signed(a, m) = -m
    BY <1>0, <1>1
  <2> QED BY <2>2, <2>3
<1>2. CASE t.op = "-" /\ a = FALSE
  <2>1. SignOf(t, a) = TRUE
    BY <1>2 DEF SignOf
  <2>2. Signed(SignOf(t, a), n) = -n
    BY <1>0, <2>1
  <2>3. v = m - n /\ Signed(a, v) = v /\ Signed(a, m) = m
    BY <1>0, <1>2
  <2> QED BY <2>2, <2>3
<1>3. CASE t.op # "-"
  <2>1. SignOf(t, a) = a
    BY <1>3 DEF SignOf
  <2>2. Signed(SignOf(t, a), n) = Signed(a, n)
    BY <2>1
  <2>3. v = m + n
    BY <1>3
  <2>4. Signed(a, m + n) = Signed(a, m) + Signed(a, n)
    BY DEF Signed, Sign
  <2> QED BY <2>2, <2>3, <2>4
<1> QED BY <1>1, <1>2, <1>3 DEF Sign

(* Where the terms of a tree stand in a sum.                               *)
LEMMA FlattenedWithin ==
    ASSUME NEW terms \in Seq(Term), NEW t \in Tree, NEW a \in Sign, NEW i \in Nat,
           Stands(terms, i + 1, FlattenAdditive[t][a])
    PROVE i \in 0..Len(terms) /\ i + Len(FlattenAdditive[t][a]) \in 0..Len(terms)
<1> DEFINE u == FlattenAdditive[t][a]
<1>1. u \in Seq(Term) /\ Len(u) > 0
  BY FlattenIs
<1>2. (i + 1) + Len(u) <= Len(terms) + 1
  BY DEF Stands
<1> HIDE DEF u
<1>3. i \in 0..Len(terms) /\ i + Len(u) \in 0..Len(terms)
  BY <1>1, <1>2
<1> QED BY <1>3 DEF u

LEMMA FlattenedSum ==
    ASSUME NEW terms \in Seq(Term), NEW t \in Tree, NEW a \in Sign, NEW i \in Nat,
           Stands(terms, i + 1, FlattenAdditive[t][a]), IsBinary(t, {"+", "-"})
    PROVE /\ SignOf(t, a) \in Sign
          /\ Stands(terms, i + 1, FlattenAdditive[t.left][a])
          /\ i + Len(FlattenAdditive[t.left][a]) \in Nat
          /\ Stands(terms, (i + Len(FlattenAdditive[t.left][a])) + 1, FlattenAdditive[t.right][SignOf(t, a)])
          /\ i + Len(FlattenAdditive[t][a])
             = (i + Len(FlattenAdditive[t.left][a])) + Len(FlattenAdditive[t.right][SignOf(t, a)])
<1> DEFINE u == FlattenAdditive[t][a]
           l == FlattenAdditive[t.left][a]
           r == FlattenAdditive[t.right][SignOf(t, a)]
<1>1. u = l \o r
  BY FlattenAt
<1>2. t.left \in Tree /\ t.right \in Tree
  BY TreeParts DEF Parts, IsBinary
<1>3. SignOf(t, a) \in Sign
  BY DEF SignOf, Sign
<1>4. l \in Seq(Term) /\ r \in Seq(Term)
  BY <1>2, <1>3, FlattenIs
<1>5. Stands(terms, i + 1, u)
  OBVIOUS
<1> HIDE DEF u, l, r
<1>6. Len(u) = Len(l) + Len(r) /\ Len(l) \in Nat /\ Len(r) \in Nat /\ i + 1 \in Nat
  BY <1>1, <1>4
<1>7. Stands(terms, i + 1, l) /\ Stands(terms, (i + 1) + Len(l), r)
  BY <1>1, <1>4, <1>5, <1>6, StandsJoined
<1>8. (i + 1) + Len(l) = (i + Len(l)) + 1 /\ i + Len(u) = (i + Len(l)) + Len(r) /\ i + Len(l) \in Nat
  BY <1>6
<1>9. Stands(terms, (i + Len(l)) + 1, r)
  BY <1>7, <1>8
<1> QED BY <1>3, <1>7, <1>8, <1>9 DEF u, l, r

LEMMA FlattenedLeaf ==
    ASSUME NEW terms \in Seq(Term), NEW t \in Tree, NEW a \in Sign, NEW i \in Nat,
           Stands(terms, i + 1, FlattenAdditive[t][a]), ~IsBinary(t, {"+", "-"})
    PROVE /\ i + Len(FlattenAdditive[t][a]) = i + 1
          /\ i + 1 \in 1..Len(terms)
          /\ terms[i + 1].negative = a /\ terms[i + 1].term = t
<1> DEFINE u == FlattenAdditive[t][a]
           x == [negative |-> a, term |-> t]
<1>1. u = <<x>>
  BY FlattenAt
<1>2. Stands(terms, i + 1, u) /\ i + Len(u) \in 0..Len(terms)
  BY FlattenedWithin
<1>3. x.negative = a /\ x.term = t
  OBVIOUS
<1> HIDE DEF u, x
<1>4. Len(u) = 1 /\ u[1] = x
  BY <1>1
<1>5. 1 \in 1..Len(u) /\ (i + 1) + (1 - 1) = i + 1
  BY <1>4
<1>6. terms[i + 1] = x
  BY <1>2, <1>4, <1>5 DEF Stands
<1>7. i + Len(u) = i + 1 /\ i + 1 \in 1..Len(terms)
  BY <1>2, <1>4
<1> QED BY <1>3, <1>6, <1>7 DEF u

(* The loop adds up what the terms mean: exactly, with checked arithmetic. *)
LEMMA JoinExact ==
    ASSUME NEW d \in Expressions, d.checked, NEW terms \in Seq(Term), Len(terms) > 0
    PROVE \A t \in Tree : Small(t) =>
             \A a \in Sign, i \in Nat :
                Stands(terms, i + 1, FlattenAdditive[t][a]) =>
                    LET before == JoinTerms(d, terms)[i]
                        y == JoinTerms(d, terms)[i + Len(FlattenAdditive[t][a])]
                        e == Meaning(d)[t] IN
                    y.ok => before.ok /\ e.ok /\ y.total = before.total + Signed(a, e.value)
<1> DEFINE J(i) == JoinTerms(d, terms)[i]
           Adds(t, a, i) ==
               LET before == J(i)
                   y == J(i + Len(FlattenAdditive[t][a]))
                   e == Meaning(d)[t] IN
               y.ok => before.ok /\ e.ok /\ y.total = before.total + Signed(a, e.value)
           Good(t) == \A a \in Sign, i \in Nat :
                         Stands(terms, i + 1, FlattenAdditive[t][a]) => Adds(t, a, i)
           S == {t \in Tree : Small(t) => Good(t)}
<1>0. \A n \in 0..Len(terms) : IsTotal(J(n))
  BY JoinIs
<1>1. ASSUME NEW t \in Tree, Parts(t) \subseteq S, Small(t), NEW a \in Sign, NEW i \in Nat,
             Stands(terms, i + 1, FlattenAdditive[t][a])
      PROVE Adds(t, a, i)
  <2> DEFINE j == i + Len(FlattenAdditive[t][a])
             e == Meaning(d)[t]
             l == FlattenAdditive[t.left][a]
             el == Meaning(d)[t.left]
             er == Meaning(d)[t.right]
  <2>0. Stands(terms, i + 1, FlattenAdditive[t][a])
    BY <1>1
  <2>1. i \in 0..Len(terms) /\ j \in 0..Len(terms)
    BY <2>0, FlattenedWithin
  <2>2. IsTotal(J(i)) /\ IsTotal(J(j)) /\ IsExact(e)
    BY <1>0, <2>1, MeaningIs
  <2>3. CASE IsBinary(t, {"+", "-"})
    <3>1. t.left \in Parts(t) /\ t.right \in Parts(t)
          /\ (el.ok /\ er.ok => e.ok /\ e.value = IF t.op = "-" THEN el.value - er.value ELSE el.value + er.value)
      BY <2>3, MeantSum
    <3>2. t.left \in Tree /\ t.right \in Tree /\ Good(t.left) /\ Good(t.right)
      BY <1>1, <3>1, SmallParts
    <3> DEFINE k == i + Len(l)
    <3> DEFINE r == FlattenAdditive[t.right][SignOf(t, a)]
    <3>0. /\ SignOf(t, a) \in Sign
          /\ Stands(terms, i + 1, l)
          /\ k \in Nat
          /\ Stands(terms, k + 1, r)
          /\ j = k + Len(r)
      BY <2>0, <2>3, FlattenedSum
    <3>3. J(k).ok => J(i).ok /\ el.ok /\ J(k).total = J(i).total + Signed(a, el.value)
      BY <3>0, <3>2
    <3>4. J(j).ok => J(k).ok /\ er.ok /\ J(j).total = J(k).total + Signed(SignOf(t, a), er.value)
      <4> HIDE DEF k
      <4>1. Adds(t.right, SignOf(t, a), k)
        BY <3>0, <3>2
      <4> QED BY <3>0, <4>1
    <3>5. IsExact(el) /\ IsExact(er)
      BY <3>2, MeaningIs
    <3> HIDE DEF S, J, Good, e, el, er, j, k, l, r
    <3>6. ASSUME J(j).ok
          PROVE J(i).ok /\ e.ok /\ J(j).total = J(i).total + Signed(a, e.value)
      <4>1. /\ J(i).ok /\ el.ok /\ er.ok /\ e.ok
            /\ J(j).total = (J(i).total + Signed(a, el.value)) + Signed(SignOf(t, a), er.value)
            /\ e.value = IF t.op = "-" THEN el.value - er.value ELSE el.value + er.value
        BY <3>1, <3>3, <3>4, <3>6
      <4>2. el.value \in Int /\ er.value \in Int /\ J(i).total \in Int
        BY <2>2, <3>5, <4>1 DEF IsExact, IsTotal
      <4>3. Signed(a, e.value) = Signed(a, el.value) + Signed(SignOf(t, a), er.value)
        <5> DEFINE v == e.value
                   m == el.value
                   n == er.value
        <5>0. v = (IF t.op = "-" THEN m - n ELSE m + n) /\ m \in Int /\ n \in Int
          BY <4>1, <4>2
        <5> HIDE DEF v, m, n
        <5>1. v \in Int /\ m \in Int /\ n \in Int /\ (t.op = "-" => v = m - n) /\ (t.op # "-" => v = m + n)
          BY <5>0
        <5>2. Signed(a, v) = Signed(a, m) + Signed(SignOf(t, a), n)
          BY <5>1, SignedSum
        <5> QED BY <5>2 DEF v, m, n
      <4>4. Signed(a, el.value) \in Int /\ Signed(SignOf(t, a), er.value) \in Int
        BY <3>0, <4>2, SignedIs
      <4> QED BY <4>1, <4>2, <4>3, <4>4
    <3> QED BY <3>6 DEF e, j
  <2>4. CASE ~IsBinary(t, {"+", "-"})
    <3>1. /\ j \in 1..Len(terms) /\ terms[j].negative = a /\ terms[j].term = t /\ j - 1 = i
      BY <2>0, <2>4, FlattenedLeaf
    <3> HIDE DEF j
    <3>2. PICK p \in BOOLEAN :
              LET x == RenderEval(d)[t][p] IN
              /\ J(j).ok => J(i).ok /\ x.ok
              /\ J(j).ok => J(j).total = J(i).total + Signed(a, x.value)
      BY <2>2, <3>1, JoinNext
    <3>3. RenderEval(d)[t][p].ok => e.ok /\ RenderEval(d)[t][p].value = e.value
      BY <1>1, RenderExact
    <3>4. J(j).ok => J(i).ok /\ e.ok /\ J(j).total = J(i).total + Signed(a, e.value)
      BY <3>2, <3>3
    <3> QED BY <3>4 DEF j
  <2> QED BY <2>3, <2>4
<1>2. Tree \subseteq S
  <2>1. \A t \in Tree : Parts(t) \subseteq S => t \in S
    BY <1>1
  <2> HIDE DEF S
  <2> QED BY <2>1, TreeInduction
<1> QED BY <1>2

(* Signs and equality modulo the width of an int.                          *)
LEMMA SignedModulo ==
    ASSUME NEW a \in Sign, NEW m \in Int, NEW n \in Int, Cong(m, n)
    PROVE Cong(Signed(a, m), Signed(a, n))
<1>1. Cong(-m, -n)
  BY CongApply
<1>2. CASE a = TRUE
  BY <1>1, <1>2 DEF Signed
<1>3. CASE a = FALSE
  BY <1>3 DEF Signed
<1> QED BY <1>2, <1>3 DEF Sign

(* The loop adds up what the terms mean: modulo the width of an int,       *)
(* without checked arithmetic.                                             *)
LEMMA JoinModulo ==
    ASSUME NEW d \in Expressions, ~d.checked, NEW terms \in Seq(Term), Len(terms) > 0
    PROVE \A t \in Tree : Wrapping(t) =>
             \A a \in Sign, i \in Nat :
                Stands(terms, i + 1, FlattenAdditive[t][a]) /\ JoinTerms(d, terms)[i].ok =>
                    LET before == JoinTerms(d, terms)[i]
                        y == JoinTerms(d, terms)[i + Len(FlattenAdditive[t][a])]
                        e == Meaning(d)[t] IN
                    y.ok /\ e.ok /\ Cong(y.total, before.total + Signed(a, e.value))
<1> DEFINE J(i) == JoinTerms(d, terms)[i]
           Adds(t, a, i) ==
               LET before == J(i)
                   y == J(i + Len(FlattenAdditive[t][a]))
                   e == Meaning(d)[t] IN
               y.ok /\ e.ok /\ Cong(y.total, before.total + Signed(a, e.value))
           Good(t) == \A a \in Sign, i \in Nat :
                         Stands(terms, i + 1, FlattenAdditive[t][a]) /\ J(i).ok => Adds(t, a, i)
           S == {t \in Tree : Wrapping(t) => Good(t)}
<1>0. \A n \in 0..Len(terms) : IsTotal(J(n))
  BY JoinIs
<1>1. ASSUME NEW t \in Tree, Parts(t) \subseteq S, Wrapping(t), NEW a \in Sign, NEW i \in Nat,
             Stands(terms, i + 1, FlattenAdditive[t][a]), J(i).ok
      PROVE Adds(t, a, i)
  <2> DEFINE j == i + Len(FlattenAdditive[t][a])
             e == Meaning(d)[t]
             l == FlattenAdditive[t.left][a]
             el == Meaning(d)[t.left]
             er == Meaning(d)[t.right]
  <2>0. Stands(terms, i + 1, FlattenAdditive[t][a])
    BY <1>1
  <2>1. i \in 0..Len(terms) /\ j \in 0..Len(terms)
    BY <2>0, FlattenedWithin
  <2>2. IsTotal(J(i)) /\ IsTotal(J(j)) /\ IsExact(e)
    BY <1>0, <2>1, MeaningIs
  <2>3. CASE IsBinary(t, {"+", "-"})
    <3>1. t.left \in Parts(t) /\ t.right \in Parts(t)
          /\ (el.ok /\ er.ok => e.ok /\ e.value = IF t.op = "-" THEN el.value - er.value ELSE el.value + er.value)
      BY <2>3, MeantSum
    <3>2. t.left \in Tree /\ t.right \in Tree /\ Good(t.left) /\ Good(t.right)
      BY <1>1, <3>1, SmallParts
    <3> DEFINE k == i + Len(l)
    <3> DEFINE r == FlattenAdditive[t.right][SignOf(t, a)]
    <3>0. /\ SignOf(t, a) \in Sign
          /\ Stands(terms, i + 1, l)
          /\ k \in Nat
          /\ Stands(terms, k + 1, r)
          /\ j = k + Len(r)
      BY <2>0, <2>3, FlattenedSum
    <3>3. J(k).ok /\ el.ok /\ Cong(J(k).total, J(i).total + Signed(a, el.value))
      BY <1>1, <3>0, <3>2
    <3>4. J(j).ok /\ er.ok /\ Cong(J(j).total, J(k).total + Signed(SignOf(t, a), er.value))
      <4> HIDE DEF k
      <4>1. Adds(t.right, SignOf(t, a), k)
        BY <3>0, <3>2, <3>3
      <4> QED BY <3>0, <4>1
    <3>5. IsExact(el) /\ IsExact(er)
      BY <3>2, MeaningIs
    <3>6. IsTotal(J(k))
      BY <1>0, <3>0, FlattenedWithin, <3>2
    <3> HIDE DEF S, J, Good, e, el, er, j, k, l, r
    <3>7. /\ el.value \in Int /\ er.value \in Int
          /\ J(i).total \in Int /\ J(j).total \in Int /\ J(k).total \in Int
      BY <1>1, <2>2, <3>3, <3>4, <3>5, <3>6 DEF IsExact, IsTotal
    <3>8. e.ok /\ e.value \in Int
      BY <2>2, <3>1, <3>3, <3>4 DEF IsExact
    <3> DEFINE v == e.value
               m == el.value
               n == er.value
               sm == Signed(a, m)
               sn == Signed(SignOf(t, a), n)
    <3>9. v = IF t.op = "-" THEN m - n ELSE m + n
      BY <3>1, <3>3, <3>4
    <3>10. v \in Int /\ m \in Int /\ n \in Int
      BY <3>7, <3>8
    <3> HIDE DEF v, m, n
    <3>11. (t.op = "-" => v = m - n) /\ (t.op # "-" => v = m + n)
      BY <3>9, <3>10
    <3>12. Signed(a, v) = sm + sn
      BY <3>10, <3>11, SignedSum
    <3>13. sm \in Int /\ sn \in Int
      BY <3>0, <3>10, SignedIs
    <3> HIDE DEF sm, sn
    <3>14. Cong(J(k).total, J(i).total + sm) /\ Cong(J(j).total, J(k).total + sn)
      BY <3>3, <3>4 DEF sm, sn, m, n
    <3>15. Cong(sn, sn)
      BY <3>13, CongIs
    <3>16. Cong(J(k).total + sn, (J(i).total + sm) + sn)
      <4> DEFINE f == J(k).total
                 g == J(i).total + sm
      <4>1. f \in Int /\ g \in Int /\ Cong(f, g)
        BY <3>7, <3>13, <3>14
      <4> HIDE DEF f, g
      <4>2. Cong(f + sn, g + sn)
        BY <3>13, <3>15, <4>1, CongApply
      <4> QED BY <4>2 DEF f, g
    <3>17. J(k).total + sn \in Int /\ (J(i).total + sm) + sn \in Int
           /\ (J(i).total + sm) + sn = J(i).total + (sm + sn)
      BY <3>7, <3>13
    <3>18. Cong(J(j).total, (J(i).total + sm) + sn)
      BY <3>7, <3>14, <3>16, <3>17, CongIs
    <3>19. Cong(J(j).total, J(i).total + Signed(a, v))
      BY <3>12, <3>17, <3>18
    <3> QED BY <3>4, <3>8, <3>19 DEF e, j, v
  <2>4. CASE ~IsBinary(t, {"+", "-"})
    <3>1. /\ j \in 1..Len(terms) /\ terms[j].negative = a /\ terms[j].term = t /\ j - 1 = i
      BY <2>0, <2>4, FlattenedLeaf
    <3> HIDE DEF j
    <3>2. PICK p \in BOOLEAN :
              LET x == RenderEval(d)[t][p] IN
              J(i).ok /\ x.ok => J(j).ok /\ Cong(J(j).total, J(i).total + Signed(a, x.value))
      BY <2>2, <3>1, JoinNext
    <3> DEFINE x == RenderEval(d)[t][p]
    <3>3. x.ok /\ e.ok /\ Cong(x.value, e.value)
      BY <1>1, RenderModulo
    <3>4. IsResult(x)
      BY RenderIs
    <3>5. J(j).ok /\ Cong(J(j).total, J(i).total + Signed(a, x.value))
      BY <1>1, <3>2, <3>3
    <3> HIDE DEF S, J, Good, x, e
    <3>6. x.value \in Int /\ e.value \in Int /\ J(i).total \in Int /\ J(j).total \in Int
      BY <1>1, <2>2, <3>3, <3>4, <3>5 DEF IsResult, IsExact, IsTotal
    <3> DEFINE sx == Signed(a, x.value)
               se == Signed(a, e.value)
               b == J(i).total
               y == J(j).total
    <3>7. Cong(sx, se) /\ sx \in Int /\ se \in Int
      BY <3>3, <3>6, SignedModulo, SignedIs
    <3>8. b \in Int /\ y \in Int /\ Cong(y, b + sx)
      BY <3>5, <3>6
    <3> HIDE DEF sx, se, b, y
    <3>9. Cong(b, b)
      BY <3>8, CongIs
    <3>10. Cong(b + sx, b + se) /\ b + sx \in Int /\ b + se \in Int
      BY <3>7, <3>8, <3>9, CongApply
    <3>11. Cong(y, b + se)
      BY <3>8, <3>10, CongIs
    <3> QED BY <3>3, <3>5, <3>11 DEF e, j, y, b, se
  <2> QED BY <2>3, <2>4
<1>2. Tree \subseteq S
  <2>1. \A t \in Tree : Parts(t) \subseteq S => t \in S
    BY <1>1
  <2> HIDE DEF S
  <2> QED BY <2>1, TreeInduction
<1> QED BY <1>2

(* The whole sum.                                                          *)
LEMMA WholeSum ==
    ASSUME NEW t \in Tree
    PROVE LET terms == FlattenAdditive[t][FALSE] IN
          terms \in Seq(Term) /\ Len(terms) > 0 /\ Stands(terms, 0 + 1, terms) /\ 0 + Len(terms) = Len(terms)
<1> DEFINE terms == FlattenAdditive[t][FALSE]
<1>1. FALSE \in Sign
  BY DEF Sign
<1>2. terms \in Seq(Term) /\ Len(terms) > 0
  BY <1>1, FlattenIs
<1> HIDE DEF terms
<1>3. Stands(terms, 0 + 1, terms) /\ 0 + Len(terms) = Len(terms)
  BY <1>2 DEF Stands
<1> QED BY <1>2, <1>3 DEF terms

(* The loop begins at zero.                                                *)
LEMMA NothingIs ==
    /\ Nothing.ok /\ Nothing.total = 0
    /\ \A n \in Int : Nothing.total + Signed(FALSE, n) = n
<1>1. Nothing.ok = TRUE /\ Nothing.total = 0
  BY DEF Nothing
<1>2. \A n \in Int : 0 + Signed(FALSE, n) = n
  BY DEF Signed
<1> QED BY <1>1, <1>2

(* evaluate() gives an int, or an error.                                   *)
LEMMA EvaluateIs ==
    ASSUME NEW d \in Expressions, NEW t \in Tree
    PROVE IsTotal(Evaluate(d, t))
<1> DEFINE terms == FlattenAdditive[t][FALSE]
<1>1. terms \in Seq(Term) /\ Len(terms) > 0
  BY WholeSum
<1>2. Evaluate(d, t) = JoinTerms(d, terms)[Len(terms)]
  BY DEF Evaluate
<1> HIDE DEF terms
<1>3. Len(terms) \in 0..Len(terms)
  BY <1>1
<1> QED BY <1>1, <1>2, <1>3, JoinIs

(* With checked arithmetic, what evaluate() gives without an error is what *)
(* the expression means.                                                   *)
LEMMA EvaluateExact ==
    ASSUME NEW d \in Expressions, d.checked, NEW t \in Tree, Small(t), Evaluate(d, t).ok
    PROVE Meaning(d)[t].ok /\ Evaluate(d, t).total = Meaning(d)[t].value
<1> DEFINE terms == FlattenAdditive[t][FALSE]
           e == Meaning(d)[t]
           y == Evaluate(d, t)
<1>0. FALSE \in Sign /\ 0 \in Nat
  BY DEF Sign
<1>1. /\ terms \in Seq(Term) /\ Len(terms) > 0
      /\ Stands(terms, 0 + 1, FlattenAdditive[t][FALSE])
      /\ 0 + Len(FlattenAdditive[t][FALSE]) = Len(terms)
  BY WholeSum
<1>2. y = JoinTerms(d, terms)[Len(terms)]
  BY DEF Evaluate
<1>3. IsExact(e) /\ y.ok
  BY MeaningIs
<1> HIDE DEF terms, e, y
<1>4. JoinTerms(d, terms)[0] = Nothing
  BY <1>1, JoinIs
<1>5. e.ok /\ y.total = Nothing.total + Signed(FALSE, e.value)
  BY <1>0, <1>1, <1>2, <1>3, <1>4, JoinExact DEF e
<1>6. e.value \in Int
  BY <1>3, <1>5 DEF IsExact
<1>7. y.total = e.value
  BY <1>5, <1>6, NothingIs
<1> QED BY <1>5, <1>7 DEF e, y

(* Without, an expression of small numbers, signs, sums, differences and   *)
(* products always has a value: what it means, wrapped once.               *)
LEMMA EvaluateModulo ==
    ASSUME NEW d \in Expressions, ~d.checked, NEW t \in Tree, Wrapping(t)
    PROVE /\ Evaluate(d, t).ok /\ Meaning(d)[t].ok
          /\ Evaluate(d, t).total = Wrap(Meaning(d)[t].value)
<1> DEFINE terms == FlattenAdditive[t][FALSE]
           e == Meaning(d)[t]
           y == Evaluate(d, t)
<1>0. FALSE \in Sign /\ 0 \in Nat
  BY DEF Sign
<1>1. /\ terms \in Seq(Term) /\ Len(terms) > 0
      /\ Stands(terms, 0 + 1, FlattenAdditive[t][FALSE])
      /\ 0 + Len(FlattenAdditive[t][FALSE]) = Len(terms)
  BY WholeSum
<1>2. y = JoinTerms(d, terms)[Len(terms)]
  BY DEF Evaluate
<1>3. IsExact(e) /\ IsTotal(y)
  BY MeaningIs, EvaluateIs
<1> HIDE DEF terms, e, y
<1>4. JoinTerms(d, terms)[0] = Nothing
  BY <1>1, JoinIs
<1>5. y.ok /\ e.ok /\ Cong(y.total, Nothing.total + Signed(FALSE, e.value))
  <2>1. JoinTerms(d, terms)[0].ok
    BY <1>4, NothingIs
  <2>2. LET z == JoinTerms(d, terms)[0 + Len(FlattenAdditive[t][FALSE])] IN
        /\ z.ok /\ Meaning(d)[t].ok
        /\ Cong(z.total, JoinTerms(d, terms)[0].total + Signed(FALSE, Meaning(d)[t].value))
    <3>1. \A a \in Sign, i \in Nat :
             Stands(terms, i + 1, FlattenAdditive[t][a]) /\ JoinTerms(d, terms)[i].ok =>
                 LET before == JoinTerms(d, terms)[i]
                     z == JoinTerms(d, terms)[i + Len(FlattenAdditive[t][a])] IN
                 /\ z.ok /\ Meaning(d)[t].ok
                 /\ Cong(z.total, before.total + Signed(a, Meaning(d)[t].value))
      BY <1>1, JoinModulo
    <3> QED BY <1>0, <1>1, <2>1, <3>1
  <2> QED BY <1>1, <1>2, <1>4, <2>2 DEF e
<1>6. e.value \in Int /\ y.total \in Int /\ Fits(y.total)
  BY <1>3, <1>5 DEF IsExact, IsTotal
<1>7. Cong(y.total, e.value)
  <2>1. Nothing.total = 0
    BY NothingIs
  <2>2. Signed(FALSE, e.value) = e.value
    BY DEF Signed
  <2>3. 0 + e.value = e.value
    BY <1>6
  <2>4. Cong(y.total, 0 + e.value)
    BY <1>5, <2>1, <2>2
  <2> QED BY <2>3, <2>4
<1> DEFINE v == e.value
           w == Wrap(v)
<1>8. w \in Int /\ Fits(w) /\ Cong(w, v)
  BY <1>6, WrapIs
<1> HIDE DEF v, w
<1>9. Cong(v, w) /\ Cong(y.total, v) /\ v \in Int
  BY <1>6, <1>7, <1>8, CongIs DEF v
<1>10. Cong(y.total, w)
  BY <1>6, <1>8, <1>9, CongIs
<1>11. y.total = w
  BY <1>6, <1>8, <1>10, CongFits
<1> QED BY <1>5, <1>11 DEF e, y, v, w

(* The numbers of a text are those of its parts.                           *)
LEMMA LexesJoined ==
    ASSUME NEW u \in Texts, NEW v \in Texts
    PROVE Lexes(u \o v) <=> Lexes(u) /\ Lexes(v)
<1> DEFINE w == u \o v
<1>1. /\ Len(w) = Len(u) + Len(v) /\ Len(u) \in Nat /\ Len(v) \in Nat
      /\ \A i \in 1..Len(u) : w[i] = u[i]
      /\ \A i \in 1..Len(v) : w[i + Len(u)] = v[i]
  <2> DEFINE T == [type : {"number", "+", "-", "*", "/", "d", "(", ")"}, value : Nat]
  <2>1. u \in Seq(T) /\ v \in Seq(T)
    BY DEF Texts
  <2> HIDE DEF T
  <2> QED BY <2>1
<1> HIDE DEF w
<1>2. ASSUME Lexes(w) PROVE Lexes(u) /\ Lexes(v)
  <2>1. \A i \in 1..Len(u) : i \in 1..Len(w)
    BY <1>1
  <2>2. \A i \in 1..Len(v) : i + Len(u) \in 1..Len(w)
    BY <1>1
  <2> QED BY <1>1, <1>2, <2>1, <2>2 DEF Lexes
<1>3. ASSUME Lexes(u), Lexes(v) PROVE Lexes(w)
  <2>1. ASSUME NEW i \in 1..Len(w) PROVE w[i].type = "number" => w[i].value < Half
    <3>1. CASE i <= Len(u)
      BY <1>1, <1>3, <3>1 DEF Lexes
    <3>2. CASE ~(i <= Len(u))
      <4>1. i - Len(u) \in 1..Len(v) /\ (i - Len(u)) + Len(u) = i
        BY <1>1, <3>2
      <4> QED BY <1>1, <1>3, <4>1 DEF Lexes
    <3> QED BY <3>1, <3>2
  <2> QED BY <2>1 DEF Lexes
<1> QED BY <1>2, <1>3 DEF w

(* A token, a number, a text in brackets, and texts around an operator.    *)
LEMMA LexesTok ==
    ASSUME NEW ty \in {"+", "-", "*", "/", "d", "(", ")"}
    PROVE Tok(ty) \in Texts /\ Lexes(Tok(ty))
<1>1. Tok(ty) \in Texts /\ Tok(ty) = <<[type |-> ty, value |-> 0]>>
  BY TokIs
<1>2. \A i \in 1..Len(Tok(ty)) : Tok(ty)[i].type = ty
  BY <1>1
<1>3. ty # "number"
  OBVIOUS
<1> QED BY <1>1, <1>2, <1>3 DEF Lexes

LEMMA LexesNum ==
    ASSUME NEW n \in Nat
    PROVE Num(n) \in Texts /\ (Lexes(Num(n)) <=> n < Half)
<1> DEFINE x == [type |-> "number", value |-> n]
<1>1. x \in [type : {"number", "+", "-", "*", "/", "d", "(", ")"}, value : Nat]
      /\ x.type = "number" /\ x.value = n
  OBVIOUS
<1>2. Num(n) = <<x>>
  BY DEF Num
<1> HIDE DEF x
<1>3. Num(n) \in Texts
  BY <1>1, <1>2 DEF Texts
<1>4. Len(Num(n)) = 1 /\ Num(n)[1] = x
  BY <1>2
<1> QED BY <1>1, <1>3, <1>4 DEF Lexes

LEMMA LexesWithin ==
    ASSUME NEW t, NEW u \in Texts, NEW k
    PROVE Within(t, u, k) \in Texts /\ (Lexes(Within(t, u, k)) <=> Lexes(u))
<1> DEFINE a == Tok("(")
           b == Tok(")")
<1>1. a \in Texts /\ b \in Texts /\ Lexes(a) /\ Lexes(b)
  BY LexesTok
<1> HIDE DEF a, b
<1>2. a \o u \in Texts /\ (Lexes(a \o u) <=> Lexes(u))
  BY <1>1, JoinedText, LexesJoined
<1>3. (a \o u) \o b \in Texts /\ (Lexes((a \o u) \o b) <=> Lexes(u))
  BY <1>1, <1>2, JoinedText, LexesJoined
<1> QED BY <1>3 DEF Within, Bracketed, a, b

LEMMA LexesThree ==
    ASSUME NEW u \in Texts, NEW ty \in {"+", "-", "*", "/", "d", "(", ")"}, NEW v \in Texts
    PROVE u \o Tok(ty) \o v \in Texts /\ (Lexes(u \o Tok(ty) \o v) <=> Lexes(u) /\ Lexes(v))
<1> DEFINE a == Tok(ty)
<1>1. a \in Texts /\ Lexes(a)
  BY LexesTok
<1> HIDE DEF a
<1>2. u \o a \in Texts /\ (Lexes(u \o a) <=> Lexes(u))
  BY <1>1, JoinedText, LexesJoined
<1>3. (u \o a) \o v \in Texts /\ (Lexes((u \o a) \o v) <=> Lexes(u) /\ Lexes(v))
  BY <1>2, JoinedText, LexesJoined
<1> QED BY <1>3 DEF a

LEMMA LexesMinus ==
    ASSUME NEW u \in Texts
    PROVE Tok("-") \o u \in Texts /\ (Lexes(Tok("-") \o u) <=> Lexes(u))
<1> DEFINE a == Tok("-")
<1>1. a \in Texts /\ Lexes(a)
  BY LexesTok
<1> HIDE DEF a
<1>2. a \o u \in Texts /\ (Lexes(a \o u) <=> Lexes(u))
  BY <1>1, JoinedText, LexesJoined
<1> QED BY <1>2 DEF a

(* The numbers of a tree are its own and those of its parts.               *)
LEMMA SmallIs ==
    ASSUME NEW t \in Tree
    PROVE /\ t.kind = "number" => (Small(t) <=> t.value < Half)
          /\ t.kind # "number" => (Small(t) <=> \A u \in Parts(t) : Small(u))
<1>1. Nodes[t] = NodesBody(Nodes, t)
  BY NodesDef
<1>2. t.kind = "number" => Nodes[t] = {t}
  BY <1>1 DEF NodesBody
<1>3. \A u : u \in Nodes[t] <=> u = t \/ \E w \in Parts(t) : u \in Nodes[w]
  BY <1>1 DEF NodesBody, Parts
<1> QED BY <1>2, <1>3 DEF Small

(* The text of a tree is read by the lexer exactly when its numbers are    *)
(* small.                                                                  *)
LEMMA TypedLexes == \A t \in Tree : TypedText[t] \in Texts /\ (Lexes(TypedText[t]) <=> Small(t))
<1> DEFINE Good(t) == TypedText[t] \in Texts /\ (Lexes(TypedText[t]) <=> Small(t))
           S == {t \in Tree : Good(t) /\ \A u \in Parts(t) : Good(u)}
<1>1. ASSUME NEW t \in Tree, Parts(t) \subseteq S PROVE t \in S
  <2>0. TypedText[t] = TypedBody(TypedText, t)
    BY TypedAt
  <2>1. \A u \in Parts(t) : u \in Tree /\ Good(u) /\ \A v \in Parts(u) : Good(v)
    BY <1>1
  <2>2. \A u \in Parts(t) : \A k :
            Within(u, TypedText[u], k) \in Texts /\ (Lexes(Within(u, TypedText[u], k)) <=> Small(u))
    BY <2>1, LexesWithin
  <2> SUFFICES Good(t)
    BY <2>1
  <2> HIDE DEF S
  <2>3. CASE t.kind = "number"
    <3>1. t.value \in Nat
      BY <2>3, TreeParts
    <3>2. TypedText[t] = Num(t.value)
      BY <2>0, <2>3 DEF TypedBody
    <3> QED BY <2>3, <3>1, <3>2, LexesNum, SmallIs
  <2>4. CASE t.kind = "minus"
    <3> DEFINE u == Within(t.left, TypedText[t.left], 3)
    <3>1. t.left \in Parts(t) /\ Parts(t) = {t.left}
      BY <2>4 DEF Parts
    <3>2. TypedText[t] = Tok("-") \o u
      BY <2>0, <2>4 DEF TypedBody
    <3>3. u \in Texts /\ (Lexes(u) <=> Small(t.left))
      BY <2>2, <3>1
    <3>4. Small(t) <=> Small(t.left)
      BY <2>4, <3>1, SmallIs
    <3> HIDE DEF u
    <3> QED BY <3>2, <3>3, <3>4, LexesMinus
  <2>5. CASE t.kind = "roll"
    <3> DEFINE u == Within(t.left, TypedText[t.left], 4)
               v == IF t.right.kind = "minus"
                    THEN Tok("-") \o Within(t.right.left, TypedText[t.right.left], 5)
                    ELSE Within(t.right, TypedText[t.right], 5)
    <3>1. t.left \in Parts(t) /\ t.right \in Parts(t) /\ Parts(t) = {t.left, t.right}
      BY <2>5 DEF Parts
    <3>2. TypedText[t] = u \o Tok("d") \o v
      BY <2>0, <2>5 DEF TypedBody
    <3>3. u \in Texts /\ (Lexes(u) <=> Small(t.left))
      BY <2>2, <3>1
    <3>4. v \in Texts /\ (Lexes(v) <=> Small(t.right))
      <4>1. CASE t.right.kind = "minus"
        <5> DEFINE w == Within(t.right.left, TypedText[t.right.left], 5)
        <5>1. t.right.left \in Parts(t.right) /\ Parts(t.right) = {t.right.left} /\ t.right \in Tree
          BY <2>1, <3>1, <4>1 DEF Parts
        <5>2. Good(t.right.left)
          BY <2>1, <3>1, <5>1
        <5>3. w \in Texts /\ (Lexes(w) <=> Small(t.right.left))
          BY <5>2, LexesWithin
        <5>4. Small(t.right) <=> Small(t.right.left)
          BY <4>1, <5>1, SmallIs
        <5>5. v = Tok("-") \o w
          BY <4>1
        <5> HIDE DEF v, w
        <5> QED BY <5>3, <5>4, <5>5, LexesMinus
      <4>2. CASE t.right.kind # "minus"
        BY <2>2, <3>1, <4>2
      <4> QED BY <4>1, <4>2
    <3>5. Small(t) <=> Small(t.left) /\ Small(t.right)
      BY <2>5, <3>1, SmallIs
    <3> HIDE DEF u, v
    <3> QED BY <3>2, <3>3, <3>4, <3>5, LexesThree
  <2>6. CASE t.kind = "binary"
    <3> DEFINE u == Within(t.left, TypedText[t.left], Level(t))
               v == Within(t.right, TypedText[t.right], Level(t) + 1)
    <3>1. t.left \in Parts(t) /\ t.right \in Parts(t) /\ Parts(t) = {t.left, t.right}
      BY <2>6 DEF Parts
    <3>2. TypedText[t] = u \o Tok(t.op) \o v
      BY <2>0, <2>6 DEF TypedBody
    <3>3. u \in Texts /\ (Lexes(u) <=> Small(t.left))
      BY <2>2, <3>1
    <3>4. v \in Texts /\ (Lexes(v) <=> Small(t.right))
      BY <2>2, <3>1
    <3>5. Small(t) <=> Small(t.left) /\ Small(t.right)
      BY <2>6, <3>1, SmallIs
    <3>6. t.op \in {"+", "-", "*", "/", "d", "(", ")"}
      BY <2>6, TreeParts DEF Op
    <3> HIDE DEF u, v
    <3> QED BY <3>2, <3>3, <3>4, <3>5, <3>6, LexesThree
  <2> QED BY <2>3, <2>4, <2>5, <2>6, TreeParts
<1>2. Tree \subseteq S
  <2>1. \A t \in Tree : Parts(t) \subseteq S => t \in S
    BY <1>1
  <2> HIDE DEF S
  <2> QED BY <2>1, TreeInduction
<1> QED BY <1>2

(* What is read of a tree that was typed.                                  *)
Understood(t) == IF Lexes(TypedText[t]) THEN Parsed(t, Len(TypedText[t]) + 1) ELSE Failed

(* Nothing is known before its step, and then it is what the step makes of *)
(* what was typed.                                                         *)
DiceInv ==
    /\ tree \in Trees /\ dice \in Expressions /\ phase \in {"typed", "parsed", "done"}
    /\ ast = IF phase = "typed" THEN Failed ELSE Understood(tree)
    /\ result = IF phase = "done" /\ ast.ok THEN Evaluate(dice, ast.tree) ELSE Failed

LEMMA FailedIs == Failed.ok = FALSE
BY DEF Failed

(* What is understood of a typed tree is the tree itself.                  *)
LEMMA UnderstoodIs ==
    ASSUME NEW t \in Tree
    PROVE /\ Understood(t).ok \in BOOLEAN
          /\ Understood(t).ok <=> Small(t)
          /\ Understood(t).ok => Understood(t).tree = t
<1>1. Lexes(TypedText[t]) <=> Small(t)
  BY TypedLexes
<1>2. CASE Lexes(TypedText[t])
  <2>1. Understood(t).ok = TRUE /\ Understood(t).tree = t
    BY <1>2 DEF Understood, Parsed
  <2> QED BY <1>1, <1>2, <2>1
<1>3. CASE ~Lexes(TypedText[t])
  <2>1. Understood(t).ok = FALSE
    BY <1>3, FailedIs DEF Understood
  <2> QED BY <1>1, <1>3, <2>1
<1> QED BY <1>2, <1>3

LEMMA ParseReads ==
    ASSUME NEW t \in Tree
    PROVE (IF Lexes(TypedText[t]) THEN ParseAll(TypedText[t]) ELSE Failed) = Understood(t)
BY ParsesWhatIsTyped DEF Understood

(* The invariant holds at first, is kept by every step, and implies the    *)
(* types and that the total is exact.                                      *)
LEMMA DiceInvStarts == DiceInit => DiceInv
<1> SUFFICES ASSUME DiceInit PROVE DiceInv
  OBVIOUS
<1> QED BY DEF DiceInit, DiceInv, Expressions

LEMMA DiceInvStep == DiceInv /\ [DiceNext]_diceVars => DiceInv'
<1> SUFFICES ASSUME DiceInv, [DiceNext]_diceVars PROVE DiceInv'
  OBVIOUS
<1>1. CASE Parse
  <2>1. /\ phase = "typed" /\ phase' = "parsed"
        /\ ast' = IF Lexes(TypedText[tree]) THEN ParseAll(TypedText[tree]) ELSE Failed
        /\ tree' = tree /\ dice' = dice /\ result' = result
    BY <1>1 DEF Parse
  <2>2. tree \in Trees /\ tree \in Tree /\ dice \in Expressions
    BY DiceAssumption DEF DiceInv
  <2>3. ast' = Understood(tree)
    BY <2>1, <2>2, ParseReads
  <2>4. result = Failed
    BY <2>1 DEF DiceInv
  <2> QED BY <2>1, <2>2, <2>3, <2>4 DEF DiceInv
<1>2. CASE Answer
  <2>1. /\ phase = "parsed" /\ phase' = "done"
        /\ result' = IF ast.ok THEN Evaluate(dice, ast.tree) ELSE Failed
        /\ tree' = tree /\ dice' = dice /\ ast' = ast
    BY <1>2 DEF Answer
  <2>2. /\ tree \in Trees /\ dice \in Expressions
        /\ ast = Understood(tree)
    BY <2>1 DEF DiceInv
  <2> QED BY <2>1, <2>2 DEF DiceInv
<1>3. CASE UNCHANGED diceVars
  BY <1>3 DEF diceVars, DiceInv
<1> QED BY <1>1, <1>2, <1>3 DEF DiceNext

LEMMA DiceInvHolds == DiceSpec => []DiceInv
BY DiceInvStarts, DiceInvStep, PTL DEF DiceSpec

LEMMA DiceInvTypes == DiceInv => DiceTypeOK
<1> SUFFICES ASSUME DiceInv PROVE DiceTypeOK
  OBVIOUS
<1>1. tree \in Trees /\ tree \in Tree /\ dice \in Expressions /\ phase \in {"typed", "parsed", "done"}
  BY DiceAssumption DEF DiceInv
<1>2. ast.ok \in BOOLEAN /\ (ast.ok => ast.tree \in Tree)
  <2>1. CASE phase = "typed"
    <3>1. ast = Failed
      BY <2>1 DEF DiceInv
    <3> QED BY <3>1, FailedIs
  <2>2. CASE phase # "typed"
    <3>1. ast = Understood(tree)
      BY <2>2 DEF DiceInv
    <3> QED BY <1>1, <3>1, UnderstoodIs
  <2> QED BY <2>1, <2>2
<1>3. result.ok \in BOOLEAN /\ (result.ok => Fits(result.total))
  <2>1. CASE phase = "done" /\ ast.ok
    <3>1. result = Evaluate(dice, ast.tree) /\ ast.tree \in Tree
      BY <1>2, <2>1 DEF DiceInv
    <3>2. IsTotal(result)
      BY <1>1, <3>1, EvaluateIs
    <3> QED BY <3>2 DEF IsTotal
  <2>2. CASE ~(phase = "done" /\ ast.ok)
    <3>1. result = Failed
      BY <2>2 DEF DiceInv
    <3> QED BY <3>1, FailedIs
  <2> QED BY <2>1, <2>2
<1> QED BY <1>1, <1>2, <1>3 DEF DiceTypeOK, Expressions

LEMMA DiceInvExact == DiceInv => TotalExact
<1> SUFFICES ASSUME DiceInv, phase = "done"
             PROVE LET exact == Meaning(dice)[tree] IN
                   /\ dice.checked /\ result.ok => exact.ok /\ result.total = exact.value
                   /\ ~dice.checked /\ Wrapping(tree) => result.ok /\ result.total = Wrap(exact.value)
  BY DEF TotalExact, Wrapping
<1>1. tree \in Tree /\ dice \in Expressions /\ ast = Understood(tree)
  BY DiceAssumption DEF DiceInv
<1>2. /\ ast.ok <=> Small(tree)
      /\ ast.ok => ast.tree = tree
  BY <1>1, UnderstoodIs
<1>3. CASE ast.ok
  <2>1. result = Evaluate(dice, tree) /\ Small(tree)
    BY <1>2, <1>3 DEF DiceInv
  <2> QED BY <1>1, <2>1, EvaluateExact, EvaluateModulo
<1>4. CASE ~ast.ok
  <2>1. result = Failed /\ ~Small(tree)
    BY <1>2, <1>4 DEF DiceInv
  <2>2. ~Wrapping(tree)
    BY <1>1, <2>1, SmallParts
  <2> QED BY <2>1, <2>2, FailedIs
<1> QED BY <1>3, <1>4

(* The variables keep their types; a total is an int.                      *)
THEOREM DiceTypes == DiceSpec => []DiceTypeOK
BY DiceInvHolds, DiceInvTypes, PTL

(* dice_expression.cpp:111-115, 264-271, 177-178. The total is what the    *)
(* typed expression means: with checked arithmetic exactly, whenever there *)
(* is no error; without, for expressions of numbers, signs, sums,          *)
(* differences and products, modulo the width of an int.                   *)
THEOREM TotalIsExact == DiceSpec => []TotalExact
BY DiceInvHolds, DiceInvExact, PTL

-----------------------------------------------------------------------------
(* The signs and operators of a text.  A joined text has those of both of  *)
(* its parts.                                                              *)
OperatorsOf(u) == {i \in 1..Len(u) : u[i].type \in {"+", "-", "*", "/", "d"}}

LEMMA OperatorsIs ==
    ASSUME NEW u \in Texts
    PROVE IsFiniteSet(OperatorsOf(u)) /\ Operators(u) \in Nat /\ Operators(u) = Cardinality(OperatorsOf(u))
<1>1. IsFiniteSet(1..Len(u)) /\ OperatorsOf(u) \subseteq 1..Len(u)
  <2>1. Len(u) \in Int
    BY DEF Texts
  <2>2. IsFiniteSet(1..Len(u))
    BY <2>1, FS_Interval
  <2>3. OperatorsOf(u) \subseteq 1..Len(u)
    BY DEF OperatorsOf
  <2> QED BY <2>2, <2>3
<1>2. IsFiniteSet(OperatorsOf(u))
  BY <1>1, FS_Subset
<1> QED BY <1>2, FS_CardinalityType DEF Operators, OperatorsOf

LEMMA JoinedAt ==
    ASSUME NEW u \in Texts, NEW v \in Texts
    PROVE /\ \A i \in 1..Len(u) : (u \o v)[i] = u[i]
          /\ \A i \in 1..Len(v) : (u \o v)[i + Len(u)] = v[i]
<1> DEFINE T == [type : {"number", "+", "-", "*", "/", "d", "(", ")"}, value : Nat]
<1>1. u \in Seq(T) /\ v \in Seq(T)
  BY DEF Texts
<1> HIDE DEF T
<1> QED BY <1>1

LEMMA OperatorsJoined ==
    ASSUME NEW u \in Texts, NEW v \in Texts
    PROVE Operators(u \o v) = Operators(u) + Operators(v)
<1> DEFINE w == u \o v
           A == OperatorsOf(u)
           C == OperatorsOf(v)
           f == [i \in C |-> i + Len(u)]
           B == {f[i] : i \in C}
<1>1. w \in Texts /\ Len(w) = Len(u) + Len(v) /\ Len(u) \in Nat /\ Len(v) \in Nat
  BY JoinedText
<1>2. /\ \A i \in 1..Len(u) : w[i] = u[i]
      /\ \A i \in 1..Len(v) : w[i + Len(u)] = v[i]
  BY JoinedAt
<1> HIDE DEF w
<1>3. C \subseteq Nat /\ \A i \in C : f[i] = i + Len(u) /\ f[i] > Len(u)
  BY <1>1 DEF OperatorsOf
<1>4. OperatorsOf(w) = A \cup B
  <2>1. ASSUME NEW i \in OperatorsOf(w) PROVE i \in A \cup B
    <3>1. i \in 1..Len(w) /\ w[i].type \in {"+", "-", "*", "/", "d"}
      BY DEF OperatorsOf
    <3>2. CASE i <= Len(u)
      BY <1>1, <1>2, <3>1, <3>2 DEF OperatorsOf
    <3>3. CASE ~(i <= Len(u))
      <4>1. i - Len(u) \in 1..Len(v) /\ (i - Len(u)) + Len(u) = i
        BY <1>1, <3>1, <3>3
      <4>2. i - Len(u) \in C
        BY <1>2, <3>1, <4>1 DEF OperatorsOf
      <4>3. f[i - Len(u)] = i
        BY <1>3, <4>1, <4>2
      <4> QED BY <4>2, <4>3
    <3> QED BY <3>2, <3>3
  <2>2. ASSUME NEW i \in A PROVE i \in OperatorsOf(w)
    BY <1>1, <1>2 DEF OperatorsOf
  <2>3. ASSUME NEW i \in C PROVE f[i] \in OperatorsOf(w)
    <3>1. i \in 1..Len(v) /\ v[i].type \in {"+", "-", "*", "/", "d"}
      BY DEF OperatorsOf
    <3>2. i + Len(u) \in 1..Len(w) /\ w[i + Len(u)] = v[i]
      BY <1>1, <1>2, <3>1
    <3> HIDE DEF f
    <3> QED BY <1>3, <3>1, <3>2 DEF OperatorsOf
  <2> QED BY <2>1, <2>2, <2>3
<1>5. A \cap B = {}
  <2>1. ASSUME NEW i \in A, NEW j \in C, i = f[j] PROVE FALSE
    <3>1. i \in 1..Len(u)
      BY DEF OperatorsOf
    <3> HIDE DEF A, C, f
    <3>2. f[j] > Len(u) /\ f[j] \in Nat
      BY <1>1, <1>3
    <3> QED BY <1>1, <2>1, <3>1, <3>2
  <2> QED BY <2>1
<1>6. f \in Bijection(C, B)
  <2>1. f \in [C -> B]
    OBVIOUS
  <2>2. \A i, j \in C : f[i] = f[j] => i = j
    BY <1>1, <1>3
  <2>3. \A b \in B : \E i \in C : f[i] = b
    OBVIOUS
  <2> HIDE DEF f, B, C
  <2> QED BY <2>1, <2>2, <2>3 DEF Bijection, Injection, Surjection, IsInjective
<1>7. IsFiniteSet(A) /\ IsFiniteSet(C)
  BY OperatorsIs
<1> HIDE DEF A, B, C, f
<1>8. ExistsBijection(C, B)
  BY <1>6 DEF ExistsBijection
<1>9. IsFiniteSet(B) /\ Cardinality(B) = Cardinality(C)
  BY <1>7, <1>8, FS_Bijection
<1>10. Cardinality(A \cup B) = Cardinality(A) + Cardinality(C)
  <2>1. Cardinality(A \cup B) = Cardinality(A) + Cardinality(B) - Cardinality(A \cap B)
    BY <1>7, <1>9, FS_Union
  <2>2. Cardinality(A \cap B) = 0
    BY <1>5, FS_EmptySet
  <2>3. Cardinality(A) \in Nat /\ Cardinality(C) \in Nat
    BY <1>7, FS_CardinalityType
  <2> QED BY <1>9, <2>1, <2>2, <2>3
<1>11. Operators(w) = Cardinality(A) + Cardinality(C)
  BY <1>1, <1>4, <1>10, OperatorsIs
<1> QED BY <1>11, OperatorsIs DEF w, A, C

(* A sign or operator counts one, a number and a bracket nothing.          *)
LEMMA OperatorsTok ==
    /\ \A ty \in {"+", "-", "*", "/", "d"} : Operators(Tok(ty)) = 1
    /\ \A ty \in {"(", ")"} : Operators(Tok(ty)) = 0
    /\ \A n \in Nat : Operators(Num(n)) = 0
<1>1. ASSUME NEW ty \in {"+", "-", "*", "/", "d"} PROVE Operators(Tok(ty)) = 1
  <2>1. Tok(ty) \in Texts /\ Len(Tok(ty)) = 1 /\ Tok(ty)[1].type = ty
    BY TokIs DEF Tok
  <2>2. OperatorsOf(Tok(ty)) = {1}
    BY <2>1 DEF OperatorsOf
  <2> QED BY <2>1, <2>2, OperatorsIs, FS_Singleton
<1>2. ASSUME NEW ty \in {"(", ")"} PROVE Operators(Tok(ty)) = 0
  <2>1. Tok(ty) \in Texts /\ Len(Tok(ty)) = 1 /\ Tok(ty)[1].type = ty
    BY TokIs DEF Tok
  <2>2. OperatorsOf(Tok(ty)) = {}
    BY <2>1 DEF OperatorsOf
  <2> QED BY <2>1, <2>2, OperatorsIs, FS_EmptySet
<1>3. ASSUME NEW n \in Nat PROVE Operators(Num(n)) = 0
  <2>1. Num(n) \in Texts /\ Len(Num(n)) = 1 /\ Num(n)[1].type = "number"
    BY LexesNum DEF Num
  <2>2. OperatorsOf(Num(n)) = {}
    BY <2>1 DEF OperatorsOf
  <2> QED BY <2>1, <2>2, OperatorsIs, FS_EmptySet
<1> QED BY <1>1, <1>2, <1>3

LEMMA TextJoined ==
    ASSUME NEW u \in Texts, NEW v \in Texts
    PROVE /\ u \o v \in Texts
          /\ Len(u \o v) = Len(u) + Len(v) /\ Len(u) \in Nat /\ Len(v) \in Nat
          /\ Operators(u \o v) = Operators(u) + Operators(v)
          /\ Operators(u) \in Nat /\ Operators(v) \in Nat
<1>1. u \o v \in Texts /\ Len(u \o v) = Len(u) + Len(v) /\ Len(u) \in Nat /\ Len(v) \in Nat
  BY JoinedText
<1>2. Operators(u \o v) = Operators(u) + Operators(v)
  BY OperatorsJoined
<1>3. Operators(u) \in Nat /\ Operators(v) \in Nat
  BY OperatorsIs
<1> QED BY <1>1, <1>2, <1>3

(* A tree is nested as deep as its parts and one more.                     *)
LEMMA NestedUp ==
    \A m, n \in 0..MaxDepth : m <= n => Nested[m] \subseteq Nested[n]
<1> SUFFICES ASSUME NEW m \in 0..MaxDepth PROVE \A n \in 0..MaxDepth : m <= n => Nested[m] \subseteq Nested[n]
  OBVIOUS
<1> DEFINE S == {n \in 0..MaxDepth : m <= n => Nested[m] \subseteq Nested[n]}
<1>0. MaxDepth \in Nat /\ m \in Nat /\ m <= MaxDepth
  BY GrammarAssumption
<1>1. 0 \in S
  BY <1>0
<1>2. ASSUME NEW k \in 0..(MaxDepth - 1), k \in S PROVE k + 1 \in S
  <2>1. k \in 0..MaxDepth /\ k + 1 \in 0..MaxDepth
    BY <1>0
  <2>2. Nested[k] \subseteq Nested[k + 1]
    BY <2>1, NestedGrows
  <2>3. CASE m <= k
    BY <1>2, <2>1, <2>2, <2>3
  <2>4. CASE ~(m <= k)
    <3>1. m <= k + 1 => m = k + 1
      BY <1>0, <2>1, <2>4
    <3> QED BY <2>1, <3>1
  <2> QED BY <2>3, <2>4
<1>3. 0..MaxDepth \subseteq S
  <2> HIDE DEF S
  <2> QED BY <1>0, <1>1, <1>2, Induction
<1> QED BY <1>3

LEMMA NestedIsTree ==
    ASSUME NEW n \in 0..MaxDepth, NEW t \in Nested[n]
    PROVE t \in Tree
<1>1. MaxDepth \in 0..MaxDepth /\ n <= MaxDepth
  BY GrammarAssumption
<1> QED BY <1>1, NestedUp DEF Tree

LEMMA NestedMakes ==
    /\ \A n \in Nat : MakeNumber(n) \in Nested[0]
    /\ \A m \in 0..MaxDepth : m + 1 \in 0..MaxDepth =>
          \A t \in Nested[m] : MakeUnaryMinus(t) \in Nested[m + 1]
    /\ \A m, n \in Nat : m + 1 + n \in 0..MaxDepth =>
          \A t \in Nested[m], u \in Nested[n], op \in Op :
              MakeBinaryOp(op, t, u) \in Nested[m + 1 + n]
<1>1. \A n \in Nat : MakeNumber(n) \in Nested[0]
  BY NestedAt DEF Leaves, MakeNumber
<1>2. ASSUME NEW m \in 0..MaxDepth, m + 1 \in 0..MaxDepth, NEW t \in Nested[m]
      PROVE MakeUnaryMinus(t) \in Nested[m + 1]
  <2>1. Nested[m + 1] = Deeper(Nested[m])
    BY <1>2, NestedAt
  <2>2. MakeUnaryMinus(t) \in Negated(Nested[m])
    BY DEF MakeUnaryMinus, Negated
  <2> QED BY <2>1, <2>2 DEF Deeper
<1>3. ASSUME NEW m \in Nat, NEW n \in Nat, m + 1 + n \in 0..MaxDepth,
             NEW t \in Nested[m], NEW u \in Nested[n], NEW op \in Op
      PROVE MakeBinaryOp(op, t, u) \in Nested[m + 1 + n]
  <2> DEFINE k == m + n
  <2>1. /\ k \in 0..MaxDepth /\ k + 1 \in 0..MaxDepth /\ k + 1 = m + 1 + n
        /\ m \in 0..MaxDepth /\ n \in 0..MaxDepth /\ m <= k /\ n <= k
    BY <1>3, GrammarAssumption
  <2> HIDE DEF k
  <2>2. t \in Nested[k] /\ u \in Nested[k]
    BY <2>1, NestedUp
  <2>3. Nested[k + 1] = Deeper(Nested[k])
    BY <2>1, NestedAt
  <2>4. MakeBinaryOp(op, t, u) \in Operations(Nested[k], Nested[k])
    BY <2>2 DEF MakeBinaryOp, Operations
  <2>5. MakeBinaryOp(op, t, u) \in Deeper(Nested[k])
    BY <2>4 DEF Deeper
  <2> QED BY <2>1, <2>3, <2>5
<1> QED BY <1>1, <1>2, <1>3

-----------------------------------------------------------------------------
(* The text u says the number v: the parser reads it, at the level k of    *)
(* the grammar, as a tree of that value, if there is room for the tree.    *)
IsValue(d, t, v) == RenderEval(d)[t][TRUE].ok /\ RenderEval(d)[t][TRUE].value = v
Says(d, u, k, v) ==
    /\ u \in Texts /\ Len(u) > 0 /\ v \in Int /\ Fits(v)
    /\ Operators(u) <= MaxDepth =>
          \E t \in Nested[Operators(u)] : IsValue(d, t, v) /\ \A s \in Texts : Reads(s, u, t, k)

(* The values of trees.                                                    *)
LEMMA RenderedWraps ==
    ASSUME NEW d, ~d.checked, NEW v, NEW text, NEW prec
    PROVE Rendered(d, v, text, prec) =
              [ok |-> TRUE, value |-> Wrap(v), text |-> text, precedence |-> prec]
BY DEF Rendered

LEMMA ValueOfNumber ==
    ASSUME NEW d, NEW n \in Nat
    PROVE IsValue(d, MakeNumber(n), Wrap(n))
<1>1. MakeNumber(n) \in Tree /\ MakeNumber(n).kind = "number" /\ MakeNumber(n).value = n
  <2>1. 0 \in 0..MaxDepth
    BY GrammarAssumption
  <2> QED BY <2>1, NestedMakes, NestedIsTree DEF MakeNumber
<1>2. RenderEval(d)[MakeNumber(n)][TRUE]
      = [ok |-> TRUE, value |-> Wrap(n), text |-> Num(n), precedence |-> Atom]
  BY <1>1, RenderAt
<1> QED BY <1>2 DEF IsValue

LEMMA ValueOfMinus ==
    ASSUME NEW d \in Expressions, ~d.checked, NEW t, MakeUnaryMinus(t) \in Tree, NEW v, IsValue(d, t, v)
    PROVE IsValue(d, MakeUnaryMinus(t), Wrap(-v))
<1> DEFINE m == MakeUnaryMinus(t)
           x == RenderEval(d)[t][TRUE]
<1>1. m.kind = "minus" /\ m.left = t
  BY DEF MakeUnaryMinus
<1>2. m \in Tree
  OBVIOUS
<1>3. x.ok /\ x.value = v
  BY DEF IsValue
<1> HIDE DEF m, x
<1>4. RenderEval(d)[m][TRUE] = RenderMinus(d, x)
  BY <1>1, <1>2, <1>3, RenderAt DEF x
<1>5. RenderMinus(d, x).ok /\ RenderMinus(d, x).value = Wrap(-x.value)
  BY RenderedWraps DEF RenderMinus
<1> QED BY <1>3, <1>4, <1>5 DEF IsValue, m

LEMMA ValueOfBinary ==
    ASSUME NEW d \in Expressions, ~d.checked, NEW op \in Op, NEW t, NEW u,
           MakeBinaryOp(op, t, u) \in Tree, NEW a, NEW b, IsValue(d, t, a), IsValue(d, u, b),
           op = "/" => b # 0
    PROVE IsValue(d, MakeBinaryOp(op, t, u), Wrap(Apply(op, a, b)))
<1> DEFINE m == MakeBinaryOp(op, t, u)
           x == RenderEval(d)[t][TRUE]
           y == RenderEval(d)[u][TRUE]
<1>1. m.kind = "binary" /\ m.left = t /\ m.right = u /\ m.op = op
  BY DEF MakeBinaryOp
<1>2. m \in Tree
  OBVIOUS
<1>3. x.ok /\ x.value = a /\ y.ok /\ y.value = b
  BY DEF IsValue
<1> HIDE DEF m, x, y
<1>4. RenderEval(d)[m][TRUE] = RenderNode(d, m, x, y, TRUE)
  BY <1>1, <1>2, RenderAt DEF x, y
<1>5. RenderNode(d, m, x, y, TRUE) = RenderBinary(d, m, x, y)
  BY <1>1, <1>3 DEF RenderNode
<1>6. RenderBinary(d, m, x, y).ok /\ RenderBinary(d, m, x, y).value = Wrap(Apply(op, a, b))
  BY <1>1, <1>3, RenderedWraps DEF RenderBinary
<1> QED BY <1>4, <1>5, <1>6 DEF IsValue, m

(* What texts say: a number, a text in brackets, a sign and its operand,   *)
(* two operands of an operator.                                            *)
LEMMA SaysIs ==
    ASSUME NEW d, NEW u, NEW k, NEW v, Says(d, u, k, v)
    PROVE u \in Texts /\ Len(u) > 0 /\ Operators(u) \in Nat /\ v \in Int /\ Fits(v)
BY OperatorsIs DEF Says

LEMMA SaysWeaker ==
    ASSUME NEW d, NEW u, NEW k \in 1..5, NEW l \in 1..5, l <= k, NEW v, Says(d, u, k, v)
    PROVE Says(d, u, l, v)
<1>1. u \in Texts /\ Len(u) > 0 /\ Operators(u) \in Nat /\ v \in Int /\ Fits(v)
  BY SaysIs
<1>2. ASSUME Operators(u) <= MaxDepth
      PROVE \E t \in Nested[Operators(u)] : IsValue(d, t, v) /\ \A s \in Texts : Reads(s, u, t, l)
  <2>1. PICK t \in Nested[Operators(u)] : IsValue(d, t, v) /\ \A s \in Texts : Reads(s, u, t, k)
    BY <1>2 DEF Says
  <2>2. t \in Tree
    BY <1>1, <1>2, NestedIsTree, GrammarAssumption
  <2>3. \A s \in Texts : Reads(s, u, t, l)
    BY <2>1, <2>2, ReadsWeaker
  <2> QED BY <2>1, <2>3
<1> QED BY <1>1, <1>2 DEF Says

LEMMA SaysNumber ==
    ASSUME NEW d, NEW n \in Nat
    PROVE Says(d, Num(n), 5, Wrap(n))
<1>1. Num(n) \in Texts /\ Len(Num(n)) > 0 /\ Operators(Num(n)) = 0
  BY LexesNum, OperatorsTok DEF Num
<1>2. Wrap(n) \in Int /\ Fits(Wrap(n))
  BY WrapIs
<1>3. MakeNumber(n) \in Nested[0] /\ IsValue(d, MakeNumber(n), Wrap(n))
  BY NestedMakes, ValueOfNumber
<1>4. \A s \in Texts : Reads(s, Num(n), MakeNumber(n), 5)
  BY ReadsNumber
<1> QED BY <1>1, <1>2, <1>3, <1>4 DEF Says

LEMMA BracketedIs ==
    ASSUME NEW u \in Texts
    PROVE /\ Bracketed(u) \in Texts /\ Len(Bracketed(u)) > 0
          /\ Operators(Bracketed(u)) = Operators(u)
<1> DEFINE a == Tok("(")
           b == Tok(")")
           v == a \o u
           w == v \o b
<1>1. a \in Texts /\ Len(a) = 1 /\ b \in Texts /\ Len(b) = 1
  BY TokIs
<1>2. Operators(a) = 0 /\ Operators(b) = 0
  BY OperatorsTok
<1> HIDE DEF a, b
<1>3. /\ v \in Texts /\ Len(v) = Len(a) + Len(u) /\ Len(u) \in Nat
      /\ Operators(v) = Operators(a) + Operators(u) /\ Operators(u) \in Nat
  BY <1>1, TextJoined
<1> HIDE DEF v
<1>4. /\ w \in Texts /\ Len(w) = Len(v) + Len(b)
      /\ Operators(w) = Operators(v) + Operators(b)
  BY <1>1, <1>3, TextJoined
<1> HIDE DEF w
<1>5. Len(w) > 0 /\ Operators(w) = Operators(u)
  BY <1>1, <1>2, <1>3, <1>4
<1> QED BY <1>4, <1>5 DEF Bracketed, a, b, v, w

LEMMA SaysBracketed ==
    ASSUME NEW d, NEW u, NEW v, Says(d, u, 1, v)
    PROVE Says(d, Bracketed(u), 5, v)
<1>1. u \in Texts /\ Len(u) > 0 /\ Operators(u) \in Nat /\ v \in Int /\ Fits(v)
  BY SaysIs
<1>2. /\ Bracketed(u) \in Texts /\ Len(Bracketed(u)) > 0
      /\ Operators(Bracketed(u)) = Operators(u)
  BY <1>1, BracketedIs
<1>3. ASSUME Operators(u) <= MaxDepth
      PROVE \E t \in Nested[Operators(u)] :
                IsValue(d, t, v) /\ \A s \in Texts : Reads(s, Bracketed(u), t, 5)
  <2>1. PICK t \in Nested[Operators(u)] : IsValue(d, t, v) /\ \A s \in Texts : Reads(s, u, t, 1)
    BY <1>3 DEF Says
  <2>2. t \in Tree
    BY <1>1, <1>3, NestedIsTree, GrammarAssumption
  <2>3. \A s \in Texts : Reads(s, Bracketed(u), t, 5)
    BY <2>1, <2>2, ReadsBracketed
  <2> QED BY <2>1, <2>3
<1> QED BY <1>1, <1>2, <1>3 DEF Says

LEMMA SaysMinus ==
    ASSUME NEW d \in Expressions, ~d.checked, NEW u, NEW v, Says(d, u, 3, v)
    PROVE Says(d, Tok("-") \o u, 3, Wrap(-v))
<1> DEFINE w == Tok("-") \o u
           n == Operators(u)
<1>1. u \in Texts /\ Len(u) > 0 /\ n \in Nat /\ v \in Int
  BY SaysIs
<1>2. w \in Texts /\ Len(w) > 0 /\ Operators(w) = n + 1
  <2>1. Tok("-") \in Texts /\ Len(Tok("-")) = 1 /\ Operators(Tok("-")) = 1
    BY TokIs, OperatorsTok
  <2>2. w \in Texts /\ Len(w) = 1 + Len(u) /\ Len(u) \in Nat /\ Operators(w) = 1 + n
    BY <1>1, <2>1, TextJoined
  <2> HIDE DEF w, n
  <2> QED BY <1>1, <2>2
<1>3. Wrap(-v) \in Int /\ Fits(Wrap(-v))
  <2> DEFINE m == -v
  <2>1. m \in Int
    BY <1>1
  <2> HIDE DEF m, w, n
  <2>2. Wrap(m) \in Int /\ Fits(Wrap(m))
    BY <2>1, WrapIs
  <2> QED BY <2>2 DEF m
<1>4. ASSUME n + 1 <= MaxDepth
      PROVE \E t \in Nested[n + 1] : IsValue(d, t, Wrap(-v)) /\ \A s \in Texts : Reads(s, w, t, 3)
  <2>1. n \in 0..MaxDepth /\ n + 1 \in 0..MaxDepth
    BY <1>1, <1>4, GrammarAssumption
  <2>2. PICK t \in Nested[n] : IsValue(d, t, v) /\ \A s \in Texts : Reads(s, u, t, 3)
    BY <2>1 DEF Says
  <2>3. MakeUnaryMinus(t) \in Nested[n + 1] /\ MakeUnaryMinus(t) \in Tree
    BY <2>1, NestedMakes, NestedIsTree
  <2>4. IsValue(d, MakeUnaryMinus(t), Wrap(-v))
    BY <2>2, <2>3, ValueOfMinus
  <2>5. \A s \in Texts : Reads(s, w, MakeUnaryMinus(t), 3)
    BY <2>2, ReadsMinus
  <2> QED BY <2>3, <2>4, <2>5
<1> HIDE DEF w, n
<1> QED BY <1>2, <1>3, <1>4 DEF Says, w

(* The level at which the grammar reads an operator, and its left operand; *)
(* the right one is read at the next.                                      *)
LevelOf(op) == IF op \in {"*", "/"} THEN 2 ELSE 1

Operation(u, op, w) == u \o Tok(op) \o w

LEMMA OperationIs ==
    ASSUME NEW u \in Texts, NEW w \in Texts, NEW op \in Op
    PROVE /\ Operation(u, op, w) \in Texts /\ Len(Operation(u, op, w)) > 0
          /\ Operators(Operation(u, op, w)) = Operators(u) + 1 + Operators(w)
<1> DEFINE x == Tok(op)
           y == u \o x
           z == y \o w
<1>1. x \in Texts /\ Len(x) = 1 /\ Operators(x) = 1
  BY TokIs, OperatorsTok DEF Op
<1> HIDE DEF x
<1>2. /\ y \in Texts /\ Len(y) = Len(u) + Len(x) /\ Len(u) \in Nat
      /\ Operators(y) = Operators(u) + Operators(x) /\ Operators(u) \in Nat
  BY <1>1, TextJoined
<1> HIDE DEF y
<1>3. /\ z \in Texts /\ Len(z) = Len(y) + Len(w) /\ Len(w) \in Nat
      /\ Operators(z) = Operators(y) + Operators(w) /\ Operators(w) \in Nat
  BY <1>2, TextJoined
<1> HIDE DEF z
<1>4. Len(z) > 0 /\ Operators(z) = Operators(u) + 1 + Operators(w)
  BY <1>1, <1>2, <1>3
<1> QED BY <1>3, <1>4 DEF Operation, x, y, z

LEMMA SaysOperation ==
    ASSUME NEW d \in Expressions, ~d.checked, NEW op \in Op, NEW u, NEW w, NEW a, NEW b,
           Says(d, u, LevelOf(op), a), Says(d, w, LevelOf(op) + 1, b), op = "/" => b # 0
    PROVE Says(d, Operation(u, op, w), LevelOf(op), Wrap(Apply(op, a, b)))
<1> DEFINE x == Operation(u, op, w)
           m == Operators(u)
           n == Operators(w)
           v == Apply(op, a, b)
<1>1. /\ u \in Texts /\ Len(u) > 0 /\ m \in Nat /\ a \in Int
      /\ w \in Texts /\ Len(w) > 0 /\ n \in Nat /\ b \in Int
  BY SaysIs
<1>2. x \in Texts /\ Len(x) > 0 /\ Operators(x) = m + 1 + n
  BY <1>1, OperationIs
<1>3. Wrap(v) \in Int /\ Fits(Wrap(v))
  BY <1>1, ApplyIs, WrapIs
<1>4. ASSUME m + 1 + n <= MaxDepth
      PROVE \E t \in Nested[m + 1 + n] :
                IsValue(d, t, Wrap(v)) /\ \A s \in Texts : Reads(s, x, t, LevelOf(op))
  <2>1. m \in 0..MaxDepth /\ n \in 0..MaxDepth /\ m + 1 + n \in 0..MaxDepth
    BY <1>1, <1>4, GrammarAssumption
  <2>2. PICK t \in Nested[m] : IsValue(d, t, a) /\ \A s \in Texts : Reads(s, u, t, LevelOf(op))
    BY <2>1 DEF Says
  <2>3. PICK r \in Nested[n] : IsValue(d, r, b) /\ \A s \in Texts : Reads(s, w, r, LevelOf(op) + 1)
    BY <2>1 DEF Says
  <2> DEFINE e == MakeBinaryOp(op, t, r)
  <2>4. e \in Nested[m + 1 + n] /\ e \in Tree /\ t \in Tree /\ r \in Tree
    BY <1>1, <2>1, NestedMakes, NestedIsTree
  <2>5. IsValue(d, e, Wrap(v))
    BY <2>2, <2>3, <2>4, ValueOfBinary
  <2>6. ASSUME NEW s \in Texts PROVE Reads(s, x, e, LevelOf(op))
    <3>1. CASE op \in {"*", "/"}
      <4>1. LevelOf(op) = 2 /\ LevelOf(op) + 1 = 3
        BY <3>1 DEF LevelOf
      <4> QED BY <2>2, <2>3, <2>4, <3>1, <4>1, ReadsProduct DEF Operation
    <3>2. CASE op \notin {"*", "/"}
      <4>1. LevelOf(op) = 1 /\ LevelOf(op) + 1 = 2 /\ op \in {"+", "-"}
        BY <3>2 DEF LevelOf, Op
      <4> QED BY <2>2, <2>3, <2>4, <4>1, ReadsSum DEF Operation
    <3> QED BY <3>1, <3>2
  <2> QED BY <2>4, <2>5, <2>6
<1> HIDE DEF x, m, n, v
<1> QED BY <1>1, <1>2, <1>3, <1>4 DEF Says, x, v

-----------------------------------------------------------------------------
(* Arithmetic modulo the width: wrapping early or late makes no difference *)
(* to a sum, a difference or a product, nor does their grouping.           *)
LEMMA WrapSame ==
    ASSUME NEW m \in Int, NEW n \in Int, Cong(m, n)
    PROVE Wrap(m) = Wrap(n)
<1>1. /\ Wrap(m) \in Int /\ Fits(Wrap(m)) /\ Cong(Wrap(m), m)
      /\ Wrap(n) \in Int /\ Fits(Wrap(n)) /\ Cong(Wrap(n), n)
  BY WrapIs
<1> DEFINE x == Wrap(m)
           y == Wrap(n)
<1> HIDE DEF x, y
<1>2. x \in Int /\ y \in Int /\ Fits(x) /\ Fits(y) /\ Cong(x, m) /\ Cong(y, n)
  BY <1>1 DEF x, y
<1>3. Cong(x, n) /\ Cong(n, y)
  BY <1>2, CongIs
<1>4. Cong(x, y)
  BY <1>2, <1>3, CongIs
<1> QED BY <1>2, <1>4, CongFits DEF x, y

LEMMA WrapMinus ==
    ASSUME NEW v \in Int, Fits(v)
    PROVE Wrap(-Wrap(-v)) = v
<1> DEFINE m == -v
           w == Wrap(m)
<1>1. m \in Int /\ w \in Int /\ Cong(w, m) /\ -m = v
  BY WrapIs
<1> HIDE DEF m, w
<1>2. Cong(-w, -m) /\ -w \in Int
  BY <1>1, CongApply
<1>3. Wrap(-w) = Wrap(v)
  BY <1>1, <1>2, WrapSame
<1> QED BY <1>3, FitsWrap DEF m, w

LEMMA Regrouped ==
    ASSUME NEW op, NEW op2, NEW a \in Int, NEW v \in Int, NEW b \in Int,
           \/ op = "+" /\ op2 \in {"+", "-"}
           \/ op = "*" /\ op2 = "*"
    PROVE Wrap(Apply(op2, Wrap(Apply(op, a, v)), b)) = Wrap(Apply(op, a, Wrap(Apply(op2, v, b))))
<1> DEFINE l == Apply(op, a, v)
           r == Apply(op2, v, b)
           m == Apply(op2, l, b)
           x == Wrap(l)
           y == Wrap(r)
<1>1. l \in Int /\ r \in Int /\ m \in Int /\ Apply(op, a, r) \in Int
  BY DEF Apply
<1>2. m = Apply(op, a, r)
  BY DEF Apply
<1> HIDE DEF l, r
<1>3. x \in Int /\ y \in Int /\ Cong(x, l) /\ Cong(y, r)
  BY <1>1, WrapIs
<1> HIDE DEF x, y
<1>4. Cong(a, a) /\ Cong(b, b)
  BY CongIs
<1>5. Cong(x + b, l + b) /\ Cong(x - b, l - b) /\ Cong(x * b, l * b)
  BY <1>1, <1>3, <1>4, CongApply
<1>6. Cong(a + y, a + r) /\ Cong(a * y, a * r)
  BY <1>1, <1>3, <1>4, CongApply
<1>7. Cong(Apply(op2, x, b), m) /\ Apply(op2, x, b) \in Int
  BY <1>3, <1>5 DEF Apply
<1>8. Cong(Apply(op, a, y), Apply(op, a, r)) /\ Apply(op, a, y) \in Int
  BY <1>3, <1>6 DEF Apply
<1> HIDE DEF m
<1>9. Wrap(Apply(op2, x, b)) = Wrap(m) /\ Wrap(Apply(op, a, y)) = Wrap(Apply(op, a, r))
  BY <1>1, <1>7, <1>8, WrapSame
<1> QED BY <1>2, <1>9 DEF x, y, l, r

-----------------------------------------------------------------------------
(* The text u may follow an operator without brackets: it adds its number  *)
(* to, or multiplies by its number, whatever stands before it.             *)
MayFollow(d, op, u, v) ==
    /\ u \in Texts /\ v \in Int
    /\ \A w, a : Says(d, w, LevelOf(op), a) =>
                    Says(d, Operation(w, op, u), LevelOf(op), Wrap(Apply(op, a, v)))

LEMMA FollowsOne ==
    ASSUME NEW d \in Expressions, ~d.checked, NEW op \in {"+", "*"}, NEW u, NEW v,
           Says(d, u, LevelOf(op) + 1, v)
    PROVE MayFollow(d, op, u, v)
<1>1. op \in Op /\ op # "/"
  BY DEF Op
<1> QED BY <1>1, SaysIs, SaysOperation DEF MayFollow

LEMMA SequencesAssociative ==
    ASSUME NEW T, NEW e \in Seq(T), NEW f \in Seq(T), NEW g \in Seq(T)
    PROVE e \o (f \o g) = (e \o f) \o g
OBVIOUS

LEMMA TextsAssociative ==
    ASSUME NEW e \in Texts, NEW f \in Texts, NEW g \in Texts
    PROVE e \o (f \o g) = (e \o f) \o g
BY SequencesAssociative DEF Texts

LEMMA OperationsAssociative ==
    ASSUME NEW w \in Texts, NEW u \in Texts, NEW z \in Texts, NEW op \in Op, NEW op2 \in Op
    PROVE Operation(w, op, Operation(u, op2, z)) = Operation(Operation(w, op, u), op2, z)
<1> DEFINE x == Tok(op)
           y == Tok(op2)
           e == w \o x
           f == u \o y
<1>0. x \in Texts /\ y \in Texts
  BY TokIs DEF Op
<1> HIDE DEF x, y
<1>1. e \in Texts /\ f \in Texts
  BY <1>0, JoinedText
<1>2. e \o f = (e \o u) \o y
  <2> HIDE DEF e
  <2> QED BY <1>0, <1>1, TextsAssociative
<1>3. e \o (f \o z) = (e \o f) \o z
  <2> HIDE DEF e, f
  <2> QED BY <1>1, TextsAssociative
<1> HIDE DEF e
<1>4. e \o (f \o z) = ((e \o u) \o y) \o z
  BY <1>2, <1>3
<1> QED BY <1>4 DEF Operation, e, x, y

LEMMA FollowsThen ==
    ASSUME NEW d \in Expressions, ~d.checked, NEW op \in {"+", "*"}, NEW op2 \in Op,
           \/ op = "+" /\ op2 \in {"+", "-"}
           \/ op = "*" /\ op2 = "*",
           NEW u, NEW v, MayFollow(d, op, u, v), NEW z, NEW b,
           \/ Says(d, z, LevelOf(op) + 1, b)
           \/ op2 = op /\ MayFollow(d, op, z, b)
    PROVE MayFollow(d, op, Operation(u, op2, z), Wrap(Apply(op2, v, b)))
<1>1. u \in Texts /\ v \in Int /\ z \in Texts /\ b \in Int
  BY SaysIs DEF MayFollow
<1>2. LevelOf(op2) = LevelOf(op) /\ op2 # "/" /\ op \in Op
  BY DEF LevelOf, Op
<1>3. Operation(u, op2, z) \in Texts
  BY <1>1, OperationIs
<1>4. Wrap(Apply(op2, v, b)) \in Int
  BY <1>1, <1>2, ApplyIs, WrapIs
<1>5. ASSUME NEW w, NEW a, Says(d, w, LevelOf(op), a)
      PROVE Says(d, Operation(w, op, Operation(u, op2, z)), LevelOf(op),
                 Wrap(Apply(op, a, Wrap(Apply(op2, v, b)))))
  <2> DEFINE y == Operation(w, op, u)
             c == Wrap(Apply(op, a, v))
  <2>1. w \in Texts /\ a \in Int
    BY <1>5, SaysIs
  <2>2. Says(d, y, LevelOf(op), c)
    BY <1>5 DEF MayFollow
  <2>3. Operation(w, op, Operation(u, op2, z)) = Operation(y, op2, z)
    BY <1>1, <1>2, <2>1, OperationsAssociative
  <2>4. Wrap(Apply(op2, c, b)) = Wrap(Apply(op, a, Wrap(Apply(op2, v, b))))
    BY <1>1, <2>1, Regrouped
  <2> HIDE DEF y, c
  <2>5. Says(d, Operation(y, op2, z), LevelOf(op), Wrap(Apply(op2, c, b)))
    <3>1. CASE Says(d, z, LevelOf(op) + 1, b)
      BY <1>2, <2>2, <3>1, SaysOperation
    <3>2. CASE op2 = op /\ MayFollow(d, op, z, b)
      BY <2>2, <3>2 DEF MayFollow
    <3> QED BY <3>1, <3>2
  <2> QED BY <2>3, <2>4, <2>5
<1> QED BY <1>3, <1>4, <1>5 DEF MayFollow

-----------------------------------------------------------------------------
(* The numbers that are shown: of a total, and of the faces of the dice.   *)
LEMMA SaysDigits ==
    ASSUME NEW d \in Expressions, ~d.checked, NEW v \in Int, Fits(v)
    PROVE Says(d, Digits(v), 3, v) /\ Says(d, Bracketed(Digits(v)), 5, v)
<1>1. Says(d, Digits(v), 3, v)
  <2>1. CASE v < 0
    <3> DEFINE n == -v
    <3>1. n \in Nat /\ Digits(v) = Tok("-") \o Num(n)
      BY <2>1 DEF Digits
    <3> HIDE DEF n
    <3>2. Says(d, Num(n), 5, Wrap(n))
      BY <3>1, SaysNumber
    <3>3. Says(d, Num(n), 3, Wrap(n))
      BY <3>2, SaysWeaker
    <3>4. Says(d, Tok("-") \o Num(n), 3, Wrap(-Wrap(n)))
      BY <3>3, SaysMinus
    <3>5. Wrap(-Wrap(n)) = v
      BY WrapMinus DEF n
    <3> QED BY <3>1, <3>4, <3>5
  <2>2. CASE ~(v < 0)
    <3>1. v \in Nat /\ Digits(v) = Num(v) /\ Wrap(v) = v
      BY <2>2, FitsWrap DEF Digits
    <3>2. Says(d, Num(v), 5, v)
      BY <3>1, SaysNumber
    <3> QED BY <3>1, <3>2, SaysWeaker
  <2> QED BY <2>1, <2>2
<1>2. Says(d, Digits(v), 1, v)
  BY <1>1, SaysWeaker
<1> QED BY <1>1, <1>2, SaysBracketed

(* The faces of one die more are those of the others and its own.          *)
LEMMA FacesAre ==
    ASSUME NEW n \in Nat \ {0}, NEW f \in Nat
    PROVE /\ Faces(n, f) \in Texts /\ Len(Faces(n, f)) = 2 * n - 1
          /\ \A i \in 1..(2 * n - 1) :
                Faces(n, f)[i] = [type |-> IF i % 2 = 1 THEN "number" ELSE "+",
                                  value |-> IF i % 2 = 1 THEN f ELSE 0]
<1> DEFINE e(i) == [type |-> IF i % 2 = 1 THEN "number" ELSE "+",
                    value |-> IF i % 2 = 1 THEN f ELSE 0]
           T == [type : {"number", "+", "-", "*", "/", "d", "(", ")"}, value : Nat]
<1>1. \A i \in 1..(2 * n - 1) : e(i) \in T
  OBVIOUS
<1>2. Faces(n, f) = [i \in 1..(2 * n - 1) |-> e(i)]
  BY DEF Faces
<1>3. 2 * n - 1 \in Nat
  OBVIOUS
<1> HIDE DEF e, T
<1>4. Faces(n, f) \in Seq(T) /\ Len(Faces(n, f)) = 2 * n - 1
  BY <1>1, <1>2, <1>3
<1>5. \A i \in 1..(2 * n - 1) : Faces(n, f)[i] = e(i)
  BY <1>2
<1> QED BY <1>4, <1>5 DEF e, T, Texts

LEMMA SameText ==
    ASSUME NEW u \in Texts, NEW v \in Texts, Len(u) = Len(v), \A i \in 1..Len(u) : u[i] = v[i]
    PROVE u = v
<1> DEFINE T == [type : {"number", "+", "-", "*", "/", "d", "(", ")"}, value : Nat]
<1>1. u \in Seq(T) /\ v \in Seq(T)
  BY DEF Texts
<1> HIDE DEF T
<1> QED BY <1>1

LEMMA FacesNext ==
    ASSUME NEW n \in Nat \ {0}, NEW f \in Nat
    PROVE Faces(n + 1, f) = Operation(Faces(n, f), "+", Num(f))
<1> DEFINE u == Faces(n, f)
           a == Tok("+")
           b == Num(f)
           v == u \o a
           w == v \o b
           x == Faces(n + 1, f)
           e(i) == [type |-> IF i % 2 = 1 THEN "number" ELSE "+",
                    value |-> IF i % 2 = 1 THEN f ELSE 0]
<1>1. u \in Texts /\ Len(u) = 2 * n - 1 /\ \A i \in 1..(2 * n - 1) : u[i] = e(i)
  BY FacesAre
<1>2. x \in Texts /\ Len(x) = 2 * n + 1 /\ \A i \in 1..(2 * n + 1) : x[i] = e(i)
  <2>1. n + 1 \in Nat \ {0} /\ 2 * (n + 1) - 1 = 2 * n + 1
    OBVIOUS
  <2> HIDE DEF e
  <2> QED BY <2>1, FacesAre DEF e
<1>3. a \in Texts /\ Len(a) = 1 /\ a[1] = [type |-> "+", value |-> 0]
  BY TokIs
<1>4. b \in Texts /\ Len(b) = 1 /\ b[1] = [type |-> "number", value |-> f]
  BY LexesNum DEF Num
<1>5. e(2 * n) = [type |-> "+", value |-> 0] /\ e(2 * n + 1) = [type |-> "number", value |-> f]
  <2>1. (2 * n) % 2 # 1 /\ (2 * n + 1) % 2 = 1
    OBVIOUS
  <2> QED BY <2>1
<1> HIDE DEF u, a, b, x, e
<1>6. /\ v \in Texts /\ Len(v) = Len(u) + Len(a)
      /\ \A i \in 1..Len(u) : v[i] = u[i]
      /\ \A i \in 1..Len(a) : v[i + Len(u)] = a[i]
  BY <1>1, <1>3, JoinedText, JoinedAt
<1> HIDE DEF v
<1>7. /\ w \in Texts /\ Len(w) = Len(v) + Len(b)
      /\ \A i \in 1..Len(v) : w[i] = v[i]
      /\ \A i \in 1..Len(b) : w[i + Len(v)] = b[i]
  BY <1>4, <1>6, JoinedText, JoinedAt
<1> HIDE DEF w
<1>8. Len(v) = 2 * n /\ Len(w) = 2 * n + 1
  BY <1>1, <1>3, <1>4, <1>6, <1>7
<1>9. ASSUME NEW i \in 1..(2 * n + 1) PROVE w[i] = x[i]
  <2>1. CASE i <= 2 * n - 1
    <3>1. i \in 1..Len(u) /\ i \in 1..Len(v)
      BY <1>1, <1>8, <2>1
    <3> QED BY <1>1, <1>2, <1>6, <1>7, <3>1
  <2>2. CASE i = 2 * n
    <3>1. v[1 + Len(u)] = a[1] /\ 1 + Len(u) = i /\ i \in 1..Len(v)
      BY <1>1, <1>3, <1>6, <1>8, <2>2
    <3> QED BY <1>2, <1>3, <1>5, <1>7, <2>2, <3>1
  <2>3. CASE i = 2 * n + 1
    <3>1. w[1 + Len(v)] = b[1] /\ 1 + Len(v) = i
      BY <1>4, <1>7, <1>8, <2>3
    <3> QED BY <1>2, <1>4, <1>5, <2>3, <3>1
  <2> QED BY <2>1, <2>2, <2>3
<1>10. w = x
  BY <1>2, <1>7, <1>8, <1>9, SameText
<1> QED BY <1>10 DEF Operation, u, a, b, v, w, x

LEMMA SaysFaces ==
    ASSUME NEW d \in Expressions, ~d.checked, NEW n \in Nat \ {0}, NEW f \in Nat
    PROVE /\ Says(d, Faces(n, f), 1, Wrap(n * f))
          /\ n = 1 => Says(d, Faces(n, f), 5, Wrap(n * f))
<1> DEFINE S == {k \in Nat : Says(d, Faces(k + 1, f), 1, Wrap((k + 1) * f))}
<1>1. Says(d, Num(f), 5, Wrap(f))
  BY SaysNumber
<1>2. Faces(1, f) = Num(f)
  <2>1. Faces(1, f) \in Texts /\ Len(Faces(1, f)) = 1
        /\ Faces(1, f)[1] = [type |-> "number", value |-> f]
    <3>1. 1 \in Nat \ {0} /\ 2 * 1 - 1 = 1 /\ 1 % 2 = 1 /\ 1 \in 1..1
      OBVIOUS
    <3>2. /\ Faces(1, f) \in Texts /\ Len(Faces(1, f)) = 2 * 1 - 1
          /\ \A i \in 1..(2 * 1 - 1) :
                Faces(1, f)[i] = [type |-> IF i % 2 = 1 THEN "number" ELSE "+",
                                  value |-> IF i % 2 = 1 THEN f ELSE 0]
      BY <3>1, FacesAre
    <3> QED BY <3>1, <3>2
  <2>2. Num(f) \in Texts /\ Len(Num(f)) = 1 /\ Num(f)[1] = [type |-> "number", value |-> f]
    BY LexesNum DEF Num
  <2> QED BY <2>1, <2>2, SameText
<1>3. Says(d, Faces(1, f), 5, Wrap(1 * f)) /\ Says(d, Faces(1, f), 1, Wrap(1 * f))
  <2>1. 1 * f = f
    OBVIOUS
  <2> QED BY <1>1, <1>2, <2>1, SaysWeaker
<1>4. 0 \in S
  <2>1. 0 + 1 = 1
    OBVIOUS
  <2> QED BY <1>3, <2>1
<1>5. ASSUME NEW k \in Nat, k \in S PROVE k + 1 \in S
  <2> DEFINE m == k + 1
             a == Wrap(m * f)
             b == Wrap(f)
  <2>1. m \in Nat \ {0} /\ m * f \in Int /\ f \in Int /\ (m + 1) * f \in Int
        /\ (m + 1) * f = m * f + f
    OBVIOUS
  <2>2. Says(d, Faces(m, f), 1, a)
    BY <1>5
  <2>3. Says(d, Num(f), 2, b)
    BY <1>1, SaysWeaker
  <2>4. LevelOf("+") = 1 /\ LevelOf("+") + 1 = 2 /\ "+" \in Op
    BY DEF LevelOf, Op
  <2>5. Says(d, Operation(Faces(m, f), "+", Num(f)), 1, Wrap(Apply("+", a, b)))
    BY <2>2, <2>3, <2>4, SaysOperation
  <2>6. a \in Int /\ b \in Int /\ Cong(a, m * f) /\ Cong(b, f)
    BY <2>1, WrapIs
  <2> HIDE DEF m, a, b
  <2>7. Wrap(Apply("+", a, b)) = Wrap((m + 1) * f)
    <3> DEFINE c == m * f
    <3>1. c \in Int /\ Cong(a, c) /\ (m + 1) * f = c + f
      BY <2>1, <2>6
    <3> HIDE DEF c
    <3>2. Cong(a + b, c + f) /\ a + b \in Int /\ c + f \in Int
      BY <2>1, <2>6, <3>1, CongApply
    <3>3. Apply("+", a, b) = a + b
      BY DEF Apply
    <3> QED BY <3>1, <3>2, <3>3, WrapSame
  <2>8. Says(d, Faces(m + 1, f), 1, Wrap((m + 1) * f))
    BY <2>1, <2>5, <2>7, FacesNext
  <2> QED BY <2>8 DEF m
<1>6. n - 1 \in Nat /\ (n - 1) + 1 = n
  OBVIOUS
<1>7. n - 1 \in S
  <2> HIDE DEF S
  <2>1. 0..(n - 1) \subseteq S
    BY <1>4, <1>5, <1>6, Induction
  <2> QED BY <1>6, <2>1
<1>8. Says(d, Faces(n, f), 1, Wrap(n * f))
  BY <1>6, <1>7
<1> QED BY <1>3, <1>8

-----------------------------------------------------------------------------
(* A rendered fragment says its value, at the level of its precedence.     *)
TextLevel(precedence) == IF precedence = 4 THEN 5 ELSE precedence
Fragment(d, x) == /\ x.precedence \in 1..4
                  /\ Says(d, x.text, TextLevel(x.precedence), x.value)

LEMMA FragmentSays ==
    ASSUME NEW d, NEW x, Fragment(d, x)
    PROVE /\ x.value \in Int
          /\ Says(d, Bracketed(x.text), 5, x.value)
          /\ \A k \in 1..3 : Says(d, Bracketed(x.text), k, x.value)
          /\ \A k \in 1..3 : x.precedence >= k => Says(d, x.text, k, x.value)
<1> DEFINE n == TextLevel(x.precedence)
<1>1. n \in 1..5 /\ \A k \in 1..3 : x.precedence >= k => k <= n
  BY DEF Fragment, TextLevel
<1>2. Says(d, x.text, n, x.value)
  BY DEF Fragment
<1> HIDE DEF n
<1>3. \A k \in 1..3 : x.precedence >= k => Says(d, x.text, k, x.value)
  BY <1>1, <1>2, SaysWeaker
<1>4. Says(d, x.text, 1, x.value)
  BY <1>1, <1>2, SaysWeaker
<1>5. Says(d, Bracketed(x.text), 5, x.value)
  BY <1>4, SaysBracketed
<1>6. \A k \in 1..3 : Says(d, Bracketed(x.text), k, x.value)
  BY <1>5, SaysWeaker
<1> QED BY <1>3, <1>4, <1>5, <1>6, SaysIs

LEMMA MinusSays ==
    ASSUME NEW d \in Expressions, ~d.checked, NEW x, Fragment(d, x)
    PROVE LET y == RenderMinus(d, x) IN
          y.ok /\ y.value = Wrap(-x.value) /\ y.precedence = 3 /\ Says(d, y.text, 3, y.value)
<1> DEFINE u == IF x.precedence < Atom THEN Bracketed(x.text) ELSE x.text
           y == RenderMinus(d, x)
<1>1. Says(d, u, 3, x.value)
  <2>1. x.precedence \in 1..4
    BY DEF Fragment
  <2> QED BY <2>1, FragmentSays DEF Atom
<1>2. y = [ok |-> TRUE, value |-> Wrap(-x.value), text |-> Tok("-") \o u, precedence |-> Negation]
  <2> DEFINE m == Tok("-") \o u
             n == -x.value
  <2>1. y = Rendered(d, n, m, Negation)
    BY DEF RenderMinus
  <2> HIDE DEF m, n, y
  <2>2. y = [ok |-> TRUE, value |-> Wrap(n), text |-> m, precedence |-> Negation]
    BY <2>1, RenderedWraps
  <2> QED BY <2>2 DEF m, n
<1> HIDE DEF u, y
<1>3. Says(d, Tok("-") \o u, 3, Wrap(-x.value))
  BY <1>1, SaysMinus
<1>4. /\ y.ok = TRUE /\ y.value = Wrap(-x.value) /\ y.text = Tok("-") \o u
      /\ y.precedence = 3
  BY <1>2 DEF Negation
<1> QED BY <1>3, <1>4 DEF y

LEMMA RollSays ==
    ASSUME NEW d \in Expressions, ~d.checked, NEW t, NEW p \in BOOLEAN,
           NEW count \in Int, NEW sides \in Int, RenderRoll(d, t, count, sides, p).ok,
           t.left.kind = "number" /\ t.right.kind = "number" => count > 0
    PROVE LET y == RenderRoll(d, t, count, sides, p) IN
          Fragment(d, y) /\ (p => y.precedence = 4) /\ y.precedence \in {1, 4}
<1> DEFINE face == Face(d, sides)
           sum == count * face
           shown == Faces(count, face)
           y == RenderRoll(d, t, count, sides, p)
           dynamic == t.left.kind # "number" \/ t.right.kind # "number"
<1>1. Legal(count, sides)
  BY RenderRollIs
<1>2. face \in Nat /\ count \in Nat /\ (~dynamic => count \in Nat \ {0}) /\ sum \in Int
  BY <1>1 DEF Legal, Face
<1>3. y = IF dynamic THEN Rendered(d, sum, Bracketed(Digits(Wrap(sum))), Atom)
          ELSE IF count > 1 /\ p THEN Rendered(d, sum, Bracketed(shown), Atom)
          ELSE Rendered(d, sum, shown, IF count > 1 THEN Additive ELSE Atom)
  BY <1>1 DEF RenderRoll
<1>4. y.value = Wrap(sum)
  <2> HIDE DEF sum, shown, dynamic, y
  <2> QED BY <1>3, RenderedWraps
<1>5. CASE dynamic
  <2>1. y.text = Bracketed(Digits(Wrap(sum))) /\ y.precedence = 4
    <3> HIDE DEF sum, shown, y
    <3> QED BY <1>3, <1>5, RenderedWraps DEF Atom
  <2>2. Says(d, Bracketed(Digits(Wrap(sum))), 5, Wrap(sum))
    <3> HIDE DEF sum
    <3> QED BY <1>2, WrapIs, SaysDigits
  <2> HIDE DEF y, sum
  <2>3. Fragment(d, y)
    BY <1>4, <2>1, <2>2 DEF Fragment, TextLevel
  <2> QED BY <2>1, <2>3 DEF y
<1>6. CASE ~dynamic
  <2>1. /\ Says(d, shown, 1, Wrap(sum))
        /\ count = 1 => Says(d, shown, 5, Wrap(sum))
    <3> HIDE DEF face, dynamic
    <3> QED BY <1>2, <1>6, SaysFaces
  <2>2. CASE count > 1 /\ p
    <3>1. y.text = Bracketed(shown) /\ y.precedence = 4
      <4> HIDE DEF sum, shown, y, dynamic
      <4> QED BY <1>3, <1>6, <2>2, RenderedWraps DEF Atom
    <3> HIDE DEF y, sum, shown
    <3>2. Says(d, Bracketed(shown), 5, Wrap(sum))
      BY <2>1, SaysBracketed
    <3>3. Fragment(d, y)
      BY <1>4, <3>1, <3>2 DEF Fragment, TextLevel
    <3> QED BY <3>1, <3>3 DEF y
  <2>3. CASE count > 1 /\ ~p
    <3>1. y.text = shown /\ y.precedence = 1
      <4> HIDE DEF sum, shown, y, dynamic
      <4> QED BY <1>3, <1>6, <2>3, RenderedWraps DEF Additive
    <3> HIDE DEF y, sum, shown
    <3>2. Fragment(d, y)
      BY <1>4, <2>1, <3>1 DEF Fragment, TextLevel
    <3> QED BY <2>3, <3>1, <3>2 DEF y
  <2>4. CASE ~(count > 1)
    <3>1. y.text = shown /\ y.precedence = 4
      <4> HIDE DEF sum, shown, y, dynamic
      <4> QED BY <1>3, <1>6, <2>4, RenderedWraps DEF Atom
    <3>2. count = 1
      BY <1>2, <1>6, <2>4
    <3> HIDE DEF y, sum, shown
    <3>3. Fragment(d, y)
      BY <1>4, <2>1, <3>1, <3>2 DEF Fragment, TextLevel
    <3> QED BY <3>1, <3>3 DEF y
  <2> QED BY <2>2, <2>3, <2>4
<1> QED BY <1>5, <1>6

(* A rendered operation: its operands keep the brackets they need.         *)
LEMMA BinarySays ==
    ASSUME NEW d \in Expressions, ~d.checked, NEW t, t.op \in Op, NEW l, NEW r,
           Fragment(d, l), Fragment(d, r), t.op = "/" => r.value # 0,
           MayFollow(d, "+", l.text, l.value), MayFollow(d, "+", r.text, r.value),
           t.op = "*" /\ r.precedence = 2 /\ ~IsBinary(t.right, {"/"}) =>
               MayFollow(d, "*", r.text, r.value)
    PROVE LET y == RenderBinary(d, t, l, r) IN
          /\ y.ok /\ y.precedence = LevelOf(t.op) /\ Fragment(d, y)
          /\ MayFollow(d, "+", y.text, y.value)
          /\ t.op = "*" /\ (l.precedence >= 2 => MayFollow(d, "*", l.text, l.value)) =>
                MayFollow(d, "*", y.text, y.value)
<1> DEFINE op == t.op
           n == LevelOf(op)
           needs == \/ r.precedence < n
                    \/ LeadingMinus(r.text)
                    \/ r.precedence = n /\ SameLevelNeeds(op, t.right)
           left == IF l.precedence < n THEN Bracketed(l.text) ELSE l.text
           right == IF needs THEN Bracketed(r.text) ELSE r.text
           text == Operation(left, op, right)
           v == Wrap(Apply(op, l.value, r.value))
           y == RenderBinary(d, t, l, r)
           Closed == Says(d, right, n + 1, r.value)
           Open(o) == o = op /\ MayFollow(d, o, right, r.value)
<1>1. n \in 1..2 /\ op \in Op /\ n = (IF op \in {"*", "/"} THEN Multiplicative ELSE Additive)
  BY DEF LevelOf, Multiplicative, Additive
<1>2. y = [ok |-> TRUE, value |-> v, text |-> text, precedence |-> n]
  <2> DEFINE m == Apply(op, l.value, r.value)
  <2>1. y = Rendered(d, m, text, n)
    BY <1>1 DEF RenderBinary, Operation
  <2> HIDE DEF m, y, text, n
  <2>2. y = [ok |-> TRUE, value |-> Wrap(m), text |-> text, precedence |-> n]
    BY <2>1, RenderedWraps
  <2> QED BY <2>2 DEF m
<1>3. /\ l.value \in Int /\ r.value \in Int
      /\ \A k \in 1..3 : Says(d, Bracketed(l.text), k, l.value) /\ Says(d, Bracketed(r.text), k, r.value)
      /\ \A k \in 1..3 : l.precedence >= k => Says(d, l.text, k, l.value)
      /\ \A k \in 1..3 : r.precedence >= k => Says(d, r.text, k, r.value)
      /\ l.precedence \in 1..4 /\ r.precedence \in 1..4
  BY FragmentSays DEF Fragment
<1>4. Says(d, left, n, l.value)
  BY <1>1, <1>3
<1>5. Closed \/ (op \in {"+", "*"} /\ Open(op))
  <2>1. CASE needs
    <3>1. right = Bracketed(r.text) /\ n + 1 \in 1..3
      BY <1>1, <2>1
    <3> QED BY <1>3, <3>1
  <2>2. CASE ~needs
    <3>1. right = r.text /\ r.precedence >= n
      BY <1>1, <1>3, <2>2
    <3>2. CASE r.precedence > n
      <4>1. r.precedence >= n + 1 /\ n + 1 \in 1..3
        BY <1>1, <1>3, <3>2
      <4> QED BY <1>3, <3>1, <4>1
    <3>3. CASE r.precedence = n
      <4>1. ~SameLevelNeeds(op, t.right)
        BY <2>2, <3>3
      <4>2. op \in {"+", "*"} /\ (op = "*" => ~IsBinary(t.right, {"/"}))
        BY <1>1, <4>1 DEF SameLevelNeeds, Op
      <4>3. op = "*" => n = 2
        BY DEF LevelOf
      <4>4. MayFollow(d, op, r.text, r.value)
        BY <3>3, <4>2, <4>3
      <4> QED BY <3>1, <4>2, <4>4
    <3> QED BY <1>1, <1>3, <3>1, <3>2, <3>3
  <2> QED BY <2>1, <2>2
<1> HIDE DEF right, left, needs
<1>6. Says(d, text, n, v)
  <2>1. CASE Closed
    BY <1>1, <1>3, <1>4, <2>1, SaysOperation
  <2>2. CASE op \in {"+", "*"} /\ Open(op)
    BY <1>4, <2>2 DEF MayFollow
  <2> QED BY <1>5, <2>1, <2>2
<1>7. ASSUME op = "*", l.precedence >= 2 => MayFollow(d, "*", l.text, l.value)
      PROVE MayFollow(d, "*", text, v)
  <2>1. n = 2
    BY <1>7 DEF LevelOf
  <2>2. MayFollow(d, "*", left, l.value)
    <3>1. CASE l.precedence < n
      <4>1. Says(d, left, 3, l.value) /\ LevelOf("*") + 1 = 3
        BY <1>3, <3>1 DEF left, LevelOf
      <4> QED BY <4>1, FollowsOne
    <3>2. CASE ~(l.precedence < n)
      <4>1. left = l.text /\ l.precedence >= 2
        BY <1>3, <2>1, <3>2 DEF left
      <4> QED BY <1>7, <4>1
    <3> QED BY <3>1, <3>2
  <2> HIDE DEF n
  <2>3. Says(d, right, LevelOf("*") + 1, r.value) \/ MayFollow(d, "*", right, r.value)
    BY <1>5, <1>7 DEF n
  <2>4. MayFollow(d, "*", Operation(left, "*", right), Wrap(Apply("*", l.value, r.value)))
    BY <2>2, <2>3, FollowsThen DEF Op
  <2> QED BY <1>7, <2>4
<1>8. MayFollow(d, "+", text, v)
  <2>1. CASE op \in {"*", "/"}
    <3>1. n = LevelOf("+") + 1
      BY <2>1 DEF LevelOf
    <3> HIDE DEF text, v, n
    <3> QED BY <1>6, <3>1, FollowsOne
  <2>2. CASE op \in {"+", "-"}
    <3>1. n = 1 /\ LevelOf("+") + 1 = n + 1
      BY <2>2 DEF LevelOf
    <3>2. left = l.text
      BY <1>3, <3>1 DEF left
    <3>3. MayFollow(d, "+", left, l.value)
      BY <3>2
    <3> HIDE DEF n
    <3>4. Says(d, right, LevelOf("+") + 1, r.value) \/ (op = "+" /\ MayFollow(d, "+", right, r.value))
      BY <1>5, <2>2, <3>1
    <3> HIDE DEF op
    <3>5. MayFollow(d, "+", Operation(left, op, right), Wrap(Apply(op, l.value, r.value)))
      BY <1>1, <2>2, <3>3, <3>4, FollowsThen
    <3> QED BY <3>5
  <2> QED BY <1>1, <2>1, <2>2 DEF Op
<1> HIDE DEF text, v, y, n
<1>9. y.ok = TRUE /\ y.precedence = n /\ y.text = text /\ y.value = v
  BY <1>2
<1>10. Fragment(d, y)
  <2>0. n \in 1..2
    BY <1>1
  <2>1. TextLevel(n) = n /\ n \in 1..4
    BY <2>0 DEF TextLevel
  <2> QED BY <1>6, <1>9, <2>1 DEF Fragment
<1> QED BY <1>7, <1>8, <1>9, <1>10 DEF y, n

-----------------------------------------------------------------------------
(* The expressions that are explained faithfully.                          *)
Plain(t) == Small(t) /\ ~(\E u \in Nodes[t] : Regroups(u) \/ NoDice(u))

LEMMA PlainParts ==
    ASSUME NEW t \in Tree, Plain(t)
    PROVE /\ \A u \in Parts(t) : u \in Tree /\ Plain(u)
          /\ ~Regroups(t) /\ ~NoDice(t)
          /\ t.kind = "number" => t.value < Half
<1>1. t \in Nodes[t] /\ \A u \in Parts(t) : u \in Tree /\ Nodes[u] \subseteq Nodes[t]
  BY NodesAt, TreeParts
<1>2. \A u \in Parts(t) : Small(u)
  BY SmallParts DEF Plain
<1> QED BY <1>1, <1>2 DEF Plain, Small

BeginsBody(f, t) == IsBinary(t, {"/"}) \/ (IsBinary(t, {"*"}) /\ f[t.left])

LEMMA BeginsAlike ==
    ASSUME NEW f, NEW g, NEW t, t.kind \in {"number", "minus", "roll", "binary"},
           \A u \in Parts(t) : f[u] = g[u]
    PROVE BeginsBody(f, t) = BeginsBody(g, t)
<1>1. t.kind = "binary" => f[t.left] = g[t.left]
  BY DEF Parts
<1> QED BY <1>1 DEF BeginsBody, IsBinary

LEMMA BeginsDef ==
    BeginsWithQuotient = [t \in Tree |-> BeginsBody(BeginsWithQuotient, t)]
<1> DEFINE Good(N) == \E f : f = [t \in Nested[N] |-> BeginsBody(f, t)]
           S == {N \in 0..MaxDepth : Good(N)}
<1>1. MaxDepth \in Nat /\ MaxDepth \in 0..MaxDepth /\ 0 \in 0..MaxDepth
  BY GrammarAssumption
<1>2. 0 \in S
  <2> DEFINE f == [t \in Nested[0] |-> BeginsBody(<<>>, t)]
  <2>1. ASSUME NEW t \in Nested[0] PROVE BeginsBody(f, t) = BeginsBody(<<>>, t)
    <3>1. t.kind = "number" /\ Parts(t) = {}
      BY PartsLessDeep DEF Parts
    <3> HIDE DEF f
    <3> QED BY <3>1, BeginsAlike
  <2>2. f = [t \in Nested[0] |-> BeginsBody(f, t)]
    BY <2>1
  <2> QED BY <1>1, <2>2
<1>3. ASSUME NEW N \in 0..(MaxDepth - 1), N \in S PROVE N + 1 \in S
  <2>0. N \in 0..MaxDepth /\ N + 1 \in 0..MaxDepth
    BY <1>1
  <2>1. PICK f : f = [t \in Nested[N] |-> BeginsBody(f, t)]
    BY <1>3
  <2> DEFINE g == [t \in Nested[N + 1] |-> BeginsBody(f, t)]
  <2>2. \A t \in Nested[N] : f[t] = g[t]
    BY <2>0, <2>1, NestedGrows
  <2>3. ASSUME NEW t \in Nested[N + 1] PROVE BeginsBody(f, t) = BeginsBody(g, t)
    <3>1. Parts(t) \subseteq Nested[N]
      BY <2>0, PartsLessDeep
    <3>2. t.kind \in {"number", "minus", "roll", "binary"}
      BY <2>0, KindsOf
    <3> HIDE DEF g
    <3> QED BY <2>2, <3>1, <3>2, BeginsAlike
  <2>4. g = [t \in Nested[N + 1] |-> BeginsBody(g, t)]
    BY <2>3
  <2> QED BY <2>0, <2>4
<1>4. Good(MaxDepth)
  <2> HIDE DEF S
  <2>3. 0..MaxDepth \subseteq S
    BY <1>1, <1>2, <1>3, Induction
  <2> QED BY <1>1, <2>3 DEF S
<1> QED BY <1>4 DEF BeginsWithQuotient, BeginsBody, Tree

LEMMA BeginsAt ==
    ASSUME NEW t \in Tree
    PROVE BeginsWithQuotient[t] = (IsBinary(t, {"/"}) \/ (IsBinary(t, {"*"}) /\ BeginsWithQuotient[t.left]))
BY BeginsDef DEF BeginsBody

(* What is rendered of an expression says its value, and may follow a sum, *)
(* or a product unless it begins with a quotient.                          *)
Shown(d, t, x) ==
    /\ Fragment(d, x) /\ MayFollow(d, "+", x.text, x.value)
    /\ x.precedence = 2 => IsBinary(t, {"*", "/"})
    /\ x.precedence = 1 => IsBinary(t, {"+", "-"})
    /\ x.precedence >= 2 /\ ~BeginsWithQuotient[t] => MayFollow(d, "*", x.text, x.value)

LEMMA ShownFactor ==
    ASSUME NEW d \in Expressions, ~d.checked, NEW t, NEW x, Fragment(d, x), x.precedence >= 3
    PROVE Shown(d, t, x)
<1>1. x.precedence \in 1..4 /\ x.precedence >= 2 /\ x.precedence # 2 /\ x.precedence # 1
  BY DEF Fragment
<1>2. Says(d, x.text, 2, x.value) /\ Says(d, x.text, 3, x.value)
  BY <1>1, FragmentSays
<1>3. LevelOf("+") + 1 = 2 /\ LevelOf("*") + 1 = 3
  BY DEF LevelOf
<1>4. MayFollow(d, "+", x.text, x.value) /\ MayFollow(d, "*", x.text, x.value)
  BY <1>2, <1>3, FollowsOne
<1> QED BY <1>1, <1>4 DEF Shown

LEMMA RollShown ==
    ASSUME NEW d \in Expressions, ~d.checked, NEW t \in Tree, Plain(t), t.kind = "roll",
           NEW p \in BOOLEAN, RenderEval(d)[t][p].ok
    PROVE LET x == RenderEval(d)[t][p] IN Fragment(d, x) /\ (p => x.precedence = 4)
<1> DEFINE x == RenderEval(d)[t][p]
           l == RenderEval(d)[t.left][TRUE]
           r == RenderEval(d)[t.right][TRUE]
<1>1. t.left \in Tree /\ t.right \in Tree /\ Plain(t.left) /\ ~NoDice(t)
  BY PlainParts DEF Parts
<1>2. x = RenderNode(d, t, l, r, p)
  BY RenderAt
<1>3. IsResult(l) /\ IsResult(r)
  BY <1>1, RenderIs
<1>4. x.ok
  OBVIOUS
<1>5. t.left.kind = "number" =>
          l = [ok |-> TRUE, value |-> Wrap(t.left.value), text |-> Num(t.left.value), precedence |-> Atom]
  BY <1>1, RenderAt
<1> HIDE DEF x, l, r
<1>6. l.ok /\ r.ok /\ x = RenderRoll(d, t, l.value, r.value, p)
  BY <1>2, <1>4, FailedIs DEF RenderNode
<1>7. l.value \in Int /\ r.value \in Int
  BY <1>3, <1>6 DEF IsResult
<1>8. Legal(l.value, r.value)
  BY <1>4, <1>6, <1>7, RenderRollIs
<1>9. ASSUME t.left.kind = "number" PROVE l.value > 0
  <2>1. t.left.value \in Nat /\ t.left = MakeNumber(t.left.value) /\ t.left.value < Half
    BY <1>1, <1>9, TreeParts, PlainParts
  <2>2. Fits(t.left.value)
    BY <2>1, HalfIs DEF Fits
  <2>3. l.value = t.left.value
    BY <1>5, <1>9, <2>1, <2>2, FitsWrap
  <2>4. t.left.value # 0
    BY <1>1, <2>1 DEF NoDice
  <2> QED BY <2>1, <2>3, <2>4
<1>10. RenderRoll(d, t, l.value, r.value, p).ok
  BY <1>4, <1>6
<1>11. Fragment(d, x) /\ (p => x.precedence = 4)
  BY <1>6, <1>7, <1>9, <1>10, RollSays
<1> QED BY <1>11 DEF x

LEMMA RenderShown ==
    ASSUME NEW d \in Expressions, ~d.checked
    PROVE \A t \in Tree : Plain(t) /\ RenderEval(d)[t][TRUE].ok => Shown(d, t, RenderEval(d)[t][TRUE])
<1> DEFINE Good(t) == Plain(t) /\ RenderEval(d)[t][TRUE].ok => Shown(d, t, RenderEval(d)[t][TRUE])
           S == {t \in Tree : Good(t)}
<1>1. ASSUME NEW t \in Tree, Parts(t) \subseteq S, Plain(t), RenderEval(d)[t][TRUE].ok
      PROVE Shown(d, t, RenderEval(d)[t][TRUE])
  <2> DEFINE x == RenderEval(d)[t][TRUE]
             l == RenderEval(d)[t.left][TRUE]
             r == RenderEval(d)[t.right][TRUE]
  <2>1. \A u \in Parts(t) : /\ u \in Tree /\ Plain(u) /\ IsResult(RenderEval(d)[u][TRUE])
                            /\ RenderEval(d)[u][TRUE].ok => Shown(d, u, RenderEval(d)[u][TRUE])
    BY <1>1, PlainParts, RenderIs
  <2>2. /\ t.kind = "number" =>
              x = [ok |-> TRUE, value |-> Wrap(t.value), text |-> Num(t.value), precedence |-> Atom]
        /\ t.kind = "minus" => x = IF l.ok THEN RenderMinus(d, l) ELSE Failed
        /\ t.kind \in {"roll", "binary"} => x = RenderNode(d, t, l, r, TRUE)
    BY RenderAt
  <2>3. x.ok
    BY <1>1
  <2> SUFFICES Shown(d, t, x)
    OBVIOUS
  <2> HIDE DEF S
  <2>4. CASE t.kind = "number"
    <3>1. t.value \in Nat
      BY <2>4, TreeParts
    <3>2. Says(d, Num(t.value), 5, Wrap(t.value))
      BY <3>1, SaysNumber
    <3> HIDE DEF x, l, r
    <3>3. x.value = Wrap(t.value) /\ x.text = Num(t.value) /\ x.precedence = 4
      BY <2>2, <2>4 DEF Atom
    <3>4. Fragment(d, x)
      BY <3>2, <3>3 DEF Fragment, TextLevel
    <3> QED BY <3>3, <3>4, ShownFactor
  <2>5. CASE t.kind = "minus"
    <3>1. l.ok => Shown(d, t.left, l)
      BY <2>1, <2>5 DEF Parts
    <3> HIDE DEF x, l, r
    <3>2. l.ok /\ x = RenderMinus(d, l)
      BY <2>2, <2>3, <2>5, FailedIs
    <3>3. Fragment(d, l)
      BY <3>1, <3>2 DEF Shown
    <3>4. x.precedence = 3 /\ Says(d, x.text, 3, x.value)
      BY <3>2, <3>3, MinusSays
    <3>5. Fragment(d, x)
      BY <3>4 DEF Fragment, TextLevel
    <3> QED BY <3>4, <3>5, ShownFactor
  <2>6. CASE t.kind = "roll"
    <3>1. Fragment(d, x) /\ x.precedence = 4
      BY <1>1, <2>6, RollShown
    <3> HIDE DEF x
    <3> QED BY <3>1, ShownFactor
  <2>7. CASE t.kind = "binary"
    <3>1. /\ t.left \in Tree /\ t.right \in Tree
          /\ l.ok => Shown(d, t.left, l)
          /\ r.ok => Shown(d, t.right, r)
      BY <2>1, <2>7 DEF Parts
    <3>2. t.op \in Op /\ ~Regroups(t)
      BY <1>1, <2>7, TreeParts, PlainParts
    <3> HIDE DEF x, l, r
    <3>3. l.ok /\ r.ok /\ x = RenderBinary(d, t, l, r)
      BY <2>2, <2>3, <2>7, FailedIs DEF RenderNode
    <3>4. ~(t.op = "/" /\ r.value = 0)
      BY <2>3, <3>3, FailedIs DEF RenderBinary
    <3>5. Shown(d, t.left, l) /\ Shown(d, t.right, r)
      BY <3>1, <3>3
    <3>6. Fragment(d, l) /\ Fragment(d, r) /\ MayFollow(d, "+", l.text, l.value) /\ MayFollow(d, "+", r.text, r.value)
      BY <3>5 DEF Shown
    <3>7. ASSUME t.op = "*", r.precedence = 2, ~IsBinary(t.right, {"/"})
          PROVE MayFollow(d, "*", r.text, r.value)
      <4>1. IsBinary(t.right, {"*"})
        BY <3>5, <3>7 DEF Shown, IsBinary
      <4>2. ~BeginsWithQuotient[t.right.left]
        BY <2>7, <3>2, <3>7, <4>1 DEF Regroups, IsBinary
      <4>3. ~BeginsWithQuotient[t.right]
        BY <3>1, <3>7, <4>2, BeginsAt
      <4> QED BY <3>5, <3>7, <4>3 DEF Shown
    <3>8. /\ x.precedence = LevelOf(t.op) /\ Fragment(d, x)
          /\ MayFollow(d, "+", x.text, x.value)
          /\ t.op = "*" /\ (l.precedence >= 2 => MayFollow(d, "*", l.text, l.value)) =>
                MayFollow(d, "*", x.text, x.value)
      BY <3>2, <3>3, <3>4, <3>6, <3>7, BinarySays
    <3>9. ASSUME x.precedence >= 2, ~BeginsWithQuotient[t] PROVE MayFollow(d, "*", x.text, x.value)
      <4>1. t.op \in {"*", "/"}
        BY <3>8, <3>9 DEF LevelOf
      <4>2. t.op = "*" /\ ~BeginsWithQuotient[t.left]
        BY <2>7, <3>9, <4>1, BeginsAt DEF IsBinary
      <4> QED BY <3>5, <3>8, <4>2 DEF Shown
    <3>10. /\ x.precedence = 2 => IsBinary(t, {"*", "/"})
           /\ x.precedence = 1 => IsBinary(t, {"+", "-"})
      BY <2>7, <3>2, <3>8 DEF LevelOf, IsBinary, Op
    <3> QED BY <3>8, <3>9, <3>10 DEF Shown
  <2> QED BY <2>4, <2>5, <2>6, <2>7, TreeParts
<1>2. Tree \subseteq S
  <2>1. \A t \in Tree : Parts(t) \subseteq S => t \in S
    BY <1>1
  <2> HIDE DEF S
  <2> QED BY <2>1, TreeInduction
<1> QED BY <1>2

(* A term of the sum that is evaluated; a roll that stands alone is shown  *)
(* without brackets.                                                       *)
LEMMA TermShown ==
    ASSUME NEW d \in Expressions, ~d.checked, NEW t \in Tree, Plain(t), ~IsBinary(t, {"+", "-"}),
           NEW p \in BOOLEAN, RenderEval(d)[t][p].ok
    PROVE LET x == RenderEval(d)[t][p] IN Fragment(d, x) /\ (p => x.precedence >= 2)
<1> DEFINE x == RenderEval(d)[t][p]
           y == RenderEval(d)[t][TRUE]
           l == RenderEval(d)[t.left][TRUE]
           r == RenderEval(d)[t.right][TRUE]
<1>1. CASE t.kind = "roll"
  BY <1>1, RollShown
<1>2. CASE t.kind # "roll"
  <2>1. /\ t.kind = "number" =>
              x = [ok |-> TRUE, value |-> Wrap(t.value), text |-> Num(t.value), precedence |-> Atom]
        /\ t.kind = "minus" => x = IF l.ok THEN RenderMinus(d, l) ELSE Failed
        /\ t.kind \in {"roll", "binary"} => x = RenderNode(d, t, l, r, p)
    BY RenderAt
  <2>2. /\ t.kind = "number" =>
              y = [ok |-> TRUE, value |-> Wrap(t.value), text |-> Num(t.value), precedence |-> Atom]
        /\ t.kind = "minus" => y = IF l.ok THEN RenderMinus(d, l) ELSE Failed
        /\ t.kind \in {"roll", "binary"} => y = RenderNode(d, t, l, r, TRUE)
    BY RenderAt
  <2>3. x.ok
    OBVIOUS
  <2>4. y.ok => Shown(d, t, y)
    BY RenderShown
  <2> HIDE DEF x, y, l, r
  <2>5. RenderNode(d, t, l, r, p) = RenderNode(d, t, l, r, TRUE)
    BY <1>2 DEF RenderNode
  <2>6. x = y
    <3>1. CASE t.kind = "number"
      BY <2>1, <2>2, <3>1
    <3>2. CASE t.kind = "minus"
      BY <2>1, <2>2, <3>2
    <3>3. CASE t.kind \in {"roll", "binary"}
      BY <2>1, <2>2, <2>5, <3>3
    <3> QED BY <3>1, <3>2, <3>3, TreeParts
  <2>7. Shown(d, t, x)
    BY <2>3, <2>4, <2>6
  <2>8. Fragment(d, x) /\ x.precedence # 1 /\ x.precedence \in 1..4
    BY <2>7 DEF Shown, Fragment
  <2> QED BY <2>8 DEF x
<1> QED BY <1>1, <1>2

-----------------------------------------------------------------------------
(* One turn of the loop, said by the text: a sum so far, and one more term *)
(* behind its sign.                                                        *)
AfterSign(text) == IF LeadingMinus(text) THEN Bracketed(text) ELSE text

LEMMA AfterSignSays ==
    ASSUME NEW d, NEW u, NEW k \in 2..5, NEW v, Says(d, u, k, v)
    PROVE Says(d, AfterSign(u), 2, v)
<1>1. k \in 1..5 /\ 2 \in 1..5 /\ 1 \in 1..5 /\ 5 \in 1..5 /\ 2 <= k /\ 1 <= k /\ 2 <= 5
  OBVIOUS
<1>2. Says(d, u, 2, v) /\ Says(d, u, 1, v)
  BY <1>1, SaysWeaker
<1>3. Says(d, Bracketed(u), 5, v)
  BY <1>2, SaysBracketed
<1>4. Says(d, Bracketed(u), 2, v)
  BY <1>1, <1>3, SaysWeaker
<1> QED BY <1>2, <1>4 DEF AfterSign

LEMMA NothingBefore ==
    ASSUME NEW u \in Texts
    PROVE <<>> \o u = u
<1> DEFINE T == [type : {"number", "+", "-", "*", "/", "d", "(", ")"}, value : Nat]
<1>1. u \in Seq(T)
  BY DEF Texts
<1> HIDE DEF T
<1> QED BY <1>1

LEMMA JoinedFirst ==
    ASSUME NEW d \in Expressions, ~d.checked, NEW x, x.ok, Fragment(d, x)
    PROVE LET y == JoinTerm(d, Nothing, FALSE, x, TRUE) IN
          y.ok /\ Says(d, y.sep, 1, y.total) /\ Says(d, y.combined, 1, y.total)
<1> DEFINE u == Digits(x.value)
           e == <<>> \o (<<>> \o x.text)
           f == <<>> \o (<<>> \o u)
           total == Rendered(d, 0 + x.value, <<>>, Atom)
           y == JoinTerm(d, Nothing, FALSE, x, TRUE)
<1>1. Says(d, x.text, 1, x.value) /\ x.precedence \in 1..4
  BY FragmentSays DEF Fragment
<1>2. x.value \in Int /\ Fits(x.value) /\ x.text \in Texts
  BY <1>1, SaysIs
<1>3. Says(d, u, 3, x.value)
  BY <1>2, SaysDigits
<1>4. Says(d, u, 1, x.value) /\ u \in Texts
  BY <1>3, SaysWeaker, SaysIs
<1>5. e = x.text
  BY <1>2, NothingBefore
<1>6. f = u
  <2> HIDE DEF u
  <2> QED BY <1>4, NothingBefore
<1>7. total.ok /\ total.value = x.value
  <2> DEFINE v == 0 + x.value
  <2>1. v = x.value
    BY <1>2
  <2> HIDE DEF v
  <2> QED BY <1>2, <2>1, RenderedWraps, FitsWrap DEF v
<1>8. y = [ok |-> TRUE, total |-> total.value, sep |-> e, combined |-> f]
  <2>1. Nothing.total = 0 /\ Nothing.sep = <<>> /\ Nothing.combined = <<>>
    BY DEF Nothing
  <2>2. y = IF ~x.ok \/ ~total.ok THEN Failed
            ELSE [ok |-> TRUE, total |-> total.value, sep |-> e, combined |-> f]
    BY <2>1 DEF JoinTerm
  <2> HIDE DEF y, total, e, f
  <2> QED BY <1>7, <2>2
<1> HIDE DEF y, total, e, f
<1>9. y.ok = TRUE /\ y.total = x.value /\ y.sep = x.text /\ y.combined = u
  BY <1>5, <1>6, <1>7, <1>8
<1> HIDE DEF u
<1> QED BY <1>1, <1>4, <1>9 DEF y

LEMMA JoinedNext ==
    ASSUME NEW d \in Expressions, ~d.checked, NEW before,
           Says(d, before.sep, 1, before.total), Says(d, before.combined, 1, before.total),
           NEW neg \in BOOLEAN, NEW x, x.ok, Fragment(d, x), x.precedence >= 2
    PROVE LET y == JoinTerm(d, before, neg, x, FALSE) IN
          y.ok /\ Says(d, y.sep, 1, y.total) /\ Says(d, y.combined, 1, y.total)
<1> DEFINE op == IF neg THEN "-" ELSE "+"
           u == AfterSign(x.text)
           w == AfterSign(Digits(x.value))
           e == before.sep \o (Tok(op) \o u)
           f == before.combined \o (Tok(op) \o w)
           signed == IF neg THEN Rendered(d, -x.value, <<>>, Atom) ELSE x
           total == Rendered(d, before.total + signed.value, <<>>, Atom)
           y == JoinTerm(d, before, neg, x, FALSE)
           a == before.total
           b == x.value
<1>0. op \in Op /\ op # "/" /\ LevelOf(op) = 1 /\ LevelOf(op) + 1 = 2
  BY DEF Op, LevelOf
<1>1. x.precedence \in 1..4 /\ Says(d, x.text, TextLevel(x.precedence), b)
  BY DEF Fragment
<1>2. TextLevel(x.precedence) \in 2..5
  BY <1>1 DEF TextLevel
<1>3. Says(d, u, 2, b)
  BY <1>1, <1>2, AfterSignSays
<1>4. b \in Int /\ Fits(b)
  BY <1>1, SaysIs
<1>5. Says(d, Digits(b), 3, b)
  BY <1>4, SaysDigits
<1>6. Says(d, w, 2, b)
  BY <1>5, AfterSignSays
<1>7. a \in Int /\ before.sep \in Texts /\ before.combined \in Texts /\ u \in Texts /\ w \in Texts
  BY <1>3, <1>6, SaysIs
<1>8. Tok(op) \in Texts
  BY <1>0, TokIs DEF Op
<1>9. e = Operation(before.sep, op, u) /\ f = Operation(before.combined, op, w)
  <2> DEFINE o == Tok(op)
             g == before.sep
             h == before.combined
  <2>1. o \in Texts /\ g \in Texts /\ h \in Texts /\ u \in Texts /\ w \in Texts
    BY <1>7, <1>8
  <2> HIDE DEF o, g, h, u, w
  <2>2. g \o (o \o u) = (g \o o) \o u
    BY <2>1, TextsAssociative
  <2>3. h \o (o \o w) = (h \o o) \o w
    BY <2>1, TextsAssociative
  <2> QED BY <2>2, <2>3 DEF Operation, o, g, h
<1>10. Says(d, e, 1, Wrap(Apply(op, a, b))) /\ Says(d, f, 1, Wrap(Apply(op, a, b)))
  <2> HIDE DEF e, f, u, w, op, a, b
  <2>1. Says(d, before.sep, LevelOf(op), a) /\ Says(d, before.combined, LevelOf(op), a)
    BY <1>0 DEF a
  <2>2. Says(d, u, LevelOf(op) + 1, b) /\ Says(d, w, LevelOf(op) + 1, b)
    BY <1>0, <1>3, <1>6
  <2>3. /\ Says(d, Operation(before.sep, op, u), LevelOf(op), Wrap(Apply(op, a, b)))
        /\ Says(d, Operation(before.combined, op, w), LevelOf(op), Wrap(Apply(op, a, b)))
    BY <1>0, <2>1, <2>2, SaysOperation
  <2> QED BY <1>0, <1>9, <2>3
<1>11. signed.ok /\ signed.value = IF neg THEN Wrap(-b) ELSE b
  <2> DEFINE n == -x.value
  <2>1. n = -b
    OBVIOUS
  <2> HIDE DEF n, b
  <2>2. Rendered(d, n, <<>>, Atom).ok /\ Rendered(d, n, <<>>, Atom).value = Wrap(n)
    BY RenderedWraps
  <2> QED BY <2>1, <2>2 DEF n, b
<1>12. total.ok /\ total.value = Wrap(Apply(op, a, b))
  <2> DEFINE v == before.total + signed.value
             n == -b
             m == Wrap(n)
  <2>1. total.ok /\ total.value = Wrap(v)
    <3> HIDE DEF v
    <3>1. Rendered(d, v, <<>>, Atom).ok /\ Rendered(d, v, <<>>, Atom).value = Wrap(v)
      BY RenderedWraps
    <3> QED BY <3>1 DEF v
  <2>2. n \in Int /\ m \in Int /\ Cong(m, n)
    BY <1>4, WrapIs
  <2>3. v = a + (IF neg THEN m ELSE b)
    <3> HIDE DEF signed
    <3> QED BY <1>11
  <2>4. Apply(op, a, b) = a + (IF neg THEN n ELSE b)
    BY <1>4, <1>7 DEF Apply
  <2> HIDE DEF v, total, m, n, op, a, b
  <2>5. Cong(a + m, a + n) /\ a + m \in Int /\ a + n \in Int
    BY <1>7, <2>2, CongIs, CongApply
  <2>6. Wrap(v) = Wrap(Apply(op, a, b))
    <3>1. CASE neg
      BY <2>3, <2>4, <2>5, <3>1, WrapSame
    <3>2. CASE ~neg
      BY <2>3, <2>4, <3>2
    <3> QED BY <3>1, <3>2
  <2> QED BY <2>1, <2>6
<1>13. y = [ok |-> TRUE, total |-> total.value, sep |-> e, combined |-> f]
  <2>1. y = IF ~signed.ok \/ ~total.ok THEN Failed
            ELSE [ok |-> TRUE, total |-> total.value, sep |-> e, combined |-> f]
    BY DEF JoinTerm, AfterSign
  <2> HIDE DEF y, total, signed, e, f
  <2> QED BY <1>11, <1>12, <2>1
<1> HIDE DEF y, total, e, f
<1>14. y.ok = TRUE /\ y.total = total.value /\ y.sep = e /\ y.combined = f
  BY <1>13
<1> QED BY <1>10, <1>12, <1>14 DEF y

(* The terms of a sum are no sums, and none has a part that the whole has  *)
(* not; the first has the sign of the whole.                               *)
IsPlainTerm(x) == x.term \in Tree /\ Plain(x.term) /\ ~IsBinary(x.term, {"+", "-"})

LEMMA JoinedTerms ==
    ASSUME NEW l \in Seq(Term), NEW r \in Seq(Term), Len(l) > 0,
           \A i \in 1..Len(l) : IsPlainTerm(l[i]), \A i \in 1..Len(r) : IsPlainTerm(r[i])
    PROVE (\A i \in 1..Len(l \o r) : IsPlainTerm((l \o r)[i])) /\ (l \o r)[1] = l[1]
<1> DEFINE w == l \o r
<1>1. /\ Len(w) = Len(l) + Len(r) /\ Len(l) \in Nat /\ Len(r) \in Nat
      /\ \A i \in 1..Len(l) : w[i] = l[i]
      /\ \A i \in 1..Len(r) : w[i + Len(l)] = r[i]
  OBVIOUS
<1> HIDE DEF w
<1>2. ASSUME NEW i \in 1..Len(w) PROVE IsPlainTerm(w[i])
  <2>1. CASE i <= Len(l)
    BY <1>1, <2>1
  <2>2. CASE ~(i <= Len(l))
    <3>1. i - Len(l) \in 1..Len(r) /\ (i - Len(l)) + Len(l) = i
      BY <1>1, <2>2
    <3> QED BY <1>1, <3>1
  <2> QED BY <2>1, <2>2
<1>3. w[1] = l[1]
  BY <1>1
<1> QED BY <1>2, <1>3 DEF w

LEMMA FlattenPlain ==
    \A t \in Tree : Plain(t) =>
        \A a \in Sign : /\ \A i \in 1..Len(FlattenAdditive[t][a]) : IsPlainTerm(FlattenAdditive[t][a][i])
                        /\ FlattenAdditive[t][a][1].negative = a
<1> DEFINE Good(t) ==
        \A a \in Sign : /\ \A i \in 1..Len(FlattenAdditive[t][a]) : IsPlainTerm(FlattenAdditive[t][a][i])
                        /\ FlattenAdditive[t][a][1].negative = a
           S == {t \in Tree : Plain(t) => Good(t)}
<1>1. ASSUME NEW t \in Tree, Parts(t) \subseteq S, Plain(t), NEW a \in Sign
      PROVE /\ \A i \in 1..Len(FlattenAdditive[t][a]) : IsPlainTerm(FlattenAdditive[t][a][i])
            /\ FlattenAdditive[t][a][1].negative = a
  <2>1. CASE IsBinary(t, {"+", "-"})
    <3> DEFINE l == FlattenAdditive[t.left][a]
               r == FlattenAdditive[t.right][SignOf(t, a)]
    <3>1. FlattenAdditive[t][a] = l \o r
      BY <2>1, FlattenAt
    <3>2. t.left \in Parts(t) /\ t.right \in Parts(t)
      BY <2>1 DEF Parts, IsBinary
    <3>3. t.left \in Tree /\ t.right \in Tree /\ Plain(t.left) /\ Plain(t.right)
      BY <1>1, <3>2, PlainParts
    <3>4. Good(t.left) /\ Good(t.right)
      BY <1>1, <3>2, <3>3
    <3>5. SignOf(t, a) \in Sign
      BY DEF SignOf, Sign
    <3>6. l \in Seq(Term) /\ Len(l) > 0 /\ r \in Seq(Term)
      BY <3>3, <3>5, FlattenIs
    <3>7. /\ \A i \in 1..Len(l) : IsPlainTerm(l[i])
          /\ \A i \in 1..Len(r) : IsPlainTerm(r[i])
          /\ l[1].negative = a
      BY <3>4, <3>5
    <3> HIDE DEF l, r
    <3>8. (\A i \in 1..Len(l \o r) : IsPlainTerm((l \o r)[i])) /\ (l \o r)[1] = l[1]
      BY <3>6, <3>7, JoinedTerms
    <3> QED BY <3>1, <3>7, <3>8
  <2>2. CASE ~IsBinary(t, {"+", "-"})
    <3> DEFINE x == [negative |-> a, term |-> t]
    <3>1. FlattenAdditive[t][a] = <<x>>
      BY <2>2, FlattenAt
    <3>2. x.negative = a /\ x.term = t
      OBVIOUS
    <3> HIDE DEF x
    <3>3. IsPlainTerm(x)
      BY <1>1, <2>2, <3>2 DEF IsPlainTerm
    <3> QED BY <3>1, <3>2, <3>3
  <2> QED BY <2>1, <2>2
<1>2. Tree \subseteq S
  <2>1. \A t \in Tree : Parts(t) \subseteq S => t \in S
    BY <1>1
  <2> HIDE DEF S
  <2> QED BY <2>1, TreeInduction
<1> QED BY <1>2

(* What is joined says the total, turn by turn.                            *)
JoinedSays(d, y) == Says(d, y.sep, 1, y.total) /\ Says(d, y.combined, 1, y.total)

LEMMA TurnSays ==
    ASSUME NEW d \in Expressions, ~d.checked, NEW terms \in Seq(Term), NEW n \in 1..Len(terms),
           \A i \in 1..Len(terms) : IsPlainTerm(terms[i]), terms[1].negative = FALSE,
           n > 1 /\ JoinTerms(d, terms)[n - 1].ok => JoinedSays(d, JoinTerms(d, terms)[n - 1]),
           JoinTerms(d, terms)[n].ok
    PROVE JoinedSays(d, JoinTerms(d, terms)[n])
<1> DEFINE before == JoinTerms(d, terms)[n - 1]
           y == JoinTerms(d, terms)[n]
           t == terms[n].term
           neg == terms[n].negative
           p == Len(terms) > 1 \/ t.kind = "binary"
           x == RenderEval(d)[t][p]
<1>1. neg \in BOOLEAN /\ p \in BOOLEAN /\ n # 0 /\ Len(terms) \in Nat /\ n \in Nat
  <2>1. terms[n] \in Term
    OBVIOUS
  <2> QED BY <2>1 DEF Term
<1>2. t \in Tree /\ Plain(t) /\ ~IsBinary(t, {"+", "-"})
  BY DEF IsPlainTerm
<1>3. y = IF ~before.ok \/ ~x.ok THEN Failed ELSE JoinTerm(d, before, neg, x, n = 1)
  BY <1>1, JoinAt DEF JoinBody
<1>4. y.ok
  OBVIOUS
<1>5. x.ok => Fragment(d, x) /\ (p => x.precedence >= 2)
  <2> HIDE DEF t, p
  <2> QED BY <1>1, <1>2, TermShown
<1>6. n > 1 /\ before.ok => JoinedSays(d, before)
  OBVIOUS
<1>7. n = 1 => before = Nothing /\ neg = FALSE
  BY <1>1, JoinAt
<1>8. n > 1 => p
  BY <1>1
<1> HIDE DEF before, y, t, neg, p, x
<1>9. before.ok /\ x.ok
  BY <1>3, <1>4, FailedIs
<1>10. PICK first \in BOOLEAN : first = (n = 1) /\ y = JoinTerm(d, before, neg, x, first)
  <2>1. PICK first \in BOOLEAN : first = (n = 1)
    OBVIOUS
  <2>2. y = JoinTerm(d, before, neg, x, first)
    BY <1>3, <1>9, <2>1
  <2> QED BY <2>1, <2>2
<1>11. CASE n = 1
  <2>1. y = JoinTerm(d, Nothing, FALSE, x, TRUE)
    <3>1. first = TRUE
      BY <1>10, <1>11
    <3> QED BY <1>7, <1>10, <1>11, <3>1
  <2>2. Says(d, y.sep, 1, y.total) /\ Says(d, y.combined, 1, y.total)
    BY <1>5, <1>9, <2>1, JoinedFirst
  <2> QED BY <2>2 DEF JoinedSays, y
<1>12. CASE n > 1
  <2>1. y = JoinTerm(d, before, neg, x, FALSE)
    <3>1. n # 1
      BY <1>1, <1>12
    <3>2. first = FALSE
      BY <1>10, <3>1
    <3> QED BY <1>10, <3>2
  <2>2. Fragment(d, x) /\ x.precedence >= 2
    BY <1>5, <1>8, <1>9, <1>12
  <2>3. Says(d, before.sep, 1, before.total) /\ Says(d, before.combined, 1, before.total)
    BY <1>6, <1>9, <1>12 DEF JoinedSays
  <2>4. Says(d, y.sep, 1, y.total) /\ Says(d, y.combined, 1, y.total)
    BY <1>1, <1>9, <2>1, <2>2, <2>3, JoinedNext
  <2> QED BY <2>4 DEF JoinedSays, y
<1> QED BY <1>1, <1>11, <1>12

LEMMA JoinSays ==
    ASSUME NEW d \in Expressions, ~d.checked, NEW terms \in Seq(Term), Len(terms) > 0,
           \A i \in 1..Len(terms) : IsPlainTerm(terms[i]), terms[1].negative = FALSE
    PROVE \A n \in 1..Len(terms) : JoinTerms(d, terms)[n].ok => JoinedSays(d, JoinTerms(d, terms)[n])
<1> DEFINE Good(n) == JoinTerms(d, terms)[n].ok => JoinedSays(d, JoinTerms(d, terms)[n])
           S == {n \in 0..Len(terms) : n > 0 => Good(n)}
<1>1. Len(terms) \in Nat /\ 0 \in S
  OBVIOUS
<1>2. ASSUME NEW k \in 0..(Len(terms) - 1), k \in S PROVE k + 1 \in S
  <2>1. k + 1 \in 1..Len(terms) /\ k + 1 \in 0..Len(terms) /\ (k + 1) - 1 = k /\ (k + 1 > 1 => k > 0)
    BY <1>1
  <2>2. k + 1 > 1 /\ JoinTerms(d, terms)[(k + 1) - 1].ok => JoinedSays(d, JoinTerms(d, terms)[(k + 1) - 1])
    BY <1>2, <2>1
  <2>3. Good(k + 1)
    BY <2>1, <2>2, TurnSays
  <2> QED BY <2>1, <2>3
<1>3. 0..Len(terms) \subseteq S
  <2> HIDE DEF S
  <2> QED BY <1>1, <1>2, Induction
<1> QED BY <1>3

(* The explanations of evaluate() say its total.                           *)
LEMMA EvaluateSays ==
    ASSUME NEW d \in Expressions, ~d.checked, NEW t \in Tree, Plain(t), Evaluate(d, t).ok
    PROVE LET y == Evaluate(d, t) IN
          Says(d, y.sep, 1, y.total) /\ Says(d, y.combined, 1, y.total)
<1> DEFINE terms == FlattenAdditive[t][FALSE]
<1>1. FALSE \in Sign
  BY DEF Sign
<1>2. terms \in Seq(Term) /\ Len(terms) > 0
  BY WholeSum
<1>3. (\A i \in 1..Len(terms) : IsPlainTerm(terms[i])) /\ terms[1].negative = FALSE
  BY <1>1, FlattenPlain
<1>4. Evaluate(d, t) = JoinTerms(d, terms)[Len(terms)]
  BY DEF Evaluate
<1> HIDE DEF terms
<1>5. Len(terms) \in 1..Len(terms)
  BY <1>2
<1> QED BY <1>2, <1>3, <1>4, <1>5, JoinSays DEF JoinedSays

-----------------------------------------------------------------------------
(* What evaluate() makes of a tree is the value renderEval gives it.       *)
LEMMA RenderSame ==
    ASSUME NEW d \in Expressions, ~d.checked, NEW t \in Tree, NEW p \in BOOLEAN, RenderEval(d)[t][TRUE].ok
    PROVE RenderEval(d)[t][p].ok /\ RenderEval(d)[t][p].value = RenderEval(d)[t][TRUE].value
<1> DEFINE x == RenderEval(d)[t][p]
           y == RenderEval(d)[t][TRUE]
           l == RenderEval(d)[t.left][TRUE]
           r == RenderEval(d)[t.right][TRUE]
<1>1. /\ t.kind = "number" =>
            x = [ok |-> TRUE, value |-> Wrap(t.value), text |-> Num(t.value), precedence |-> Atom]
      /\ t.kind = "minus" => x = IF l.ok THEN RenderMinus(d, l) ELSE Failed
      /\ t.kind \in {"roll", "binary"} => x = RenderNode(d, t, l, r, p)
  BY RenderAt
<1>2. /\ t.kind = "number" =>
            y = [ok |-> TRUE, value |-> Wrap(t.value), text |-> Num(t.value), precedence |-> Atom]
      /\ t.kind = "minus" => y = IF l.ok THEN RenderMinus(d, l) ELSE Failed
      /\ t.kind \in {"roll", "binary"} => y = RenderNode(d, t, l, r, TRUE)
  BY RenderAt
<1>3. y.ok
  OBVIOUS
<1> HIDE DEF x, y, l, r
<1>4. CASE t.kind = "number"
  <2>1. x = y
    BY <1>1, <1>2, <1>4
  <2> QED BY <1>3, <2>1 DEF x, y
<1>5. CASE t.kind = "minus"
  <2>1. x = y
    BY <1>1, <1>2, <1>5
  <2> QED BY <1>3, <2>1 DEF x, y
<1>6. CASE t.kind = "binary"
  <2>1. RenderNode(d, t, l, r, p) = RenderNode(d, t, l, r, TRUE)
    BY <1>6 DEF RenderNode
  <2>2. x = y
    BY <1>1, <1>2, <1>6, <2>1
  <2> QED BY <1>3, <2>2 DEF x, y
<1>7. CASE t.kind = "roll"
  <2>1. l.ok /\ r.ok
    BY <1>2, <1>3, <1>7, FailedIs DEF RenderNode
  <2> DEFINE sum == l.value * Face(d, r.value)
  <2>2. x = RenderRoll(d, t, l.value, r.value, p) /\ y = RenderRoll(d, t, l.value, r.value, TRUE)
    BY <1>1, <1>2, <1>7, <2>1 DEF RenderNode
  <2>3. Legal(l.value, r.value)
    BY <1>3, <2>2, FailedIs DEF RenderRoll
  <2>4. ASSUME NEW q \in BOOLEAN
        PROVE RenderRoll(d, t, l.value, r.value, q).ok /\ RenderRoll(d, t, l.value, r.value, q).value = Wrap(sum)
    <3> DEFINE z == RenderRoll(d, t, l.value, r.value, q)
               shown == Faces(l.value, Face(d, r.value))
               dynamic == t.left.kind # "number" \/ t.right.kind # "number"
    <3>1. z = IF dynamic THEN Rendered(d, sum, Bracketed(Digits(Wrap(sum))), Atom)
              ELSE IF l.value > 1 /\ q THEN Rendered(d, sum, Bracketed(shown), Atom)
              ELSE Rendered(d, sum, shown, IF l.value > 1 THEN Additive ELSE Atom)
      BY <2>3 DEF RenderRoll
    <3> HIDE DEF z, sum, shown, dynamic
    <3>2. z.ok /\ z.value = Wrap(sum)
      BY <3>1, RenderedWraps
    <3> QED BY <3>2 DEF z
  <2> HIDE DEF sum
  <2>5. x.ok /\ x.value = Wrap(sum) /\ y.value = Wrap(sum)
    BY <2>2, <2>4
  <2> QED BY <2>5 DEF x, y
<1> QED BY <1>4, <1>5, <1>6, <1>7, TreeParts

LEMMA RenderSum ==
    ASSUME NEW d \in Expressions, ~d.checked, NEW t \in Tree, IsBinary(t, {"+", "-"}), RenderEval(d)[t][TRUE].ok
    PROVE LET l == RenderEval(d)[t.left][TRUE]
              r == RenderEval(d)[t.right][TRUE]
              x == RenderEval(d)[t][TRUE] IN
          /\ l.ok /\ r.ok
          /\ x.value = Wrap(IF t.op = "-" THEN l.value - r.value ELSE l.value + r.value)
<1> DEFINE l == RenderEval(d)[t.left][TRUE]
           r == RenderEval(d)[t.right][TRUE]
           x == RenderEval(d)[t][TRUE]
<1>1. t.kind = "binary" /\ t.op \in {"+", "-"}
  BY DEF IsBinary
<1>2. x = RenderNode(d, t, l, r, TRUE)
  BY <1>1, RenderAt
<1>3. x.ok
  OBVIOUS
<1> HIDE DEF x, l, r
<1>4. l.ok /\ r.ok /\ x = RenderBinary(d, t, l, r)
  BY <1>1, <1>2, <1>3, FailedIs DEF RenderNode
<1>5. x.value = Wrap(Apply(t.op, l.value, r.value))
  BY <1>1, <1>4, RenderedWraps DEF RenderBinary
<1>6. Apply(t.op, l.value, r.value) = IF t.op = "-" THEN l.value - r.value ELSE l.value + r.value
  BY <1>1 DEF Apply
<1> QED BY <1>4, <1>5, <1>6 DEF x, l, r

(* The loop adds up the value that renderEval gives the whole tree.        *)
LEMMA JoinValue ==
    ASSUME NEW d \in Expressions, ~d.checked, NEW terms \in Seq(Term), Len(terms) > 0
    PROVE \A t \in Tree : RenderEval(d)[t][TRUE].ok =>
             \A a \in Sign, i \in Nat :
                Stands(terms, i + 1, FlattenAdditive[t][a]) /\ JoinTerms(d, terms)[i].ok =>
                    LET before == JoinTerms(d, terms)[i]
                        y == JoinTerms(d, terms)[i + Len(FlattenAdditive[t][a])]
                        e == RenderEval(d)[t][TRUE] IN
                    y.ok /\ Cong(y.total, before.total + Signed(a, e.value))
<1> DEFINE J(i) == JoinTerms(d, terms)[i]
           Adds(t, a, i) ==
               LET before == J(i)
                   y == J(i + Len(FlattenAdditive[t][a]))
                   e == RenderEval(d)[t][TRUE] IN
               y.ok /\ Cong(y.total, before.total + Signed(a, e.value))
           Good(t) == \A a \in Sign, i \in Nat :
                         Stands(terms, i + 1, FlattenAdditive[t][a]) /\ J(i).ok => Adds(t, a, i)
           S == {t \in Tree : RenderEval(d)[t][TRUE].ok => Good(t)}
<1>0. \A n \in 0..Len(terms) : IsTotal(J(n))
  BY JoinIs
<1>1. ASSUME NEW t \in Tree, Parts(t) \subseteq S, RenderEval(d)[t][TRUE].ok, NEW a \in Sign, NEW i \in Nat,
             Stands(terms, i + 1, FlattenAdditive[t][a]), J(i).ok
      PROVE Adds(t, a, i)
  <2> DEFINE j == i + Len(FlattenAdditive[t][a])
             e == RenderEval(d)[t][TRUE]
             l == FlattenAdditive[t.left][a]
             el == RenderEval(d)[t.left][TRUE]
             er == RenderEval(d)[t.right][TRUE]
  <2>0. Stands(terms, i + 1, FlattenAdditive[t][a])
    BY <1>1
  <2>1. i \in 0..Len(terms) /\ j \in 0..Len(terms)
    BY <2>0, FlattenedWithin
  <2>2. IsTotal(J(i)) /\ IsTotal(J(j)) /\ IsResult(e) /\ e.ok
    BY <1>0, <1>1, <2>1, RenderIs
  <2>3. CASE IsBinary(t, {"+", "-"})
    <3>1. /\ t.left \in Parts(t) /\ t.right \in Parts(t)
          /\ el.ok /\ er.ok
          /\ e.value = Wrap(IF t.op = "-" THEN el.value - er.value ELSE el.value + er.value)
      BY <1>1, <2>3, RenderSum DEF Parts, IsBinary
    <3>2. t.left \in Tree /\ t.right \in Tree /\ Good(t.left) /\ Good(t.right)
      BY <1>1, <3>1
    <3> DEFINE k == i + Len(l)
    <3> DEFINE r == FlattenAdditive[t.right][SignOf(t, a)]
    <3>0. /\ SignOf(t, a) \in Sign
          /\ Stands(terms, i + 1, l)
          /\ k \in Nat
          /\ Stands(terms, k + 1, r)
          /\ j = k + Len(r)
      BY <2>0, <2>3, FlattenedSum
    <3>3. J(k).ok /\ Cong(J(k).total, J(i).total + Signed(a, el.value))
      BY <1>1, <3>0, <3>2
    <3>4. J(j).ok /\ Cong(J(j).total, J(k).total + Signed(SignOf(t, a), er.value))
      <4> HIDE DEF k
      <4>1. Adds(t.right, SignOf(t, a), k)
        BY <3>0, <3>2, <3>3
      <4> QED BY <3>0, <4>1
    <3>5. IsResult(el) /\ IsResult(er)
      BY <3>2, RenderIs
    <3>6. IsTotal(J(k))
      BY <1>0, <3>0, FlattenedWithin, <3>2
    <3> HIDE DEF S, J, Good, e, el, er, j, k, l, r
    <3>7. /\ el.value \in Int /\ er.value \in Int /\ e.value \in Int
          /\ J(i).total \in Int /\ J(j).total \in Int /\ J(k).total \in Int
      BY <1>1, <2>2, <3>1, <3>3, <3>4, <3>5, <3>6 DEF IsResult, IsTotal
    <3> DEFINE m == el.value
               n == er.value
               v == IF t.op = "-" THEN m - n ELSE m + n
               sm == Signed(a, m)
               sn == Signed(SignOf(t, a), n)
               sv == Signed(a, v)
               se == Signed(a, e.value)
    <3>8. v \in Int /\ m \in Int /\ n \in Int /\ (t.op = "-" => v = m - n) /\ (t.op # "-" => v = m + n)
      BY <3>7
    <3>9. e.value = Wrap(v)
      BY <3>1
    <3> HIDE DEF v, m, n
    <3>10. Cong(e.value, v)
      BY <3>8, <3>9, WrapIs
    <3>11. Cong(se, sv) /\ se \in Int /\ sv \in Int /\ sm \in Int /\ sn \in Int
      BY <3>0, <3>7, <3>8, <3>10, SignedModulo, SignedIs
    <3>12. sv = sm + sn
      BY <3>8, SignedSum
    <3>13. Cong(J(k).total, J(i).total + sm) /\ Cong(J(j).total, J(k).total + sn)
      BY <3>3, <3>4 DEF m, n
    <3> DEFINE b == J(i).total
               c == J(k).total
               y == J(j).total
    <3>14. b \in Int /\ c \in Int /\ y \in Int /\ Cong(c, b + sm) /\ Cong(y, c + sn)
      BY <3>7, <3>13
    <3> HIDE DEF sm, sn, sv, se, b, c, y
    <3> DEFINE g == b + sm
               h == b + sv
               q == b + se
    <3>15. g \in Int /\ h \in Int /\ q \in Int /\ h = g + sn /\ c + sn \in Int
      BY <3>11, <3>12, <3>14
    <3>16. Cong(c, g)
      BY <3>14
    <3>17. Cong(h, q)
      <4>1. Cong(b, b) /\ Cong(sv, se)
        BY <3>11, <3>14, CongIs
      <4> QED BY <3>11, <3>14, <4>1, CongApply
    <3> HIDE DEF g, h, q
    <3>18. Cong(c + sn, g + sn)
      <4>1. Cong(sn, sn)
        BY <3>11, CongIs
      <4> QED BY <3>11, <3>14, <3>15, <3>16, <4>1, CongApply
    <3>19. Cong(c + sn, h)
      BY <3>15, <3>18
    <3>20. Cong(y, h)
      <4> DEFINE f == c + sn
      <4>1. f \in Int /\ Cong(y, f) /\ Cong(f, h)
        BY <3>14, <3>15, <3>19
      <4> HIDE DEF f
      <4> QED BY <3>14, <3>15, <4>1, CongIs
    <3>21. Cong(y, q)
      BY <3>14, <3>15, <3>17, <3>20, CongIs
    <3> QED BY <3>4, <3>21 DEF e, j, y, q, b, se
  <2>4. CASE ~IsBinary(t, {"+", "-"})
    <3>1. /\ j \in 1..Len(terms) /\ terms[j].negative = a /\ terms[j].term = t /\ j - 1 = i
      BY <2>0, <2>4, FlattenedLeaf
    <3> HIDE DEF j
    <3>2. PICK p \in BOOLEAN :
              LET x == RenderEval(d)[t][p] IN
              J(i).ok /\ x.ok => J(j).ok /\ Cong(J(j).total, J(i).total + Signed(a, x.value))
      BY <2>2, <3>1, JoinNext
    <3>3. RenderEval(d)[t][p].ok /\ RenderEval(d)[t][p].value = e.value
      BY <1>1, RenderSame
    <3>4. J(j).ok /\ Cong(J(j).total, J(i).total + Signed(a, e.value))
      BY <1>1, <3>2, <3>3
    <3> QED BY <3>4 DEF j
  <2> QED BY <2>3, <2>4
<1>2. Tree \subseteq S
  <2>1. \A t \in Tree : Parts(t) \subseteq S => t \in S
    BY <1>1
  <2> HIDE DEF S
  <2> QED BY <2>1, TreeInduction
<1> QED BY <1>2

LEMMA EvaluateValue ==
    ASSUME NEW d \in Expressions, ~d.checked, NEW t \in Tree, NEW v, IsValue(d, t, v)
    PROVE Evaluate(d, t).ok /\ Evaluate(d, t).total = v
<1> DEFINE terms == FlattenAdditive[t][FALSE]
           e == RenderEval(d)[t][TRUE]
           y == Evaluate(d, t)
<1>0. FALSE \in Sign /\ 0 \in Nat
  BY DEF Sign
<1>1. /\ terms \in Seq(Term) /\ Len(terms) > 0
      /\ Stands(terms, 0 + 1, FlattenAdditive[t][FALSE])
      /\ 0 + Len(FlattenAdditive[t][FALSE]) = Len(terms)
  BY WholeSum
<1>2. y = JoinTerms(d, terms)[Len(terms)]
  BY DEF Evaluate
<1>3. e.ok /\ e.value = v /\ IsResult(e) /\ IsTotal(y)
  BY RenderIs, EvaluateIs DEF IsValue
<1> HIDE DEF terms, e, y
<1>4. JoinTerms(d, terms)[0] = Nothing
  BY <1>1, JoinIs
<1>5. y.ok /\ Cong(y.total, Nothing.total + Signed(FALSE, e.value))
  <2>1. JoinTerms(d, terms)[0].ok
    BY <1>4, NothingIs
  <2>2. \A a \in Sign, i \in Nat :
           Stands(terms, i + 1, FlattenAdditive[t][a]) /\ JoinTerms(d, terms)[i].ok =>
               LET before == JoinTerms(d, terms)[i]
                   z == JoinTerms(d, terms)[i + Len(FlattenAdditive[t][a])] IN
               z.ok /\ Cong(z.total, before.total + Signed(a, e.value))
    BY <1>1, <1>3, JoinValue DEF e
  <2>3. LET z == JoinTerms(d, terms)[0 + Len(FlattenAdditive[t][FALSE])] IN
        z.ok /\ Cong(z.total, JoinTerms(d, terms)[0].total + Signed(FALSE, e.value))
    BY <1>0, <1>1, <2>1, <2>2
  <2> QED BY <1>1, <1>2, <1>4, <2>3
<1>6. e.value \in Int /\ Fits(e.value) /\ y.total \in Int /\ Fits(y.total)
  BY <1>3, <1>5 DEF IsResult, IsTotal
<1>7. Cong(y.total, e.value)
  BY <1>5, <1>6, NothingIs
<1> QED BY <1>3, <1>5, <1>6, <1>7, CongFits DEF y

(* A text is read as what it says.                                         *)
LEMMA ReadAsSaid ==
    ASSUME NEW d \in Expressions, ~d.checked, NEW u, NEW v, Says(d, u, 1, v), Operators(u) <= MaxDepth
    PROVE LET x == ParseAll(u) IN x.ok /\ Evaluate(d, x.tree).ok /\ Evaluate(d, x.tree).total = v
<1>1. u \in Texts /\ Len(u) > 0 /\ Operators(u) \in Nat
  BY SaysIs
<1>2. PICK t \in Nested[Operators(u)] : IsValue(d, t, v) /\ \A s \in Texts : Reads(s, u, t, 1)
  BY DEF Says
<1>3. t \in Tree
  <2>1. Operators(u) \in 0..MaxDepth
    BY <1>1, GrammarAssumption
  <2> QED BY <2>1, NestedIsTree
<1>4. Len(u) \in Nat
  BY <1>1 DEF Texts
<1>5. Stands(u, 1, u)
  BY <1>4 DEF Stands
<1>6. Peek(u, 1 + Len(u)) = "eof"
  BY <1>4 DEF Peek
<1>7. Gives(u, Call("expression", 1), Parsed(t, 1 + Len(u)))
  <2>1. Reads(u, u, t, 1)
    BY <1>1, <1>2
  <2> QED BY <1>1, <1>3, <1>4, <1>5, <1>6, <2>1, ReadsExpression
<1>8. Deepest(u) \in 1..Deepest(u) /\ Deepest(u) >= Fuel(u, Call("expression", 1))
  <2>1. Deepest(u) \in Nat /\ Deepest(u) = 4 * Len(u) + 8
    BY <1>4, DeepestIs
  <2>2. Fuel(u, Call("expression", 1)) = 4 * (Len(u) + 1 - 1) + 4
    BY FuelIs
  <2> QED BY <1>4, <2>1, <2>2
<1>9. Reading(u)[Deepest(u)][Call("expression", 1)] = Parsed(t, Len(u) + 1)
  BY <1>4, <1>7, <1>8 DEF Gives
<1>10. ParseAll(u) = Parsed(t, Len(u) + 1)
  BY <1>1, <1>9, ParsedIs DEF ParseAll
<1>11. ParseAll(u).ok /\ ParseAll(u).tree = t
  BY <1>10, ParsedIs
<1>12. Evaluate(d, t).ok /\ Evaluate(d, t).total = v
  BY <1>2, <1>3, EvaluateValue
<1> QED BY <1>11, <1>12

LEMMA DiceInvReads == DiceInv => ReadsBack
<1> SUFFICES ASSUME DiceInv, phase = "done", result.ok, ~dice.checked,
                    ~(\E t \in Nodes[tree] : Regroups(t) \/ NoDice(t)),
                    NEW text \in {result.sep, result.combined}
             PROVE ReadAs(text).ok /\ ReadAs(text).total = result.total
  BY DEF ReadsBack
<1>1. tree \in Trees /\ tree \in Tree /\ dice \in Expressions /\ ast = Understood(tree)
  BY DiceAssumption DEF DiceInv
<1>2. ast.ok /\ result = Evaluate(dice, ast.tree)
  BY FailedIs DEF DiceInv
<1>3. ast.tree = tree /\ Small(tree)
  BY <1>1, <1>2, UnderstoodIs
<1>4. Plain(tree)
  BY <1>3 DEF Plain
<1>5. result = Evaluate(dice, tree)
  BY <1>2, <1>3
<1>6. Says(dice, text, 1, result.total)
  BY <1>1, <1>4, <1>5, EvaluateSays
<1>7. Operators(text) <= MaxDepth
  <2>1. dice \in [checked : {FALSE}, faces : {"low", "high"}]
    BY <1>1 DEF Expressions
  <2>2. Operators(result.sep) <= MaxDepth /\ Operators(result.combined) <= MaxDepth
    BY <1>1, <1>5, <2>1, RoomAssumption DEF Room
  <2> QED BY <2>2
<1>8. LET x == ParseAll(text) IN x.ok /\ Evaluate(dice, x.tree).ok /\ Evaluate(dice, x.tree).total = result.total
  BY <1>1, <1>6, <1>7, ReadAsSaid
<1> QED BY <1>8 DEF ReadAs

(* dice_expression.cpp:251-259. The explanation adds up: each stage of the *)
(* rendered text, read by the rules of the same grammar, gives the total   *)
(* (but for rolls of no dice and products that lose their brackets).       *)
THEOREM ExplanationAddsUp == DiceSpec => []ReadsBack
BY DiceInvHolds, DiceInvReads, PTL
=============================================================================
