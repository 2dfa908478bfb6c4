----------------------------- MODULE SumsProofs -----------------------------
(***************************************************************************)
(* What the proofs about ledgers need of a sum: it is a number, it is zero  *)
(* when every term is, no term exceeds it, and changing one term changes it *)
(* by the difference.  Counting the units makes them facts about the        *)
(* cardinality of finite sets, and no induction is needed.                  *)
(***************************************************************************)
EXTENDS Sums, FiniteSetTheorems, TLAPS

(* A member has as many units as its number says. *)
LEMMA UnitsOfOne ==
    ASSUME NEW x, NEW n \in Nat
    PROVE  IsFiniteSet({x} \X (1 .. n)) /\ Cardinality({x} \X (1 .. n)) = n
<1>1. IsFiniteSet({x}) /\ Cardinality({x}) = 1
    BY FS_Singleton
<1>2. IsFiniteSet(1 .. n) /\ Cardinality(1 .. n) = n
    BY FS_Interval
<1>3. /\ IsFiniteSet({x} \X (1 .. n))
      /\ Cardinality({x} \X (1 .. n)) = Cardinality({x}) * Cardinality(1 .. n)
    BY <1>1, <1>2, FS_Product, Zenon
<1> QED  BY <1>1, <1>2, <1>3

(* A finite set has finitely many units. *)
LEMMA UnitsFinite ==
    ASSUME NEW S, IsFiniteSet(S), NEW f, \A x \in S : f[x] \in Nat
    PROVE  IsFiniteSet(Units(f, S))
<1> DEFINE T == {{x} \X (1 .. f[x]) : x \in S}
           g == [x \in S |-> {x} \X (1 .. f[x])]
<1>1. g \in Surjection(S, T)
    BY Zenon DEF Surjection
<1>2. IsFiniteSet(T)
    BY <1>1, FS_Surjection
<1>3. ASSUME NEW U \in T PROVE IsFiniteSet(U)
    <2>1. PICK x \in S : U = {x} \X (1 .. f[x])
        OBVIOUS
    <2>2. f[x] \in Nat
        OBVIOUS
    <2> QED  BY <2>1, <2>2, UnitsOfOne, Zenon
<1> HIDE DEF T
<1>4. IsFiniteSet(UNION T)
    BY <1>2, <1>3, FS_UNION
<1> QED  BY <1>4 DEF T, Units

(* A sum is a number. *)
LEMMA SumIsNat ==
    ASSUME NEW S, IsFiniteSet(S), NEW f, \A x \in S : f[x] \in Nat
    PROVE  SumOf(f, S) \in Nat
    BY UnitsFinite, FS_CardinalityType DEF SumOf

(* A sum is determined by its terms. *)
LEMMA SumSame ==
    ASSUME NEW S, NEW f, NEW g, \A x \in S : g[x] = f[x]
    PROVE  SumOf(g, S) = SumOf(f, S)
<1>1. Units(g, S) = Units(f, S)
    BY DEF Units
<1> QED  BY <1>1 DEF SumOf

(* A sum of zeros is zero. *)
LEMMA SumOfZeros ==
    ASSUME NEW S, NEW f, \A x \in S : f[x] = 0
    PROVE  SumOf(f, S) = 0
<1>1. Units(f, S) = {}
    BY DEF Units
<1> QED  BY <1>1, FS_EmptySet DEF SumOf

(* The units of a set are those of one member and those of the others. *)
LEMMA SumSplits ==
    ASSUME NEW S, IsFiniteSet(S), NEW f, \A y \in S : f[y] \in Nat, NEW x \in S
    PROVE  SumOf(f, S) = SumOf(f, S \ {x}) + f[x]
<1> DEFINE A == Units(f, S \ {x})
           B == {x} \X (1 .. f[x])
<1>1. Units(f, S) = A \cup B
    BY DEF Units
<1>2. A \cap B = {}
    BY DEF Units
<1>3. IsFiniteSet(A)
    BY FS_RemoveElement, UnitsFinite, Zenon
<1>4. IsFiniteSet(B) /\ Cardinality(B) = f[x]
    BY UnitsOfOne, Zenon
<1> HIDE DEF A, B
<1>5. Cardinality(A \cup B) = Cardinality(A) + Cardinality(B) - Cardinality(A \cap B)
    BY <1>3, <1>4, FS_Union
<1>6. Cardinality(A \cap B) = 0 /\ Cardinality(A) \in Nat
    BY <1>2, <1>3, FS_EmptySet, FS_CardinalityType
<1>7. SumOf(f, S) = Cardinality(A) + f[x]
    BY <1>1, <1>4, <1>5, <1>6 DEF SumOf
<1> QED  BY <1>7 DEF A, SumOf

(* Changing one term changes the sum by the difference. *)
LEMMA SumChange ==
    ASSUME NEW S, IsFiniteSet(S), NEW x \in S,
           NEW f, \A y \in S : f[y] \in Nat,
           NEW g, \A y \in S : g[y] \in Nat,
           \A y \in S \ {x} : g[y] = f[y]
    PROVE  SumOf(g, S) = SumOf(f, S) - f[x] + g[x]
<1>1. SumOf(f, S) = SumOf(f, S \ {x}) + f[x] /\ SumOf(g, S) = SumOf(g, S \ {x}) + g[x]
    BY SumSplits
<1>2. SumOf(g, S \ {x}) = SumOf(f, S \ {x})
    BY SumSame
<1>3. SumOf(f, S \ {x}) \in Nat
    BY FS_RemoveElement, SumIsNat, Zenon
<1> QED  BY <1>1, <1>2, <1>3

(* Changing two terms changes the sum by both differences. *)
LEMMA SumChangeTwo ==
    ASSUME NEW S, IsFiniteSet(S), NEW x \in S, NEW y \in S, x # y,
           NEW f, \A z \in S : f[z] \in Nat,
           NEW g, \A z \in S : g[z] \in Nat,
           \A z \in S \ {x, y} : g[z] = f[z]
    PROVE  SumOf(g, S) = SumOf(f, S) - f[x] + g[x] - f[y] + g[y]
<1> DEFINE h == [z \in S |-> IF z = x THEN g[x] ELSE f[z]]
<1>1. \A z \in S : h[z] \in Nat
    OBVIOUS
<1>2. (\A z \in S \ {x} : h[z] = f[z]) /\ h[x] = g[x]
    OBVIOUS
<1>3. (\A z \in S \ {y} : g[z] = h[z]) /\ h[y] = f[y]
    OBVIOUS
<1> HIDE DEF h
<1>4. SumOf(h, S) = SumOf(f, S) - f[x] + g[x]
    BY <1>1, <1>2, SumChange
<1>5. SumOf(g, S) = SumOf(h, S) - f[y] + g[y]
    BY <1>1, <1>3, SumChange
<1>6. SumOf(f, S) \in Nat
    BY SumIsNat
<1> QED  BY <1>4, <1>5, <1>6

(* No term exceeds the sum. *)
LEMMA SumBoundsTerm ==
    ASSUME NEW S, IsFiniteSet(S), NEW f, \A y \in S : f[y] \in Nat, NEW x \in S
    PROVE  f[x] <= SumOf(f, S)
<1>1. SumOf(f, S \ {x}) \in Nat
    BY FS_RemoveElement, SumIsNat, Zenon
<1> QED  BY <1>1, SumSplits

(* And at least any two of them. *)
LEMMA SumBoundsTwo ==
    ASSUME NEW S, IsFiniteSet(S), NEW f, \A z \in S : f[z] \in Nat,
           NEW x \in S, NEW y \in S, x # y
    PROVE  f[x] + f[y] <= SumOf(f, S)
<1>1. IsFiniteSet(S \ {x}) /\ y \in S \ {x}
    BY FS_RemoveElement
<1>2. f[y] <= SumOf(f, S \ {x})
    BY <1>1, SumBoundsTerm
<1>3. SumOf(f, S \ {x}) \in Nat
    BY <1>1, SumIsNat
<1> QED  BY <1>2, <1>3, SumSplits
=============================================================================
