---------------------------- MODULE SumTheorems ----------------------------
(***************************************************************************)
(* Sums over a finite set, as MapThenSumSet computes them: when they are   *)
(* integers, that any element can be taken out, and what a change of one   *)
(* value does to them.  MapThenSumSet is built on a function defined by    *)
(* recursion over the subsets of the set, so the first thing to show is    *)
(* that there is one such function and no other.  Induction over a finite  *)
(* set goes through the set Good of the subsets that have the property.    *)
(***************************************************************************)
EXTENDS Integers, FiniteSets, FiniteSetsExt, FiniteSetTheorems, TLAPS

\* The sum of the values that f has on S.
SumOver(f, S) == MapThenSumSet(LAMBDA x : f[x], S)

\* The element that the sum takes out first.
First(s) == CHOOSE x \in s : TRUE

\* g is the recursive function behind SumOver(f, S).
IsSums(g, f, S) ==
    g = [s \in SUBSET S |-> IF s = {} THEN 0 ELSE f[First(s)] + g[s \ {First(s)}]]

\* Among sets of finite sets there is one without a smaller one in it.
LEMMA SmallestSet ==
    ASSUME NEW S, IsFiniteSet(S), NEW T, T \subseteq SUBSET S, T # {}
    PROVE  \E W \in T : \A V \in T : V \subseteq W => V = W
    <1> DEFINE R == StrictSubsetOrdering(S)
    <1>1. IsWellFoundedOn(R, FiniteSubsetsOf(S))
        BY FS_StrictSubsetOrderingWellFounded
    <1>2. T \subseteq FiniteSubsetsOf(S)
        BY FS_FiniteSubsetsOfFinite
    <1>3. PICK W \in T : \A V \in T : ~(<<V, W>> \in R)
        BY <1>1, <1>2, WFMin
    <1>. QED
        BY <1>3 DEF StrictSubsetOrdering

\* What the community module's sum computes, in terms of IsSums.
LEMMA SumOverIsSums ==
    ASSUME NEW f, NEW S
    PROVE  SumOver(f, S) = (CHOOSE g : IsSums(g, f, S))[S]
    BY DEF SumOver, MapThenSumSet, MapThenFoldSet, IsSums, First

\* The chosen element is one.
LEMMA FirstFact == \A s : s # {} => First(s) \in s
    BY DEF First

\* A solution for a set is one for each of its subsets, and solutions agree.
LEMMA SumsUnique ==
    ASSUME NEW f, NEW S, IsFiniteSet(S), NEW U \in SUBSET S,
           NEW g, IsSums(g, f, S), NEW h, IsSums(h, f, U)
    PROVE  \A s \in SUBSET U : g[s] = h[s]
    <1> DEFINE T == {s \in SUBSET U : g[s] # h[s]}
    <1>1. SUFFICES ASSUME T # {} PROVE FALSE
        OBVIOUS
    <1>2. IsFiniteSet(U) /\ T \subseteq SUBSET U
        BY FS_Subset
    <1>3. \E W \in T : \A V \in T : V \subseteq W => V = W
        <2> HIDE DEF T
        <2>. QED
            BY <1>1, <1>2, SmallestSet
    <1>4. PICK W \in T : \A V \in T : V \subseteq W => V = W
        BY <1>3
    <1>5. /\ g[W] = IF W = {} THEN 0 ELSE f[First(W)] + g[W \ {First(W)}]
          /\ h[W] = IF W = {} THEN 0 ELSE f[First(W)] + h[W \ {First(W)}]
        BY W \in SUBSET S DEF IsSums
    <1>6. W # {} /\ g[W \ {First(W)}] # h[W \ {First(W)}]
        BY <1>5
    <1>7. W \ {First(W)} \in T
        BY <1>6
    <1>. QED
        BY <1>4, <1>6, <1>7, FirstFact

\* Every finite set has a solution.
LEMMA SumsExist ==
    ASSUME NEW f, NEW S, IsFiniteSet(S)
    PROVE  \E g : IsSums(g, f, S)
    <1> DEFINE T == {U \in SUBSET S : ~ \E g : IsSums(g, f, U)}
    <1>1. SUFFICES ASSUME T # {} PROVE FALSE
        OBVIOUS
    <1>2. \E W \in T : \A V \in T : V \subseteq W => V = W
        <2>1. T \subseteq SUBSET S
            OBVIOUS
        <2> HIDE DEF T
        <2>. QED
            BY <1>1, <2>1, SmallestSet
    <1>3. PICK W \in T : \A V \in T : V \subseteq W => V = W
        BY <1>2
    <1> DEFINE Val(U) == (CHOOSE h : IsSums(h, f, U))[U]
               g == [U \in SUBSET W |->
                        IF U = {} THEN 0 ELSE f[First(U)] + Val(U \ {First(U)})]
    <1>4. ASSUME NEW U \in SUBSET W, U # W
          PROVE  Val(U) = g[U]
        <2> DEFINE h == CHOOSE h : IsSums(h, f, U)
        <2>1. IsSums(h, f, U)
            BY <1>3, <1>4
        <2>2. CASE U = {}
            BY <2>1, <2>2 DEF IsSums
        <2>3. CASE U # {}
            <3> DEFINE P == U \ {First(U)}
                       k == CHOOSE k : IsSums(k, f, P)
            <3>1. P \in SUBSET W /\ P # W
                BY <1>4, FirstFact, <2>3
            <3>2. IsSums(k, f, P)
                BY <1>3, <3>1
            <3>3. h[U] = f[First(U)] + h[P]
                BY <2>1, <2>3 DEF IsSums
            <3>4. IsFiniteSet(U) /\ P \in SUBSET U
                BY FS_Subset
            <3>5. h[P] = k[P]
                BY <2>1, <3>2, <3>4, SumsUnique
            <3>. QED
                BY <3>3, <3>5, <2>3
        <2>. QED
            BY <2>2, <2>3
    <1>5. IsSums(g, f, W)
        <2>0. SUFFICES \A U \in SUBSET W :
                 g[U] = IF U = {} THEN 0 ELSE f[First(U)] + g[U \ {First(U)}]
            <3> HIDE DEF Val, T
            <3>. QED
                BY DEF IsSums
        <2> SUFFICES ASSUME NEW U \in SUBSET W
                     PROVE  g[U] = IF U = {} THEN 0 ELSE f[First(U)] + g[U \ {First(U)}]
            OBVIOUS
        <2>1. CASE U = {}
            BY <2>1
        <2>2. CASE U # {}
            <3>1. U \ {First(U)} \in SUBSET W /\ U \ {First(U)} # W
                BY <2>2, FirstFact
            <3>2. Val(U \ {First(U)}) = g[U \ {First(U)}]
                <4> HIDE DEF Val, g
                <4>. QED
                    BY <3>1, <1>4
            <3>3. g[U] = f[First(U)] + Val(U \ {First(U)})
                <4> HIDE DEF Val, T
                <4>. QED
                    BY <2>2
            <3>. QED
                BY <3>2, <3>3, <2>2
        <2>. QED
            BY <2>1, <2>2
    <1>. QED
        BY <1>5

\* The equation of the sum.
LEMMA SumEquation ==
    ASSUME NEW f, NEW S, IsFiniteSet(S), S # {}
    PROVE  SumOver(f, S) = f[First(S)] + SumOver(f, S \ {First(S)})
    <1> DEFINE P == S \ {First(S)}
               g == CHOOSE g : IsSums(g, f, S)
               h == CHOOSE h : IsSums(h, f, P)
    <1>1. IsFiniteSet(P) /\ P \in SUBSET S
        BY FS_Subset
    <1>2. IsSums(g, f, S) /\ IsSums(h, f, P)
        BY <1>1, SumsExist
    <1>3. SumOver(f, S) = g[S] /\ SumOver(f, P) = h[P]
        BY SumOverIsSums
    <1> HIDE DEF g, h
    <1>4. g[P] = h[P]
        <2>1. P \in SUBSET P
            OBVIOUS
        <2> HIDE DEF P
        <2>. QED
            BY <1>1, <1>2, <2>1, SumsUnique
    <1>5. g[S] = f[First(S)] + g[P]
        BY <1>2 DEF IsSums
    <1>. QED
        BY <1>3, <1>4, <1>5

\* Nothing sums to 0.
LEMMA SumEmpty ==
    ASSUME NEW f
    PROVE  SumOver(f, {}) = 0
    <1>1. PICK g : IsSums(g, f, {})
        BY SumsExist, FS_EmptySet
    <1> DEFINE h == CHOOSE h : IsSums(h, f, {})
    <1>2. IsSums(h, f, {})
        BY <1>1
    <1>3. h[{}] = 0
        BY <1>2 DEF IsSums
    <1>. QED
        BY <1>3, SumOverIsSums

\* The elements of a finite set can be taken one by one: what holds of the
\* empty set and, when it holds of S without any one of its elements, of S, holds of
\* every subset of F.  Good is the set of the subsets of which it holds.
LEMMA OneByOne ==
    ASSUME NEW F, IsFiniteSet(F), NEW Good, {} \in Good,
           \A S \in SUBSET F : S # {} /\ (\A x \in S : S \ {x} \in Good) => S \in Good
    PROVE  \A S \in SUBSET F : S \in Good
    <1> DEFINE T == (SUBSET F) \ Good
    <1>1. SUFFICES ASSUME T # {} PROVE FALSE
        OBVIOUS
    <1>2. \E W \in T : \A V \in T : V \subseteq W => V = W
        <2>1. T \subseteq SUBSET F
            OBVIOUS
        <2> HIDE DEF T
        <2>. QED
            BY <1>1, <2>1, SmallestSet
    <1>3. PICK W \in T : \A V \in T : V \subseteq W => V = W
        BY <1>2
    <1>4. W # {}
        OBVIOUS
    <1>5. \A x \in W : W \ {x} \in Good
        BY <1>3
    <1>. QED
        BY <1>4, <1>5

\* A finite set of integers that is not empty has a largest element.
LEMMA MaxInSet ==
    ASSUME NEW F, IsFiniteSet(F), F \subseteq Int, F # {}
    PROVE  Max(F) \in F /\ \A y \in F : Max(F) >= y
    <1> DEFINE Good == {S \in SUBSET F : S # {} => \E x \in S : \A y \in S : x >= y}
    <1>1. {} \in Good
        OBVIOUS
    <1>2. ASSUME NEW S \in SUBSET F, S # {}, \A x \in S : S \ {x} \in Good
          PROVE  S \in Good
        <2>1. PICK z \in S : S \ {z} \in Good
            BY <1>2
        <2>2. CASE S \ {z} = {}
            BY <2>2
        <2>3. CASE S \ {z} # {}
            <3>1. PICK x \in S \ {z} : \A y \in S \ {z} : x >= y
                BY <2>1, <2>3
            <3>2. \E u \in {x, z} : \A y \in S : u >= y
                BY <3>1
            <3>. QED
                BY <3>2
        <2>. QED
            BY <2>2, <2>3
    <1>3. \A S \in SUBSET F : S \in Good
        <2> HIDE DEF Good
        <2>. QED
            BY <1>1, <1>2, OneByOne
    <1>4. \E x \in F : \A y \in F : x >= y
        BY <1>3
    <1>. QED
        BY <1>4 DEF Max

\* Sums of integers are integers.
LEMMA SumType ==
    ASSUME NEW f, NEW F, IsFiniteSet(F), \A x \in F : f[x] \in Int
    PROVE  \A S \in SUBSET F : SumOver(f, S) \in Int
    <1> DEFINE Good == {S \in SUBSET F : SumOver(f, S) \in Int}
    <1>1. {} \in Good
        BY SumEmpty
    <1>2. ASSUME NEW S \in SUBSET F, S # {}, \A x \in S : S \ {x} \in Good
          PROVE  S \in Good
        <2>1. IsFiniteSet(S)
            BY FS_Subset
        <2>2. SumOver(f, S) = f[First(S)] + SumOver(f, S \ {First(S)})
            BY <2>1, <1>2, SumEquation
        <2>3. First(S) \in S
            BY <1>2, FirstFact
        <2>. QED
            BY <2>2, <2>3, <1>2
    <1>3. \A S \in SUBSET F : S \in Good
        <2> HIDE DEF Good
        <2>. QED
            BY <1>1, <1>2, OneByOne
    <1>. QED
        BY <1>3

\* A sum of zeros is zero.
LEMMA SumZero ==
    ASSUME NEW f, NEW F, IsFiniteSet(F), \A x \in F : f[x] = 0
    PROVE  SumOver(f, F) = 0
    <1> DEFINE Good == {S \in SUBSET F : SumOver(f, S) = 0}
    <1>1. {} \in Good
        BY SumEmpty
    <1>2. ASSUME NEW S \in SUBSET F, S # {}, \A x \in S : S \ {x} \in Good
          PROVE  S \in Good
        <2>1. IsFiniteSet(S)
            BY FS_Subset
        <2>2. SumOver(f, S) = f[First(S)] + SumOver(f, S \ {First(S)})
            BY <2>1, <1>2, SumEquation
        <2>3. First(S) \in S
            BY <1>2, FirstFact
        <2>. QED
            BY <2>2, <2>3, <1>2
    <1>3. \A S \in SUBSET F : S \in Good
        <2> HIDE DEF Good
        <2>. QED
            BY <1>1, <1>2, OneByOne
    <1>. QED
        BY <1>3

\* Sums of natural numbers are natural numbers.
LEMMA SumNat ==
    ASSUME NEW f, NEW F, IsFiniteSet(F), \A x \in F : f[x] \in Nat
    PROVE  \A S \in SUBSET F : SumOver(f, S) \in Nat
    <1> DEFINE Good == {S \in SUBSET F : SumOver(f, S) \in Nat}
    <1>1. {} \in Good
        BY SumEmpty
    <1>2. ASSUME NEW S \in SUBSET F, S # {}, \A x \in S : S \ {x} \in Good
          PROVE  S \in Good
        <2>1. IsFiniteSet(S)
            BY FS_Subset
        <2>2. SumOver(f, S) = f[First(S)] + SumOver(f, S \ {First(S)})
            BY <2>1, <1>2, SumEquation
        <2>3. First(S) \in S
            BY <1>2, FirstFact
        <2>. QED
            BY <2>2, <2>3, <1>2
    <1>3. \A S \in SUBSET F : S \in Good
        <2> HIDE DEF Good
        <2>. QED
            BY <1>1, <1>2, OneByOne
    <1>. QED
        BY <1>3

\* Any element can be taken out first.
LEMMA SumTakeOut ==
    ASSUME NEW f, NEW F, IsFiniteSet(F), \A x \in F : f[x] \in Int
    PROVE  \A S \in SUBSET F : \A x \in S : SumOver(f, S) = f[x] + SumOver(f, S \ {x})
    <1> DEFINE Good == {S \in SUBSET F : \A x \in S : SumOver(f, S) = f[x] + SumOver(f, S \ {x})}
    <1>1. {} \in Good
        OBVIOUS
    <1>2. ASSUME NEW S \in SUBSET F, S # {}, \A x \in S : S \ {x} \in Good
          PROVE  S \in Good
        <2> SUFFICES ASSUME NEW x \in S
                     PROVE  SumOver(f, S) = f[x] + SumOver(f, S \ {x})
            OBVIOUS
        <2> DEFINE c == First(S)
        <2>1. IsFiniteSet(S) /\ IsFiniteSet(S \ {x})
            BY FS_Subset
        <2>2. SumOver(f, S) = f[c] + SumOver(f, S \ {c})
            BY <2>1, <1>2, SumEquation
        <2>3. c \in S
            BY <1>2, FirstFact
        <2> HIDE DEF c
        <2>4. CASE x = c
            BY <2>2, <2>4
        <2>5. CASE x # c
            <3>1. SumOver(f, S \ {c}) = f[x] + SumOver(f, (S \ {x}) \ {c})
                <4>1. (S \ {c}) \ {x} = (S \ {x}) \ {c}
                    OBVIOUS
                <4>. QED
                    BY <1>2, <2>3, <2>5, <4>1
            <3>2. SumOver(f, S \ {x}) = f[c] + SumOver(f, (S \ {x}) \ {c})
                BY <1>2, <2>3, <2>5
            <3>3. f[c] \in Int /\ f[x] \in Int /\ SumOver(f, (S \ {x}) \ {c}) \in Int
                BY <2>3, SumType
            <3>. QED
                BY <2>2, <3>1, <3>2, <3>3
        <2>. QED
            BY <2>4, <2>5
    <1>3. \A S \in SUBSET F : S \in Good
        <2> HIDE DEF Good
        <2>. QED
            BY <1>1, <1>2, OneByOne
    <1>. QED
        BY <1>3

\* More elements make a sum of natural numbers no smaller.
LEMMA SumGrows ==
    ASSUME NEW f, NEW F, IsFiniteSet(F), \A x \in F : f[x] \in Nat, NEW S \in SUBSET F
    PROVE  SumOver(f, S) <= SumOver(f, F)
    <1> DEFINE Good == {T \in SUBSET F : SumOver(f, S \cap T) <= SumOver(f, T)}
    <1>1. {} \in Good
        BY SumEmpty
    <1>2. ASSUME NEW T \in SUBSET F, T # {}, \A x \in T : T \ {x} \in Good
          PROVE  T \in Good
        <2>1. PICK x \in T : TRUE
            BY <1>2
        <2>2. SumOver(f, T) = f[x] + SumOver(f, T \ {x})
            BY SumTakeOut
        <2>3. SumOver(f, S \cap T) = IF x \in S THEN f[x] + SumOver(f, S \cap (T \ {x}))
                                              ELSE SumOver(f, S \cap (T \ {x}))
            <3>1. CASE x \in S
                <4>1. (S \cap T) \ {x} = S \cap (T \ {x}) /\ x \in S \cap T /\ S \cap T \in SUBSET F
                    BY <3>1
                <4>2. SumOver(f, S \cap T) = f[x] + SumOver(f, (S \cap T) \ {x})
                    BY <4>1, SumTakeOut
                <4>. QED
                    BY <3>1, <4>1, <4>2
            <3>2. CASE x \notin S
                <4>1. S \cap T = S \cap (T \ {x})
                    BY <3>2
                <4>. QED
                    BY <3>2, <4>1
            <3>. QED
                BY <3>1, <3>2
        <2>4. /\ f[x] \in Nat /\ SumOver(f, T \ {x}) \in Nat
              /\ SumOver(f, S \cap (T \ {x})) \in Nat
            BY SumNat
        <2>5. SumOver(f, S \cap (T \ {x})) <= SumOver(f, T \ {x})
            BY <1>2
        <2>6. SumOver(f, S \cap T) <= SumOver(f, T)
            BY <2>2, <2>3, <2>4, <2>5
        <2>. QED
            BY <2>6
    <1>3. \A T \in SUBSET F : T \in Good
        <2> HIDE DEF Good
        <2>. QED
            BY <1>1, <1>2, OneByOne
    <1>4. S \cap F = S
        OBVIOUS
    <1>. QED
        BY <1>3, <1>4

\* Functions that agree on a set have the same sum over it.
LEMMA SumAgree ==
    ASSUME NEW f, NEW g, NEW F, IsFiniteSet(F), \A x \in F : f[x] = g[x]
    PROVE  SumOver(f, F) = SumOver(g, F)
    <1> DEFINE Good == {S \in SUBSET F : SumOver(f, S) = SumOver(g, S)}
    <1>1. {} \in Good
        BY SumEmpty
    <1>2. ASSUME NEW S \in SUBSET F, S # {}, \A x \in S : S \ {x} \in Good
          PROVE  S \in Good
        <2>1. IsFiniteSet(S)
            BY FS_Subset
        <2>2. /\ SumOver(f, S) = f[First(S)] + SumOver(f, S \ {First(S)})
              /\ SumOver(g, S) = g[First(S)] + SumOver(g, S \ {First(S)})
            BY <2>1, <1>2, SumEquation
        <2>3. First(S) \in S
            BY <1>2, FirstFact
        <2>. QED
            BY <2>2, <2>3, <1>2
    <1>3. \A S \in SUBSET F : S \in Good
        <2> HIDE DEF Good
        <2>. QED
            BY <1>1, <1>2, OneByOne
    <1>. QED
        BY <1>3

\* A sum over a part is the sum over the whole of what is zero elsewhere.
LEMMA SumWithin ==
    ASSUME NEW f, NEW F, IsFiniteSet(F), \A x \in F : f[x] \in Int, NEW S \in SUBSET F
    PROVE  SumOver(f, S) = SumOver([x \in F |-> IF x \in S THEN f[x] ELSE 0], F)
    <1> DEFINE g == [x \in F |-> IF x \in S THEN f[x] ELSE 0]
               Good == {T \in SUBSET F : SumOver(f, S \cap T) = SumOver(g, T)}
    <1>0. \A x \in F : g[x] = IF x \in S THEN f[x] ELSE 0
        OBVIOUS
    <1> HIDE DEF g
    <1>1. {} \in Good
        BY SumEmpty
    <1>2. ASSUME NEW T \in SUBSET F, T # {}, \A x \in T : T \ {x} \in Good
          PROVE  T \in Good
        <2>1. PICK x \in T : TRUE
            BY <1>2
        <2>2. SumOver(g, T) = g[x] + SumOver(g, T \ {x})
            <3>1. \A y \in F : g[y] \in Int
                BY <1>0
            <3>. QED
                BY <3>1, SumTakeOut
        <2>3. SumOver(f, S \cap T) = IF x \in S THEN f[x] + SumOver(f, S \cap (T \ {x}))
                                              ELSE SumOver(f, S \cap (T \ {x}))
            <3>1. CASE x \in S
                <4>1. (S \cap T) \ {x} = S \cap (T \ {x}) /\ x \in S \cap T /\ S \cap T \in SUBSET F
                    BY <3>1
                <4>2. SumOver(f, S \cap T) = f[x] + SumOver(f, (S \cap T) \ {x})
                    BY <4>1, SumTakeOut
                <4>. QED
                    BY <3>1, <4>1, <4>2
            <3>2. CASE x \notin S
                <4>1. S \cap T = S \cap (T \ {x})
                    BY <3>2
                <4>. QED
                    BY <3>2, <4>1
            <3>. QED
                BY <3>1, <3>2
        <2>4. f[x] \in Int /\ SumOver(f, S \cap (T \ {x})) \in Int
            BY SumType
        <2>5. SumOver(f, S \cap (T \ {x})) = SumOver(g, T \ {x})
            BY <1>2
        <2>6. SumOver(f, S \cap T) = SumOver(g, T)
            BY <1>0, <2>2, <2>3, <2>4, <2>5
        <2>. QED
            BY <2>6
    <1>3. \A T \in SUBSET F : T \in Good
        <2> HIDE DEF Good
        <2>. QED
            BY <1>1, <1>2, OneByOne
    <1>4. S \cap F = S
        OBVIOUS
    <1>. QED
        BY <1>3, <1>4 DEF g

\* A function that changes at one element changes the sum by as much.
LEMMA SumMoved ==
    ASSUME NEW f, NEW g, NEW S, IsFiniteSet(S), NEW y, NEW d \in Int,
           \A x \in S : f[x] \in Int /\ g[x] = IF x = y THEN f[x] + d ELSE f[x]
    PROVE  SumOver(g, S) = IF y \in S THEN SumOver(f, S) + d ELSE SumOver(f, S)
    <1>1. CASE y \notin S
        BY <1>1, SumAgree
    <1>2. CASE y \in S
        <2>1. IsFiniteSet(S \ {y})
            BY FS_Subset
        <2>2. SumOver(f, S \ {y}) = SumOver(g, S \ {y})
            BY <2>1, SumAgree
        <2>3. SumOver(f, S) = f[y] + SumOver(f, S \ {y})
            BY <1>2, SumTakeOut
        <2>4. SumOver(g, S) = g[y] + SumOver(g, S \ {y})
            <3>1. \A x \in S : g[x] \in Int
                OBVIOUS
            <3>. QED
                BY <1>2, <3>1, SumTakeOut
        <2>5. SumOver(f, S \ {y}) \in Int
            BY SumType
        <2>. QED
            BY <1>2, <2>2, <2>3, <2>4, <2>5
    <1>. QED
        BY <1>1, <1>2

\* The sum of the differences of two functions is the sum of the function
\* that has their differences.
LEMMA SumOfDifferences ==
    ASSUME NEW f, NEW g, NEW S
    PROVE  MapThenSumSet(LAMBDA x : f[x] - g[x], S) = SumOver([x \in S |-> f[x] - g[x]], S)
    <1> DEFINE A(h) == h = [s \in SUBSET S |-> IF s = {} THEN 0
                  ELSE (f[CHOOSE x \in s : TRUE] - g[CHOOSE x \in s : TRUE]) + h[s \ {CHOOSE x \in s : TRUE}]]
               d == [x \in S |-> f[x] - g[x]]
    <1>1. \A h : A(h) <=> IsSums(h, d, S)
        <2>1. \A s \in SUBSET S : s # {} => d[CHOOSE x \in s : TRUE] = f[CHOOSE x \in s : TRUE] - g[CHOOSE x \in s : TRUE]
            BY FirstFact DEF First
        <2> HIDE DEF d
        <2>. QED
            BY <2>1 DEF IsSums, First
    <1>2. (CHOOSE h : A(h)) = (CHOOSE h : IsSums(h, d, S))
        <2> HIDE DEF A, d
        <2>. QED
            BY <1>1
    <1>3. MapThenSumSet(LAMBDA x : f[x] - g[x], S) = (CHOOSE h : A(h))[S]
        BY DEF MapThenSumSet, MapThenFoldSet
    <1>. QED
        BY <1>2, <1>3, SumOverIsSums

=============================================================================
