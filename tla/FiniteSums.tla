------------------------------ MODULE FiniteSums ------------------------------
(***************************************************************************)
(* Sums over finite sets, as MapThenSumSet computes them: the facts the     *)
(* proofs about money need.  Nothing here is about one component.           *)
(*                                                                          *)
(* MapThenSumSet takes one member after the other out of the set, in the    *)
(* order CHOOSE gives.  That the recursion is well defined, and that its    *)
(* result does not depend on the order, are inductions over finite sets;    *)
(* they are stated about a set D of sets instead of a predicate, so that    *)
(* every obligation is first order, and rest on the theorem that a non-     *)
(* empty set of natural numbers has a least member.                         *)
(***************************************************************************)
EXTENDS Integers, FiniteSets, FiniteSetsExt, FiniteSetTheorems,
        WellFoundedInduction, TLAPS

-----------------------------------------------------------------------------
(* Induction *)

\* A nonempty set of natural numbers has a least member.
LEMMA LeastNumber ==
    ASSUME NEW T, T \subseteq Nat, T # {}
    PROVE  \E n \in T : \A m \in T : n <= m
  <1> DEFINE R == {ss \in Nat \X Nat : ss[1] < ss[2]}
  <1>1. IsWellFoundedOn(R, Nat)
    BY NatLessThanWellFounded DEF OpToRel
  <1> HIDE DEF R
  <1>2. PICK n \in T : \A m \in T : ~ (<<m, n>> \in R)
    BY <1>1, WFMin
  <1>3. \A m \in T : ~ (m < n)
    <2> TAKE m \in T
    <2>1. <<m, n>> \in Nat \X Nat
      OBVIOUS
    <2> QED BY <1>2, <2>1 DEF R
  <1> QED BY <1>3

\* Induction over the natural numbers, about membership in a set D.
LEMMA NumberInduction ==
    ASSUME NEW D, 0 \in D, \A n \in Nat : n \in D => n + 1 \in D
    PROVE  \A n \in Nat : n \in D
  <1>1. SUFFICES ASSUME NEW k \in Nat, k \notin D PROVE FALSE
    OBVIOUS
  <1>2. Nat \ D \subseteq Nat /\ Nat \ D # {}
    BY <1>1
  <1>3. PICK n \in Nat \ D : \A m \in Nat \ D : n <= m
    BY <1>2, LeastNumber
  <1>4. n # 0 /\ n - 1 \in Nat /\ n - 1 < n
    BY <1>3
  <1> QED BY <1>3, <1>4

\* Induction over the subsets of a finite set: a set is in D if all sets with
\* one member less are.
LEMMA SetInduction ==
    ASSUME NEW S, IsFiniteSet(S), NEW D,
           \A A \in SUBSET S : (\A x \in A : A \ {x} \in D) => A \in D
    PROVE  \A A \in SUBSET S : A \in D
  <1> DEFINE T == {n \in Nat : \E A \in SUBSET S : A \notin D /\ Cardinality(A) = n}
  <1>1. SUFFICES ASSUME NEW B \in SUBSET S, B \notin D PROVE FALSE
    OBVIOUS
  <1>2. \A A \in SUBSET S : IsFiniteSet(A) /\ Cardinality(A) \in Nat
    BY FS_Subset, FS_CardinalityType
  <1>3. T \subseteq Nat /\ T # {}
    BY <1>1, <1>2
  <1>4. PICK n \in T : \A m \in T : n <= m
    <2> HIDE DEF T
    <2> QED BY <1>3, LeastNumber
  <1>5. PICK A \in SUBSET S : A \notin D /\ Cardinality(A) = n
    BY <1>4
  <1>6. PICK x \in A : A \ {x} \notin D
    BY <1>5
  <1>7. Cardinality(A \ {x}) = n - 1
    BY <1>2, <1>5, <1>6, FS_RemoveElement
  <1>8. A \ {x} \in SUBSET S
    BY <1>6
  <1> QED BY <1>2, <1>4, <1>6, <1>7, <1>8

-----------------------------------------------------------------------------
(* The recursion behind MapThenSumSet *)

\* The member that is summed first.
Choice(A) == CHOOSE x \in A : TRUE

\* One unfolding of the recursive function that sums w over the subsets of S.
Body(w, S, f) == [A \in SUBSET S |-> IF A = {} THEN 0 ELSE w[Choice(A)] + f[A \ {Choice(A)}]]

Fold(w, S) == CHOOSE f : f = Body(w, S, f)

\* The sum of the weights w over the members of S.
SumOver(w, S) == MapThenSumSet(LAMBDA x : w[x], S)

\* MapThenSumSet is the recursive function, applied to S.
LEMMA SumIsFold ==
    ASSUME NEW w, NEW S
    PROVE  SumOver(w, S) = Fold(w, S)[S]
  BY DEF SumOver, MapThenSumSet, MapThenFoldSet, Fold, Body, Choice

\* CHOOSE finds a member.
LEMMA ChoiceIn == ASSUME NEW A, A # {} PROVE Choice(A) \in A
  BY DEF Choice

\* The recursion is well defined: by induction on n there is a function that
\* satisfies it on the subsets with n members at most.
LEMMA FoldExists ==
    ASSUME NEW w, NEW S, IsFiniteSet(S)
    PROVE  Fold(w, S) = Body(w, S, Fold(w, S))
  <1> DEFINE L(n) == {B \in SUBSET S : Cardinality(B) <= n}
             Next(n, g) == [B \in L(n) |-> IF B = {} THEN 0
                                           ELSE w[Choice(B)] + g[B \ {Choice(B)}]]
             D == {n \in Nat : \E g : g = Next(n, g)}
  <1>1. \A B \in SUBSET S : IsFiniteSet(B) /\ Cardinality(B) \in Nat
    BY FS_Subset, FS_CardinalityType
  <1>2. \A n \in Nat : \A B \in L(n + 1) : B # {} => B \ {Choice(B)} \in L(n)
    <2> TAKE n \in Nat
    <2> TAKE B \in L(n + 1)
    <2> HAVE B # {}
    <2>1. Choice(B) \in B
      BY ChoiceIn
    <2>2. Cardinality(B \ {Choice(B)}) = Cardinality(B) - 1
      BY <1>1, <2>1, FS_RemoveElement
    <2> QED BY <1>1, <2>2
  <1>3. 0 \in D
    <2>1. L(0) = {{}}
      BY <1>1, FS_EmptySet
    <2>2. Next(0, [B \in {{}} |-> 0]) = [B \in {{}} |-> 0]
      BY <2>1
    <2> QED BY <2>2
  <1>4. ASSUME NEW n \in Nat, n \in D PROVE n + 1 \in D
    <2>1. PICK g : g = Next(n, g)
      BY <1>4
    <2> DEFINE h == Next(n + 1, g)
    <2>2. \A B \in L(n) : B \in L(n + 1)
      BY <1>1
    <2>3. \A B \in L(n) : h[B] = g[B]
      BY <2>1, <2>2
    <2>4. h = Next(n + 1, h)
      <3>1. \A B \in L(n + 1) : B # {} => h[B \ {Choice(B)}] = g[B \ {Choice(B)}]
        BY <1>2, <2>3
      <3> QED BY <3>1
    <2>5. \E f : f = Next(n + 1, f)
      BY <2>4
    <2> HIDE DEF Next
    <2> QED BY <2>5
  <1>5. \A n \in Nat : n \in D
    <2> HIDE DEF D
    <2> QED BY <1>3, <1>4, NumberInduction
  <1>6. Cardinality(S) \in Nat /\ L(Cardinality(S)) = SUBSET S
    BY <1>1, FS_Subset
  <1>7. \E f : f = Body(w, S, f)
    BY <1>5, <1>6 DEF Body
  <1> QED BY <1>7 DEF Fold

\* Two such functions agree wherever their weights do, also when they sum over
\* the subsets of different sets.
LEMMA FoldUnique ==
    ASSUME NEW S, IsFiniteSet(S), NEW v, NEW w, \A x \in S : v[x] = w[x],
           NEW T, S \subseteq T, NEW f, NEW g, f = Body(v, S, f), g = Body(w, T, g)
    PROVE  \A A \in SUBSET S : f[A] = g[A]
  <1> DEFINE D == {A \in SUBSET S : f[A] = g[A]}
  <1>1. ASSUME NEW A \in SUBSET S, \A x \in A : A \ {x} \in D PROVE A \in D
    <2>1. CASE A = {}
      BY <2>1 DEF Body
    <2>2. CASE A # {}
      <3>1. Choice(A) \in A
        BY <2>2, ChoiceIn
      <3>2. f[A \ {Choice(A)}] = g[A \ {Choice(A)}]
        BY <1>1, <3>1
      <3>3. f[A] = v[Choice(A)] + f[A \ {Choice(A)}]
        BY <2>2 DEF Body
      <3>4. A \in SUBSET T
        OBVIOUS
      <3>5. g[A] = w[Choice(A)] + g[A \ {Choice(A)}]
        BY <2>2, <3>4 DEF Body
      <3> QED BY <3>1, <3>2, <3>3, <3>5
    <2> QED BY <2>1, <2>2
  <1>2. \A A \in SUBSET S : A \in D
    <2> HIDE DEF D
    <2> QED BY <1>1, SetInduction
  <1> QED BY <1>2

-----------------------------------------------------------------------------
(* Sums *)

\* Nothing sums to zero.
LEMMA SumEmpty == ASSUME NEW w PROVE SumOver(w, {}) = 0
  <1>1. Fold(w, {}) = Body(w, {}, Fold(w, {}))
    BY FoldExists, FS_EmptySet
  <1>2. Body(w, {}, Fold(w, {}))[{}] = 0
    BY DEF Body
  <1> QED BY <1>1, <1>2, SumIsFold

\* The sum of a set depends on the weights of its members alone.
LEMMA SumSame ==
    ASSUME NEW S, IsFiniteSet(S), NEW v, NEW w, \A x \in S : v[x] = w[x]
    PROVE  SumOver(v, S) = SumOver(w, S)
  <1>1. Fold(v, S) = Body(v, S, Fold(v, S)) /\ Fold(w, S) = Body(w, S, Fold(w, S))
    BY FoldExists
  <1>2. Fold(v, S)[S] = Fold(w, S)[S]
    BY <1>1, FoldUnique
  <1> QED BY <1>2, SumIsFold

\* A sum unfolds at the member summed first.
LEMMA SumStep ==
    ASSUME NEW w, NEW S, IsFiniteSet(S), S # {}
    PROVE  SumOver(w, S) = w[Choice(S)] + SumOver(w, S \ {Choice(S)})
  <1> DEFINE c == Choice(S)
             R == S \ {c}
  <1>1. c \in S /\ IsFiniteSet(R)
    BY ChoiceIn, FS_RemoveElement
  <1>2. Fold(w, S) = Body(w, S, Fold(w, S)) /\ Fold(w, R) = Body(w, R, Fold(w, R))
    BY <1>1, FoldExists
  <1>3. Fold(w, R)[R] = Fold(w, S)[R]
    BY <1>1, <1>2, FoldUnique
  <1>4. Fold(w, S)[S] = w[c] + Fold(w, S)[R]
    BY <1>2 DEF Body
  <1> QED BY <1>3, <1>4, SumIsFold

\* A sum of integers is an integer.
LEMMA SumType ==
    ASSUME NEW S, IsFiniteSet(S), NEW w, \A x \in S : w[x] \in Int
    PROVE  SumOver(w, S) \in Int
  <1> DEFINE D == {A \in SUBSET S : SumOver(w, A) \in Int}
  <1>1. ASSUME NEW A \in SUBSET S, \A x \in A : A \ {x} \in D PROVE A \in D
    <2>1. CASE A = {}
      BY <2>1, SumEmpty
    <2>2. CASE A # {}
      <3>1. Choice(A) \in A /\ IsFiniteSet(A)
        BY <2>2, ChoiceIn, FS_Subset
      <3>2. SumOver(w, A) = w[Choice(A)] + SumOver(w, A \ {Choice(A)})
        BY <2>2, <3>1, SumStep
      <3> QED BY <1>1, <3>1, <3>2
    <2> QED BY <2>1, <2>2
  <1> HIDE DEF D
  <1>2. \A A \in SUBSET S : A \in D
    BY <1>1, SetInduction
  <1> QED BY <1>2 DEF D

\* A sum of natural numbers is one.
LEMMA SumNatural ==
    ASSUME NEW S, IsFiniteSet(S), NEW w, \A x \in S : w[x] \in Nat
    PROVE  SumOver(w, S) \in Nat
  <1> DEFINE D == {A \in SUBSET S : SumOver(w, A) \in Nat}
  <1>1. ASSUME NEW A \in SUBSET S, \A x \in A : A \ {x} \in D PROVE A \in D
    <2>1. CASE A = {}
      BY <2>1, SumEmpty
    <2>2. CASE A # {}
      <3>1. Choice(A) \in A /\ IsFiniteSet(A)
        BY <2>2, ChoiceIn, FS_Subset
      <3>2. SumOver(w, A) = w[Choice(A)] + SumOver(w, A \ {Choice(A)})
        BY <2>2, <3>1, SumStep
      <3> QED BY <1>1, <3>1, <3>2
    <2> QED BY <2>1, <2>2
  <1> HIDE DEF D
  <1>2. \A A \in SUBSET S : A \in D
    BY <1>1, SetInduction
  <1> QED BY <1>2 DEF D

\* A member may be taken out of a sum, whichever it is.
LEMMA SumRemove ==
    ASSUME NEW S, IsFiniteSet(S), NEW w, \A x \in S : w[x] \in Int, NEW a \in S
    PROVE  SumOver(w, S) = w[a] + SumOver(w, S \ {a})
  <1> DEFINE D == {A \in SUBSET S : \A x \in A : SumOver(w, A) = w[x] + SumOver(w, A \ {x})}
  <1>1. ASSUME NEW A \in SUBSET S, \A x \in A : A \ {x} \in D PROVE A \in D
    <2>1. SUFFICES ASSUME NEW x \in A, x # Choice(A)
                   PROVE  SumOver(w, A) = w[x] + SumOver(w, A \ {x})
      BY SumStep, FS_Subset
    <2> DEFINE c == Choice(A)
               B == A \ {c, x}
    <2>2. c \in A /\ IsFiniteSet(A) /\ IsFiniteSet(B)
      BY ChoiceIn, FS_Subset
    <2>3. SumOver(w, A) = w[c] + SumOver(w, A \ {c})
      BY <2>2, SumStep
    <2>4. SumOver(w, A \ {c}) = w[x] + SumOver(w, B)
      <3>1. (A \ {c}) \ {x} = B /\ x \in A \ {c}
        BY <2>1
      <3> QED BY <1>1, <2>2, <3>1
    <2>5. SumOver(w, A \ {x}) = w[c] + SumOver(w, B)
      <3>1. (A \ {x}) \ {c} = B /\ c \in A \ {x}
        BY <2>1, <2>2
      <3> QED BY <1>1, <2>2, <3>1
    <2>6. SumOver(w, B) \in Int
      BY <2>2, SumType
    <2>7. w[x] \in Int /\ w[c] \in Int
      BY <2>2
    <2> HIDE DEF B, c
    <2> QED BY <2>3, <2>4, <2>5, <2>6, <2>7
  <1> HIDE DEF D
  <1>2. \A A \in SUBSET S : A \in D
    BY <1>1, SetInduction
  <1> QED BY <1>2 DEF D

\* A new member adds its weight.
LEMMA SumAdd ==
    ASSUME NEW S, IsFiniteSet(S), NEW a, a \notin S,
           NEW w, \A x \in S \cup {a} : w[x] \in Int
    PROVE  SumOver(w, S \cup {a}) = w[a] + SumOver(w, S)
  <1>1. (S \cup {a}) \ {a} = S /\ IsFiniteSet(S \cup {a})
    BY FS_AddElement
  <1> QED BY <1>1, SumRemove

\* The sum over two disjoint sets.
LEMMA SumUnion ==
    ASSUME NEW S, IsFiniteSet(S), NEW T, IsFiniteSet(T), S \cap T = {},
           NEW w, \A x \in S \cup T : w[x] \in Int
    PROVE  SumOver(w, S \cup T) = SumOver(w, S) + SumOver(w, T)
  <1> DEFINE D == {A \in SUBSET T : SumOver(w, S \cup A) = SumOver(w, S) + SumOver(w, A)}
  <1>1. SumOver(w, S) \in Int
    BY SumType
  <1>2. ASSUME NEW A \in SUBSET T, \A x \in A : A \ {x} \in D PROVE A \in D
    <2>1. CASE A = {}
      BY <1>1, <2>1, SumEmpty
    <2>2. CASE A # {}
      <3>1. PICK a : a \in A
        BY <2>2
      <3> DEFINE B == A \ {a}
      <3>2. IsFiniteSet(A) /\ IsFiniteSet(B) /\ IsFiniteSet(S \cup B) /\ IsFiniteSet(S \cup A)
        BY FS_Subset, FS_Union
      <3>3. (S \cup A) \ {a} = S \cup B
        BY <3>1
      <3>4. SumOver(w, S \cup A) = w[a] + SumOver(w, S \cup B)
        BY <3>1, <3>2, <3>3, SumRemove
      <3>5. SumOver(w, A) = w[a] + SumOver(w, B)
        BY <3>1, <3>2, SumRemove
      <3>6. SumOver(w, S \cup B) = SumOver(w, S) + SumOver(w, B)
        BY <1>2, <3>1
      <3>7. SumOver(w, B) \in Int /\ w[a] \in Int
        BY <3>1, <3>2, SumType
      <3> HIDE DEF B
      <3> QED BY <1>1, <3>4, <3>5, <3>6, <3>7
    <2> QED BY <2>1, <2>2
  <1> HIDE DEF D
  <1>3. \A A \in SUBSET T : A \in D
    BY <1>2, SetInduction
  <1> QED BY <1>3 DEF D

\* More members of natural weight do not make a sum smaller.
LEMMA SumMonotone ==
    ASSUME NEW T, IsFiniteSet(T), NEW S, S \subseteq T,
           NEW w, \A x \in T : w[x] \in Nat
    PROVE  SumOver(w, S) <= SumOver(w, T)
  <1> DEFINE R == T \ S
  <1>1. IsFiniteSet(S) /\ IsFiniteSet(R) /\ S \cup R = T /\ S \cap R = {}
    BY FS_Subset
  <1>2. SumOver(w, T) = SumOver(w, S) + SumOver(w, R)
    <2>1. SumOver(w, S \cup R) = SumOver(w, S) + SumOver(w, R)
      <3> HIDE DEF R
      <3> QED BY <1>1, SumUnion
    <2> QED BY <1>1, <2>1
  <1>3. SumOver(w, S) \in Nat /\ SumOver(w, R) \in Nat
    BY <1>1, SumNatural
  <1> QED BY <1>2, <1>3

-----------------------------------------------------------------------------
(* Sums of the amounts of rows *)

\* What the rows r[i] with i in S add up to.
AmountSum(r, S) == MapThenSumSet(LAMBDA i : r[i].amount, S)

\* AmountSum is a sum of weights.
LEMMA AmountIsSum ==
    ASSUME NEW r, NEW S
    PROVE  AmountSum(r, S) = SumOver([i \in S |-> r[i].amount], S)
  <1> DEFINE v == [i \in S |-> r[i].amount]
             P(f) == f = [A \in SUBSET S |-> IF A = {} THEN 0
                                             ELSE r[Choice(A)].amount + f[A \ {Choice(A)}]]
             Q(f) == f = Body(v, S, f)
  <1>1. AmountSum(r, S) = (CHOOSE f : P(f))[S]
    BY DEF AmountSum, MapThenSumSet, MapThenFoldSet, Choice
  <1>2. SumOver(v, S) = (CHOOSE f : Q(f))[S]
    BY SumIsFold DEF Fold
  <1>3. \A f : P(f) <=> Q(f)
    BY ChoiceIn DEF Body
  <1> HIDE DEF P, Q, v
  <1>4. (CHOOSE f : P(f)) = (CHOOSE f : Q(f))
    BY <1>3
  <1> QED
    BY <1>1, <1>2, <1>4 DEF v

\* Totals of natural amounts grow with the set of rows.
LEMMA AmountMonotone ==
    ASSUME NEW r, NEW T, IsFiniteSet(T), NEW S, S \subseteq T,
           \A i \in T : r[i].amount \in Nat
    PROVE  /\ AmountSum(r, S) <= AmountSum(r, T)
           /\ AmountSum(r, S) \in Nat
           /\ AmountSum(r, T) \in Nat
  <1> DEFINE v == [i \in T |-> r[i].amount]
             u == [i \in S |-> r[i].amount]
  <1>1. IsFiniteSet(S) /\ (\A i \in T : v[i] \in Nat) /\ (\A i \in S : u[i] = v[i])
    BY FS_Subset
  <1>2. AmountSum(r, T) = SumOver(v, T) /\ AmountSum(r, S) = SumOver(u, S)
    BY AmountIsSum
  <1> HIDE DEF v, u
  <1>3. SumOver(u, S) = SumOver(v, S)
    BY <1>1, SumSame
  <1>4. SumOver(v, S) <= SumOver(v, T) /\ SumOver(v, S) \in Nat /\ SumOver(v, T) \in Nat
    BY <1>1, SumMonotone, SumNatural
  <1> QED
    BY <1>2, <1>3, <1>4

\* A total depends on the rows it ranges over alone.
LEMMA AmountSame ==
    ASSUME NEW r, NEW q, NEW S, IsFiniteSet(S), \A i \in S : r[i].amount = q[i].amount
    PROVE  AmountSum(r, S) = AmountSum(q, S)
  <1> DEFINE v == [i \in S |-> r[i].amount]
             u == [i \in S |-> q[i].amount]
  <1>1. \A i \in S : v[i] = u[i]
    OBVIOUS
  <1>2. AmountSum(r, S) = SumOver(v, S) /\ AmountSum(q, S) = SumOver(u, S)
    BY AmountIsSum
  <1> HIDE DEF v, u
  <1> QED
    BY <1>1, <1>2, SumSame

\* One more row adds its amount.
LEMMA AmountAdd ==
    ASSUME NEW r, NEW S, IsFiniteSet(S), NEW n, n \notin S,
           \A i \in S \cup {n} : r[i].amount \in Nat
    PROVE  AmountSum(r, S \cup {n}) = AmountSum(r, S) + r[n].amount
  <1> DEFINE T == S \cup {n}
             v == [i \in T |-> r[i].amount]
             u == [i \in S |-> r[i].amount]
  <1>1. /\ \A i \in T : v[i] \in Int
        /\ \A i \in S : u[i] = v[i]
        /\ v[n] = r[n].amount /\ r[n].amount \in Nat
        /\ \A i \in S : u[i] \in Int
    OBVIOUS
  <1>2. AmountSum(r, T) = SumOver(v, T) /\ AmountSum(r, S) = SumOver(u, S)
    BY AmountIsSum
  <1> HIDE DEF v, u
  <1>3. SumOver(v, T) = v[n] + SumOver(v, S)
    BY <1>1, SumAdd
  <1>4. SumOver(u, S) = SumOver(v, S) /\ SumOver(u, S) \in Int
    BY <1>1, SumSame, SumType
  <1> QED
    BY <1>1, <1>2, <1>3, <1>4

\* The amounts of two disjoint sets of rows.
LEMMA AmountUnion ==
    ASSUME NEW r, NEW S, IsFiniteSet(S), NEW T, IsFiniteSet(T), S \cap T = {},
           \A i \in S \cup T : r[i].amount \in Nat
    PROVE  AmountSum(r, S \cup T) = AmountSum(r, S) + AmountSum(r, T)
  <1> DEFINE B == S \cup T
             v == [i \in B |-> r[i].amount]
             u == [i \in S |-> r[i].amount]
             w == [i \in T |-> r[i].amount]
  <1>1. /\ \A i \in B : v[i] \in Int
        /\ \A i \in S : u[i] = v[i]
        /\ \A i \in T : w[i] = v[i]
    OBVIOUS
  <1>2. /\ AmountSum(r, B) = SumOver(v, B)
        /\ AmountSum(r, S) = SumOver(u, S) /\ AmountSum(r, T) = SumOver(w, T)
    BY AmountIsSum
  <1> HIDE DEF v, u, w
  <1>3. SumOver(v, B) = SumOver(v, S) + SumOver(v, T)
    BY <1>1, SumUnion
  <1>4. SumOver(u, S) = SumOver(v, S) /\ SumOver(w, T) = SumOver(v, T)
    BY <1>1, SumSame
  <1> QED
    BY <1>2, <1>3, <1>4

\* No rows, no amount.
LEMMA AmountEmpty == ASSUME NEW r PROVE AmountSum(r, {}) = 0
  BY AmountIsSum, SumEmpty
=============================================================================
