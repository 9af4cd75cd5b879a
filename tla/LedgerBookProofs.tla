-------------------------- MODULE LedgerBookProofs --------------------------
(***************************************************************************)
(* What the proofs about the modules that move money share: the laws of    *)
(* sums over finite sets, and what one posting does to the book, for every *)
(* set of users, sources and amounts.  The proofs cite these lemmas        *)
(* instead of expanding SumFunctionOnSet or Post.                          *)
(***************************************************************************)
EXTENDS LedgerBook, Functions, FiniteSetTheorems, TLAPS

(* A nonempty set of naturals has a least element. *)
LEMMA LeastNumber ==
    ASSUME NEW C, C \subseteq Nat, C # {}
    PROVE  \E c \in C : \A d \in C : c <= d
<1>1. PICK c \in C : \A d \in C : ~ (<<d, c>> \in OpToRel(<, Nat))
  BY NatLessThanWellFounded, WFMin
<1>2. \A d \in C : ~(d < c)
  BY <1>1 DEF OpToRel
<1> QED
  BY <1>2

(***************************************************************************)
(* Induction, with the set of good numbers or of good sets in place of a   *)
(* predicate.                                                              *)
(***************************************************************************)
LEMMA NumberInduction ==
    ASSUME NEW Good, 0 \in Good, \A n \in Nat : n \in Good => n + 1 \in Good
    PROVE  Nat \subseteq Good
<1> DEFINE Bad == Nat \ Good
<1> SUFFICES ASSUME Bad # {} PROVE FALSE
  OBVIOUS
<1>1. PICK n \in Bad : \A m \in Bad : n <= m
  <2>1. Bad \subseteq Nat
    OBVIOUS
  <2> HIDE DEF Bad
  <2> QED
    BY <2>1, LeastNumber
<1>2. n # 0 /\ n \in Nat
  BY <1>1
<1>3. n - 1 \in Nat /\ ~(n <= n - 1)
  BY <1>2
<1>4. n - 1 \in Good
  BY <1>1, <1>3
<1>5. (n - 1) + 1 \in Good
  BY <1>3, <1>4
<1> QED
  BY <1>1, <1>2, <1>5

(* From the sets with one element less to the set itself. *)
LEMMA SetInduction ==
    ASSUME NEW S, IsFiniteSet(S), NEW Good,
           \A s \in SUBSET S : (\A x \in s : s \ {x} \in Good) => s \in Good
    PROVE  SUBSET S \subseteq Good
<1> DEFINE Sized == {n \in Nat : \A s \in SUBSET S : Cardinality(s) = n => s \in Good}
<1>1. \A s \in SUBSET S : IsFiniteSet(s) /\ Cardinality(s) \in Nat
  BY FS_Subset, FS_CardinalityType
<1>2. 0 \in Sized
  <2> SUFFICES ASSUME NEW s \in SUBSET S, Cardinality(s) = 0 PROVE s \in Good
    OBVIOUS
  <2>1. s = {}
    BY <1>1, FS_EmptySet
  <2> QED
    BY <2>1
<1>3. ASSUME NEW n \in Nat, n \in Sized PROVE n + 1 \in Sized
  <2> SUFFICES ASSUME NEW s \in SUBSET S, Cardinality(s) = n + 1 PROVE s \in Good
    OBVIOUS
  <2>1. ASSUME NEW x \in s PROVE s \ {x} \in Good
    <3>1. Cardinality(s \ {x}) = Cardinality(s) - 1
      BY <1>1, FS_RemoveElement
    <3>2. Cardinality(s \ {x}) = n
      BY <3>1
    <3> QED
      BY <1>3, <3>2
  <2> QED
    BY <2>1
<1>4. Nat \subseteq Sized
  <2> HIDE DEF Sized
  <2> QED
    BY <1>2, <1>3, NumberInduction
<1> QED
  BY <1>1, <1>4

(***************************************************************************)
(* Sums over a finite set.  SumFunctionOnSet takes one element after the   *)
(* other, in the order CHOOSE gives; first, that this is well defined.     *)
(***************************************************************************)
ElementOf(s) == CHOOSE x \in s : TRUE

Partial(f, s, g) ==
    IF s = {} THEN 0 ELSE f[ElementOf(s)] + g[s \ {ElementOf(s)}]

SumsOf(f, S) == CHOOSE g : g = [s \in SUBSET S |-> Partial(f, s, g)]

(* The library's definition, unfolded. *)
LEMMA SumIsLast ==
    ASSUME NEW f, NEW S PROVE SumFunctionOnSet(f, S) = SumsOf(f, S)[S]
BY DEF SumFunctionOnSet, FoldFunctionOnSet, MapThenFoldSet, SumsOf, Partial, ElementOf

(* The recursive function of partial sums exists, level by level. *)
LEMMA SumsExist ==
    ASSUME NEW f, NEW S, IsFiniteSet(S)
    PROVE  \E g : g = [s \in SUBSET S |-> Partial(f, s, g)]
<1> DEFINE Small(n) == {s \in SUBSET S : Cardinality(s) < n}
           Done(n) == \E g : g = [s \in Small(n) |-> Partial(f, s, g)]
<1>1. \A s \in SUBSET S : IsFiniteSet(s) /\ Cardinality(s) \in Nat
  BY FS_Subset, FS_CardinalityType
<1> DEFINE Good == {n \in Nat : Done(n)}
<1>2. 0 \in Good
  <2> DEFINE e == [s \in {} |-> 0]
  <2>1. Small(0) = {}
    BY <1>1
  <2>2. e = [s \in Small(0) |-> Partial(f, s, e)]
    BY <2>1
  <2> QED
    BY <2>2
<1>3. ASSUME NEW n \in Nat, n \in Good PROVE n + 1 \in Good
  <2>1. PICK g : g = [s \in Small(n) |-> Partial(f, s, g)]
    BY <1>3
  <2> DEFINE h == [s \in Small(n + 1) |-> Partial(f, s, g)]
  <2>2. ASSUME NEW s \in Small(n + 1) PROVE Partial(f, s, g) = Partial(f, s, h)
    <3>1. CASE s = {}
      BY <3>1 DEF Partial
    <3>2. CASE s # {}
      <4> DEFINE r == s \ {ElementOf(s)}
      <4>1. ElementOf(s) \in s
        BY <3>2 DEF ElementOf
      <4>2. Cardinality(r) = Cardinality(s) - 1
        BY <1>1, <4>1, FS_RemoveElement
      <4>3. r \in Small(n) /\ r \in Small(n + 1)
        BY <1>1, <4>2
      <4>4. g[r] = h[r]
        BY <2>1, <4>3
      <4> QED
        BY <4>4 DEF Partial
    <3> QED
      BY <3>1, <3>2
  <2>3. h = [s \in Small(n + 1) |-> Partial(f, s, h)]
    BY <2>2
  <2>4. Done(n + 1)
    <3> HIDE DEF h, Small
    <3> QED
      BY <2>3
  <2>5. n + 1 \in Nat
    OBVIOUS
  <2> HIDE DEF Done
  <2> QED
    BY <2>4, <2>5
<1>4. Nat \subseteq Good
  <2> HIDE DEF Good
  <2> QED
    BY <1>2, <1>3, NumberInduction
<1>5. SUBSET S = Small(Cardinality(S) + 1)
  <2>1. \A s \in SUBSET S : Cardinality(s) <= Cardinality(S)
    BY FS_Subset
  <2>2. Cardinality(S) \in Nat
    BY <1>1
  <2> QED
    BY <1>1, <2>1, <2>2
<1>6. Cardinality(S) + 1 \in Nat
  BY FS_CardinalityType
<1>7. Done(Cardinality(S) + 1)
  BY <1>4, <1>6
<1> QED
  BY <1>5, <1>7

(* So the partial sums obey their recursion. *)
LEMMA SumsLaw ==
    ASSUME NEW f, NEW S, IsFiniteSet(S), NEW s \in SUBSET S
    PROVE  SumsOf(f, S)[s] = Partial(f, s, SumsOf(f, S))
<1>1. \E g : g = [t \in SUBSET S |-> Partial(f, t, g)]
  BY SumsExist
<1>2. SumsOf(f, S) = [t \in SUBSET S |-> Partial(f, t, SumsOf(f, S))]
  BY <1>1 DEF SumsOf
<1> HIDE DEF SumsOf
<1> QED
  BY <1>2

(* The partial sums do not depend on the set they are taken in. *)
LEMMA SumsAgree ==
    ASSUME NEW f, NEW S, IsFiniteSet(S), NEW T \in SUBSET S
    PROVE  SumsOf(f, S)[T] = SumsOf(f, T)[T]
<1> DEFINE Good == {s \in SUBSET T : SumsOf(f, S)[s] = SumsOf(f, T)[s]}
<1>1. IsFiniteSet(T)
  BY FS_Subset
<1>2. ASSUME NEW s \in SUBSET T, \A x \in s : s \ {x} \in Good
      PROVE  s \in Good
  <2>1. /\ SumsOf(f, S)[s] = Partial(f, s, SumsOf(f, S))
        /\ SumsOf(f, T)[s] = Partial(f, s, SumsOf(f, T))
    BY <1>1, SumsLaw
  <2>2. CASE s = {}
    BY <2>1, <2>2 DEF Partial
  <2>3. CASE s # {}
    <3>1. ElementOf(s) \in s
      BY <2>3 DEF ElementOf
    <3>2. SumsOf(f, S)[s \ {ElementOf(s)}] = SumsOf(f, T)[s \ {ElementOf(s)}]
      BY <1>2, <3>1
    <3> QED
      BY <2>1, <3>2 DEF Partial
  <2> QED
    BY <2>2, <2>3
<1>3. SUBSET T \subseteq Good
  <2> HIDE DEF Good
  <2> QED
    BY <1>1, <1>2, SetInduction
<1> QED
  BY <1>3

(* The sum over no element is zero. *)
LEMMA SumEmpty ==
    ASSUME NEW f PROVE SumFunctionOnSet(f, {}) = 0
BY FS_EmptySet, SumsLaw, SumIsLast DEF Partial

(* The sum over a nonempty set takes some element first. *)
LEMMA SumTakesOne ==
    ASSUME NEW f, NEW S, IsFiniteSet(S), S # {}
    PROVE  \E x \in S :
              SumFunctionOnSet(f, S) = f[x] + SumFunctionOnSet(f, S \ {x})
<1> DEFINE x == ElementOf(S)
<1>1. SumsOf(f, S)[S] = Partial(f, S, SumsOf(f, S))
  BY SumsLaw
<1>2. SumsOf(f, S)[S \ {x}] = SumsOf(f, S \ {x})[S \ {x}]
  BY SumsAgree
<1>3. x \in S
  BY DEF ElementOf
<1> QED
  BY <1>1, <1>2, <1>3, SumIsLast DEF Partial

(* A sum of integers is an integer, of naturals a natural. *)
LEMMA SumType ==
    ASSUME NEW f, NEW S, IsFiniteSet(S), NEW N \in {Nat, Int},
           \A x \in S : f[x] \in N
    PROVE  SumFunctionOnSet(f, S) \in N
<1> DEFINE Good == {s \in SUBSET S : SumFunctionOnSet(f, s) \in N}
<1>1. ASSUME NEW s \in SUBSET S, \A x \in s : s \ {x} \in Good
      PROVE  s \in Good
  <2>1. CASE s = {}
    BY <2>1, SumEmpty
  <2>2. CASE s # {}
    <3>1. PICK x \in s :
            SumFunctionOnSet(f, s) = f[x] + SumFunctionOnSet(f, s \ {x})
      BY <2>2, FS_Subset, SumTakesOne
    <3>2. f[x] \in N /\ SumFunctionOnSet(f, s \ {x}) \in N
      BY <1>1
    <3> QED
      BY <3>1, <3>2
  <2> QED
    BY <2>1, <2>2
<1>2. SUBSET S \subseteq Good
  <2> HIDE DEF Good
  <2> QED
    BY <1>1, SetInduction
<1> QED
  BY <1>2

(* The order does not matter: any element can be taken first. *)
LEMMA SumRemove ==
    ASSUME NEW f, NEW S, IsFiniteSet(S), \A y \in S : f[y] \in Int, NEW x \in S
    PROVE  SumFunctionOnSet(f, S) = f[x] + SumFunctionOnSet(f, S \ {x})
<1> DEFINE Total(s) == SumFunctionOnSet(f, s)
           Good == {s \in SUBSET S : \A y \in s : Total(s) = f[y] + Total(s \ {y})}
<1>1. ASSUME NEW s \in SUBSET S, \A y \in s : s \ {y} \in Good, NEW y \in s
      PROVE  Total(s) = f[y] + Total(s \ {y})
  <2>1. PICK z \in s : Total(s) = f[z] + Total(s \ {z})
    BY FS_Subset, SumTakesOne
  <2>2. CASE y = z
    BY <2>1, <2>2
  <2>3. CASE y # z
    <3> DEFINE rest == (s \ {z}) \ {y}
    <3>1. rest = (s \ {y}) \ {z}
      OBVIOUS
    <3>2. Total(s \ {z}) = f[y] + Total(rest)
      <4> HIDE DEF Total
      <4> QED
        BY <1>1, <2>3
    <3>3. Total(s \ {y}) = f[z] + Total(rest)
      <4> HIDE DEF Total
      <4> QED
        BY <1>1, <2>3, <3>1
    <3>4. Total(rest) \in Int
      <4>1. IsFiniteSet(rest)
        BY FS_Subset
      <4> QED
        BY <4>1, SumType
    <3>5. f[y] \in Int /\ f[z] \in Int
      OBVIOUS
    <3> HIDE DEF Total, rest
    <3> QED
      BY <2>1, <3>2, <3>3, <3>4, <3>5
  <2> QED
    BY <2>2, <2>3
<1>2. SUBSET S \subseteq Good
  <2>1. \A s \in SUBSET S : (\A y \in s : s \ {y} \in Good) => s \in Good
    <3> HIDE DEF Total
    <3> QED
      BY <1>1
  <2> HIDE DEF Good
  <2> QED
    BY <2>1, SetInduction
<1> QED
  BY <1>2

(* Functions that agree on a set have the same sum over it. *)
LEMMA SumCongruent ==
    ASSUME NEW f, NEW g, NEW S, IsFiniteSet(S), \A x \in S : f[x] = g[x]
    PROVE  SumFunctionOnSet(f, S) = SumFunctionOnSet(g, S)
<1> DEFINE Good == {s \in SUBSET S : SumsOf(f, S)[s] = SumsOf(g, S)[s]}
<1>1. ASSUME NEW s \in SUBSET S, \A x \in s : s \ {x} \in Good
      PROVE  s \in Good
  <2>1. /\ SumsOf(f, S)[s] = Partial(f, s, SumsOf(f, S))
        /\ SumsOf(g, S)[s] = Partial(g, s, SumsOf(g, S))
    BY SumsLaw
  <2>2. CASE s = {}
    BY <2>1, <2>2 DEF Partial
  <2>3. CASE s # {}
    <3>1. ElementOf(s) \in s
      BY <2>3 DEF ElementOf
    <3>2. SumsOf(f, S)[s \ {ElementOf(s)}] = SumsOf(g, S)[s \ {ElementOf(s)}]
      BY <1>1, <3>1
    <3>3. f[ElementOf(s)] = g[ElementOf(s)]
      BY <3>1
    <3> QED
      BY <2>1, <3>2, <3>3 DEF Partial
  <2> QED
    BY <2>2, <2>3
<1>2. SUBSET S \subseteq Good
  <2> HIDE DEF Good
  <2> QED
    BY <1>1, SetInduction
<1> QED
  BY <1>2, SumIsLast

(* Changing one term changes the sum by as much. *)
LEMMA SumChange ==
    ASSUME NEW f, NEW g, NEW S, IsFiniteSet(S), NEW x \in S,
           \A y \in S : f[y] \in Int /\ g[y] \in Int,
           \A y \in S \ {x} : f[y] = g[y]
    PROVE  SumFunctionOnSet(g, S) = SumFunctionOnSet(f, S) - f[x] + g[x]
<1>1. IsFiniteSet(S \ {x})
  BY FS_Subset
<1>2. /\ SumFunctionOnSet(f, S) = f[x] + SumFunctionOnSet(f, S \ {x})
      /\ SumFunctionOnSet(g, S) = g[x] + SumFunctionOnSet(g, S \ {x})
  BY SumRemove
<1>3. SumFunctionOnSet(f, S \ {x}) = SumFunctionOnSet(g, S \ {x})
  BY <1>1, SumCongruent
<1>4. SumFunctionOnSet(f, S \ {x}) \in Int
  BY <1>1, SumType
<1> QED
  BY <1>2, <1>3, <1>4

(* A new element adds its term. *)
LEMMA SumAdd ==
    ASSUME NEW f, NEW S, IsFiniteSet(S), NEW x, x \notin S,
           \A y \in S \cup {x} : f[y] \in Int
    PROVE  SumFunctionOnSet(f, S \cup {x}) = f[x] + SumFunctionOnSet(f, S)
<1>1. IsFiniteSet(S \cup {x})
  BY FS_AddElement
<1>2. (S \cup {x}) \ {x} = S
  OBVIOUS
<1> QED
  BY <1>1, <1>2, SumRemove

(* Terms that are zero can be left out. *)
LEMMA SumWithoutZeros ==
    ASSUME NEW f, NEW S, IsFiniteSet(S), NEW R, IsFiniteSet(R),
           \A x \in S : f[x] \in Int, \A x \in R : x \notin S /\ f[x] = 0
    PROVE  SumFunctionOnSet(f, S \cup R) = SumFunctionOnSet(f, S)
<1> DEFINE Good == {s \in SUBSET R :
                       SumFunctionOnSet(f, S \cup s) = SumFunctionOnSet(f, S)}
<1>1. ASSUME NEW s \in SUBSET R, \A x \in s : s \ {x} \in Good
      PROVE  s \in Good
  <2>1. CASE s = {}
    <3>1. S \cup s = S
      BY <2>1
    <3> QED
      BY <3>1
  <2>2. CASE s # {}
    <3>1. PICK x \in s : TRUE
      BY <2>2
    <3>2. IsFiniteSet(S \cup s) /\ (S \cup s) \ {x} = S \cup (s \ {x})
      BY FS_Subset, FS_Union
    <3>3. SumFunctionOnSet(f, S \cup s) =
            f[x] + SumFunctionOnSet(f, S \cup (s \ {x}))
      BY <3>2, SumRemove
    <3>4. SumFunctionOnSet(f, S \cup (s \ {x})) = SumFunctionOnSet(f, S)
      BY <1>1
    <3>5. SumFunctionOnSet(f, S) \in Int /\ f[x] = 0
      BY SumType
    <3> QED
      BY <3>3, <3>4, <3>5
  <2> QED
    BY <2>1, <2>2
<1>2. SUBSET R \subseteq Good
  <2> HIDE DEF Good
  <2> QED
    BY <1>1, SetInduction
<1> QED
  BY <1>2

-----------------------------------------------------------------------------
(***************************************************************************)
(* A posting appends one row to one user's book and touches nothing else.  *)
(***************************************************************************)
LEMMA PostAppends ==
    ASSUME BookTypeOK,
           NEW u \in Users, NEW s \in Sources, NEW d \in {-1, 1}, NEW n \in Nat,
           Post(u, s, d, n)
    PROVE  /\ BookTypeOK'
           /\ n > 0
           /\ ~Posted(s)
           /\ balance[u] + d * n \in 0 .. MaxBalance
           /\ balance' = [balance EXCEPT ![u] = balance[u] + d * n]
           /\ Len(ledger'[u]) = Len(ledger[u]) + 1
           /\ ledger'[u][Len(ledger[u]) + 1] =
                [source |-> s, direction |-> d, amount |-> n,
                 after |-> balance[u] + d * n]
           /\ \A i \in 1 .. Len(ledger[u]) : ledger'[u][i] = ledger[u][i]
           /\ \A v \in Users \ {u} : ledger'[v] = ledger[v]
<1> DEFINE row == [source |-> s, direction |-> d, amount |-> n,
                   after |-> balance[u] + d * n]
<1>1. /\ n > 0
      /\ ~Posted(s)
      /\ balance[u] + d * n \in 0 .. MaxBalance
      /\ balance' = [balance EXCEPT ![u] = balance[u] + d * n]
      /\ ledger' = [ledger EXCEPT ![u] = Append(ledger[u], row)]
  BY DEF Post
<1>2. balance[u] + d * n \in Nat
  BY <1>1, BookAssumption
<1>3. row \in Row
  BY <1>1, <1>2 DEF Row
<1>4. ledger[u] \in Seq(Row)
  BY DEF BookTypeOK
<1>5. ledger'[u] = Append(ledger[u], row)
  BY <1>1 DEF BookTypeOK
<1>6. Append(ledger[u], row) \in Seq(Row)
  BY <1>3, <1>4
<1>7. BookTypeOK'
  BY <1>1, <1>2, <1>6 DEF BookTypeOK
<1>8. /\ Len(ledger'[u]) = Len(ledger[u]) + 1
      /\ ledger'[u][Len(ledger[u]) + 1] = row
      /\ \A i \in 1 .. Len(ledger[u]) : ledger'[u][i] = ledger[u][i]
  BY <1>3, <1>4, <1>5
<1>9. \A v \in Users \ {u} : ledger'[v] = ledger[v]
  BY <1>1 DEF BookTypeOK
<1> QED
  BY <1>1, <1>7, <1>8, <1>9

(* The two directions, as the balance sees them. *)
LEMMA CreditAdds ==
    ASSUME BookTypeOK, NEW u \in Users, NEW s \in Sources, NEW n \in Nat,
           Post(u, s, 1, n)
    PROVE  n > 0 /\ balance' = [balance EXCEPT ![u] = balance[u] + n]
<1>1. balance[u] \in Nat
  BY DEF BookTypeOK
<1>2. balance[u] + 1 * n = balance[u] + n
  BY <1>1
<1> QED
  BY <1>2 DEF Post

(* A debit is covered by the balance it leaves. *)
LEMMA DebitTakes ==
    ASSUME BookTypeOK, NEW u \in Users, NEW s \in Sources, NEW n \in Nat,
           Post(u, s, -1, n)
    PROVE  /\ n \in 1 .. balance[u]
           /\ balance' = [balance EXCEPT ![u] = balance[u] - n]
<1>1. balance[u] \in Nat
  BY DEF BookTypeOK
<1>2. balance[u] + (-1) * n = balance[u] - n
  BY <1>1
<1>3. /\ n > 0 /\ balance[u] - n \in 0 .. MaxBalance
      /\ balance' = [balance EXCEPT ![u] = balance[u] - n]
  BY <1>2 DEF Post
<1>4. n \in 1 .. balance[u]
  BY <1>1, <1>3, BookAssumption
<1> QED
  BY <1>3, <1>4

(***************************************************************************)
(* The posted sources grow by exactly the new one.                         *)
(***************************************************************************)
LEMMA PostAddsSource ==
    ASSUME BookTypeOK,
           NEW u \in Users, NEW s \in Sources, NEW d \in {-1, 1}, NEW n \in Nat,
           Post(u, s, d, n), NEW t
    PROVE  Posted(t)' <=> Posted(t) \/ t = s
<1>0. /\ BookTypeOK'
      /\ Len(ledger'[u]) = Len(ledger[u]) + 1
      /\ ledger'[u][Len(ledger[u]) + 1] =
           [source |-> s, direction |-> d, amount |-> n,
            after |-> balance[u] + d * n]
      /\ \A i \in 1 .. Len(ledger[u]) : ledger'[u][i] = ledger[u][i]
      /\ \A v \in Users \ {u} : ledger'[v] = ledger[v]
  BY PostAppends
<1>1. /\ Len(ledger'[u]) = Len(ledger[u]) + 1
      /\ ledger'[u][Len(ledger[u]) + 1].source = s
      /\ \A i \in 1 .. Len(ledger[u]) : ledger'[u][i] = ledger[u][i]
      /\ \A v \in Users \ {u} : ledger'[v] = ledger[v]
  BY <1>0
<1>2. /\ \A v \in Users : DOMAIN ledger[v] = 1 .. Len(ledger[v])
      /\ \A v \in Users : DOMAIN ledger'[v] = 1 .. Len(ledger'[v])
      /\ \A v \in Users : Len(ledger[v]) \in Nat
  BY <1>0 DEF BookTypeOK
<1>3. ASSUME Posted(t)' PROVE Posted(t) \/ t = s
  <2>0. PICK v \in Users : \E i \in DOMAIN ledger'[v] : ledger'[v][i].source = t
    BY <1>3 DEF Posted
  <2>1. PICK i \in DOMAIN ledger'[v] : ledger'[v][i].source = t
    BY <2>0
  <2>2. CASE v # u
    BY <1>1, <2>1, <2>2 DEF Posted
  <2>3. CASE v = u
    <3>1. i \in 1 .. Len(ledger[u]) \/ i = Len(ledger[u]) + 1
      BY <1>1, <1>2, <2>1, <2>3
    <3> QED
      BY <1>1, <1>2, <2>1, <2>3, <3>1 DEF Posted
  <2> QED
    BY <2>2, <2>3
<1>4. ASSUME Posted(t) PROVE Posted(t)'
  <2>0. PICK v \in Users : \E i \in DOMAIN ledger[v] : ledger[v][i].source = t
    BY <1>4 DEF Posted
  <2>1. PICK i \in DOMAIN ledger[v] : ledger[v][i].source = t
    BY <2>0
  <2>2. i \in DOMAIN ledger'[v] /\ ledger'[v][i].source = t
    BY <1>1, <1>2, <2>1
  <2> QED
    BY <2>2 DEF Posted
<1>5. ASSUME t = s PROVE Posted(t)'
  <2>1. Len(ledger[u]) + 1 \in DOMAIN ledger'[u]
    BY <1>1, <1>2
  <2> QED
    BY <1>1, <1>5, <2>1 DEF Posted
<1> QED
  BY <1>3, <1>4, <1>5

(***************************************************************************)
(* A posting keeps the running balance of every book.                      *)
(***************************************************************************)
LEMMA PostKeepsChain ==
    ASSUME BookTypeOK, LedgerChained,
           NEW u \in Users, NEW s \in Sources, NEW d \in {-1, 1}, NEW n \in Nat,
           Post(u, s, d, n)
    PROVE  LedgerChained'
<1>1. /\ BookTypeOK'
      /\ balance' = [balance EXCEPT ![u] = balance[u] + d * n]
      /\ Len(ledger'[u]) = Len(ledger[u]) + 1
      /\ ledger'[u][Len(ledger[u]) + 1] =
           [source |-> s, direction |-> d, amount |-> n,
            after |-> balance[u] + d * n]
      /\ \A i \in 1 .. Len(ledger[u]) : ledger'[u][i] = ledger[u][i]
      /\ \A v \in Users \ {u} : ledger'[v] = ledger[v]
  BY PostAppends
<1> SUFFICES ASSUME NEW v \in Users
             PROVE  /\ \A i \in 1 .. Len(ledger'[v]) :
                         ledger'[v][i].after =
                           AfterOf(v, i - 1)'
                             + ledger'[v][i].direction * ledger'[v][i].amount
                    /\ balance'[v] = AfterOf(v, Len(ledger[v]))'
  BY DEF LedgerChained
<1>2. Len(ledger[v]) \in Nat /\ balance[v] \in Nat
  BY DEF BookTypeOK
<1>3. /\ \A i \in 1 .. Len(ledger[v]) :
           ledger[v][i].after =
             AfterOf(v, i - 1) + ledger[v][i].direction * ledger[v][i].amount
      /\ balance[v] = AfterOf(v, Len(ledger[v]))
  BY DEF LedgerChained
<1>4. CASE v # u
  <2>1. ledger'[v] = ledger[v] /\ balance'[v] = balance[v]
    BY <1>1, <1>4 DEF BookTypeOK
  <2> QED
    BY <1>3, <2>1 DEF AfterOf
<1>5. CASE v = u
  <2>1. \A i \in 0 .. Len(ledger[u]) : AfterOf(u, i)' = AfterOf(u, i)
    BY <1>1 DEF AfterOf
  <2>2. ASSUME NEW i \in 1 .. Len(ledger'[u])
        PROVE  ledger'[u][i].after =
                 AfterOf(u, i - 1)'
                   + ledger'[u][i].direction * ledger'[u][i].amount
    <3>1. CASE i = Len(ledger[u]) + 1
      <4>1. AfterOf(u, i - 1)' = balance[u]
        BY <1>2, <1>3, <1>5, <2>1, <3>1
      <4> QED
        BY <1>1, <3>1, <4>1
    <3>2. CASE i \in 1 .. Len(ledger[u])
      <4>1. AfterOf(u, i - 1)' = AfterOf(u, i - 1)
        BY <1>2, <1>5, <2>1, <3>2
      <4> QED
        BY <1>1, <1>3, <1>5, <3>2, <4>1
    <3> QED
      BY <1>1, <1>2, <1>5, <3>1, <3>2
  <2>3. balance'[u] = AfterOf(u, Len(ledger[u]))'
    BY <1>1, <1>2, <1>5 DEF AfterOf, BookTypeOK
  <2> QED
    BY <1>5, <2>2, <2>3
<1> QED
  BY <1>4, <1>5

(***************************************************************************)
(* A joint credit appends one row to the book of every user with a         *)
(* positive share and touches no other book.                               *)
(***************************************************************************)
LEMMA PostAllAppends ==
    ASSUME BookTypeOK,
           NEW source \in [Users -> Sources], NEW share \in [Users -> Nat],
           PostAll(source, share)
    PROVE  /\ BookTypeOK'
           /\ \A u \in Users :
                /\ balance'[u] = balance[u] + share[u]
                /\ share[u] = 0 => ledger'[u] = ledger[u]
                /\ share[u] > 0 =>
                     /\ ~Posted(source[u])
                     /\ Len(ledger'[u]) = Len(ledger[u]) + 1
                     /\ ledger'[u][Len(ledger[u]) + 1] =
                          [source |-> source[u], direction |-> 1,
                           amount |-> share[u], after |-> balance[u] + share[u]]
                     /\ \A i \in 1 .. Len(ledger[u]) : ledger'[u][i] = ledger[u][i]
<1> DEFINE row(u) == [source |-> source[u], direction |-> 1,
                      amount |-> share[u], after |-> balance[u] + share[u]]
<1>1. /\ \A u \in Users : share[u] > 0 => ~Posted(source[u])
      /\ balance' = [u \in Users |-> balance[u] + share[u]]
      /\ ledger' = [u \in Users |-> IF share[u] = 0 THEN ledger[u]
                                    ELSE Append(ledger[u], row(u))]
  BY DEF PostAll
<1>2. ASSUME NEW u \in Users
      PROVE  /\ balance'[u] \in Nat
             /\ balance'[u] = balance[u] + share[u]
             /\ ledger'[u] \in Seq(Row)
             /\ share[u] = 0 => ledger'[u] = ledger[u]
             /\ share[u] > 0 =>
                  /\ Len(ledger'[u]) = Len(ledger[u]) + 1
                  /\ ledger'[u][Len(ledger[u]) + 1] = row(u)
                  /\ \A i \in 1 .. Len(ledger[u]) : ledger'[u][i] = ledger[u][i]
  <2>1. /\ balance[u] \in Nat /\ share[u] \in Nat
        /\ ledger[u] \in Seq(Row) /\ source[u] \in Sources
    BY DEF BookTypeOK
  <2>2. balance'[u] = balance[u] + share[u]
    BY <1>1
  <2>3. CASE share[u] = 0
    BY <1>1, <2>1, <2>2, <2>3
  <2>4. CASE share[u] > 0
    <3>1. row(u) \in Row
      BY <2>1, <2>4 DEF Row
    <3>2. ledger'[u] = Append(ledger[u], row(u))
      BY <1>1, <2>4
    <3>3. /\ Append(ledger[u], row(u)) \in Seq(Row)
          /\ Len(Append(ledger[u], row(u))) = Len(ledger[u]) + 1
          /\ Append(ledger[u], row(u))[Len(ledger[u]) + 1] = row(u)
          /\ \A i \in 1 .. Len(ledger[u]) :
                Append(ledger[u], row(u))[i] = ledger[u][i]
      BY <2>1, <3>1
    <3> HIDE DEF row
    <3> QED
      BY <2>1, <2>2, <2>4, <3>2, <3>3
  <2> QED
    BY <2>1, <2>3, <2>4
<1>3. BookTypeOK'
  BY <1>1, <1>2 DEF BookTypeOK
<1> QED
  BY <1>1, <1>2, <1>3

(* A joint credit keeps the running balance of every book. *)
LEMMA PostAllKeepsChain ==
    ASSUME BookTypeOK, LedgerChained,
           NEW source \in [Users -> Sources], NEW share \in [Users -> Nat],
           PostAll(source, share)
    PROVE  LedgerChained'
<1>1. BookTypeOK' /\ \A u \in Users :
        /\ balance'[u] = balance[u] + share[u]
        /\ share[u] = 0 => ledger'[u] = ledger[u]
        /\ share[u] > 0 =>
             /\ Len(ledger'[u]) = Len(ledger[u]) + 1
             /\ ledger'[u][Len(ledger[u]) + 1] =
                  [source |-> source[u], direction |-> 1,
                   amount |-> share[u], after |-> balance[u] + share[u]]
             /\ \A i \in 1 .. Len(ledger[u]) : ledger'[u][i] = ledger[u][i]
  BY PostAllAppends
<1> SUFFICES ASSUME NEW u \in Users
             PROVE  /\ \A i \in 1 .. Len(ledger'[u]) :
                         ledger'[u][i].after =
                           AfterOf(u, i - 1)'
                             + ledger'[u][i].direction * ledger'[u][i].amount
                    /\ balance'[u] = AfterOf(u, Len(ledger[u]))'
  BY DEF LedgerChained
<1>2. Len(ledger[u]) \in Nat /\ balance[u] \in Nat /\ share[u] \in Nat
  BY DEF BookTypeOK
<1>3. /\ balance'[u] = balance[u] + share[u]
      /\ share[u] = 0 => ledger'[u] = ledger[u]
      /\ share[u] > 0 =>
           /\ Len(ledger'[u]) = Len(ledger[u]) + 1
           /\ ledger'[u][Len(ledger[u]) + 1] =
                [source |-> source[u], direction |-> 1,
                 amount |-> share[u], after |-> balance[u] + share[u]]
           /\ \A i \in 1 .. Len(ledger[u]) : ledger'[u][i] = ledger[u][i]
  BY <1>1
<1>4. /\ \A i \in 1 .. Len(ledger[u]) :
           ledger[u][i].after =
             AfterOf(u, i - 1) + ledger[u][i].direction * ledger[u][i].amount
      /\ balance[u] = AfterOf(u, Len(ledger[u]))
  BY DEF LedgerChained
<1>5. CASE share[u] = 0
  <2>1. ledger'[u] = ledger[u] /\ balance'[u] = balance[u]
    BY <1>2, <1>5, <1>3
  <2> QED
    BY <1>4, <2>1 DEF AfterOf
<1>6. CASE share[u] > 0
  <2>0. /\ Len(ledger'[u]) = Len(ledger[u]) + 1
        /\ ledger'[u][Len(ledger[u]) + 1].direction = 1
        /\ ledger'[u][Len(ledger[u]) + 1].amount = share[u]
        /\ ledger'[u][Len(ledger[u]) + 1].after = balance[u] + share[u]
        /\ \A i \in 1 .. Len(ledger[u]) : ledger'[u][i] = ledger[u][i]
    BY <1>6, <1>3
  <2>1. \A i \in 0 .. Len(ledger[u]) : AfterOf(u, i)' = AfterOf(u, i)
    BY <2>0 DEF AfterOf
  <2>2. ASSUME NEW i \in 1 .. Len(ledger'[u])
        PROVE  ledger'[u][i].after =
                 AfterOf(u, i - 1)'
                   + ledger'[u][i].direction * ledger'[u][i].amount
    <3>1. CASE i = Len(ledger[u]) + 1
      <4>1. AfterOf(u, i - 1)' = balance[u]
        BY <1>2, <1>4, <2>1, <3>1
      <4> QED
        BY <1>2, <2>0, <3>1, <4>1
    <3>2. CASE i \in 1 .. Len(ledger[u])
      <4>1. AfterOf(u, i - 1)' = AfterOf(u, i - 1)
        BY <1>2, <2>1, <3>2
      <4> QED
        BY <1>4, <2>0, <3>2, <4>1
    <3> QED
      BY <1>2, <2>0, <3>1, <3>2
  <2>3. balance'[u] = AfterOf(u, Len(ledger[u]))'
    BY <1>2, <1>3, <2>0 DEF AfterOf
  <2> QED
    BY <2>2, <2>3
<1> QED
  BY <1>2, <1>5, <1>6

-----------------------------------------------------------------------------
(***************************************************************************)
(* The point of the chain: users.balance, which no statement ever computes *)
(* from the ledger, is the sum of the member's rows.                       *)
(***************************************************************************)
RowValues(u) == [i \in DOMAIN ledger[u] |-> ledger[u][i].direction * ledger[u][i].amount]

BalanceIsSum ==
    \A u \in Users : balance[u] = SumFunctionOnSet(RowValues(u), DOMAIN ledger[u])

(* Each running balance is the sum of the rows up to it. *)
LEMMA ChainIsSum ==
    ASSUME BookTypeOK, LedgerChained, NEW u \in Users
    PROVE  balance[u] = SumFunctionOnSet(RowValues(u), DOMAIN ledger[u])
<1> DEFINE Total(n) == SumFunctionOnSet(RowValues(u), 1 .. n)
           Good == {n \in Nat : n <= Len(ledger[u]) =>
                       IsFiniteSet(1 .. n) /\ Total(n) = AfterOf(u, n)}
<1>1. /\ ledger[u] \in Seq(Row) /\ Len(ledger[u]) \in Nat
      /\ DOMAIN ledger[u] = 1 .. Len(ledger[u])
  BY DEF BookTypeOK
<1>2. ASSUME NEW i \in 1 .. Len(ledger[u])
      PROVE  RowValues(u)[i] \in Int
  <2>1. ledger[u][i] \in Row
    BY <1>1
  <2>2. ledger[u][i].direction \in {-1, 1} /\ ledger[u][i].amount \in Nat
    BY <2>1 DEF Row
  <2>3. RowValues(u)[i] = ledger[u][i].direction * ledger[u][i].amount
    BY <1>1 DEF RowValues
  <2> QED
    BY <2>2, <2>3
<1>3. 0 \in Good
  <2>1. 1 .. 0 = {}
    OBVIOUS
  <2> QED
    BY <2>1, SumEmpty, FS_EmptySet DEF AfterOf
<1>4. ASSUME NEW n \in Nat, n \in Good PROVE n + 1 \in Good
  <2> SUFFICES ASSUME n + 1 <= Len(ledger[u])
               PROVE  IsFiniteSet(1 .. (n + 1)) /\ Total(n + 1) = AfterOf(u, n + 1)
    OBVIOUS
  <2> PICK S : S = 1 .. n
    OBVIOUS
  <2>1. PICK m \in Nat : m = n + 1
    OBVIOUS
  <2>2. /\ 1 .. m = S \cup {m} /\ m \notin S /\ m # 0 /\ m - 1 = n
        /\ m \in 1 .. Len(ledger[u])
        /\ \A i \in S \cup {m} : i \in 1 .. Len(ledger[u])
    BY <1>1, <2>1
  <2>3. n <= Len(ledger[u])
    BY <1>1
  <2>4. IsFiniteSet(S) /\ SumFunctionOnSet(RowValues(u), S) = AfterOf(u, n)
    BY <1>4, <2>1, <2>3
  <2>5. IsFiniteSet(S \cup {m})
    BY <2>4, FS_AddElement
  <2>6. SumFunctionOnSet(RowValues(u), S \cup {m}) = RowValues(u)[m] + AfterOf(u, n)
    <3>1. \A i \in S \cup {m} : RowValues(u)[i] \in Int
      BY <1>2, <2>2
    <3>2. SumFunctionOnSet(RowValues(u), S \cup {m})
             = RowValues(u)[m] + SumFunctionOnSet(RowValues(u), S)
      BY <2>2, <2>4, <3>1, SumAdd
    <3> QED
      BY <2>4, <3>2
  <2>7. ledger[u][m].after = AfterOf(u, n) + RowValues(u)[m]
    <3>1. ledger[u][m].after =
             AfterOf(u, m - 1) + ledger[u][m].direction * ledger[u][m].amount
      BY <2>2 DEF LedgerChained
    <3>2. RowValues(u)[m] = ledger[u][m].direction * ledger[u][m].amount
      BY <1>1, <2>2 DEF RowValues
    <3> QED
      BY <2>2, <3>1, <3>2
  <2>8. AfterOf(u, n) \in Int
    <3>1. CASE n = 0
      BY <3>1 DEF AfterOf
    <3>2. CASE n # 0
      <4>1. n \in 1 .. Len(ledger[u])
        BY <2>3, <3>2
      <4>2. ledger[u][n] \in Row
        BY <1>1, <4>1
      <4> QED
        BY <3>2, <4>2 DEF AfterOf, Row
    <3> QED
      BY <3>1, <3>2
  <2>9. AfterOf(u, m) = RowValues(u)[m] + AfterOf(u, n)
    <3>1. AfterOf(u, m) = ledger[u][m].after
      BY <2>2 DEF AfterOf
    <3>2. RowValues(u)[m] \in Int
      BY <1>2, <2>2
    <3> QED
      BY <2>7, <2>8, <3>1, <3>2
  <2> QED
    BY <2>1, <2>2, <2>5, <2>6, <2>9
<1>5. Nat \subseteq Good
  <2> HIDE DEF Good
  <2> QED
    BY <1>3, <1>4, NumberInduction
<1>6. Total(Len(ledger[u])) = AfterOf(u, Len(ledger[u]))
  BY <1>1, <1>5
<1> QED
  BY <1>1, <1>6 DEF LedgerChained

(* A chained book balances. *)
LEMMA ChainMakesSums ==
    BookTypeOK /\ LedgerChained => BalanceIsSum
BY ChainIsSum DEF BalanceIsSum
=============================================================================
