--------------------------- MODULE DataLemmas ---------------------------
(***************************************************************************)
(* Lemmas on the data of the engine, for every proof module.  What the     *)
(* queue operations of its lists and deques do to their elements: append,  *)
(* popleft, extend and removal of one element.  And sums of block and      *)
(* token counts over sets of requests, counted as cells: one cell for each *)
(* block (or token) of each request.  And induction and recursion over     *)
(* ranges of numbers, from the well-foundedness of <, with what the list   *)
(* comprehension Keep returns for every list.                              *)
(***************************************************************************)
EXTENDS Integers, Sequences, FiniteSets, Functions, Lists, SequenceTheorems,
        FiniteSetTheorems, WellFoundedInduction, TLAPS

LEMMA ElementsOfSeq ==
    ASSUME NEW S, NEW s \in Seq(S)
    PROVE  /\ \A x : x \in Range(s) <=> \E i \in 1 .. Len(s) : x = s[i]
           /\ Range(s) \subseteq S
<1>1. DOMAIN s = 1 .. Len(s) /\ s \in [1 .. Len(s) -> S]
  BY LenProperties
<1>2. \A x : x \in Range(s) <=> \E i \in 1 .. Len(s) : x = s[i]
  BY <1>1 DEF Range
<1>3. \A i \in 1 .. Len(s) : s[i] \in S
  BY <1>1
<1>4. Range(s) \subseteq S
  BY <1>2, <1>3
<1> QED BY <1>2, <1>4

LEMMA EmptyRange == Range(<<>>) = {} /\ IsInjective(<<>>)
BY DEF Range, IsInjective

(* append                                                                   *)
LEMMA AppendElements ==
    ASSUME NEW S, NEW s \in Seq(S), NEW e \in S
    PROVE  /\ Range(Append(s, e)) = Range(s) \cup {e}
           /\ IsInjective(s) /\ e \notin Range(s) => IsInjective(Append(s, e))
<1> DEFINE t == Append(s, e)
<1>1. /\ t \in Seq(S) /\ Len(t) = Len(s) + 1 /\ Len(s) \in Nat
      /\ \A i \in 1 .. Len(s) : t[i] = s[i]
      /\ t[Len(s) + 1] = e
  BY AppendProperties, LenProperties
<1>2. DOMAIN t = 1 .. Len(s) + 1 /\ DOMAIN s = 1 .. Len(s)
  BY <1>1, LenProperties
<1> HIDE DEF t
<1>3. Range(t) = Range(s) \cup {e}
  <2>1. Range(t) \subseteq Range(s) \cup {e}
    <3> SUFFICES ASSUME NEW i \in 1 .. Len(s) + 1 PROVE t[i] \in Range(s) \cup {e}
      BY <1>2 DEF Range
    <3>1. i \in 1 .. Len(s) \/ i = Len(s) + 1 BY <1>1
    <3> QED BY <1>1, <1>2, <3>1 DEF Range
  <2>2. Range(s) \subseteq Range(t)
    <3> SUFFICES ASSUME NEW i \in 1 .. Len(s) PROVE s[i] \in Range(t)
      BY <1>2 DEF Range
    <3>1. i \in 1 .. Len(s) + 1 BY <1>1
    <3> QED BY <1>1, <1>2, <3>1 DEF Range
  <2>3. e \in Range(t)
    <3>1. Len(s) + 1 \in 1 .. Len(s) + 1 BY <1>1
    <3> QED BY <1>1, <1>2, <3>1 DEF Range
  <2> QED BY <2>1, <2>2, <2>3
<1>4. ASSUME IsInjective(s), e \notin Range(s) PROVE IsInjective(t)
  <2> SUFFICES ASSUME NEW i \in 1 .. Len(s) + 1, NEW j \in 1 .. Len(s) + 1, t[i] = t[j]
               PROVE  i = j
    BY <1>2 DEF IsInjective
  <2>1. \A k \in 1 .. Len(s) : s[k] # e BY <1>2, <1>4 DEF Range
  <2>2. i \in 1 .. Len(s) \/ i = Len(s) + 1 BY <1>1
  <2>3. j \in 1 .. Len(s) \/ j = Len(s) + 1 BY <1>1
  <2> QED BY <1>1, <1>2, <1>4, <2>1, <2>2, <2>3 DEF IsInjective
<1> QED BY <1>3, <1>4 DEF t

(* popleft                                                                  *)
LEMMA TailElements ==
    ASSUME NEW S, NEW s \in Seq(S), s # <<>>
    PROVE  /\ Head(s) = s[1] /\ Head(s) \in Range(s)
           /\ Range(s) = Range(Tail(s)) \cup {Head(s)}
           /\ IsInjective(s) => /\ IsInjective(Tail(s))
                                /\ Head(s) \notin Range(Tail(s))
<1> DEFINE t == Tail(s)
<1>1. /\ t \in Seq(S) /\ Len(t) = Len(s) - 1
      /\ \A i \in 1 .. Len(t) : t[i] = s[i + 1]
  BY HeadTailProperties
<1>2. DOMAIN t = 1 .. Len(t) /\ DOMAIN s = 1 .. Len(s) /\ Len(s) \in Nat \ {0}
  BY <1>1, LenProperties, EmptySeq
<1>3. Head(s) = s[1]
  OBVIOUS
<1> HIDE DEF t
<1>4. 1 \in 1 .. Len(s) /\ \A i \in 1 .. Len(t) : i + 1 \in 1 .. Len(s) /\ i + 1 # 1
  BY <1>1, <1>2
<1>5. \A i \in 1 .. Len(s) : i = 1 \/ (i - 1 \in 1 .. Len(t) /\ (i - 1) + 1 = i)
  BY <1>1, <1>2
<1>6. Range(s) = Range(t) \cup {s[1]}
  <2>1. \A i \in 1 .. Len(t) : t[i] \in Range(s) BY <1>1, <1>2, <1>4 DEF Range
  <2>2. \A i \in 1 .. Len(s) : i = 1 \/ (i - 1 \in 1 .. Len(t) /\ t[i - 1] = s[i])
    BY <1>1, <1>5
  <2>3. \A i \in 1 .. Len(s) : s[i] \in Range(t) \cup {s[1]} BY <1>2, <2>2 DEF Range
  <2>4. s[1] \in Range(s) BY <1>2, <1>4 DEF Range
  <2>5. Range(t) \subseteq Range(s) BY <1>2, <2>1 DEF Range
  <2>6. Range(s) \subseteq Range(t) \cup {s[1]} BY <1>2, <2>3 DEF Range
  <2> QED BY <2>4, <2>5, <2>6
<1>7. ASSUME IsInjective(s) PROVE IsInjective(t) /\ s[1] \notin Range(t)
  <2>1. \A i, j \in 1 .. Len(t) : i + 1 = j + 1 => i = j
    BY <1>1, <1>2
  <2>2. IsInjective(t)
    BY <1>1, <1>2, <1>4, <1>7, <2>1 DEF IsInjective
  <2>3. s[1] \notin Range(t)
    <3>1. \A i \in 1 .. Len(t) : s[i + 1] # s[1]
      BY <1>2, <1>4, <1>7 DEF IsInjective
    <3> QED BY <1>1, <1>2, <3>1 DEF Range
  <2> QED BY <2>2, <2>3
<1>8. s[1] \in Range(s) BY <1>6
<1> QED BY <1>3, <1>6, <1>7, <1>8 DEF t

(* extend                                                                   *)
LEMMA ConcatElements ==
    ASSUME NEW S, NEW s \in Seq(S), NEW t \in Seq(S)
    PROVE  /\ Range(s \o t) = Range(s) \cup Range(t)
           /\ IsInjective(s) /\ IsInjective(t) /\ Range(s) \cap Range(t) = {}
                  => IsInjective(s \o t)
<1> DEFINE u == s \o t
<1>1. /\ u \in Seq(S) /\ Len(u) = Len(s) + Len(t)
      /\ \A i \in 1 .. Len(s) + Len(t) :
             u[i] = IF i <= Len(s) THEN s[i] ELSE t[i - Len(s)]
  BY ConcatProperties
<1>2. /\ DOMAIN u = 1 .. Len(s) + Len(t) /\ DOMAIN s = 1 .. Len(s) /\ DOMAIN t = 1 .. Len(t)
      /\ Len(s) \in Nat /\ Len(t) \in Nat
  BY <1>1, LenProperties
<1> DEFINE m == Len(s)
           n == Len(t)
<1>3. m \in Nat /\ n \in Nat /\ DOMAIN u = 1 .. m + n /\ DOMAIN s = 1 .. m /\ DOMAIN t = 1 .. n
  BY <1>2
<1>4. \A i \in 1 .. m + n : u[i] = IF i <= m THEN s[i] ELSE t[i - m]
  BY <1>1
<1> HIDE DEF u, m, n
<1>5. \A i \in 1 .. m : i \in 1 .. m + n /\ u[i] = s[i]
  BY <1>3, <1>4
<1>6. ASSUME NEW j \in 1 .. n PROVE j + m \in 1 .. m + n /\ u[j + m] = t[j]
  <2>1. j + m \in 1 .. m + n /\ ~(j + m <= m) /\ (j + m) - m = j BY <1>3
  <2> QED BY <1>4, <2>1
<1>7. \A i \in 1 .. m + n : i \in 1 .. m \/ (i - m \in 1 .. n /\ (i - m) + m = i)
  BY <1>3
<1>8. Range(u) = Range(s) \cup Range(t)
  <2>1. \A i \in 1 .. m + n : u[i] \in Range(s) \cup Range(t)
    <3> SUFFICES ASSUME NEW i \in 1 .. m + n PROVE u[i] \in Range(s) \cup Range(t)
      OBVIOUS
    <3>1. CASE i \in 1 .. m BY <1>3, <1>5, <3>1 DEF Range
    <3>2. CASE i - m \in 1 .. n /\ (i - m) + m = i
      <4>1. u[i] = t[i - m] BY <1>6, <3>2
      <4> QED BY <1>3, <3>2, <4>1 DEF Range
    <3> QED BY <1>7, <3>1, <3>2
  <2>2. \A i \in 1 .. m : s[i] \in Range(u) BY <1>3, <1>5 DEF Range
  <2>3. \A j \in 1 .. n : t[j] \in Range(u)
    <3> SUFFICES ASSUME NEW j \in 1 .. n PROVE t[j] \in Range(u)
      OBVIOUS
    <3>1. j + m \in 1 .. m + n /\ u[j + m] = t[j] BY <1>6
    <3> QED BY <1>3, <3>1 DEF Range
  <2>4. Range(u) \subseteq Range(s) \cup Range(t) BY <1>3, <2>1 DEF Range
  <2>5. Range(s) \subseteq Range(u) /\ Range(t) \subseteq Range(u)
    BY <1>3, <2>2, <2>3 DEF Range
  <2> QED BY <2>4, <2>5
<1>9. ASSUME IsInjective(s), IsInjective(t), Range(s) \cap Range(t) = {}
      PROVE  IsInjective(u)
  <2> SUFFICES ASSUME NEW i \in 1 .. m + n, NEW j \in 1 .. m + n, u[i] = u[j]
               PROVE  i = j
    BY <1>3 DEF IsInjective
  <2>1. CASE i \in 1 .. m /\ j \in 1 .. m
    BY <1>3, <1>5, <1>9, <2>1 DEF IsInjective
  <2>2. CASE i \in 1 .. m /\ j - m \in 1 .. n /\ (j - m) + m = j
    BY <1>3, <1>5, <1>6, <1>9, <2>2 DEF Range
  <2>3. CASE j \in 1 .. m /\ i - m \in 1 .. n /\ (i - m) + m = i
    BY <1>3, <1>5, <1>6, <1>9, <2>3 DEF Range
  <2>4. CASE /\ i - m \in 1 .. n /\ (i - m) + m = i
             /\ j - m \in 1 .. n /\ (j - m) + m = j
    <3>1. t[i - m] = t[j - m] BY <1>6, <2>4
    <3>2. i - m = j - m BY <1>3, <1>9, <2>4, <3>1 DEF IsInjective
    <3> QED BY <2>4, <3>2
  <2> QED BY <1>7, <2>1, <2>2, <2>3, <2>4
<1> QED BY <1>8, <1>9 DEF u

(* A list without its element at i.                                         *)
Removed(s, i) == [j \in 1 .. Len(s) - 1 |-> IF j < i THEN s[j] ELSE s[j + 1]]

LEMMA RemoveElements ==
    ASSUME NEW S, NEW s \in Seq(S), NEW i \in 1 .. Len(s), NEW t,
           t = Removed(s, i)
    PROVE  /\ t \in Seq(S)
           /\ IsInjective(s) => /\ IsInjective(t)
                                /\ Range(t) = Range(s) \ {s[i]}
<1> DEFINE n == Len(s)
<1>1. n \in Nat \ {0} /\ DOMAIN s = 1 .. n /\ \A j \in 1 .. n : s[j] \in S
  <2>1. n \in Nat /\ DOMAIN s = 1 .. n /\ s \in [1 .. n -> S] BY LenProperties
  <2>2. n # 0 BY <2>1
  <2> QED BY <2>1, <2>2
<1>2. i \in 1 .. n /\ t = [j \in 1 .. n - 1 |-> IF j < i THEN s[j] ELSE s[j + 1]]
  BY DEF Removed
<1> HIDE DEF n
<1>3. DOMAIN t = 1 .. n - 1
  BY <1>2
<1>4. \A j \in 1 .. n - 1 : /\ j \in 1 .. n /\ j + 1 \in 1 .. n
                             /\ t[j] = IF j < i THEN s[j] ELSE s[j + 1]
  BY <1>1, <1>2
<1>5. t \in Seq(S)
  <2>1. n - 1 \in Nat BY <1>1
  <2>2. t \in [1 .. n - 1 -> S] BY <1>1, <1>2, <1>4
  <2> QED BY <2>1, <2>2, SeqDef
<1>6. ASSUME IsInjective(s) PROVE IsInjective(t) /\ Range(t) = Range(s) \ {s[i]}
  <2>1. \A j, k \in 1 .. n : s[j] = s[k] => j = k BY <1>1, <1>6 DEF IsInjective
  <2>2. IsInjective(t)
    <3> SUFFICES ASSUME NEW j \in 1 .. n - 1, NEW k \in 1 .. n - 1, t[j] = t[k]
                 PROVE  j = k
      BY <1>3 DEF IsInjective
    <3>1. CASE j < i /\ k < i BY <1>4, <2>1, <3>1
    <3>2. CASE j < i /\ ~(k < i)
      <4>1. j = k + 1 BY <1>4, <2>1, <3>2
      <4> QED BY <1>1, <1>2, <3>2, <4>1
    <3>3. CASE ~(j < i) /\ k < i
      <4>1. s[j + 1] = s[k] BY <1>4, <3>3
      <4>2. j + 1 = k BY <1>4, <2>1, <4>1
      <4> QED BY <1>1, <1>2, <3>3, <4>2
    <3>4. CASE ~(j < i) /\ ~(k < i)
      <4>1. j + 1 = k + 1 BY <1>4, <2>1, <3>4
      <4> QED BY <4>1
    <3> QED BY <3>1, <3>2, <3>3, <3>4
  <2>3. ASSUME NEW j \in 1 .. n - 1 PROVE t[j] \in Range(s) \ {s[i]}
    <3>1. CASE j < i BY <1>1, <1>2, <1>4, <2>1, <3>1 DEF Range
    <3>2. CASE ~(j < i)
      <4>1. j + 1 # i BY <1>2, <3>2
      <4> QED BY <1>1, <1>2, <1>4, <2>1, <3>2, <4>1 DEF Range
    <3> QED BY <3>1, <3>2
  <2>4. ASSUME NEW k \in 1 .. n, k # i PROVE s[k] \in Range(t)
    <3>1. CASE k < i
      <4>1. k \in 1 .. n - 1 BY <1>1, <1>2, <3>1
      <4> QED BY <1>3, <1>4, <3>1, <4>1 DEF Range
    <3>2. CASE ~(k < i)
      <4>1. k - 1 \in 1 .. n - 1 /\ ~(k - 1 < i) /\ (k - 1) + 1 = k
        BY <1>1, <1>2, <2>4, <3>2
      <4>2. t[k - 1] = s[k] BY <1>4, <4>1
      <4> QED BY <1>3, <4>1, <4>2 DEF Range
    <3> QED BY <3>1, <3>2
  <2>5. Range(t) \subseteq Range(s) \ {s[i]} BY <1>3, <2>3 DEF Range
  <2>6. Range(s) \ {s[i]} \subseteq Range(t) BY <1>1, <2>4 DEF Range
  <2> QED BY <2>2, <2>5, <2>6
<1> QED BY <1>5, <1>6

-----------------------------------------------------------------------------
(* Sums as numbers of cells.                                                *)

Cells(S, f) == UNION {{r} \X (1 .. f[r]) : r \in S}

CellCount(S, f) == Cardinality(Cells(S, f))

(* Finitely many requests with finitely many blocks each.                   *)
LEMMA CellsFinite ==
    ASSUME NEW S, IsFiniteSet(S), NEW f, \A r \in S : f[r] \in Nat
    PROVE  IsFiniteSet(Cells(S, f)) /\ CellCount(S, f) \in Nat
  <1> DEFINE row(r) == {r} \X (1 .. f[r])
             T == {row(r) : r \in S}
             g == [r \in S |-> row(r)]
  <1>1. \A c \in T : IsFiniteSet(c)
    <2> SUFFICES ASSUME NEW r \in S PROVE IsFiniteSet(row(r))
      OBVIOUS
    <2> DEFINE len == f[r]
    <2>1. len \in Nat
      OBVIOUS
    <2> HIDE DEF len
    <2>2. IsFiniteSet({r})
      BY FS_Singleton
    <2>3. IsFiniteSet(1 .. len)
      BY <2>1, FS_Interval
    <2>4. IsFiniteSet({r} \X (1 .. len))
      BY <2>2, <2>3, FS_Product
    <2> QED BY <2>4 DEF len
  <1>2. g \in Surjection(S, T)
    BY DEF Surjection
  <1> HIDE DEF T, g
  <1>3. IsFiniteSet(T)
    BY <1>2, FS_Surjection
  <1>4. IsFiniteSet(UNION T)
    BY <1>1, <1>3, FS_UNION
  <1>5. Cardinality(UNION T) \in Nat
    BY <1>4, FS_CardinalityType
  <1> QED BY <1>4, <1>5 DEF CellCount, Cells, T

LEMMA CountNone ==
    ASSUME NEW f
    PROVE  IsFiniteSet(Cells({}, f)) /\ CellCount({}, f) = 0
  <1>1. Cells({}, f) = {}
    BY DEF Cells
  <1> QED BY <1>1, FS_EmptySet DEF CellCount

LEMMA CountAdd ==
    ASSUME NEW S, NEW f, IsFiniteSet(Cells(S, f)), NEW r, r \notin S, f[r] \in Nat
    PROVE  /\ IsFiniteSet(Cells(S \cup {r}, f))
           /\ CellCount(S \cup {r}, f) = CellCount(S, f) + f[r]
           /\ CellCount(S, f) \in Nat
  <1> DEFINE row == {r} \X (1 .. f[r])
  <1>1. IsFiniteSet(1 .. f[r]) /\ Cardinality(1 .. f[r]) = f[r]
    BY FS_Interval
  <1>2. IsFiniteSet(row) /\ Cardinality(row) = f[r]
    <2>1. IsFiniteSet({r}) /\ Cardinality({r}) = 1
      BY FS_Singleton
    <2>2. IsFiniteSet(row) /\ Cardinality(row) = Cardinality({r}) * Cardinality(1 .. f[r])
      BY <1>1, <2>1, FS_Product
    <2> QED BY <1>1, <2>1, <2>2
  <1>3. Cells(S \cup {r}, f) = Cells(S, f) \cup row
    BY DEF Cells
  <1>4. Cells(S, f) \cap row = {}
    BY DEF Cells
  <1> HIDE DEF row
  <1>5. Cardinality(Cells(S, f)) \in Nat
    BY FS_CardinalityType
  <1>6. /\ IsFiniteSet(Cells(S, f) \cup row)
        /\ Cardinality(Cells(S, f) \cup row) =
               Cardinality(Cells(S, f)) + Cardinality(row) - Cardinality({})
    <2>1. /\ IsFiniteSet(Cells(S, f) \cup row)
          /\ Cardinality(Cells(S, f) \cup row) =
                 Cardinality(Cells(S, f)) + Cardinality(row)
                     - Cardinality(Cells(S, f) \cap row)
      BY <1>2, FS_Union
    <2> QED BY <1>4, <2>1
  <1>7. Cardinality(Cells(S, f) \cup row) = Cardinality(Cells(S, f)) + f[r]
    BY <1>2, <1>5, <1>6, FS_EmptySet
  <1> QED BY <1>3, <1>5, <1>6, <1>7 DEF CellCount

LEMMA CountSubset ==
    ASSUME NEW S, NEW T, S \subseteq T, NEW f, IsFiniteSet(Cells(T, f))
    PROVE  CellCount(S, f) <= CellCount(T, f) /\ IsFiniteSet(Cells(S, f))
  <1>1. Cells(S, f) \in SUBSET Cells(T, f)
    BY DEF Cells
  <1> DEFINE A == Cells(S, f)
             B == Cells(T, f)
  <1> HIDE DEF A, B
  <1>2. IsFiniteSet(A) /\ Cardinality(A) <= Cardinality(B)
    BY <1>1, FS_Subset DEF A, B
  <1> QED BY <1>2 DEF CellCount, A, B

(* One request's count changes.                                             *)
LEMMA CountChange ==
    ASSUME NEW S, IsFiniteSet(S), NEW r \in S, NEW f, NEW g,
           \A q \in S : f[q] \in Nat /\ g[q] \in Nat,
           \A q \in S : q # r => g[q] = f[q]
    PROVE  CellCount(S, g) + f[r] = CellCount(S, f) + g[r]
  <1> DEFINE R == S \ {r}
  <1>1. IsFiniteSet(R)
    <2>1. R \in SUBSET S
      OBVIOUS
    <2> QED BY <2>1, FS_Subset
  <1>2. Cells(R, f) = Cells(R, g)
    BY DEF Cells
  <1>3. IsFiniteSet(Cells(R, f)) /\ IsFiniteSet(Cells(R, g))
    <2>1. \A q \in R : f[q] \in Nat /\ g[q] \in Nat
      OBVIOUS
    <2> QED BY <1>1, <2>1, CellsFinite
  <1>4. S = R \cup {r} /\ r \notin R /\ f[r] \in Nat /\ g[r] \in Nat
    OBVIOUS
  <1> HIDE DEF R
  <1>5. /\ CellCount(R \cup {r}, f) = CellCount(R, f) + f[r]
        /\ CellCount(R \cup {r}, g) = CellCount(R, g) + g[r]
        /\ CellCount(R, f) \in Nat
    BY <1>3, <1>4, CountAdd
  <1>6. CellCount(R, g) = CellCount(R, f)
    BY <1>2 DEF CellCount
  <1> QED BY <1>4, <1>5, <1>6

-----------------------------------------------------------------------------
(* Induction.  The library's induction rules take an operator; the least    *)
(* counterexample does not need one.                                        *)

LEMMA Smallest ==
    ASSUME NEW T \in SUBSET Nat, T # {}
    PROVE  \E x \in T : \A y \in T : x <= y
<1> DEFINE R == OpToRel(<, Nat)
<1>1. IsWellFoundedOn(R, Nat)
  BY NatLessThanWellFounded
<1>2. \A a, b \in Nat : a < b => <<a, b>> \in R
  BY DEF OpToRel
<1> HIDE DEF R
<1>3. PICK x \in T : \A y \in T : ~ (<<y, x>> \in R)
  BY <1>1, WFMin
<1>4. ASSUME NEW y \in T PROVE ~(y < x)
  <2>1. <<y, x>> \notin R BY <1>3
  <2>2. x \in Nat /\ y \in Nat OBVIOUS
  <2> QED BY <1>2, <2>1, <2>2
<1> QED BY <1>4

(* A set that has m and the successor of each of its members has m .. n.    *)
LEMMA UpTo ==
    ASSUME NEW m \in Nat, NEW n \in Nat, NEW S,
           m \in S,
           \A i \in m + 1 .. n : i - 1 \in S => i \in S
    PROVE  \A i \in m .. n : i \in S
<1> DEFINE T == {i \in m .. n : i \notin S}
<1>1. SUFFICES ASSUME T # {} PROVE FALSE
  OBVIOUS
<1>2. T \in SUBSET Nat
  OBVIOUS
<1>3. PICK x \in T : \A y \in T : x <= y
  <2> HIDE DEF T
  <2> QED BY <1>1, <1>2, Smallest
<1>4. x \in m + 1 .. n /\ x - 1 \in m .. n /\ x \notin S
  OBVIOUS
<1>5. x - 1 \notin T
  <2>1. x \in Int BY <1>4
  <2>2. ~(x <= x - 1) BY <2>1
  <2> QED BY <1>3, <2>2
<1>6. x - 1 \in S
  BY <1>4, <1>5
<1> QED BY <1>4, <1>6

(* Recursion over m .. n: a value for each step from the one before it.     *)
StaysIn(T, m, n, step) == \A x \in T : \A i \in m + 1 .. n : step[<<x, i>>] \in T

Computes(f, T, m, n, base, step) ==
    /\ f \in [m .. n -> T]
    /\ f[m] = base
    /\ \A i \in m + 1 .. n : f[i] = step[<<f[i - 1], i>>]

LEMMA Recursion ==
    ASSUME NEW T, NEW m \in Nat, NEW n \in Nat, m <= n, NEW base \in T,
           NEW step, StaysIn(T, m, n, step)
    PROVE  \E f : Computes(f, T, m, n, base, step)
<1> DEFINE Upto(k) == \E f \in [m .. k -> T] :
                          /\ f[m] = base
                          /\ \A i \in m + 1 .. k : f[i] = step[<<f[i - 1], i>>]
           S == {k \in m .. n : Upto(k)}
<1>1. m \in S
  <2> DEFINE f == [j \in m .. m |-> base]
  <2>1. f \in [m .. m -> T] /\ f[m] = base OBVIOUS
  <2>2. m + 1 .. m = {} OBVIOUS
  <2> HIDE DEF f
  <2>3. Upto(m) BY <2>1, <2>2
  <2> QED BY <2>3
<1>2. ASSUME NEW k \in m + 1 .. n, k - 1 \in S PROVE k \in S
  <2>1. PICK f \in [m .. k - 1 -> T] :
            /\ f[m] = base
            /\ \A i \in m + 1 .. k - 1 : f[i] = step[<<f[i - 1], i>>]
    BY <1>2
  <2> DEFINE g == [j \in m .. k |-> IF j = k THEN step[<<f[k - 1], k>>] ELSE f[j]]
  <2>2. k - 1 \in m .. k - 1 /\ k \in Nat BY <1>2
  <2>3. step[<<f[k - 1], k>>] \in T BY <2>2 DEF StaysIn
  <2>4. \A j \in m .. k : j = k \/ j \in m .. k - 1 BY <2>2
  <2>5. g \in [m .. k -> T] BY <2>1, <2>3, <2>4
  <2>6. g[m] = base /\ m \in m .. k /\ m # k BY <2>1, <1>2
  <2>7. ASSUME NEW i \in m + 1 .. k PROVE g[i] = step[<<g[i - 1], i>>]
    <3>1. i - 1 \in m .. k /\ i \in m .. k /\ i - 1 # k BY <2>2
    <3>2. g[i - 1] = f[i - 1] BY <3>1
    <3>3. CASE i = k BY <3>1, <3>2, <3>3
    <3>4. CASE i # k
      <4>1. i \in m + 1 .. k - 1 BY <2>2, <3>4
      <4>2. g[i] = f[i] BY <3>1, <3>4
      <4> QED BY <2>1, <3>2, <4>1, <4>2
    <3> QED BY <3>3, <3>4
  <2> HIDE DEF g
  <2>8. Upto(k) BY <2>5, <2>6, <2>7
  <2> QED BY <1>2, <2>2, <2>8
<1>3. \A k \in m .. n : k \in S
  <2> HIDE DEF S
  <2> QED BY <1>1, <1>2, UpTo
<1>4. n \in m .. n OBVIOUS
<1>5. Upto(n) BY <1>3, <1>4
<1> QED BY <1>5 DEF Computes

-----------------------------------------------------------------------------
(* Keep: the list comprehension with a condition.                           *)

KeepsBy(k, X, s, S) ==
    /\ k \in [0 .. Len(s) -> Seq(X)]
    /\ k[0] = <<>>
    /\ \A i \in 1 .. Len(s) :
           k[i] = IF s[i] \in S THEN Append(k[i - 1], s[i]) ELSE k[i - 1]
    /\ Keep(s, S) = k[Len(s)]

LEMMA KeepSteps ==
    ASSUME NEW X, NEW s \in Seq(X), NEW S
    PROVE  \E k : KeepsBy(k, X, s, S)
<1> DEFINE n == Len(s)
           F(f) == [i \in 0 .. n |->
                       IF i = 0 THEN <<>>
                       ELSE IF s[i] \in S THEN Append(f[i - 1], s[i]) ELSE f[i - 1]]
           kept == CHOOSE f : f = F(f)
<1>1. n \in Nat /\ \A i \in 1 .. n : s[i] \in X
  BY LenProperties
<1>2. Keep(s, S) = kept[n]
  BY DEF Keep
<1>3. kept = F(kept)
  <2> DEFINE step == [p \in Seq(X) \X (1 .. n) |->
                         IF s[p[2]] \in S THEN Append(p[1], s[p[2]]) ELSE p[1]]
  <2>1. \A x \in Seq(X) : \A i \in 0 + 1 .. n :
            step[<<x, i>>] = IF s[i] \in S THEN Append(x, s[i]) ELSE x
    OBVIOUS
  <2>2. \A x \in Seq(X) : \A i \in 0 + 1 .. n : step[<<x, i>>] \in Seq(X)
    <3> SUFFICES ASSUME NEW x \in Seq(X), NEW i \in 0 + 1 .. n PROVE step[<<x, i>>] \in Seq(X)
      OBVIOUS
    <3> HIDE DEF step
    <3>1. s[i] \in X BY <1>1
    <3>2. Append(x, s[i]) \in Seq(X) BY <3>1, AppendProperties
    <3> QED BY <2>1, <3>2
  <2>6. <<>> \in Seq(X) /\ 0 <= n /\ 0 \in Nat /\ n \in Nat BY <1>1
  <2>7. StaysIn(Seq(X), 0, n, step) BY <2>2 DEF StaysIn
  <2> HIDE DEF n, step
  <2>8. \E f : Computes(f, Seq(X), 0, n, <<>>, step)
    BY <2>6, <2>7, Recursion
  <2>3. PICK f \in [0 .. n -> Seq(X)] :
            /\ f[0] = <<>>
            /\ \A i \in 0 + 1 .. n : f[i] = step[<<f[i - 1], i>>]
    BY <2>8 DEF Computes
  <2>4. ASSUME NEW i \in 0 .. n PROVE f[i] = F(f)[i]
    <3>1. CASE i = 0 BY <2>3, <3>1
    <3>2. CASE i # 0
      <4>1. i \in 0 + 1 .. n /\ i - 1 \in 0 .. n BY <1>1, <3>2
      <4>2. f[i - 1] \in Seq(X) BY <4>1
      <4>3. f[i] = step[<<f[i - 1], i>>] BY <2>3, <4>1
      <4> QED BY <2>1, <3>2, <4>1, <4>2, <4>3
    <3> QED BY <3>1, <3>2
  <2>5. f = F(f) BY <2>4
  <2> QED BY <2>5
<1> HIDE DEF n, kept
<1>4. kept[0] = <<>> /\ DOMAIN kept = 0 .. n
  <2>1. 0 \in 0 .. n BY <1>1
  <2>2. F(kept)[0] = <<>> BY <2>1
  <2>3. DOMAIN F(kept) = 0 .. n OBVIOUS
  <2> HIDE DEF F
  <2> QED BY <1>3, <2>2, <2>3
<1>5. \A i \in 1 .. n : kept[i] = IF s[i] \in S THEN Append(kept[i - 1], s[i]) ELSE kept[i - 1]
  <2>1. \A i \in 1 .. n : i \in 0 .. n /\ i # 0 BY <1>1
  <2>2. \A i \in 1 .. n : F(kept)[i] = IF s[i] \in S THEN Append(kept[i - 1], s[i]) ELSE kept[i - 1]
    BY <2>1
  <2> HIDE DEF F
  <2> QED BY <1>3, <2>2
<1>6. \A i \in 0 .. n : kept[i] \in Seq(X)
  <2> DEFINE P == {i \in 0 .. n : kept[i] \in Seq(X)}
  <2>1. 0 \in P
    <3>1. 0 \in 0 .. n /\ <<>> \in Seq(X) BY <1>1
    <3> QED BY <1>4, <3>1
  <2>2. ASSUME NEW i \in 0 + 1 .. n, i - 1 \in P PROVE i \in P
    <3>1. i \in 1 .. n /\ i \in 0 .. n BY <1>1
    <3>3. kept[i - 1] \in Seq(X) BY <2>2
    <3>4. Append(kept[i - 1], s[i]) \in Seq(X) BY <1>1, <3>1, <3>3, AppendProperties
    <3>2. kept[i] \in Seq(X) BY <1>5, <3>1, <3>3, <3>4
    <3> QED BY <3>1, <3>2
  <2> HIDE DEF P
  <2>3. \A i \in 0 .. n : i \in P BY <1>1, <2>1, <2>2, UpTo
  <2> QED BY <2>3 DEF P
<1>7. kept \in [0 .. n -> Seq(X)]
  <2>1. kept = [i \in 0 .. n |-> kept[i]]
    <3>1. F(kept) = [i \in DOMAIN F(kept) |-> F(kept)[i]] OBVIOUS
    <3> HIDE DEF F
    <3> QED BY <1>3, <1>4, <3>1
  <2> QED BY <1>6, <2>1
<1>8. KeepsBy(kept, X, s, S)
  BY <1>1, <1>2, <1>4, <1>5, <1>7 DEF n, KeepsBy
<1> QED BY <1>8

LEMMA KeepElements ==
    ASSUME NEW X, NEW s \in Seq(X), NEW S
    PROVE  /\ Keep(s, S) \in Seq(X)
           /\ Range(Keep(s, S)) = Range(s) \cap S
           /\ IsInjective(s) => IsInjective(Keep(s, S))
<1> DEFINE n == Len(s)
           First(i) == {s[j] : j \in 1 .. i}
<1>1. PICK k : KeepsBy(k, X, s, S)
  BY KeepSteps
<1>2. /\ \A i \in 0 .. n : k[i] \in Seq(X)
      /\ k[0] = <<>>
      /\ \A i \in 1 .. n : k[i] = IF s[i] \in S THEN Append(k[i - 1], s[i]) ELSE k[i - 1]
      /\ Keep(s, S) = k[n]
  BY <1>1 DEF KeepsBy
<1>3. n \in Nat /\ DOMAIN s = 1 .. n /\ \A i \in 1 .. n : s[i] \in X
  BY LenProperties
<1>4. Range(s) = First(n)
  BY <1>3 DEF Range
<1> HIDE DEF n
<1>5. \A i \in 1 .. n : /\ i \in 0 .. n /\ i - 1 \in 0 .. n
                         /\ First(i) = First(i - 1) \cup {s[i]}
                         /\ \A j \in 1 .. i - 1 : j \in 1 .. n /\ j # i
  <2> SUFFICES ASSUME NEW i \in 1 .. n
               PROVE  /\ i \in 0 .. n /\ i - 1 \in 0 .. n
                      /\ First(i) = First(i - 1) \cup {s[i]}
                      /\ \A j \in 1 .. i - 1 : j \in 1 .. n /\ j # i
    OBVIOUS
  <2>1. i \in 0 .. n /\ i - 1 \in 0 .. n /\ i \in 1 .. i BY <1>3
  <2>2. \A j : j \in 1 .. i <=> j \in 1 .. i - 1 \/ j = i BY <1>3
  <2>3. First(i) = First(i - 1) \cup {s[i]} BY <2>1, <2>2
  <2>4. \A j \in 1 .. i - 1 : j \in 1 .. n /\ j # i BY <1>3
  <2> QED BY <2>1, <2>3, <2>4
<1>6. First(0) = {} OBVIOUS
<1> HIDE DEF First
<1> DEFINE P == {i \in 0 .. n : /\ Range(k[i]) = First(i) \cap S
                                /\ IsInjective(s) => IsInjective(k[i])}
<1>7. 0 \in P
  BY <1>2, <1>3, <1>6, EmptyRange
<1>8. ASSUME NEW i \in 0 + 1 .. n, i - 1 \in P PROVE i \in P
  <2>1. i \in 1 .. n /\ i \in 0 .. n /\ i - 1 \in 0 .. n BY <1>3, <1>5
  <2>2. /\ k[i - 1] \in Seq(X) /\ s[i] \in X
        /\ Range(k[i - 1]) = First(i - 1) \cap S
        /\ IsInjective(s) => IsInjective(k[i - 1])
        /\ First(i) = First(i - 1) \cup {s[i]}
    BY <1>2, <1>3, <1>5, <1>8, <2>1
  <2>3. CASE s[i] \notin S
    <3>1. k[i] = k[i - 1] BY <1>2, <2>1, <2>3
    <3> QED BY <2>1, <2>2, <2>3, <3>1
  <2>4. CASE s[i] \in S
    <3>1. k[i] = Append(k[i - 1], s[i]) BY <1>2, <2>1, <2>4
    <3>2. Range(Append(k[i - 1], s[i])) = Range(k[i - 1]) \cup {s[i]}
      BY <2>2, AppendElements
    <3>3. ASSUME IsInjective(s) PROVE IsInjective(Append(k[i - 1], s[i]))
      <4>1. s[i] \notin First(i - 1)
        BY <1>3, <1>5, <2>1, <3>3 DEF First, IsInjective
      <4>2. s[i] \notin Range(k[i - 1]) /\ IsInjective(k[i - 1]) BY <2>2, <3>3, <4>1
      <4> QED BY <2>2, <4>2, AppendElements
    <3> QED BY <2>1, <2>2, <2>4, <3>1, <3>2, <3>3
  <2> QED BY <2>3, <2>4
<1>9. n \in P
  <2> HIDE DEF P
  <2>1. \A i \in 0 .. n : i \in P BY <1>3, <1>7, <1>8, UpTo
  <2> QED BY <1>3, <2>1
<1> QED BY <1>2, <1>3, <1>4, <1>9

LEMMA KeepNone ==
    ASSUME NEW X, NEW s \in Seq(X), NEW S, Range(s) \cap S = {}
    PROVE  Keep(s, S) = <<>>
<1>1. Keep(s, S) \in Seq(X) /\ Range(Keep(s, S)) = {}
  BY KeepElements
<1> DEFINE t == Keep(s, S)
<1> HIDE DEF t
<1>2. t \in Seq(X) /\ Range(t) = {} BY <1>1 DEF t
<1>3. ASSUME t # <<>> PROVE FALSE
  <2>1. Len(t) \in Nat /\ Len(t) # 0 /\ DOMAIN t = 1 .. Len(t)
    BY <1>2, <1>3, EmptySeq, LenProperties
  <2>2. 1 \in DOMAIN t BY <2>1
  <2> QED BY <1>2, <2>2 DEF Range
<1> QED BY <1>3 DEF t

LEMMA KeepAll ==
    ASSUME NEW X, NEW s \in Seq(X), NEW S, Range(s) \subseteq S
    PROVE  Keep(s, S) = s
<1> DEFINE n == Len(s)
<1>1. PICK k : KeepsBy(k, X, s, S)
  BY KeepSteps
<1>2. /\ \A i \in 0 .. n : k[i] \in Seq(X)
      /\ k[0] = <<>>
      /\ \A i \in 1 .. n : k[i] = IF s[i] \in S THEN Append(k[i - 1], s[i]) ELSE k[i - 1]
      /\ Keep(s, S) = k[n]
  BY <1>1 DEF KeepsBy
<1>3. /\ n \in Nat /\ DOMAIN s = 1 .. n
      /\ \A i \in 1 .. n : s[i] \in X /\ s[i] \in S
  BY LenProperties DEF Range
<1> HIDE DEF n
<1> DEFINE P == {i \in 0 .. n : Len(k[i]) = i /\ \A j \in 1 .. i : k[i][j] = s[j]}
<1>4. 0 \in P
  BY <1>2, <1>3
<1>5. ASSUME NEW i \in 0 + 1 .. n, i - 1 \in P PROVE i \in P
  <2>1. i \in 1 .. n /\ i \in 0 .. n /\ i - 1 \in 0 .. n BY <1>3
  <2>2. /\ k[i - 1] \in Seq(X) /\ s[i] \in X /\ k[i] = Append(k[i - 1], s[i])
        /\ Len(k[i - 1]) = i - 1 /\ \A j \in 1 .. i - 1 : k[i - 1][j] = s[j]
    BY <1>2, <1>3, <1>5, <2>1
  <2> DEFINE t == k[i - 1]
             e == s[i]
  <2>3. /\ Len(Append(t, e)) = Len(t) + 1
        /\ \A j \in 1 .. Len(t) : Append(t, e)[j] = t[j]
        /\ Append(t, e)[Len(t) + 1] = e
    <3> HIDE DEF t, e
    <3>1. t \in Seq(X) /\ e \in X BY <2>2 DEF t, e
    <3> QED BY <3>1, AppendProperties
  <2>4. Len(k[i]) = i BY <2>1, <2>2, <2>3
  <2>5. ASSUME NEW j \in 1 .. i PROVE k[i][j] = s[j]
    <3>1. CASE j = i BY <2>1, <2>2, <2>3, <3>1
    <3>2. CASE j # i
      <4>1. j \in 1 .. i - 1 BY <2>1, <3>2
      <4> QED BY <2>2, <2>3, <4>1
    <3> QED BY <3>1, <3>2
  <2> QED BY <2>1, <2>4, <2>5
<1>6. n \in P
  <2> HIDE DEF P
  <2>1. \A i \in 0 .. n : i \in P BY <1>3, <1>4, <1>5, UpTo
  <2> QED BY <1>3, <2>1
<1>7. k[n] \in Seq(X) /\ Len(k[n]) = n /\ \A j \in 1 .. n : k[n][j] = s[j]
  BY <1>2, <1>3, <1>6
<1> DEFINE u == k[n]
<1> HIDE DEF u, P
<1>8. u = s
  <2>1. u \in Seq(X) /\ Len(u) = Len(s) /\ \A j \in 1 .. Len(u) : u[j] = s[j]
    BY <1>7 DEF u, n
  <2> QED BY <2>1, SeqEqual
<1> QED BY <1>2, <1>8 DEF u

LEMMA ConcatAppend ==
    ASSUME NEW X, NEW s \in Seq(X), NEW t \in Seq(X), NEW e \in X
    PROVE  s \o Append(t, e) = Append(s \o t, e) /\ s \o <<>> = s
<1> DEFINE a == Append(t, e)
           l == s \o a
           r == Append(s \o t, e)
           c == s \o t
           m == Len(s)
           n == Len(t)
<1>1. /\ a \in Seq(X) /\ Len(a) = n + 1 /\ a[n + 1] = e
      /\ \A i \in 1 .. n : a[i] = t[i]
  BY AppendProperties
<1>2. /\ c \in Seq(X) /\ Len(c) = m + n
      /\ \A i \in 1 .. m + n : c[i] = IF i <= m THEN s[i] ELSE t[i - m]
  BY ConcatProperties
<1>3. m \in Nat /\ n \in Nat
  BY LenProperties
<1> HIDE DEF a, c, m, n
<1>4. /\ l \in Seq(X) /\ Len(l) = m + (n + 1)
      /\ \A i \in 1 .. m + (n + 1) : l[i] = IF i <= m THEN s[i] ELSE a[i - m]
  <2>1. /\ s \o a \in Seq(X) /\ Len(s \o a) = Len(s) + Len(a)
        /\ \A i \in 1 .. Len(s) + Len(a) :
               (s \o a)[i] = IF i <= Len(s) THEN s[i] ELSE a[i - Len(s)]
    BY <1>1, ConcatProperties
  <2> QED BY <1>1, <2>1 DEF m
<1>5. /\ Append(c, e) \in Seq(X) /\ Len(Append(c, e)) = (m + n) + 1
      /\ Append(c, e)[(m + n) + 1] = e
      /\ \A i \in 1 .. m + n : Append(c, e)[i] = c[i]
  BY <1>2, AppendProperties
<1> DEFINE d == Append(c, e)
<1> HIDE DEF l, d
<1>6. ASSUME NEW i \in 1 .. Len(l) PROVE l[i] = d[i]
  <2>0. i \in 1 .. m + (n + 1) BY <1>4
  <2>1. CASE i \in 1 .. m
    <3>1. i \in 1 .. m + n /\ i <= m BY <1>3, <2>1
    <3> QED BY <1>2, <1>4, <1>5, <2>0, <3>1 DEF d
  <2>2. CASE i - m \in 1 .. n
    <3>1. i \in 1 .. m + n /\ ~(i <= m) BY <1>3, <2>0, <2>2
    <3> QED BY <1>1, <1>2, <1>4, <1>5, <2>0, <2>2, <3>1 DEF d
  <2>3. CASE i = (m + n) + 1
    <3>1. i - m = n + 1 /\ ~(i <= m) BY <1>3, <2>0, <2>3
    <3> QED BY <1>1, <1>4, <1>5, <2>0, <2>3, <3>1 DEF d
  <2> QED BY <1>3, <2>0, <2>1, <2>2, <2>3
<1>7. l = d
  <2>1. l \in Seq(X) /\ d \in Seq(X) /\ Len(l) = Len(d) BY <1>3, <1>4, <1>5 DEF d
  <2> QED BY <1>6, <2>1, SeqEqual
<1>8. s \o <<>> = s
  BY ConcatEmptySeq
<1> QED BY <1>7, <1>8 DEF l, d, a, c

LEMMA KeepConcat ==
    ASSUME NEW X, NEW s \in Seq(X), NEW t \in Seq(X), NEW S
    PROVE  Keep(s \o t, S) = Keep(s, S) \o Keep(t, S)
<1> DEFINE u == s \o t
           m == Len(s)
           n == Len(t)
<1>1. /\ u \in Seq(X) /\ Len(u) = m + n /\ m \in Nat /\ n \in Nat
      /\ \A i \in 1 .. m + n : u[i] = IF i <= m THEN s[i] ELSE t[i - m]
      /\ \A j \in 1 .. n : t[j] \in X
  BY ConcatProperties, LenProperties
<1> HIDE DEF u
<1>2. PICK ku : KeepsBy(ku, X, u, S) BY <1>1, KeepSteps
<1>3. PICK ks : KeepsBy(ks, X, s, S) BY KeepSteps
<1>4. PICK kt : KeepsBy(kt, X, t, S) BY KeepSteps
<1>5. /\ ku[0] = <<>> /\ Keep(u, S) = ku[m + n]
      /\ \A i \in 1 .. m + n :
             ku[i] = IF u[i] \in S THEN Append(ku[i - 1], u[i]) ELSE ku[i - 1]
  BY <1>1, <1>2 DEF KeepsBy
<1>6. /\ ks[0] = <<>> /\ Keep(s, S) = ks[m] /\ \A i \in 0 .. m : ks[i] \in Seq(X)
      /\ \A i \in 1 .. m : ks[i] = IF s[i] \in S THEN Append(ks[i - 1], s[i]) ELSE ks[i - 1]
  BY <1>3 DEF KeepsBy
<1>7. /\ kt[0] = <<>> /\ Keep(t, S) = kt[n] /\ \A i \in 0 .. n : kt[i] \in Seq(X)
      /\ \A i \in 1 .. n : kt[i] = IF t[i] \in S THEN Append(kt[i - 1], t[i]) ELSE kt[i - 1]
  BY <1>4 DEF KeepsBy
<1> HIDE DEF m, n
<1>8. \A i \in 0 .. m : ku[i] = ks[i]
  <2> DEFINE P == {i \in 0 .. m : ku[i] = ks[i]}
  <2>1. 0 \in P BY <1>1, <1>5, <1>6
  <2>2. ASSUME NEW i \in 0 + 1 .. m, i - 1 \in P PROVE i \in P
    <3>1. i \in 1 .. m /\ i \in 1 .. m + n /\ i \in 0 .. m /\ i <= m BY <1>1
    <3>2. ku[i - 1] = ks[i - 1] BY <2>2
    <3>3. u[i] = s[i] BY <1>1, <3>1
    <3> QED BY <1>5, <1>6, <3>1, <3>2, <3>3
  <2> HIDE DEF P
  <2>3. \A i \in 0 .. m : i \in P BY <1>1, <2>1, <2>2, UpTo
  <2> QED BY <2>3 DEF P
<1>9. \A j \in 0 .. n : ku[m + j] = ks[m] \o kt[j]
  <2> DEFINE P == {j \in 0 .. n : ku[m + j] = ks[m] \o kt[j]}
  <2>0. ks[m] \in Seq(X) BY <1>1, <1>6
  <2>1. 0 \in P
    <3>1. ku[m + 0] = ks[m] BY <1>1, <1>8
    <3>2. ks[m] \o <<>> = ks[m] BY <2>0, ConcatEmptySeq
    <3>3. 0 \in 0 .. n BY <1>1
    <3> QED BY <1>7, <3>1, <3>2, <3>3
  <2>2. ASSUME NEW j \in 0 + 1 .. n, j - 1 \in P PROVE j \in P
    <3>1. /\ j \in 1 .. n /\ j \in 0 .. n /\ j - 1 \in 0 .. n /\ m + j \in 1 .. m + n
          /\ ~(m + j <= m) /\ (m + j) - m = j /\ (m + j) - 1 = m + (j - 1)
      BY <1>1
    <3>2. ku[m + (j - 1)] = ks[m] \o kt[j - 1] BY <2>2
    <3>3. u[m + j] = t[j] BY <1>1, <3>1
    <3>4. ku[m + j] = IF t[j] \in S THEN Append(ks[m] \o kt[j - 1], t[j]) ELSE ks[m] \o kt[j - 1]
      BY <1>5, <3>1, <3>2, <3>3
    <3>5. kt[j] = IF t[j] \in S THEN Append(kt[j - 1], t[j]) ELSE kt[j - 1]
      BY <1>7, <3>1
    <3>6. ks[m] \o Append(kt[j - 1], t[j]) = Append(ks[m] \o kt[j - 1], t[j])
      <4> DEFINE a == ks[m]
                 b == kt[j - 1]
                 e == t[j]
      <4>1. a \in Seq(X) /\ b \in Seq(X) /\ e \in X BY <1>1, <1>7, <2>0, <3>1
      <4> HIDE DEF a, b, e
      <4>2. a \o Append(b, e) = Append(a \o b, e) BY <4>1, ConcatAppend
      <4> QED BY <4>2 DEF a, b, e
    <3>7. ku[m + j] = ks[m] \o kt[j]
      <4>1. CASE t[j] \in S BY <3>4, <3>5, <3>6, <4>1
      <4>2. CASE t[j] \notin S BY <3>4, <3>5, <4>2
      <4> QED BY <4>1, <4>2
    <3> QED BY <3>1, <3>7
  <2> HIDE DEF P
  <2>3. \A j \in 0 .. n : j \in P BY <1>1, <2>1, <2>2, UpTo
  <2> QED BY <2>3 DEF P
<1>10. n \in 0 .. n BY <1>1
<1> QED BY <1>5, <1>6, <1>7, <1>9, <1>10 DEF u

-----------------------------------------------------------------------------
(* The sum over a list, up to n.                                            *)

SumsBy(g, I, s, n, f) ==
    /\ g \in [0 .. n -> Int]
    /\ g[0] = 0
    /\ \A k \in 1 .. n : g[k] = g[k - 1] + IF k \in I THEN f[s[k]] ELSE 0
    /\ SumOver(I, s, n, f) = g[n]

LEMMA SumSteps ==
    ASSUME NEW I, NEW X, NEW s \in Seq(X), NEW n \in 0 .. Len(s), NEW f \in [X -> Int]
    PROVE  /\ \E g : SumsBy(g, I, s, n, f)
           /\ SumOver(I, s, n, f) \in Int
<1> DEFINE w == [k \in 1 .. n |-> IF k \in I THEN f[s[k]] ELSE 0]
           F(g) == [k \in 0 .. n |-> IF k = 0 THEN 0 ELSE g[k - 1] + IF k \in I THEN f[s[k]] ELSE 0]
           sum == CHOOSE g : g = F(g)
<1>1. n \in Nat /\ \A k \in 1 .. n : w[k] = (IF k \in I THEN f[s[k]] ELSE 0) /\ w[k] \in Int
  <2>1. Len(s) \in Nat /\ \A k \in 1 .. Len(s) : s[k] \in X BY LenProperties
  <2>2. n \in Nat /\ \A k \in 1 .. n : s[k] \in X BY <2>1
  <2>3. \A k \in 1 .. n : (IF k \in I THEN f[s[k]] ELSE 0) \in Int BY <2>2
  <2> QED BY <2>2, <2>3
<1>2. SumOver(I, s, n, f) = sum[n]
  BY DEF SumOver
<1>3. sum = F(sum)
  <2> DEFINE step == [p \in Int \X (1 .. n) |-> p[1] + w[p[2]]]
  <2>1. ASSUME NEW x \in Int, NEW i \in 0 + 1 .. n PROVE step[<<x, i>>] = x + w[i]
    <3> HIDE DEF w
    <3>1. i \in 1 .. n BY <1>1
    <3>2. <<x, i>> \in Int \X (1 .. n) BY <3>1
    <3> QED BY <3>2
  <2>2. \A x \in Int : \A i \in 0 + 1 .. n : step[<<x, i>>] \in Int
    <3> HIDE DEF step, w
    <3>1. \A i \in 0 + 1 .. n : i \in 1 .. n BY <1>1
    <3>2. \A x \in Int : \A i \in 0 + 1 .. n : x + w[i] \in Int BY <1>1, <3>1
    <3> QED BY <2>1, <3>2
  <2>3. StaysIn(Int, 0, n, step) BY <2>2 DEF StaysIn
  <2> HIDE DEF step, w
  <2>4. 0 <= n /\ 0 \in Int /\ 0 \in Nat /\ n \in Nat BY <1>1
  <2>5. \E g : Computes(g, Int, 0, n, 0, step)
    BY <2>3, <2>4, Recursion
  <2>6. PICK g \in [0 .. n -> Int] :
            /\ g[0] = 0
            /\ \A i \in 0 + 1 .. n : g[i] = step[<<g[i - 1], i>>]
    BY <2>5 DEF Computes
  <2>7. ASSUME NEW i \in 0 .. n PROVE g[i] = F(g)[i]
    <3>1. CASE i = 0 BY <2>6, <3>1
    <3>2. CASE i # 0
      <4>1. i \in 0 + 1 .. n /\ i - 1 \in 0 .. n /\ i \in 1 .. n BY <1>1, <3>2
      <4>2. g[i - 1] \in Int BY <4>1
      <4>3. g[i] = g[i - 1] + w[i] BY <2>1, <2>6, <4>1, <4>2
      <4> QED BY <1>1, <3>2, <4>1, <4>3
    <3> QED BY <3>1, <3>2
  <2>8. g = F(g) BY <2>7
  <2> QED BY <2>8
<1> HIDE DEF w, sum
<1>4. sum[0] = 0
  <2>1. 0 \in 0 .. n BY <1>1
  <2>2. F(sum)[0] = 0 BY <2>1
  <2> HIDE DEF F
  <2> QED BY <1>3, <2>2
<1>5. \A i \in 1 .. n : sum[i] = sum[i - 1] + w[i]
  <2>1. \A i \in 1 .. n : i \in 0 .. n /\ i # 0 BY <1>1
  <2>2. \A i \in 1 .. n : F(sum)[i] = sum[i - 1] + IF i \in I THEN f[s[i]] ELSE 0 BY <2>1
  <2> HIDE DEF F
  <2> QED BY <1>1, <1>3, <2>2
<1> DEFINE P == {i \in 0 .. n : sum[i] \in Int}
<1>6. 0 \in P BY <1>1, <1>4
<1>7. ASSUME NEW i \in 0 + 1 .. n, i - 1 \in P PROVE i \in P
  <2>1. i \in 1 .. n /\ i \in 0 .. n BY <1>1
  <2>2. PICK x \in Int, y \in Int : x = sum[i - 1] /\ y = w[i] BY <1>1, <1>7, <2>1
  <2>3. sum[i] = x + y BY <1>5, <2>1, <2>2
  <2> QED BY <2>1, <2>3
<1>8. \A i \in 0 .. n : i \in P
  <2> HIDE DEF P
  <2> QED BY <1>1, <1>6, <1>7, UpTo
<1>9. \A i \in 0 .. n : sum[i] \in Int
  BY <1>8
<1>10. sum \in [0 .. n -> Int]
  <2>1. sum = [i \in 0 .. n |-> sum[i]] BY <1>3
  <2> QED BY <1>9, <2>1
<1>11. \A i \in 1 .. n : sum[i] = sum[i - 1] + IF i \in I THEN f[s[i]] ELSE 0
  BY <1>1, <1>5
<1>12. SumsBy(sum, I, s, n, f)
  BY <1>2, <1>4, <1>10, <1>11 DEF SumsBy
<1>13. n \in 0 .. n BY <1>1
<1> QED BY <1>2, <1>9, <1>12, <1>13

(* Two sums agree as far as their sets of indices do.                       *)
AgreeUpTo(I, J, k) == \A i \in 1 .. k : i \in I <=> i \in J

LEMMA SumsAgree ==
    ASSUME NEW I, NEW J, NEW X, NEW s \in Seq(X), NEW f \in [X -> Int],
           NEW m \in 0 .. Len(s), NEW n \in 0 .. Len(s),
           NEW g, SumsBy(g, I, s, m, f),
           NEW h, SumsBy(h, J, s, n, f),
           NEW k \in Nat, k <= m, k <= n, AgreeUpTo(I, J, k)
    PROVE  g[k] = h[k]
<1>1. /\ m \in Nat /\ n \in Nat /\ g[0] = 0 /\ h[0] = 0
      /\ \A i \in 1 .. m : g[i] = g[i - 1] + IF i \in I THEN f[s[i]] ELSE 0
      /\ \A i \in 1 .. n : h[i] = h[i - 1] + IF i \in J THEN f[s[i]] ELSE 0
      /\ \A i \in 1 .. k : i \in I <=> i \in J
  BY LenProperties DEF SumsBy, AgreeUpTo
<1> DEFINE P == {i \in 0 .. k : g[i] = h[i]}
<1>2. 0 \in P BY <1>1
<1>3. ASSUME NEW i \in 0 + 1 .. k, i - 1 \in P PROVE i \in P
  <2>1. i \in 1 .. k /\ i \in 0 .. k /\ i \in 1 .. m /\ i \in 1 .. n BY <1>1
  <2> QED BY <1>1, <1>3, <2>1
<1>4. \A i \in 0 .. k : i \in P
  <2> HIDE DEF P
  <2>1. 0 \in Nat OBVIOUS
  <2> QED BY <1>2, <1>3, <2>1, UpTo
<1>5. k \in 0 .. k OBVIOUS
<1> QED BY <1>4, <1>5

LEMMA SumOverSame ==
    ASSUME NEW I, NEW J, NEW X, NEW s \in Seq(X), NEW n \in 0 .. Len(s), NEW f \in [X -> Int],
           AgreeUpTo(I, J, n)
    PROVE  SumOver(I, s, n, f) = SumOver(J, s, n, f)
<1>1. PICK g : SumsBy(g, I, s, n, f) BY SumSteps
<1>2. PICK h : SumsBy(h, J, s, n, f) BY SumSteps
<1>3. n \in Nat /\ n <= n BY LenProperties
<1>4. g[n] = h[n] BY <1>1, <1>2, <1>3, SumsAgree
<1> QED BY <1>1, <1>2, <1>4 DEF SumsBy

SumsUp(I, s, f) ==
    /\ SumOver(I, s, 0, f) = 0
    /\ \A n \in 1 .. Len(s) :
           SumOver(I, s, n, f) = SumOver(I, s, n - 1, f) + IF n \in I THEN f[s[n]] ELSE 0

LEMMA SumOverNext ==
    ASSUME NEW I, NEW X, NEW s \in Seq(X), NEW f \in [X -> Int]
    PROVE  SumsUp(I, s, f)
<1>1. Len(s) \in Nat BY LenProperties
<1>2. SumOver(I, s, 0, f) = 0
  <2>1. 0 \in 0 .. Len(s) BY <1>1
  <2>2. PICK g : SumsBy(g, I, s, 0, f) BY <2>1, SumSteps
  <2> QED BY <2>2 DEF SumsBy
<1>3. ASSUME NEW n \in 1 .. Len(s)
      PROVE  SumOver(I, s, n, f) = SumOver(I, s, n - 1, f) + IF n \in I THEN f[s[n]] ELSE 0
  <2> DEFINE k == n - 1
  <2>1. n \in 0 .. Len(s) /\ k \in 0 .. Len(s) /\ k \in Nat /\ k <= n /\ k <= k
    BY <1>1
  <2>2. PICK g : SumsBy(g, I, s, n, f) BY <2>1, SumSteps
  <2> HIDE DEF k
  <2>3. PICK h : SumsBy(h, I, s, k, f) BY <2>1, SumSteps
  <2> AgreeUpTo(I, I, k) BY DEF AgreeUpTo
  <2>4. h[k] = g[k] BY <2>1, <2>2, <2>3, SumsAgree
  <2>5. n \in 1 .. n BY <1>1
  <2> QED BY <2>2, <2>3, <2>4, <2>5 DEF SumsBy, k
<1> QED BY <1>2, <1>3 DEF SumsUp

(* What is kept of a list with one more element.                            *)
LEMMA KeepAppend ==
    ASSUME NEW X, NEW s \in Seq(X), NEW e \in X, NEW S
    PROVE  Keep(Append(s, e), S) = IF e \in S THEN Append(Keep(s, S), e) ELSE Keep(s, S)
<1> DEFINE k == Keep(s, S)
           o == <<e>>
<1>1. o \in Seq(X) /\ Range(o) = {e} /\ Append(s, e) = s \o o
  <2>1. o \in Seq(X) /\ Len(o) = 1 /\ o[1] = e OBVIOUS
  <2>2. Range(o) = {e} BY <2>1 DEF Range
  <2>3. <<>> \in Seq(X) /\ o = Append(<<>>, e) OBVIOUS
  <2>4. s \o Append(<<>>, e) = Append(s \o <<>>, e) /\ s \o <<>> = s
    BY <2>3, ConcatAppend
  <2> QED BY <2>1, <2>2, <2>3, <2>4
<1>2. k \in Seq(X) BY KeepElements
<1> HIDE DEF o
<1>3. Keep(s \o o, S) = k \o Keep(o, S) BY <1>1, KeepConcat
<1>4. CASE e \in S
  <2>1. Keep(o, S) = o BY <1>1, <1>4, KeepAll
  <2>2. <<>> \in Seq(X) /\ o = Append(<<>>, e) BY DEF o
  <2> HIDE DEF k
  <2>3. k \o Append(<<>>, e) = Append(k \o <<>>, e) /\ k \o <<>> = k
    BY <1>2, <2>2, ConcatAppend
  <2>4. k \o o = Append(k, e) BY <2>2, <2>3
  <2> QED BY <1>1, <1>3, <1>4, <2>1, <2>4 DEF k
<1>5. CASE e \notin S
  <2>1. Keep(o, S) = <<>> BY <1>1, <1>5, KeepNone
  <2> HIDE DEF k
  <2>2. k \o <<>> = k BY <1>2, ConcatEmptySeq
  <2> QED BY <1>1, <1>3, <1>5, <2>1, <2>2 DEF k
<1> QED BY <1>4, <1>5

=============================================================================
