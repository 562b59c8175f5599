----------------------- MODULE OverlapExecutorProofs -----------------------
(***************************************************************************)
(* The overlapped executor keeps its tokens and its requests apart, for    *)
(* every set of requests, prompts, parameters and budgets and every number *)
(* of forward passes that raise: OwnNextToken, FedInOrder and              *)
(* DeliveredOnce are invariants of Spec.                                   *)
(*                                                                         *)
(* A token is sampled in one call and applied in the next, so none of them *)
(* is inductive alone.  The invariant says what lies in between: whose     *)
(* token prev holds, that everyone who decodes and is not answered has one *)
(* (unless a forward pass raised), how far the model has read each         *)
(* request, and what the batch of a call that runs may hold.               *)
(*                                                                         *)
(* The last section has the theorems about ResponseManager, the other part *)
(* of engine/executor.py.                                                  *)
(***************************************************************************)
EXTENDS OverlapExecutor, ResponseManager, DataLemmas

(* Flattened lists.                                                         *)

FlattensBy(f, X, parts) ==
    /\ f \in [1 .. Len(parts) -> Seq(X)]
    /\ f[1] = parts[1]
    /\ \A i \in 2 .. Len(parts) : f[i] = f[i - 1] \o parts[i]
    /\ FlattenSeq(parts) = f[Len(parts)]

LEMMA FlattenSteps ==
    ASSUME NEW X, NEW parts \in Seq(Seq(X)), parts # <<>>
    PROVE  \E f : FlattensBy(f, X, parts)
<1> DEFINE n == Len(parts)
           F(f) == [i \in 1 .. n |-> IF i = 1 THEN parts[i] ELSE f[i - 1] \o parts[i]]
           flat == CHOOSE f : f = F(f)
<1>1. n \in Nat /\ 1 <= n /\ \A i \in 1 .. n : parts[i] \in Seq(X)
  <2>1. n \in Nat /\ \A i \in 1 .. n : parts[i] \in Seq(X) BY LenProperties
  <2>2. n # 0 BY EmptySeq
  <2> QED BY <2>1, <2>2
<1>2. FlattenSeq(parts) = flat[n]
  <2>1. Len(parts) # 0 BY <1>1
  <2> QED BY <2>1 DEF FlattenSeq
<1>3. flat = F(flat)
  <2> DEFINE step == [p \in Seq(X) \X (2 .. n) |-> p[1] \o parts[p[2]]]
  <2>1. ASSUME NEW x \in Seq(X), NEW i \in 1 + 1 .. n PROVE step[<<x, i>>] = x \o parts[i]
    <3>1. i \in 2 .. n BY <1>1
    <3>2. <<x, i>> \in Seq(X) \X (2 .. n) BY <3>1
    <3> QED BY <3>2
  <2>2. ASSUME NEW x \in Seq(X), NEW i \in 1 + 1 .. n PROVE step[<<x, i>>] \in Seq(X)
    <3> HIDE DEF step
    <3>1. i \in 1 .. n BY <1>1
    <3>2. parts[i] \in Seq(X) BY <1>1, <3>1
    <3>3. x \o parts[i] \in Seq(X) BY <3>2, ConcatProperties
    <3> QED BY <2>1, <3>3
  <2>3. StaysIn(Seq(X), 1, n, step) BY <2>2 DEF StaysIn
  <2> DEFINE base == parts[1]
  <2>4. 1 \in Nat /\ base \in Seq(X) BY <1>1
  <2> HIDE DEF n, step, base
  <2>5. \E f : Computes(f, Seq(X), 1, n, base, step)
    BY <1>1, <2>3, <2>4, Recursion
  <2>6. PICK f \in [1 .. n -> Seq(X)] :
            /\ f[1] = base
            /\ \A i \in 1 + 1 .. n : f[i] = step[<<f[i - 1], i>>]
    BY <2>5 DEF Computes
  <2>7. ASSUME NEW i \in 1 .. n PROVE f[i] = F(f)[i]
    <3>1. CASE i = 1 BY <2>6, <3>1 DEF base
    <3>2. CASE i # 1
      <4>1. i \in 1 + 1 .. n /\ i - 1 \in 1 .. n BY <1>1, <3>2
      <4>2. f[i - 1] \in Seq(X) BY <4>1
      <4>3. f[i] = step[<<f[i - 1], i>>] BY <2>6, <4>1
      <4> QED BY <2>1, <3>2, <4>1, <4>2, <4>3
    <3> QED BY <3>1, <3>2
  <2>8. f = F(f) BY <2>7
  <2> QED BY <2>8
<1> HIDE DEF n, flat
<1>4. flat[1] = parts[1] /\ DOMAIN flat = 1 .. n
  <2>1. 1 \in 1 .. n BY <1>1
  <2>2. F(flat)[1] = parts[1] BY <2>1
  <2>3. DOMAIN F(flat) = 1 .. n OBVIOUS
  <2> HIDE DEF F
  <2> QED BY <1>3, <2>2, <2>3
<1>5. \A i \in 2 .. n : flat[i] = flat[i - 1] \o parts[i]
  <2>1. \A i \in 2 .. n : i \in 1 .. n /\ i # 1 BY <1>1
  <2>2. \A i \in 2 .. n : F(flat)[i] = flat[i - 1] \o parts[i] BY <2>1
  <2> HIDE DEF F
  <2> QED BY <1>3, <2>2
<1>6. \A i \in 1 .. n : flat[i] \in Seq(X)
  <2> DEFINE P == {i \in 1 .. n : flat[i] \in Seq(X)}
  <2>1. 1 \in P BY <1>1, <1>4
  <2>2. ASSUME NEW i \in 1 + 1 .. n, i - 1 \in P PROVE i \in P
    <3>1. i \in 2 .. n /\ i \in 1 .. n BY <1>1
    <3>2. flat[i - 1] \in Seq(X) BY <2>2
    <3>3. flat[i - 1] \o parts[i] \in Seq(X)
      <4>1. parts[i] \in Seq(X) BY <1>1, <3>1
      <4> QED BY <3>2, <4>1, ConcatProperties
    <3> QED BY <1>5, <3>1, <3>3
  <2> HIDE DEF P
  <2>3. \A i \in 1 .. n : i \in P BY <1>1, <2>1, <2>2, UpTo
  <2> QED BY <2>3 DEF P
<1>7. flat \in [1 .. n -> Seq(X)]
  <2>1. flat = [i \in 1 .. n |-> flat[i]]
    <3>1. F(flat) = [i \in DOMAIN F(flat) |-> F(flat)[i]] OBVIOUS
    <3> HIDE DEF F
    <3> QED BY <1>3, <1>4, <3>1
  <2> QED BY <1>6, <2>1
<1>8. FlattensBy(flat, X, parts)
  BY <1>2, <1>4, <1>5, <1>7 DEF n, FlattensBy
<1> QED BY <1>8

(* What a flattened list keeps when only part p is kept.                    *)
LEMMA KeepEnds ==
    ASSUME NEW X, NEW a \in Seq(X), NEW b \in Seq(X), NEW S
    PROVE  /\ Keep(b, S) = <<>> => Keep(a \o b, S) = Keep(a, S)
           /\ Keep(a, S) = <<>> => Keep(a \o b, S) = Keep(b, S)
<1> DEFINE k == Keep(a, S)
           l == Keep(b, S)
<1>1. Keep(a \o b, S) = k \o l BY KeepConcat
<1>2. k \in Seq(X) /\ l \in Seq(X) BY KeepElements
<1> HIDE DEF k, l
<1>3. k \o <<>> = k /\ <<>> \o l = l BY <1>2, ConcatEmptySeq
<1>4. (l = <<>> => k \o l = k) /\ (k = <<>> => k \o l = l) BY <1>3
<1> QED BY <1>1, <1>4 DEF k, l

LEMMA KeepPart ==
    ASSUME NEW X, NEW parts \in Seq(Seq(X)), NEW S, NEW p \in 1 .. Len(parts),
           Range(parts[p]) \subseteq S,
           \A i \in 1 .. Len(parts) : i # p => Range(parts[i]) \cap S = {}
    PROVE  Keep(FlattenSeq(parts), S) = parts[p]
<1> DEFINE n == Len(parts)
<1>1. n \in Nat /\ 1 <= n /\ p \in 1 .. n /\ \A i \in 1 .. n : parts[i] \in Seq(X)
  BY LenProperties
<1>2. parts # <<>>
  BY <1>1, EmptySeq
<1>3. PICK f : FlattensBy(f, X, parts)
  BY <1>2, FlattenSteps
<1>4. /\ \A i \in 1 .. n : f[i] \in Seq(X)
      /\ f[1] = parts[1]
      /\ \A i \in 2 .. n : f[i] = f[i - 1] \o parts[i]
      /\ FlattenSeq(parts) = f[n]
  BY <1>3 DEF FlattensBy
<1>5. \A i \in 1 .. n : Keep(parts[i], S) = IF i = p THEN parts[p] ELSE <<>>
  <2> SUFFICES ASSUME NEW i \in 1 .. n
               PROVE  Keep(parts[i], S) = IF i = p THEN parts[p] ELSE <<>>
    OBVIOUS
  <2> DEFINE q == parts[i]
  <2>1. q \in Seq(X) BY <1>1
  <2>2. i = p => Range(q) \subseteq S OBVIOUS
  <2>3. i # p => Range(q) \cap S = {} OBVIOUS
  <2> HIDE DEF q
  <2>4. i = p => Keep(q, S) = q BY <2>1, <2>2, KeepAll
  <2>5. i # p => Keep(q, S) = <<>> BY <2>1, <2>3, KeepNone
  <2> QED BY <2>4, <2>5 DEF q
<1> HIDE DEF n
<1> DEFINE P == {i \in 1 .. n : Keep(f[i], S) = IF i < p THEN <<>> ELSE parts[p]}
<1>6. 1 \in P
  <2>1. 1 \in 1 .. n BY <1>1
  <2>2. Keep(f[1], S) = IF 1 = p THEN parts[p] ELSE <<>> BY <1>4, <1>5, <2>1
  <2>3. 1 = p <=> ~(1 < p) BY <1>1
  <2> QED BY <2>1, <2>2, <2>3
<1>7. ASSUME NEW i \in 1 + 1 .. n, i - 1 \in P PROVE i \in P
  <2>1. i \in 2 .. n /\ i \in 1 .. n /\ i - 1 \in 1 .. n BY <1>1
  <2>2. PICK a \in Seq(X), b \in Seq(X) : a = f[i - 1] /\ b = parts[i]
    BY <1>1, <1>4, <2>1
  <2>10. f[i] = a \o b
    BY <1>4, <2>1, <2>2
  <2>3. Keep(a, S) = IF i - 1 < p THEN <<>> ELSE parts[p] BY <1>7, <2>2
  <2>4. Keep(b, S) = IF i = p THEN parts[p] ELSE <<>> BY <1>5, <2>1, <2>2
  <2>5. /\ Keep(b, S) = <<>> => Keep(a \o b, S) = Keep(a, S)
        /\ Keep(a, S) = <<>> => Keep(a \o b, S) = Keep(b, S)
    BY KeepEnds
  <2>7. CASE i < p
    <3>1. i - 1 < p /\ i # p BY <1>1, <2>1, <2>7
    <3> QED BY <2>1, <2>10, <2>3, <2>4, <2>5, <2>7, <3>1
  <2>8. CASE i = p
    <3>1. i - 1 < p /\ ~(i < p) BY <1>1, <2>1, <2>8
    <3> QED BY <2>1, <2>10, <2>3, <2>4, <2>5, <2>8, <3>1
  <2>9. CASE i > p
    <3>1. ~(i - 1 < p) /\ i # p /\ ~(i < p) BY <1>1, <2>1, <2>9
    <3> QED BY <2>1, <2>10, <2>3, <2>4, <2>5, <2>9, <3>1
  <2> QED BY <1>1, <2>1, <2>7, <2>8, <2>9
<1>8. \A i \in 1 .. n : i \in P
  <2> HIDE DEF P
  <2> QED BY <1>1, <1>6, <1>7, UpTo
<1>9. n \in 1 .. n /\ ~(n < p) BY <1>1
<1> QED BY <1>4, <1>8, <1>9

(* ... and when no part is kept.                                            *)
LEMMA KeepNoPart ==
    ASSUME NEW X, NEW parts \in Seq(Seq(X)), NEW S, parts # <<>>,
           \A i \in 1 .. Len(parts) : Range(parts[i]) \cap S = {}
    PROVE  Keep(FlattenSeq(parts), S) = <<>>
<1> DEFINE n == Len(parts)
<1>1. n \in Nat /\ 1 <= n /\ \A i \in 1 .. n : parts[i] \in Seq(X)
  <2>1. n \in Nat /\ \A i \in 1 .. n : parts[i] \in Seq(X) BY LenProperties
  <2>2. n # 0 BY EmptySeq
  <2> QED BY <2>1, <2>2
<1>3. PICK f : FlattensBy(f, X, parts)
  BY FlattenSteps
<1>4. /\ \A i \in 1 .. n : f[i] \in Seq(X)
      /\ f[1] = parts[1]
      /\ \A i \in 2 .. n : f[i] = f[i - 1] \o parts[i]
      /\ FlattenSeq(parts) = f[n]
  BY <1>3 DEF FlattensBy
<1>5. \A i \in 1 .. n : Range(parts[i]) \cap S = {}
  OBVIOUS
<1> HIDE DEF n
<1> DEFINE P == {i \in 1 .. n : Range(f[i]) \cap S = {}}
<1>6. 1 \in P
  BY <1>1, <1>4, <1>5
<1>7. ASSUME NEW i \in 1 + 1 .. n, i - 1 \in P PROVE i \in P
  <2>1. i \in 2 .. n /\ i \in 1 .. n /\ i - 1 \in 1 .. n BY <1>1
  <2> DEFINE a == f[i - 1]
             b == parts[i]
  <2>2. a \in Seq(X) /\ b \in Seq(X) /\ f[i] = a \o b
    BY <1>1, <1>4, <2>1
  <2>3. Range(a) \cap S = {} /\ Range(b) \cap S = {} BY <1>5, <1>7, <2>1
  <2> HIDE DEF a, b
  <2>4. Range(a \o b) = Range(a) \cup Range(b) BY <2>2, ConcatElements
  <2> QED BY <2>1, <2>2, <2>3, <2>4
<1>8. n \in P
  <2> HIDE DEF P
  <2>1. \A i \in 1 .. n : i \in P BY <1>1, <1>6, <1>7, UpTo
  <2> QED BY <1>1, <2>1
<1> DEFINE u == f[n]
<1>9. u \in Seq(X) /\ Range(u) \cap S = {} BY <1>1, <1>4, <1>8
<1> HIDE DEF u, P
<1>10. Keep(u, S) = <<>> BY <1>9, KeepNone
<1> QED BY <1>4, <1>10 DEF u

LEMMA FlattenElements ==
    ASSUME NEW X, NEW parts \in Seq(Seq(X)), parts # <<>>
    PROVE  /\ FlattenSeq(parts) \in Seq(X)
           /\ \A i \in 1 .. Len(parts) : Range(parts[i]) \subseteq Range(FlattenSeq(parts))
<1> DEFINE n == Len(parts)
<1>1. n \in Nat /\ 1 <= n /\ \A i \in 1 .. n : parts[i] \in Seq(X)
  <2>1. n \in Nat /\ \A i \in 1 .. n : parts[i] \in Seq(X) BY LenProperties
  <2>2. n # 0 BY EmptySeq
  <2> QED BY <2>1, <2>2
<1>2. PICK f : FlattensBy(f, X, parts)
  BY FlattenSteps
<1>3. /\ \A i \in 1 .. n : f[i] \in Seq(X)
      /\ f[1] = parts[1]
      /\ \A i \in 2 .. n : f[i] = f[i - 1] \o parts[i]
      /\ FlattenSeq(parts) = f[n]
  BY <1>2 DEF FlattensBy
<1> HIDE DEF n
<1> DEFINE P == {i \in 1 .. n : \A j \in 1 .. i : Range(parts[j]) \subseteq Range(f[i])}
<1>4. 1 \in P
  BY <1>1, <1>3
<1>5. ASSUME NEW i \in 1 + 1 .. n, i - 1 \in P PROVE i \in P
  <2>1. i \in 2 .. n /\ i \in 1 .. n /\ i - 1 \in 1 .. n BY <1>1
  <2>2. PICK a \in Seq(X), b \in Seq(X) : a = f[i - 1] /\ b = parts[i]
    BY <1>1, <1>3, <2>1
  <2>3. f[i] = a \o b BY <1>3, <2>1, <2>2
  <2>4. Range(a \o b) = Range(a) \cup Range(b) BY ConcatElements
  <2>5. ASSUME NEW j \in 1 .. i PROVE Range(parts[j]) \subseteq Range(f[i])
    <3>1. CASE j = i BY <2>2, <2>3, <2>4, <3>1
    <3>2. CASE j # i
      <4>1. j \in 1 .. i - 1 BY <2>1, <3>2
      <4> QED BY <1>5, <2>2, <2>3, <2>4, <4>1
    <3> QED BY <3>1, <3>2
  <2> QED BY <2>1, <2>5
<1>6. n \in P
  <2> HIDE DEF P
  <2>1. \A i \in 1 .. n : i \in P BY <1>1, <1>4, <1>5, UpTo
  <2> QED BY <1>1, <2>1
<1>7. n \in 1 .. n BY <1>1
<1> QED BY <1>3, <1>6, <1>7 DEF n

(* The running total of a list of numbers.                                  *)
Totals(w) ==
    CHOOSE f : f = [i \in 0 .. Len(w) |-> IF i = 0 THEN 0 ELSE f[i - 1] + w[i]]

LEMMA RunningTotal ==
    ASSUME NEW w \in Seq(Nat), NEW o,
           o = Totals(w)
    PROVE  /\ o[0] = 0
           /\ \A i \in 1 .. Len(w) : o[i] = o[i - 1] + w[i]
           /\ \A i \in 0 .. Len(w) : o[i] \in Nat
<1> DEFINE n == Len(w)
           F(f) == [i \in 0 .. n |-> IF i = 0 THEN 0 ELSE f[i - 1] + w[i]]
<1>1. n \in Nat /\ \A i \in 1 .. n : w[i] \in Nat
  BY LenProperties
<1>2. o = CHOOSE f : f = F(f)
  BY DEF Totals
<1>3. o = F(o)
  <2> DEFINE step == [p \in Nat \X (1 .. n) |-> p[1] + w[p[2]]]
  <2>1. ASSUME NEW x \in Nat, NEW i \in 0 + 1 .. n PROVE step[<<x, i>>] = x + w[i]
    <3>1. i \in 1 .. n BY <1>1
    <3>2. <<x, i>> \in Nat \X (1 .. n) BY <3>1
    <3> QED BY <3>2
  <2>2. \A x \in Nat : \A i \in 0 + 1 .. n : step[<<x, i>>] \in Nat
    <3> HIDE DEF step
    <3>1. \A i \in 0 + 1 .. n : i \in 1 .. n BY <1>1
    <3>2. \A x \in Nat : \A i \in 0 + 1 .. n : x + w[i] \in Nat BY <1>1, <3>1
    <3> QED BY <2>1, <3>2
  <2>3. StaysIn(Nat, 0, n, step) BY <2>2 DEF StaysIn
  <2> HIDE DEF n, step
  <2>4. 0 <= n /\ 0 \in Nat /\ n \in Nat BY <1>1
  <2>5. \E f : Computes(f, Nat, 0, n, 0, step)
    BY <2>3, <2>4, Recursion
  <2>6. PICK f \in [0 .. n -> Nat] :
            /\ f[0] = 0
            /\ \A i \in 0 + 1 .. n : f[i] = step[<<f[i - 1], i>>]
    BY <2>5 DEF Computes
  <2>7. ASSUME NEW i \in 0 .. n PROVE f[i] = F(f)[i]
    <3>1. CASE i = 0 BY <2>6, <3>1
    <3>2. CASE i # 0
      <4>1. i \in 0 + 1 .. n /\ i - 1 \in 0 .. n BY <1>1, <3>2
      <4>2. f[i - 1] \in Nat BY <4>1
      <4>3. f[i] = step[<<f[i - 1], i>>] BY <2>6, <4>1
      <4> QED BY <2>1, <3>2, <4>1, <4>2, <4>3
    <3> QED BY <3>1, <3>2
  <2>8. f = F(f) BY <2>7
  <2> QED BY <1>2, <2>8
<1> HIDE DEF n
<1>4. o[0] = 0
  <2>1. 0 \in 0 .. n BY <1>1
  <2>2. F(o)[0] = 0 BY <2>1
  <2> HIDE DEF F
  <2> QED BY <1>3, <2>2
<1>5. \A i \in 1 .. n : o[i] = o[i - 1] + w[i]
  <2>1. \A i \in 1 .. n : i \in 0 .. n /\ i # 0 BY <1>1
  <2>2. \A i \in 1 .. n : F(o)[i] = o[i - 1] + w[i] BY <2>1
  <2> HIDE DEF F
  <2> QED BY <1>3, <2>2
<1>6. \A i \in 0 .. n : o[i] \in Nat
  <2> DEFINE P == {i \in 0 .. n : o[i] \in Nat}
  <2>1. 0 \in P BY <1>1, <1>4
  <2>2. ASSUME NEW i \in 0 + 1 .. n, i - 1 \in P PROVE i \in P
    <3>1. i \in 1 .. n /\ i \in 0 .. n BY <1>1
    <3>2. o[i - 1] \in Nat BY <2>2
    <3> QED BY <1>1, <1>5, <3>1, <3>2
  <2> HIDE DEF P
  <2>3. \A i \in 0 .. n : i \in P BY <1>1, <2>1, <2>2, UpTo
  <2> QED BY <2>3 DEF P
<1> QED BY <1>4, <1>5, <1>6 DEF n

(* The running totals of the lengths of the parts point at their last rows. *)
LEMMA LastOfParts ==
    ASSUME NEW X, NEW parts \in Seq(Seq(X)), parts # <<>>,
           NEW w \in Seq(Nat), Len(w) = Len(parts),
           \A i \in 1 .. Len(parts) : Len(parts[i]) = w[i] /\ w[i] > 0,
           NEW o,
           o = Totals(w)
    PROVE  \A i \in 1 .. Len(parts) : FlattenSeq(parts)[o[i]] = parts[i][w[i]]
<1> DEFINE n == Len(parts)
<1>1. n \in Nat /\ 1 <= n /\ \A i \in 1 .. n : parts[i] \in Seq(X)
  <2>1. n \in Nat /\ \A i \in 1 .. n : parts[i] \in Seq(X) BY LenProperties
  <2>2. n # 0 BY EmptySeq
  <2> QED BY <2>1, <2>2
<1>2. PICK f : FlattensBy(f, X, parts)
  BY FlattenSteps
<1>3. /\ \A i \in 1 .. n : f[i] \in Seq(X)
      /\ f[1] = parts[1]
      /\ \A i \in 2 .. n : f[i] = f[i - 1] \o parts[i]
      /\ FlattenSeq(parts) = f[n]
  BY <1>2 DEF FlattensBy
<1>4. /\ o[0] = 0
      /\ \A i \in 1 .. n : o[i] = o[i - 1] + w[i]
      /\ \A i \in 0 .. n : o[i] \in Nat
  BY RunningTotal
<1>5. \A i \in 1 .. n : Len(parts[i]) = w[i] /\ w[i] > 0 /\ w[i] \in Nat
  BY LenProperties
<1> HIDE DEF n
<1> DEFINE P == {i \in 1 .. n : /\ Len(f[i]) = o[i]
                                /\ \A j \in 1 .. i : /\ o[j] \in 1 .. o[i]
                                                     /\ f[i][o[j]] = parts[j][w[j]]}
<1>6. 1 \in P
  <2>1. 1 \in 1 .. n /\ o[1] = o[1 - 1] + w[1] /\ 1 - 1 = 0 BY <1>1, <1>4
  <2>2. o[1] = w[1] BY <1>4, <1>5, <2>1
  <2>3. Len(f[1]) = o[1] /\ o[1] \in 1 .. o[1] /\ f[1][o[1]] = parts[1][w[1]]
    BY <1>3, <1>5, <2>1, <2>2
  <2>4. \A j \in 1 .. 1 : j = 1 OBVIOUS
  <2> QED BY <2>1, <2>3, <2>4
<1>7. ASSUME NEW i \in 1 + 1 .. n, i - 1 \in P PROVE i \in P
  <2>1. i \in 2 .. n /\ i \in 1 .. n /\ i - 1 \in 1 .. n BY <1>1
  <2>2. PICK a \in Seq(X), b \in Seq(X) : a = f[i - 1] /\ b = parts[i]
    BY <1>1, <1>3, <2>1
  <2>3. f[i] = a \o b BY <1>3, <2>1, <2>2
  <2>4. /\ Len(a) = o[i - 1] /\ o[i - 1] \in Nat
        /\ \A j \in 1 .. i - 1 : o[j] \in 1 .. o[i - 1] /\ a[o[j]] = parts[j][w[j]]
    <3>1. i - 1 \in 0 .. n BY <2>1
    <3> QED BY <1>4, <1>7, <2>2, <3>1
  <2>5. Len(b) = w[i] /\ w[i] > 0 /\ w[i] \in Nat /\ o[i] = o[i - 1] + w[i]
    BY <1>4, <1>5, <2>1, <2>2
  <2>6. /\ Len(a \o b) = Len(a) + Len(b)
        /\ \A k \in 1 .. Len(a) + Len(b) :
               (a \o b)[k] = IF k <= Len(a) THEN a[k] ELSE b[k - Len(a)]
    BY ConcatProperties
  <2>7. Len(f[i]) = o[i] BY <2>3, <2>4, <2>5, <2>6
  <2>8. ASSUME NEW j \in 1 .. i PROVE o[j] \in 1 .. o[i] /\ f[i][o[j]] = parts[j][w[j]]
    <3>1. CASE j = i
      <4>1. o[i] \in 1 .. Len(a) + Len(b) /\ ~(o[i] <= Len(a)) /\ o[i] - Len(a) = w[i]
        BY <2>4, <2>5
      <4>2. (a \o b)[o[i]] = b[w[i]] BY <2>6, <4>1
      <4> QED BY <2>2, <2>3, <2>4, <2>5, <3>1, <4>1, <4>2
    <3>2. CASE j # i
      <4>1. j \in 1 .. i - 1 BY <2>1, <3>2
      <4>2. o[j] \in 1 .. o[i - 1] /\ a[o[j]] = parts[j][w[j]] BY <2>4, <4>1
      <4>5. PICK p \in Nat, q \in Nat : p = o[i - 1] /\ q = w[i] /\ o[i] = p + q
        BY <2>4, <2>5
      <4>6. PICK x \in 1 .. p : x = o[j]
        BY <4>2, <4>5
      <4>7. x \in 1 .. p + q /\ x <= p
        OBVIOUS
      <4>8. Len(a) = p /\ Len(b) = q
        BY <2>4, <2>5, <4>5
      <4>3. o[j] \in 1 .. o[i] /\ o[j] \in 1 .. Len(a) + Len(b) /\ o[j] <= Len(a)
        BY <4>5, <4>6, <4>7, <4>8
      <4>4. (a \o b)[o[j]] = a[o[j]] BY <2>6, <4>3
      <4> QED BY <2>3, <4>2, <4>3, <4>4
    <3> QED BY <3>1, <3>2
  <2> QED BY <2>1, <2>7, <2>8
<1>8. n \in P
  <2> HIDE DEF P
  <2>1. \A i \in 1 .. n : i \in P BY <1>1, <1>6, <1>7, UpTo
  <2> QED BY <1>1, <2>1
<1> QED BY <1>3, <1>8 DEF n

-----------------------------------------------------------------------------
(* The schedule: what is admitted, and what each admitted request is given. *)

(* The elements of s at the positions that are kept.                        *)
LEMMA PickedElements ==
    ASSUME NEW X, NEW s \in Seq(X), NEW S, NEW c, NEW t,
           c = Keep([i \in DOMAIN s |-> i], S),
           t = [k \in DOMAIN c |-> s[c[k]]]
    PROVE  /\ t \in Seq(X) /\ Range(t) \subseteq Range(s)
           /\ IsInjective(s) => IsInjective(t)
<1> DEFINE D == 1 .. Len(s)
           ids == [i \in DOMAIN s |-> i]
<1>1. DOMAIN s = D /\ Len(s) \in Nat /\ \A i \in D : s[i] \in X
  BY LenProperties
<1>2. ids \in Seq(D) /\ IsInjective(ids)
  <2>1. ids \in [1 .. Len(s) -> D] BY <1>1
  <2>2. ids \in Seq(D) BY <1>1, <2>1, SeqDef
  <2>3. IsInjective(ids) BY DEF IsInjective
  <2> QED BY <2>2, <2>3
<1> HIDE DEF D, ids
<1>3. c \in Seq(D) /\ IsInjective(c)
  <2>1. c = Keep(ids, S) BY DEF ids
  <2> QED BY <1>2, <2>1, KeepElements
<1> DEFINE n == Len(c)
<1>4. n \in Nat /\ DOMAIN c = 1 .. n /\ \A k \in 1 .. n : c[k] \in D
  BY <1>3, LenProperties
<1> HIDE DEF n
<1>5. t = [k \in 1 .. n |-> s[c[k]]]
  BY <1>4
<1>6. t \in Seq(X)
  <2>1. t \in [1 .. n -> X] BY <1>1, <1>4, <1>5
  <2> QED BY <1>4, <2>1, SeqDef
<1>7. Range(t) \subseteq Range(s)
  BY <1>1, <1>4, <1>5 DEF Range
<1>8. ASSUME IsInjective(s) PROVE IsInjective(t)
  <2> SUFFICES ASSUME NEW j \in 1 .. n, NEW k \in 1 .. n, t[j] = t[k] PROVE j = k
    BY <1>5 DEF IsInjective
  <2>1. s[c[j]] = s[c[k]] BY <1>5
  <2>2. c[j] = c[k] BY <1>1, <1>4, <1>8, <2>1 DEF IsInjective
  <2> QED BY <1>3, <1>4, <2>2 DEF IsInjective
<1> QED BY <1>6, <1>7, <1>8

LEMMA AdmittedFromWaiting ==
    ASSUME NEW X, NEW s \in Seq(X), NEW a, NEW b
    PROVE  /\ schedule_capacity(s, a, b) \in Seq(X)
           /\ Range(schedule_capacity(s, a, b)) \subseteq Range(s)
           /\ IsInjective(s) => IsInjective(schedule_capacity(s, a, b))
<1> DEFINE Fits(I, i) ==
               /\ Cardinality(I \cap 1 .. i - 1) < max_batch_size
               /\ a + SumOver(I, s, i - 1, b) + b[s[i]] <= max_blocks
           S == CHOOSE I \in SUBSET DOMAIN s : \A i \in DOMAIN s : i \in I <=> Fits(I, i)
           c == Keep([i \in DOMAIN s |-> i], S)
           t == schedule_capacity(s, a, b)
<1>1. t = [k \in DOMAIN c |-> s[c[k]]]
  BY DEF schedule_capacity
<1> HIDE DEF S
<1>2. c = Keep([i \in DOMAIN s |-> i], S)
  OBVIOUS
<1> HIDE DEF c, t
<1>3. /\ t \in Seq(X) /\ Range(t) \subseteq Range(s)
      /\ IsInjective(s) => IsInjective(t)
  BY <1>1, <1>2, PickedElements
<1> QED BY <1>3 DEF t

LEMMA ChunkInt ==
    ASSUME NEW chunking, NEW list \in Seq(Requests), NEW i \in DOMAIN list,
           NEW budget \in Int, NEW left \in [Requests -> Int]
    PROVE  ChunkOf(chunking, list, i, budget, left) \in Int
<1>1. Len(list) \in Nat /\ i \in 1 .. Len(list) /\ list[i] \in Requests
  BY LenProperties
<1>2. left[list[i]] \in Int /\ Len(list) > 0
  BY <1>1
<1>3. SumOver(1 .. i - 1, list, i - 1, left) \in Int
  <2>1. i - 1 \in 0 .. Len(list) BY <1>1
  <2> QED BY <2>1, SumSteps
<1> DEFINE n == Len(list)
           l == left[list[i]]
           q == SumOver(1 .. i - 1, list, i - 1, left)
<1>4. n \in Nat /\ n > 0 /\ l \in Int /\ q \in Int
  BY <1>1, <1>2, <1>3
<1> HIDE DEF n, l, q
<1>5. PICK d \in Int, e \in Int : d = budget \div n /\ e = budget - q
  BY <1>4
<1>7. AtLeast(0, AtMost(budget - q, l)) \in Int /\ AtMost(AtLeast(1, budget \div n), l) \in Int
  <2>1. PICK x \in Int, y \in Int : x = AtMost(e, l) /\ y = AtLeast(1, d) BY <1>4 DEF AtMost, AtLeast
  <2>2. AtLeast(0, x) \in Int /\ AtMost(y, l) \in Int BY <1>4 DEF AtMost, AtLeast
  <2> QED BY <1>5, <2>1, <2>2
<1> QED BY <1>7 DEF ChunkOf, n, l, q

(* A plan splits the admitted requests by what is left of their prompts.    *)
PlanOf(plan, list, gen, left) ==
    /\ plan.context_chunking \in Seq(Requests) /\ IsInjective(plan.context_chunking)
    /\ plan.context_last_chunk \in Seq(Requests) /\ IsInjective(plan.context_last_chunk)
    /\ plan.generation = gen
    /\ Range(plan.context_chunking) \cap Range(plan.context_last_chunk) = {}
    /\ Range(plan.context_chunking) \subseteq Range(list)
    /\ Range(plan.context_last_chunk) \subseteq Range(list)
    /\ \A r \in Range(plan.context_chunking) :
           plan.tokens[r] \in Nat \ {0} /\ plan.tokens[r] < left[r]
    /\ \A r \in Range(plan.context_last_chunk) :
           plan.tokens[r] \in Nat \ {0} /\ plan.tokens[r] = left[r]

LEMMA PlanParts ==
    ASSUME NEW chunking, NEW list \in Seq(Requests), IsInjective(list),
           NEW gen \in Seq(Requests), NEW left \in [Requests -> Int],
           max_num_tokens \in Nat,
           NEW plan, plan = schedule_microbatch(chunking, list, gen, left)
    PROVE  PlanOf(plan, list, gen, left)
<1> DEFINE given(r) == ChunkOf(chunking, list, CHOOSE i \in DOMAIN list : list[i] = r,
                               max_num_tokens - Len(gen), left)
           Part == {r \in Range(list) : given(r) > 0 /\ given(r) < left[r]}
           Full == {r \in Range(list) : given(r) > 0 /\ given(r) = left[r]}
<1>1. plan = [context_chunking |-> Keep(list, Part), context_last_chunk |-> Keep(list, Full),
              generation |-> gen, tokens |-> [r \in Range(list) |-> given(r)]]
  BY DEF schedule_microbatch
<1>2. ASSUME NEW r \in Range(list) PROVE given(r) \in Int
  <2>1. \E i \in DOMAIN list : list[i] = r BY DEF Range
  <2>2. (CHOOSE i \in DOMAIN list : list[i] = r) \in DOMAIN list BY <2>1
  <2>3. max_num_tokens - Len(gen) \in Int BY LenProperties
  <2> QED BY <2>2, <2>3, ChunkInt
<1>3. Range(list) \subseteq Requests
  BY ElementsOfSeq
<1> HIDE DEF given
<1>4. Part \cap Full = {}
  <2>1. ASSUME NEW r \in Range(list), given(r) < left[r], given(r) = left[r] PROVE FALSE
    <3>1. left[r] \in Int BY <1>3
    <3> QED BY <1>2, <2>1, <3>1
  <2> QED BY <2>1
<1>5. /\ \A r \in Part : r \in Range(list) /\ given(r) \in Nat \ {0} /\ given(r) < left[r]
      /\ \A r \in Full : r \in Range(list) /\ given(r) \in Nat \ {0} /\ given(r) = left[r]
  BY <1>2
<1> HIDE DEF Part, Full
<1>6. /\ Keep(list, Part) \in Seq(Requests) /\ IsInjective(Keep(list, Part))
      /\ Range(Keep(list, Part)) = Range(list) \cap Part
  BY KeepElements
<1>7. /\ Keep(list, Full) \in Seq(Requests) /\ IsInjective(Keep(list, Full))
      /\ Range(Keep(list, Full)) = Range(list) \cap Full
  BY KeepElements
<1>8. /\ plan.context_chunking = Keep(list, Part) /\ plan.context_last_chunk = Keep(list, Full)
      /\ plan.generation = gen /\ \A r \in Range(list) : plan.tokens[r] = given(r)
  BY <1>1
<1>9. /\ Range(plan.context_chunking) = Range(list) \cap Part
      /\ Range(plan.context_last_chunk) = Range(list) \cap Full
  BY <1>6, <1>7, <1>8
<1>10. /\ \A r \in Range(plan.context_chunking) :
              plan.tokens[r] \in Nat \ {0} /\ plan.tokens[r] < left[r]
       /\ \A r \in Range(plan.context_last_chunk) :
              plan.tokens[r] \in Nat \ {0} /\ plan.tokens[r] = left[r]
  BY <1>5, <1>8, <1>9
<1>11. Range(plan.context_chunking) \cap Range(plan.context_last_chunk) = {}
  BY <1>4, <1>9
<1> QED BY <1>6, <1>7, <1>8, <1>9, <1>10, <1>11 DEF PlanOf

-----------------------------------------------------------------------------
Key == Range(Strategy)
Row == [req : Requests, tok : Int, pos : Int]
Token == [row : Row, key : Key]
Pending == [req : Requests, token : Token]

PrevReqs == {prev[i].req : i \in DOMAIN prev}

InContext(r) == state[r] \in {"CONTEXT_INIT", "CONTEXT_IN_PROGRESS"}

BatchOK ==
    /\ batch.context_chunking \in Seq(Requests) /\ IsInjective(batch.context_chunking)
    /\ batch.context_last_chunk \in Seq(Requests) /\ IsInjective(batch.context_last_chunk)
    /\ batch.generation \in Seq(Requests) /\ IsInjective(batch.generation)
    /\ Range(batch.context_chunking) \cap Range(batch.context_last_chunk) = {}
    /\ Range(batch.generation) =
           {r \in Range(active) : is_generation_phase(r)}
    /\ \A r \in Range(batch.context_chunking) \cup Range(batch.context_last_chunk) :
           /\ InContext(r)
           /\ responses[r] = <<>>
           /\ batch.tokens[r] \in Nat \ {0}
    /\ \A r \in Range(batch.context_chunking) : batch.tokens[r] < RemainingContext(r)
    /\ \A r \in Range(batch.context_last_chunk) : batch.tokens[r] = RemainingContext(r)

TypeOK ==
    /\ setup \in Setups
    /\ waiting \in Seq(Requests) /\ active \in Seq(Requests)
    /\ cancelled \subseteq Requests
    /\ state \in [Requests -> RequestState]
    /\ num_context_tokens_processed \in [Requests -> Nat]
    /\ output \in [Requests -> Seq(Token)]
    /\ fed \in [Requests -> Seq(Row)]
    /\ prev \in Seq(Pending)
    /\ pc \in {"idle", "complete", "move", "forward"}
    /\ completed_ids \in Seq(Requests)
    /\ responses \in [Requests -> Seq(Nat)]
    /\ raises \in Nat

(* Who is where.                                                            *)
QueuesOK ==
    /\ IsInjective(waiting) /\ IsInjective(active)
    /\ Range(waiting) \cap Range(active) = {}
    /\ \A r \in Range(waiting) : state[r] = "CONTEXT_INIT" /\ responses[r] = <<>>
    /\ \A r \in Range(active) : responses[r] = <<>>
    /\ \A r \in Requests :
           state[r] # "CONTEXT_INIT" => r \in Range(active) \/ responses[r] # <<>>
    /\ \A r \in Requests : responses[r] \in {<<>>, <<MaxTokens[r]>>}
    /\ \A r \in Range(active) :
           \/ Len(output[r]) < MaxTokens[r]
           \/ pc = "complete" /\ r \in Range(completed_ids)
    /\ pc = "complete" =>
           \A r \in Range(completed_ids) \cap Range(active) : Len(output[r]) = MaxTokens[r]

(* Before its last chunk a request has no token and none on the way.        *)
ContextOK ==
    \A r \in Requests : InContext(r) =>
        /\ output[r] = <<>>
        /\ r \notin PrevReqs
        /\ num_context_tokens_processed[r] < ContextLen[r]

(* The tokens on the way, one for each request, sampled for it.             *)
PrevOK ==
    /\ IsInjective([i \in DOMAIN prev |-> prev[i].req])
    /\ \A i \in DOMAIN prev :
           /\ prev[i].token.row.req = prev[i].req
           /\ prev[i].token.key = Strategy[prev[i].req]
           /\ raises = 0 /\ pc = "idle" =>
                  prev[i].token.row.tok = ContextLen[prev[i].req] + Len(output[prev[i].req]) - 1

OutputOK ==
    \A r \in Requests : \A i \in DOMAIN output[r] :
        /\ output[r][i].row.req = r
        /\ output[r][i].key = Strategy[r]
        /\ raises = 0 => output[r][i].row.tok = ContextLen[r] + i - 2

(* How far the model has read a request.                                    *)
FedOK ==
    raises = 0 =>
        /\ \A r \in Range(active) : is_generation_phase(r) /\ pc = "idle" => r \in PrevReqs
        /\ ~setup.full_sequence =>
              /\ \A r \in Requests : \A i \in DOMAIN fed[r] :
                     fed[r][i].tok = i - 1 /\ fed[r][i].pos = i - 1
              /\ \A r \in Requests :
                     InContext(r) => Len(fed[r]) = num_context_tokens_processed[r]
              /\ \A r \in Range(active) : is_generation_phase(r) =>
                     IF pc = "idle"
                     THEN Len(fed[r]) = ContextLen[r] + Len(output[r])
                     ELSE /\ Len(output[r]) > 0
                          /\ Len(fed[r]) = ContextLen[r] + Len(output[r]) - 1

BusyOK == pc \in {"move", "forward"} => BatchOK
MovedOK ==
    pc = "forward" =>
        /\ Range(ContextOf(batch)) \subseteq Range(active)
        /\ Range(ContextOf(batch)) \cap Range(waiting) = {}

IInv ==
    /\ TypeOK /\ QueuesOK /\ ContextOK /\ PrevOK /\ OutputOK /\ FedOK
    /\ BusyOK /\ MovedOK

-----------------------------------------------------------------------------
(* Sampling gives every index its own row and its own request's parameters. *)

Mapped(f, s) == [i \in DOMAIN s |-> f[s[i]]]

LEMMA MapConcat ==
    ASSUME NEW X, NEW s \in Seq(X), NEW t \in Seq(X), NEW f
    PROVE  Mapped(f, s) \o Mapped(f, t) = Mapped(f, s \o t)
<1> DEFINE Y == {f[x] : x \in X}
           m == Len(s)
           n == Len(t)
           u == s \o t
           fs == [i \in DOMAIN s |-> f[s[i]]]
           ft == [i \in DOMAIN t |-> f[t[i]]]
           fu == [i \in DOMAIN u |-> f[u[i]]]
<1>1. /\ m \in Nat /\ n \in Nat /\ DOMAIN s = 1 .. m /\ DOMAIN t = 1 .. n
      /\ \A i \in 1 .. m : s[i] \in X
      /\ \A i \in 1 .. n : t[i] \in X
  BY LenProperties
<1>2. /\ u \in Seq(X) /\ Len(u) = m + n
      /\ \A i \in 1 .. m + n : u[i] = IF i <= m THEN s[i] ELSE t[i - m]
  BY ConcatProperties
<1>3. DOMAIN u = 1 .. m + n /\ \A i \in 1 .. m + n : u[i] \in X
  BY <1>2, LenProperties
<1>0. \A x \in X : f[x] \in Y
  OBVIOUS
<1> HIDE DEF m, n, u, Y
<1>4. fs \in Seq(Y) /\ Len(fs) = m
  <2>1. fs \in [1 .. m -> Y] BY <1>0, <1>1
  <2> QED BY <1>1, <2>1, SeqDef
<1>5. ft \in Seq(Y) /\ Len(ft) = n
  <2>1. ft \in [1 .. n -> Y] BY <1>0, <1>1
  <2> QED BY <1>1, <2>1, SeqDef
<1>6. fu \in Seq(Y) /\ Len(fu) = m + n
  <2>1. fu \in [1 .. m + n -> Y] BY <1>0, <1>3
  <2>2. m + n \in Nat BY <1>1
  <2> QED BY <2>1, <2>2, SeqDef
<1>7. /\ \A i \in 1 .. m : fs[i] = f[s[i]]
      /\ \A i \in 1 .. n : ft[i] = f[t[i]]
      /\ \A i \in 1 .. m + n : fu[i] = f[u[i]]
  BY <1>1, <1>3
<1> DEFINE c == fs \o ft
<1> HIDE DEF fs, ft, fu
<1>8. /\ c \in Seq(Y) /\ Len(c) = m + n
      /\ \A i \in 1 .. m + n : c[i] = IF i <= m THEN fs[i] ELSE ft[i - m]
  BY <1>4, <1>5, ConcatProperties
<1> HIDE DEF c
<1>9. ASSUME NEW i \in 1 .. m + n PROVE c[i] = fu[i]
  <2>1. CASE i <= m
    <3>1. i \in 1 .. m BY <1>1, <2>1
    <3> QED BY <1>2, <1>7, <1>8, <2>1, <3>1
  <2>2. CASE ~(i <= m)
    <3>1. i - m \in 1 .. n BY <1>1, <2>2
    <3> QED BY <1>2, <1>7, <1>8, <2>2, <3>1
  <2> QED BY <2>1, <2>2
<1>10. c = fu
  BY <1>6, <1>8, <1>9, SeqEqual
<1> QED BY <1>10 DEF c, fs, ft, fu, u, Mapped

LEMMA SampleOwn ==
    ASSUME NEW X, NEW reqs \in Seq(X), NEW params, NEW rows
    PROVE  sample_async(rows, reqs, params)
               = [i \in DOMAIN reqs |-> [row |-> rows[i], key |-> params[reqs[i]]]]
<1> DEFINE D == 1 .. Len(reqs)
           ids == [i \in DOMAIN reqs |-> i]
           Same(k) == {i \in DOMAIN reqs : params[reqs[i]] = k}
           Keys == {params[reqs[i]] : i \in DOMAIN reqs}
           groups == [k \in Keys |-> Keep(ids, Same(k))]
           group(i) == CHOOSE k \in DOMAIN groups : Contains(groups[k], i)
           Kernel(k) == [j \in DOMAIN groups[k] |-> [row |-> rows[groups[k][j]], key |-> k]]
           place(i) == CHOOSE j \in DOMAIN groups[group(i)] : groups[group(i)][j] = i
<1>1. sample_async(rows, reqs, params) = [i \in DOMAIN reqs |-> Kernel(group(i))[place(i)]]
  BY DEF sample_async, _group_by_strategy
<1>2. DOMAIN reqs = D /\ Len(reqs) \in Nat
  BY LenProperties
<1>3. ids \in Seq(D) /\ Range(ids) = D
  <2>1. ids \in [1 .. Len(reqs) -> D] BY <1>2
  <2>2. ids \in Seq(D) BY <1>2, <2>1, SeqDef
  <2>3. Range(ids) = D BY <1>2 DEF Range
  <2> QED BY <2>2, <2>3
<1> HIDE DEF D, ids
<1>4. ASSUME NEW k \in Keys
      PROVE  /\ groups[k] \in Seq(D) /\ DOMAIN groups[k] = 1 .. Len(groups[k])
             /\ Range(groups[k]) = Same(k)
  <2> DEFINE g == Keep(ids, Same(k))
  <2>1. g \in Seq(D) /\ Range(g) = D \cap Same(k)
    BY <1>3, KeepElements
  <2>2. D \cap Same(k) = Same(k) BY <1>2
  <2> HIDE DEF g
  <2>3. DOMAIN g = 1 .. Len(g) BY <2>1, LenProperties
  <2>4. groups[k] = g BY DEF g
  <2> QED BY <2>1, <2>2, <2>3, <2>4
<1>5. DOMAIN groups = Keys
  OBVIOUS
<1> HIDE DEF groups
<1>6. ASSUME NEW i \in DOMAIN reqs
      PROVE  Kernel(group(i))[place(i)] = [row |-> rows[i], key |-> params[reqs[i]]]
  <2>1. ASSUME NEW k \in Keys PROVE Contains(groups[k], i) <=> params[reqs[i]] = k
    <3>1. Contains(groups[k], i) <=> i \in Range(groups[k])
      BY <1>4 DEF Contains, Range
    <3> QED BY <1>4, <3>1
  <2>2. params[reqs[i]] \in Keys OBVIOUS
  <2> HIDE DEF Keys
  <2>3. group(i) \in Keys /\ Contains(groups[group(i)], i)
    BY <1>5, <2>1, <2>2
  <2>4. group(i) = params[reqs[i]]
    <3> HIDE DEF group
    <3> QED BY <2>1, <2>3
  <2> DEFINE k == params[reqs[i]]
  <2>5. i \in Range(groups[k]) BY <1>4, <2>2
  <2>6. \E j \in DOMAIN groups[k] : groups[k][j] = i BY <2>5 DEF Range
  <2> DEFINE p == CHOOSE j \in DOMAIN groups[k] : groups[k][j] = i
  <2>7. p \in DOMAIN groups[k] /\ groups[k][p] = i BY <2>6
  <2>8. place(i) = p BY <2>4
  <2> HIDE DEF k, p, place, group
  <2>9. Kernel(k)[p] = [row |-> rows[i], key |-> k] BY <2>7
  <2> QED BY <2>4, <2>8, <2>9 DEF k
<1> HIDE DEF Kernel, group, place
<1> QED BY <1>1, <1>6
-----------------------------------------------------------------------------
(* The rows of a batch.                                                     *)

Reqs == ContextOf(batch) \o batch.generation

RowsOf(r) ==
    IF r \in Range(ContextOf(batch))
    THEN ContextRows(r, num_context_tokens_processed, batch.tokens)
    ELSE GenerationRows(r, ContextLen, num_output_tokens, setup.full_sequence)

Width(r) ==
    IF r \in Range(ContextOf(batch)) THEN batch.tokens[r]
    ELSE IF setup.full_sequence THEN ContextLen[r] + num_output_tokens[r] ELSE 1

(* The index of the last token the model reads of a request.                *)
LastTok(r) ==
    IF r \in Range(ContextOf(batch))
    THEN num_context_tokens_processed[r] + batch.tokens[r] - 1
    ELSE ContextLen[r] + num_output_tokens[r] - 1

LEMMA BatchMembers ==
    ASSUME TypeOK, BatchOK
    PROVE  /\ ContextOf(batch) \in Seq(Requests) /\ IsInjective(ContextOf(batch))
           /\ Range(ContextOf(batch)) =
                  Range(batch.context_chunking) \cup Range(batch.context_last_chunk)
           /\ \A r \in Range(ContextOf(batch)) :
                  InContext(r) /\ batch.tokens[r] \in Nat \ {0} /\ responses[r] = <<>>
           /\ Range(ContextOf(batch)) \cap Range(batch.generation) = {}
           /\ Reqs \in Seq(Requests) /\ IsInjective(Reqs)
           /\ Range(Reqs) = Range(ContextOf(batch)) \cup Range(batch.generation)
           /\ Sampled \in Seq(Requests) /\ IsInjective(Sampled)
           /\ Range(Sampled) = Range(batch.context_last_chunk) \cup Range(batch.generation)
           /\ Reqs = batch.context_chunking \o Sampled
<1> DEFINE c == batch.context_chunking
           l == batch.context_last_chunk
           g == batch.generation
<1>1. /\ c \in Seq(Requests) /\ IsInjective(c) /\ l \in Seq(Requests) /\ IsInjective(l)
      /\ g \in Seq(Requests) /\ IsInjective(g) /\ Range(c) \cap Range(l) = {}
      /\ \A r \in Range(c) \cup Range(l) :
             InContext(r) /\ batch.tokens[r] \in Nat \ {0} /\ responses[r] = <<>>
  BY DEF BatchOK
<1>2. \A r \in Range(g) : ~InContext(r)
  BY DEF BatchOK, InContext, is_generation_phase
<1> DEFINE x == c \o l
           y == l \o g
<1>3. ContextOf(batch) = x /\ Reqs = x \o g /\ Sampled = y
  BY DEF ContextOf, Reqs, Sampled
<1> HIDE DEF c, l, g
<1>4. x \in Seq(Requests) /\ Range(x) = Range(c) \cup Range(l) /\ IsInjective(x)
  BY <1>1, ConcatElements, ConcatProperties
<1>5. (Range(c) \cup Range(l)) \cap Range(g) = {}
  BY <1>1, <1>2
<1>6. Range(l) \cap Range(g) = {} /\ Range(x) \cap Range(g) = {}
  BY <1>4, <1>5
<1>7. y \in Seq(Requests) /\ Range(y) = Range(l) \cup Range(g) /\ IsInjective(y)
  BY <1>1, <1>6, ConcatElements, ConcatProperties
<1>8. x \o g = c \o y
  BY <1>1, ConcatAssociative
<1> HIDE DEF x, y
<1>9. /\ x \o g \in Seq(Requests) /\ Range(x \o g) = Range(x) \cup Range(g)
      /\ IsInjective(x \o g)
  BY <1>1, <1>4, <1>6, ConcatElements, ConcatProperties
<1> QED BY <1>1, <1>3, <1>4, <1>6, <1>7, <1>8, <1>9 DEF c, l, g

LEMMA RowsOfOne ==
    ASSUME TypeOK, BatchOK, NEW r \in Range(Reqs)
    PROVE  /\ r \in Requests
           /\ RowsOf(r) \in Seq(Row)
           /\ Width(r) \in Nat \ {0} /\ Len(RowsOf(r)) = Width(r)
           /\ \A i \in 1 .. Width(r) : RowsOf(r)[i].req = r
           /\ RowsOf(r)[Width(r)].tok = LastTok(r)
<1>1. r \in Requests
  BY BatchMembers, ElementsOfSeq
<1> DEFINE p == num_context_tokens_processed[r]
           n == num_output_tokens[r]
           C == ContextLen[r]
<1>2. p \in Nat /\ n \in Nat /\ C \in Nat \ {0} /\ setup.full_sequence \in BOOLEAN
  <2>1. p \in Nat BY <1>1 DEF TypeOK
  <2>2. C \in Nat \ {0} BY <1>1, OverlapAssumption
  <2>3. output[r] \in Seq(Token) BY <1>1 DEF TypeOK
  <2>4. n = Len(output[r]) BY <1>1 DEF num_output_tokens
  <2>5. n \in Nat BY <2>3, <2>4, LenProperties
  <2>6. setup.full_sequence \in BOOLEAN BY OverlapAssumption DEF TypeOK
  <2> QED BY <2>1, <2>2, <2>5, <2>6
<1>3. CASE r \in Range(ContextOf(batch))
  <2> DEFINE w == batch.tokens[r]
             rows == [i \in 1 .. w |-> [req |-> r, tok |-> p + i - 1, pos |-> p + i - 1]]
  <2>1. w \in Nat \ {0} BY <1>3, BatchMembers
  <2>2. RowsOf(r) = rows /\ Width(r) = w /\ LastTok(r) = p + w - 1
    BY <1>3 DEF RowsOf, ContextRows, Width, LastTok
  <2> HIDE DEF w, p
  <2>3. \A i \in 1 .. w : p + i - 1 \in Int BY <1>2, <2>1
  <2>4. rows \in [1 .. w -> Row] BY <1>1, <2>3 DEF Row
  <2>5. rows \in Seq(Row) /\ Len(rows) = w BY <2>1, <2>4, SeqDef
  <2>6. \A i \in 1 .. w : rows[i].req = r /\ rows[i].tok = p + i - 1 OBVIOUS
  <2>7. w \in 1 .. w BY <2>1
  <2> HIDE DEF rows
  <2> QED BY <1>1, <2>1, <2>2, <2>5, <2>6, <2>7
<1>4. CASE r \notin Range(ContextOf(batch)) /\ setup.full_sequence
  <2> DEFINE w == C + n
             rows == [i \in 1 .. w |-> [req |-> r, tok |-> i - 1, pos |-> i - 1]]
  <2>1. w \in Nat \ {0} BY <1>2
  <2>2. RowsOf(r) = rows /\ Width(r) = w /\ LastTok(r) = w - 1
    <3>1. RowsOf(r) = SequenceRows(r, w) BY <1>4 DEF RowsOf, GenerationRows
    <3>2. Width(r) = w BY <1>4 DEF Width
    <3>3. LastTok(r) = w - 1 BY <1>2, <1>4 DEF LastTok
    <3> QED BY <3>1, <3>2, <3>3 DEF SequenceRows
  <2> HIDE DEF w
  <2>3. \A i \in 1 .. w : i - 1 \in Int BY <2>1
  <2>4. rows \in [1 .. w -> Row] BY <1>1, <2>3 DEF Row
  <2>5. rows \in Seq(Row) /\ Len(rows) = w BY <2>1, <2>4, SeqDef
  <2>6. \A i \in 1 .. w : rows[i].req = r /\ rows[i].tok = i - 1 OBVIOUS
  <2>7. w \in 1 .. w BY <2>1
  <2> HIDE DEF rows
  <2> QED BY <1>1, <2>1, <2>2, <2>5, <2>6, <2>7
<1>5. CASE r \notin Range(ContextOf(batch)) /\ ~setup.full_sequence
  <2> DEFINE pos == C + n - 1
             row == [req |-> r, tok |-> IF n > 0 THEN pos ELSE C - 1,
                     pos |-> IF pos < 0 THEN 0 ELSE pos]
  <2>1. RowsOf(r) = <<row>> /\ Width(r) = 1 /\ LastTok(r) = pos
    BY <1>5 DEF RowsOf, GenerationRows, LastTokenRow, Width, LastTok
  <2> HIDE DEF n, C
  <2>2. pos \in Int /\ row.tok = pos /\ row.pos \in Int /\ row.tok \in Int BY <1>2
  <2>3. row \in Row BY <1>1, <1>2, <2>2 DEF Row
  <2>4. row.req = r OBVIOUS
  <2> HIDE DEF row, pos
  <2>5. <<row>> \in Seq(Row) /\ Len(<<row>>) = 1 /\ <<row>>[1] = row BY <2>3
  <2> QED BY <1>1, <2>1, <2>2, <2>4, <2>5
<1> QED BY <1>2, <1>3, <1>4, <1>5
Parts == _prepare_inputs(batch, num_context_tokens_processed, ContextLen,
                         num_output_tokens, setup.full_sequence)

(* The parts of the input are the rows of the requests of the batch, and    *)
(* the widths the engine adds up are their lengths.                         *)
LEMMA PartsOfRequests ==
    ASSUME TypeOK, BatchOK
    PROVE  /\ Parts = [i \in DOMAIN Reqs |-> RowsOf(Reqs[i])]
           /\ Parts \in Seq(Seq(Row)) /\ Len(Parts) = Len(Reqs)
<1> DEFINE c == batch.context_chunking
           l == batch.context_last_chunk
           g == batch.generation
           x == ContextOf(batch)
           R == Range(Reqs)
           f == [r \in R |-> RowsOf(r)]
           S == Seq(Row)
<1>1. /\ x = c \o l /\ Reqs = x \o g
      /\ c \in Seq(Requests) /\ l \in Seq(Requests) /\ g \in Seq(Requests)
      /\ x \in Seq(Requests) /\ Reqs \in Seq(Requests)
      /\ Range(x) = Range(c) \cup Range(l) /\ R = Range(x) \cup Range(g)
      /\ Range(x) \cap Range(g) = {}
  BY BatchMembers DEF BatchOK, ContextOf, Reqs
<1>2. f \in [R -> S]
  BY RowsOfOne
<1>3. c \in Seq(R) /\ l \in Seq(R) /\ g \in Seq(R) /\ x \in Seq(R) /\ Reqs \in Seq(R)
  <2>1. ASSUME NEW s \in Seq(Requests), Range(s) \subseteq R PROVE s \in Seq(R)
    <3>1. s \in [1 .. Len(s) -> R] /\ Len(s) \in Nat BY <2>1, LenProperties DEF Range
    <3> QED BY <3>1, SeqDef
  <2> HIDE DEF c, l, g, x, R
  <2> QED BY <1>1, <2>1
<1>4. /\ \A i \in DOMAIN c : c[i] \in Range(x)
      /\ \A i \in DOMAIN l : l[i] \in Range(x)
      /\ \A i \in DOMAIN g : g[i] \in Range(g) /\ g[i] \notin Range(x)
  <2> HIDE DEF c, l, g, x, R
  <2>1. \A s : \A i \in DOMAIN s : s[i] \in Range(s) BY DEF Range
  <2> QED BY <1>1, <2>1
<1>5. /\ \A i \in DOMAIN c : f[c[i]] = ContextRows(c[i], num_context_tokens_processed, batch.tokens)
      /\ \A i \in DOMAIN l : f[l[i]] = ContextRows(l[i], num_context_tokens_processed, batch.tokens)
      /\ \A i \in DOMAIN g : f[g[i]] = GenerationRows(g[i], ContextLen, num_output_tokens,
                                                      setup.full_sequence)
  <2>1. \A r \in R : f[r] = RowsOf(r) OBVIOUS
  <2> HIDE DEF f
  <2> QED BY <1>1, <1>4, <2>1 DEF RowsOf
<1> HIDE DEF f
<1>6. Parts = (Mapped(f, c) \o Mapped(f, l)) \o Mapped(f, g)
  <2>1. [i \in DOMAIN c |-> f[c[i]]]
            = [i \in DOMAIN c |-> ContextRows(c[i], num_context_tokens_processed, batch.tokens)]
    BY <1>5
  <2>2. [i \in DOMAIN l |-> f[l[i]]]
            = [i \in DOMAIN l |-> ContextRows(l[i], num_context_tokens_processed, batch.tokens)]
    BY <1>5
  <2>3. [i \in DOMAIN g |-> f[g[i]]]
            = [i \in DOMAIN g |-> GenerationRows(g[i], ContextLen, num_output_tokens,
                                                 setup.full_sequence)]
    BY <1>5
  <2> QED BY <2>1, <2>2, <2>3 DEF Parts, _prepare_inputs, Mapped
<1> HIDE DEF c, l, g, x, R, S
<1>7. Mapped(f, c) \o Mapped(f, l) = Mapped(f, c \o l)
  BY <1>2, <1>3, MapConcat
<1>8. Mapped(f, x) \o Mapped(f, g) = Mapped(f, x \o g)
  BY <1>2, <1>3, MapConcat
<1>9. Parts = [i \in DOMAIN Reqs |-> f[Reqs[i]]]
  BY <1>1, <1>6, <1>7, <1>8 DEF Mapped
<1>10. DOMAIN Reqs = 1 .. Len(Reqs) /\ Len(Reqs) \in Nat /\ \A i \in DOMAIN Reqs : Reqs[i] \in R
  BY <1>3, LenProperties
<1>11. Parts \in [1 .. Len(Reqs) -> S]
  BY <1>2, <1>9, <1>10
<1>12. Parts \in Seq(S) /\ Len(Parts) = Len(Reqs)
  BY <1>10, <1>11, SeqDef
<1>13. Parts = [i \in DOMAIN Reqs |-> RowsOf(Reqs[i])]
  <2>1. \A r \in R : f[r] = RowsOf(r) BY DEF f
  <2> QED BY <1>9, <1>10, <2>1
<1> QED BY <1>12, <1>13 DEF S

Widths ==
    [i \in DOMAIN ContextOf(batch) |-> batch.tokens[ContextOf(batch)[i]]]
    \o [i \in DOMAIN batch.generation |->
           IF setup.full_sequence
           THEN ContextLen[batch.generation[i]] + num_output_tokens[batch.generation[i]]
           ELSE 1]

LEMMA WidthsOfRequests ==
    ASSUME TypeOK, BatchOK
    PROVE  /\ Widths = [i \in DOMAIN Reqs |-> Width(Reqs[i])]
           /\ Widths \in Seq(Nat) /\ Len(Widths) = Len(Reqs)
<1> DEFINE g == batch.generation
           x == ContextOf(batch)
           R == Range(Reqs)
           f == [r \in R |-> Width(r)]
<1>1. /\ Reqs = x \o g
      /\ g \in Seq(Requests) /\ x \in Seq(Requests) /\ Reqs \in Seq(Requests)
      /\ R = Range(x) \cup Range(g)
      /\ Range(x) \cap Range(g) = {}
  BY BatchMembers DEF BatchOK, ContextOf, Reqs
<1>2. f \in [R -> Nat]
  BY RowsOfOne
<1>3. g \in Seq(R) /\ x \in Seq(R) /\ Reqs \in Seq(R)
  <2>1. ASSUME NEW s \in Seq(Requests), Range(s) \subseteq R PROVE s \in Seq(R)
    <3>1. s \in [1 .. Len(s) -> R] /\ Len(s) \in Nat BY <2>1, LenProperties DEF Range
    <3> QED BY <3>1, SeqDef
  <2> HIDE DEF g, x, R
  <2> QED BY <1>1, <2>1
<1>4. /\ \A i \in DOMAIN x : x[i] \in Range(x)
      /\ \A i \in DOMAIN g : g[i] \in Range(g) /\ g[i] \notin Range(x)
  <2> HIDE DEF g, x, R
  <2>1. \A s : \A i \in DOMAIN s : s[i] \in Range(s) BY DEF Range
  <2> QED BY <1>1, <2>1
<1>5. /\ \A i \in DOMAIN x : f[x[i]] = batch.tokens[x[i]]
      /\ \A i \in DOMAIN g : f[g[i]] = IF setup.full_sequence
                                       THEN ContextLen[g[i]] + num_output_tokens[g[i]] ELSE 1
  <2>1. \A r \in R : f[r] = Width(r) OBVIOUS
  <2> HIDE DEF f
  <2> QED BY <1>1, <1>4, <2>1 DEF Width
<1> HIDE DEF f
<1>6. Widths = Mapped(f, x) \o Mapped(f, g)
  <2>1. [i \in DOMAIN x |-> f[x[i]]] = [i \in DOMAIN x |-> batch.tokens[x[i]]]
    BY <1>5
  <2>2. [i \in DOMAIN g |-> f[g[i]]]
            = [i \in DOMAIN g |-> IF setup.full_sequence
                                  THEN ContextLen[g[i]] + num_output_tokens[g[i]] ELSE 1]
    BY <1>5
  <2> QED BY <2>1, <2>2 DEF Widths, Mapped
<1> HIDE DEF g, x, R
<1>7. Mapped(f, x) \o Mapped(f, g) = Mapped(f, x \o g)
  BY <1>2, <1>3, MapConcat
<1>8. Widths = [i \in DOMAIN Reqs |-> f[Reqs[i]]]
  BY <1>1, <1>6, <1>7 DEF Mapped
<1>9. DOMAIN Reqs = 1 .. Len(Reqs) /\ Len(Reqs) \in Nat /\ \A i \in DOMAIN Reqs : Reqs[i] \in R
  BY <1>3, LenProperties
<1>10. Widths \in [1 .. Len(Reqs) -> Nat]
  BY <1>2, <1>8, <1>9
<1>11. Widths \in Seq(Nat) /\ Len(Widths) = Len(Reqs)
  BY <1>9, <1>10, SeqDef
<1>12. Widths = [i \in DOMAIN Reqs |-> Width(Reqs[i])]
  <2>1. \A r \in R : f[r] = Width(r) BY DEF f
  <2> QED BY <1>8, <1>9, <2>1
<1> QED BY <1>11, <1>12
(* Each logit is that of the last row of its request.                       *)
LEMMA LogitRows ==
    ASSUME TypeOK, BatchOK
    PROVE  /\ logits \in Seq(Row) /\ Len(logits) = Len(Reqs)
           /\ \A i \in 1 .. Len(Reqs) : /\ logits[i].req = Reqs[i]
                                        /\ logits[i].tok = LastTok(Reqs[i])
<1> DEFINE n == Len(Reqs)
           o == Totals(Widths)
           input_ids == FlattenSeq(Parts)
<1>1. /\ n \in Nat /\ Len(Widths) = n /\ Len(Parts) = n /\ Widths \in Seq(Nat)
      /\ Parts \in Seq(Seq(Row)) /\ DOMAIN Widths = 1 .. n
      /\ \A i \in 1 .. n : /\ Reqs[i] \in Range(Reqs)
                           /\ Parts[i] = RowsOf(Reqs[i]) /\ Widths[i] = Width(Reqs[i])
  <2>1. Reqs \in Seq(Requests) BY BatchMembers
  <2>2. n \in Nat /\ DOMAIN Reqs = 1 .. n BY <2>1, LenProperties
  <2>3. \A i \in 1 .. n : Reqs[i] \in Range(Reqs) BY <2>2 DEF Range
  <2>4. DOMAIN Widths = 1 .. Len(Widths) BY WidthsOfRequests, LenProperties
  <2>5. \A i \in 1 .. n : Parts[i] = RowsOf(Reqs[i]) BY <2>2, PartsOfRequests
  <2>6. \A i \in 1 .. n : Widths[i] = Width(Reqs[i]) BY <2>2, WidthsOfRequests
  <2> QED BY <2>2, <2>3, <2>4, <2>5, <2>6, PartsOfRequests, WidthsOfRequests
<1>2. logits = [i \in 1 .. n |-> input_ids[o[i]]]
  <2>1. SamplingIndices(batch, ContextLen, num_output_tokens, setup.full_sequence)
            = [i \in DOMAIN Widths |-> o[i]]
    BY DEF SamplingIndices, Totals, Widths, ContextOf
  <2> DEFINE idx == [i \in DOMAIN Widths |-> o[i]]
  <2>2. logits = [i \in DOMAIN idx |-> input_ids[idx[i]]]
    BY <2>1 DEF logits, forward, Parts
  <2> HIDE DEF o, input_ids
  <2>3. DOMAIN idx = 1 .. n /\ \A i \in 1 .. n : idx[i] = o[i] BY <1>1
  <2> HIDE DEF idx
  <2> QED BY <2>2, <2>3
<1>3. CASE n = 0
  <2>1. 1 .. n = {} /\ logits = [i \in 1 .. 0 |-> input_ids[o[i]]] BY <1>2, <1>3
  <2> HIDE DEF o, input_ids, n
  <2>2. logits \in [1 .. 0 -> Row] BY <2>1
  <2>3. logits \in Seq(Row) /\ Len(logits) = 0 BY <2>2, SeqDef
  <2> QED BY <1>3, <2>1, <2>3 DEF n
<1>4. CASE n # 0
  <2>1. ASSUME NEW i \in 1 .. n
        PROVE  /\ RowsOf(Reqs[i]) \in Seq(Row) /\ Width(Reqs[i]) \in Nat \ {0}
               /\ Len(RowsOf(Reqs[i])) = Width(Reqs[i])
               /\ RowsOf(Reqs[i])[Width(Reqs[i])].req = Reqs[i]
               /\ RowsOf(Reqs[i])[Width(Reqs[i])].tok = LastTok(Reqs[i])
    <3> DEFINE r == Reqs[i]
    <3>1. r \in Range(Reqs) BY <1>1
    <3> HIDE DEF r
    <3>2. /\ RowsOf(r) \in Seq(Row)
          /\ Width(r) \in Nat \ {0} /\ Len(RowsOf(r)) = Width(r)
          /\ \A k \in 1 .. Width(r) : RowsOf(r)[k].req = r
          /\ RowsOf(r)[Width(r)].tok = LastTok(r)
      BY <3>1, RowsOfOne
    <3>3. Width(r) \in 1 .. Width(r) BY <3>2
    <3> QED BY <3>2, <3>3 DEF r
  <2>2. Parts # <<>> BY <1>1, <1>4, EmptySeq
  <2>3. \A i \in 1 .. Len(Parts) : Len(Parts[i]) = Widths[i] /\ Widths[i] > 0
    BY <1>1, <2>1
  <2>4. \A i \in 1 .. Len(Parts) : FlattenSeq(Parts)[o[i]] = Parts[i][Widths[i]]
    <3>1. o = Totals(Widths)
      OBVIOUS
    <3> HIDE DEF o
    <3> DEFINE w == Widths
               parts == Parts
    <3>2. /\ w \in Seq(Nat) /\ Len(w) = Len(parts) /\ parts \in Seq(Seq(Row)) /\ parts # <<>>
          /\ \A i \in 1 .. Len(parts) : Len(parts[i]) = w[i] /\ w[i] > 0
          /\ o = Totals(w)
      BY <1>1, <2>2, <2>3, <3>1
    <3> HIDE DEF w, parts
    <3>3. \A i \in 1 .. Len(parts) : FlattenSeq(parts)[o[i]] = parts[i][w[i]]
      BY ONLY <3>2, LastOfParts
    <3> QED BY <3>3 DEF w, parts
  <2> HIDE DEF o
  <2>5. \A i \in 1 .. n : input_ids[o[i]] = RowsOf(Reqs[i])[Width(Reqs[i])]
    BY <1>1, <2>4
  <2> HIDE DEF input_ids, n
  <2>6. \A i \in 1 .. n : logits[i] = RowsOf(Reqs[i])[Width(Reqs[i])]
    BY <1>2, <2>5
  <2>7. \A i \in 1 .. n : RowsOf(Reqs[i])[Width(Reqs[i])] \in Row
    <3>1. ASSUME NEW s \in Seq(Row), NEW k \in Nat \ {0}, k = Len(s) PROVE s[k] \in Row
      <4>1. k \in 1 .. Len(s) BY <3>1
      <4> QED BY <4>1
    <3> QED BY <2>1, <3>1
  <2>8. logits \in [1 .. n -> Row]
    BY <1>2, <2>6, <2>7
  <2>9. logits \in Seq(Row) /\ Len(logits) = n
    BY <1>1, <2>8, SeqDef
  <2> QED BY <2>1, <2>6, <2>9 DEF n
<1> QED BY <1>3, <1>4

(* The tokens of sample_async, one call before they are applied.            *)
NewPrev ==
    [i \in DOMAIN Sampled |->
        [req |-> Sampled[i],
         token |-> sample_async(LastRows(logits, Len(Sampled)), Sampled, Strategy)[i]]]

LEMMA TokensOfRequests ==
    ASSUME TypeOK, BatchOK
    PROVE  /\ NewPrev \in Seq(Pending) /\ DOMAIN NewPrev = DOMAIN Sampled
           /\ \A i \in DOMAIN Sampled :
                  /\ NewPrev[i].req = Sampled[i]
                  /\ NewPrev[i].token.row.req = Sampled[i]
                  /\ NewPrev[i].token.row.tok = LastTok(Sampled[i])
                  /\ NewPrev[i].token.key = Strategy[Sampled[i]]
<1> DEFINE c == batch.context_chunking
           s == Sampled
           a == Len(c)
           n == Len(s)
           rows == LastRows(logits, n)
<1>1. /\ c \in Seq(Requests) /\ s \in Seq(Requests) /\ Reqs = c \o s
      /\ a \in Nat /\ n \in Nat /\ DOMAIN s = 1 .. n
      /\ \A i \in 1 .. n : s[i] \in Requests
  <2>1. c \in Seq(Requests) /\ s \in Seq(Requests) /\ Reqs = c \o s BY BatchMembers DEF BatchOK
  <2> QED BY <2>1, LenProperties
<1> HIDE DEF c, s, a, n
<1>2. Len(Reqs) = a + n /\ \A i \in 1 .. n : a + i \in 1 .. a + n /\ Reqs[a + i] = s[i]
  <2>1. /\ Len(Reqs) = a + n
        /\ \A i \in 1 .. a + n : Reqs[i] = IF i <= a THEN c[i] ELSE s[i - a]
    BY <1>1, ConcatProperties DEF a, n
  <2> SUFFICES ASSUME NEW i \in 1 .. n PROVE a + i \in 1 .. a + n /\ Reqs[a + i] = s[i]
    BY <2>1
  <2>2. a + i \in 1 .. a + n /\ ~(a + i <= a) /\ (a + i) - a = i BY <1>1
  <2> QED BY <2>1, <2>2
<1>3. /\ logits \in Seq(Row) /\ Len(logits) = a + n
      /\ \A i \in 1 .. a + n : /\ logits[i] \in Row
                               /\ logits[i].req = Reqs[i]
                               /\ logits[i].tok = LastTok(Reqs[i])
  BY <1>2, LogitRows, LenProperties
<1>4. \A i \in 1 .. n : rows[i] = logits[a + i]
  <2>1. rows = SubSeq(logits, (a + n) - n + 1, a + n)
    BY <1>3 DEF LastRows
  <2>2. (a + n) - n + 1 = a + 1 BY <1>1
  <2>3. rows = SubSeq(logits, a + 1, a + n) BY <2>1, <2>2
  <2>4. \A i \in a + 1 .. a + n : i \in 1 .. a + n BY <1>1
  <2>5. \A i \in a + 1 .. a + n : logits[i] \in Row BY <1>3, <2>4
  <2>6. a + 1 \in Int /\ a + n \in Int BY <1>1
  <2>7. \A i \in 1 .. (a + n) - (a + 1) + 1 :
            SubSeq(logits, a + 1, a + n)[i] = logits[(a + 1) + i - 1]
    BY <2>5, <2>6, SubSeqProperties
  <2> SUFFICES ASSUME NEW i \in 1 .. n PROVE rows[i] = logits[a + i]
    OBVIOUS
  <2>8. i \in 1 .. (a + n) - (a + 1) + 1 /\ (a + 1) + i - 1 = a + i BY <1>1
  <2> HIDE DEF rows
  <2> QED BY <2>3, <2>7, <2>8
<1>5. sample_async(rows, s, Strategy) = [i \in 1 .. n |-> [row |-> rows[i], key |-> Strategy[s[i]]]]
  <2> HIDE DEF rows
  <2> QED BY <1>1, SampleOwn
<1>6. NewPrev = [i \in 1 .. n |-> [req |-> s[i], token |-> sample_async(rows, s, Strategy)[i]]]
  BY <1>1 DEF NewPrev, s, n
<1> HIDE DEF rows
<1>7. ASSUME NEW i \in 1 .. n
      PROVE  /\ NewPrev[i] \in Pending
             /\ NewPrev[i].req = s[i]
             /\ NewPrev[i].token.row.req = s[i]
             /\ NewPrev[i].token.row.tok = LastTok(s[i])
             /\ NewPrev[i].token.key = Strategy[s[i]]
  <2> DEFINE l == logits[a + i]
             token == [row |-> l, key |-> Strategy[s[i]]]
  <2>1. NewPrev[i] = [req |-> s[i], token |-> token]
    BY <1>4, <1>5, <1>6
  <2>2. l \in Row /\ l.req = s[i] /\ l.tok = LastTok(s[i])
    BY <1>2, <1>3
  <2>3. s[i] \in Requests /\ Strategy[s[i]] \in Key
    BY <1>1, OverlapAssumption DEF Key, Range
  <2> HIDE DEF l
  <2>4. token \in Token /\ token.row = l /\ token.key = Strategy[s[i]]
    BY <2>2, <2>3 DEF Token
  <2> HIDE DEF token
  <2>5. NewPrev[i] \in Pending /\ NewPrev[i].req = s[i] /\ NewPrev[i].token = token
    BY <2>1, <2>3, <2>4 DEF Pending
  <2> QED BY <2>2, <2>4, <2>5
<1>8. DOMAIN NewPrev = 1 .. n BY <1>6
<1>9. NewPrev \in Seq(Pending)
  <2>1. NewPrev = [i \in 1 .. n |-> NewPrev[i]] BY <1>6
  <2>2. NewPrev \in [1 .. n -> Pending] BY <1>7, <2>1
  <2> QED BY <1>1, <2>2, SeqDef
<1> QED BY <1>1, <1>7, <1>8, <1>9 DEF s

(* What the model reads of one request.                                     *)
LEMMA SeenOfOne ==
    ASSUME TypeOK, BatchOK, NEW r \in Requests
    PROVE  RowsSeen(r) = IF r \in Range(Reqs) THEN RowsOf(r) ELSE <<>>
<1> DEFINE n == Len(Reqs)
           all == FlattenSeq(Parts)
           S == {row \in Range(all) : row.req = r}
<1>1. RowsSeen(r) = Keep(all, S)
  BY DEF RowsSeen, Parts
<1>2. /\ n \in Nat /\ Len(Parts) = n /\ Parts \in Seq(Seq(Row))
      /\ \A i \in 1 .. n : Reqs[i] \in Range(Reqs) /\ Parts[i] = RowsOf(Reqs[i])
      /\ \A i, j \in 1 .. n : Reqs[i] = Reqs[j] => i = j
      /\ \A q \in Range(Reqs) : \E i \in 1 .. n : Reqs[i] = q
  <2>1. Reqs \in Seq(Requests) /\ IsInjective(Reqs) BY BatchMembers
  <2>2. n \in Nat /\ DOMAIN Reqs = 1 .. n BY <2>1, LenProperties
  <2>3. \A i \in 1 .. n : Reqs[i] \in Range(Reqs) BY <2>2 DEF Range
  <2>5. \A i \in 1 .. n : Parts[i] = RowsOf(Reqs[i]) BY <2>2, PartsOfRequests
  <2>6. \A i, j \in 1 .. n : Reqs[i] = Reqs[j] => i = j BY <2>1, <2>2 DEF IsInjective
  <2>7. \A q \in Range(Reqs) : \E i \in 1 .. n : Reqs[i] = q BY <2>2 DEF Range
  <2> QED BY <2>2, <2>3, <2>5, <2>6, <2>7, PartsOfRequests
<1>3. ASSUME NEW i \in 1 .. n
      PROVE  /\ Parts[i] \in Seq(Row)
             /\ \A row \in Range(Parts[i]) : row.req = Reqs[i]
  <2> DEFINE q == Reqs[i]
  <2>1. q \in Range(Reqs) /\ Parts[i] = RowsOf(q) BY <1>2
  <2> HIDE DEF q
  <2>2. /\ RowsOf(q) \in Seq(Row) /\ Len(RowsOf(q)) = Width(q)
        /\ \A k \in 1 .. Width(q) : RowsOf(q)[k].req = q
    BY <2>1, RowsOfOne
  <2>3. DOMAIN RowsOf(q) = 1 .. Width(q) BY <2>2, LenProperties
  <2>4. \A row \in Range(RowsOf(q)) : row.req = q BY <2>2, <2>3 DEF Range
  <2> QED BY <2>1, <2>2, <2>4 DEF q
<1>4. CASE Parts = <<>>
  <2>1. n = 0 BY <1>2, <1>4
  <2>2. Range(Reqs) = {} BY <1>2, <2>1
  <2>3. all = <<>> BY <1>4 DEF FlattenSeq
  <2>4. Keep(<<>>, S) = <<>>
    <3> HIDE DEF S
    <3>1. <<>> \in Seq(Row) /\ Range(<<>>) \cap S = {} BY EmptyRange
    <3> QED BY <3>1, KeepNone
  <2> QED BY <1>1, <2>2, <2>3, <2>4
<1>5. CASE Parts # <<>>
  <2>1. all \in Seq(Row) /\ \A i \in 1 .. n : Range(Parts[i]) \subseteq Range(all)
    BY <1>2, <1>5, FlattenElements
  <2> HIDE DEF all
  <2>2. \A i \in 1 .. n : Reqs[i] = r => Range(Parts[i]) \subseteq S
    BY <1>3, <2>1
  <2>3. \A i \in 1 .. n : Reqs[i] # r => Range(Parts[i]) \cap S = {}
    BY <1>3
  <2> HIDE DEF S
  <2>4. CASE r \in Range(Reqs)
    <3>1. PICK p \in 1 .. n : Reqs[p] = r BY <1>2, <2>4
    <3>2. \A i \in 1 .. n : i # p => Range(Parts[i]) \cap S = {} BY <1>2, <2>3, <3>1
    <3>3. p \in 1 .. Len(Parts) /\ Range(Parts[p]) \subseteq S
          /\ \A i \in 1 .. Len(Parts) : i # p => Range(Parts[i]) \cap S = {}
      BY <1>2, <2>2, <3>1, <3>2
    <3>4. Keep(FlattenSeq(Parts), S) = Parts[p]
      BY <1>2, <3>3, KeepPart
    <3> QED BY <1>1, <1>2, <2>4, <3>1, <3>4 DEF all
  <2>5. CASE r \notin Range(Reqs)
    <3>1. \A i \in 1 .. Len(Parts) : Range(Parts[i]) \cap S = {} BY <1>2, <2>3, <2>5
    <3>2. Keep(FlattenSeq(Parts), S) = <<>> BY <1>2, <1>5, <3>1, KeepNoPart
    <3> QED BY <1>1, <2>5, <3>2 DEF all
  <2> QED BY <2>4, <2>5
<1> QED BY <1>4, <1>5

(* Without recomputation, the rows of a request are the tokens that follow  *)
(* the ones the model has read, up to the last one, at their own positions. *)
LEMMA RowsInOrder ==
    ASSUME TypeOK, BatchOK, ~setup.full_sequence, NEW r \in Range(Reqs), NEW i \in 1 .. Width(r)
    PROVE  /\ RowsOf(r)[i].tok = LastTok(r) - Width(r) + i
           /\ RowsOf(r)[i].pos = LastTok(r) - Width(r) + i
<1>1. r \in Requests
  BY BatchMembers, ElementsOfSeq
<1> DEFINE p == num_context_tokens_processed[r]
           n == num_output_tokens[r]
           C == ContextLen[r]
           w == batch.tokens[r]
<1>2. p \in Nat /\ n \in Nat /\ C \in Nat \ {0}
  <2>1. p \in Nat BY <1>1 DEF TypeOK
  <2>2. C \in Nat \ {0} BY <1>1, OverlapAssumption
  <2>3. output[r] \in Seq(Token) BY <1>1 DEF TypeOK
  <2>4. n = Len(output[r]) BY <1>1 DEF num_output_tokens
  <2> QED BY <2>1, <2>2, <2>3, <2>4, LenProperties
<1>3. CASE r \in Range(ContextOf(batch))
  <2>1. w \in Nat \ {0} BY <1>3, BatchMembers
  <2>2. /\ Width(r) = w /\ LastTok(r) = p + w - 1
        /\ RowsOf(r)[i].tok = p + i - 1 /\ RowsOf(r)[i].pos = p + i - 1
    BY <1>3 DEF RowsOf, ContextRows, Width, LastTok
  <2> HIDE DEF w, p
  <2>3. i \in Int BY <2>1, <2>2
  <2>4. (p + w - 1) - w + i = p + i - 1 BY <1>2, <2>1, <2>3
  <2> QED BY <2>2, <2>4
<1>4. CASE r \notin Range(ContextOf(batch))
  <2> DEFINE pos == C + n - 1
             row == [req |-> r, tok |-> IF n > 0 THEN pos ELSE C - 1,
                     pos |-> IF pos < 0 THEN 0 ELSE pos]
  <2>1. RowsOf(r) = <<row>> /\ Width(r) = 1 /\ LastTok(r) = pos
    BY <1>4 DEF RowsOf, GenerationRows, LastTokenRow, Width, LastTok
  <2> HIDE DEF n, C
  <2>2. i = 1 /\ pos \in Int BY <1>2, <2>1
  <2>3. row.tok = pos /\ row.pos = pos BY <1>2
  <2>4. pos - 1 + 1 = pos BY <2>2
  <2> HIDE DEF row, pos
  <2> QED BY <2>1, <2>2, <2>3, <2>4
<1> QED BY <1>3, <1>4

-----------------------------------------------------------------------------
(* Each step keeps the invariant.                                           *)

LEMMA StartsRight == Init => IInv
<1> SUFFICES ASSUME Init PROVE IInv
  OBVIOUS
<1>1. <<>> \in Seq(Requests) /\ <<>> \in Seq(Token) /\ <<>> \in Seq(Row) /\ <<>> \in Seq(Pending)
      /\ <<>> \in Seq(Nat) /\ Len(<<>>) = 0 /\ DOMAIN <<>> = {}
  OBVIOUS
<1>2. TypeOK
  BY <1>1 DEF Init, TypeOK, RequestState
<1>3. QueuesOK
  BY EmptyRange DEF Init, QueuesOK
<1>4. ContextOK
  <2>1. PrevReqs = {} BY <1>1 DEF Init, PrevReqs
  <2> QED BY <2>1, OverlapAssumption DEF Init, ContextOK
<1>5. PrevOK
  BY <1>1 DEF Init, PrevOK, IsInjective
<1>6. OutputOK
  BY <1>1 DEF Init, OutputOK
<1>7. FedOK
  BY <1>1, EmptyRange DEF Init, FedOK
<1> QED BY <1>2, <1>3, <1>4, <1>5, <1>6, <1>7 DEF Init, IInv, BusyOK, MovedOK

LEMMA EnqueueStep ==
    ASSUME IInv, NEW r \in Requests, enqueue_request(r)
    PROVE  IInv'
<1> USE DEF IInv
<1>1. /\ waiting' = Append(waiting, r)
      /\ UNCHANGED <<setup, active, cancelled, state, num_context_tokens_processed, output, fed,
                     prev, pc, completed_ids, batch, responses, raises>>
      /\ r \notin Range(waiting) /\ r \notin Range(active) /\ responses[r] = <<>>
  BY DEF enqueue_request, Arrived, request_state
<1>2. waiting \in Seq(Requests)
  BY DEF TypeOK
<1>3. /\ waiting' \in Seq(Requests) /\ Range(waiting') = Range(waiting) \cup {r}
      /\ IsInjective(waiting) => IsInjective(waiting')
  BY <1>1, <1>2, AppendElements
<1>4. TypeOK'
  BY <1>1, <1>3 DEF TypeOK
<1>5. QueuesOK'
  <2>1. state[r] = "CONTEXT_INIT" BY <1>1 DEF QueuesOK
  <2> QED BY <1>1, <1>3, <2>1 DEF QueuesOK
<1>6. ContextOK'
  BY <1>1 DEF ContextOK, InContext, PrevReqs
<1>7. PrevOK'
  BY <1>1 DEF PrevOK
<1>8. OutputOK'
  BY <1>1 DEF OutputOK
<1>9. FedOK'
  BY <1>1 DEF FedOK, is_generation_phase, InContext, PrevReqs
<1>10. BusyOK'
  BY <1>1 DEF BusyOK, BatchOK, is_generation_phase, InContext, RemainingContext
<1>11. MovedOK'
  <2>1. pc = "forward" => r \notin Range(ContextOf(batch)) BY <1>1 DEF MovedOK
  <2> QED BY <1>1, <1>3, <2>1 DEF MovedOK
<1> QED BY <1>4, <1>5, <1>6, <1>7, <1>8, <1>9, <1>10, <1>11

LEMMA CancelStep ==
    ASSUME IInv, NEW r \in Requests, cancel_request(r)
    PROVE  IInv'
<1> USE DEF IInv
<1>1. /\ waiting' = Keep(waiting, Range(waiting) \ {r}) /\ cancelled' = cancelled \cup {r}
      /\ UNCHANGED <<setup, active, state, num_context_tokens_processed, output, fed,
                     prev, pc, completed_ids, batch, responses, raises>>
  BY DEF cancel_request, Without, request_state
<1>2. waiting \in Seq(Requests)
  BY DEF TypeOK
<1>3. /\ waiting' \in Seq(Requests) /\ Range(waiting') \subseteq Range(waiting)
      /\ IsInjective(waiting) => IsInjective(waiting')
  BY <1>1, <1>2, KeepElements
<1>4. TypeOK'
  BY <1>1, <1>3 DEF TypeOK
<1>5. QueuesOK'
  BY <1>1, <1>3 DEF QueuesOK
<1>6. ContextOK'
  BY <1>1 DEF ContextOK, InContext, PrevReqs
<1>7. PrevOK'
  BY <1>1 DEF PrevOK
<1>8. OutputOK'
  BY <1>1 DEF OutputOK
<1>9. FedOK'
  BY <1>1 DEF FedOK, is_generation_phase, InContext, PrevReqs
<1>10. BusyOK'
  BY <1>1 DEF BusyOK, BatchOK, is_generation_phase, InContext, RemainingContext
<1>11. MovedOK'
  BY <1>1, <1>3 DEF MovedOK
<1> QED BY <1>4, <1>5, <1>6, <1>7, <1>8, <1>9, <1>10, <1>11

LEMMA CompleteStep ==
    ASSUME IInv, CompleteNext
    PROVE  IInv'
<1> USE DEF IInv
<1> DEFINE r == Head(completed_ids)
<1>1. /\ pc = "complete" /\ completed_ids # <<>> /\ completed_ids' = Tail(completed_ids)
      /\ IF r \in Range(active)
         THEN /\ responses' = [responses EXCEPT ![r] = Append(@, Len(output[r]))]
              /\ active' = Keep(active, Range(active) \ {r})
         ELSE responses' = responses /\ active' = active
      /\ UNCHANGED <<setup, waiting, cancelled, state, num_context_tokens_processed, output, fed,
                     prev, pc, batch, raises>>
  BY DEF CompleteNext, Looked, Without, request_state
<1>2. /\ completed_ids \in Seq(Requests) /\ active \in Seq(Requests)
      /\ responses \in [Requests -> Seq(Nat)] /\ output \in [Requests -> Seq(Token)]
  BY DEF TypeOK
<1>3. /\ r \in Requests /\ r \in Range(completed_ids)
      /\ completed_ids' \in Seq(Requests)
      /\ Range(completed_ids) = Range(completed_ids') \cup {r}
  BY <1>1, <1>2, TailElements, ElementsOfSeq, HeadTailProperties
<1> HIDE DEF r
<1>4. /\ active' \in Seq(Requests) /\ Range(active') = Range(active) \ {r}
      /\ IsInjective(active) => IsInjective(active')
  <2>1. CASE r \in Range(active) BY <1>1, <1>2, <2>1, KeepElements
  <2>2. CASE r \notin Range(active) BY <1>1, <1>2, <2>2
  <2> QED BY <2>1, <2>2
<1>5. /\ responses' \in [Requests -> Seq(Nat)]
      /\ r \in Range(active) => responses'[r] = <<MaxTokens[r]>>
      /\ r \notin Range(active) => responses'[r] = responses[r]
      /\ \A q \in Requests : q # r => responses'[q] = responses[q]
  <2>1. CASE r \in Range(active)
    <3>1. responses[r] = <<>> /\ Len(output[r]) = MaxTokens[r]
      BY <1>1, <1>3, <2>1 DEF QueuesOK
    <3>2. responses' = [responses EXCEPT ![r] = Append(responses[r], Len(output[r]))]
      BY <1>1, <2>1
    <3>3. Append(<<>>, MaxTokens[r]) = <<MaxTokens[r]>> OBVIOUS
    <3>4. responses' = [responses EXCEPT ![r] = <<MaxTokens[r]>>]
      BY <3>1, <3>2, <3>3
    <3>5. <<MaxTokens[r]>> \in Seq(Nat)
      <4>1. MaxTokens[r] \in Nat BY <1>3, OverlapAssumption
      <4> QED BY <4>1
    <3> QED BY <1>2, <1>3, <2>1, <3>4, <3>5
  <2>2. CASE r \notin Range(active) BY <1>1, <1>2, <2>2
  <2> QED BY <2>1, <2>2
<1>6. TypeOK'
  BY <1>1, <1>3, <1>4, <1>5 DEF TypeOK
<1>7. QueuesOK'
  <2>1. Range(waiting) \subseteq Requests /\ Range(active) \subseteq Requests
    BY ElementsOfSeq DEF TypeOK
  <2>2. ASSUME NEW q \in Range(waiting') PROVE state'[q] = "CONTEXT_INIT" /\ responses'[q] = <<>>
    <3>1. q \in Range(waiting) /\ q \notin Range(active) BY <1>1, <2>2 DEF QueuesOK
    <3> QED BY <1>1, <1>5, <2>1, <3>1 DEF QueuesOK
  <2>3. ASSUME NEW q \in Range(active') PROVE q \in Range(active) /\ q # r /\ responses'[q] = <<>>
    <3>1. q \in Range(active) /\ q # r BY <1>4, <2>3
    <3> QED BY <1>5, <2>1, <3>1 DEF QueuesOK
  <2>4. ASSUME NEW q \in Requests
        PROVE  /\ responses'[q] \in {<<>>, <<MaxTokens[q]>>}
               /\ state'[q] # "CONTEXT_INIT" => q \in Range(active') \/ responses'[q] # <<>>
    <3>1. CASE q = r
      <4>1. <<MaxTokens[q]>> # <<>> OBVIOUS
      <4> QED BY <1>1, <1>4, <1>5, <3>1, <4>1 DEF QueuesOK
    <3>2. CASE q # r BY <1>1, <1>4, <1>5, <3>2 DEF QueuesOK
    <3> QED BY <3>1, <3>2
  <2>5. \A q \in Range(active') : \/ Len(output'[q]) < MaxTokens[q]
                                  \/ pc' = "complete" /\ q \in Range(completed_ids')
    BY <1>1, <1>3, <2>3 DEF QueuesOK
  <2>6. \A q \in Range(completed_ids') \cap Range(active') : Len(output'[q]) = MaxTokens[q]
    BY <1>1, <1>3, <2>3 DEF QueuesOK
  <2> QED BY <1>1, <1>4, <2>2, <2>3, <2>4, <2>5, <2>6 DEF QueuesOK
<1>8. ContextOK'
  BY <1>1 DEF ContextOK, InContext, PrevReqs
<1>9. PrevOK'
  BY <1>1 DEF PrevOK
<1>10. OutputOK'
  BY <1>1 DEF OutputOK
<1>11. FedOK'
  BY <1>1, <1>4 DEF FedOK, is_generation_phase, InContext, PrevReqs
<1> QED BY <1>1, <1>6, <1>7, <1>8, <1>9, <1>10, <1>11 DEF BusyOK, MovedOK

LEMMA RaiseStep ==
    ASSUME IInv, ForwardRaises
    PROVE  IInv'
<1> USE DEF IInv
<1>1. /\ pc = "forward" /\ pc' = "idle" /\ raises' = raises + 1 /\ raises \in Nat
      /\ UNCHANGED <<setup, waiting, active, cancelled, state, num_context_tokens_processed,
                     output, fed, prev, completed_ids, responses>>
  BY DEF ForwardRaises, request_state, TypeOK
<1>2. raises' \in Nat /\ raises' # 0
  BY <1>1
<1>3. TypeOK'
  BY <1>1, <1>2 DEF TypeOK
<1>4. QueuesOK'
  BY <1>1 DEF QueuesOK
<1>5. ContextOK'
  BY <1>1 DEF ContextOK, InContext, PrevReqs
<1>6. PrevOK'
  BY <1>1, <1>2 DEF PrevOK
<1>7. OutputOK'
  BY <1>1, <1>2 DEF OutputOK
<1> QED BY <1>1, <1>2, <1>3, <1>4, <1>5, <1>6, <1>7 DEF FedOK, BusyOK, MovedOK

(* Phase 1: every request of prev gets the token that was sampled for it.   *)
LEMMA UpdateStep ==
    ASSUME IInv, update_requests
    PROVE  IInv'
<1> USE DEF IInv
<1> DEFINE sampled == [i \in DOMAIN prev |-> prev[i].req]
           index(r) == CHOOSE i \in DOMAIN prev : prev[i].req = r
           token(r) == prev[index(r)].token
           All == {r \in Requests : GotAll(r)}
<1>1. /\ pc = "idle" /\ pc' = "complete"
      /\ output' = [r \in Requests |-> IF r \in Range(sampled) THEN Append(output[r], token(r))
                                       ELSE output[r]]
      /\ completed_ids' = Keep(sampled, All)
      /\ state' = [r \in Requests |-> IF r \in Range(sampled) /\ GotAll(r)
                                      THEN "GENERATION_COMPLETE" ELSE state[r]]
      /\ UNCHANGED <<setup, waiting, active, cancelled, num_context_tokens_processed, fed,
                     prev, batch, responses, raises>>
  BY DEF update_requests
<1>2. /\ prev \in Seq(Pending) /\ output \in [Requests -> Seq(Token)]
      /\ \A r \in Requests : MaxTokens[r] \in Nat \ {0}
  BY OverlapAssumption DEF TypeOK
<1>3. Len(prev) \in Nat /\ DOMAIN prev = 1 .. Len(prev) /\ \A i \in DOMAIN prev : prev[i] \in Pending
  BY <1>2, LenProperties
<1>4. \A i \in DOMAIN prev : prev[i].req \in Requests /\ prev[i].token \in Token
  BY <1>3 DEF Pending
<1>5. sampled \in Seq(Requests)
  <2>1. sampled \in [1 .. Len(prev) -> Requests] BY <1>3, <1>4
  <2> QED BY <1>3, <2>1, SeqDef
<1>6. Range(sampled) = PrevReqs
  BY DEF Range, PrevReqs
<1>7. ASSUME NEW r \in PrevReqs
      PROVE  /\ r \in Requests /\ token(r) \in Token
             /\ token(r).row.req = r /\ token(r).key = Strategy[r]
             /\ raises = 0 => token(r).row.tok = ContextLen[r] + Len(output[r]) - 1
  <2>1. \E i \in DOMAIN prev : prev[i].req = r BY DEF PrevReqs
  <2>2. index(r) \in DOMAIN prev /\ prev[index(r)].req = r BY <2>1
  <2> HIDE DEF index
  <2> QED BY <1>1, <1>4, <2>2 DEF PrevOK
<1> HIDE DEF token, sampled
<1>8. ASSUME NEW r \in Requests
      PROVE  /\ output[r] \in Seq(Token) /\ Len(output[r]) \in Nat
             /\ GotAll(r) <=> Len(output[r]) + 1 >= MaxTokens[r]
             /\ r \notin PrevReqs => output'[r] = output[r] /\ state'[r] = state[r]
             /\ r \in PrevReqs => /\ output'[r] = Append(output[r], token(r))
                                  /\ Len(output'[r]) = Len(output[r]) + 1
             /\ ~GotAll(r) => state'[r] = state[r]
             /\ r \in PrevReqs /\ GotAll(r) => state'[r] = "GENERATION_COMPLETE"
  <2>1. output[r] \in Seq(Token) /\ Len(output[r]) \in Nat BY <1>2, LenProperties
  <2>2. GotAll(r) <=> Len(output[r]) + 1 >= MaxTokens[r]
    <3>1. num_output_tokens[r] = Len(output[r]) BY DEF num_output_tokens
    <3>2. PICK m \in Nat, n \in Nat : m = MaxTokens[r] /\ n = Len(output[r]) BY <1>2, <2>1
    <3>3. m - n - 1 <= 0 <=> n + 1 >= m OBVIOUS
    <3> QED BY <3>1, <3>2, <3>3 DEF GotAll, num_tokens_remaining
  <2>3. r \in PrevReqs => Len(Append(output[r], token(r))) = Len(output[r]) + 1
    BY <1>7, <2>1, AppendProperties
  <2> QED BY <1>1, <1>6, <2>1, <2>2, <2>3
<1>9. /\ completed_ids' \in Seq(Requests)
      /\ \A r \in Requests : r \in Range(completed_ids') <=> r \in PrevReqs /\ GotAll(r)
  <2> HIDE DEF All
  <2>1. completed_ids' \in Seq(Requests) /\ Range(completed_ids') = PrevReqs \cap All
    BY <1>1, <1>5, <1>6, KeepElements
  <2> QED BY <2>1 DEF All
<1> HIDE DEF All
<1>10. TypeOK'
  <2>1. ASSUME NEW r \in Requests PROVE output'[r] \in Seq(Token)
    <3>1. CASE r \in PrevReqs
      <4>1. output[r] \in Seq(Token) /\ output'[r] = Append(output[r], token(r)) BY <1>8, <3>1
      <4>2. token(r) \in Token BY <1>7, <3>1
      <4> QED BY <4>1, <4>2, AppendProperties
    <3>2. CASE r \notin PrevReqs BY <1>8, <3>2
    <3> QED BY <3>1, <3>2
  <2>2. output' \in [Requests -> Seq(Token)] BY <1>1, <2>1
  <2>3. state' \in [Requests -> RequestState] BY <1>1 DEF TypeOK, RequestState
  <2> QED BY <1>1, <1>9, <2>2, <2>3 DEF TypeOK
<1>11. \A r \in Requests : InContext(r) => r \notin PrevReqs
  BY DEF ContextOK
<1>12. \A r \in Requests : /\ InContext(r) => state'[r] = state[r]
                           /\ InContext(r)' => InContext(r) /\ output'[r] = output[r]
                           /\ is_generation_phase(r)' <=> is_generation_phase(r)
  <2> SUFFICES ASSUME NEW r \in Requests
               PROVE  /\ InContext(r) => state'[r] = state[r]
                      /\ InContext(r)' => InContext(r) /\ output'[r] = output[r]
                      /\ is_generation_phase(r)' <=> is_generation_phase(r)
    OBVIOUS
  <2>1. state[r] \in RequestState BY DEF TypeOK
  <2>2. CASE r \in PrevReqs
    <3>1. ~InContext(r) BY <1>11, <2>2
    <3>2. state'[r] = state[r] \/ state'[r] = "GENERATION_COMPLETE" BY <1>8, <2>2
    <3> QED BY <2>1, <3>1, <3>2 DEF InContext, is_generation_phase, RequestState
  <2>3. CASE r \notin PrevReqs
    BY <1>8, <2>3 DEF InContext, is_generation_phase
  <2> QED BY <2>2, <2>3
<1>13. QueuesOK'
  <2>1. Range(waiting) \subseteq Requests /\ Range(active) \subseteq Requests
    BY ElementsOfSeq DEF TypeOK
  <2>2. ASSUME NEW r \in Range(waiting') PROVE state'[r] = "CONTEXT_INIT" /\ responses'[r] = <<>>
    <3>1. r \in Requests /\ state[r] = "CONTEXT_INIT" /\ responses[r] = <<>>
      BY <1>1, <2>1 DEF QueuesOK
    <3> QED BY <1>1, <1>12, <3>1 DEF InContext
  <2>3. ASSUME NEW r \in Requests, state'[r] # "CONTEXT_INIT"
        PROVE  r \in Range(active') \/ responses'[r] # <<>>
    <3>1. state[r] # "CONTEXT_INIT" BY <1>12, <2>3 DEF InContext
    <3> QED BY <1>1, <3>1 DEF QueuesOK
  <2>4. ASSUME NEW r \in Range(active')
        PROVE  /\ \/ Len(output'[r]) < MaxTokens[r]
                  \/ pc' = "complete" /\ r \in Range(completed_ids')
               /\ r \in Range(completed_ids') => Len(output'[r]) = MaxTokens[r]
    <3>1. r \in Range(active) /\ r \in Requests BY <1>1, <2>1
    <3>2. Len(output[r]) < MaxTokens[r] BY <1>1, <3>1 DEF QueuesOK
    <3>3. PICK m \in Nat, n \in Nat : m = MaxTokens[r] /\ n = Len(output[r])
      BY <1>2, <1>8, <3>1
    <3>4. CASE r \in PrevReqs /\ GotAll(r)
      <4>1. n + 1 >= m /\ n < m /\ Len(output'[r]) = n + 1 BY <1>8, <3>1, <3>2, <3>3, <3>4
      <4> QED BY <1>1, <1>9, <3>1, <3>3, <3>4, <4>1
    <3>5. CASE r \in PrevReqs /\ ~GotAll(r)
      <4>1. ~(n + 1 >= m) /\ Len(output'[r]) = n + 1 BY <1>8, <3>1, <3>3, <3>5
      <4> QED BY <1>9, <3>1, <3>3, <3>5, <4>1
    <3>6. CASE r \notin PrevReqs BY <1>8, <1>9, <3>1, <3>2, <3>6
    <3> QED BY <3>4, <3>5, <3>6
  <2> QED BY <1>1, <2>2, <2>3, <2>4 DEF QueuesOK
<1>14. ContextOK'
  BY <1>1, <1>12 DEF ContextOK, PrevReqs
<1>15. PrevOK'
  BY <1>1 DEF PrevOK
<1>16. OutputOK'
  <2> SUFFICES ASSUME NEW r \in Requests, NEW i \in DOMAIN output'[r]
               PROVE  /\ output'[r][i].row.req = r
                      /\ output'[r][i].key = Strategy[r]
                      /\ raises = 0 => output'[r][i].row.tok = ContextLen[r] + i - 2
    BY <1>1 DEF OutputOK
  <2>1. CASE r \notin PrevReqs
    BY <1>8, <2>1 DEF OutputOK
  <2>2. CASE r \in PrevReqs
    <3>1. PICK n \in Nat : n = Len(output[r]) BY <1>8
    <3>2. i \in 1 .. n + 1
      BY <1>7, <1>8, <2>2, <3>1, AppendProperties, LenProperties
    <3>3. CASE i <= n
      <4>1. i \in 1 .. n /\ i \in DOMAIN output[r] BY <1>8, <3>1, <3>2, <3>3, LenProperties
      <4>2. output'[r][i] = output[r][i]
        BY <1>7, <1>8, <2>2, <3>1, <4>1, AppendProperties
      <4> QED BY <4>1, <4>2 DEF OutputOK
    <3>4. CASE ~(i <= n)
      <4>1. i = n + 1 BY <3>2, <3>4
      <4>2. output'[r][i] = token(r)
        BY <1>7, <1>8, <2>2, <3>1, <4>1, AppendProperties
      <4>3. ContextLen[r] \in Nat BY OverlapAssumption
      <4>4. ContextLen[r] + n - 1 = ContextLen[r] + i - 2 BY <4>1, <4>3
      <4> QED BY <1>7, <2>2, <3>1, <4>2, <4>4
    <3> QED BY <3>3, <3>4
  <2> QED BY <2>1, <2>2
<1>17. FedOK'
  <2> SUFFICES ASSUME raises = 0, ~setup.full_sequence
               PROVE  /\ \A r \in Requests : \A i \in DOMAIN fed[r] :
                             fed[r][i].tok = i - 1 /\ fed[r][i].pos = i - 1
                      /\ \A r \in Requests :
                             InContext(r)' => Len(fed[r]) = num_context_tokens_processed[r]
                      /\ \A r \in Range(active) : is_generation_phase(r)' =>
                             /\ Len(output'[r]) > 0
                             /\ Len(fed[r]) = ContextLen[r] + Len(output'[r]) - 1
    BY <1>1 DEF FedOK
  <2>1. Range(active) \subseteq Requests
    BY ElementsOfSeq DEF TypeOK
  <2>2. ASSUME NEW r \in Range(active), is_generation_phase(r)'
        PROVE  /\ Len(output'[r]) > 0
               /\ Len(fed[r]) = ContextLen[r] + Len(output'[r]) - 1
    <3>1. r \in Requests /\ is_generation_phase(r) BY <1>12, <2>1, <2>2
    <3>2. r \in PrevReqs /\ Len(fed[r]) = ContextLen[r] + Len(output[r])
      BY <1>1, <3>1 DEF FedOK
    <3>3. PICK n \in Nat, c \in Nat : n = Len(output[r]) /\ c = ContextLen[r]
      BY <1>8, <3>1, OverlapAssumption
    <3>4. Len(output'[r]) = n + 1 BY <1>8, <3>1, <3>2, <3>3
    <3> QED BY <3>2, <3>3, <3>4
  <2> QED BY <1>12, <2>2 DEF FedOK
<1> QED BY <1>1, <1>10, <1>13, <1>14, <1>15, <1>16, <1>17 DEF BusyOK, MovedOK

(* Phase 2: the plan is made of waiting requests, of active ones in prefill *)
(* and of all the active ones that decode.                                  *)
LEMMA ScheduleStep ==
    ASSUME IInv, Schedule
    PROVE  IInv'
<1> USE DEF IInv
<1> DEFINE Prefill == {r \in Requests : Resubmitted(r)}
           Decode == {r \in Requests : is_generation_phase(r)}
           left == [r \in Requests |-> RemainingContext(r)]
           active_ctx == Keep(active, Prefill)
           active_gen == Keep(active, Decode)
           s == waiting \o active_ctx
           list == schedule_capacity(s, 0, Blocks)
           plan == schedule_microbatch(setup.chunking, list, active_gen, left)
<1>1. /\ pc = "complete" /\ completed_ids = <<>>
      /\ \/ EmptyBatch(plan) /\ pc' = "idle" /\ prev' = <<>> /\ batch' = batch
         \/ pc' = "move" /\ batch' = plan /\ prev' = prev
      /\ UNCHANGED <<setup, waiting, active, cancelled, state, num_context_tokens_processed,
                     output, fed, completed_ids, responses, raises>>
  BY DEF Schedule, request_state
<1>2. /\ waiting \in Seq(Requests) /\ active \in Seq(Requests)
      /\ IsInjective(waiting) /\ IsInjective(active)
      /\ Range(waiting) \subseteq Requests /\ Range(active) \subseteq Requests
      /\ Range(waiting) \cap Range(active) = {}
  BY ElementsOfSeq DEF TypeOK, QueuesOK
<1>3. left \in [Requests -> Int]
  <2>1. \A r \in Requests : ContextLen[r] \in Int /\ num_context_tokens_processed[r] \in Int
    BY OverlapAssumption DEF TypeOK
  <2> QED BY <2>1 DEF RemainingContext
<1> HIDE DEF Prefill, Decode
<1>4. /\ active_ctx \in Seq(Requests) /\ Range(active_ctx) = Range(active) \cap Prefill
      /\ IsInjective(active_ctx)
      /\ active_gen \in Seq(Requests) /\ Range(active_gen) = Range(active) \cap Decode
      /\ IsInjective(active_gen)
  BY <1>2, KeepElements
<1> HIDE DEF active_ctx, active_gen
<1>5. /\ s \in Seq(Requests) /\ IsInjective(s)
      /\ Range(s) = Range(waiting) \cup (Range(active) \cap Prefill)
  <2>1. Range(waiting) \cap Range(active_ctx) = {} BY <1>2, <1>4
  <2> QED BY <1>2, <1>4, <2>1, ConcatElements, ConcatProperties
<1> HIDE DEF s
<1>6. list \in Seq(Requests) /\ Range(list) \subseteq Range(s) /\ IsInjective(list)
  BY <1>5, AdmittedFromWaiting
<1> HIDE DEF list, left
<1> DEFINE c == plan.context_chunking
           l == plan.context_last_chunk
<1>7. /\ c \in Seq(Requests) /\ IsInjective(c)
      /\ l \in Seq(Requests) /\ IsInjective(l)
      /\ plan.generation = active_gen
      /\ Range(c) \cap Range(l) = {}
      /\ Range(c) \subseteq Range(list) /\ Range(l) \subseteq Range(list)
      /\ \A r \in Range(c) : plan.tokens[r] \in Nat \ {0} /\ plan.tokens[r] < left[r]
      /\ \A r \in Range(l) : plan.tokens[r] \in Nat \ {0} /\ plan.tokens[r] = left[r]
  <2> HIDE DEF plan
  <2>1. plan = schedule_microbatch(setup.chunking, list, active_gen, left) BY DEF plan
  <2>2. max_num_tokens \in Nat BY OverlapAssumption
  <2>3. PlanOf(plan, list, active_gen, left) BY <1>3, <1>4, <1>6, <2>1, <2>2, PlanParts
  <2> QED BY <2>3 DEF PlanOf
<1> HIDE DEF plan
<1>8. \A r \in Range(active) : Len(output[r]) < MaxTokens[r]
  BY <1>1, EmptyRange DEF QueuesOK
<1>9. TypeOK'
  <2>1. <<>> \in Seq(Pending) OBVIOUS
  <2> QED BY <1>1, <2>1 DEF TypeOK
<1>10. QueuesOK'
  BY <1>1, <1>8 DEF QueuesOK
<1>11. ContextOK'
  <2>1. PrevReqs' \subseteq PrevReqs BY <1>1 DEF PrevReqs
  <2> QED BY <1>1, <2>1 DEF ContextOK, InContext
<1>12. PrevOK'
  <2>1. CASE prev' = <<>> BY <2>1 DEF PrevOK, IsInjective
  <2>2. CASE pc' = "move" /\ prev' = prev BY <1>1, <2>2 DEF PrevOK
  <2> QED BY <1>1, <2>1, <2>2
<1>13. OutputOK'
  BY <1>1 DEF OutputOK
<1>14. FedOK'
  <2>1. CASE pc' = "move" /\ prev' = prev
    BY <1>1, <2>1 DEF FedOK, is_generation_phase, InContext
  <2>2. CASE EmptyBatch(plan) /\ pc' = "idle"
    <3>1. (c \o l) \o active_gen = <<>> BY <1>7, <2>2 DEF EmptyBatch
    <3> HIDE DEF c, l
    <3> DEFINE x == c \o l
    <3>5. x \in Seq(Requests) BY <1>7, ConcatProperties
    <3> HIDE DEF x
    <3>2. Range(x \o active_gen) = Range(x) \cup Range(active_gen)
      BY <1>4, <3>5, ConcatElements
    <3>3. Range(active_gen) = {} BY <3>1, <3>2, EmptyRange DEF x
    <3>4. \A r \in Range(active) : ~is_generation_phase(r)
      BY <1>2, <1>4, <3>3 DEF Decode
    <3> QED BY <1>1, <3>4 DEF FedOK, is_generation_phase, InContext
  <2> QED BY <1>1, <2>1, <2>2
<1>15. BusyOK'
  <2>1. CASE pc' = "idle" BY <2>1 DEF BusyOK
  <2>2. CASE pc' = "move" /\ batch' = plan
    <3>1. \A r \in Range(s) : r \in Requests /\ InContext(r) /\ responses[r] = <<>>
      BY <1>2, <1>5 DEF QueuesOK, InContext, Prefill, Resubmitted
    <3>2. \A r \in Range(c) \cup Range(l) :
              /\ r \in Requests /\ InContext(r) /\ responses[r] = <<>>
              /\ plan.tokens[r] \in Nat \ {0}
              /\ left[r] = RemainingContext(r)
      BY <1>6, <1>7, <3>1 DEF left
    <3>3. Range(active_gen) = {r \in Range(active) : is_generation_phase(r)}
      BY <1>2, <1>4 DEF Decode
    <3>4. /\ \A r \in Range(c) : plan.tokens[r] < RemainingContext(r)
          /\ \A r \in Range(l) : plan.tokens[r] = RemainingContext(r)
      BY <1>7, <3>2
    <3>5. \A r : /\ InContext(r)' <=> InContext(r)
                 /\ is_generation_phase(r)' <=> is_generation_phase(r)
                 /\ RemainingContext(r)' = RemainingContext(r)
      BY <1>1 DEF InContext, is_generation_phase, RemainingContext
    <3>6. batch'.context_chunking = c /\ batch'.context_last_chunk = l
          /\ batch'.generation = active_gen /\ batch'.tokens = plan.tokens
      BY <1>7, <2>2
    <3> HIDE DEF c, l
    <3>7. BatchOK' BY <1>1, <1>4, <1>7, <3>2, <3>3, <3>4, <3>5, <3>6 DEF BatchOK
    <3> QED BY <3>7 DEF BusyOK
  <2> QED BY <1>1, <2>1, <2>2
<1> QED BY <1>1, <1>9, <1>10, <1>11, <1>12, <1>13, <1>14, <1>15 DEF MovedOK

(* ... whose context requests are active from here on.                      *)
LEMMA MoveStep ==
    ASSUME IInv, Move
    PROVE  IInv'
<1> USE DEF IInv
<1> DEFINE context == ContextOf(batch)
           others == Requests \ Range(context)
           new == Keep(context, Requests \ Range(active))
<1>1. /\ pc = "move" /\ pc' = "forward"
      /\ waiting' = Keep(waiting, others) /\ active' = active \o new
      /\ UNCHANGED <<setup, cancelled, state, num_context_tokens_processed, output, fed,
                     prev, completed_ids, batch, responses, raises>>
  BY DEF Move, request_state
<1>2. TypeOK /\ BatchOK
  BY <1>1 DEF BusyOK
<1>3. /\ waiting \in Seq(Requests) /\ active \in Seq(Requests)
      /\ IsInjective(waiting) /\ IsInjective(active)
      /\ Range(waiting) \subseteq Requests /\ Range(active) \subseteq Requests
      /\ Range(waiting) \cap Range(active) = {}
  BY ElementsOfSeq DEF TypeOK, QueuesOK
<1>4. /\ context \in Seq(Requests) /\ IsInjective(context) /\ Range(context) \subseteq Requests
      /\ \A r \in Range(context) : InContext(r) /\ responses[r] = <<>>
  BY <1>2, BatchMembers, ElementsOfSeq
<1>5. ContextOf(batch)' = context
  BY <1>1 DEF ContextOf
<1> HIDE DEF context
<1>6. /\ new \in Seq(Requests) /\ IsInjective(new)
      /\ Range(new) = Range(context) \cap (Requests \ Range(active))
  BY <1>4, KeepElements
<1>7. /\ waiting' \in Seq(Requests) /\ IsInjective(waiting')
      /\ Range(waiting') = Range(waiting) \cap others
  <2> HIDE DEF others
  <2> QED BY <1>1, <1>3, KeepElements
<1> HIDE DEF new
<1>8. /\ active' \in Seq(Requests) /\ IsInjective(active')
      /\ Range(active') = Range(active) \cup Range(context)
  <2>1. Range(active) \cap Range(new) = {} BY <1>6
  <2>2. /\ active \o new \in Seq(Requests) /\ IsInjective(active \o new)
        /\ Range(active \o new) = Range(active) \cup Range(new)
    BY <1>3, <1>6, <2>1, ConcatElements, ConcatProperties
  <2>3. Range(active) \cup Range(new) = Range(active) \cup Range(context) BY <1>4, <1>6
  <2> QED BY <1>1, <2>2, <2>3
<1>9. \A r : /\ InContext(r)' <=> InContext(r)
             /\ is_generation_phase(r)' <=> is_generation_phase(r)
             /\ RemainingContext(r)' = RemainingContext(r)
  BY <1>1 DEF InContext, is_generation_phase, RemainingContext
<1>10. \A r \in Range(context) : ~is_generation_phase(r) /\ output[r] = <<>>
  BY <1>4 DEF ContextOK, InContext, is_generation_phase
<1>11. TypeOK'
  BY <1>1, <1>7, <1>8 DEF TypeOK
<1>12. QueuesOK'
  <2>1. Range(waiting') \cap Range(active') = {} BY <1>3, <1>7, <1>8
  <2>2. \A r \in Range(active') : responses'[r] = <<>> BY <1>1, <1>4, <1>8 DEF QueuesOK
  <2>3. ASSUME NEW r \in Range(active') PROVE Len(output'[r]) < MaxTokens[r]
    <3>1. CASE r \in Range(active) BY <1>1, <3>1 DEF QueuesOK
    <3>2. CASE r \in Range(context)
      <4>1. MaxTokens[r] \in Nat \ {0} BY <1>4, <3>2, OverlapAssumption
      <4>2. Len(<<>>) < MaxTokens[r] BY <4>1
      <4> QED BY <1>1, <1>10, <3>2, <4>2
    <3> QED BY <1>8, <3>1, <3>2
  <2>4. \A r \in Requests : state'[r] # "CONTEXT_INIT" => r \in Range(active') \/ responses'[r] # <<>>
    BY <1>1, <1>8 DEF QueuesOK
  <2> QED BY <1>1, <1>7, <1>8, <2>1, <2>2, <2>3, <2>4 DEF QueuesOK
<1>13. ContextOK'
  BY <1>1, <1>9 DEF ContextOK, PrevReqs
<1>14. PrevOK'
  BY <1>1 DEF PrevOK
<1>15. OutputOK'
  BY <1>1 DEF OutputOK
<1>16. FedOK'
  <2>1. \A r \in Range(active') : is_generation_phase(r) => r \in Range(active)
    BY <1>8, <1>10
  <2> QED BY <1>1, <1>9, <2>1 DEF FedOK
<1>17. BatchOK'
  <2>1. {r \in Range(active') : is_generation_phase(r)'}
            = {r \in Range(active) : is_generation_phase(r)}
    BY <1>8, <1>9, <1>10
  <2> QED BY <1>1, <1>2, <1>9, <2>1 DEF BatchOK
<1>18. MovedOK'
  BY <1>5, <1>7, <1>8 DEF MovedOK
<1> QED BY <1>11, <1>12, <1>13, <1>14, <1>15, <1>16, <1>17, <1>18 DEF BusyOK

(* The pass: everyone who decodes or ends its prompt has a token on the way.*)
LEMMA ForwardStep ==
    ASSUME IInv, Forward
    PROVE  IInv'
<1> USE DEF IInv
<1> DEFINE context == ContextOf(batch)
           c == batch.context_chunking
           l == batch.context_last_chunk
           g == batch.generation
           tokens == batch.tokens
<1>1. /\ pc = "forward" /\ pc' = "idle"
      /\ num_context_tokens_processed' =
             [r \in Requests |-> num_context_tokens_processed[r]
                                     + IF r \in Range(context) THEN tokens[r] ELSE 0]
      /\ state' = [r \in Requests |->
             IF r \in Range(l) THEN "GENERATION_IN_PROGRESS"
             ELSE IF r \in Range(c) THEN "CONTEXT_IN_PROGRESS" ELSE state[r]]
      /\ prev' = NewPrev
      /\ fed' = [r \in Requests |-> fed[r] \o RowsSeen(r)]
      /\ UNCHANGED <<setup, waiting, active, cancelled, output, completed_ids, responses, raises>>
  BY DEF Forward, NewPrev
<1>2. TypeOK /\ BatchOK /\ MovedOK
  BY <1>1 DEF BusyOK
<1>3. /\ Range(context) = Range(c) \cup Range(l) /\ Range(c) \cap Range(l) = {}
      /\ Range(context) \subseteq Range(active) /\ Range(context) \cap Range(waiting) = {}
      /\ Range(g) = {r \in Range(active) : is_generation_phase(r)}
      /\ Range(Sampled) = Range(l) \cup Range(g)
      /\ Range(Reqs) = Range(context) \cup Range(g)
      /\ Range(context) \cap Range(g) = {}
      /\ Sampled \in Seq(Requests) /\ IsInjective(Sampled)
  BY <1>1, <1>2, BatchMembers DEF MovedOK, BatchOK
<1>4. Range(active) \subseteq Requests /\ Range(waiting) \subseteq Requests
  BY ElementsOfSeq DEF TypeOK
<1>5. ASSUME NEW r \in Range(context)
      PROVE  /\ r \in Requests /\ InContext(r) /\ ~is_generation_phase(r)
             /\ output[r] = <<>> /\ tokens[r] \in Nat \ {0}
             /\ num_context_tokens_processed[r] \in Nat /\ ContextLen[r] \in Nat
             /\ r \in Range(c) =>
                    num_context_tokens_processed[r] + tokens[r] < ContextLen[r]
             /\ r \in Range(l) =>
                    num_context_tokens_processed[r] + tokens[r] = ContextLen[r]
  <2>1. r \in Requests /\ InContext(r) /\ tokens[r] \in Nat \ {0}
    BY <1>2, <1>3, <1>4, BatchMembers
  <2>2. num_context_tokens_processed[r] \in Nat /\ ContextLen[r] \in Nat
    BY <2>1, OverlapAssumption DEF TypeOK
  <2>3. output[r] = <<>> /\ ~is_generation_phase(r)
    BY <2>1 DEF ContextOK, InContext, is_generation_phase
  <2>4. PICK p \in Nat, C \in Nat, w \in Nat :
            p = num_context_tokens_processed[r] /\ C = ContextLen[r] /\ w = tokens[r]
    BY <2>1, <2>2
  <2>5. /\ r \in Range(c) => w < C - p
        /\ r \in Range(l) => w = C - p
    BY <1>2, <2>4 DEF BatchOK, RemainingContext
  <2>6. (w < C - p => p + w < C) /\ (w = C - p => p + w = C) OBVIOUS
  <2> QED BY <2>1, <2>2, <2>3, <2>4, <2>5, <2>6
<1>6. /\ NewPrev \in Seq(Pending) /\ DOMAIN NewPrev = DOMAIN Sampled
      /\ \A i \in DOMAIN Sampled :
             /\ NewPrev[i].req = Sampled[i]
             /\ NewPrev[i].token.row.req = Sampled[i]
             /\ NewPrev[i].token.row.tok = LastTok(Sampled[i])
             /\ NewPrev[i].token.key = Strategy[Sampled[i]]
  BY <1>2, TokensOfRequests
<1>7. PrevReqs' = Range(Sampled)
  <2>1. PrevReqs' = {NewPrev[i].req : i \in DOMAIN NewPrev} BY <1>1 DEF PrevReqs
  <2> QED BY <1>6, <2>1 DEF Range
<1>8. ASSUME NEW r \in Requests
      PROVE  /\ r \in Range(Reqs) => /\ fed'[r] = fed[r] \o RowsOf(r)
                                     /\ RowsOf(r) \in Seq(Row)
                                     /\ Width(r) \in Nat \ {0} /\ Len(RowsOf(r)) = Width(r)
             /\ r \notin Range(Reqs) => fed'[r] = fed[r]
             /\ fed[r] \in Seq(Row) /\ fed'[r] \in Seq(Row)
  <2>1. fed[r] \in Seq(Row) BY DEF TypeOK
  <2>2. fed'[r] = fed[r] \o RowsSeen(r) BY <1>1
  <2>3. CASE r \in Range(Reqs)
    <3>1. /\ RowsOf(r) \in Seq(Row)
          /\ Width(r) \in Nat \ {0} /\ Len(RowsOf(r)) = Width(r)
      BY <1>2, <2>3, RowsOfOne
    <3>2. RowsSeen(r) = RowsOf(r) BY <1>2, <2>3, SeenOfOne
    <3> QED BY <2>1, <2>2, <2>3, <3>1, <3>2, ConcatProperties
  <2>4. CASE r \notin Range(Reqs)
    <3>1. RowsSeen(r) = <<>> BY <1>2, <2>4, SeenOfOne
    <3>2. fed'[r] = fed[r] BY <2>1, <2>2, <3>1, ConcatEmptySeq
    <3> QED BY <2>1, <2>4, <3>2
  <2> QED BY <2>3, <2>4
<1>9. ASSUME NEW r \in Requests
      PROVE  /\ r \in Range(l) => ~InContext(r)' /\ is_generation_phase(r)'
             /\ r \in Range(c) => InContext(r)' /\ ~is_generation_phase(r)'
             /\ r \notin Range(context) => state'[r] = state[r]
             /\ r \in Range(context) => num_context_tokens_processed'[r]
                                           = num_context_tokens_processed[r] + tokens[r]
             /\ r \notin Range(context) =>
                    num_context_tokens_processed'[r] = num_context_tokens_processed[r]
  <2>1. num_context_tokens_processed[r] \in Nat BY DEF TypeOK
  <2>2. r \notin Range(context) => num_context_tokens_processed'[r]
                                       = num_context_tokens_processed[r]
    BY <1>1, <2>1
  <2> QED BY <1>1, <1>3, <2>2 DEF InContext, is_generation_phase
<1> HIDE DEF context, c, l, g, tokens
<1>10. TypeOK'
  <2>1. \A r \in Requests : num_context_tokens_processed[r] \in Nat BY DEF TypeOK
  <2>2. \A r \in Requests : num_context_tokens_processed'[r] \in Nat BY <1>5, <1>9, <2>1
  <2>3. num_context_tokens_processed' \in [Requests -> Nat] BY <1>1, <2>2
  <2>4. state' \in [Requests -> RequestState] BY <1>1 DEF TypeOK, RequestState
  <2>5. fed' \in [Requests -> Seq(Row)] BY <1>1, <1>8
  <2> QED BY <1>1, <1>6, <2>3, <2>4, <2>5 DEF TypeOK
<1>11. QueuesOK'
  <2>1. \A r \in Range(waiting) : state'[r] = state[r] BY <1>3, <1>4, <1>9
  <2>2. ASSUME NEW r \in Requests, state'[r] # "CONTEXT_INIT"
        PROVE  r \in Range(active) \/ responses[r] # <<>>
    <3>1. CASE r \in Range(context) BY <1>3, <3>1
    <3>2. CASE r \notin Range(context) BY <1>9, <2>2, <3>2 DEF QueuesOK
    <3> QED BY <3>1, <3>2
  <2> QED BY <1>1, <2>1, <2>2 DEF QueuesOK
<1>12. ContextOK'
  <2> SUFFICES ASSUME NEW r \in Requests, InContext(r)'
               PROVE  /\ output[r] = <<>> /\ r \notin Range(Sampled)
                      /\ num_context_tokens_processed'[r] < ContextLen[r]
    BY <1>1, <1>7 DEF ContextOK
  <2>1. r \notin Range(l) BY <1>9
  <2>2. CASE r \in Range(c) BY <1>3, <1>5, <1>9, <2>2
  <2>3. CASE r \notin Range(context)
    <3>1. InContext(r) BY <1>9, <2>3 DEF InContext
    <3>2. r \notin Range(g) BY <1>3, <3>1 DEF InContext, is_generation_phase
    <3> QED BY <1>3, <1>9, <2>1, <2>3, <3>1, <3>2 DEF ContextOK
  <2> QED BY <1>3, <2>1, <2>2, <2>3
<1>13. ASSUME NEW r \in Range(Sampled)
       PROVE  r \in Requests /\ LastTok(r) = ContextLen[r] + Len(output[r]) - 1
  <2>1. r \in Requests BY <1>3, ElementsOfSeq
  <2>2. CASE r \in Range(l)
    <3>1. r \in Range(context) BY <1>3, <2>2
    <3>2. LastTok(r) = num_context_tokens_processed[r] + tokens[r] - 1
      BY <3>1 DEF LastTok, context, tokens
    <3>3. num_context_tokens_processed[r] + tokens[r] = ContextLen[r] /\ output[r] = <<>>
      BY <1>5, <2>2, <3>1
    <3>4. PICK C \in Nat : C = ContextLen[r] BY <2>1, OverlapAssumption
    <3>5. PICK p \in Nat, w \in Nat : p = num_context_tokens_processed[r] /\ w = tokens[r]
      BY <1>5, <3>1
    <3>6. LastTok(r) = p + w - 1 /\ p + w = C BY <3>2, <3>3, <3>4, <3>5
    <3>7. Len(output[r]) = 0 BY <3>3
    <3>8. p + w - 1 = C + 0 - 1 BY <3>6
    <3> QED BY <2>1, <3>4, <3>6, <3>7, <3>8
  <2>3. CASE r \in Range(g)
    <3>1. r \notin Range(context) BY <1>3, <2>3
    <3> QED BY <2>1, <3>1 DEF LastTok, num_output_tokens, context
  <2> QED BY <1>3, <2>1, <2>2, <2>3
<1>14. PrevOK'
  <2>1. IsInjective([i \in DOMAIN NewPrev |-> NewPrev[i].req])
    <3>1. [i \in DOMAIN NewPrev |-> NewPrev[i].req] = [i \in DOMAIN Sampled |-> Sampled[i]]
      BY <1>6
    <3> QED BY <1>3, <3>1 DEF IsInjective
  <2>2. \A i \in DOMAIN Sampled :
            LastTok(Sampled[i]) = ContextLen[Sampled[i]] + Len(output[Sampled[i]]) - 1
    BY <1>13 DEF Range
  <2> QED BY <1>1, <1>6, <2>1, <2>2 DEF PrevOK
<1>15. OutputOK'
  BY <1>1 DEF OutputOK
<1>16. FedOK'
  <2> SUFFICES ASSUME raises = 0
               PROVE  FedOK'
    BY <1>1 DEF FedOK
  <2>1. \A r \in Range(active) : is_generation_phase(r)' => r \in Range(Sampled)
    <3> SUFFICES ASSUME NEW r \in Range(active), is_generation_phase(r)'
                 PROVE  r \in Range(Sampled)
      OBVIOUS
    <3>1. CASE r \in Range(context) BY <1>3, <1>4, <1>9, <3>1
    <3>2. CASE r \notin Range(context)
      <4>1. is_generation_phase(r) BY <1>4, <1>9, <3>2 DEF is_generation_phase
      <4> QED BY <1>3, <4>1
    <3> QED BY <3>1, <3>2
  <2>2. ASSUME ~setup.full_sequence, NEW r \in Range(Reqs)
        PROVE  /\ r \in Requests /\ Len(fed[r]) = LastTok(r) - Width(r) + 1
               /\ LastTok(r) \in Int
    <3>1. CASE r \in Range(context)
      <4>1. LastTok(r) = num_context_tokens_processed[r] + tokens[r] - 1 /\ Width(r) = tokens[r]
        BY <3>1 DEF LastTok, Width, context, tokens
      <4>2. r \in Requests /\ Len(fed[r]) = num_context_tokens_processed[r]
        BY <1>5, <2>2, <3>1 DEF FedOK
      <4>3. PICK p \in Nat, w \in Nat : p = num_context_tokens_processed[r] /\ w = tokens[r]
        BY <1>5, <3>1
      <4>4. (p + w - 1) - w + 1 = p /\ p + w - 1 \in Int OBVIOUS
      <4> QED BY <4>1, <4>2, <4>3, <4>4
    <3>2. CASE r \in Range(g)
      <4>1. r \notin Range(context) /\ r \in Range(active) /\ is_generation_phase(r)
            /\ r \in Requests
        BY <1>3, <1>4, <3>2
      <4>2. LastTok(r) = ContextLen[r] + Len(output[r]) - 1 /\ Width(r) = 1
        BY <2>2, <4>1 DEF LastTok, Width, num_output_tokens, context
      <4>3. Len(fed[r]) = ContextLen[r] + Len(output[r]) - 1
        BY <1>1, <2>2, <4>1 DEF FedOK
      <4>4. ContextLen[r] \in Nat /\ output[r] \in Seq(Token)
        BY <4>1, OverlapAssumption DEF TypeOK
      <4>5. PICK C \in Nat, n \in Nat : C = ContextLen[r] /\ n = Len(output[r])
        BY <4>4, LenProperties
      <4>6. (C + n - 1) - 1 + 1 = C + n - 1 /\ C + n - 1 \in Int OBVIOUS
      <4> QED BY <4>1, <4>2, <4>3, <4>5, <4>6
    <3> QED BY <1>3, <3>1, <3>2
  <2>3. ASSUME ~setup.full_sequence, NEW r \in Range(Reqs)
        PROVE  /\ Len(fed'[r]) = LastTok(r) + 1
               /\ \A i \in DOMAIN fed'[r] : fed'[r][i].tok = i - 1 /\ fed'[r][i].pos = i - 1
    <3> DEFINE a == fed[r]
               b == RowsOf(r)
               L == LastTok(r)
               w == Width(r)
    <3>1. r \in Requests /\ Len(a) = L - w + 1 /\ L \in Int
      BY <2>2, <2>3
    <3>2. /\ fed'[r] = a \o b /\ a \in Seq(Row) /\ b \in Seq(Row) /\ w \in Nat \ {0} /\ Len(b) = w
      BY <1>8, <2>3, <3>1
    <3>3. \A i \in 1 .. w : b[i].tok = L - w + i /\ b[i].pos = L - w + i
      BY <1>2, <2>3, RowsInOrder
    <3>4. \A i \in DOMAIN a : a[i].tok = i - 1 /\ a[i].pos = i - 1
      BY <2>3, <3>1 DEF FedOK
    <3> HIDE DEF a, b, L, w
    <3>5. PICK n \in Nat : n = Len(a) BY <3>2, LenProperties
    <3>6. DOMAIN a = 1 .. n /\ DOMAIN (a \o b) = 1 .. n + w /\ Len(a \o b) = n + w
      <4>1. a \o b \in Seq(Row) /\ Len(a \o b) = n + w BY <3>2, <3>5, ConcatProperties
      <4> DEFINE u == a \o b
      <4> HIDE DEF u
      <4>2. u \in Seq(Row) /\ Len(u) = n + w BY <4>1 DEF u
      <4>3. DOMAIN u = 1 .. n + w /\ DOMAIN a = 1 .. n BY <3>2, <3>5, <4>2, LenProperties
      <4> QED BY <4>1, <4>3 DEF u
    <3>7. \A i \in 1 .. n + w : (a \o b)[i] = IF i <= n THEN a[i] ELSE b[i - n]
      BY <3>2, <3>5, ConcatProperties
    <3>8. ASSUME NEW i \in 1 .. n + w PROVE (a \o b)[i].tok = i - 1 /\ (a \o b)[i].pos = i - 1
      <4>1. CASE i <= n
        <5>1. i \in DOMAIN a BY <3>6, <4>1
        <5> QED BY <3>4, <3>7, <4>1, <5>1
      <4>2. CASE ~(i <= n)
        <5>1. i - n \in 1 .. w /\ L - w + (i - n) = i - 1 BY <3>1, <3>2, <3>5, <4>2
        <5> QED BY <3>3, <3>7, <4>2, <5>1
      <4> QED BY <4>1, <4>2
    <3>9. n + w = L + 1 BY <3>1, <3>2, <3>5
    <3> QED BY <3>2, <3>6, <3>8, <3>9 DEF L
  <2>4. ASSUME ~setup.full_sequence, NEW r \in Requests
        PROVE  \A i \in DOMAIN fed'[r] : fed'[r][i].tok = i - 1 /\ fed'[r][i].pos = i - 1
    <3>1. CASE r \in Range(Reqs) BY <2>3, <2>4, <3>1
    <3>2. CASE r \notin Range(Reqs) BY <1>8, <2>4, <3>2 DEF FedOK
    <3> QED BY <3>1, <3>2
  <2>5. ASSUME ~setup.full_sequence, NEW r \in Requests, InContext(r)'
        PROVE  Len(fed'[r]) = num_context_tokens_processed'[r]
    <3>1. r \notin Range(l) BY <1>9, <2>5
    <3>2. CASE r \in Range(context)
      <4>1. LastTok(r) = num_context_tokens_processed[r] + tokens[r] - 1
        BY <3>2 DEF LastTok, context, tokens
      <4>2. PICK p \in Nat, w \in Nat : p = num_context_tokens_processed[r] /\ w = tokens[r]
        BY <1>5, <3>2
      <4>3. (p + w - 1) + 1 = p + w OBVIOUS
      <4>4. Len(fed'[r]) = LastTok(r) + 1 BY <1>3, <2>3, <2>5, <3>2
      <4> QED BY <1>9, <2>5, <3>2, <4>1, <4>2, <4>3, <4>4
    <3>3. CASE r \notin Range(context)
      <4>1. InContext(r) BY <1>9, <2>5, <3>3 DEF InContext
      <4>2. r \notin Range(g) BY <1>3, <4>1 DEF InContext, is_generation_phase
      <4>3. fed'[r] = fed[r] BY <1>3, <1>8, <2>5, <3>3, <4>2
      <4> QED BY <1>9, <2>5, <3>3, <4>1, <4>3 DEF FedOK
    <3> QED BY <3>2, <3>3
  <2>6. ASSUME ~setup.full_sequence, NEW r \in Range(active), is_generation_phase(r)'
        PROVE  Len(fed'[r]) = ContextLen[r] + Len(output[r])
    <3>1. r \in Range(Sampled) BY <2>1, <2>6
    <3>2. r \in Range(Reqs) BY <1>3, <3>1
    <3>3. r \in Requests /\ LastTok(r) = ContextLen[r] + Len(output[r]) - 1 BY <1>13, <3>1
    <3>4. Len(fed'[r]) = LastTok(r) + 1 BY <2>3, <2>6, <3>2
    <3>5. PICK C \in Nat, n \in Nat : C = ContextLen[r] /\ n = Len(output[r])
      <4>1. ContextLen[r] \in Nat /\ output[r] \in Seq(Token)
        BY <3>3, OverlapAssumption DEF TypeOK
      <4> QED BY <4>1, LenProperties
    <3>6. (C + n - 1) + 1 = C + n OBVIOUS
    <3> QED BY <3>3, <3>4, <3>5, <3>6
  <2> QED BY <1>1, <1>7, <2>1, <2>4, <2>5, <2>6 DEF FedOK
<1> QED BY <1>1, <1>10, <1>11, <1>12, <1>14, <1>15, <1>16 DEF BusyOK, MovedOK

(* Every action keeps it; so does a step that changes nothing.              *)
LEMMA OverlapSteps == IInv /\ [Next]_vars => IInv'
<1> SUFFICES ASSUME IInv, [Next]_vars PROVE IInv'
  OBVIOUS
<1>1. CASE UNCHANGED vars
  BY <1>1 DEF vars, IInv, TypeOK, QueuesOK, ContextOK, PrevOK, OutputOK, FedOK, BusyOK, MovedOK,
     BatchOK, PrevReqs, InContext, is_generation_phase, RemainingContext
<1>2. ASSUME NEW r \in Requests, enqueue_request(r) PROVE IInv'
  BY <1>2, EnqueueStep
<1>3. ASSUME NEW r \in Requests, cancel_request(r) PROVE IInv'
  BY <1>3, CancelStep
<1>4. CASE Iteration
  BY <1>4, UpdateStep, CompleteStep, ScheduleStep, MoveStep, ForwardStep, RaiseStep DEF Iteration
<1> QED BY <1>1, <1>2, <1>3, <1>4 DEF Next

(* The invariant of overlap_iteration and its clients, with the type of the *)
(* executor's state: what is in flight between two calls.                   *)
THEOREM OverlapInvariant == Spec => []IInv
<1> QED BY StartsRight, OverlapSteps, PTL DEF Spec

(* Every output token comes from a row of its own request and its own       *)
(* parameters, and unless a pass raised from the row of the token before    *)
(* it: the row bookkeeping of forward(), logits[-n:] and sample_async.      *)
THEOREM TokensAreOwn == Spec => []OwnNextToken
<1>1. IInv => OwnNextToken
  BY DEF IInv, OutputOK, OwnNextToken
<1> QED BY <1>1, OverlapInvariant, PTL

(* Unless a pass raised, the model reads every token of a request once, in  *)
(* order and at its position, though a decode row is packed one call after  *)
(* its token was sampled (_prepare_inputs).                                 *)
THEOREM ReadInOrder == Spec => []FedInOrder
<1>1. IInv => FedInOrder
  BY DEF IInv, FedOK, FedInOrder
<1> QED BY <1>1, OverlapInvariant, PTL

(* A request is answered at most once, with max_tokens tokens, and is in no *)
(* list by then, whatever is cancelled and however often a pass raises and  *)
(* a batch is applied again (the lookup of completed_ids in _active).       *)
THEOREM AnsweredOnce == Spec => []DeliveredOnce
<1>1. IInv => DeliveredOnce
  <2> SUFFICES ASSUME IInv, NEW r \in Requests, responses[r] # <<>>
               PROVE  r \notin Range(waiting \o active)
    BY DEF IInv, QueuesOK, DeliveredOnce
  <2>1. waiting \in Seq(Requests) /\ active \in Seq(Requests) BY DEF IInv, TypeOK
  <2>2. Range(waiting \o active) = Range(waiting) \cup Range(active) BY <2>1, ConcatElements
  <2> QED BY <2>2 DEF IInv, QueuesOK
<1> QED BY <1>1, OverlapInvariant, PTL

-----------------------------------------------------------------------------
(* ResponseManager, by which an executor answers its clients: types,        *)
(* exactly once delivery in order and no lost wakeup, for every set of ids  *)
(* and threads and every bound.                                             *)

Outputs == 1 .. MaxOutputs

ThreadType == [at : {"returned", "waiting", "awake"}, id : Ids \cup {"none"},
               on : 0 .. MaxRegistrations, value : 0 .. MaxOutputs]

(* A thread that waits or was woken knows for which id.                     *)
WaitersKnown == \A t \in Threads : thread[t].at # "returned" => thread[t].id \in Ids

(* ExactlyOnceInOrder, element by element.                                  *)
Delivered(i) ==
    /\ Len(taken[i]) + Len(queue[i]) = sent[i]
    /\ \A n \in 1 .. Len(taken[i]) : taken[i][n] = n
    /\ \A n \in 1 .. Len(queue[i]) : queue[i][n] = Len(taken[i]) + n

ResponseInv ==
    /\ ResponseTypeOK
    /\ WaitersKnown
    /\ NoLostWakeup
    /\ \A i \in Ids : Delivered(i)

-----------------------------------------------------------------------------
LEMMA OneMore ==
    ASSUME NEW a \in Nat, NEW b \in Nat, NEW c \in Nat, a + b = c
    PROVE  a + (b + 1) = c + 1
OBVIOUS

LEMMA Beyond ==
    ASSUME NEW a \in Nat, NEW b \in Nat, NEW n \in 1 .. a + b, n > a
    PROVE  n - a \in 1 .. b
OBVIOUS

(* Popping the head of a list of responses.                                 *)
LEMMA TakePreserves ==
    ASSUME ResponseInv, NEW t \in Threads, NEW i \in Ids, queue[i] # <<>>, Take(t, i)
    PROVE  ResponseInv'
<1> USE ResponseAssumption
<1> DEFINE q == queue[i]
           d == taken[i]
<1>1. q \in Seq(Outputs) /\ d \in Seq(Outputs) /\ q # <<>>
  BY DEF ResponseInv, ResponseTypeOK, Outputs
<1>2. /\ Head(q) \in Outputs
      /\ Tail(q) \in Seq(Outputs)
      /\ Len(Tail(q)) = Len(q) - 1
      /\ \A n \in 1 .. Len(Tail(q)) : Tail(q)[n] = q[n + 1]
  BY <1>1, HeadTailProperties
<1>3. Head(q) = q[1] /\ Len(q) \in Nat \ {0} /\ Len(d) \in Nat
  BY <1>1, EmptySeq, LenProperties
<1>4. /\ Append(d, Head(q)) \in Seq(Outputs)
      /\ Len(Append(d, Head(q))) = Len(d) + 1
      /\ \A n \in 1 .. Len(d) : Append(d, Head(q))[n] = d[n]
      /\ Append(d, Head(q))[Len(d) + 1] = Head(q)
  BY <1>1, <1>2, AppendProperties
<1>5. Returned(Head(q)) \in ThreadType
  BY <1>2 DEF Returned, ThreadType, Outputs
<1>6. ResponseTypeOK'
  <2>1. queue' \in [Ids -> Seq(Outputs)] /\ taken' \in [Ids -> Seq(Outputs)]
    BY <1>2, <1>4 DEF ResponseInv, ResponseTypeOK, Take, Outputs
  <2>2. thread' \in [Threads -> ThreadType]
    BY <1>5 DEF ResponseInv, ResponseTypeOK, Take, ThreadType
  <2> QED BY <2>1, <2>2 DEF ResponseInv, ResponseTypeOK, Take, ThreadType, Outputs
<1>7. WaitersKnown'
  BY DEF ResponseInv, ResponseTypeOK, WaitersKnown, Take, Returned
<1>8. NoLostWakeup'
  BY DEF ResponseInv, ResponseTypeOK, NoLostWakeup, WaitsOn, Take, Returned
<1>9. ASSUME NEW j \in Ids PROVE Delivered(j)'
  <2>1. CASE j = i
    <3>1. queue'[j] = Tail(q) /\ taken'[j] = Append(d, Head(q)) /\ sent'[j] = sent[i]
      BY <2>1 DEF ResponseInv, ResponseTypeOK, Take
    <3>2. /\ Len(d) + Len(q) = sent[i]
          /\ \A n \in 1 .. Len(d) : d[n] = n
          /\ \A n \in 1 .. Len(q) : q[n] = Len(d) + n
      BY DEF ResponseInv, Delivered
    <3>3. sent[i] \in Nat BY DEF ResponseInv, ResponseTypeOK
    <3>4. \A n \in 1 .. Len(d) + 1 : Append(d, Head(q))[n] = n
      BY <1>3, <1>4, <3>2
    <3>5. ASSUME NEW n \in 1 .. Len(q) - 1 PROVE Tail(q)[n] = Len(d) + 1 + n
      <4>1. n + 1 \in 1 .. Len(q) /\ n \in 1 .. Len(Tail(q)) BY <1>2, <1>3
      <4>2. Tail(q)[n] = q[n + 1] /\ q[n + 1] = Len(d) + (n + 1) BY <1>2, <3>2, <4>1
      <4> HIDE DEF q, d
      <4> QED BY <1>3, <4>1, <4>2
    <3>6. Len(taken'[j]) = Len(d) + 1 /\ Len(queue'[j]) = Len(q) - 1
      BY <1>2, <1>4, <3>1
    <3>7. Len(taken'[j]) + Len(queue'[j]) = sent'[j]
      <4>1. (Len(d) + 1) + (Len(q) - 1) = sent[i]
        <5> HIDE DEF q, d
        <5> QED BY <1>3, <3>2, <3>3
      <4> QED BY <3>1, <3>6, <4>1
    <3>8. \A n \in 1 .. Len(taken'[j]) : taken'[j][n] = n
      BY <3>1, <3>4, <3>6
    <3>9. \A n \in 1 .. Len(queue'[j]) : queue'[j][n] = Len(taken'[j]) + n
      BY <3>1, <3>5, <3>6
    <3> QED BY <3>7, <3>8, <3>9 DEF Delivered
  <2>2. CASE j # i
    BY <2>2 DEF ResponseInv, ResponseTypeOK, Take, Delivered
  <2> QED BY <2>1, <2>2
<1> QED BY <1>6, <1>7, <1>8, <1>9 DEF ResponseInv

-----------------------------------------------------------------------------
LEMMA ResponseInitInv == ResponseInit => ResponseInv
<1> SUFFICES ASSUME ResponseInit PROVE ResponseInv
  OBVIOUS
<1> USE ResponseAssumption
<1>1. ResponseTypeOK BY DEF ResponseInit, ResponseTypeOK, Returned
<1>2. WaitersKnown BY DEF ResponseInit, WaitersKnown, Returned
<1>3. NoLostWakeup BY DEF ResponseInit, NoLostWakeup, WaitsOn, Returned
<1>4. ASSUME NEW i \in Ids PROVE Delivered(i)
  <2>1. queue[i] = <<>> /\ taken[i] = <<>> /\ sent[i] = 0 BY DEF ResponseInit
  <2> QED BY <2>1 DEF Delivered
<1> QED BY <1>1, <1>2, <1>3, <1>4 DEF ResponseInv

LEMMA registerPreserves ==
    ASSUME ResponseInv, NEW i \in Ids, register(i)
    PROVE  ResponseInv'
<1> USE ResponseAssumption
<1>1. ResponseTypeOK'
  <2>1. registrations[i] + 1 \in 0 .. MaxRegistrations BY DEF ResponseInv, ResponseTypeOK, register
  <2>2. condition' \in [Ids -> 0 .. MaxRegistrations]
        /\ registrations' \in [Ids -> 0 .. MaxRegistrations]
    BY <2>1 DEF ResponseInv, ResponseTypeOK, register
  <2>3. queue' \in [Ids -> Seq(Outputs)] /\ taken' \in [Ids -> Seq(Outputs)]
    BY DEF ResponseInv, ResponseTypeOK, register, Outputs
  <2>4. sent' \in [Ids -> 0 .. MaxOutputs] /\ UNCHANGED thread
    BY DEF ResponseInv, ResponseTypeOK, register
  <2> QED BY <2>2, <2>3, <2>4 DEF ResponseInv, ResponseTypeOK, Outputs
<1>2. WaitersKnown' BY DEF ResponseInv, WaitersKnown, register
<1>3. NoLostWakeup' BY DEF ResponseInv, ResponseTypeOK, NoLostWakeup, WaitsOn, register
<1>4. \A j \in Ids : Delivered(j)' BY SMTT(30) DEF ResponseInv, ResponseTypeOK, Delivered, register
<1> QED BY <1>1, <1>2, <1>3, <1>4 DEF ResponseInv

LEMMA notifyPreserves ==
    ASSUME ResponseInv, NEW i \in Ids, notify(i)
    PROVE  ResponseInv'
<1> USE ResponseAssumption
<1>1. queue[i] \in Seq(Outputs) /\ sent[i] \in Nat /\ sent[i] + 1 \in Outputs
  BY DEF ResponseInv, ResponseTypeOK, notify, Outputs
<1>2. /\ Push(i) \in Seq(Outputs)
      /\ Len(Push(i)) = Len(queue[i]) + 1
      /\ \A n \in 1 .. Len(queue[i]) : Push(i)[n] = queue[i][n]
      /\ Push(i)[Len(queue[i]) + 1] = sent[i] + 1
  BY <1>1, AppendProperties DEF Push
<1>3. ResponseTypeOK'
  <2>1. queue' \in [Ids -> Seq(Outputs)] /\ sent' \in [Ids -> 0 .. MaxOutputs]
    BY <1>1, <1>2 DEF ResponseInv, ResponseTypeOK, notify, Outputs
  <2>2. thread' \in [Threads -> ThreadType]
    BY ZenonT(30) DEF ResponseInv, ResponseTypeOK, notify, WakeAll, ThreadType
  <2> QED BY <2>1, <2>2 DEF ResponseInv, ResponseTypeOK, notify, ThreadType, Outputs
<1>4. WaitersKnown'
  <2>1. \A t \in Threads :
            /\ thread'[t].id = thread[t].id
            /\ thread[t].at = "returned" => thread'[t].at = "returned"
    BY DEF ResponseInv, ResponseTypeOK, notify, WakeAll, WaitsOn
  <2> QED BY <2>1 DEF ResponseInv, WaitersKnown
<1>5. NoLostWakeup' BY DEF ResponseInv, ResponseTypeOK, NoLostWakeup, WaitsOn, notify, WakeAll
<1>6. ASSUME NEW j \in Ids PROVE Delivered(j)'
  <2>1. CASE j = i
    <3>1. queue'[j] = Push(i) /\ taken'[j] = taken[i] /\ sent'[j] = sent[i] + 1
      BY <2>1 DEF ResponseInv, ResponseTypeOK, notify
    <3>2. taken[i] \in Seq(Outputs) BY DEF ResponseInv, ResponseTypeOK, Outputs
    <3>3. Len(queue[i]) \in Nat /\ Len(taken[i]) \in Nat
      BY <1>1, <3>2, LenProperties
    <3>4. Delivered(i) BY DEF ResponseInv
    <3>5. Len(taken[i]) + (Len(queue[i]) + 1) = sent[i] + 1
      <4> DEFINE a == Len(taken[i])
                 b == Len(queue[i])
      <4>1. a \in Nat /\ b \in Nat /\ a + b = sent[i] BY <3>3, <3>4 DEF Delivered
      <4>2. sent[i] \in Nat BY <1>1
      <4> HIDE DEF a, b
      <4>3. a + (b + 1) = sent[i] + 1 BY <4>1, <4>2, OneMore
      <4> QED BY <4>3 DEF a, b
    <3>9. Len(taken'[j]) + Len(queue'[j]) = sent'[j] BY <1>2, <3>1, <3>5
    <3>6. \A n \in 1 .. Len(taken'[j]) : taken'[j][n] = n
      BY <3>1, <3>4 DEF Delivered
    <3>7. Push(i)[Len(queue[i]) + 1] = Len(taken[i]) + (Len(queue[i]) + 1)
      BY <1>2, <3>5
    <3>8. \A n \in 1 .. Len(queue'[j]) : queue'[j][n] = Len(taken'[j]) + n
      <4>1. \A n \in 1 .. Len(queue[i]) : Push(i)[n] = Len(taken[i]) + n
        BY <1>2, <3>4 DEF Delivered
      <4>2. ASSUME NEW n \in 1 .. Len(queue[i]) + 1 PROVE Push(i)[n] = Len(taken[i]) + n
        <5>1. n \in 1 .. Len(queue[i]) \/ n = Len(queue[i]) + 1 BY <3>3
        <5> QED BY <3>7, <4>1, <5>1
      <4> QED BY <1>2, <3>1, <4>2
    <3> QED BY <3>6, <3>8, <3>9 DEF Delivered
  <2>2. CASE j # i BY <2>2 DEF ResponseInv, ResponseTypeOK, notify, Delivered
  <2> QED BY <2>1, <2>2
<1> QED BY <1>3, <1>4, <1>5, <1>6 DEF ResponseInv

LEMMA cleanupPreserves ==
    ASSUME ResponseInv, NEW i \in Ids, cleanup(i)
    PROVE  ResponseInv'
<1> USE ResponseAssumption
<1>1. ResponseTypeOK' BY DEF ResponseInv, ResponseTypeOK, cleanup
<1>2. WaitersKnown' BY DEF ResponseInv, WaitersKnown, cleanup
<1>3. NoLostWakeup' BY DEF ResponseInv, ResponseTypeOK, NoLostWakeup, WaitsOn, cleanup
<1>4. \A j \in Ids : Delivered(j)' BY SMTT(30) DEF ResponseInv, ResponseTypeOK, Delivered, cleanup
<1> QED BY <1>1, <1>2, <1>3, <1>4 DEF ResponseInv

(* A step that only changes what threads do, and puts none to sleep on the  *)
(* condition of an id with a response.                                      *)
LEMMA ThreadStepPreserves ==
    ASSUME ResponseInv, UNCHANGED <<condition, registrations, queue, sent, taken>>,
           ResponseTypeOK', WaitersKnown', NoLostWakeup'
    PROVE  ResponseInv'
BY DEF ResponseInv, Delivered

LEMMA await_responsePreserves ==
    ASSUME ResponseInv, NEW t \in Threads, NEW i \in Interest[t], await_response(t, i)
    PROVE  ResponseInv'
<1> USE ResponseAssumption
<1>1. i \in Ids OBVIOUS
<1>2. CASE queue[i] # <<>> BY <1>1, <1>2, TakePreserves DEF await_response
<1>3. CASE queue[i] = <<>>
  <2>1. Waiting(i) \in ThreadType /\ Returned(0) \in ThreadType
    BY <1>1 DEF Waiting, Returned, ThreadType, ResponseInv, ResponseTypeOK
  <2>2. ResponseTypeOK' BY <1>3, <2>1, ZenonT(30) DEF await_response, ResponseInv, ResponseTypeOK, ThreadType
  <2>3. /\ thread'[t] \in {Waiting(i), Returned(0)}
        /\ \A u \in Threads \ {t} : thread'[u] = thread[u]
        /\ UNCHANGED <<condition, queue>>
    BY <1>3 DEF await_response, ResponseInv, ResponseTypeOK
  <2>4. WaitersKnown'
    BY <1>1, <2>3 DEF ResponseInv, WaitersKnown, Waiting, Returned
  <2>5. NoLostWakeup'
    BY <1>1, <1>3, <2>3 DEF ResponseInv, NoLostWakeup, WaitsOn, Waiting, Returned
  <2> QED BY <1>3, <2>2, <2>4, <2>5, ThreadStepPreserves DEF await_response
<1> QED BY <1>2, <1>3

LEMMA FinishWaitPreserves ==
    ASSUME ResponseInv, NEW t \in Threads, FinishWait(t)
    PROVE  ResponseInv'
<1> USE ResponseAssumption
<1> DEFINE i == thread[t].id
<1>1. i \in Ids BY DEF FinishWait, ResponseInv, WaitersKnown
<1>2. CASE queue[i] # <<>> BY <1>1, <1>2, TakePreserves DEF FinishWait
<1>3. CASE queue[i] = <<>>
  <2>0. thread' = [thread EXCEPT ![t].at = "returned", ![t].value = 0]
        /\ UNCHANGED <<condition, registrations, queue, sent, taken>>
    BY <1>3 DEF FinishWait
  <2>1. /\ thread' \in [Threads -> ThreadType]
        /\ thread'[t].at = "returned"
        /\ \A u \in Threads \ {t} : thread'[u] = thread[u]
    <3>1. thread \in [Threads -> ThreadType] BY DEF ResponseInv, ResponseTypeOK, ThreadType
    <3>2. 0 \in 0 .. MaxOutputs OBVIOUS
    <3> QED BY <2>0, <3>1, <3>2, ZenonT(30) DEF ThreadType
  <2>2. ResponseTypeOK' BY <2>0, <2>1 DEF ResponseInv, ResponseTypeOK, ThreadType
  <2>3. WaitersKnown' BY <2>1 DEF ResponseInv, WaitersKnown
  <2>4. NoLostWakeup' BY <2>0, <2>1 DEF ResponseInv, NoLostWakeup, WaitsOn
  <2> QED BY <2>0, <2>2, <2>3, <2>4, ThreadStepPreserves DEF FinishWait
<1> QED BY <1>2, <1>3

LEMMA TimeoutPreserves ==
    ASSUME ResponseInv, NEW t \in Threads, Timeout(t)
    PROVE  ResponseInv'
<1>1. ResponseTypeOK'
  <2>1. thread \in [Threads -> ThreadType] BY DEF ResponseInv, ResponseTypeOK, ThreadType
  <2>2. thread' \in [Threads -> ThreadType] BY <2>1, ZenonT(30) DEF Timeout, ThreadType
  <2> QED BY <2>2 DEF Timeout, ResponseInv, ResponseTypeOK, ThreadType
<1>2. WaitersKnown' BY DEF Timeout, ResponseInv, ResponseTypeOK, WaitersKnown
<1>3. NoLostWakeup' BY DEF Timeout, ResponseInv, ResponseTypeOK, NoLostWakeup, WaitsOn
<1> QED BY <1>1, <1>2, <1>3, ThreadStepPreserves DEF Timeout

LEMMA ResponseStepInv == ResponseInv /\ [ResponseNext]_response_vars => ResponseInv'
<1> SUFFICES ASSUME ResponseInv, [ResponseNext]_response_vars PROVE ResponseInv'
  OBVIOUS
<1>1. CASE UNCHANGED response_vars
  BY <1>1 DEF response_vars, ResponseInv, ResponseTypeOK, WaitersKnown, NoLostWakeup, WaitsOn, Delivered
<1> QED
  BY <1>1, registerPreserves, notifyPreserves, cleanupPreserves,
     await_responsePreserves, FinishWaitPreserves, TimeoutPreserves
  DEF ResponseNext, Client

THEOREM ResponseInvInvariant == ResponseSpec => []ResponseInv
BY ResponseInitInv, ResponseStepInv, PTL DEF ResponseSpec

-----------------------------------------------------------------------------
(* The manager and its clients never leave their types.                     *)
THEOREM ResponseTypesCorrect == ResponseSpec => []ResponseTypeOK
<1>1. ResponseInv => ResponseTypeOK BY DEF ResponseInv
<1> QED BY <1>1, ResponseInvInvariant, PTL

(* Nobody sleeps on the condition of a request that has a response.         *)
THEOREM NoWakeupLost == ResponseSpec => []NoLostWakeup
<1>1. ResponseInv => NoLostWakeup BY DEF ResponseInv
<1> QED BY <1>1, ResponseInvInvariant, PTL

(* Every output is popped once, in order, or is still in the list.          *)
THEOREM DeliveredOnceInOrder == ResponseSpec => []ExactlyOnceInOrder
<1>1. ResponseInv => ExactlyOnceInOrder
  <2> SUFFICES ASSUME ResponseInv, NEW i \in Ids
               PROVE  taken[i] \o queue[i] = [n \in 1 .. sent[i] |-> n]
    BY DEF ExactlyOnceInOrder
  <2> DEFINE all == taken[i] \o queue[i]
             numbers == [n \in 1 .. sent[i] |-> n]
  <2>1. taken[i] \in Seq(Nat) /\ queue[i] \in Seq(Nat) /\ sent[i] \in Nat
    BY ResponseAssumption, SeqMonotonic DEF ResponseInv, ResponseTypeOK
  <2>2. /\ all \in Seq(Nat)
        /\ Len(all) = Len(taken[i]) + Len(queue[i])
        /\ \A n \in 1 .. Len(taken[i]) + Len(queue[i]) :
              all[n] = IF n <= Len(taken[i]) THEN taken[i][n] ELSE queue[i][n - Len(taken[i])]
    BY <2>1, ConcatProperties
  <2>3. Len(taken[i]) \in Nat /\ Len(queue[i]) \in Nat
    BY <2>1, LenProperties
  <2>4. numbers \in Seq(Nat) /\ Len(numbers) = sent[i]
    BY <2>1
  <2>5. Delivered(i) BY DEF ResponseInv
  <2>6. \A n \in 1 .. Len(all) : all[n] = numbers[n]
    <3> SUFFICES ASSUME NEW n \in 1 .. Len(all) PROVE all[n] = numbers[n]
      OBVIOUS
    <3>1. n \in 1 .. sent[i] /\ numbers[n] = n
      BY <2>1, <2>2, <2>5 DEF Delivered
    <3>4. n \in 1 .. Len(taken[i]) + Len(queue[i]) BY <2>2
    <3>2. CASE n <= Len(taken[i])
      BY <2>2, <2>3, <2>5, <3>1, <3>2 DEF Delivered
    <3>3. CASE n > Len(taken[i])
      <4>1. n - Len(taken[i]) \in 1 .. Len(queue[i]) 
        BY <2>3, <3>3, <3>4, Beyond
      <4>2. all[n] = queue[i][n - Len(taken[i])] BY <2>2, <2>3, <3>3
      <4>3. queue[i][n - Len(taken[i])] = n BY <2>3, <2>5, <3>3, <4>1 DEF Delivered
      <4> QED BY <3>1, <4>2, <4>3
    <3> QED BY <2>2, <2>3, <3>2, <3>3
  <2>7. Len(all) = Len(numbers)
    BY <2>2, <2>4, <2>5 DEF Delivered
  <2> HIDE DEF all, numbers
  <2>8. all = numbers BY <2>2, <2>4, <2>6, <2>7, SeqEqual
  <2> QED BY <2>8 DEF all, numbers
<1> QED BY <1>1, ResponseInvInvariant, PTL

=============================================================================
