------------------------ MODULE TensorParallelProofs ------------------------
(***************************************************************************)
(* Proofs about the sharded layers and the ranks that run them, for any    *)
(* world size and any sizes it divides: the shards partition the rows of a *)
(* weight, the parts of the ranks add up to the whole, and every rank ends *)
(* forward with the logits of the unsharded decoder.                       *)
(***************************************************************************)
EXTENDS TensorParallel, DataLemmas

-----------------------------------------------------------------------------
(* Multiples, and division by what divides.                                 *)

LEMMA NextMultiple ==
    ASSUME NEW r \in Int, NEW d \in Int
    PROVE  r * d \in Int /\ (r + 1) * d = r * d + d
OBVIOUS

LEMMA MultiplesGrow ==
    ASSUME NEW r \in Nat, NEW w \in Nat, r < w, NEW d \in Nat
    PROVE  r * d \in Nat /\ w * d \in Nat /\ r * d + d <= w * d
<1>1. (w - (r + 1)) * d = w * d - (r * d + d) OBVIOUS
<1>2. w - (r + 1) \in Nat OBVIOUS
<1>3. \A a, b \in Nat : a * b \in Nat OBVIOUS
<1>4. (w - (r + 1)) * d \in Nat BY <1>2, <1>3
<1>5. r * d \in Nat /\ w * d \in Nat BY <1>3
<1> QED BY <1>1, <1>4, <1>5

(* The rank and the local index of each index.                              *)
LEMMA Quotient ==
    ASSUME NEW d \in Nat \ {0}, NEW r \in Nat, NEW i \in 0 .. d - 1
    PROVE  (r * d + i) \div d = r /\ (r * d + i) % d = i
OBVIOUS

LEMMA Split ==
    ASSUME NEW d \in Nat \ {0}, NEW n \in Nat
    PROVE  /\ n \div d \in Nat /\ n % d \in 0 .. d - 1
           /\ n = (n \div d) * d + (n % d)
<1>1. n \div d \in Nat OBVIOUS
<1>2. n % d \in 0 .. d - 1 OBVIOUS
<1>3. n = d * (n \div d) + (n % d)
  <2>1. d \in Int /\ d > 0 /\ n \in Int OBVIOUS
  <2>2. \A b \in Int, a \in Int : b > 0 => a = b * (a \div b) + (a % b) OBVIOUS
  <2> QED BY <2>1, <2>2
<1>4. \A a \in Nat : d * a = a * d OBVIOUS
<1> QED BY <1>1, <1>3, <1>2, <1>4

LEMMA SplitBelow ==
    ASSUME NEW w \in Nat, NEW d \in Nat \ {0}, NEW n \in 0 .. w * d - 1
    PROVE  n \div d \in 0 .. w - 1
<1>1. w * d \in Nat
  <2>1. \A a, b \in Nat : a * b \in Nat OBVIOUS
  <2> QED BY <2>1
<1>2. PICK r \in Nat, i \in 0 .. d - 1 : r = n \div d /\ n = r * d + i
  <2>1. n \in Nat BY <1>1
  <2> QED BY <2>1, Split
<1>3. r < w
  <2> SUFFICES ASSUME w <= r PROVE FALSE OBVIOUS
  <2>1. (r - w) * d = r * d - w * d OBVIOUS
  <2>2. \A a, b \in Nat : a * b \in Nat OBVIOUS
  <2>3. (r - w) * d \in Nat
    <3>1. r - w \in Nat OBVIOUS
    <3> QED BY <2>2, <3>1
  <2>4. r * d \in Nat BY <2>2
  <2> QED BY <1>1, <1>2, <2>1, <2>3, <2>4
<1> QED BY <1>2, <1>3

(* The shards of a dimension that the world divides.                        *)
LEMMA Shares ==
    ASSUME NEW w \in Nat \ {0}, NEW n \in Nat, Divides(w, n)
    PROVE  PerRank(n, w) \in Nat \ {0} /\ w * PerRank(n, w) = n
<1>1. PICK k \in 1 .. n : w * k = n BY DEF Divides
<1>2. k \in Nat \ {0} /\ n = k * w + 0 /\ 0 \in 0 .. w - 1 BY <1>1
<1>3. n \div w = k BY <1>2, Quotient
<1> QED BY <1>1, <1>2, <1>3 DEF PerRank


-----------------------------------------------------------------------------
(* Sums over 0 .. n - 1, by what the loop has so far.                       *)

SoFar(g, n, f) ==
    /\ g \in [0 .. n -> Int]
    /\ g[0] = 0
    /\ \A k \in 1 .. n : g[k] = g[k - 1] + f[k - 1]
    /\ Total(n, f) = g[n]

LEMMA TotalSteps ==
    ASSUME NEW n \in Nat, NEW f \in [0 .. n - 1 -> Int]
    PROVE  (\E g : SoFar(g, n, f)) /\ Total(n, f) \in Int
<1> DEFINE I == 1 .. n
           X == 0 .. n - 1
           s == [k \in 1 .. n |-> k - 1]
<1>1. s \in Seq(X) /\ Len(s) = n
  <2>1. \A k \in 1 .. n : k - 1 \in X OBVIOUS
  <2> HIDE DEF X
  <2> QED BY <2>1, IsASeq
<1>2. \A k \in 1 .. n : s[k] = k - 1 OBVIOUS
<1>3. Total(n, f) = SumOver(I, s, n, f) BY DEF Total
<1>4. \A k \in 1 .. n : k \in I OBVIOUS
<1>5. n \in 0 .. n OBVIOUS
<1>6. f \in [X -> Int] OBVIOUS
<1> HIDE DEF I, X, s
<1>7. (\E g : SumsBy(g, I, s, n, f)) /\ SumOver(I, s, n, f) \in Int
  BY <1>1, <1>5, <1>6, SumSteps
<1>8. PICK g : SumsBy(g, I, s, n, f) BY <1>7
<1>9. SoFar(g, n, f) BY <1>2, <1>3, <1>4, <1>8 DEF SumsBy, SoFar
<1> QED BY <1>3, <1>7, <1>9

(* All but one are zero.                                                    *)
LEMMA TotalOfOne ==
    ASSUME NEW n \in Nat, NEW f \in [0 .. n - 1 -> Int], NEW j \in 0 .. n - 1,
           \A k \in 0 .. n - 1 : k # j => f[k] = 0
    PROVE  Total(n, f) = f[j]
<1>1. PICK g : SoFar(g, n, f) BY TotalSteps
<1>2. /\ g \in [0 .. n -> Int] /\ g[0] = 0 /\ Total(n, f) = g[n]
      /\ \A k \in 1 .. n : g[k] = g[k - 1] + f[k - 1]
  BY <1>1 DEF SoFar
<1> DEFINE S == {k \in 0 .. n : g[k] = IF j < k THEN f[j] ELSE 0}
<1>3. 0 \in S BY <1>2
<1>4. ASSUME NEW k \in 0 + 1 .. n, k - 1 \in S PROVE k \in S
  <2>1. k \in 1 .. n /\ k \in 0 .. n /\ k - 1 \in 0 .. n - 1 OBVIOUS
  <2>2. g[k] = g[k - 1] + f[k - 1] /\ g[k - 1] = IF j < k - 1 THEN f[j] ELSE 0
    BY <1>2, <1>4, <2>1
  <2>3. f[j] \in Int OBVIOUS
  <2>4. CASE k - 1 = j BY <2>1, <2>2, <2>3, <2>4
  <2>5. CASE k - 1 # j
    <3>1. f[k - 1] = 0 BY <2>1, <2>5
    <3>2. j < k - 1 <=> j < k BY <2>1, <2>5
    <3> QED BY <2>1, <2>2, <2>3, <3>1, <3>2
  <2> QED BY <2>4, <2>5
<1> HIDE DEF S
<1>5. n \in S
  <2>1. 0 \in Nat /\ n \in 0 .. n OBVIOUS
  <2>2. \A k \in 0 + 1 .. n : k - 1 \in S => k \in S BY <1>4
  <2> QED BY <1>3, <2>1, <2>2, UpTo
<1>6. g[n] = f[j] BY <1>5 DEF S
<1> QED BY <1>2, <1>6

(* A bias is in one part only.                                              *)
LEMMA TotalWithOneBias ==
    ASSUME NEW n \in Nat \ {0}, NEW f \in [0 .. n - 1 -> Int],
           NEW h \in [0 .. n - 1 -> Int], NEW b \in Int,
           h[0] = f[0] + b, \A k \in 1 .. n - 1 : h[k] = f[k]
    PROVE  Total(n, h) = Total(n, f) + b
<1>1. PICK g : SoFar(g, n, f) BY TotalSteps
<1>2. PICK e : SoFar(e, n, h) BY TotalSteps
<1>3. /\ g \in [0 .. n -> Int] /\ g[0] = 0 /\ Total(n, f) = g[n]
      /\ \A k \in 1 .. n : g[k] = g[k - 1] + f[k - 1]
  BY <1>1 DEF SoFar
<1>4. /\ e \in [0 .. n -> Int] /\ e[0] = 0 /\ Total(n, h) = e[n]
      /\ \A k \in 1 .. n : e[k] = e[k - 1] + h[k - 1]
  BY <1>2 DEF SoFar
<1> DEFINE S == {k \in 1 .. n : e[k] = g[k] + b}
<1>5. 1 \in S
  <2>1. 1 \in 1 .. n /\ 1 - 1 = 0 /\ 0 \in 0 .. n - 1 OBVIOUS
  <2>2. g[1] = 0 + f[0] /\ e[1] = 0 + h[0] /\ f[0] \in Int BY <1>3, <1>4, <2>1
  <2> QED BY <2>1, <2>2
<1>6. ASSUME NEW k \in 1 + 1 .. n, k - 1 \in S PROVE k \in S
  <2>1. /\ k \in 1 .. n /\ k - 1 \in 1 .. n - 1
        /\ k - 1 \in 0 .. n /\ k - 1 \in 0 .. n - 1
    OBVIOUS
  <2>2. /\ g[k] = g[k - 1] + f[k - 1] /\ e[k] = e[k - 1] + h[k - 1]
        /\ h[k - 1] = f[k - 1] /\ f[k - 1] \in Int /\ g[k - 1] \in Int
    BY <1>3, <1>4, <2>1
  <2>3. e[k - 1] = g[k - 1] + b BY <1>6
  <2> QED BY <2>1, <2>2, <2>3
<1> HIDE DEF S
<1>7. n \in S
  <2>1. 1 \in Nat /\ n \in 1 .. n OBVIOUS
  <2>2. \A k \in 1 + 1 .. n : k - 1 \in S => k \in S BY <1>6
  <2> QED BY <1>5, <2>1, <2>2, UpTo
<1>8. e[n] = g[n] + b BY <1>7 DEF S
<1> QED BY <1>3, <1>4, <1>8

(* A sum is the sum of the sums of its parts.                               *)
LEMMA TotalOfParts ==
    ASSUME NEW w \in Nat, NEW d \in Nat, NEW f \in [0 .. w * d - 1 -> Int],
           NEW part \in [0 .. w - 1 -> Int],
           \A r \in 0 .. w - 1 : part[r] = Total(d, [i \in 0 .. d - 1 |-> f[r * d + i]])
    PROVE  Total(w, part) = Total(w * d, f)
<1> DEFINE n == w * d
<1>1. n \in Nat
  <2>1. \A a, b \in Nat : a * b \in Nat OBVIOUS
  <2> QED BY <2>1
<1> HIDE DEF n
<1>2. PICK g : SoFar(g, n, f) BY <1>1, TotalSteps DEF n
<1>3. PICK h : SoFar(h, w, part) BY TotalSteps
<1>4. /\ g \in [0 .. n -> Int] /\ g[0] = 0 /\ Total(n, f) = g[n]
      /\ \A k \in 1 .. n : g[k] = g[k - 1] + f[k - 1]
  BY <1>2 DEF SoFar
<1>5. /\ h \in [0 .. w -> Int] /\ h[0] = 0 /\ Total(w, part) = h[w]
      /\ \A k \in 1 .. w : h[k] = h[k - 1] + part[k - 1]
  BY <1>3 DEF SoFar
<1>6. ASSUME NEW r \in 0 .. w - 1
      PROVE  part[r] = g[r * d + d] - g[r * d] /\ r * d + d \in 0 .. n
  <2> DEFINE a == r * d
             p == [i \in 0 .. d - 1 |-> f[a + i]]
  <2>1. a \in Nat /\ a + d <= n BY MultiplesGrow DEF n
  <2> HIDE DEF a
  <2>2. \A i \in 0 .. d - 1 : a + i \in 0 .. n - 1 BY <1>1, <2>1
  <2>3. p \in [0 .. d - 1 -> Int] /\ \A i \in 0 .. d - 1 : p[i] = f[a + i]
    BY <2>2 DEF n
  <2>4. part[r] = Total(d, p) BY DEF a
  <2> HIDE DEF p
  <2>5. PICK q : SoFar(q, d, p) BY <2>3, TotalSteps
  <2>6. /\ q \in [0 .. d -> Int] /\ q[0] = 0 /\ Total(d, p) = q[d]
        /\ \A k \in 1 .. d : q[k] = q[k - 1] + p[k - 1]
    BY <2>5 DEF SoFar
  <2> DEFINE S == {i \in 0 .. d : q[i] = g[a + i] - g[a]}
  <2>7. 0 \in S
    <3>1. a + 0 = a /\ a \in 0 .. n BY <1>1, <2>1
    <3>2. g[a] \in Int BY <1>4, <3>1
    <3> QED BY <2>6, <3>1, <3>2
  <2>8. ASSUME NEW i \in 0 + 1 .. d, i - 1 \in S PROVE i \in S
    <3>1. /\ i \in 1 .. d /\ i - 1 \in 0 .. d - 1 /\ (a + i) - 1 = a + (i - 1)
          /\ a + i \in 1 .. n /\ a + (i - 1) \in 0 .. n /\ a \in 0 .. n
      BY <1>1, <2>1
    <3>2. /\ q[i] = q[i - 1] + p[i - 1] /\ p[i - 1] = f[a + (i - 1)]
          /\ g[a + i] = g[a + (i - 1)] + f[a + (i - 1)]
      BY <1>4, <2>3, <2>6, <3>1
    <3>3. f[a + (i - 1)] \in Int /\ g[a + (i - 1)] \in Int /\ g[a] \in Int
      BY <1>4, <2>2, <3>1 DEF n
    <3>4. q[i - 1] = g[a + (i - 1)] - g[a] BY <2>8
    <3> QED BY <3>1, <3>2, <3>3, <3>4
  <2> HIDE DEF S
  <2>9. d \in S
    <3>1. 0 \in Nat /\ d \in 0 .. d OBVIOUS
    <3>2. \A i \in 0 + 1 .. d : i - 1 \in S => i \in S BY <2>8
    <3> QED BY <2>7, <3>1, <3>2, UpTo
  <2>10. part[r] = g[a + d] - g[a] BY <2>4, <2>6, <2>9 DEF S
  <2>11. a + d \in 0 .. n BY <1>1, <2>1
  <2> QED BY <2>10, <2>11 DEF a
<1> DEFINE S == {r \in 0 .. w : r * d \in 0 .. n /\ h[r] = g[r * d]}
<1>7. 0 \in S
  <2>1. 0 * d = 0 OBVIOUS
  <2> QED BY <1>1, <1>4, <1>5, <2>1
<1>8. ASSUME NEW r \in 0 + 1 .. w, r - 1 \in S PROVE r \in S
  <2>1. PICK q \in 0 .. w - 1 : q = r - 1 OBVIOUS
  <2>2. r = q + 1 /\ r \in 1 .. w BY <2>1
  <2>3. r * d = q * d + d BY <2>1, <2>2, NextMultiple
  <2>4. h[r] = h[q] + part[q] BY <1>5, <2>1, <2>2
  <2>5. part[q] = g[q * d + d] - g[q * d] /\ q * d + d \in 0 .. n BY <1>6
  <2>6. h[q] = g[q * d] /\ q * d \in 0 .. n BY <1>8, <2>1
  <2>7. g[q * d + d] \in Int /\ g[q * d] \in Int BY <1>4, <2>5, <2>6
  <2>8. h[r] = g[r * d]
    <3> DEFINE a == g[q * d]
               b == g[q * d + d]
    <3>1. h[r] = a + (b - a) /\ a \in Int /\ b \in Int BY <2>4, <2>5, <2>6, <2>7
    <3> HIDE DEF a, b
    <3>2. h[r] = b BY <3>1
    <3> QED BY <2>3, <3>2 DEF b
  <2> QED BY <2>2, <2>3, <2>5, <2>8
<1> HIDE DEF S
<1>9. w \in S
  <2>1. 0 \in Nat /\ w \in 0 .. w OBVIOUS
  <2>2. \A r \in 0 + 1 .. w : r - 1 \in S => r \in S BY <1>8
  <2> QED BY <1>7, <2>1, <2>2, UpTo
<1> QED BY <1>4, <1>5, <1>9 DEF S, n


-----------------------------------------------------------------------------
(* The shards of a dimension of size w * d.                                 *)

Numbers(n) == [0 .. n - 1 -> Int]

Sharded(n, w, d) == w \in Nat \ {0} /\ d \in Nat \ {0} /\ n = w * d

ShardOf(n, w, d, r) ==
    /\ n \in Nat /\ PerRank(n, w) = d
    /\ Shard(n, r, w) = [i \in 0 .. d - 1 |-> r * d + i]
    /\ r * d \in Nat /\ \A i \in 0 .. d - 1 : r * d + i \in 0 .. n - 1

LEMMA ShardIs ==
    ASSUME NEW w, NEW d, NEW n, Sharded(n, w, d), NEW r \in 0 .. w - 1
    PROVE  ShardOf(n, w, d, r)
<1>0. w \in Nat \ {0} /\ d \in Nat \ {0} /\ n = w * d BY DEF Sharded
<1>1. r * d \in Nat /\ n \in Nat /\ r * d + d <= n BY <1>0, MultiplesGrow
<1>2. PerRank(n, w) = d
  <2>1. d * w + 0 = n /\ 0 \in 0 .. w - 1
    <3>1. d * w = w * d BY <1>0
    <3> QED BY <1>0, <1>1, <3>1
  <2> QED BY <1>0, <2>1, Quotient DEF PerRank
<1>3. Shard(n, r, w) = [i \in 0 .. d - 1 |-> r * d + i] BY <1>2 DEF Shard
<1> DEFINE a == r * d
<1>4. a \in Nat /\ a + d <= n BY <1>1
<1> HIDE DEF a
<1>5. \A i \in 0 .. d - 1 : a + i \in 0 .. n - 1 BY <1>0, <1>1, <1>4
<1> QED BY <1>1, <1>2, <1>3, <1>5 DEF a, ShardOf

(* Every index of a sharded dimension is in the shard of exactly one rank,  *)
(* at exactly one place, for any world size that divides the dimension      *)
(* (the slices of the weight loaders).                                      *)
THEOREM ShardsPartition ==
    ASSUME NEW w \in Nat \ {0}, NEW n \in Nat, Divides(w, n), NEW j \in 0 .. n - 1
    PROVE  /\ \E r \in 0 .. w - 1 : \E i \in DOMAIN Shard(n, r, w) : Shard(n, r, w)[i] = j
           /\ \A r, q \in 0 .. w - 1 :
                  \A i \in DOMAIN Shard(n, r, w), k \in DOMAIN Shard(n, q, w) :
                      Shard(n, r, w)[i] = j /\ Shard(n, q, w)[k] = j => r = q /\ i = k
<1> DEFINE d == PerRank(n, w)
<1>1. d \in Nat \ {0} /\ n = w * d BY Shares
<1> HIDE DEF d
<1>2. \A r \in 0 .. w - 1 : Shard(n, r, w) = [i \in 0 .. d - 1 |-> r * d + i]
  <2> SUFFICES ASSUME NEW r \in 0 .. w - 1
               PROVE  Shard(n, r, w) = [i \in 0 .. d - 1 |-> r * d + i] OBVIOUS
  <2>1. Sharded(n, w, d) BY <1>1 DEF Sharded
  <2>2. ShardOf(n, w, d, r) BY <2>1, ShardIs
  <2> QED BY <2>2 DEF ShardOf
<1>3. /\ j \div d \in 0 .. w - 1 /\ j % d \in 0 .. d - 1
      /\ j = (j \div d) * d + (j % d)
  <2>1. j \in 0 .. w * d - 1 /\ j \in Nat BY <1>1
  <2> QED BY <1>1, <2>1, Split, SplitBelow
<1>4. \E r \in 0 .. w - 1 : \E i \in DOMAIN Shard(n, r, w) : Shard(n, r, w)[i] = j
  BY <1>2, <1>3
<1>5. ASSUME NEW r \in 0 .. w - 1, NEW i \in DOMAIN Shard(n, r, w), Shard(n, r, w)[i] = j
      PROVE  r = j \div d /\ i = j % d
  <2>1. i \in 0 .. d - 1 /\ j = r * d + i BY <1>2, <1>5
  <2>2. r \in Nat OBVIOUS
  <2> QED BY <1>1, <2>1, <2>2, Quotient
<1> QED BY <1>4, <1>5

-----------------------------------------------------------------------------
(* Products.                                                                *)

LEMMA ProductsAreInt ==
    ASSUME NEW n \in Nat, NEW row \in Numbers(n), NEW y \in Numbers(n)
    PROVE  [i \in 0 .. n - 1 |-> row[i] * y[i]] \in Numbers(n)
<1>1. \A a, b \in Int : a * b \in Int OBVIOUS
<1>2. \A i \in 0 .. n - 1 : row[i] \in Int /\ y[i] \in Int BY DEF Numbers
<1> QED BY <1>1, <1>2 DEF Numbers

LEMMA DotIs ==
    ASSUME NEW n \in Nat, NEW row \in Numbers(n), NEW y \in Numbers(n)
    PROVE  /\ Dot(row, y) = Total(n, [i \in 0 .. n - 1 |-> row[i] * y[i]])
           /\ Dot(row, y) \in Int
<1> DEFINE f == [i \in 0 .. n - 1 |-> row[i] * y[i]]
<1>1. DOMAIN y = 0 .. n - 1 BY DEF Numbers
<1>2. Cardinality(0 .. n - 1) = n
  <2>1. 0 \in Int /\ n - 1 \in Int OBVIOUS
  <2>2. Cardinality(0 .. n - 1) = IF 0 > n - 1 THEN 0 ELSE (n - 1) - 0 + 1
    BY <2>1, FS_Interval
  <2> QED BY <2>2
<1>3. Dot(row, y) = Total(n, f) BY <1>1, <1>2 DEF Dot
<1>4. f \in [0 .. n - 1 -> Int] BY ProductsAreInt DEF Numbers
<1> HIDE DEF f
<1>5. Total(n, f) \in Int BY <1>4, TotalSteps
<1> QED BY <1>3, <1>5 DEF f

(* The slice of the input features of a rank.                               *)
PartOf(y, r, d) == [i \in 0 .. d - 1 |-> y[r * d + i]]

(* Row o of what each rank computes.                                        *)
RowParts(weight, bias, n, y, o, w, d) ==
    [r \in 0 .. w - 1 |-> RowParallelLinear(weight, bias, n, PartOf(y, r, d), r, w)[o]]

EmbeddingRows(weight, id, n, h, w) ==
    [r \in 0 .. w - 1 |-> VocabParallelEmbedding(weight, id, n, r, w)[h]]

(* The parts of RowParallelLinear add up to the whole, the bias once.       *)
RowInputs(weight, bias, y, hidden, n) ==
    /\ hidden \in Nat /\ weight \in Tensor(hidden, n)
    /\ bias \in Numbers(hidden) /\ y \in Numbers(n)

LEMMA RowParallelParts ==
    ASSUME NEW w, NEW d, NEW n, Sharded(n, w, d), NEW hidden,
           NEW weight, NEW bias, NEW y, RowInputs(weight, bias, y, hidden, n),
           NEW o \in 0 .. hidden - 1
    PROVE  /\ Total(w, RowParts(weight, bias, n, y, o, w, d)) = Dot(weight[o], y) + bias[o]
           /\ RowParts(weight, bias, n, y, o, w, d) \in Numbers(w)
<1>a. /\ w \in Nat \ {0} /\ d \in Nat \ {0} /\ n = w * d
      /\ hidden \in Nat /\ weight \in Tensor(hidden, n)
      /\ bias \in Numbers(hidden) /\ y \in Numbers(n)
  BY DEF Sharded, RowInputs
<1> USE <1>a
<1> DEFINE part == RowParts(weight, bias, n, y, o, w, d)
<1>0. part = [r \in 0 .. w - 1 |->
                 RowParallelLinear(weight, bias, n, PartOf(y, r, d), r, w)[o]]
  BY DEF RowParts
<1> HIDE DEF part
<1> DEFINE f    == [j \in 0 .. n - 1 |-> weight[o][j] * y[j]]
           dots == [r \in 0 .. w - 1 |-> Total(d, [i \in 0 .. d - 1 |-> f[r * d + i]])]
           b    == bias[o]
<1>1. n \in Nat
  <2>1. \A a, c \in Nat : a * c \in Nat OBVIOUS
  <2> QED BY <2>1
<1>2. weight[o] \in Numbers(n) /\ b \in Int /\ DOMAIN weight = 0 .. hidden - 1
  BY DEF Tensor, Numbers
<1>3. f \in Numbers(n) /\ Dot(weight[o], y) = Total(n, f) BY <1>1, <1>2, DotIs, ProductsAreInt
<1>4. ASSUME NEW r \in 0 .. w - 1
      PROVE  /\ part[r] = Total(d, [i \in 0 .. d - 1 |-> f[r * d + i]]) + (IF r = 0 THEN b ELSE 0)
             /\ Total(d, [i \in 0 .. d - 1 |-> f[r * d + i]]) \in Int
  <2> DEFINE columns == Shard(n, r, w)
             z   == PartOf(y, r, d)
             row == [i \in DOMAIN columns |-> weight[o][columns[i]]]
  <2>1. columns = [i \in 0 .. d - 1 |-> r * d + i] /\ \A i \in 0 .. d - 1 : r * d + i \in 0 .. n - 1
    <3>1. Sharded(n, w, d) BY DEF Sharded
    <3>2. ShardOf(n, w, d, r) BY <3>1, ShardIs
    <3> HIDE DEF columns
    <3> QED BY <3>2 DEF ShardOf, columns
  <2>2. /\ DOMAIN row = 0 .. d - 1 /\ \A i \in 0 .. d - 1 : row[i] = weight[o][r * d + i]
        /\ row = [i \in 0 .. d - 1 |-> row[i]]
    BY <2>1
  <2>3. row \in Numbers(d) /\ z \in Numbers(d)
    <3>1. \A i \in 0 .. d - 1 : weight[o][r * d + i] \in Int /\ y[r * d + i] \in Int
      BY <1>2, <2>1 DEF Numbers
    <3> HIDE DEF row
    <3> QED BY <2>2, <3>1 DEF Numbers, PartOf
  <2>4. part[r] = Dot(row, z) + (IF r = 0 THEN b ELSE 0)
    BY <1>0, <1>2 DEF RowParallelLinear, HasBias
  <2>5. \A i \in 0 .. d - 1 : row[i] * z[i] = f[r * d + i]
    BY <2>1, <2>2 DEF PartOf
  <2> HIDE DEF row, z, f
  <2>6. /\ Dot(row, z) = Total(d, [i \in 0 .. d - 1 |-> row[i] * z[i]]) /\ Dot(row, z) \in Int
    BY <2>3, DotIs
  <2>7. [i \in 0 .. d - 1 |-> row[i] * z[i]] = [i \in 0 .. d - 1 |-> f[r * d + i]] BY <2>5
  <2> QED BY <2>4, <2>6, <2>7
<1> HIDE DEF f, b
<1>5. dots \in Numbers(w) /\ part \in Numbers(w)
  <2>1. \A r \in 0 .. w - 1 : dots[r] \in Int BY <1>4
  <2>2. \A r \in 0 .. w - 1 : part[r] \in Int
    <3> SUFFICES ASSUME NEW r \in 0 .. w - 1 PROVE part[r] \in Int OBVIOUS
    <3> DEFINE t == Total(d, [i \in 0 .. d - 1 |-> f[r * d + i]])
    <3>1. part[r] = t + (IF r = 0 THEN b ELSE 0) /\ t \in Int BY <1>4
    <3> HIDE DEF t
    <3> QED BY <1>2, <3>1
  <2> HIDE DEF dots
  <2>3. dots = [r \in 0 .. w - 1 |-> dots[r]] BY DEF dots
  <2> QED BY <1>0, <2>1, <2>2, <2>3 DEF Numbers
<1>6. Total(w, dots) = Total(n, f)
  <2>1. \A r \in 0 .. w - 1 : dots[r] = Total(d, [i \in 0 .. d - 1 |-> f[r * d + i]]) OBVIOUS
  <2>2. f \in [0 .. w * d - 1 -> Int] /\ dots \in [0 .. w - 1 -> Int] BY <1>3, <1>5 DEF Numbers
  <2>3. w \in Nat /\ d \in Nat OBVIOUS
  <2> HIDE DEF dots
  <2>4. Total(w, dots) = Total(w * d, f) BY ONLY <2>1, <2>2, <2>3, TotalOfParts
  <2> QED BY <2>4
<1>7. Total(w, part) = Total(w, dots) + b
  <2>1. /\ part[0] = dots[0] + b
        /\ \A r \in 1 .. w - 1 : part[r] = dots[r]
    <3>1. 0 \in 0 .. w - 1 /\ \A r \in 1 .. w - 1 : r \in 0 .. w - 1 /\ r # 0 OBVIOUS
    <3>2. \A r \in 0 .. w - 1 : /\ part[r] = dots[r] + (IF r = 0 THEN b ELSE 0)
                                /\ dots[r] \in Int
      BY <1>4
    <3> HIDE DEF dots
    <3>3. \A r \in 1 .. w - 1 : part[r] = dots[r] + 0 /\ dots[r] \in Int BY <3>1, <3>2
    <3> QED BY <3>1, <3>2, <3>3
  <2>2. dots \in [0 .. w - 1 -> Int] /\ part \in [0 .. w - 1 -> Int] BY <1>5 DEF Numbers
  <2>3. w \in Nat \ {0} /\ b \in Int BY <1>2
  <2> HIDE DEF dots
  <2> QED BY ONLY <2>1, <2>2, <2>3, TotalWithOneBias
<1> QED BY <1>3, <1>5, <1>6, <1>7 DEF b, part

(* The parts of the embedding: all but that of one rank are zero.           *)
LEMMA EmbeddingParts ==
    ASSUME NEW w \in Nat \ {0}, NEW d \in Nat \ {0}, NEW n, n = w * d,
           NEW hidden \in Nat, NEW weight \in Tensor(n, hidden), NEW id \in 0 .. n - 1,
           NEW h \in 0 .. hidden - 1,
           NEW part, part = EmbeddingRows(weight, id, n, h, w)
    PROVE  Total(w, part) = weight[id][h] /\ part \in Numbers(w)
<1>0. part = [r \in 0 .. w - 1 |-> VocabParallelEmbedding(weight, id, n, r, w)[h]]
  BY DEF EmbeddingRows
<1>1. n \in Nat
  <2>1. \A a, c \in Nat : a * c \in Nat OBVIOUS
  <2> QED BY <2>1
<1>2. /\ \A j \in 0 .. n - 1 : weight[j][h] \in Int
      /\ DOMAIN weight[id] = 0 .. hidden - 1
  BY DEF Tensor
<1> DEFINE s == id \div d
<1>3. s \in 0 .. w - 1 /\ s \in Nat /\ id % d \in 0 .. d - 1 /\ id = s * d + (id % d)
  <2>1. id \in Nat /\ id \in 0 .. w * d - 1 BY <1>1
  <2> QED BY <2>1, Split, SplitBelow
<1>4. CASE w = 1
  <2>1. s = 0 /\ 0 \in 0 .. w - 1 BY <1>3, <1>4
  <2>2. part[0] = weight[id][h] BY <1>0, <1>4, <2>1 DEF VocabParallelEmbedding
  <2>3. part \in Numbers(w)
    <3>1. \A r \in 0 .. w - 1 : r = 0 BY <1>4
    <3>2. part[0] \in Int BY <1>2, <2>2
    <3> QED BY <1>0, <3>1, <3>2 DEF Numbers
  <2>4. \A k \in 0 .. w - 1 : k # 0 => part[k] = 0 BY <1>4
  <2>5. Total(w, part) = part[0]
    <3>1. part \in [0 .. w - 1 -> Int] BY <2>3 DEF Numbers
    <3>2. 0 \in 0 .. w - 1 /\ w \in Nat BY <2>1
    <3> QED BY <2>4, <3>1, <3>2, TotalOfOne
  <2> QED BY <2>2, <2>3, <2>5
<1>5. CASE w # 1
  <2>1. ASSUME NEW r \in 0 .. w - 1
        PROVE  part[r] = (IF r = s THEN weight[id][h] ELSE 0)
    <3> DEFINE a == r * d
               local_id == id - a
               rows == Shard(n, r, w)
    <3>1. /\ rows = [i \in 0 .. d - 1 |-> a + i] /\ PerRank(n, w) = d
          /\ a \in Nat /\ \A i \in 0 .. d - 1 : a + i \in 0 .. n - 1
      <4>1. Sharded(n, w, d) BY DEF Sharded
      <4>2. ShardOf(n, w, d, r) BY <4>1, ShardIs
      <4> QED BY <4>2 DEF ShardOf
    <3> DEFINE clamped == IF local_id < 0 THEN 0
                          ELSE IF local_id \in 0 .. d - 1 THEN local_id
                          ELSE d - 1
    <3>2. part[r] = (IF local_id \in 0 .. d - 1 THEN 1 ELSE 0) * weight[rows[clamped]][h]
      <4>1. DOMAIN rows = 0 .. d - 1 BY <3>1
      <4>2. part[r] = VocabParallelEmbedding(weight, id, n, r, w)[h] BY <1>0
      <4> QED BY <1>2, <1>5, <3>1, <4>1, <4>2 DEF VocabParallelEmbedding
    <3>3. clamped \in 0 .. d - 1 OBVIOUS
    <3>4. rows[clamped] = a + clamped /\ weight[rows[clamped]][h] \in Int
      <4> HIDE DEF clamped, a
      <4> QED BY <1>2, <3>1, <3>3
    <3>5. local_id \in 0 .. d - 1 <=> r = s
      <4>1. ASSUME local_id \in 0 .. d - 1 PROVE r = s
        <5>1. PICK i \in 0 .. d - 1 : i = local_id BY <4>1
        <5>2. id = r * d + i BY <3>1, <5>1
        <5>3. r \in Nat OBVIOUS
        <5> QED BY <5>2, <5>3, Quotient
      <4>2. ASSUME r = s PROVE local_id \in 0 .. d - 1
        <5>1. PICK i \in 0 .. d - 1 : i = id % d BY <1>3
        <5>2. id = a + i BY <1>3, <4>2, <5>1
        <5> HIDE DEF a
        <5>3. id - a = i BY <3>1, <5>2
        <5> QED BY <5>3
      <4> QED BY <4>1, <4>2
    <3>6. CASE r = s
      <4>1. local_id \in 0 .. d - 1 /\ clamped = local_id BY <3>5, <3>6
      <4> DEFINE v == weight[rows[clamped]][h]
      <4>2. part[r] = 1 * v /\ v \in Int BY <3>2, <3>4, <4>1
      <4>3. v = weight[id][h]
        <5> HIDE DEF a
        <5>1. a + local_id = id BY <3>1
        <5> QED BY <3>4, <4>1, <5>1
      <4> HIDE DEF v
      <4>4. part[r] = v BY <4>2
      <4> QED BY <3>6, <4>3, <4>4
    <3>7. CASE r # s
      <4> DEFINE v == weight[rows[clamped]][h]
      <4>1. part[r] = 0 * v /\ v \in Int BY <3>2, <3>4, <3>5, <3>7
      <4> HIDE DEF v
      <4>2. part[r] = 0 BY <4>1
      <4> QED BY <3>7, <4>2
    <3> QED BY <3>6, <3>7
  <2>2. part \in Numbers(w)
    <3>1. \A r \in 0 .. w - 1 : part[r] \in Int BY <1>2, <2>1
    <3> QED BY <1>0, <3>1 DEF Numbers
  <2>3. Total(w, part) = part[s]
    <3>1. \A k \in 0 .. w - 1 : k # s => part[k] = 0 BY <2>1
    <3> HIDE DEF s
    <3> QED BY <1>3, <2>2, <3>1, TotalOfOne DEF Numbers
  <2> QED BY <1>3, <2>1, <2>2, <2>3
<1> QED BY <1>4, <1>5

-----------------------------------------------------------------------------
(* The merged parameters.                                                   *)

NoRow == <<"none", 0>>

(* A parameter of which the tensors in S are loaded.                        *)
With(rows, S) == [j \in DOMAIN rows |-> IF rows[j][1] \in S THEN rows[j] ELSE NoRow]

PartlyLoaded(param, rows, ids) == \E S \in SUBSET ids : param = With(rows, S)

(* The rows of rank r of w, with q query and kv key heads each.             *)
QKVRows(r, q, kv) ==
    [j \in 0 .. q + 2 * kv - 1 |->
        IF j < q THEN <<"q", r * q + j>>
        ELSE IF j < q + kv THEN <<"k", r * kv + (j - q)>>
        ELSE <<"v", r * kv + (j - (q + kv))>>]

GateUpRows(r, d) ==
    [j \in 0 .. 2 * d - 1 |->
        IF j < d THEN <<"gate", r * d + j>> ELSE <<"up", r * d + (j - d)>>]

QKV == {"q", "k", "v"}
GateUp == {"gate", "up"}

(* Where the rows of a tensor are in a merged parameter.                    *)
Placed(rows, id, offset, shard) ==
    \A j \in DOMAIN rows :
        /\ (j - offset \in DOMAIN shard) <=> (rows[j][1] = id)
        /\ j - offset \in DOMAIN shard => rows[j] = <<id, shard[j - offset]>>

LEMMA CopiedIs ==
    ASSUME NEW rows, NEW S, NEW id, NEW offset, NEW shard, Placed(rows, id, offset, shard)
    PROVE  Copied(With(rows, S), id, offset, shard) = With(rows, S \cup {id})
<1>1. DOMAIN With(rows, S) = DOMAIN rows BY DEF With
<1>2. \A j \in DOMAIN rows :
          (IF j - offset \in DOMAIN shard THEN <<id, shard[j - offset]>> ELSE With(rows, S)[j])
              = (IF rows[j][1] \in S \cup {id} THEN rows[j] ELSE NoRow)
  BY DEF With, Placed
<1> QED BY <1>1, <1>2 DEF Copied, With

(* The loader of a tensor leaves what was loaded before.                    *)
LEMMA LoadedMore ==
    ASSUME NEW rows, NEW ids, NEW param, PartlyLoaded(param, rows, ids), NEW id \in ids,
           NEW offset, NEW shard, Placed(rows, id, offset, shard)
    PROVE  PartlyLoaded(Copied(param, id, offset, shard), rows, ids)
<1>1. PICK S \in SUBSET ids : param = With(rows, S) BY DEF PartlyLoaded
<1>2. Copied(param, id, offset, shard) = With(rows, S \cup {id}) BY <1>1, CopiedIs
<1>3. S \cup {id} \in SUBSET ids OBVIOUS
<1> QED BY <1>2, <1>3 DEF PartlyLoaded

(* Who has a row of each tensor has them all.                               *)
LEMMA LoadedAll ==
    ASSUME NEW rows, NEW ids, NEW param, PartlyLoaded(param, rows, ids), "none" \notin ids,
           \A j \in DOMAIN rows : rows[j][1] \in ids, \A id \in ids : Loaded(param, id)
    PROVE  param = [j \in DOMAIN rows |-> rows[j]]
<1>1. PICK S \in SUBSET ids : param = With(rows, S) BY DEF PartlyLoaded
<1>2. ASSUME NEW id \in ids PROVE id \in S
  <2>1. PICK j \in DOMAIN param : param[j][1] = id BY DEF Loaded
  <2>2. j \in DOMAIN rows /\ param[j] = IF rows[j][1] \in S THEN rows[j] ELSE NoRow
    BY <1>1, <2>1 DEF With
  <2>3. NoRow[1] = "none" BY DEF NoRow
  <2> QED BY <2>1, <2>2, <2>3
<1>3. \A j \in DOMAIN rows : rows[j][1] \in S BY <1>2
<1> QED BY <1>1, <1>3 DEF With

LEMMA QKVPlaced ==
    ASSUME NEW w, NEW q, NEW kv, Sharded(num_heads, w, q), Sharded(num_kv_heads, w, kv),
           NEW r \in 0 .. w - 1, NEW id \in QKV
    PROVE  Placed(QKVRows(r, q, kv), id, QKVOffset(id, num_heads, num_kv_heads, w),
                  Shard(IF id = "q" THEN num_heads ELSE num_kv_heads, r, w))
<1> DEFINE a == r * q
           b == r * kv
           rows == QKVRows(r, q, kv)
<1>1. ShardOf(num_heads, w, q, r) /\ ShardOf(num_kv_heads, w, kv, r) BY ShardIs
<1>2. /\ q \in Nat \ {0} /\ kv \in Nat \ {0} /\ a \in Nat /\ b \in Nat
      /\ PerRank(num_heads, w) = q /\ PerRank(num_kv_heads, w) = kv
      /\ Shard(num_heads, r, w) = [i \in 0 .. q - 1 |-> a + i]
      /\ Shard(num_kv_heads, r, w) = [i \in 0 .. kv - 1 |-> b + i]
  BY <1>1 DEF ShardOf, Sharded
<1>3. rows = [j \in 0 .. q + 2 * kv - 1 |->
                 IF j < q THEN <<"q", a + j>>
                 ELSE IF j < q + kv THEN <<"k", b + (j - q)>>
                 ELSE <<"v", b + (j - (q + kv))>>]
  BY DEF QKVRows
<1> HIDE DEF rows, a, b
<1>4. CASE id = "q"
  <2>1. QKVOffset(id, num_heads, num_kv_heads, w) = 0 BY <1>4 DEF QKVOffset
  <2>2. Placed(rows, "q", 0, Shard(num_heads, r, w)) BY <1>2, <1>3 DEF Placed
  <2> QED BY <1>4, <2>1, <2>2 DEF rows
<1>5. CASE id = "k"
  <2>1. QKVOffset(id, num_heads, num_kv_heads, w) = q BY <1>2, <1>5 DEF QKVOffset
  <2>2. Placed(rows, "k", q, Shard(num_kv_heads, r, w)) BY <1>2, <1>3 DEF Placed
  <2> QED BY <1>5, <2>1, <2>2 DEF rows
<1>6. CASE id = "v"
  <2>1. QKVOffset(id, num_heads, num_kv_heads, w) = q + kv BY <1>2, <1>6 DEF QKVOffset
  <2>2. Placed(rows, "v", q + kv, Shard(num_kv_heads, r, w)) BY <1>2, <1>3 DEF Placed
  <2> QED BY <1>6, <2>1, <2>2 DEF rows
<1> QED BY <1>4, <1>5, <1>6 DEF QKV

LEMMA GateUpPlaced ==
    ASSUME NEW w, NEW d, Sharded(intermediate_size, w, d),
           NEW r \in 0 .. w - 1, NEW id \in GateUp
    PROVE  Placed(GateUpRows(r, d), id, GateUpOffset(id, intermediate_size, w),
                  Shard(intermediate_size, r, w))
<1> DEFINE a == r * d
           rows == GateUpRows(r, d)
<1>1. ShardOf(intermediate_size, w, d, r) BY ShardIs
<1>2. /\ d \in Nat \ {0} /\ a \in Nat /\ PerRank(intermediate_size, w) = d
      /\ Shard(intermediate_size, r, w) = [i \in 0 .. d - 1 |-> a + i]
  BY <1>1 DEF ShardOf, Sharded
<1>3. rows = [j \in 0 .. 2 * d - 1 |->
                 IF j < d THEN <<"gate", a + j>> ELSE <<"up", a + (j - d)>>]
  BY DEF GateUpRows
<1> HIDE DEF rows, a
<1>4. CASE id = "gate"
  <2>1. GateUpOffset(id, intermediate_size, w) = 0 BY <1>4 DEF GateUpOffset
  <2>2. Placed(rows, "gate", 0, Shard(intermediate_size, r, w)) BY <1>2, <1>3 DEF Placed
  <2> QED BY <1>4, <2>1, <2>2 DEF rows
<1>5. CASE id = "up"
  <2>1. GateUpOffset(id, intermediate_size, w) = d BY <1>2, <1>5 DEF GateUpOffset
  <2>2. Placed(rows, "up", d, Shard(intermediate_size, r, w)) BY <1>2, <1>3 DEF Placed
  <2> QED BY <1>5, <2>1, <2>2 DEF rows
<1> QED BY <1>4, <1>5 DEF GateUp

-----------------------------------------------------------------------------
(* What the unsharded decoder has before each stage, from the token id.      *)

IntegerActivations ==
    /\ \A q, k, v \in Int : Attend(q, k, v) \in Int
    /\ \A gate, up \in Int : Activate(gate, up) \in Int

GroupSize == num_heads \div num_kv_heads

Embedded(id) == Weight.embed[id]

HeadValue(h, id) ==
    Attend(Dot(Weight.q[h], Embedded(id)), Dot(Weight.k[h \div GroupSize], Embedded(id)),
           Dot(Weight.v[h \div GroupSize], Embedded(id)))
Heads(id) == [h \in 0 .. num_heads - 1 |-> HeadValue(h, id)]
Attended(id) == [o \in 0 .. hidden_size - 1 |-> Dot(Weight.o[o], Heads(id)) + Bias.o[o]]

Activation(i, id) == Activate(Dot(Weight.gate[i], Attended(id)), Dot(Weight.up[i], Attended(id)))
Activated(id) == [i \in 0 .. intermediate_size - 1 |-> Activation(i, id)]
Transformed(id) ==
    [o \in 0 .. hidden_size - 1 |-> Dot(Weight.down[o], Activated(id)) + Bias.down[o]]

Logits(id) == [o \in 0 .. vocab_size - 1 |-> Dot(Weight.lm_head[o], Transformed(id))]

ValueAt(s, id) ==
    CASE s = "attention" -> Embedded(id)
      [] s = "mlp" -> Attended(id)
      [] s = "lm_head" -> Transformed(id)
      [] s = "logits" -> Logits(id)

SizesOK(id) ==
    /\ vocab_size \in Nat /\ hidden_size \in Nat /\ intermediate_size \in Nat
    /\ num_heads \in Nat /\ num_kv_heads \in Nat
    /\ id \in 0 .. vocab_size - 1

LEMMA RowOf ==
    ASSUME NEW rows \in Nat, NEW columns \in Nat, NEW weight \in Tensor(rows, columns),
           NEW o \in 0 .. rows - 1
    PROVE  weight[o] \in Numbers(columns)
BY DEF Tensor, Numbers

LEMMA DotIsInt ==
    ASSUME NEW rows \in Nat, NEW columns \in Nat, NEW weight \in Tensor(rows, columns),
           NEW o \in 0 .. rows - 1, NEW y \in Numbers(columns)
    PROVE  Dot(weight[o], y) \in Int
BY RowOf, DotIs

(* One key and value head for each group of query heads.                    *)
LEMMA Groups ==
    ASSUME Divides(num_kv_heads, num_heads), num_heads \in Nat, num_kv_heads \in Nat
    PROVE  /\ GroupSize \in Nat \ {0} /\ num_kv_heads \in Nat \ {0}
           /\ num_heads = num_kv_heads * GroupSize
           /\ \A h \in 0 .. num_heads - 1 : h \div GroupSize \in 0 .. num_kv_heads - 1
<1>1. PICK k \in 1 .. num_heads : num_kv_heads * k = num_heads BY DEF Divides
<1>2. num_kv_heads # 0
  <2>1. \A i \in Int : 0 * i = 0 OBVIOUS
  <2>2. k \in Int /\ num_heads # 0 BY <1>1
  <2> QED BY <1>1, <2>1, <2>2
<1>3. num_kv_heads \in Nat \ {0} BY <1>2
<1>4. GroupSize = PerRank(num_heads, num_kv_heads) BY DEF GroupSize, PerRank
<1>5. GroupSize \in Nat \ {0} /\ num_heads = num_kv_heads * GroupSize
  BY <1>3, <1>4, Shares
<1>6. ASSUME NEW h \in 0 .. num_heads - 1 PROVE h \div GroupSize \in 0 .. num_kv_heads - 1
  BY <1>3, <1>5, SplitBelow
<1> QED BY <1>3, <1>5, <1>6

LEMMA ValuesAreInt ==
    ASSUME IntegerActivations, NEW id, SizesOK(id)
    PROVE  /\ Embedded(id) \in Numbers(hidden_size)
           /\ Heads(id) \in Numbers(num_heads)
           /\ Attended(id) \in Numbers(hidden_size)
           /\ Activated(id) \in Numbers(intermediate_size)
           /\ Transformed(id) \in Numbers(hidden_size)
           /\ Logits(id) \in Numbers(vocab_size)
<1>0. /\ vocab_size \in Nat /\ hidden_size \in Nat /\ intermediate_size \in Nat
      /\ num_heads \in Nat /\ num_kv_heads \in Nat /\ id \in 0 .. vocab_size - 1
  BY DEF SizesOK
<1>1. Embedded(id) \in Numbers(hidden_size) BY <1>0, RowOf, TensorAssumption DEF Embedded
<1>2. Heads(id) \in Numbers(num_heads)
  <2> SUFFICES ASSUME NEW h \in 0 .. num_heads - 1 PROVE HeadValue(h, id) \in Int
    BY DEF Heads, Numbers
  <2> DEFINE g == h \div GroupSize
  <2>1. g \in 0 .. num_kv_heads - 1 BY <1>0, Groups, TensorParallelAssumption
  <2> HIDE DEF g
  <2>2. /\ Dot(Weight.q[h], Embedded(id)) \in Int /\ Dot(Weight.k[g], Embedded(id)) \in Int
        /\ Dot(Weight.v[g], Embedded(id)) \in Int
    BY <1>0, <1>1, <2>1, DotIsInt, TensorAssumption
  <2> QED BY <2>2 DEF HeadValue, g, IntegerActivations
<1>3. Attended(id) \in Numbers(hidden_size)
  <2> SUFFICES ASSUME NEW o \in 0 .. hidden_size - 1
               PROVE  Dot(Weight.o[o], Heads(id)) + Bias.o[o] \in Int
    BY DEF Attended, Numbers
  <2>1. Dot(Weight.o[o], Heads(id)) \in Int BY <1>0, <1>2, DotIsInt, TensorAssumption
  <2>2. Bias.o[o] \in Int BY TensorAssumption
  <2> QED BY <2>1, <2>2
<1>4. Activated(id) \in Numbers(intermediate_size)
  <2> SUFFICES ASSUME NEW i \in 0 .. intermediate_size - 1 PROVE Activation(i, id) \in Int
    BY DEF Activated, Numbers
  <2>1. Dot(Weight.gate[i], Attended(id)) \in Int /\ Dot(Weight.up[i], Attended(id)) \in Int
    BY <1>0, <1>3, DotIsInt, TensorAssumption
  <2> QED BY <2>1 DEF Activation, IntegerActivations
<1>5. Transformed(id) \in Numbers(hidden_size)
  <2> SUFFICES ASSUME NEW o \in 0 .. hidden_size - 1
               PROVE  Dot(Weight.down[o], Activated(id)) + Bias.down[o] \in Int
    BY DEF Transformed, Numbers
  <2>1. Dot(Weight.down[o], Activated(id)) \in Int BY <1>0, <1>4, DotIsInt, TensorAssumption
  <2>2. Bias.down[o] \in Int BY TensorAssumption
  <2> QED BY <2>1, <2>2
<1>6. Logits(id) \in Numbers(vocab_size)
  <2> SUFFICES ASSUME NEW o \in 0 .. vocab_size - 1
               PROVE  Dot(Weight.lm_head[o], Transformed(id)) \in Int
    BY DEF Logits, Numbers
  <2> QED BY <1>0, <1>5, DotIsInt, TensorAssumption
<1> QED BY <1>1, <1>2, <1>3, <1>4, <1>5, <1>6

(* Without a bias, adding zero changes nothing.                             *)
Product(rows, weight, y) == [o \in 0 .. rows - 1 |-> Dot(weight[o], y)]

LEMMA FullWithout ==
    ASSUME NEW rows \in Nat, NEW columns \in Nat, NEW weight \in Tensor(rows, columns),
           NEW y \in Numbers(columns)
    PROVE  Full(weight, NoBias(weight), y) = Product(rows, weight, y)
<1>1. DOMAIN weight = 0 .. rows - 1 BY DEF Tensor
<1>2. ASSUME NEW o \in 0 .. rows - 1 PROVE Dot(weight[o], y) + 0 = Dot(weight[o], y)
  BY DotIsInt
<1> QED BY <1>1, <1>2 DEF Full, NoBias, Product

LEMMA ReferenceIs ==
    ASSUME IntegerActivations, NEW id, id = input_id, SizesOK(id)
    PROVE  Reference = Logits(id)
<1> DEFINE Linear(name, input) == Full(Weight[name], NoBias(Weight[name]), input)
           q == Linear("q", Embedded(id))
           k == Linear("k", Embedded(id))
           v == Linear("v", Embedded(id))
           group == [h \in DOMAIN q |-> h \div (num_heads \div num_kv_heads)]
           heads == [h \in DOMAIN q |-> Attend(q[h], k[group[h]], v[group[h]])]
           attended == Full(Weight.o, Bias.o, heads)
           gate == Linear("gate", attended)
           up == Linear("up", attended)
           activated == [i \in DOMAIN gate |-> Activate(gate[i], up[i])]
           transformed == Full(Weight.down, Bias.down, activated)
<1>0. /\ vocab_size \in Nat /\ hidden_size \in Nat /\ intermediate_size \in Nat
      /\ num_heads \in Nat /\ num_kv_heads \in Nat /\ id \in 0 .. vocab_size - 1
  BY DEF SizesOK
<1>1. Reference = Linear("lm_head", transformed) BY DEF Reference, Embedded
<1>2. /\ q = [h \in 0 .. num_heads - 1 |-> Dot(Weight.q[h], Embedded(id))]
      /\ k = [h \in 0 .. num_kv_heads - 1 |-> Dot(Weight.k[h], Embedded(id))]
      /\ v = [h \in 0 .. num_kv_heads - 1 |-> Dot(Weight.v[h], Embedded(id))]
  <2>1. Linear("q", Embedded(id)) = Product(num_heads, Weight.q, Embedded(id))
    BY <1>0, ValuesAreInt, FullWithout, TensorAssumption
  <2>2. Linear("k", Embedded(id)) = Product(num_kv_heads, Weight.k, Embedded(id))
    BY <1>0, ValuesAreInt, FullWithout, TensorAssumption
  <2>3. Linear("v", Embedded(id)) = Product(num_kv_heads, Weight.v, Embedded(id))
    BY <1>0, ValuesAreInt, FullWithout, TensorAssumption
  <2> HIDE DEF Linear
  <2> QED BY <2>1, <2>2, <2>3 DEF Product
<1>3. heads = Heads(id)
  <2> HIDE DEF q, k, v
  <2>1. DOMAIN q = 0 .. num_heads - 1 BY <1>2
  <2>2. ASSUME NEW h \in 0 .. num_heads - 1
        PROVE  Attend(q[h], k[group[h]], v[group[h]]) = HeadValue(h, id)
    <3>1. group[h] = h \div GroupSize BY <2>1 DEF GroupSize
    <3>2. h \div GroupSize \in 0 .. num_kv_heads - 1
      BY <1>0, Groups, TensorParallelAssumption
    <3> QED BY <1>2, <3>1, <3>2 DEF HeadValue
  <2> HIDE DEF group
  <2> QED BY <2>1, <2>2 DEF Heads
<1>4. attended = Attended(id)
  <2> HIDE DEF heads
  <2>1. DOMAIN Weight.o = 0 .. hidden_size - 1 BY TensorAssumption DEF Tensor
  <2> QED BY <1>3, <2>1 DEF Full, Attended
<1>5. /\ gate = [i \in 0 .. intermediate_size - 1 |-> Dot(Weight.gate[i], Attended(id))]
      /\ up = [i \in 0 .. intermediate_size - 1 |-> Dot(Weight.up[i], Attended(id))]
  <2>1. Linear("gate", Attended(id)) = Product(intermediate_size, Weight.gate, Attended(id))
    BY <1>0, ValuesAreInt, FullWithout, TensorAssumption
  <2>2. Linear("up", Attended(id)) = Product(intermediate_size, Weight.up, Attended(id))
    BY <1>0, ValuesAreInt, FullWithout, TensorAssumption
  <2> HIDE DEF attended, Linear
  <2> QED BY <1>4, <2>1, <2>2 DEF Product
<1>6. activated = Activated(id)
  <2> HIDE DEF gate, up
  <2> QED BY <1>5 DEF Activated, Activation
<1>7. transformed = Transformed(id)
  <2> HIDE DEF activated
  <2>1. DOMAIN Weight.down = 0 .. hidden_size - 1 BY TensorAssumption DEF Tensor
  <2> QED BY <1>6, <2>1 DEF Full, Transformed
<1>8. Linear("lm_head", transformed) = Logits(id)
  <2>1. Linear("lm_head", Transformed(id)) = Product(vocab_size, Weight.lm_head, Transformed(id))
    BY <1>0, ValuesAreInt, FullWithout, TensorAssumption
  <2> HIDE DEF transformed, Linear
  <2> QED BY <1>7, <2>1 DEF Logits, Product
<1> QED BY <1>1, <1>8

-----------------------------------------------------------------------------
(* What a rank of w computes at a stage.                                    *)

Stages == {"embed", "attention", "mlp", "lm_head"}

PartAt(s, r, w, id) ==
    CASE s = "embed" -> VocabParallelEmbedding(Weight.embed, id, vocab_size, r, w)
      [] s = "attention" ->
            RowParallelLinear(Weight.o, Bias.o, num_heads,
                              PartOf(Heads(id), r, PerRank(num_heads, w)), r, w)
      [] s = "mlp" ->
            RowParallelLinear(Weight.down, Bias.down, intermediate_size,
                              PartOf(Activated(id), r, PerRank(intermediate_size, w)), r, w)
      [] s = "lm_head" -> PartOf(Logits(id), r, PerRank(vocab_size, w))

LEMMA WorldShards ==
    ASSUME NEW w \in WorldSizes
    PROVE  /\ w \in Nat \ {0}
           /\ \A n \in {vocab_size, num_heads, num_kv_heads, intermediate_size} :
                  n \in Nat /\ Sharded(n, w, PerRank(n, w))
<1>1. w \in Nat \ {0} BY TensorParallelAssumption
<1>2. ASSUME NEW n \in {vocab_size, num_heads, num_kv_heads, intermediate_size}
      PROVE  n \in Nat /\ Sharded(n, w, PerRank(n, w))
  <2>1. n \in Nat /\ Divides(w, n) BY TensorParallelAssumption
  <2> QED BY <1>1, <2>1, Shares DEF Sharded
<1> QED BY <1>1, <1>2

(* The groups of a rank's query heads are those of the whole.               *)
LEMMA GroupsOfRank ==
    ASSUME NEW w \in Nat \ {0}, NEW q \in Nat \ {0}, NEW kv \in Nat \ {0}, NEW g \in Nat \ {0},
           w * q = (w * kv) * g, NEW r \in Nat, NEW h \in 0 .. q - 1
    PROVE  /\ q \div kv = g /\ h \div g \in 0 .. kv - 1
           /\ (r * q + h) \div g = r * kv + (h \div g)
<1>1. q = kv * g
  <2>1. \A a, b \in Nat : a * b \in Nat OBVIOUS
  <2>2. PICK p \in Nat : p = kv * g BY <2>1
  <2>3. (w * kv) * g = w * p BY <2>2
  <2>4. w * (q - p) = 0 BY <2>2, <2>3
  <2>5. \A a \in Nat \ {0}, b \in Int : a * b = 0 => b = 0 OBVIOUS
  <2>6. q - p \in Int BY <2>2
  <2>7. q - p = 0 BY <2>4, <2>5, <2>6
  <2> QED BY <2>2, <2>7
<1>2. q \div kv = g
  <2>1. q = g * kv + 0 /\ 0 \in 0 .. kv - 1 BY <1>1
  <2> QED BY <2>1, Quotient
<1>3. /\ h \div g \in 0 .. kv - 1 /\ h % g \in 0 .. g - 1
      /\ h = (h \div g) * g + (h % g)
  <2>1. h \in Nat /\ h \in 0 .. kv * g - 1 BY <1>1
  <2> QED BY <2>1, Split, SplitBelow
<1>4. PICK m \in Nat, i \in 0 .. g - 1 : m = h \div g /\ h = m * g + i BY <1>3
<1>5. r * q + h = (r * kv + m) * g + i
  <2>1. r * q = (r * kv) * g BY <1>1
  <2>2. (r * kv + m) * g = (r * kv) * g + m * g OBVIOUS
  <2>3. r * kv \in Nat /\ m * g \in Nat /\ (r * kv) * g \in Nat /\ i \in Nat
    <3>1. \A a, b \in Nat : a * b \in Nat OBVIOUS
    <3>2. r * kv \in Nat /\ m * g \in Nat BY <3>1
    <3> QED BY <3>1, <3>2
  <2> QED BY <1>4, <2>1, <2>2, <2>3
<1>6. r * kv + m \in Nat
  <2>1. \A a, b \in Nat : a * b \in Nat OBVIOUS
  <2> QED BY <2>1
<1>7. (r * q + h) \div g = r * kv + m
  <2> DEFINE z == r * kv + m
  <2>1. z \in Nat /\ r * q + h = z * g + i BY <1>5, <1>6
  <2> HIDE DEF z
  <2>2. (r * q + h) \div g = z BY <2>1, Quotient
  <2> QED BY <2>2 DEF z
<1> QED BY <1>2, <1>3, <1>4, <1>7

(* The attention of a rank is its slice of the whole.                       *)
LEMMA AttentionIs ==
    ASSUME NEW id, NEW w, NEW q, NEW kv, num_heads \in Nat, num_kv_heads \in Nat,
           Sharded(num_heads, w, q), Sharded(num_kv_heads, w, kv), NEW r \in 0 .. w - 1
    PROVE  Attention(MergedLinear(Weight, QKVRows(r, q, kv), Embedded(id)), w)
               = PartOf(Heads(id), r, q)
<1> DEFINE rows == QKVRows(r, q, kv)
           qkv == MergedLinear(Weight, rows, Embedded(id))
           a == r * q
           b == r * kv
<1>1. /\ w \in Nat \ {0} /\ q \in Nat \ {0} /\ kv \in Nat \ {0}
      /\ num_heads = w * q /\ num_kv_heads = w * kv
      /\ PerRank(num_heads, w) = q /\ PerRank(num_kv_heads, w) = kv
      /\ a \in Nat /\ b \in Nat /\ \A h \in 0 .. q - 1 : a + h \in 0 .. num_heads - 1
  <2>1. ShardOf(num_heads, w, q, r) /\ ShardOf(num_kv_heads, w, kv, r) BY ShardIs
  <2> QED BY <2>1 DEF ShardOf, Sharded
<1>2. /\ GroupSize \in Nat \ {0} /\ num_heads = num_kv_heads * GroupSize
  BY Groups, TensorParallelAssumption
<1>3. \A j \in 0 .. q + 2 * kv - 1 : qkv[j] = Dot(Weight[rows[j][1]][rows[j][2]], Embedded(id))
  <2>1. DOMAIN rows = 0 .. q + 2 * kv - 1 BY DEF QKVRows
  <2> HIDE DEF rows
  <2> QED BY <2>1 DEF MergedLinear
<1>4. ASSUME NEW h \in 0 .. q - 1
      PROVE  LET group == h \div (q \div kv) IN
             Attend(qkv[h], qkv[q + group], qkv[q + kv + group]) = HeadValue(a + h, id)
  <2>1. /\ q \div kv = GroupSize /\ h \div GroupSize \in 0 .. kv - 1
        /\ (a + h) \div GroupSize = b + (h \div GroupSize)
    <3>1. r \in Nat OBVIOUS
    <3>2. w * q = (w * kv) * GroupSize BY <1>1, <1>2
    <3> QED BY <1>1, <1>2, <3>1, <3>2, GroupsOfRank
  <2>2. PICK m \in 0 .. kv - 1 : m = h \div GroupSize BY <2>1
  <2>3. rows[h] = <<"q", a + h>> /\ h \in 0 .. q + 2 * kv - 1
    <3> HIDE DEF a
    <3>1. a + h = r * q + h BY DEF a
    <3> QED BY <1>1, <3>1 DEF QKVRows
  <2>4. rows[q + m] = <<"k", b + m>> /\ q + m \in 0 .. q + 2 * kv - 1
    <3> DEFINE j == q + m
    <3>1. j \in 0 .. q + 2 * kv - 1 /\ ~(j < q) /\ j < q + kv /\ j - q = m BY <1>1
    <3> HIDE DEF j
    <3>2. rows[j] = <<"k", b + (j - q)>> BY <3>1 DEF QKVRows
    <3> QED BY <3>1, <3>2 DEF j
  <2>5. rows[q + kv + m] = <<"v", b + m>> /\ q + kv + m \in 0 .. q + 2 * kv - 1
    <3> DEFINE j == q + kv + m
    <3>1. j \in 0 .. q + 2 * kv - 1 /\ ~(j < q) /\ ~(j < q + kv) /\ j - (q + kv) = m BY <1>1
    <3> HIDE DEF j
    <3>2. rows[j] = <<"v", b + (j - (q + kv))>> BY <3>1 DEF QKVRows
    <3> QED BY <3>1, <3>2 DEF j
  <2> HIDE DEF rows, qkv, a, b
  <2>6. /\ qkv[h] = Dot(Weight.q[a + h], Embedded(id))
        /\ qkv[q + m] = Dot(Weight.k[b + m], Embedded(id))
        /\ qkv[q + kv + m] = Dot(Weight.v[b + m], Embedded(id))
    BY <1>3, <2>3, <2>4, <2>5
  <2>7. (a + h) \div GroupSize = b + m BY <2>1, <2>2
  <2> QED BY <2>1, <2>2, <2>6, <2>7 DEF HeadValue
<1>5. \A h \in 0 .. q - 1 : Heads(id)[a + h] = HeadValue(a + h, id) BY <1>1 DEF Heads
<1> HIDE DEF qkv
<1>6. Attention(qkv, w) = [h \in 0 .. q - 1 |->
                              LET group == h \div (q \div kv) IN
                              Attend(qkv[h], qkv[q + group], qkv[q + kv + group])]
  BY <1>1 DEF Attention
<1>7. PartOf(Heads(id), r, q) = [h \in 0 .. q - 1 |-> HeadValue(a + h, id)] BY <1>5 DEF PartOf
<1> QED BY <1>4, <1>6, <1>7 DEF qkv

LEMMA GatedIs ==
    ASSUME NEW id, NEW w, NEW d, Sharded(intermediate_size, w, d), NEW r \in 0 .. w - 1
    PROVE  GatedAct(MergedLinear(Weight, GateUpRows(r, d), Attended(id)), d)
               = PartOf(Activated(id), r, d)
<1> DEFINE rows == GateUpRows(r, d)
           y == MergedLinear(Weight, rows, Attended(id))
           a == r * d
<1>1. d \in Nat \ {0} /\ a \in Nat /\ \A i \in 0 .. d - 1 : a + i \in 0 .. intermediate_size - 1
  <2>1. ShardOf(intermediate_size, w, d, r) BY ShardIs
  <2> QED BY <2>1 DEF ShardOf, Sharded
<1>2. \A j \in 0 .. 2 * d - 1 : y[j] = Dot(Weight[rows[j][1]][rows[j][2]], Attended(id))
  <2>1. DOMAIN rows = 0 .. 2 * d - 1 BY DEF GateUpRows
  <2> HIDE DEF rows
  <2> QED BY <2>1 DEF MergedLinear
<1>3. ASSUME NEW i \in 0 .. d - 1 PROVE Activate(y[i], y[d + i]) = Activation(a + i, id)
  <2>1. rows[i] = <<"gate", a + i>> /\ i \in 0 .. 2 * d - 1 BY <1>1 DEF GateUpRows
  <2>2. rows[d + i] = <<"up", a + i>> /\ d + i \in 0 .. 2 * d - 1
    <3> DEFINE j == d + i
    <3>1. j \in 0 .. 2 * d - 1 /\ ~(j < d) /\ j - d = i BY <1>1
    <3> HIDE DEF j
    <3>2. rows[j] = <<"up", a + (j - d)>> BY <3>1 DEF GateUpRows
    <3> QED BY <3>1, <3>2 DEF j
  <2> HIDE DEF rows, y, a
  <2> QED BY <1>2, <2>1, <2>2 DEF Activation
<1>4. \A i \in 0 .. d - 1 : Activated(id)[a + i] = Activation(a + i, id) BY <1>1 DEF Activated
<1> HIDE DEF y
<1> QED BY <1>3, <1>4 DEF GatedAct, PartOf, y

LEMMA ColumnsAre ==
    ASSUME NEW id, NEW w, NEW d, Sharded(vocab_size, w, d), NEW r \in 0 .. w - 1
    PROVE  ColumnParallelLinear(Weight.lm_head, Shard(vocab_size, r, w), Transformed(id))
               = PartOf(Logits(id), r, d)
<1> DEFINE a == r * d
           rows == Shard(vocab_size, r, w)
<1>1. /\ d \in Nat \ {0} /\ a \in Nat /\ rows = [i \in 0 .. d - 1 |-> a + i]
      /\ \A i \in 0 .. d - 1 : a + i \in 0 .. vocab_size - 1
  <2>1. ShardOf(vocab_size, w, d, r) BY ShardIs
  <2> QED BY <2>1 DEF ShardOf, Sharded
<1>2. \A i \in 0 .. d - 1 : Logits(id)[a + i] = Dot(Weight.lm_head[a + i], Transformed(id))
  BY <1>1 DEF Logits
<1> HIDE DEF a, rows
<1>3. PartOf(Logits(id), r, d) = [i \in 0 .. d - 1 |-> Dot(Weight.lm_head[a + i], Transformed(id))]
  BY <1>2 DEF PartOf, a
<1>4. DOMAIN rows = 0 .. d - 1 /\ \A i \in 0 .. d - 1 : rows[i] = a + i BY <1>1
<1>5. ColumnParallelLinear(Weight.lm_head, rows, Transformed(id))
          = [i \in 0 .. d - 1 |-> Dot(Weight.lm_head[a + i], Transformed(id))]
  BY <1>4 DEF ColumnParallelLinear
<1> QED BY <1>3, <1>5 DEF rows

-----------------------------------------------------------------------------
(* The parts of the ranks make the whole.                                   *)

SummedStages == {"embed", "attention", "mlp"}

(* What a rank has computed at a stage that ends in an all_reduce.          *)
LEMMA PartsAt ==
    ASSUME IntegerActivations, NEW id, SizesOK(id), NEW w \in WorldSizes, NEW s \in SummedStages,
           NEW o \in 0 .. hidden_size - 1,
           NEW part, part = [r \in 0 .. w - 1 |-> PartAt(s, r, w, id)[o]]
    PROVE  Total(w, part) = ValueAt(StageAfter[s], id)[o] /\ part \in Numbers(w)
<1>0. /\ vocab_size \in Nat /\ hidden_size \in Nat /\ intermediate_size \in Nat
      /\ num_heads \in Nat /\ num_kv_heads \in Nat /\ id \in 0 .. vocab_size - 1
  BY DEF SizesOK
<1>1. CASE s = "embed"
  <2> DEFINE d == PerRank(vocab_size, w)
  <2>1. w \in Nat \ {0} /\ d \in Nat \ {0} /\ vocab_size = w * d BY WorldShards DEF Sharded
  <2> HIDE DEF d
  <2>2. part = EmbeddingRows(Weight.embed, id, vocab_size, o, w)
    BY <1>1 DEF PartAt, EmbeddingRows
  <2>3. Total(w, part) = Weight.embed[id][o] /\ part \in Numbers(w)
    <3> DEFINE weight == Weight.embed
    <3>1. weight \in Tensor(vocab_size, hidden_size) BY TensorAssumption
    <3>2. part = EmbeddingRows(weight, id, vocab_size, o, w) BY <2>2
    <3> HIDE DEF weight
    <3>3. Total(w, part) = weight[id][o] /\ part \in Numbers(w)
      BY <1>0, <2>1, <3>1, <3>2, EmbeddingParts
    <3> QED BY <3>3 DEF weight
  <2>4. ValueAt(StageAfter[s], id) = Embedded(id) BY <1>1 DEF ValueAt, StageAfter
  <2> QED BY <2>3, <2>4 DEF Embedded
<1>2. CASE s = "attention"
  <2> DEFINE d == PerRank(num_heads, w)
  <2>1. Sharded(num_heads, w, d) BY WorldShards
  <2>3. part = RowParts(Weight.o, Bias.o, num_heads, Heads(id), o, w, d)
    BY <1>2 DEF PartAt, RowParts
  <2> HIDE DEF d
  <2>4. Bias.o \in Numbers(hidden_size) /\ Heads(id) \in Numbers(num_heads)
    BY TensorAssumption, ValuesAreInt DEF Numbers
  <2>5. RowInputs(Weight.o, Bias.o, Heads(id), hidden_size, num_heads)
    BY <1>0, <2>4, TensorAssumption DEF RowInputs
  <2>7. Total(w, part) = Dot(Weight.o[o], Heads(id)) + Bias.o[o] /\ part \in Numbers(w)
    <3>1. o \in 0 .. hidden_size - 1 OBVIOUS
    <3>2. Total(w, RowParts(Weight.o, Bias.o, num_heads, Heads(id), o, w, d))
              = Dot(Weight.o[o], Heads(id)) + Bias.o[o]
      BY ONLY <2>1, <2>5, <3>1, RowParallelParts
    <3>3. RowParts(Weight.o, Bias.o, num_heads, Heads(id), o, w, d) \in Numbers(w)
      BY ONLY <2>1, <2>5, <3>1, RowParallelParts
    <3> QED BY <2>3, <3>2, <3>3
  <2>6. ValueAt(StageAfter[s], id) = Attended(id) BY <1>2 DEF ValueAt, StageAfter
  <2> QED BY <2>6, <2>7 DEF Attended
<1>3. CASE s = "mlp"
  <2> DEFINE d == PerRank(intermediate_size, w)
  <2>1. Sharded(intermediate_size, w, d) BY WorldShards
  <2>3. part = RowParts(Weight.down, Bias.down, intermediate_size, Activated(id), o, w, d)
    BY <1>3 DEF PartAt, RowParts
  <2> HIDE DEF d
  <2>4. Bias.down \in Numbers(hidden_size) /\ Activated(id) \in Numbers(intermediate_size)
    BY TensorAssumption, ValuesAreInt DEF Numbers
  <2>5. RowInputs(Weight.down, Bias.down, Activated(id), hidden_size, intermediate_size)
    BY <1>0, <2>4, TensorAssumption DEF RowInputs
  <2>7. Total(w, part) = Dot(Weight.down[o], Activated(id)) + Bias.down[o] /\ part \in Numbers(w)
    <3>1. o \in 0 .. hidden_size - 1 OBVIOUS
    <3>2. Total(w, RowParts(Weight.down, Bias.down, intermediate_size, Activated(id), o, w, d))
              = Dot(Weight.down[o], Activated(id)) + Bias.down[o]
      BY ONLY <2>1, <2>5, <3>1, RowParallelParts
    <3>3. RowParts(Weight.down, Bias.down, intermediate_size, Activated(id), o, w, d) \in Numbers(w)
      BY ONLY <2>1, <2>5, <3>1, RowParallelParts
    <3> QED BY <2>3, <3>2, <3>3
  <2>6. ValueAt(StageAfter[s], id) = Transformed(id) BY <1>3 DEF ValueAt, StageAfter
  <2> QED BY <2>6, <2>7 DEF Transformed
<1> QED BY <1>1, <1>2, <1>3 DEF SummedStages

(* Tensors as functions on their indices.                                   *)
LEMMA PartsAreRows ==
    ASSUME NEW id, SizesOK(id), NEW w \in WorldSizes, NEW s \in SummedStages, NEW r
    PROVE  PartAt(s, r, w, id) = [o \in 0 .. hidden_size - 1 |-> PartAt(s, r, w, id)[o]]
<1>0. vocab_size \in Nat /\ id \in 0 .. vocab_size - 1 BY DEF SizesOK
<1>1. CASE s = "embed"
  <2>1. /\ Weight.embed[id] \in Numbers(hidden_size)
        /\ DOMAIN Weight.embed[id] = 0 .. hidden_size - 1
    BY <1>0, TensorAssumption DEF Tensor, Numbers
  <2>2. CASE w = 1
    <3>1. PartAt(s, r, w, id) = Weight.embed[id]
      BY <1>1, <2>2 DEF PartAt, VocabParallelEmbedding
    <3> QED BY <2>1, <3>1 DEF Numbers
  <2>3. CASE w # 1
    <3> DEFINE rows == Shard(vocab_size, r, w)
               local_id == id - r * PerRank(vocab_size, w)
               clamped == IF local_id < 0 THEN 0
                          ELSE IF local_id \in DOMAIN rows THEN local_id
                          ELSE PerRank(vocab_size, w) - 1
               mask == IF local_id \in DOMAIN rows THEN 1 ELSE 0
    <3>1. PartAt(s, r, w, id) = [h \in DOMAIN Weight.embed[id] |->
                                 mask * Weight.embed[rows[clamped]][h]]
      BY <1>1, <2>3 DEF PartAt, VocabParallelEmbedding
    <3> HIDE DEF mask, clamped, rows
    <3> QED BY <2>1, <3>1
  <2> QED BY <2>2, <2>3
<1>2. CASE s = "attention"
  <2>1. DOMAIN Weight.o = 0 .. hidden_size - 1 BY TensorAssumption DEF Tensor
  <2> DEFINE y == PartOf(Heads(id), r, PerRank(num_heads, w))
             columns == Shard(num_heads, r, w)
  <2>2. PartAt(s, r, w, id) = [o \in DOMAIN Weight.o |->
            Dot([i \in DOMAIN columns |-> Weight.o[o][columns[i]]], y)
                + IF HasBias(r) THEN Bias.o[o] ELSE 0]
    BY <1>2 DEF PartAt, RowParallelLinear
  <2> HIDE DEF y, columns
  <2> QED BY <2>1, <2>2
<1>3. CASE s = "mlp"
  <2>1. DOMAIN Weight.down = 0 .. hidden_size - 1 BY TensorAssumption DEF Tensor
  <2> DEFINE y == PartOf(Activated(id), r, PerRank(intermediate_size, w))
             columns == Shard(intermediate_size, r, w)
  <2>2. PartAt(s, r, w, id) = [o \in DOMAIN Weight.down |->
            Dot([i \in DOMAIN columns |-> Weight.down[o][columns[i]]], y)
                + IF HasBias(r) THEN Bias.down[o] ELSE 0]
    BY <1>3 DEF PartAt, RowParallelLinear
  <2> HIDE DEF y, columns
  <2> QED BY <2>1, <2>2
<1> QED BY <1>1, <1>2, <1>3 DEF SummedStages

LEMMA ValuesAreRows ==
    ASSUME IntegerActivations, NEW id, SizesOK(id), NEW s \in SummedStages
    PROVE  ValueAt(StageAfter[s], id)
               = [o \in 0 .. hidden_size - 1 |-> ValueAt(StageAfter[s], id)[o]]
<1>1. /\ Embedded(id) \in Numbers(hidden_size) /\ Attended(id) \in Numbers(hidden_size)
      /\ Transformed(id) \in Numbers(hidden_size)
  BY ValuesAreInt
<1>2. ValueAt(StageAfter[s], id) \in {Embedded(id), Attended(id), Transformed(id)}
  BY DEF ValueAt, StageAfter, SummedStages
<1>3. ValueAt(StageAfter[s], id) \in Numbers(hidden_size) BY <1>1, <1>2
<1> QED BY <1>3 DEF Numbers

(* all_reduce.                                                              *)
LEMMA SumIs ==
    ASSUME IntegerActivations, NEW id, SizesOK(id), NEW w \in WorldSizes, NEW s \in SummedStages,
           NEW y, \A r \in 0 .. w - 1 : y[r] = PartAt(s, r, w, id)
    PROVE  [o \in DOMAIN y[0] |-> Total(w, [r \in 0 .. w - 1 |-> y[r][o]])]
               = ValueAt(StageAfter[s], id)
<1> DEFINE part(o) == [r \in 0 .. w - 1 |-> PartAt(s, r, w, id)[o]]
<1>1. w \in Nat \ {0} /\ 0 \in 0 .. w - 1 BY WorldShards
<1>2. DOMAIN y[0] = 0 .. hidden_size - 1
  <2>1. y[0] = [o \in 0 .. hidden_size - 1 |-> PartAt(s, 0, w, id)[o]] BY <1>1, PartsAreRows
  <2> QED BY <2>1
<1>3. \A o \in 0 .. hidden_size - 1 : Total(w, part(o)) = ValueAt(StageAfter[s], id)[o]
  BY PartsAt
<1>4. \A o : [r \in 0 .. w - 1 |-> y[r][o]] = part(o) OBVIOUS
<1> HIDE DEF part
<1>5. [o \in DOMAIN y[0] |-> Total(w, [r \in 0 .. w - 1 |-> y[r][o]])]
          = [o \in 0 .. hidden_size - 1 |-> ValueAt(StageAfter[s], id)[o]]
  BY <1>2, <1>3, <1>4
<1> QED BY <1>5, ValuesAreRows

(* all_gather.                                                              *)
LEMMA ConcatenationIs ==
    ASSUME IntegerActivations, NEW id, SizesOK(id), NEW w \in WorldSizes,
           NEW y, \A r \in 0 .. w - 1 : y[r] = PartAt("lm_head", r, w, id)
    PROVE  LET each == Cardinality(DOMAIN y[0]) IN
           [i \in 0 .. vocab_size - 1 |-> y[i \div each][i % each]] = Logits(id)
<1> DEFINE d == PerRank(vocab_size, w)
<1>1. /\ w \in Nat \ {0} /\ 0 \in 0 .. w - 1
      /\ d \in Nat \ {0} /\ vocab_size \in Nat /\ vocab_size = w * d
  BY WorldShards DEF Sharded
<1>2. \A r \in 0 .. w - 1 : y[r] = [i \in 0 .. d - 1 |-> Logits(id)[r * d + i]]
  BY DEF PartAt, PartOf
<1> HIDE DEF d
<1>3. Cardinality(DOMAIN y[0]) = d
  <2>1. DOMAIN y[0] = 0 .. d - 1 BY <1>1, <1>2
  <2>2. Cardinality(0 .. d - 1) = IF 0 > d - 1 THEN 0 ELSE (d - 1) - 0 + 1
    BY <1>1, FS_Interval
  <2> QED BY <1>1, <2>1, <2>2
<1>4. ASSUME NEW i \in 0 .. vocab_size - 1 PROVE y[i \div d][i % d] = Logits(id)[i]
  <2>1. i \in Nat /\ i \in 0 .. w * d - 1 BY <1>1
  <2>2. /\ i \div d \in 0 .. w - 1 /\ i % d \in 0 .. d - 1
        /\ i = (i \div d) * d + (i % d)
    BY <1>1, <2>1, Split, SplitBelow
  <2>3. PICK r \in 0 .. w - 1, j \in 0 .. d - 1 :
            r = i \div d /\ j = i % d /\ i = r * d + j
    BY <2>2
  <2>4. y[r][j] = Logits(id)[r * d + j] BY <1>2
  <2> QED BY <2>3, <2>4
<1>5. Logits(id) = [i \in 0 .. vocab_size - 1 |-> Logits(id)[i]] BY DEF Logits
<1> QED BY <1>3, <1>4, <1>5

(* Without a group, the part of the one rank is the whole.                  *)
LEMMA AloneIs ==
    ASSUME IntegerActivations, NEW id, SizesOK(id), 1 \in WorldSizes, NEW s \in Stages
    PROVE  PartAt(s, 0, 1, id) = ValueAt(StageAfter[s], id)
<1>1. CASE s = "lm_head"
  <2> DEFINE d == PerRank(vocab_size, 1)
  <2>1. d \in Nat /\ vocab_size = d BY WorldShards DEF Sharded
  <2>2. PartAt(s, 0, 1, id) = [i \in 0 .. d - 1 |-> Logits(id)[0 * d + i]] BY <1>1 DEF PartAt, PartOf
  <2> HIDE DEF d
  <2>3. \A i \in 0 .. d - 1 : 0 * d + i = i BY <2>1
  <2>4. PartAt(s, 0, 1, id) = [i \in 0 .. vocab_size - 1 |-> Logits(id)[i]] BY <2>1, <2>2, <2>3
  <2>5. Logits(id) = [i \in 0 .. vocab_size - 1 |-> Logits(id)[i]] BY DEF Logits
  <2>6. ValueAt(StageAfter[s], id) = Logits(id) BY <1>1 DEF ValueAt, StageAfter
  <2> QED BY <2>4, <2>5, <2>6
<1>2. CASE s # "lm_head"
  <2>1. s \in SummedStages BY <1>2 DEF Stages, SummedStages
  <2>2. ASSUME NEW o \in 0 .. hidden_size - 1
        PROVE  PartAt(s, 0, 1, id)[o] = ValueAt(StageAfter[s], id)[o]
    <3>0. PICK w \in WorldSizes : w = 1 OBVIOUS
    <3> DEFINE part == [r \in 0 .. w - 1 |-> PartAt(s, r, w, id)[o]]
    <3>1. part[0] = PartAt(s, 0, 1, id)[o] BY <3>0
    <3>2. part = [r \in 0 .. w - 1 |-> PartAt(s, r, w, id)[o]] OBVIOUS
    <3> HIDE DEF part
    <3>3. Total(w, part) = ValueAt(StageAfter[s], id)[o] /\ part \in Numbers(w)
      BY <2>1, <3>2, PartsAt
    <3>4. Total(w, part) = part[0]
      <4>1. /\ part \in [0 .. w - 1 -> Int] /\ 0 \in 0 .. w - 1 /\ w \in Nat
            /\ \A k \in 0 .. w - 1 : k # 0 => part[k] = 0
        BY <3>0, <3>3 DEF Numbers
      <4> QED BY <4>1, TotalOfOne
    <3> QED BY <3>1, <3>3, <3>4
  <2>3. PartAt(s, 0, 1, id) = [o \in 0 .. hidden_size - 1 |-> PartAt(s, 0, 1, id)[o]]
    BY <2>1, PartsAreRows
  <2>4. ValueAt(StageAfter[s], id) = [o \in 0 .. hidden_size - 1 |-> ValueAt(StageAfter[s], id)[o]]
    BY <2>1, ValuesAreRows
  <2> DEFINE p == PartAt(s, 0, 1, id)
             v == ValueAt(StageAfter[s], id)
  <2> HIDE DEF p, v
  <2>5. /\ p = [o \in 0 .. hidden_size - 1 |-> p[o]] /\ v = [o \in 0 .. hidden_size - 1 |-> v[o]]
        /\ \A o \in 0 .. hidden_size - 1 : p[o] = v[o]
    BY <2>2, <2>3, <2>4 DEF p, v
  <2>6. p = v BY <2>5
  <2> QED BY <2>6 DEF p, v
<1> QED BY <1>1, <1>2

-----------------------------------------------------------------------------
(* The inductive invariant.                                                 *)

Working == {"build", "load", "forward", "collective"}

PartialQKV(r) ==
    PartlyLoaded(qkv_proj[r],
                 QKVRows(r, PerRank(num_heads, world_size), PerRank(num_kv_heads, world_size)), QKV)
PartialGateUp(r) ==
    PartlyLoaded(gate_up_proj[r], GateUpRows(r, PerRank(intermediate_size, world_size)), GateUp)

FullQKV(r) ==
    qkv_proj[r] = QKVRows(r, PerRank(num_heads, world_size), PerRank(num_kv_heads, world_size))
FullGateUp(r) == gate_up_proj[r] = GateUpRows(r, PerRank(intermediate_size, world_size))

(* What a rank knows of the group, and the layers it has built from it.     *)
InfoOK(r) ==
    /\ pc[r] \in {"join", "build"} =>
           _dist_info[r] = [rank |-> r, world_size |-> world_size]
    /\ pc[r] \in Working => _dist_info[r].world_size = world_size
    /\ pc[r] \in Working /\ world_size > 1 => initialized[r]
    /\ pc[r] \in Working \ {"build"} => tp[r] = [rank |-> r, size |-> world_size]

LoadOK(r) ==
    /\ pc[r] = "load" => PartialQKV(r) /\ PartialGateUp(r)
    /\ pc[r] \in {"forward", "collective"} => FullQKV(r) /\ FullGateUp(r)

ForwardOK(r) ==
    /\ pc[r] = "forward" /\ stage[r] # "embed" => x[r] = ValueAt(stage[r], input_id)
    /\ pc[r] = "collective" => 
           stage[r] \in Stages /\ x[r] = PartAt(stage[r], r, world_size, input_id)

RankOK(r) == InfoOK(r) /\ LoadOK(r) /\ ForwardOK(r)

Places == {"init", "join", "exit"} \cup Working

ShapesOK ==
    /\ pc \in [Processes -> Places]
    /\ stage \in [Processes -> Stages \cup {"logits"}]
    /\ DOMAIN _dist_info = Processes /\ DOMAIN initialized = Processes
    /\ DOMAIN tp = Processes /\ DOMAIN qkv_proj = Processes
    /\ DOMAIN gate_up_proj = Processes /\ DOMAIN x = Processes

StartedOK == world_size \in WorldSizes /\ input_id \in 0 .. vocab_size - 1

IInv ==
    /\ StartedOK
    /\ ShapesOK
    /\ \A r \in Processes \ Ranks : pc[r] = "exit"
    /\ \A r \in Ranks : RankOK(r)

LEMMA StartedFacts ==
    ASSUME StartedOK
    PROVE  /\ world_size \in Nat \ {0} /\ 0 \in Ranks /\ Ranks \subseteq Processes
           /\ Ranks = 0 .. world_size - 1 /\ SizesOK(input_id)
<1>1. PICK m \in WorldSizes : \A v \in WorldSizes : v <= m BY TensorParallelAssumption
<1>2. MaxWorld \in WorldSizes /\ \A v \in WorldSizes : v <= MaxWorld BY <1>1 DEF MaxWorld
<1>3. world_size \in Nat \ {0} /\ MaxWorld \in Nat /\ world_size <= MaxWorld
  BY <1>2, TensorParallelAssumption DEF StartedOK
<1>4. SizesOK(input_id) BY TensorParallelAssumption DEF StartedOK, SizesOK
<1> HIDE DEF MaxWorld
<1> QED BY <1>3, <1>4 DEF Ranks, Processes

(* A rank computes its part of the stage it is at.                          *)
LEMMA LocalIs ==
    ASSUME IntegerActivations, StartedOK, NEW r \in Ranks, RankOK(r), pc[r] = "forward",
           stage[r] \in Stages
    PROVE  Local(r) = PartAt(stage[r], r, world_size, input_id)
<1> DEFINE w == world_size
           id == input_id
           q == PerRank(num_heads, w)
           kv == PerRank(num_kv_heads, w)
           d == PerRank(intermediate_size, w)
           v == PerRank(vocab_size, w)
<1>1. /\ tp[r].rank = r /\ tp[r].size = w
      /\ qkv_proj[r] = QKVRows(r, q, kv) /\ gate_up_proj[r] = GateUpRows(r, d)
      /\ stage[r] # "embed" => x[r] = ValueAt(stage[r], id)
  <2>1. tp[r] = [rank |-> r, size |-> w] BY DEF RankOK, InfoOK, Working
  <2> QED BY <2>1 DEF RankOK, LoadOK, ForwardOK, FullQKV, FullGateUp
<1>2. /\ r \in 0 .. w - 1 /\ SizesOK(id)
      /\ Sharded(num_heads, w, q) /\ Sharded(num_kv_heads, w, kv)
      /\ Sharded(intermediate_size, w, d) /\ Sharded(vocab_size, w, v)
      /\ num_heads \in Nat /\ num_kv_heads \in Nat
  BY StartedFacts, WorldShards DEF StartedOK
<1> HIDE DEF w, id
<1>3. CASE stage[r] = "embed"
  BY <1>1, <1>3 DEF Local, PartAt, w, id
<1>4. CASE stage[r] = "attention"
  <2>1. x[r] = Embedded(id) BY <1>1, <1>4 DEF ValueAt
  <2> HIDE DEF q, kv
  <2>2. Attention(MergedLinear(Weight, qkv_proj[r], x[r]), w) = PartOf(Heads(id), r, q)
    BY <1>1, <1>2, <2>1, AttentionIs
  <2>3. Local(r) = RowParallelLinear(Weight.o, Bias.o, num_heads,
                       Attention(MergedLinear(Weight, qkv_proj[r], x[r]), w), r, w)
    BY <1>1, <1>4 DEF Local
  <2> QED BY <1>4, <2>2, <2>3 DEF PartAt, q, w, id
<1>5. CASE stage[r] = "mlp"
  <2>1. x[r] = Attended(id) BY <1>1, <1>5 DEF ValueAt
  <2>2. Local(r) = RowParallelLinear(Weight.down, Bias.down, intermediate_size,
                       GatedAct(MergedLinear(Weight, gate_up_proj[r], x[r]), d), r, w)
    BY <1>1, <1>5 DEF Local
  <2> HIDE DEF d
  <2>3. GatedAct(MergedLinear(Weight, gate_up_proj[r], x[r]), d) = PartOf(Activated(id), r, d)
    BY <1>1, <1>2, <2>1, GatedIs
  <2> QED BY <1>5, <2>2, <2>3 DEF PartAt, d, w, id
<1>6. CASE stage[r] = "lm_head"
  <2>1. x[r] = Transformed(id) BY <1>1, <1>6 DEF ValueAt
  <2>2. Local(r) = ColumnParallelLinear(Weight.lm_head, Shard(vocab_size, r, w), x[r])
    BY <1>1, <1>6 DEF Local
  <2> HIDE DEF v
  <2>3. Local(r) = PartOf(Logits(id), r, v) BY <1>2, <2>1, <2>2, ColumnsAre
  <2> QED BY <1>6, <2>3 DEF PartAt, v, w, id
<1> QED BY <1>3, <1>4, <1>5, <1>6 DEF Stages

(* A rank is right as long as nothing of its own changes.                   *)
LEMMA RankKeeps ==
    ASSUME NEW r, RankOK(r), UNCHANGED started,
           pc'[r] = pc[r], _dist_info'[r] = _dist_info[r], initialized'[r] = initialized[r],
           tp'[r] = tp[r], qkv_proj'[r] = qkv_proj[r], gate_up_proj'[r] = gate_up_proj[r],
           stage'[r] = stage[r], x'[r] = x[r]
    PROVE  RankOK(r)'
<1>1. world_size' = world_size /\ input_id' = input_id BY DEF started
<1>2. InfoOK(r)' BY <1>1 DEF RankOK, InfoOK
<1>3. LoadOK(r)'
  BY <1>1 DEF RankOK, LoadOK, PartialQKV, PartialGateUp, FullQKV, FullGateUp
<1>4. ForwardOK(r)' BY <1>1 DEF RankOK, ForwardOK
<1> QED BY <1>2, <1>3, <1>4 DEF RankOK

LEMMA InitIInv == Init => IInv
<1> SUFFICES ASSUME Init PROVE IInv OBVIOUS
<1>1. StartedOK BY DEF Init, StartedOK
<1>2. world_size \in Nat \ {0} /\ Ranks \subseteq Processes /\ Ranks = 0 .. world_size - 1
  BY <1>1, StartedFacts
<1>3. Processes \subseteq Int
  <2>1. MaxWorld \in Nat
    <3>1. PICK m \in WorldSizes : \A u \in WorldSizes : u <= m BY TensorParallelAssumption
    <3> QED BY <3>1, TensorParallelAssumption DEF MaxWorld
  <2> HIDE DEF MaxWorld
  <2> QED BY <2>1 DEF Processes
<1>4. ShapesOK BY DEF Init, ShapesOK, Places, Stages
<1>5. \A r \in Processes \ Ranks : pc[r] = "exit"
  <2> SUFFICES ASSUME NEW r \in Processes, r \notin 0 .. world_size - 1 PROVE pc[r] = "exit"
    BY <1>2
  <2>1. ~(r < world_size)
    <3>1. 0 <= r
      <4>1. MaxWorld \in Nat
        <5>1. PICK m \in WorldSizes : \A u \in WorldSizes : u <= m BY TensorParallelAssumption
        <5> QED BY <5>1, TensorParallelAssumption DEF MaxWorld
      <4> HIDE DEF MaxWorld
      <4> QED BY <4>1 DEF Processes
    <3> QED BY <1>2, <1>3, <3>1
  <2> QED BY <2>1 DEF Init
<1>6. ASSUME NEW r \in Ranks PROVE RankOK(r)
  <2>1. pc[r] = "init" BY <1>2, <1>3 DEF Init
  <2> QED BY <2>1 DEF RankOK, InfoOK, LoadOK, ForwardOK, Working
<1> QED BY <1>1, <1>4, <1>5, <1>6 DEF IInv

-----------------------------------------------------------------------------
(* Each step of one rank.                                                   *)

OnlyOf(r) ==
    /\ UNCHANGED started
    /\ \A q \in Processes \ {r} :
          /\ pc'[q] = pc[q] /\ _dist_info'[q] = _dist_info[q]
          /\ initialized'[q] = initialized[q] /\ tp'[q] = tp[q]
          /\ qkv_proj'[q] = qkv_proj[q] /\ gate_up_proj'[q] = gate_up_proj[q]
          /\ stage'[q] = stage[q] /\ x'[q] = x[q]

LEMMA RankStep ==
    ASSUME IInv, NEW r \in Ranks, OnlyOf(r), ShapesOK', RankOK(r)'
    PROVE  IInv'
<1>1. world_size' = world_size /\ input_id' = input_id BY DEF OnlyOf, started
<1>2. StartedOK' BY <1>1 DEF IInv, StartedOK
<1>3. Ranks' = Ranks /\ Processes' = Processes BY <1>1 DEF Ranks
<1>4. \A q \in Processes \ Ranks : pc'[q] = "exit"
  <2> SUFFICES ASSUME NEW q \in Processes \ Ranks PROVE pc'[q] = "exit" OBVIOUS
  <2>1. q # r OBVIOUS
  <2>2. pc'[q] = pc[q] BY <2>1 DEF OnlyOf
  <2> QED BY <2>2 DEF IInv
<1>5. ASSUME NEW q \in Ranks PROVE RankOK(q)'
  <2>1. CASE q = r BY <2>1
  <2>2. CASE q # r
    <3>1. q \in Processes \ {r} BY <2>2, StartedFacts DEF IInv
    <3>2. RankOK(q) BY DEF IInv
    <3> QED BY <3>1, <3>2, RankKeeps DEF OnlyOf
  <2> QED BY <2>1, <2>2
<1>6. \A q \in Ranks' : RankOK(q)' BY <1>3, <1>5
<1> QED BY <1>2, <1>3, <1>4, <1>6 DEF IInv

(* Who is not at "exit" is a rank.                                          *)
LEMMA AtWork ==
    ASSUME IInv, NEW r \in Processes, pc[r] # "exit"
    PROVE  /\ r \in Ranks /\ RankOK(r) /\ StartedOK /\ ShapesOK
           /\ world_size \in Nat \ {0} /\ Processes' = Processes
<1>1. r \in Ranks /\ StartedOK /\ ShapesOK BY DEF IInv
<1>2. RankOK(r) BY <1>1 DEF IInv
<1> QED BY <1>1, <1>2, StartedFacts

LEMMA InitDistributedStep ==
    ASSUME IInv, NEW r \in Processes, init_distributed(r)
    PROVE  IInv'
<1> USE DEF init_distributed
<1>1. /\ r \in Ranks /\ RankOK(r) /\ StartedOK /\ ShapesOK
      /\ world_size \in Nat \ {0} /\ Processes' = Processes
  BY AtWork
<1>2. OnlyOf(r) BY <1>1 DEF OnlyOf, Goto, ShapesOK, layers
<1>3. ShapesOK' BY <1>1 DEF ShapesOK, Goto, layers, Places, Working
<1>4. /\ pc'[r] = IF world_size <= 1 THEN "build" ELSE "join"
      /\ _dist_info'[r] = [rank |-> r, world_size |-> world_size]
      /\ world_size' = world_size
  BY <1>1 DEF ShapesOK, Goto, started
<1>5. RankOK(r)'
  <2>1. pc'[r] \in {"build", "join"} /\ (pc'[r] = "build" => ~(world_size > 1))
    BY <1>1, <1>4
  <2>2. InfoOK(r)' BY <1>4, <2>1 DEF InfoOK, Working
  <2>3. LoadOK(r)' /\ ForwardOK(r)' BY <2>1 DEF LoadOK, ForwardOK
  <2> QED BY <2>2, <2>3 DEF RankOK
<1> QED BY <1>1, <1>2, <1>3, <1>5, RankStep

(* A later call changes at most the rank, and that only of a rank that has  *)
(* built its layers.                                                        *)
LEMMA LaterCallStep ==
    ASSUME IInv, NEW r \in Processes, NEW rank, NEW size,
           init_distributed_again(r, rank, size), ~misused'
    PROVE  IInv'
<1> USE DEF init_distributed_again
<1>1. /\ r \in Ranks /\ RankOK(r) /\ StartedOK /\ ShapesOK
      /\ world_size \in Nat \ {0} /\ Processes' = Processes
  BY AtWork
<1>2. OnlyOf(r) BY <1>1 DEF OnlyOf, ShapesOK, layers
<1>3. ShapesOK' BY <1>1 DEF ShapesOK, layers
<1>4. /\ _dist_info'[r] = [rank |-> rank, world_size |-> world_size]
      /\ pc[r] = "build" => rank = r
      /\ world_size' = world_size /\ input_id' = input_id
      /\ pc'[r] = pc[r] /\ initialized' = initialized /\ tp' = tp /\ qkv_proj' = qkv_proj
      /\ gate_up_proj' = gate_up_proj /\ stage' = stage /\ x' = x
  BY <1>1 DEF ShapesOK, InfoAfterCall, started, layers
<1>5. RankOK(r)'
  <2>1. InfoOK(r)' BY <1>1, <1>4 DEF InfoOK, RankOK
  <2>2. LoadOK(r)'
    BY <1>1, <1>4 DEF RankOK, LoadOK, PartialQKV, PartialGateUp, FullQKV, FullGateUp
  <2>3. ForwardOK(r)' BY <1>1, <1>4 DEF RankOK, ForwardOK
  <2> QED BY <2>1, <2>2, <2>3 DEF RankOK
<1> QED BY <1>1, <1>2, <1>3, <1>5, RankStep

(* A new parameter has no rows yet.                                         *)
LEMMA EmptyIs ==
    ASSUME NEW n, NEW rows, DOMAIN rows = 0 .. n - 1, NEW ids
    PROVE  PartlyLoaded(Empty(n), rows, ids)
<1>1. Empty(n) = With(rows, {}) BY DEF Empty, With, NoRow
<1> QED BY <1>1 DEF PartlyLoaded

LEMMA BuildStep ==
    ASSUME IInv, NEW r \in Processes, Build(r)
    PROVE  IInv'
<1> USE DEF Build
<1>1. /\ r \in Ranks /\ RankOK(r) /\ StartedOK /\ ShapesOK
      /\ world_size \in Nat \ {0} /\ Processes' = Processes
  BY AtWork
<1> DEFINE q == PerRank(num_heads, world_size)
           kv == PerRank(num_kv_heads, world_size)
           d == PerRank(intermediate_size, world_size)
<1>2. _dist_info[r] = [rank |-> r, world_size |-> world_size]
  BY <1>1 DEF RankOK, InfoOK, Working
<1>3. OnlyOf(r) BY <1>1 DEF OnlyOf, Goto, ShapesOK
<1>4. ShapesOK' BY <1>1 DEF ShapesOK, Goto, Places, Working
<1>5. /\ pc'[r] = "load" /\ tp'[r] = [rank |-> r, size |-> world_size]
      /\ qkv_proj'[r] = Empty(q + 2 * kv)
      /\ gate_up_proj'[r] = Empty((2 * intermediate_size) \div world_size)
      /\ world_size' = world_size /\ _dist_info' = _dist_info /\ initialized' = initialized
  BY <1>1, <1>2 DEF ShapesOK, Goto, started
<1>6. (2 * intermediate_size) \div world_size = 2 * d
  <2>1. Sharded(intermediate_size, world_size, d) BY <1>1, WorldShards DEF StartedOK
  <2>2. world_size \in Nat \ {0} /\ d \in Nat \ {0} /\ intermediate_size = world_size * d
    BY <2>1 DEF Sharded
  <2> HIDE DEF d
  <2>3. 2 * intermediate_size = (2 * d) * world_size + 0
    <3>1. world_size * d \in Nat
      <4>1. \A a, b \in Nat : a * b \in Nat OBVIOUS
      <4> QED BY <2>2, <4>1
    <3>2. 2 * (world_size * d) = (2 * d) * world_size BY <2>2
    <3>3. (2 * d) * world_size \in Nat BY <2>2, <3>1, <3>2
    <3> QED BY <2>2, <3>2, <3>3
  <2>4. 2 * d \in Nat /\ 0 \in 0 .. world_size - 1 BY <2>2
  <2> QED BY <2>2, <2>3, <2>4, Quotient
<1>7. PartialQKV(r)'
  <2>1. DOMAIN QKVRows(r, q, kv) = 0 .. (q + 2 * kv) - 1
    <3>1. q \in Nat /\ kv \in Nat BY <1>1, WorldShards DEF StartedOK, Sharded
    <3> HIDE DEF q, kv
    <3> QED BY ONLY <3>1 DEF QKVRows
  <2>2. PartlyLoaded(Empty(q + 2 * kv), QKVRows(r, q, kv), QKV) BY <2>1, EmptyIs
  <2> QED BY <1>5, <2>2 DEF PartialQKV
<1>8. PartialGateUp(r)'
  <2>1. DOMAIN GateUpRows(r, d) = 0 .. (2 * d) - 1 BY DEF GateUpRows
  <2>2. PartlyLoaded(Empty(2 * d), GateUpRows(r, d), GateUp) BY <2>1, EmptyIs
  <2> QED BY <1>5, <1>6, <2>2 DEF PartialGateUp
<1>9. RankOK(r)'
  <2>1. InfoOK(r)' BY <1>1, <1>2, <1>5 DEF InfoOK, RankOK, Working
  <2>2. LoadOK(r)' /\ ForwardOK(r)' BY <1>5, <1>7, <1>8 DEF LoadOK, ForwardOK
  <2> QED BY <2>1, <2>2 DEF RankOK
<1> QED BY <1>1, <1>3, <1>4, <1>9, RankStep

(* A loader adds the rows of one tensor.                                    *)
LEMMA WeightLoaderStep ==
    ASSUME IInv, NEW r \in Processes, NEW id \in {"q", "k", "v", "gate", "up"},
           weight_loader(r, id)
    PROVE  IInv'
<1> USE DEF weight_loader
<1>1. /\ r \in Ranks /\ RankOK(r) /\ StartedOK /\ ShapesOK
      /\ world_size \in Nat \ {0} /\ Processes' = Processes
  BY AtWork
<1> DEFINE w == world_size
           q == PerRank(num_heads, w)
           kv == PerRank(num_kv_heads, w)
           d == PerRank(intermediate_size, w)
<1>2. /\ tp[r].rank = r /\ tp[r].size = w /\ PartialQKV(r) /\ PartialGateUp(r)
  <2>1. tp[r] = [rank |-> r, size |-> w] BY <1>1 DEF RankOK, InfoOK, Working
  <2> QED BY <1>1, <2>1 DEF RankOK, LoadOK
<1>3. /\ r \in 0 .. w - 1 /\ Sharded(num_heads, w, q) /\ Sharded(num_kv_heads, w, kv)
      /\ Sharded(intermediate_size, w, d)
  BY <1>1, WorldShards, StartedFacts DEF StartedOK
<1>4. OnlyOf(r) BY <1>1 DEF OnlyOf, ShapesOK
<1>5. ShapesOK' BY <1>1 DEF ShapesOK
<1>6. /\ world_size' = world_size /\ _dist_info' = _dist_info /\ initialized' = initialized
      /\ pc' = pc /\ tp' = tp /\ pc[r] = "load"
  BY DEF started
<1>7. PartialQKV(r)'
  <2>1. CASE id \in GateUp
    <3>1. qkv_proj' = qkv_proj BY <2>1 DEF GateUp
    <3> QED BY <1>2, <1>6, <3>1 DEF PartialQKV
  <2>2. CASE id \notin GateUp
    <3>1. id \in QKV BY <2>2 DEF GateUp, QKV
    <3>2. qkv_proj'[r] = LoadQKV(qkv_proj[r], id, num_heads, num_kv_heads, r, w)
      BY <1>1, <1>2, <2>2 DEF GateUp, ShapesOK
    <3> DEFINE rows == QKVRows(r, q, kv)
               offset == QKVOffset(id, num_heads, num_kv_heads, w)
               shard == Shard(IF id = "q" THEN num_heads ELSE num_kv_heads, r, w)
    <3>3. qkv_proj'[r] = Copied(qkv_proj[r], id, offset, shard) BY <3>2 DEF LoadQKV
    <3>4. PartlyLoaded(qkv_proj[r], rows, QKV) BY <1>2 DEF PartialQKV
    <3>5. Placed(rows, id, offset, shard)
      <4> HIDE DEF w, q, kv
      <4> QED BY <1>3, <3>1, QKVPlaced
    <3> HIDE DEF offset, shard
    <3>6. PartlyLoaded(Copied(qkv_proj[r], id, offset, shard), rows, QKV)
      <4> HIDE DEF rows
      <4> QED BY <3>1, <3>4, <3>5, LoadedMore
    <3> QED BY <1>6, <3>3, <3>6 DEF PartialQKV
  <2> QED BY <2>1, <2>2
<1>8. PartialGateUp(r)'
  <2>1. CASE id \notin GateUp
    <3>1. gate_up_proj' = gate_up_proj BY <2>1 DEF GateUp
    <3> QED BY <1>2, <1>6, <3>1 DEF PartialGateUp
  <2>2. CASE id \in GateUp
    <3>1. gate_up_proj'[r] = LoadGateUp(gate_up_proj[r], id, intermediate_size,
                                        intermediate_size, r, w)
      BY <1>1, <1>2, <2>2 DEF GateUp, ShapesOK
    <3> DEFINE rows == GateUpRows(r, d)
               offset == GateUpOffset(id, intermediate_size, w)
               shard == Shard(intermediate_size, r, w)
    <3>2. gate_up_proj'[r] = Copied(gate_up_proj[r], id, offset, shard)
      BY <3>1 DEF LoadGateUp
    <3>3. PartlyLoaded(gate_up_proj[r], rows, GateUp) BY <1>2 DEF PartialGateUp
    <3>4. Placed(rows, id, offset, shard)
      <4> HIDE DEF w, d
      <4> QED BY <1>3, <2>2, GateUpPlaced
    <3> HIDE DEF offset, shard
    <3>5. PartlyLoaded(Copied(gate_up_proj[r], id, offset, shard), rows, GateUp)
      <4> HIDE DEF rows
      <4> QED BY <2>2, <3>3, <3>4, LoadedMore
    <3> QED BY <1>6, <3>2, <3>5 DEF PartialGateUp
  <2> QED BY <2>1, <2>2
<1>9. RankOK(r)'
  <2>1. InfoOK(r)' BY <1>1, <1>6 DEF InfoOK, RankOK
  <2>2. LoadOK(r)' /\ ForwardOK(r)' BY <1>6, <1>7, <1>8 DEF LoadOK, ForwardOK
  <2> QED BY <2>1, <2>2 DEF RankOK
<1> QED BY <1>1, <1>4, <1>5, <1>9, RankStep

(* When all tensors are loaded, every row is the right one.                 *)
LEMMA StartForwardStep ==
    ASSUME IInv, NEW r \in Processes, StartForward(r)
    PROVE  IInv'
<1> USE DEF StartForward
<1>1. /\ r \in Ranks /\ RankOK(r) /\ StartedOK /\ ShapesOK
      /\ world_size \in Nat \ {0} /\ Processes' = Processes
  BY AtWork
<1> DEFINE q == PerRank(num_heads, world_size)
           kv == PerRank(num_kv_heads, world_size)
           d == PerRank(intermediate_size, world_size)
<1>2. PartialQKV(r) /\ PartialGateUp(r) BY <1>1 DEF RankOK, LoadOK
<1>3. qkv_proj[r] = QKVRows(r, q, kv)
  <2> HIDE DEF q, kv
  <2> DEFINE rows == QKVRows(r, q, kv)
  <2>1. PartlyLoaded(qkv_proj[r], rows, QKV) BY <1>2 DEF PartialQKV, q, kv
  <2>2. \A j \in DOMAIN rows : rows[j][1] \in QKV BY DEF QKVRows, QKV
  <2>3. rows = [j \in DOMAIN rows |-> rows[j]] BY DEF QKVRows
  <2>4. "none" \notin QKV /\ \A i \in QKV : Loaded(qkv_proj[r], i) BY DEF QKV, AllLoaded
  <2> HIDE DEF rows
  <2>5. qkv_proj[r] = [j \in DOMAIN rows |-> rows[j]] BY <2>1, <2>2, <2>4, LoadedAll
  <2> QED BY <2>3, <2>5 DEF rows
<1>4. gate_up_proj[r] = GateUpRows(r, d)
  <2> HIDE DEF d
  <2> DEFINE rows == GateUpRows(r, d)
  <2>1. PartlyLoaded(gate_up_proj[r], rows, GateUp) BY <1>2 DEF PartialGateUp, d
  <2>2. \A j \in DOMAIN rows : rows[j][1] \in GateUp BY DEF GateUpRows, GateUp
  <2>3. rows = [j \in DOMAIN rows |-> rows[j]] BY DEF GateUpRows
  <2>4. "none" \notin GateUp /\ \A i \in GateUp : Loaded(gate_up_proj[r], i)
    BY DEF GateUp, AllLoaded
  <2> HIDE DEF rows
  <2>5. gate_up_proj[r] = [j \in DOMAIN rows |-> rows[j]] BY <2>1, <2>2, <2>4, LoadedAll
  <2> QED BY <2>3, <2>5 DEF rows
<1>5. OnlyOf(r) BY <1>1 DEF OnlyOf, Goto, ShapesOK, layers
<1>6. ShapesOK' BY <1>1 DEF ShapesOK, Goto, layers, Places, Stages, Working
<1>7. /\ pc'[r] = "forward" /\ stage'[r] = "embed" /\ tp' = tp /\ qkv_proj' = qkv_proj
      /\ gate_up_proj' = gate_up_proj
      /\ world_size' = world_size /\ _dist_info' = _dist_info /\ initialized' = initialized
  BY <1>1 DEF ShapesOK, Goto, started, layers
<1>8. RankOK(r)'
  <2>1. InfoOK(r)' BY <1>1, <1>7 DEF InfoOK, RankOK, Working
  <2>2. LoadOK(r)' BY <1>3, <1>4, <1>7 DEF LoadOK, FullQKV, FullGateUp
  <2>3. ForwardOK(r)' BY <1>7 DEF ForwardOK
  <2> QED BY <2>1, <2>2, <2>3 DEF RankOK
<1> QED BY <1>1, <1>5, <1>6, <1>8, RankStep

(* Without a group a layer is done at once; with one, all_reduce or         *)
(* all_gather is next.                                                      *)
LEMMA ComputeStep ==
    ASSUME IntegerActivations, IInv, NEW r \in Processes, Compute(r)
    PROVE  IInv'
<1> USE DEF Compute
<1>1. /\ r \in Ranks /\ RankOK(r) /\ StartedOK /\ ShapesOK
      /\ world_size \in Nat \ {0} /\ Processes' = Processes
  BY AtWork
<1>2. stage[r] \in Stages BY <1>1 DEF ShapesOK
<1>3. Local(r) = PartAt(stage[r], r, world_size, input_id) BY <1>1, <1>2, LocalIs
<1>4. /\ _dist_info[r].world_size = world_size
      /\ tp[r] = [rank |-> r, size |-> world_size]
      /\ world_size > 1 => initialized[r]
  BY <1>1 DEF RankOK, InfoOK, Working
<1>5. OnlyOf(r) BY <1>1 DEF OnlyOf, Goto, ShapesOK, layers
<1>6. StageAfter[stage[r]] \in Stages \cup {"logits"} BY <1>2 DEF StageAfter, Stages
<1>7. ShapesOK' BY <1>1, <1>6 DEF ShapesOK, Goto, layers, Places, Working
<1>8. /\ x'[r] = PartAt(stage[r], r, world_size, input_id)
      /\ tp' = tp /\ qkv_proj' = qkv_proj /\ gate_up_proj' = gate_up_proj
      /\ world_size' = world_size /\ input_id' = input_id
      /\ _dist_info' = _dist_info /\ initialized' = initialized
  BY <1>1, <1>3 DEF ShapesOK, started, layers
<1>9. CASE CallsCollective(r) /\ ~NoOp(r)
  <2>1. pc'[r] = "collective" /\ stage' = stage BY <1>1, <1>9 DEF ShapesOK, Goto
  <2>2. InfoOK(r)' BY <1>1, <1>8, <2>1 DEF InfoOK, RankOK, Working
  <2>3. LoadOK(r)' BY <1>1, <1>8, <2>1 DEF RankOK, LoadOK, FullQKV, FullGateUp
  <2>4. ForwardOK(r)' BY <1>2, <1>8, <2>1 DEF ForwardOK
  <2>5. RankOK(r)' BY <2>2, <2>3, <2>4 DEF RankOK
  <2> QED BY <1>1, <1>5, <1>7, <2>5, RankStep
<1>10. CASE ~(CallsCollective(r) /\ ~NoOp(r))
  <2>1. pc' = pc /\ stage'[r] = StageAfter[stage[r]] BY <1>1, <1>10 DEF ShapesOK
  <2>2. world_size = 1 /\ r = 0 /\ 1 \in WorldSizes
    <3>1. world_size = 1
      <4>1. SUFFICES ASSUME world_size > 1 PROVE FALSE BY <1>1
      <4>2. CallsCollective(r) BY <1>4, <4>1 DEF CallsCollective
      <4>3. ~NoOp(r) BY <1>1, <1>4, <4>1 DEF NoOp
      <4> QED BY <1>10, <4>2, <4>3
    <3>2. r = 0 BY <1>1, <3>1 DEF Ranks
    <3> QED BY <1>1, <3>1, <3>2 DEF StartedOK
  <2>3. x'[r] = ValueAt(StageAfter[stage[r]], input_id)
    <3>1. SizesOK(input_id) BY <1>1, StartedFacts
    <3>2. PartAt(stage[r], 0, 1, input_id) = ValueAt(StageAfter[stage[r]], input_id)
      BY <1>2, <2>2, <3>1, AloneIs
    <3> QED BY <1>8, <2>2, <3>2
  <2>4. InfoOK(r)' BY <1>1, <1>8, <2>1 DEF InfoOK, RankOK, Working
  <2>5. LoadOK(r)' BY <1>1, <1>8, <2>1 DEF RankOK, LoadOK, FullQKV, FullGateUp
  <2>6. ForwardOK(r)' BY <1>8, <2>1, <2>3 DEF ForwardOK
  <2>7. RankOK(r)' BY <2>4, <2>5, <2>6 DEF RankOK
  <2> QED BY <1>1, <1>5, <1>7, <2>7, RankStep
<1> QED BY <1>9, <1>10

LEMMA DestroyStep ==
    ASSUME IInv, NEW r \in Processes, destroy_distributed(r)
    PROVE  IInv'
<1> USE DEF destroy_distributed
<1>1. /\ r \in Ranks /\ RankOK(r) /\ StartedOK /\ ShapesOK
      /\ world_size \in Nat \ {0} /\ Processes' = Processes
  BY AtWork
<1>2. OnlyOf(r) BY <1>1 DEF OnlyOf, Goto, ShapesOK, layers
<1>3. ShapesOK' BY <1>1 DEF ShapesOK, Goto, layers, Places, Working
<1>4. pc'[r] \in {"init", "exit"} BY <1>1 DEF ShapesOK, Goto
<1>5. RankOK(r)' BY <1>4 DEF RankOK, InfoOK, LoadOK, ForwardOK, Working
<1> QED BY <1>1, <1>2, <1>3, <1>5, RankStep

-----------------------------------------------------------------------------
(* The steps of the group.                                                  *)

LEMMA GroupStep ==
    ASSUME IInv, init_process_group
    PROVE  IInv'
<1> USE DEF init_process_group
<1>1. /\ StartedOK /\ ShapesOK /\ world_size \in Nat \ {0} /\ Ranks \subseteq Processes
  BY StartedFacts DEF IInv
<1>2. /\ world_size' = world_size /\ input_id' = input_id /\ Ranks' = Ranks
      /\ Processes' = Processes
  BY DEF started, Ranks
<1>3. StartedOK' BY <1>1, <1>2 DEF StartedOK
<1>4. ShapesOK' BY <1>1 DEF ShapesOK, layers, Places, Working
<1>5. \A r \in Processes \ Ranks : pc'[r] = "exit" BY <1>1 DEF IInv
<1>6. ASSUME NEW r \in Ranks PROVE RankOK(r)'
  <2>1. RankOK(r) /\ pc[r] = "join" BY DEF IInv
  <2>2. pc'[r] = "build" /\ initialized'[r] /\ _dist_info' = _dist_info BY <1>1
  <2>3. InfoOK(r)' BY <1>2, <2>1, <2>2 DEF RankOK, InfoOK, Working
  <2>4. LoadOK(r)' /\ ForwardOK(r)' BY <2>2 DEF LoadOK, ForwardOK
  <2> QED BY <2>3, <2>4 DEF RankOK
<1>7. \A r \in Ranks' : RankOK(r)' BY <1>2, <1>6
<1> QED BY <1>2, <1>3, <1>4, <1>5, <1>7 DEF IInv

(* All ranks have their parts of one stage: the result is the whole.        *)
LEMMA CollectiveStep ==
    ASSUME IntegerActivations, IInv, Collective
    PROVE  IInv'
<1> DEFINE s == stage[0]
           result == IF s = "lm_head" THEN Concatenated(vocab_size) ELSE SumOfRanks
<1>1. /\ StartedOK /\ ShapesOK /\ world_size \in Nat \ {0} /\ Ranks \subseteq Processes
      /\ 0 \in Ranks /\ Ranks = 0 .. world_size - 1 /\ SizesOK(input_id)
      /\ world_size \in WorldSizes
  BY StartedFacts DEF IInv, StartedOK
<1>2. \A r \in Ranks : pc[r] = "collective" /\ stage[r] = s BY DEF Collective
<1>3. \A r \in Ranks : RankOK(r) BY DEF IInv
<1>4. s \in Stages /\ \A r \in Ranks : x[r] = PartAt(s, r, world_size, input_id)
  BY <1>1, <1>2, <1>3 DEF RankOK, ForwardOK
<1>5. /\ world_size' = world_size /\ input_id' = input_id /\ Ranks' = Ranks
      /\ Processes' = Processes /\ tp' = tp /\ qkv_proj' = qkv_proj
      /\ gate_up_proj' = gate_up_proj /\ _dist_info' = _dist_info /\ initialized' = initialized
  BY DEF Collective, started, layers, Ranks
<1>6. /\ x' = [r \in Processes |-> IF r \in Ranks THEN result ELSE x[r]]
      /\ stage' = [r \in Processes |-> IF r \in Ranks THEN StageAfter[s] ELSE stage[r]]
      /\ pc' = [r \in Processes |-> IF r \in Ranks THEN "forward" ELSE pc[r]]
  BY DEF Collective
<1> HIDE DEF s
<1>7. result = ValueAt(StageAfter[s], input_id)
  <2>1. CASE s = "lm_head"
    <3>1. \A r \in 0 .. world_size - 1 : x[r] = PartAt("lm_head", r, world_size, input_id)
      BY <1>1, <1>4, <2>1
    <3>2. Concatenated(vocab_size) = Logits(input_id)
      BY <1>1, <3>1, ConcatenationIs DEF Concatenated
    <3>3. ValueAt(StageAfter[s], input_id) = Logits(input_id) BY <2>1 DEF ValueAt, StageAfter
    <3> QED BY <2>1, <3>2, <3>3
  <2>2. CASE s # "lm_head"
    <3>1. s \in SummedStages BY <1>4, <2>2 DEF Stages, SummedStages
    <3>2. \A r \in 0 .. world_size - 1 : x[r] = PartAt(s, r, world_size, input_id)
      BY <1>1, <1>4
    <3>3. [o \in DOMAIN x[0] |-> Total(world_size, [r \in 0 .. world_size - 1 |-> x[r][o]])]
              = ValueAt(StageAfter[s], input_id)
      BY <1>1, <3>1, <3>2, SumIs
    <3>4. SumOfRanks = ValueAt(StageAfter[s], input_id) BY <1>1, <3>3 DEF SumOfRanks
    <3> QED BY <2>2, <3>4
  <2> QED BY <2>1, <2>2
<1> HIDE DEF result
<1>8. StartedOK' BY <1>1, <1>5 DEF StartedOK
<1>9. StageAfter[s] \in Stages \cup {"logits"} BY <1>4 DEF StageAfter, Stages
<1>10. ShapesOK' BY <1>1, <1>5, <1>6, <1>9 DEF ShapesOK, Places, Working
<1>11. \A r \in Processes \ Ranks : pc'[r] = "exit" BY <1>6 DEF IInv
<1>12. ASSUME NEW r \in Ranks PROVE RankOK(r)'
  <2>1. RankOK(r) /\ pc[r] = "collective" BY <1>2, <1>3
  <2>2. pc'[r] = "forward" /\ stage'[r] = StageAfter[s] /\ x'[r] = result BY <1>1, <1>6
  <2>3. InfoOK(r)' BY <1>5, <2>1, <2>2 DEF RankOK, InfoOK, Working
  <2>4. LoadOK(r)' BY <1>5, <2>1, <2>2 DEF RankOK, LoadOK, FullQKV, FullGateUp
  <2>5. ForwardOK(r)' BY <1>5, <1>7, <2>2 DEF ForwardOK
  <2> QED BY <2>3, <2>4, <2>5 DEF RankOK
<1>13. \A r \in Ranks' : RankOK(r)' BY <1>5, <1>12
<1> QED BY <1>5, <1>8, <1>10, <1>11, <1>13 DEF IInv

LEMMA StepIInv ==
    ASSUME IntegerActivations, IInv, [Next]_vars, ~misused'
    PROVE  IInv'
<1>1. CASE UNCHANGED vars
  BY <1>1 DEF vars, IInv, StartedOK, ShapesOK, RankOK, InfoOK, LoadOK, ForwardOK, Ranks,
              PartialQKV, PartialGateUp, FullQKV, FullGateUp
<1>2. ASSUME NEW r \in Processes, Worker(r) PROVE IInv'
  <2>2. CASE init_distributed(r) BY <2>2, InitDistributedStep
  <2>3. CASE Build(r) BY <2>3, BuildStep
  <2>4. ASSUME NEW id \in {"q", "k", "v", "gate", "up"}, weight_loader(r, id) PROVE IInv'
    BY <2>4, WeightLoaderStep
  <2>5. CASE StartForward(r) BY <2>5, StartForwardStep
  <2>6. CASE Compute(r) BY <2>6, ComputeStep
  <2>7. CASE destroy_distributed(r) BY <2>7, DestroyStep
  <2> QED BY <1>2, <2>2, <2>3, <2>4, <2>5, <2>6, <2>7 DEF Worker
<1>5. ASSUME NEW r \in Processes, NEW size \in WorldSizes \cup {1}, NEW rank \in 0 .. size - 1,
             init_distributed_again(r, rank, size)
      PROVE  IInv'
  BY <1>5, LaterCallStep
<1>3. CASE init_process_group BY <1>3, GroupStep
<1>4. CASE Collective BY <1>4, CollectiveStep
<1> QED BY <1>1, <1>2, <1>3, <1>4, <1>5 DEF Next

(* What has been misused stays so.                                          *)
LEMMA MisusedStays ==
    ASSUME [Next]_vars, ~misused'
    PROVE  ~misused
<1>1. CASE UNCHANGED vars BY <1>1 DEF vars
<1>2. CASE UNCHANGED calls BY <1>2 DEF calls
<1>3. ASSUME NEW r \in Processes, Worker(r) PROVE UNCHANGED calls
  BY <1>3 DEF Worker, init_distributed, Build, weight_loader, StartForward, Compute,
              destroy_distributed
<1>4. ASSUME NEW r \in Processes, NEW size, NEW rank, init_distributed_again(r, rank, size)
      PROVE  ~misused
  BY <1>4 DEF init_distributed_again
<1>5. init_process_group \/ Collective => UNCHANGED calls
  BY DEF init_process_group, Collective
<1> QED BY <1>1, <1>2, <1>3, <1>4, <1>5 DEF Next

LEMMA IInvMeans ==
    ASSUME IntegerActivations, ~misused => IInv
    PROVE  ForwardExact
<1> SUFFICES ASSUME ~misused, NEW r \in Processes, pc[r] = "forward", stage[r] = "logits"
             PROVE  x[r] = Reference
  BY DEF ForwardExact
<1>1. r \in Ranks /\ RankOK(r) /\ StartedOK BY AtWork
<1>2. x[r] = Logits(input_id) BY <1>1 DEF RankOK, ForwardOK, ValueAt
<1>3. Reference = Logits(input_id) BY <1>1, StartedFacts, ReferenceIs
<1> QED BY <1>2, <1>3

(* Every rank ends forward with the logits of the unsharded decoder, for    *)
(* any world size that divides the sizes, any weights, and any attention    *)
(* and activation on integers: the weight loaders, all_reduce and           *)
(* all_gather of the sharded layers together compute what one process       *)
(* would, in whatever order the ranks step, and whatever later call of      *)
(* init_distributed raises, unless one told a rank of another group.        *)
THEOREM RanksComputeReference ==
    ASSUME IntegerActivations
    PROVE  Spec => []ForwardExact
<1> DEFINE Inv == ~misused => IInv
<1>1. Init => Inv BY InitIInv
<1>2. Inv /\ [Next]_vars => Inv' BY StepIInv, MisusedStays
<1>3. Inv => ForwardExact BY IInvMeans
<1> HIDE DEF Inv
<1> QED BY <1>1, <1>2, <1>3, PTL DEF Spec

=============================================================================
