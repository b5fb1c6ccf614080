--------------------------- MODULE BulkWriterProofs ---------------------------
(***************************************************************************)
(* Proofs about BulkWriter: whatever the batch, its documents, the limit   *)
(* and the faults, results are attributed to the right messages, and the   *)
(* writer with the retries around it implements BulkOutcome.               *)
(***************************************************************************)
EXTENDS BulkWriter, FiniteSetTheorems, SequenceTheorems, TLAPS

-----------------------------------------------------------------------------
(* Induction, and functions defined by recursion.  The library's theorems    *)
(* about both take the predicate as an operator; these take it as a set.     *)

\* A set of numbers that is not empty has a least element.
LEMMA NatMin ==
    ASSUME NEW T, T \subseteq Nat, T # {}
    PROVE  \E x \in T : \A y \in T : x <= y
<1>1. IsWellFoundedOn(OpToRel(<, Nat), Nat)
  BY NatLessThanWellFounded
<1>2. PICK x \in T : \A y \in T : ~ (<<y, x>> \in OpToRel(<, Nat))
  BY <1>1, WFMin
<1>3. \A y \in T : ~ (y < x)
  <2> SUFFICES ASSUME NEW y \in T, y < x PROVE FALSE
    OBVIOUS
  <2>1. <<y, x>> \in {ss \in Nat \X Nat : ss[1] < ss[2]}
    OBVIOUS
  <2> QED BY <2>1, <1>2 DEF OpToRel
<1> QED BY <1>3

\* A set that holds 0, and n + 1 with every n, holds every number.
LEMMA NatInd ==
    ASSUME NEW S, 0 \in S, \A n \in Nat : n \in S => n + 1 \in S
    PROVE  \A n \in Nat : n \in S
<1> SUFFICES ASSUME Nat \ S # {} PROVE FALSE
  OBVIOUS
<1>1. PICK x \in Nat \ S : \A y \in Nat \ S : x <= y
  <2>1. Nat \ S \subseteq Nat
    OBVIOUS
  <2> QED BY <2>1, NatMin
<1>2. x - 1 \in Nat
  BY <1>1
<1>3. (x - 1) + 1 \in S
  BY <1>1, <1>2
<1> QED BY <1>2, <1>3

\* The functions on 0..N with this first value and this step from each value to
\* the next.
Recursions(N, V, z, step) ==
    {f \in [0..N -> V] : f[0] = z /\ \A n \in 1..N : f[n] = step[<<f[n - 1], n>>]}

\* There is one.
LEMMA RecursionExists ==
    ASSUME NEW N \in Nat, NEW V, NEW z \in V, NEW step \in [V \X (1..N) -> V]
    PROVE  Recursions(N, V, z, step) # {}
<1> DEFINE Upto(n, f) == f[0] = z /\ \A i \in 1..n : f[i] = step[<<f[i - 1], i>>]
           S == {n \in Nat : n <= N => \E f \in [0..n -> V] : Upto(n, f)}
<1>1. 0 \in S
  <2>1. [i \in 0..0 |-> z] \in [0..0 -> V] /\ Upto(0, [i \in 0..0 |-> z])
    OBVIOUS
  <2> QED BY <2>1
<1>2. ASSUME NEW n \in Nat, n \in S PROVE n + 1 \in S
  <2> SUFFICES ASSUME n + 1 <= N
               PROVE  \E g \in [0..(n + 1) -> V] : Upto(n + 1, g)
    OBVIOUS
  <2>1. PICK f \in [0..n -> V] : Upto(n, f)
    BY <1>2
  <2> DEFINE g == [i \in 0..(n + 1) |-> IF i <= n THEN f[i] ELSE step[<<f[n], n + 1>>]]
  <2>2. \A i \in 0..n : g[i] = f[i]
    OBVIOUS
  <2>3. g[n + 1] = step[<<f[n], n + 1>>]
    OBVIOUS
  <2>4. f[n] \in V /\ n + 1 \in 1..N
    OBVIOUS
  <2>5. step[<<f[n], n + 1>>] \in V
    BY <2>4
  <2>6. g \in [0..(n + 1) -> V]
    BY <2>5
  <2>7. g[0] = z
    BY <2>1, <2>2
  <2>8. ASSUME NEW i \in 1..(n + 1) PROVE g[i] = step[<<g[i - 1], i>>]
    <3>1. CASE i = n + 1
      <4>1. g[i - 1] = f[n]
        BY <3>1, <2>2
      <4> QED BY <3>1, <4>1, <2>3
    <3>2. CASE i \in 1..n
      <4>1. g[i] = f[i] /\ g[i - 1] = f[i - 1]
        BY <3>2, <2>2
      <4> QED BY <3>2, <4>1, <2>1
    <3> QED BY <3>1, <3>2
  <2> QED BY <2>6, <2>7, <2>8
<1> HIDE DEF S
<1>3. N \in S
  BY <1>1, <1>2, NatInd
<1> QED BY <1>3 DEF S, Recursions

-----------------------------------------------------------------------------
(* Sums *)

\* Sums satisfies the recursion it is defined by.
LEMMA SumsDef ==
    ASSUME NEW s \in Seq(Nat)
    PROVE  Sums(s) = [n \in 0..Len(s) |-> IF n = 0 THEN 0 ELSE Sums(s)[n - 1] + s[n]]
<1> DEFINE N == Len(s)
           step == [vn \in Nat \X (1..N) |-> vn[1] + s[vn[2]]]
<1>1. N \in Nat /\ \A n \in 1..N : s[n] \in Nat
  BY LenProperties, ElementOfSeq
<1>2. step \in [Nat \X (1..N) -> Nat]
  BY <1>1
<1>3. PICK f \in Recursions(N, Nat, 0, step) : TRUE
  <2> HIDE DEF step, N
  <2>1. 0 \in Nat
    OBVIOUS
  <2> QED BY <1>1, <1>2, <2>1, RecursionExists
<1>0. f \in [0..N -> Nat] /\ f[0] = 0 /\ \A n \in 1..N : f[n] = step[<<f[n - 1], n>>]
  <2> HIDE DEF step, N
  <2> QED BY <1>3 DEF Recursions
<1>4. \A n \in 1..N : f[n] = f[n - 1] + s[n]
  <2> SUFFICES ASSUME NEW n \in 1..N PROVE f[n] = f[n - 1] + s[n]
    OBVIOUS
  <2>1. n - 1 \in 0..N
    BY <1>1
  <2>2. <<f[n - 1], n>> \in Nat \X (1..N)
    BY <2>1, <1>0
  <2> QED BY <2>2, <1>0
<1>5. f = [n \in 0..N |-> IF n = 0 THEN 0 ELSE f[n - 1] + s[n]]
  BY <1>1, <1>0, <1>4
<1> QED BY <1>5 DEF Sums

\* The sums are numbers, each larger than the one before by the element between.
LEMMA SumsStep ==
    ASSUME NEW s \in Seq(Nat)
    PROVE  /\ Sums(s) \in [0..Len(s) -> Nat]
           /\ Sums(s)[0] = 0
           /\ \A n \in 1..Len(s) : Sums(s)[n] = Sums(s)[n - 1] + s[n]
<1> DEFINE f == Sums(s)
<1>1. Len(s) \in Nat /\ \A n \in 1..Len(s) : s[n] \in Nat
  BY LenProperties, ElementOfSeq
<1> DEFINE g == [n \in 0..Len(s) |-> IF n = 0 THEN 0 ELSE f[n - 1] + s[n]]
<1>2. f = g
  BY SumsDef
<1> HIDE DEF f
<1>9. /\ g[0] = 0
      /\ \A n \in 1..Len(s) : g[n] = f[n - 1] + s[n]
      /\ DOMAIN g = 0..Len(s) /\ g = [n \in DOMAIN g |-> g[n]]
  BY <1>1
<1> HIDE DEF g
<1>3. f[0] = 0
  BY <1>2, <1>9
<1>4. \A n \in 1..Len(s) : f[n] = f[n - 1] + s[n]
  BY <1>2, <1>9
<1> DEFINE S == {n \in Nat : n <= Len(s) => f[n] \in Nat}
<1>5. 0 \in S
  BY <1>3
<1>6. ASSUME NEW n \in Nat, n \in S PROVE n + 1 \in S
  <2> SUFFICES ASSUME n + 1 <= Len(s) PROVE f[n + 1] \in Nat
    OBVIOUS
  <2>1. n + 1 \in 1..Len(s) /\ (n + 1) - 1 = n
    BY <1>1
  <2>2. f[n + 1] = f[n] + s[n + 1]
    BY <2>1, <1>4
  <2>3. f[n] \in Nat
    BY <1>6, <1>1
  <2> QED BY <2>1, <2>2, <2>3, <1>1
<1>7. \A n \in Nat : n \in S
  <2> HIDE DEF S
  <2> QED BY <1>5, <1>6, NatInd
<1>8. f \in [0..Len(s) -> Nat]
  <2>1. \A n \in 0..Len(s) : f[n] \in Nat
    BY <1>1, <1>7
  <2> QED BY <2>1, <1>2, <1>9
<1> QED BY <1>3, <1>4, <1>8 DEF f

\* The sums do not decrease.
LEMMA SumsMonotone ==
    ASSUME NEW s \in Seq(Nat), NEW m \in 0..Len(s), NEW n \in m..Len(s)
    PROVE  Sums(s)[m] <= Sums(s)[n]
<1> DEFINE f == Sums(s)
           S == {d \in Nat : m + d <= Len(s) => f[m] <= f[m + d]}
<1>1. Len(s) \in Nat /\ \A k \in 1..Len(s) : s[k] \in Nat
  BY LenProperties, ElementOfSeq
<1>2. /\ f \in [0..Len(s) -> Nat]
      /\ \A k \in 1..Len(s) : f[k] = f[k - 1] + s[k]
  BY SumsStep
<1> HIDE DEF f
<1>3. 0 \in S
  <2>1. m + 0 = m /\ f[m] \in Nat
    BY <1>1, <1>2
  <2> QED BY <2>1
<1>4. ASSUME NEW d \in Nat, d \in S PROVE d + 1 \in S
  <2> SUFFICES ASSUME m + (d + 1) <= Len(s) PROVE f[m] <= f[m + (d + 1)]
    OBVIOUS
  <2>1. m + (d + 1) \in 1..Len(s) /\ (m + (d + 1)) - 1 = m + d /\ m + d \in 0..Len(s)
    BY <1>1
  <2>2. f[m + (d + 1)] = f[m + d] + s[m + (d + 1)]
    BY <2>1, <1>2
  <2>3. f[m] <= f[m + d]
    BY <1>4, <2>1
  <2>4. f[m] \in Nat /\ f[m + d] \in Nat /\ s[m + (d + 1)] \in Nat
    BY <1>1, <1>2, <2>1
  <2> QED BY <2>2, <2>3, <2>4
<1>5. \A d \in Nat : d \in S
  <2> HIDE DEF S
  <2> QED BY <1>3, <1>4, NatInd
<1>6. n - m \in Nat /\ m + (n - m) = n
  BY <1>1
<1>7. n - m \in S
  BY <1>5, <1>6
<1> QED BY <1>6, <1>7, <1>1 DEF f

-----------------------------------------------------------------------------
(* Choosing from a sequence *)

\* The loop of InOrder, after each of its rounds.
InOrderLoop(n, chosen) ==
    LET order[k \in 0..n] ==
            IF k = 0 THEN <<>>
            ELSE IF k \in chosen THEN Append(order[k - 1], k)
            ELSE order[k - 1]
    IN order

\* Every round of the loop appends its number when it was chosen.
LEMMA InOrderLoopStep ==
    ASSUME NEW n \in Nat, NEW chosen
    PROVE  /\ InOrderLoop(n, chosen)[0] = <<>>
           /\ \A k \in 1..n :
                 InOrderLoop(n, chosen)[k] =
                     IF k \in chosen THEN Append(InOrderLoop(n, chosen)[k - 1], k)
                     ELSE InOrderLoop(n, chosen)[k - 1]
<1> DEFINE V == Seq(1..n)
           step == [vk \in V \X (1..n) |->
                       IF vk[2] \in chosen THEN Append(vk[1], vk[2]) ELSE vk[1]]
           Round(f, k) == IF k \in chosen THEN Append(f[k - 1], k) ELSE f[k - 1]
           Loop(f) == [k \in 0..n |-> IF k = 0 THEN <<>> ELSE Round(f, k)]
<1>1. <<>> \in V /\ step \in [V \X (1..n) -> V]
  <2>1. <<>> \in V
    OBVIOUS
  <2>2. ASSUME NEW v \in V, NEW k \in 1..n PROVE step[<<v, k>>] \in V
    <3>1. Append(v, k) \in V
      OBVIOUS
    <3>2. step[<<v, k>>] = IF k \in chosen THEN Append(v, k) ELSE v
      <4> HIDE DEF V
      <4> QED OBVIOUS
    <3> QED BY <3>1, <3>2
  <2>3. \A vk \in V \X (1..n) : step[vk] \in V
    <3> HIDE DEF step, V
    <3> QED BY <2>2
  <2>4. step = [vk \in V \X (1..n) |-> step[vk]]
    <3> HIDE DEF V
    <3> QED OBVIOUS
  <2> HIDE DEF step, V
  <2> QED BY <2>1, <2>3, <2>4
<1>2. PICK f \in Recursions(n, V, <<>>, step) : TRUE
  <2> HIDE DEF step, V
  <2> QED BY <1>1, RecursionExists
<1>3. /\ f \in [0..n -> V] /\ f[0] = <<>>
      /\ \A k \in 1..n : f[k] = step[<<f[k - 1], k>>]
  <2> HIDE DEF step, V
  <2> QED BY <1>2 DEF Recursions
<1>4. \A k \in 1..n : f[k] = Round(f, k)
  <2> SUFFICES ASSUME NEW k \in 1..n PROVE f[k] = Round(f, k)
    OBVIOUS
  <2>1. k - 1 \in 0..n
    OBVIOUS
  <2>2. <<f[k - 1], k>> \in V \X (1..n)
    <3> HIDE DEF V
    <3> QED BY <2>1, <1>3
  <2>3. step[<<f[k - 1], k>>] = Round(f, k)
    <3> HIDE DEF V
    <3> QED BY <2>2
  <2> HIDE DEF step, V, Round
  <2> QED BY <2>3, <1>3
<1>5. f = Loop(f)
  <2> HIDE DEF V, Round
  <2>1. \A k \in 0..n : f[k] = IF k = 0 THEN <<>> ELSE Round(f, k)
    <3> HIDE DEF step
    <3> QED BY <1>3, <1>4
  <2> QED BY <2>1, <1>3
<1> DEFINE g == InOrderLoop(n, chosen)
<1>6. g = Loop(g)
  BY <1>5 DEF InOrderLoop
<1> HIDE DEF g
<1>7. /\ Loop(g)[0] = <<>>
      /\ \A k \in 1..n : Loop(g)[k] = Round(g, k)
  <2> HIDE DEF Round
  <2> QED OBVIOUS
<1>8. g[0] = <<>> /\ \A k \in 1..n : g[k] = Round(g, k)
  <2> HIDE DEF Round, Loop
  <2> QED BY <1>6, <1>7
<1> QED BY <1>8 DEF g

\* r lists the chosen numbers up to n, each once, in order.
Lists(r, n, chosen) ==
    /\ r \in Seq(1..n)
    /\ \A p \in 1..Len(r) : r[p] \in chosen
    /\ \A p, q \in 1..Len(r) : p < q => r[p] < r[q]
    /\ \A k \in 1..n : k \in chosen => \E p \in 1..Len(r) : r[p] = k

\* A round keeps the list complete.
LEMMA ListsStep ==
    ASSUME NEW n \in Nat, NEW chosen, NEW r, Lists(r, n, chosen)
    PROVE  Lists(IF n + 1 \in chosen THEN Append(r, n + 1) ELSE r, n + 1, chosen)
<1>1. /\ r \in Seq(1..n) /\ r \in Seq(1..(n + 1)) /\ Len(r) \in Nat
      /\ \A p \in 1..Len(r) : r[p] \in 1..n
  <2>1. r \in Seq(1..n)
    BY DEF Lists
  <2>2. 1..n \subseteq 1..(n + 1)
    OBVIOUS
  <2>3. r \in Seq(1..(n + 1))
    BY <2>1, <2>2, SeqMonotonic
  <2> QED BY <2>1, <2>3, LenProperties, ElementOfSeq
<1>2. CASE n + 1 \notin chosen
  <2>1. \A k \in 1..(n + 1) : k \in chosen => k \in 1..n
    BY <1>2
  <2>2. Lists(r, n + 1, chosen)
    BY <1>1, <2>1 DEF Lists
  <2> QED BY <1>2, <2>2
<1>3. CASE n + 1 \in chosen
  <2> DEFINE t == Append(r, n + 1)
  <2>1. /\ t \in Seq(1..(n + 1)) /\ Len(t) = Len(r) + 1
        /\ t[Len(r) + 1] = n + 1 /\ \A p \in 1..Len(r) : t[p] = r[p]
    BY <1>1
  <2> HIDE DEF t
  <2>2. \A p \in 1..Len(t) : t[p] \in chosen
    <3> SUFFICES ASSUME NEW p \in 1..Len(t) PROVE t[p] \in chosen
      OBVIOUS
    <3>1. CASE p = Len(r) + 1
      BY <3>1, <2>1, <1>3
    <3>2. CASE p \in 1..Len(r)
      BY <3>2, <2>1 DEF Lists
    <3> QED BY <3>1, <3>2, <2>1, <1>1
  <2>3. \A p, q \in 1..Len(t) : p < q => t[p] < t[q]
    <3> SUFFICES ASSUME NEW p \in 1..Len(t), NEW q \in 1..Len(t), p < q
                 PROVE  t[p] < t[q]
      OBVIOUS
    <3>1. p \in 1..Len(r) /\ t[p] = r[p] /\ r[p] \in 1..n
      BY <2>1, <1>1
    <3>2. CASE q = Len(r) + 1
      BY <3>1, <3>2, <2>1
    <3>3. CASE q \in 1..Len(r)
      <4>1. r[p] < r[q]
        BY <3>1, <3>3 DEF Lists
      <4> QED BY <3>1, <3>3, <4>1, <2>1
    <3>4. Len(r) \in Nat /\ Len(t) = Len(r) + 1
      BY <2>1, <1>1
    <3>5. q = Len(r) + 1 \/ q \in 1..Len(r)
      BY <3>4
    <3> QED BY <3>2, <3>3, <3>5
  <2>4. ASSUME NEW k \in 1..(n + 1), k \in chosen PROVE \E p \in 1..Len(t) : t[p] = k
    <3>1. CASE k = n + 1
      <4>1. Len(r) + 1 \in 1..Len(t)
        BY <2>1, <1>1
      <4> QED BY <3>1, <4>1, <2>1
    <3>2. CASE k \in 1..n
      <4>1. PICK p \in 1..Len(r) : r[p] = k
        BY <3>2, <2>4 DEF Lists
      <4>2. p \in 1..Len(t)
        BY <2>1, <1>1
      <4> QED BY <4>1, <4>2, <2>1
    <3> QED BY <3>1, <3>2
  <2>5. Lists(t, n + 1, chosen)
    BY <2>1, <2>2, <2>3, <2>4 DEF Lists
  <2> QED BY <2>5, <1>3 DEF t
<1> QED BY <1>2, <1>3

\* InOrder lists what was chosen.
LEMMA InOrderLists ==
    ASSUME NEW n \in Nat, NEW chosen
    PROVE  Lists(InOrder(n, chosen), n, chosen)
<1> DEFINE g == InOrderLoop(n, chosen)
           S == {k \in Nat : k <= n => Lists(g[k], k, chosen)}
<1>1. InOrder(n, chosen) = g[n]
  BY DEF InOrder, InOrderLoop
<1>2. /\ g[0] = <<>>
      /\ \A k \in 1..n : g[k] = IF k \in chosen THEN Append(g[k - 1], k) ELSE g[k - 1]
  BY InOrderLoopStep
<1> HIDE DEF g
<1>3. 0 \in S
  <2>1. Lists(<<>>, 0, chosen)
    BY DEF Lists
  <2> QED BY <2>1, <1>2
<1>4. ASSUME NEW k \in Nat, k \in S PROVE k + 1 \in S
  <2> SUFFICES ASSUME k + 1 <= n PROVE Lists(g[k + 1], k + 1, chosen)
    OBVIOUS
  <2>1. k + 1 \in 1..n /\ (k + 1) - 1 = k
    OBVIOUS
  <2>2. g[k + 1] = IF k + 1 \in chosen THEN Append(g[k], k + 1) ELSE g[k]
    BY <2>1, <1>2
  <2>3. Lists(g[k], k, chosen)
    BY <1>4
  <2> QED BY <2>2, <2>3, ListsStep
<1>5. \A k \in Nat : k \in S
  <2> HIDE DEF S
  <2> QED BY <1>3, <1>4, NatInd
<1> QED BY <1>1, <1>5

\* The elements at chosen positions: as many as were chosen, each from its place.
LEMMA AtProperties ==
    ASSUME NEW T, NEW seq \in Seq(T), NEW chosen
    PROVE  LET order == InOrder(Len(seq), chosen)
               r     == At(seq, chosen)
           IN /\ r \in Seq(T) /\ Len(r) = Len(order)
              /\ \A j \in 1..Len(order) : order[j] \in 1..Len(seq) /\ r[j] = seq[order[j]]
<1> DEFINE order == InOrder(Len(seq), chosen)
           r == At(seq, chosen)
<1>1. Len(seq) \in Nat /\ \A i \in 1..Len(seq) : seq[i] \in T
  BY LenProperties, ElementOfSeq
<1>2. order \in Seq(1..Len(seq))
  BY <1>1, InOrderLists DEF Lists
<1>3. /\ Len(order) \in Nat /\ DOMAIN order = 1..Len(order)
      /\ \A j \in 1..Len(order) : order[j] \in 1..Len(seq)
  BY <1>2, LenProperties, ElementOfSeq
<1>4. r = [j \in DOMAIN order |-> seq[order[j]]]
  BY DEF At
<1> HIDE DEF order, r
<1>5. \A j \in 1..Len(order) : seq[order[j]] \in T
  BY <1>1, <1>3
<1>6. r = [j \in 1..Len(order) |-> seq[order[j]]]
  BY <1>3, <1>4
<1>7. r \in Seq(T) /\ Len(r) = Len(order)
  BY <1>3, <1>5, <1>6
<1>8. \A j \in 1..Len(order) : r[j] = seq[order[j]]
  BY <1>6
<1> QED BY <1>3, <1>7, <1>8 DEF order, r

-----------------------------------------------------------------------------
(* Sub-batches *)

\* What the assumption says of each message.
LEMMA MessageShapes ==
    /\ Len(Messages) \in Nat /\ Ids = 1..Len(Messages)
    /\ \A m \in Ids :
          /\ Messages[m].convertible \in BOOLEAN
          /\ Messages[m].sizes \in Seq(Nat)
          /\ Len(Messages[m].sizes) \in Nat /\ Len(Messages[m].sizes) >= 1
          /\ DOMAIN Messages[m].sizes = 1..Len(Messages[m].sizes)
<1> DEFINE M == [convertible : BOOLEAN, sizes : Seq(Nat \ {0})]
<1>1. Messages \in Seq(M)
  BY BulkAssumption
<1>2. Len(Messages) \in Nat /\ DOMAIN Messages = 1..Len(Messages)
  <2> HIDE DEF M
  <2> QED BY <1>1, LenProperties
<1>3. \A m \in 1..Len(Messages) : Messages[m] \in M
  <2> HIDE DEF M
  <2> QED BY <1>1, ElementOfSeq
<1>4. ASSUME NEW m \in Ids
      PROVE  /\ Messages[m].convertible \in BOOLEAN
             /\ Messages[m].sizes \in Seq(Nat)
             /\ Len(Messages[m].sizes) \in Nat /\ Len(Messages[m].sizes) >= 1
             /\ DOMAIN Messages[m].sizes = 1..Len(Messages[m].sizes)
  <2> DEFINE s == Messages[m].sizes
  <2>1. Messages[m] \in M /\ m \in DOMAIN Messages
    BY <1>2, <1>3 DEF Ids
  <2>2. s \in Seq(Nat \ {0}) /\ Messages[m].convertible \in BOOLEAN
    BY <2>1
  <2>3. s # <<>>
    BY <2>1, BulkAssumption
  <2>4. s \in Seq(Nat)
    <3>1. Nat \ {0} \subseteq Nat
      OBVIOUS
    <3> HIDE DEF s
    <3> QED BY <2>2, <3>1, SeqMonotonic
  <2>5. Len(s) \in Nat /\ DOMAIN s = 1..Len(s) /\ Len(s) # 0
    <3> HIDE DEF s
    <3> QED BY <2>3, <2>4, LenProperties, EmptySeq
  <2>6. Len(s) >= 1
    BY <2>5
  <2> QED BY <2>2, <2>4, <2>5, <2>6
<1> QED BY <1>2, <1>4 DEF Ids

\* Sizes are numbers, and a body of one document is as large as the document.
LEMMA BodySizes ==
    /\ encodedDocSize \in [Ids -> Nat]
    /\ \A sub \in Seq(Ids) :
          /\ BodySize(sub) \in Nat
          /\ Len(sub) = 1 => BodySize(sub) = encodedDocSize[sub[1]]
<1>1. \A m \in Ids : Sums(Messages[m].sizes)[Len(Messages[m].sizes)] \in Nat
  <2> SUFFICES ASSUME NEW m \in Ids
               PROVE  Sums(Messages[m].sizes)[Len(Messages[m].sizes)] \in Nat
    OBVIOUS
  <2> DEFINE s == Messages[m].sizes
  <2>1. s \in Seq(Nat) /\ Len(s) \in Nat
    BY MessageShapes
  <2> HIDE DEF s
  <2>2. Sums(s) \in [0..Len(s) -> Nat]
    BY <2>1, SumsStep
  <2>3. Sums(s)[Len(s)] \in Nat
    BY <2>1, <2>2
  <2> QED BY <2>3 DEF s
<1>2. encodedDocSize \in [Ids -> Nat]
  BY <1>1 DEF encodedDocSize
<1>3. ASSUME NEW sub \in Seq(Ids)
      PROVE  /\ BodySize(sub) \in Nat
             /\ Len(sub) = 1 => BodySize(sub) = encodedDocSize[sub[1]]
  <2> DEFINE s == [i \in DOMAIN sub |-> encodedDocSize[sub[i]]]
  <2>1. /\ Len(sub) \in Nat /\ DOMAIN sub = 1..Len(sub)
        /\ \A i \in 1..Len(sub) : sub[i] \in Ids
    BY LenProperties, ElementOfSeq
  <2>2. \A i \in 1..Len(sub) : encodedDocSize[sub[i]] \in Nat
    BY <1>2, <2>1
  <2>3. s = [i \in 1..Len(sub) |-> encodedDocSize[sub[i]]]
    BY <2>1
  <2>4. /\ s \in Seq(Nat) /\ Len(s) = Len(sub)
        /\ \A i \in 1..Len(sub) : s[i] = encodedDocSize[sub[i]]
    <3> HIDE DEF s
    <3> QED BY <2>1, <2>2, <2>3
  <2>5. BodySize(sub) = Sums(s)[Len(s)]
    BY <2>4 DEF BodySize
  <2> HIDE DEF s
  <2>6. /\ Sums(s) \in [0..Len(s) -> Nat] /\ Sums(s)[0] = 0
        /\ \A n \in 1..Len(s) : Sums(s)[n] = Sums(s)[n - 1] + s[n]
    BY <2>4, SumsStep
  <2>7. BodySize(sub) \in Nat
    BY <2>1, <2>4, <2>5, <2>6
  <2>8. ASSUME Len(sub) = 1 PROVE BodySize(sub) = encodedDocSize[sub[1]]
    <3>1. Sums(s)[1] = Sums(s)[1 - 1] + s[1] /\ 1 - 1 = 0
      BY <2>4, <2>6, <2>8
    <3>2. s[1] = encodedDocSize[sub[1]] /\ s[1] \in Nat
      BY <2>2, <2>4, <2>8
    <3>3. Sums(s)[1] = s[1]
      BY <2>6, <3>1, <3>2
    <3> QED BY <2>4, <2>5, <2>8, <3>2, <3>3
  <2> QED BY <2>7, <2>8
<1> QED BY <1>2, <1>3

\* A sub-batch ends where it should: there is such an end, with one document at
\* least, and no more than fit unless it is one alone.
LEMMA SubBatchEnds ==
    ASSUME NEW ds \in Seq(Ids), NEW first \in 1..Len(ds)
    PROVE  /\ subBatchEnd(ds, first) \in first..Len(ds)
           /\ \/ subBatchEnd(ds, first) = first
              \/ BodySize(SubSeq(ds, first, subBatchEnd(ds, first))) <= MaxBody
<1> DEFINE Size(e) == BodySize(SubSeq(ds, first, e))
           T == {e \in first..Len(ds) : e = Len(ds) \/ Size(e + 1) > MaxBody}
           Good(e) == /\ e = first \/ Size(e) <= MaxBody
                      /\ e = Len(ds) \/ Size(e + 1) > MaxBody
<1>1. Len(ds) \in Nat /\ \A i \in 1..Len(ds) : ds[i] \in Ids
  BY LenProperties, ElementOfSeq
<1>2. \A e \in first..Len(ds) : Size(e) \in Nat
  <2> SUFFICES ASSUME NEW e \in first..Len(ds) PROVE Size(e) \in Nat
    OBVIOUS
  <2>1. \A i \in first..e : ds[i] \in Ids
    BY <1>1
  <2>2. SubSeq(ds, first, e) \in Seq(Ids)
    BY <1>1, <2>1, SubSeqProperties
  <2> QED BY <2>2, BodySizes
<1>3. MaxBody \in Nat
  BY BulkAssumption
<1> HIDE DEF Size
<1>4. PICK e \in T : \A other \in T : e <= other
  <2>1. Len(ds) \in T
    BY <1>1
  <2>2. T \subseteq Nat
    OBVIOUS
  <2> HIDE DEF T
  <2> QED BY <2>1, <2>2, NatMin
<1>5. Good(e)
  <2>1. CASE e = first
    BY <2>1
  <2>2. CASE e # first
    <3>1. e - 1 \in first..Len(ds) /\ e - 1 \notin T /\ (e - 1) + 1 = e
      BY <2>2, <1>1, <1>4
    <3>2. ~ (Size(e) > MaxBody)
      BY <3>1
    <3>3. Size(e) <= MaxBody
      BY <3>2, <1>2, <1>3
    <3> QED BY <3>3
  <2> QED BY <2>1, <2>2
<1>6. subBatchEnd(ds, first) = CHOOSE x \in first..Len(ds) : Good(x)
  BY DEF subBatchEnd, Size
<1>7. e \in first..Len(ds)
  OBVIOUS
<1> HIDE DEF Good, T
<1>8. subBatchEnd(ds, first) \in first..Len(ds) /\ Good(subBatchEnd(ds, first))
  BY <1>5, <1>6, <1>7
<1> QED BY <1>8 DEF Good, Size

\* The sub-batch to send is the next documents, one at least, and no more than
\* fit in a request unless it is one alone.
LEMMA SubBatches ==
    ASSUME docs \in Seq(Ids), start \in 1..Len(docs)
    PROVE  /\ SubBatch \in Seq(Ids)
           /\ Len(SubBatch) \in Nat /\ Len(SubBatch) >= 1
           /\ start + Len(SubBatch) - 1 <= Len(docs)
           /\ \A i \in 1..Len(SubBatch) : SubBatch[i] = docs[start + i - 1]
           /\ Len(SubBatch) = 1 \/ BodySize(SubBatch) <= MaxBody
<1> DEFINE e == subBatchEnd(docs, start)
           sub == SubSeq(docs, start, e)
<1>1. Len(docs) \in Nat /\ \A i \in 1..Len(docs) : docs[i] \in Ids
  BY LenProperties, ElementOfSeq
<1>2. e \in start..Len(docs) /\ (e = start \/ BodySize(sub) <= MaxBody)
  BY SubBatchEnds
<1>3. SubBatch = sub
  BY DEF SubBatch
<1> HIDE DEF e
<1>4. \A i \in start..e : docs[i] \in Ids
  BY <1>1, <1>2
<1>5. /\ sub \in Seq(Ids)
      /\ Len(sub) = IF start <= e THEN e - start + 1 ELSE 0
      /\ \A i \in 1..(e - start + 1) : sub[i] = docs[start + i - 1]
  <2>1. start \in Int /\ e \in Int
    BY <1>1, <1>2
  <2> QED BY <1>4, <2>1, SubSeqProperties
<1>6. Len(sub) = e - start + 1
  BY <1>1, <1>2, <1>5
<1> HIDE DEF sub
<1>7. Len(sub) \in Nat /\ Len(sub) >= 1 /\ start + Len(sub) - 1 <= Len(docs)
  BY <1>1, <1>2, <1>6
<1>8. Len(sub) = 1 \/ BodySize(sub) <= MaxBody
  BY <1>1, <1>2, <1>6
<1> QED BY <1>3, <1>5, <1>6, <1>7, <1>8

-----------------------------------------------------------------------------
(* The lines of a request *)

\* Every document adds itself and its children to the lines.
LEMMA LinesStep ==
    ASSUME NEW sub \in Seq(Ids)
    PROVE  /\ Len(sub) \in Nat /\ DOMAIN sub = 1..Len(sub)
           /\ \A i \in 1..Len(sub) : sub[i] \in Ids
           /\ Lines(sub) \in [0..Len(sub) -> Nat] /\ Lines(sub)[0] = 0
           /\ \A i \in 1..Len(sub) :
                 Lines(sub)[i] = Lines(sub)[i - 1] + Len(Messages[sub[i]].sizes)
           /\ \A i \in 0..Len(sub) : \A j \in i..Len(sub) : Lines(sub)[i] <= Lines(sub)[j]
<1> DEFINE s == [i \in DOMAIN sub |-> Len(Messages[sub[i]].sizes)]
<1>1. /\ Len(sub) \in Nat /\ DOMAIN sub = 1..Len(sub)
      /\ \A i \in 1..Len(sub) : sub[i] \in Ids
  BY LenProperties, ElementOfSeq
<1>2. \A i \in 1..Len(sub) : Len(Messages[sub[i]].sizes) \in Nat
  BY <1>1, MessageShapes
<1>3. s = [i \in 1..Len(sub) |-> Len(Messages[sub[i]].sizes)]
  BY <1>1
<1>4. /\ s \in Seq(Nat) /\ Len(s) = Len(sub)
      /\ \A i \in 1..Len(sub) : s[i] = Len(Messages[sub[i]].sizes)
  <2> HIDE DEF s
  <2> QED BY <1>1, <1>2, <1>3
<1>5. Lines(sub) = Sums(s)
  BY DEF Lines
<1> HIDE DEF s
<1>6. /\ Sums(s) \in [0..Len(s) -> Nat] /\ Sums(s)[0] = 0
      /\ \A n \in 1..Len(s) : Sums(s)[n] = Sums(s)[n - 1] + s[n]
  BY <1>4, SumsStep
<1>7. \A i \in 0..Len(s) : \A j \in i..Len(s) : Sums(s)[i] <= Sums(s)[j]
  BY <1>4, SumsMonotone
<1> QED BY <1>1, <1>4, <1>5, <1>6, <1>7

\* A line between the sums of the documents before it and with it is a document's
\* own: the one for its place there.
LEMMA BodyAt ==
    ASSUME NEW sub \in Seq(Ids), NEW i \in 1..Len(sub),
           NEW k \in 1..Len(Messages[sub[i]].sizes)
    PROVE  /\ Lines(sub)[i - 1] + k \in 1..Lines(sub)[Len(sub)]
           /\ Body(sub)[Lines(sub)[i - 1] + k] = <<sub[i], k>>
<1> DEFINE L == Lines(sub)
           n == Len(sub)
           p == L[i - 1] + k
           Holds(j) == L[j - 1] < p /\ p <= L[j]
<1>1. /\ n \in Nat /\ DOMAIN sub = 1..n /\ L \in [0..n -> Nat]
      /\ \A j \in 1..n : sub[j] \in Ids
      /\ \A j \in 1..n : L[j] = L[j - 1] + Len(Messages[sub[j]].sizes)
      /\ \A j \in 0..n : \A h \in j..n : L[j] <= L[h]
  BY LinesStep
<1>2. Len(Messages[sub[i]].sizes) \in Nat
  BY <1>1, MessageShapes
<1>3. Body(sub) = [q \in 1..L[n] |->
                      LET j == CHOOSE j \in 1..n : L[j - 1] < q /\ q <= L[j]
                      IN <<sub[j], q - L[j - 1]>>]
  BY <1>1 DEF Body
<1> HIDE DEF L
<1>4. i - 1 \in 0..n /\ i \in 0..n /\ L[i - 1] \in Nat /\ L[i] \in Nat /\ L[n] \in Nat
  BY <1>1
<1>5. p \in Nat /\ Holds(i) /\ p >= 1
  BY <1>1, <1>2, <1>4
<1>6. p \in 1..L[n]
  <2>1. L[i] <= L[n]
    BY <1>1, <1>4
  <2> QED BY <2>1, <1>4, <1>5
<1>7. ASSUME NEW j \in 1..n, Holds(j) PROVE j = i
  <2>0. n \in Nat /\ j - 1 \in 0..n /\ j \in 0..n
    <3> HIDE DEF Holds, p
    <3>1. n \in Nat
      BY <1>1
    <3> QED BY <3>1
  <2>1. j - 1 \in 0..n /\ j \in 0..n /\ L[j - 1] \in Nat /\ L[j] \in Nat
    <3> HIDE DEF Holds, p
    <3> QED BY <2>0, <1>1
  <2>2. CASE j < i
    <3>1. i - 1 \in j..n
      BY <2>1, <2>2, <1>4, <1>1
    <3>2. L[j] <= L[i - 1]
      BY <3>1, <2>1, <1>1
    <3> QED BY <3>2, <2>1, <1>4, <1>5, <1>7
  <2>3. CASE j > i
    <3>1. j - 1 \in i..n
      BY <2>1, <2>3, <1>4, <1>1
    <3>2. L[i] <= L[j - 1]
      BY <3>1, <1>4, <1>1
    <3> QED BY <3>2, <2>1, <1>4, <1>5, <1>7
  <2> QED BY <2>2, <2>3, <1>1
<1>8. Body(sub)[p] = <<sub[CHOOSE j \in 1..n : Holds(j)],
                       p - L[(CHOOSE j \in 1..n : Holds(j)) - 1]>>
  BY <1>3, <1>6
<1>9. (CHOOSE j \in 1..n : Holds(j)) = i
  <2> HIDE DEF Holds
  <2> QED BY <1>5, <1>7
<1>10. p - L[i - 1] = k
  BY <1>4
<1>11. Body(sub)[p] = <<sub[i], k>>
  <2> HIDE DEF Holds, p
  <2> QED BY <1>8, <1>9, <1>10
<1> QED BY <1>6, <1>11 DEF L

\* A body is the lines of all its documents, and every line is a document of one
\* of the messages.
LEMMA BodyShape ==
    ASSUME NEW sub \in Seq(Ids)
    PROVE  /\ Lines(sub)[Len(sub)] \in Nat
           /\ DOMAIN Body(sub) = 1..Lines(sub)[Len(sub)]
           /\ Len(Body(sub)) = Lines(sub)[Len(sub)]
           /\ \A p \in DOMAIN Body(sub) :
                 \E i \in 1..Len(sub) : Body(sub)[p] \in DocumentsOf(sub[i])
<1> DEFINE L == Lines(sub)
           n == Len(sub)
<1>1. /\ n \in Nat /\ DOMAIN sub = 1..n /\ L \in [0..n -> Nat] /\ L[0] = 0
      /\ \A j \in 1..n : sub[j] \in Ids
      /\ \A j \in 1..n : L[j] = L[j - 1] + Len(Messages[sub[j]].sizes)
  BY LinesStep
<1>2. L[n] \in Nat
  BY <1>1
<1>3. DOMAIN Body(sub) = 1..L[n] /\ Len(Body(sub)) = L[n]
  BY <1>2 DEF Body
<1> HIDE DEF L
<1>4. ASSUME NEW p \in 1..L[n]
      PROVE  \E i \in 1..n : Body(sub)[p] \in DocumentsOf(sub[i])
  <2> DEFINE T == {i \in 0..n : p <= L[i]}
  <2>1. n \in T /\ T \subseteq Nat
    BY <1>1
  <2>2. PICK i \in T : \A other \in T : i <= other
    <3> HIDE DEF T
    <3> QED BY <2>1, NatMin
  <2>3. i \in 1..n
    <3>1. i \in 0..n /\ p <= L[i] /\ ~ (p <= 0)
      OBVIOUS
    <3>2. i # 0
      BY <3>1, <1>1
    <3> QED BY <3>1, <3>2, <1>1
  <2>4. i - 1 \in 0..n /\ i - 1 \notin T
    BY <2>2, <2>3, <1>1
  <2>5. L[i - 1] \in Nat /\ L[i - 1] < p
    BY <2>4, <1>1
  <2>6. sub[i] \in Ids /\ Len(Messages[sub[i]].sizes) \in Nat
    BY <2>3, <1>1, MessageShapes
  <2>7. p <= L[i - 1] + Len(Messages[sub[i]].sizes)
    BY <2>3, <1>1
  <2> DEFINE k == p - L[i - 1]
  <2>8. k \in 1..Len(Messages[sub[i]].sizes) /\ L[i - 1] + k = p
    BY <1>2, <2>5, <2>6, <2>7
  <2> HIDE DEF k
  <2>9. Body(sub)[p] = <<sub[i], k>>
    BY <2>3, <2>8, BodyAt DEF L
  <2>10. k \in DOMAIN Messages[sub[i]].sizes
    BY <2>6, <2>8, MessageShapes
  <2> QED BY <2>3, <2>9, <2>10 DEF DocumentsOf
<1> QED BY <1>2, <1>3, <1>4 DEF L

-----------------------------------------------------------------------------
(* The answers of a request *)

\* The answers to a body: those delayed meet an overload or a conflict, the last
\* may be missing.
AnswersTo(body, delayed, status, cut) ==
    SubSeq([p \in DOMAIN body |-> IF p \in delayed THEN status ELSE Answer(body[p])],
           1, Len(body) - cut)

Taken(body, delayed) == {p \in DOMAIN body \ delayed : Answer(body[p]) = 201}

\* The documents taken.
TakenDocuments(body, delayed) == {body[p] : p \in Taken(body, delayed)}

\* A result that settles its message.
Definite(result) == OK(result) \/ isPermanentStatus(result)

\* A result tells the truth of a message, when these documents are in the index.
Truthful(m, result, there) ==
    /\ OK(result) => DocumentsOf(m) \subseteq there
    /\ isPermanentStatus(result) => DocumentsOf(m) \cap Refused # {}

\* What an answer says of the line at its position, if there is one.
LEMMA AnswerAt ==
    ASSUME NEW body, NEW n \in Nat, DOMAIN body = 1..n, Len(body) = n,
           NEW delayed, NEW status \in {409, 429, 503}, NEW cut \in 0..1,
           NEW pos \in 1..n
    PROVE  LET answer == bulkItemResult(AnswersTo(body, delayed, status, cut), pos)
           IN /\ answer \in Statuses \ {413}
              /\ OK(answer) => pos \in Taken(body, delayed)
              /\ isPermanentStatus(answer) => body[pos] \in Refused
              /\ delayed = {} /\ cut = 0 => Definite(answer)
<1> DEFINE all == [p \in DOMAIN body |-> IF p \in delayed THEN status ELSE Answer(body[p])]
           answers == AnswersTo(body, delayed, status, cut)
           answer == bulkItemResult(answers, pos)
           Fits(a) == /\ a \in Statuses \ {413}
                      /\ OK(a) => pos \in Taken(body, delayed)
                      /\ isPermanentStatus(a) => body[pos] \in Refused
                      /\ delayed = {} /\ cut = 0 => Definite(a)
<1> SUFFICES Fits(answer)
  OBVIOUS
<1>1. \A p \in 1..n : all[p] \in Statuses
  BY DEF Answer, Statuses
<1>2. all[pos] = IF pos \in delayed THEN status ELSE Answer(body[pos])
  OBVIOUS
<1>3. answers = SubSeq(all, 1, n - cut)
  BY DEF AnswersTo
<1> HIDE DEF all, answers
<1>4. /\ Len(answers) = IF 1 <= n - cut THEN n - cut - 1 + 1 ELSE 0
      /\ \A i \in 1..(n - cut - 1 + 1) : answers[i] = all[1 + i - 1]
  <2>1. \A i \in 1..(n - cut) : all[i] \in Statuses
    BY <1>1
  <2>2. 1 \in Int /\ n - cut \in Int
    OBVIOUS
  <2> QED BY <1>3, <2>1, <2>2, SubSeqProperties
<1>5. pos <= Len(answers) => answers[pos] = all[pos]
  <2> SUFFICES ASSUME pos <= Len(answers) PROVE answers[pos] = all[pos]
    OBVIOUS
  <2>1. pos \in 1..(n - cut - 1 + 1) /\ 1 + pos - 1 = pos
    BY <1>4
  <2> QED BY <2>1, <1>4
<1>6. answer = 0 \/ answer = all[pos]
  BY <1>5 DEF bulkItemResult
<1>7. all[pos] = status \/ (pos \notin delayed /\ all[pos] = Answer(body[pos]))
  BY <1>2
<1>8. ASSUME delayed = {}, cut = 0 PROVE answer = Answer(body[pos])
  <2>1. pos <= Len(answers)
    BY <1>4, <1>8
  <2>2. answer = all[pos]
    BY <2>1, <1>5 DEF bulkItemResult
  <2> QED BY <2>2, <1>2, <1>8
<1> HIDE DEF answer
<1>9. (Answer(body[pos]) = 400 /\ body[pos] \in Refused) \/ Answer(body[pos]) = 201
  BY DEF Answer
<1>10. delayed = {} /\ cut = 0 => Definite(answer)
  <2>1. OK(201) /\ isPermanentStatus(400)
    BY DEF OK, isPermanentStatus
  <2> QED BY <2>1, <1>8, <1>9 DEF Definite
<1>11. CASE answer = 0 \/ answer = status
  <2>1. ~OK(answer) /\ ~isPermanentStatus(answer) /\ answer \in Statuses \ {413}
    BY <1>11 DEF OK, isPermanentStatus, Statuses
  <2> QED BY <2>1, <1>10
<1>12. CASE pos \notin delayed /\ answer = Answer(body[pos])
  <2>1. CASE answer = 400 /\ body[pos] \in Refused
    <3>1. ~OK(answer) /\ answer \in Statuses \ {413}
      BY <2>1 DEF OK, Statuses
    <3> QED BY <2>1, <3>1, <1>10
  <2>2. CASE answer = 201
    <3>1. ~isPermanentStatus(answer) /\ answer \in Statuses \ {413}
      BY <2>2 DEF isPermanentStatus, Statuses
    <3>2. pos \in Taken(body, delayed)
      BY <2>2, <1>12 DEF Taken
    <3> QED BY <3>1, <3>2, <1>10
  <2> QED BY <2>1, <2>2, <1>9, <1>12
<1>13. answer = 0 \/ answer = status \/ (pos \notin delayed /\ answer = Answer(body[pos]))
  BY <1>6, <1>7 DEF answer
<1> QED BY <1>11, <1>12, <1>13

\* What the results of a request say: a document found written has all its lines
\* among those taken, and one found bad for good has a refused line.
Tell(sub, results, there, delayed, cut) ==
    /\ results \in Seq(Statuses) /\ Len(results) = Len(sub)
    /\ \A i \in 1..Len(sub) : Truthful(sub[i], results[i], there)
    /\ delayed = {} /\ cut = 0 => \A i \in 1..Len(sub) : Definite(results[i])

\* The results mapBulkResults makes of the answers to a whole request do so.
LEMMA ResultsTold ==
    ASSUME NEW sub \in Seq(Ids), NEW delayed, NEW status \in {409, 429, 503},
           NEW cut \in 0..1
    PROVE  Tell(sub, mapBulkResults(sub, AnswersTo(Body(sub), delayed, status, cut)),
                TakenDocuments(Body(sub), delayed), delayed, cut)
<1> DEFINE body == Body(sub)
           answers == AnswersTo(body, delayed, status, cut)
           results == mapBulkResults(sub, answers)
           Len1(i) == Len(Messages[sub[i]].sizes)
           Line(i, k) == Lines(sub)[i - 1] + k
           Told(i, k) == bulkItemResult(answers, Line(i, k))
           there == TakenDocuments(body, delayed)
<1> SUFFICES /\ results \in Seq(Statuses) /\ Len(results) = Len(sub)
             /\ \A i \in 1..Len(sub) : Truthful(sub[i], results[i], there)
             /\ delayed = {} /\ cut = 0 => \A i \in 1..Len(sub) : Definite(results[i])
  BY DEF Tell
<1>1. /\ Len(sub) \in Nat /\ DOMAIN sub = 1..Len(sub)
      /\ \A i \in 1..Len(sub) : sub[i] \in Ids
      /\ \A i \in 1..Len(sub) : Lines(sub)[i - 1] \in Nat
  <2>1. /\ Len(sub) \in Nat /\ DOMAIN sub = 1..Len(sub)
        /\ \A i \in 1..Len(sub) : sub[i] \in Ids
        /\ Lines(sub) \in [0..Len(sub) -> Nat]
    BY LinesStep
  <2> QED BY <2>1
<1>2. \A i \in 1..Len(sub) : /\ Len1(i) \in Nat /\ Len1(i) >= 1
                             /\ DOMAIN Messages[sub[i]].sizes = 1..Len1(i)
  BY <1>1, MessageShapes
<1>3. /\ Lines(sub)[Len(sub)] \in Nat
      /\ DOMAIN body = 1..Lines(sub)[Len(sub)] /\ Len(body) = Lines(sub)[Len(sub)]
  BY BodyShape
<1>4. \A i \in 1..Len(sub) : \A k \in 1..Len1(i) :
         Line(i, k) \in 1..Lines(sub)[Len(sub)] /\ body[Line(i, k)] = <<sub[i], k>>
  <2> SUFFICES ASSUME NEW i \in 1..Len(sub), NEW k \in 1..Len1(i)
               PROVE  /\ Line(i, k) \in 1..Lines(sub)[Len(sub)]
                      /\ body[Line(i, k)] = <<sub[i], k>>
    OBVIOUS
  <2> HIDE DEF answers, results, Told, there
  <2>1. Lines(sub)[i - 1] + k \in 1..Lines(sub)[Len(sub)]
    BY BodyAt
  <2>2. Body(sub)[Lines(sub)[i - 1] + k] = <<sub[i], k>>
    BY BodyAt
  <2> QED BY <2>1, <2>2
<1> HIDE DEF body
<1>5. \A i \in 1..Len(sub) : \A k \in 1..Len1(i) :
         /\ Told(i, k) \in Statuses
         /\ OK(Told(i, k)) => Line(i, k) \in Taken(body, delayed)
         /\ isPermanentStatus(Told(i, k)) => body[Line(i, k)] \in Refused
         /\ delayed = {} /\ cut = 0 => Definite(Told(i, k))
  <2> SUFFICES ASSUME NEW i \in 1..Len(sub), NEW k \in 1..Len1(i)
               PROVE  /\ Told(i, k) \in Statuses
                      /\ OK(Told(i, k)) => Line(i, k) \in Taken(body, delayed)
                      /\ isPermanentStatus(Told(i, k)) => body[Line(i, k)] \in Refused
                      /\ delayed = {} /\ cut = 0 => Definite(Told(i, k))
    OBVIOUS
  <2>1. Line(i, k) \in 1..Lines(sub)[Len(sub)]
    BY <1>4
  <2> HIDE DEF Line
  <2> QED BY <2>1, <1>3, AnswerAt
<1> HIDE DEF answers
<1>6. ASSUME NEW i \in 1..Len(sub) 
      PROVE /\ results[i] \in Statuses /\ Truthful(sub[i], results[i], there)
            /\ delayed = {} /\ cut = 0 => Definite(results[i])
  <2> DEFINE first == FirstAnswer(sub, i)
             mine == [k \in DOMAIN Messages[sub[i]].sizes |->
                         bulkItemResult(answers, first + k - 1)]
             bad == {k \in DOMAIN mine : ~OK(mine[k])}
             least == CHOOSE k \in bad : \A other \in bad : k <= other
  <2>1. results[i] = IF bad = {} THEN mine[1] ELSE mine[least]
    BY <1>1 DEF mapBulkResults
  <2>2. \A k \in 1..Len1(i) : first + k - 1 = Line(i, k)
    BY <1>1, <1>2 DEF FirstAnswer
  <2>3. DOMAIN mine = 1..Len1(i) /\ \A k \in 1..Len1(i) : mine[k] = Told(i, k)
    <3> HIDE DEF first, Line
    <3> QED BY <1>2, <2>2
  <2> HIDE DEF mine, results
  <2>4. bad \subseteq 1..Len1(i) /\ \A k \in 1..Len1(i) : k \notin bad => OK(Told(i, k))
    <3> HIDE DEF Told
    <3> QED BY <2>3
  <2>5. CASE bad = {}
    <3>1. \A k \in 1..Len1(i) : OK(Told(i, k))
      BY <2>4, <2>5
    <3>2. DocumentsOf(sub[i]) \subseteq there
      <4> SUFFICES ASSUME NEW d \in DocumentsOf(sub[i])
                   PROVE  d \in there
        OBVIOUS
      <4> HIDE DEF Line, Told, Len1
      <4>1. PICK k \in 1..Len1(i) : d = <<sub[i], k>>
        BY <1>2 DEF DocumentsOf
      <4>2. Line(i, k) \in Taken(body, delayed)
        BY <3>1, <1>5
      <4>3. body[Line(i, k)] = <<sub[i], k>>
        BY <1>4
      <4> QED BY <4>1, <4>2, <4>3 DEF TakenDocuments
    <3>3. results[i] = Told(i, 1) /\ 1 \in 1..Len1(i)
      BY <2>1, <2>3, <2>5, <1>2
    <3>4. results[i] \in Statuses /\ OK(results[i])
      BY <3>1, <3>3, <1>5
    <3>5. ~isPermanentStatus(results[i])
      BY <3>4 DEF OK, isPermanentStatus, Statuses
    <3> QED BY <3>2, <3>4, <3>5 DEF Truthful, Definite
  <2>6. CASE bad # {}
    <3>1. bad \subseteq Nat
      BY <2>4, <1>2
    <3>2. least \in bad
      <4> HIDE DEF bad
      <4>1. \E k \in bad : \A other \in bad : k <= other
        BY <3>1, <2>6, NatMin
      <4> QED BY <4>1
    <3>3. least \in 1..Len1(i) /\ ~OK(mine[least]) /\ results[i] = mine[least]
      BY <3>2, <2>1, <2>4, <2>6
    <3> HIDE DEF least, bad
    <3>4. results[i] = Told(i, least) /\ ~OK(results[i])
      BY <3>3, <2>3
    <3>5. isPermanentStatus(results[i]) => <<sub[i], least>> \in Refused
      <4> HIDE DEF Line, Told, Len1
      <4>1. body[Line(i, least)] = <<sub[i], least>>
        BY <3>3, <1>4
      <4>2. isPermanentStatus(Told(i, least)) => body[Line(i, least)] \in Refused
        BY <3>3, <1>5
      <4> QED BY <3>4, <4>1, <4>2
    <3>6. <<sub[i], least>> \in DocumentsOf(sub[i])
      BY <3>3, <1>2 DEF DocumentsOf
    <3>7. results[i] \in Statuses /\ (delayed = {} /\ cut = 0 => Definite(results[i]))
      BY <3>3, <3>4, <1>5
    <3> QED BY <3>4, <3>5, <3>6, <3>7 DEF Truthful
  <2> QED BY <2>5, <2>6
<1>7. results \in Seq(Statuses) /\ Len(results) = Len(sub)
  <2>1. DOMAIN results = 1..Len(sub) /\ results = [i \in DOMAIN results |-> results[i]]
    BY <1>1 DEF mapBulkResults
  <2> HIDE DEF results, there
  <2>2. \A i \in 1..Len(sub) : results[i] \in Statuses
    BY <1>6
  <2> QED BY <1>1, <2>1, <2>2
<1> HIDE DEF results, there
<1> QED BY <1>6, <1>7

-----------------------------------------------------------------------------
(* The inductive invariant *)

\* A result is justified: written means all there, and bad for good has a cause.
Justified(m, result, there) ==
    /\ OK(result) => DocumentsOf(m) \subseteq there
    /\ isPermanentStatus(result) =>
          encodedDocSize[m] > MaxBody \/ DocumentsOf(m) \cap Refused # {}

\* Positions lead from a document to its message and from a result to its document.
Aligned ==
    /\ docIdx \in Seq(Nat)
    /\ Len(docRes) <= Len(docs)
    /\ pc = "send" => Len(out) = Len(remaining)
    /\ pc = "send" =>
          \A i \in 1..Len(remaining) :
             IF out[i] = 400 THEN ~Messages[remaining[i]].convertible
             ELSE \E j \in 1..Len(docs) : docIdx[j] = i
    /\ \A j \in 1..Len(docs) :
          docIdx[j] \in 1..Len(remaining) /\ docs[j] = remaining[docIdx[j]]

\* Every result obtained so far is justified.
ResultsJustified == \A j \in 1..Len(docRes) : Justified(docs[j], docRes[j], stored)

\* Only open messages of the batch are handed in, and all of them.
OnlyOpen ==
    \A i \in 1..Len(remaining) : remaining[i] \in Batch /\ settled[remaining[i]] = "open"

NothingDropped ==
    \A m \in Batch : settled[m] = "open" => \E i \in DOMAIN remaining : remaining[i] = m

\* A call that is one too many for the faults so far has not met one itself.
Paid ==
    /\ RetriesPaidFor
    /\ pc = "send" /\ attempt = faults =>
          ~failed /\ \A j \in 1..Len(docRes) : Definite(docRes[j])

IInv ==
    /\ TypeOK /\ Aligned /\ ResultsJustified /\ OnlyOpen /\ NothingDropped /\ Paid
    /\ OkIsStored /\ DeadForCause /\ RequestsFit

\* The sequences of a state have their lengths as domains and their elements.
LEMMA Sequences ==
    ASSUME IInv
    PROVE  /\ Len(remaining) \in Nat /\ DOMAIN remaining = 1..Len(remaining)
           /\ \A i \in 1..Len(remaining) : remaining[i] \in Ids
           /\ Len(docs) \in Nat /\ DOMAIN docs = 1..Len(docs)
           /\ \A j \in 1..Len(docs) : docs[j] \in Ids
           /\ Len(docRes) \in Nat /\ DOMAIN docRes = 1..Len(docRes)
           /\ \A j \in 1..Len(docRes) : docRes[j] \in Statuses
           /\ DOMAIN docIdx = 1..Len(docs)
<1>1. /\ remaining \in Seq(Ids) /\ docs \in Seq(Ids) /\ docRes \in Seq(Statuses)
      /\ docIdx \in Seq(Nat) /\ Len(docIdx) = Len(docs)
  BY DEF IInv, TypeOK, Aligned
<1>2. Len(remaining) \in Nat /\ DOMAIN remaining = 1..Len(remaining)
      /\ \A i \in 1..Len(remaining) : remaining[i] \in Ids
  BY <1>1, LenProperties, ElementOfSeq
<1>3. Len(docs) \in Nat /\ DOMAIN docs = 1..Len(docs)
      /\ \A j \in 1..Len(docs) : docs[j] \in Ids
  BY <1>1, LenProperties, ElementOfSeq
<1>4. Len(docRes) \in Nat /\ DOMAIN docRes = 1..Len(docRes)
      /\ \A j \in 1..Len(docRes) : docRes[j] \in Statuses
  BY <1>1, LenProperties, ElementOfSeq
<1>5. DOMAIN docIdx = 1..Len(docs)
  BY <1>1, LenProperties
<1> QED BY <1>2, <1>3, <1>4, <1>5

\* A batch is handed in.
LEMMA InitInv == Init => IInv
<1> SUFFICES ASSUME Init PROVE IInv
  OBVIOUS
<1> DEFINE chosen == {m \in Ids : caller = "consumer" \/ Messages[m].convertible}
<1>0. Batch = chosen
  BY DEF Batch
<1>1. Len(Messages) \in Nat /\ Ids = 1..Len(Messages)
  BY MessageShapes
<1>2. remaining = InOrder(Len(Messages), chosen)
  BY DEF Init
<1>3. Lists(remaining, Len(Messages), chosen)
  <2> HIDE DEF chosen
  <2> QED BY <1>1, <1>2, InOrderLists
<1>4. remaining \in Seq(Ids)
  BY <1>1, <1>3 DEF Lists
<1>5. /\ Len(remaining) \in Nat /\ DOMAIN remaining = 1..Len(remaining)
      /\ \A i \in 1..Len(remaining) : remaining[i] \in Ids
  BY <1>4, LenProperties, ElementOfSeq
<1>6. /\ caller \in {"consumer", "backfill"} /\ pc = "call" /\ attempt = 0
      /\ settled = [m \in Ids |-> "open"]
      /\ docs = <<>> /\ docIdx = <<>> /\ out = <<>> /\ docRes = <<>>
      /\ start = 1 /\ failed = FALSE /\ sent = 0 /\ stored = {} /\ faults = 0
  BY DEF Init
<1>7. MaxBody \in Nat /\ MaxFaults \in Nat
  BY BulkAssumption
<1>8. TypeOK
  <2>1. /\ settled \in [Ids -> {"open", "ok", "dead"}]
        /\ stored \subseteq UNION {DocumentsOf(m) : m \in Ids}
    BY <1>6
  <2>2. /\ docs \in Seq(Ids) /\ out \in Seq({0, 400}) /\ docRes \in Seq(Statuses)
        /\ Len(docs) = 0 /\ Len(docIdx) = 0 /\ Len(docRes) = 0
    BY <1>6
  <2>3. start = Len(docRes) + 1 /\ sent \in Nat /\ faults \in 0..MaxFaults
    BY <1>6, <1>7, <2>2
  <2>4. pc \in {"call", "send", "done"} /\ failed \in BOOLEAN /\ attempt \in Nat
    BY <1>6
  <2> QED BY <1>4, <1>6, <2>1, <2>2, <2>3, <2>4 DEF TypeOK
<1>9. Aligned /\ ResultsJustified
  BY <1>6 DEF Aligned, ResultsJustified
<1>10. OnlyOpen
  <2> HIDE DEF chosen
  <2>1. \A i \in 1..Len(remaining) : remaining[i] \in chosen
    BY <1>3 DEF Lists
  <2> QED BY <2>1, <1>0, <1>5, <1>6 DEF OnlyOpen
<1>11. NothingDropped
  <2> SUFFICES ASSUME NEW m \in chosen
               PROVE  \E i \in DOMAIN remaining : remaining[i] = m
    BY <1>0 DEF NothingDropped
  <2>1. m \in chosen /\ m \in 1..Len(Messages)
    BY <1>1
  <2> HIDE DEF chosen
  <2> QED BY <2>1, <1>3, <1>5 DEF Lists
<1>12. OkIsStored /\ DeadForCause
  BY <1>6 DEF OkIsStored, DeadForCause
<1>13. RequestsFit
  BY <1>6, <1>7 DEF RequestsFit
<1>14. Paid
  BY <1>6 DEF Paid, RetriesPaidFor
<1> QED BY <1>8, <1>9, <1>10, <1>11, <1>12, <1>13, <1>14 DEF IInv

\* Conversion lists the documents and the positions they come from.
LEMMA ConvertInv == IInv /\ Convert => IInv'
<1> SUFFICES ASSUME IInv, Convert PROVE IInv'
  OBVIOUS
<1> DEFINE chosen == Convertible(remaining)
           order == InOrder(Len(remaining), chosen)
<1>1. remaining \in Seq(Ids) /\ Len(remaining) \in Nat /\ DOMAIN remaining = 1..Len(remaining)
  BY Sequences DEF IInv, TypeOK
<1>2. /\ pc = "call" /\ docs' = At(remaining, chosen) /\ docIdx' = order
      /\ out' = [i \in DOMAIN remaining |->
                    IF Messages[remaining[i]].convertible THEN 0 ELSE 400]
      /\ docRes' = <<>> /\ start' = 1 /\ failed' = FALSE /\ pc' = "send"
      /\ caller' = caller /\ remaining' = remaining /\ settled' = settled
      /\ sent' = sent /\ stored' = stored /\ faults' = faults /\ attempt' = attempt
  BY DEF Convert
<1>15. \A i \in 1..Len(remaining) : Messages[remaining[i]].convertible => i \in chosen
  BY <1>1 DEF Convertible
<1> HIDE DEF chosen
<1>3. Lists(order, Len(remaining), chosen)
  BY <1>1, InOrderLists
<1>4. /\ docs' \in Seq(Ids) /\ Len(docs') = Len(order)
      /\ \A j \in 1..Len(order) : order[j] \in 1..Len(remaining) /\ docs'[j] = remaining[order[j]]
  BY <1>1, <1>2, AtProperties
<1> HIDE DEF order
<1>5. order \in Seq(Nat)
  <2>1. order \in Seq(1..Len(remaining)) /\ 1..Len(remaining) \subseteq Nat
    BY <1>1, <1>3 DEF Lists
  <2> QED BY <2>1, SeqMonotonic
<1>6. out' = [i \in 1..Len(remaining) |-> IF Messages[remaining[i]].convertible THEN 0 ELSE 400]
  BY <1>1, <1>2
<1>7. /\ out' \in Seq({0, 400}) /\ Len(out') = Len(remaining)
      /\ \A i \in 1..Len(remaining) :
            IF out'[i] = 400 THEN ~Messages[remaining[i]].convertible
            ELSE \E j \in 1..Len(docs') : docIdx'[j] = i
  <2>1. /\ out' \in Seq({0, 400}) /\ Len(out') = Len(remaining)
        /\ \A i \in 1..Len(remaining) :
              IF out'[i] = 400 THEN ~Messages[remaining[i]].convertible
              ELSE Messages[remaining[i]].convertible
    BY <1>1, <1>6
  <2>2. \A i \in 1..Len(remaining) :
           Messages[remaining[i]].convertible => \E j \in 1..Len(docs') : docIdx'[j] = i
    BY <1>2, <1>3, <1>4, <1>15 DEF Lists
  <2> QED BY <2>1, <2>2
<1>8. TypeOK'
  <2>1. docRes' \in Seq(Statuses) /\ Len(docRes') = 0
    BY <1>2
  <2>2. /\ caller' \in {"consumer", "backfill"} /\ pc' \in {"call", "send", "done"}
        /\ remaining' \in Seq(Ids) /\ settled' \in [Ids -> {"open", "ok", "dead"}]
        /\ failed' \in BOOLEAN /\ sent' \in Nat /\ attempt' \in Nat
        /\ stored' \subseteq UNION {DocumentsOf(m) : m \in Ids}
        /\ faults' \in 0..MaxFaults
    BY <1>1, <1>2 DEF IInv, TypeOK
  <2>3. Len(docIdx') = Len(docs') /\ start' = Len(docRes') + 1
    BY <1>2, <1>4, <2>1
  <2> QED BY <1>4, <1>7, <2>1, <2>2, <2>3 DEF TypeOK
<1>9. Len(docs') \in Nat /\ Len(docRes') = 0
  BY <1>2, <1>4, LenProperties
<1>10. Aligned'
  <2>1. docIdx' \in Seq(Nat) /\ Len(docRes') <= Len(docs')
    BY <1>2, <1>5, <1>9
  <2>2. /\ Len(out') = Len(remaining')
        /\ \A i \in 1..Len(remaining') :
              IF out'[i] = 400 THEN ~Messages[remaining'[i]].convertible
              ELSE \E j \in 1..Len(docs') : docIdx'[j] = i
    <3>1. remaining' = remaining
      BY <1>2
    <3> QED BY <3>1, <1>7
  <2>3. \A j \in 1..Len(docs') :
           docIdx'[j] \in 1..Len(remaining') /\ docs'[j] = remaining'[docIdx'[j]]
    BY <1>2, <1>4
  <2> QED BY <2>1, <2>2, <2>3 DEF Aligned
<1>11. ResultsJustified'
  BY <1>9 DEF ResultsJustified
<1>12. OnlyOpen' /\ NothingDropped'
  BY <1>2 DEF IInv, OnlyOpen, NothingDropped, Batch
<1>13. OkIsStored' /\ DeadForCause' /\ RequestsFit'
  BY <1>2 DEF IInv, OkIsStored, DeadForCause, RequestsFit
<1>14. Paid'
  <2>1. RetriesPaidFor'
    BY <1>2 DEF IInv, Paid, RetriesPaidFor
  <2> QED BY <2>1, <1>2, <1>9 DEF Paid
<1> QED BY <1>8, <1>10, <1>11, <1>12, <1>13, <1>14 DEF IInv

\* The documents in the index are documents of the batch.
AllDocuments == UNION {DocumentsOf(m) : m \in Ids}

\* Results that are justified, one per document of the sub-batch, can be appended.
LEMMA DealtInv ==
    ASSUME IInv, pc = "send", start <= Len(docs), NEW results,
           Dealt(SubBatch, results),
           results \in Seq(Statuses), Len(results) = Len(SubBatch),
           stored \subseteq stored', stored' \subseteq AllDocuments,
           \A i \in 1..Len(SubBatch) : Justified(SubBatch[i], results[i], stored'),
           failed' \in BOOLEAN, sent' \in Nat, sent' <= MaxBody,
           faults' \in 0..MaxFaults,
           \/ Fault
           \/ /\ UNCHANGED <<faults, failed>>
              /\ \A i \in 1..Len(SubBatch) : Definite(results[i])
    PROVE  IInv'
<1>1. /\ Len(docs) \in Nat /\ \A j \in 1..Len(docs) : docs[j] \in Ids
      /\ Len(docRes) \in Nat /\ DOMAIN docRes = 1..Len(docRes)
      /\ docs \in Seq(Ids) /\ docRes \in Seq(Statuses) /\ start = Len(docRes) + 1
  BY Sequences DEF IInv, TypeOK
<1>2. start \in 1..Len(docs)
  BY <1>1
<1>3. /\ Len(SubBatch) \in Nat /\ Len(SubBatch) >= 1
      /\ start + Len(SubBatch) - 1 <= Len(docs)
      /\ \A i \in 1..Len(SubBatch) : SubBatch[i] = docs[start + i - 1]
  BY <1>1, <1>2, SubBatches
<1>4. /\ docRes' = docRes \o results /\ start' = start + Len(SubBatch)
      /\ caller' = caller /\ pc' = pc /\ settled' = settled
      /\ remaining' = remaining /\ docs' = docs /\ docIdx' = docIdx /\ out' = out
      /\ attempt' = attempt
  BY DEF Dealt, call
<1> DEFINE n == Len(docRes)
<1>5. /\ docRes' \in Seq(Statuses) /\ Len(docRes') = n + Len(SubBatch)
      /\ \A j \in 1..(n + Len(SubBatch)) :
            docRes'[j] = IF j <= n THEN docRes[j] ELSE results[j - n]
  <2>1. /\ docRes \o results \in Seq(Statuses)
        /\ Len(docRes \o results) = Len(docRes) + Len(results)
        /\ \A j \in 1..(Len(docRes) + Len(results)) :
              (docRes \o results)[j] = IF j <= Len(docRes) THEN docRes[j]
                                       ELSE results[j - Len(docRes)]
    BY <1>1, ConcatProperties
  <2>2. docRes' = docRes \o results
    BY <1>4
  <2> QED BY <2>1, <2>2
<1>6. TypeOK'
  <2>1. start' = Len(docRes') + 1
    BY <1>1, <1>3, <1>4, <1>5
  <2>2. /\ caller' \in {"consumer", "backfill"} /\ pc' \in {"call", "send", "done"}
        /\ remaining' \in Seq(Ids) /\ docs' \in Seq(Ids)
        /\ settled' \in [Ids -> {"open", "ok", "dead"}]
        /\ Len(docIdx') = Len(docs') /\ out' \in Seq({0, 400}) /\ attempt' \in Nat
    BY <1>4 DEF IInv, TypeOK
  <2> QED BY <1>5, <2>1, <2>2 DEF TypeOK, AllDocuments
<1>7. Aligned'
  <2>1. Len(docRes') <= Len(docs')
    BY <1>1, <1>3, <1>4, <1>5
  <2> QED BY <1>4, <2>1 DEF IInv, Aligned
<1>8. ResultsJustified'
  <2> SUFFICES ASSUME NEW j \in 1..(n + Len(SubBatch))
               PROVE  Justified(docs[j], docRes'[j], stored')
    BY <1>4, <1>5 DEF ResultsJustified
  <2>1. CASE j <= n
    <3>1. j \in 1..Len(docRes) /\ docRes'[j] = docRes[j]
      BY <2>1, <1>5
    <3>2. Justified(docs[j], docRes[j], stored)
      BY <3>1 DEF IInv, ResultsJustified
    <3> QED BY <3>1, <3>2 DEF Justified
  <2>2. CASE ~ (j <= n)
    <3>1. docRes'[j] = results[j - n]
      BY <2>2, <1>5
    <3>2. j - n \in 1..Len(SubBatch) /\ start + (j - n) - 1 = j
      <4>1. n \in Nat /\ Len(SubBatch) \in Nat /\ start = n + 1
        BY <1>1, <1>3
      <4> HIDE DEF n
      <4> QED BY <2>2, <4>1
    <3>3. SubBatch[j - n] = docs[j]
      BY <3>2, <1>3
    <3> QED BY <3>1, <3>2, <3>3
  <2> QED BY <2>1, <2>2
<1>9. OnlyOpen' /\ NothingDropped'
  BY <1>4 DEF IInv, OnlyOpen, NothingDropped, Batch
<1>10. OkIsStored' /\ DeadForCause'
  BY <1>4 DEF IInv, OkIsStored, DeadForCause
<1>11. RequestsFit'
  BY DEF RequestsFit
<1>12. Paid'
  <2>1. attempt \in Nat /\ faults \in Nat /\ attempt <= faults
    BY BulkAssumption DEF IInv, TypeOK, Paid, RetriesPaidFor
  <2>2. CASE Fault
    <3>1. faults' = faults + 1
      BY <2>2 DEF Fault
    <3>2. attempt' <= faults' /\ attempt' # faults'
      BY <2>1, <3>1, <1>4
    <3> QED BY <3>2 DEF Paid, RetriesPaidFor
  <2>3. CASE UNCHANGED <<faults, failed>> /\ \A i \in 1..Len(SubBatch) : Definite(results[i])
    <3>1. RetriesPaidFor'
      BY <2>1, <2>3, <1>4 DEF RetriesPaidFor
    <3>2. ASSUME attempt = faults, NEW j \in 1..(n + Len(SubBatch))
          PROVE  ~failed /\ Definite(docRes'[j])
      <4>1. ~failed /\ \A k \in 1..n : Definite(docRes[k])
        BY <3>2 DEF IInv, Paid
      <4>2. CASE j <= n
        <5>1. j \in 1..n /\ docRes'[j] = docRes[j]
          BY <4>2, <1>1, <1>5
        <5> QED BY <4>1, <5>1
      <4>3. CASE ~ (j <= n)
        <5>1. docRes'[j] = results[j - n]
          BY <4>3, <1>5
        <5>2. j - n \in 1..Len(SubBatch)
          BY <4>3, <1>1, <1>3
        <5> QED BY <4>1, <5>1, <5>2, <2>3
      <4> QED BY <4>2, <4>3
    <3>3. attempt = faults => ~failed
      BY DEF IInv, Paid
    <3> QED BY <3>1, <3>2, <3>3, <2>3, <1>4, <1>5 DEF Paid
  <2> QED BY <2>2, <2>3
<1> QED BY <1>6, <1>7, <1>8, <1>9, <1>10, <1>11, <1>12 DEF IInv

\* What the sub-batch of a state in the middle of a call is like.
LEMMA NextSubBatch ==
    ASSUME IInv, start <= Len(docs)
    PROVE  /\ SubBatch \in Seq(Ids) /\ Len(SubBatch) \in Nat /\ Len(SubBatch) >= 1
           /\ \A i \in 1..Len(SubBatch) : SubBatch[i] \in Ids
           /\ BodySize(SubBatch) \in Nat
           /\ ~TooLarge(SubBatch) => BodySize(SubBatch) <= MaxBody
<1>1. docs \in Seq(Ids) /\ start \in 1..Len(docs)
  <2>1. /\ docs \in Seq(Ids) /\ Len(docs) \in Nat /\ Len(docRes) \in Nat
        /\ start = Len(docRes) + 1
    BY Sequences DEF IInv, TypeOK
  <2> QED BY <2>1
<1>2. /\ SubBatch \in Seq(Ids) /\ Len(SubBatch) \in Nat /\ Len(SubBatch) >= 1
      /\ Len(SubBatch) = 1 \/ BodySize(SubBatch) <= MaxBody
  BY <1>1, SubBatches
<1>3. \A i \in 1..Len(SubBatch) : SubBatch[i] \in Ids
  BY <1>2, ElementOfSeq
<1>4. BodySize(SubBatch) \in Nat
  BY <1>2, BodySizes
<1>5. ASSUME ~TooLarge(SubBatch), Len(SubBatch) = 1 PROVE BodySize(SubBatch) <= MaxBody
  <2>1. BodySize(SubBatch) = encodedDocSize[SubBatch[1]]
    BY <1>2, <1>5, BodySizes
  <2>2. ~ (encodedDocSize[SubBatch[1]] > MaxBody)
    BY <1>5 DEF TooLarge
  <2>3. MaxBody \in Nat
    BY BulkAssumption
  <2> QED BY <2>1, <2>2, <2>3, <1>4
<1> QED BY <1>2, <1>3, <1>4, <1>5

\* A document too large is given up for its size.
LEMMA OversizeInv == IInv /\ Oversize => IInv'
<1> SUFFICES ASSUME IInv, Oversize PROVE IInv'
  OBVIOUS
<1>1. /\ pc = "send" /\ start <= Len(docs) /\ TooLarge(SubBatch) /\ Dealt(SubBatch, <<413>>)
      /\ failed' = failed /\ sent' = sent /\ stored' = stored /\ faults' = faults
  BY DEF Oversize
<1>2. <<413>> \in Seq(Statuses) /\ Len(<<413>>) = Len(SubBatch) /\ <<413>>[1] = 413
  BY <1>1 DEF TooLarge, Statuses
<1>3. \A i \in 1..Len(SubBatch) : Justified(SubBatch[i], <<413>>[i], stored')
  <2>1. ~OK(413)
    BY DEF OK
  <2>2. Justified(SubBatch[1], 413, stored')
    BY <1>1, <2>1 DEF Justified, TooLarge
  <2>3. \A i \in 1..Len(SubBatch) : i = 1
    BY <1>1 DEF TooLarge
  <2> QED BY <1>2, <2>2, <2>3
<1>4. /\ stored' \subseteq AllDocuments /\ failed' \in BOOLEAN
      /\ sent' \in Nat /\ sent' <= MaxBody /\ faults' \in 0..MaxFaults
  BY <1>1 DEF IInv, TypeOK, RequestsFit, AllDocuments
<1>5. \A i \in 1..Len(SubBatch) : Definite(<<413>>[i])
  <2>1. Definite(413)
    BY DEF Definite, isPermanentStatus
  <2>2. \A i \in 1..Len(SubBatch) : i = 1
    BY <1>1 DEF TooLarge
  <2> QED BY <1>2, <2>1, <2>2
<1> QED BY <1>1, <1>2, <1>3, <1>4, <1>5, DealtInv

\* A fault is within the bound.
LEMMA FaultBound ==
    ASSUME IInv, UNCHANGED faults \/ Fault
    PROVE  faults' \in 0..MaxFaults
<1>1. faults \in 0..MaxFaults /\ MaxFaults \in Nat
  BY BulkAssumption DEF IInv, TypeOK
<1>2. CASE UNCHANGED faults
  BY <1>1, <1>2
<1>3. CASE Fault
  BY <1>1, <1>3 DEF Fault
<1> QED BY <1>2, <1>3

\* Answers are told for the documents they were given for.
LEMMA AnsweredInv == IInv /\ Answered => IInv'
<1> SUFFICES ASSUME IInv, Answered PROVE IInv'
  OBVIOUS
<1> DEFINE sub == SubBatch
           body == Body(SubBatch)
           results(delayed, status, cut) ==
               mapBulkResults(sub, AnswersTo(body, delayed, status, cut))
           there(delayed) == TakenDocuments(body, delayed)
<1>1. /\ pc = "send" /\ start <= Len(docs) /\ ~TooLarge(sub)
      /\ BodySize(sub) <= MaxBody /\ sent' = BodySize(sub) /\ failed' = failed
  BY DEF Answered
<1>2. PICK delayed \in SUBSET DOMAIN body, status \in {409, 429, 503}, cut \in 0..1 :
         /\ IF delayed = {} /\ cut = 0 THEN UNCHANGED faults ELSE Fault
         /\ stored' = stored \cup there(delayed)
         /\ Dealt(sub, results(delayed, status, cut))
  <2> DEFINE Heard(sb, bd) ==
                \E delayed \in SUBSET DOMAIN bd, status \in {409, 429, 503}, cut \in 0..1 :
                   /\ IF delayed = {} /\ cut = 0 THEN UNCHANGED faults ELSE Fault
                   /\ stored' = stored \cup TakenDocuments(bd, delayed)
                   /\ Dealt(sb, mapBulkResults(sb, AnswersTo(bd, delayed, status, cut)))
  <2>1. \E sb \in {SubBatch} : \E bd \in {Body(sb)} : Heard(sb, bd)
    BY DEF Answered, AnswersTo, Taken, TakenDocuments
  <2>2. Heard(SubBatch, Body(SubBatch))
    <3> HIDE DEF Heard
    <3> QED BY <2>1
  <2> QED BY <2>2
<1>3. /\ sub \in Seq(Ids) /\ BodySize(sub) \in Nat
      /\ \A i \in 1..Len(sub) : sub[i] \in Ids
  BY <1>1, NextSubBatch
<1> DEFINE told == results(delayed, status, cut)
<1>4. /\ told \in Seq(Statuses) /\ Len(told) = Len(sub)
      /\ \A i \in 1..Len(sub) : Truthful(sub[i], told[i], there(delayed))
      /\ delayed = {} /\ cut = 0 => \A i \in 1..Len(sub) : Definite(told[i])
  <2>1. told = mapBulkResults(sub, AnswersTo(Body(sub), delayed, status, cut))
    OBVIOUS
  <2>2. there(delayed) = TakenDocuments(Body(sub), delayed)
    OBVIOUS
  <2> HIDE DEF told, there, sub, body
  <2>3. sub \in Seq(Ids)
    BY <1>3
  <2>4. Tell(sub, told, there(delayed), delayed, cut)
    BY <2>1, <2>2, <2>3, ResultsTold
  <2> QED BY <2>4 DEF Tell
<1>5. stored' \subseteq AllDocuments
  <2>1. \A p \in DOMAIN body : body[p] \in AllDocuments
    BY <1>3, BodyShape DEF AllDocuments
  <2>2. there(delayed) \subseteq AllDocuments
    BY <2>1 DEF Taken, TakenDocuments
  <2>3. stored \subseteq AllDocuments
    BY DEF IInv, TypeOK, AllDocuments
  <2> HIDE DEF there
  <2> QED BY <1>2, <2>2, <2>3
<1> HIDE DEF results, there, told
<1>6. \A i \in 1..Len(sub) : Justified(sub[i], told[i], stored')
  <2>1. there(delayed) \subseteq stored'
    BY <1>2
  <2> QED BY <2>1, <1>4 DEF Truthful, Justified
<1>7. faults' \in 0..MaxFaults
  BY <1>2, FaultBound
<1>8. failed' \in BOOLEAN /\ sent' \in Nat /\ sent' <= MaxBody
  BY <1>1, <1>3 DEF IInv, TypeOK
<1>9. stored \subseteq stored' /\ Dealt(SubBatch, told)
  BY <1>2 DEF told
<1>10. \/ Fault
       \/ UNCHANGED <<faults, failed>> /\ \A i \in 1..Len(sub) : Definite(told[i])
  <2>1. CASE delayed = {} /\ cut = 0
    BY <2>1, <1>1, <1>2, <1>4
  <2>2. CASE ~ (delayed = {} /\ cut = 0)
    BY <2>2, <1>2
  <2> QED BY <2>1, <2>2
<1> HIDE DEF sub
<1> QED BY <1>1, <1>4, <1>5, <1>6, <1>7, <1>8, <1>9, <1>10, DealtInv DEF sub

\* A request that fails settles nothing, whatever the index took of it.
LEMMA RequestFailsInv == IInv /\ RequestFails => IInv'
<1> SUFFICES ASSUME IInv, RequestFails PROVE IInv'
  OBVIOUS
<1> DEFINE sub == SubBatch
           body == Body(SubBatch)
<1>1. /\ pc = "send" /\ start <= Len(docs) /\ ~TooLarge(sub)
      /\ sent' = BodySize(sub) /\ failed' = TRUE
      /\ Dealt(sub, batchFailure(sub))
  BY DEF RequestFails
<1>2. /\ sub \in Seq(Ids) /\ Len(sub) \in Nat /\ BodySize(sub) \in Nat
      /\ \A i \in 1..Len(sub) : sub[i] \in Ids
      /\ BodySize(sub) <= MaxBody
  BY <1>1, NextSubBatch
<1>3. Fault /\ stored \subseteq stored' /\ stored' \subseteq stored \cup ToSet(body)
  <2>1. ~ (BodySize(sub) > MaxBody)
    BY <1>2, BulkAssumption
  <2>2. Fault /\ \E done \in SUBSET (ToSet(body) \ Refused) : stored' = stored \cup done
    BY <2>1 DEF RequestFails
  <2> QED BY <2>2
<1>4. DOMAIN sub = 1..Len(sub)
  BY <1>2, LenProperties
<1>5. /\ batchFailure(sub) \in Seq(Statuses) /\ Len(batchFailure(sub)) = Len(sub)
      /\ \A i \in 1..Len(sub) : batchFailure(sub)[i] = 0
  <2>1. batchFailure(sub) = [i \in 1..Len(sub) |-> 0]
    BY <1>4 DEF batchFailure
  <2>2. 0 \in Statuses
    BY DEF Statuses
  <2> QED BY <2>1, <2>2, <1>2
<1>6. \A i \in 1..Len(sub) : Justified(sub[i], batchFailure(sub)[i], stored')
  <2>1. ~OK(0) /\ ~isPermanentStatus(0)
    BY DEF OK, isPermanentStatus
  <2> QED BY <2>1, <1>5 DEF Justified
<1>7. stored' \subseteq AllDocuments
  <2>1. \A p \in DOMAIN body : body[p] \in AllDocuments
    BY <1>2, BodyShape DEF AllDocuments
  <2>2. ToSet(body) \subseteq AllDocuments
    BY <2>1 DEF ToSet
  <2>3. stored \subseteq AllDocuments
    BY DEF IInv, TypeOK, AllDocuments
  <2> QED BY <1>3, <2>2, <2>3
<1>8. faults' \in 0..MaxFaults
  BY <1>3, FaultBound
<1>9. failed' \in BOOLEAN /\ sent' \in Nat /\ sent' <= MaxBody
  BY <1>1, <1>2
<1> HIDE DEF sub
<1> QED BY <1>1, <1>3, <1>5, <1>6, <1>7, <1>8, <1>9, DealtInv DEF sub

\* What a message is told at the end of a call, and with what right.
LEMMA AfterJustified ==
    ASSUME IInv, pc = "send", start > Len(docs), NEW i \in 1..Len(remaining)
    PROVE  /\ After(i) \in {"open", "ok", "dead"}
           /\ After(i) = "ok" => DocumentsOf(remaining[i]) \subseteq stored
           /\ After(i) = "dead" =>
                 \/ ~Messages[remaining[i]].convertible
                 \/ encodedDocSize[remaining[i]] > MaxBody
                 \/ DocumentsOf(remaining[i]) \cap Refused # {}
           /\ attempt = faults => After(i) # "open"
<1> DEFINE mine == {j \in DOMAIN docIdx : docIdx[j] = i /\ j \in DOMAIN docRes}
           m == remaining[i]
<1>1. /\ Len(docs) \in Nat /\ DOMAIN docRes = 1..Len(docRes)
      /\ Len(docRes) \in Nat /\ DOMAIN docIdx = 1..Len(docs)
  BY Sequences
<1>2. attempt = faults => ~failed
  BY DEF IInv, Paid
<1>3. CASE mine = {}
  <2>1. Result(i) = out[i]
    BY <1>3 DEF Result
  <2>2. \A j \in 1..Len(docs) : j \in DOMAIN docRes
    <3>1. start = Len(docRes) + 1
      BY DEF IInv, TypeOK
    <3> QED BY <3>1, <1>1
  <2>3. \A j \in 1..Len(docs) : docIdx[j] # i
    BY <2>2, <1>1, <1>3
  <2>4. out[i] = 400 /\ ~Messages[m].convertible
    BY <2>3 DEF IInv, Aligned
  <2>5. ~OK(Result(i)) /\ isPermanentStatus(Result(i))
    BY <2>1, <2>4 DEF OK, isPermanentStatus
  <2> QED BY <1>2, <2>4, <2>5 DEF After
<1>4. CASE mine # {}
  <2>1. PICK j \in mine : Result(i) = docRes[j]
    BY <1>4 DEF Result
  <2>2. j \in 1..Len(docs) /\ j \in 1..Len(docRes) /\ docIdx[j] = i
    BY <1>1
  <2>3. docs[j] = m
    BY <2>2 DEF IInv, Aligned
  <2>4. Justified(m, Result(i), stored)
    BY <2>1, <2>2, <2>3 DEF IInv, ResultsJustified
  <2>5. attempt = faults => Definite(Result(i))
    BY <2>1, <2>2 DEF IInv, Paid
  <2> QED BY <1>2, <2>4, <2>5 DEF After, Justified, Definite
<1> QED BY <1>3, <1>4

\* Only open messages are settled at the end of a call, and those that stay open
\* are handed in again.
LEMMA ReturnInv ==
    IInv /\ Return =>
        IInv' /\ \A m \in Ids : settled[m] # "open" => settled'[m] = settled[m]
<1> SUFFICES ASSUME IInv, Return
             PROVE  IInv' /\ \A m \in Ids : settled[m] # "open" => settled'[m] = settled[m]
  OBVIOUS
<1> DEFINE Place(m) == CHOOSE i \in DOMAIN remaining : remaining[i] = m
           Handed(m) == \E i \in DOMAIN remaining : remaining[i] = m
           chosen == Unsettled(settled')
           order == InOrder(Len(remaining), chosen)
<1>1. /\ remaining \in Seq(Ids) /\ Len(remaining) \in Nat
      /\ DOMAIN remaining = 1..Len(remaining)
      /\ \A i \in 1..Len(remaining) : remaining[i] \in Ids
  BY Sequences DEF IInv, TypeOK
<1>2. /\ pc = "send" /\ start > Len(docs)
      /\ settled' = [m \in Ids |-> IF Handed(m) THEN After(Place(m)) ELSE settled[m]]
      /\ remaining' = At(remaining, chosen)
      /\ pc' = (IF remaining' = <<>> THEN "done" ELSE "call") /\ attempt' = attempt + 1
      /\ docs' = <<>> /\ docIdx' = <<>> /\ out' = <<>> /\ docRes' = <<>>
      /\ start' = 1 /\ failed' = FALSE /\ sent' = 0
      /\ caller' = caller /\ stored' = stored /\ faults' = faults
  BY DEF Return
<1>3. \A m \in Ids : Handed(m) => Place(m) \in 1..Len(remaining) /\ remaining[Place(m)] = m
  BY <1>1
<1> HIDE DEF Place
<1>4. \A m \in Ids : settled'[m] = IF Handed(m) THEN After(Place(m)) ELSE settled[m]
  BY <1>2
<1>5. settled \in [Ids -> {"open", "ok", "dead"}]
  BY DEF IInv, TypeOK
<1>6. settled' \in [Ids -> {"open", "ok", "dead"}]
  <2> SUFFICES ASSUME NEW m \in Ids
               PROVE  (IF Handed(m) THEN After(Place(m)) ELSE settled[m]) \in {"open", "ok", "dead"}
    BY <1>2
  <2>1. CASE Handed(m)
    BY <2>1, <1>2, <1>3, AfterJustified
  <2>2. CASE ~Handed(m)
    BY <2>2, <1>5
  <2> QED BY <2>1, <2>2
<1>7. \A m \in Ids : settled[m] # "open" => settled'[m] = settled[m]
  <2> SUFFICES ASSUME NEW m \in Ids, settled[m] # "open" PROVE ~Handed(m)
    BY <1>4
  <2> QED BY <1>1 DEF IInv, OnlyOpen
<1> HIDE DEF chosen
<1>8. Lists(order, Len(remaining), chosen)
  BY <1>1, InOrderLists
<1>9. /\ remaining' \in Seq(Ids) /\ Len(remaining') = Len(order)
      /\ \A j \in 1..Len(order) :
            order[j] \in 1..Len(remaining) /\ remaining'[j] = remaining[order[j]]
  BY <1>1, <1>2, AtProperties
<1> HIDE DEF order
<1>10. TypeOK'
  <2>1. /\ docs' \in Seq(Ids) /\ out' \in Seq({0, 400}) /\ docRes' \in Seq(Statuses)
        /\ Len(docs') = 0 /\ Len(docIdx') = 0 /\ Len(docRes') = 0
    BY <1>2
  <2>2. /\ caller' \in {"consumer", "backfill"} /\ pc' \in {"call", "send", "done"}
        /\ stored' \subseteq UNION {DocumentsOf(m) : m \in Ids}
        /\ faults' \in 0..MaxFaults /\ attempt' \in Nat
    BY <1>2 DEF IInv, TypeOK
  <2>3. start' = Len(docRes') + 1 /\ sent' \in Nat /\ failed' \in BOOLEAN
    <3>1. Len(docRes') + 1 = 1
      BY <2>1
    <3> QED BY <1>2, <3>1
  <2>4. Len(docIdx') = Len(docs')
    BY <2>1
  <2> QED BY <1>6, <1>9, <2>1, <2>2, <2>3, <2>4 DEF TypeOK
<1>11. Aligned' /\ ResultsJustified'
  BY <1>2 DEF Aligned, ResultsJustified
<1>12. OnlyOpen'
  <2> SUFFICES ASSUME NEW j \in 1..Len(order)
               PROVE  remaining'[j] \in Batch /\ settled'[remaining'[j]] = "open"
    BY <1>2, <1>9 DEF OnlyOpen, Batch
  <2>1. order[j] \in chosen /\ remaining'[j] = remaining[order[j]]
    BY <1>8, <1>9 DEF Lists
  <2>2. remaining[order[j]] \in Batch
    BY <1>9 DEF IInv, OnlyOpen
  <2> QED BY <2>1, <2>2 DEF chosen, Unsettled
<1>13. NothingDropped'
  <2> SUFFICES ASSUME NEW m \in Batch, settled'[m] = "open"
               PROVE  \E j \in DOMAIN remaining' : remaining'[j] = m
    BY <1>2 DEF NothingDropped, Batch
  <2>1. settled[m] = "open"
    BY <1>7 DEF Batch
  <2>2. PICK i \in 1..Len(remaining) : remaining[i] = m
    BY <2>1, <1>1 DEF IInv, NothingDropped
  <2>3. i \in chosen
    BY <2>2, <1>1 DEF chosen, Unsettled
  <2>4. PICK j \in 1..Len(order) : order[j] = i
    BY <2>2, <2>3, <1>8 DEF Lists
  <2>5. DOMAIN remaining' = 1..Len(order)
    BY <1>9, LenProperties
  <2> QED BY <2>2, <2>4, <2>5, <1>9
<1>14. OkIsStored'
  <2> SUFFICES ASSUME NEW m \in Ids, settled'[m] = "ok" PROVE DocumentsOf(m) \subseteq stored
    BY <1>2 DEF OkIsStored
  <2>1. CASE Handed(m)
    BY <2>1, <1>2, <1>3, <1>4, AfterJustified
  <2>2. CASE ~Handed(m)
    BY <2>2, <1>4 DEF IInv, OkIsStored
  <2> QED BY <2>1, <2>2
<1>15. DeadForCause'
  <2> SUFFICES ASSUME NEW m \in Ids, settled'[m] = "dead"
               PROVE  \/ ~Messages[m].convertible
                      \/ encodedDocSize[m] > MaxBody
                      \/ DocumentsOf(m) \cap Refused # {}
    BY DEF DeadForCause
  <2>1. CASE Handed(m)
    BY <2>1, <1>2, <1>3, <1>4, AfterJustified
  <2>2. CASE ~Handed(m)
    BY <2>2, <1>4 DEF IInv, DeadForCause
  <2> QED BY <2>1, <2>2
<1>16. RequestsFit'
  BY <1>2, BulkAssumption DEF RequestsFit
<1>17. Paid'
  <2>1. attempt \in Nat /\ faults \in Nat /\ attempt <= faults
    BY <1>2, BulkAssumption DEF IInv, TypeOK, Paid, RetriesPaidFor
  <2>2. CASE attempt = faults
    <3>1. \A i \in 1..Len(remaining) : settled'[remaining[i]] # "open"
      <4> SUFFICES ASSUME NEW i \in 1..Len(remaining) PROVE settled'[remaining[i]] # "open"
        OBVIOUS
      <4>1. Handed(remaining[i]) /\ remaining[i] \in Ids
        BY <1>1
      <4>2. Place(remaining[i]) \in 1..Len(remaining)
        BY <4>1, <1>3
      <4>3. After(Place(remaining[i])) # "open"
        BY <4>2, <2>2, <1>2, AfterJustified
      <4> QED BY <4>1, <4>3, <1>4
    <3>2. chosen = {}
      BY <3>1, <1>1 DEF chosen, Unsettled
    <3>3. ~ (1 \in 1..Len(order))
      BY <3>2, <1>8 DEF Lists
    <3>4. Len(remaining') = 0
      BY <3>3, <1>9, LenProperties
    <3>5. remaining' = <<>>
      BY <3>4, <1>9, EmptySeq
    <3> QED BY <3>5, <1>2 DEF Paid, RetriesPaidFor
  <2>3. CASE attempt # faults
    <3>1. attempt' <= faults'
      BY <2>1, <2>3, <1>2
    <3> QED BY <3>1, <1>2 DEF Paid, RetriesPaidFor
  <2> QED BY <2>2, <2>3
<1> QED BY <1>7, <1>10, <1>11, <1>12, <1>13, <1>14, <1>15, <1>16, <1>17 DEF IInv

\* Every step keeps the invariant, and every settled message its outcome.
LEMMA NextInv ==
    IInv /\ [Next]_vars =>
        IInv' /\ \A m \in Ids : settled[m] # "open" => settled'[m] = settled[m]
<1> SUFFICES ASSUME IInv, [Next]_vars
             PROVE  IInv' /\ \A m \in Ids : settled[m] # "open" => settled'[m] = settled[m]
  OBVIOUS
<1>1. CASE Convert
  <2>1. settled' = settled
    BY <1>1 DEF Convert
  <2> QED BY <1>1, <2>1, ConvertInv
<1>2. CASE Oversize
  <2>1. settled' = settled
    BY <1>2 DEF Oversize, Dealt
  <2> QED BY <1>2, <2>1, OversizeInv
<1>3. CASE Answered
  <2>1. settled' = settled
    BY <1>3 DEF Answered, Dealt
  <2> QED BY <1>3, <2>1, AnsweredInv
<1>4. CASE RequestFails
  <2>1. settled' = settled
    BY <1>4 DEF RequestFails, Dealt
  <2> QED BY <1>4, <2>1, RequestFailsInv
<1>5. CASE Return
  BY <1>5, ReturnInv
<1>6. CASE Done \/ UNCHANGED vars
  <2>1. UNCHANGED vars
    BY <1>6 DEF Done
  <2>2. IInv'
    BY <2>1 DEF IInv, TypeOK, Aligned, ResultsJustified, OnlyOpen, NothingDropped,
                Batch, Paid, RetriesPaidFor, OkIsStored, DeadForCause, RequestsFit, vars
  <2> QED BY <2>1, <2>2 DEF vars
<1> QED BY <1>1, <1>2, <1>3, <1>4, <1>5, <1>6 DEF Next

\* The strengthened invariant holds in every state of every behaviour.
THEOREM BulkInvariant == Spec => []IInv
<1>1. IInv /\ [Next]_vars => IInv'
  BY NextInv
<1> QED BY InitInv, <1>1, PTL DEF Spec

\* There is one result for every document dealt with, whatever was sent, lost or
\* answered in part.
THEOREM BulkTypes == Spec => []TypeOK
<1>1. IInv => TypeOK
  BY DEF IInv
<1> QED BY <1>1, BulkInvariant, PTL

\* A message reported written is in the index with all its virtual children.
THEOREM WrittenIsStored == Spec => []OkIsStored
<1>1. IInv => OkIsStored
  BY DEF IInv
<1> QED BY <1>1, BulkInvariant, PTL

\* A message is given up only for a reason that lies in it.
THEOREM GivenUpForCause == Spec => []DeadForCause
<1>1. IInv => DeadForCause
  BY DEF IInv
<1> QED BY <1>1, BulkInvariant, PTL

\* No request is larger than the limit.
THEOREM RequestsAlwaysFit == Spec => []RequestsFit
<1>1. IInv => RequestsFit
  BY DEF IInv
<1> QED BY <1>1, BulkInvariant, PTL

\* A batch is handed in again only after a fault.
THEOREM RetriesArePaidFor == Spec => []RetriesPaidFor
<1>1. IInv => RetriesPaidFor
  BY DEF IInv, Paid
<1> QED BY <1>1, BulkInvariant, PTL

-----------------------------------------------------------------------------
(* A call comes to its end *)

\* Every request deals with at least one document and never with one past the
\* last, so the loop over the sub-batches of a call ends.
THEOREM EveryRequestAdvances ==
    Spec => [][pc = "send" /\ pc' = "send" =>
                  docs' = docs /\ start < start' /\ start' <= Len(docs) + 1]_vars
<1>1. ASSUME IInv, [Next]_vars, vars' # vars, pc = "send", pc' = "send"
      PROVE  docs' = docs /\ start < start' /\ start' <= Len(docs) + 1
  <2>1. /\ start <= Len(docs) /\ docs' = docs
        /\ start' = start + Len(SubBatch)
    <3>1. CASE Oversize
      BY <3>1 DEF Oversize, Dealt, call
    <3>2. CASE Answered
      BY <3>2 DEF Answered, Dealt, call
    <3>3. CASE RequestFails
      BY <3>3 DEF RequestFails, Dealt, call
    <3>4. ~Convert /\ ~Return /\ ~Done
      BY <1>1 DEF Convert, Return, Done
    <3> QED BY <1>1, <3>1, <3>2, <3>3, <3>4 DEF Next
  <2>2. docs \in Seq(Ids) /\ start \in 1..Len(docs)
    <3>1. /\ docs \in Seq(Ids) /\ Len(docs) \in Nat /\ Len(docRes) \in Nat
          /\ start = Len(docRes) + 1
      BY <1>1, Sequences DEF IInv, TypeOK
    <3> QED BY <2>1, <3>1
  <2>3. /\ Len(SubBatch) \in Nat /\ Len(SubBatch) >= 1
        /\ start + Len(SubBatch) - 1 <= Len(docs)
    BY <2>2, SubBatches
  <2>4. Len(docs) \in Nat
    BY <2>2, LenProperties
  <2> QED BY <2>1, <2>2, <2>3, <2>4
<1>2. IInv /\ [Next]_vars =>
         [pc = "send" /\ pc' = "send" =>
             docs' = docs /\ start < start' /\ start' <= Len(docs) + 1]_vars
  BY <1>1
<1> QED BY <1>2, BulkInvariant, PTL DEF Spec

-----------------------------------------------------------------------------
(* The promise of the writer and the retries around it *)

\* What is in a request are documents of messages of the batch.
LEMMA RequestOfBatch ==
    ASSUME IInv, start <= Len(docs)
    PROVE  \A p \in DOMAIN Body(SubBatch) :
              \E m \in Batch : Body(SubBatch)[p] \in DocumentsOf(m)
<1>1. /\ docs \in Seq(Ids) /\ start \in 1..Len(docs) /\ Len(docs) \in Nat
      /\ DOMAIN remaining = 1..Len(remaining)
  <2>1. /\ docs \in Seq(Ids) /\ Len(docs) \in Nat /\ Len(docRes) \in Nat
        /\ start = Len(docRes) + 1 /\ DOMAIN remaining = 1..Len(remaining)
    BY Sequences DEF IInv, TypeOK
  <2> QED BY <2>1
<1>2. /\ SubBatch \in Seq(Ids) /\ Len(SubBatch) \in Nat
      /\ start + Len(SubBatch) - 1 <= Len(docs)
      /\ \A i \in 1..Len(SubBatch) : SubBatch[i] = docs[start + i - 1]
  BY <1>1, SubBatches
<1>3. \A i \in 1..Len(SubBatch) : SubBatch[i] \in Batch
  <2> SUFFICES ASSUME NEW i \in 1..Len(SubBatch) PROVE SubBatch[i] \in Batch
    OBVIOUS
  <2>1. start + i - 1 \in 1..Len(docs)
    BY <1>1, <1>2
  <2>2. PICK k \in 1..Len(remaining) : docs[start + i - 1] = remaining[k]
    BY <2>1 DEF IInv, Aligned
  <2>3. remaining[k] \in Batch
    BY <2>2 DEF IInv, OnlyOpen
  <2> QED BY <2>2, <2>3, <1>2
<1> QED BY <1>2, <1>3, BodyShape

\* What a step may add to the index.
BatchDocuments == UNION {DocumentsOf(m) : m \in Batch}

\* A request adds documents of the batch to the index and settles nothing.
LEMMA RequestStores ==
    ASSUME IInv, Oversize \/ Answered \/ RequestFails
    PROVE  /\ stored \subseteq stored' /\ stored' \subseteq stored \cup BatchDocuments
           /\ pc = "send" /\ pc' = "send" /\ caller' = caller /\ settled' = settled
<1>1. CASE Oversize
  BY <1>1 DEF Oversize, Dealt
<1>2. CASE Answered
  <2>1. pc = "send" /\ start <= Len(docs)
    BY <1>2 DEF Answered
  <2>2. \E delayed : stored' = stored \cup TakenDocuments(Body(SubBatch), delayed)
    BY <1>2 DEF Answered, Taken, TakenDocuments
  <2>3. \A delayed : TakenDocuments(Body(SubBatch), delayed) \subseteq BatchDocuments
    BY <2>1, RequestOfBatch DEF Taken, TakenDocuments, BatchDocuments
  <2>4. pc' = pc /\ caller' = caller /\ settled' = settled
    BY <1>2 DEF Answered, Dealt
  <2> QED BY <2>1, <2>2, <2>3, <2>4
<1>3. CASE RequestFails
  <2>1. /\ pc = "send" /\ start <= Len(docs)
        /\ pc' = pc /\ caller' = caller /\ settled' = settled
    BY <1>3 DEF RequestFails, Dealt
  <2>2. stored' = stored \/ \E done \in SUBSET ToSet(Body(SubBatch)) : stored' = stored \cup done
    BY <1>3 DEF RequestFails
  <2>3. ToSet(Body(SubBatch)) \subseteq BatchDocuments
    BY <2>1, RequestOfBatch DEF ToSet, BatchDocuments
  <2> QED BY <2>1, <2>2, <2>3
<1> QED BY <1>1, <1>2, <1>3

\* The end of a call settles open messages of the batch, and the batch is done
\* with only when none of them is open.
LEMMA ReturnSettles ==
    ASSUME IInv, IInv', Return
    PROVE  Outcome!Settle
<1> DEFINE Hopeless == {m \in Ids : \/ ~Messages[m].convertible
                                    \/ encodedDocSize[m] > MaxBody
                                    \/ DocumentsOf(m) \cap Refused # {}}
<1>1. /\ pc = "send" /\ pc' \in {"call", "done"} /\ caller' = caller /\ stored' = stored
      /\ pc' = "done" => remaining' = <<>>
  BY DEF Return
<1>2. Batch' = Batch /\ Batch \subseteq Ids
  BY <1>1 DEF Batch
<1>3. settled' \in [Ids -> {"open", "ok", "dead"}]
  BY DEF IInv, TypeOK
<1>4. \A m \in Ids :
         \/ settled'[m] = settled[m]
         \/ /\ m \in Batch /\ settled[m] = "open"
            /\ \/ settled'[m] = "open"
               \/ settled'[m] = "ok" /\ DocumentsOf(m) \subseteq stored
               \/ settled'[m] = "dead" /\ m \in Hopeless
  <2> SUFFICES ASSUME NEW m \in Ids, settled'[m] # settled[m]
               PROVE  /\ m \in Batch /\ settled[m] = "open"
                      /\ \/ settled'[m] = "open"
                         \/ settled'[m] = "ok" /\ DocumentsOf(m) \subseteq stored
                         \/ settled'[m] = "dead" /\ m \in Hopeless
    OBVIOUS
  <2>1. m \in Batch
    <3>1. PICK i \in DOMAIN remaining : remaining[i] = m
      BY DEF Return
    <3>2. i \in 1..Len(remaining)
      BY <3>1, Sequences
    <3> QED BY <3>1, <3>2 DEF IInv, OnlyOpen
  <2>2. settled[m] = "open"
    BY ReturnInv
  <2>3. settled'[m] = "ok" => DocumentsOf(m) \subseteq stored
    BY <1>1 DEF IInv, OkIsStored
  <2>4. settled'[m] = "dead" => m \in Hopeless
    BY DEF IInv, DeadForCause
  <2> QED BY <1>3, <2>1, <2>2, <2>3, <2>4
<1>5. pc' = "done" => \A m \in Batch : settled'[m] # "open"
  <2> SUFFICES ASSUME pc' = "done", NEW m \in Batch, settled'[m] = "open" PROVE FALSE
    OBVIOUS
  <2>1. \E i \in DOMAIN remaining' : remaining'[i] = m
    BY <1>2 DEF IInv, NothingDropped
  <2>2. DOMAIN remaining' = {}
    BY <1>1
  <2> QED BY <2>1, <2>2
<1>6. DOMAIN [m \in Ids |-> DocumentsOf(m)] = Ids
  OBVIOUS
<1> QED
  BY <1>1, <1>2, <1>3, <1>4, <1>5, <1>6 DEF Outcome!Settle, Outcome!Justified

\* Every step of the writer and its callers is one the promise allows.
LEMMA OutcomeStep ==
    IInv /\ IInv' /\ [Next]_vars => [Outcome!Next]_(Outcome!vars)
<1> SUFFICES ASSUME IInv, IInv', [Next]_vars PROVE [Outcome!Next]_(Outcome!vars)
  OBVIOUS
<1>1. CASE Convert \/ Done \/ UNCHANGED vars
  <2>1. /\ caller' = caller /\ settled' = settled /\ stored' = stored
        /\ (pc' = "done") = (pc = "done")
    BY <1>1 DEF Convert, Done, vars
  <2> QED BY <2>1 DEF Outcome!vars, Batch
<1>2. CASE Oversize \/ Answered \/ RequestFails
  <2>1. /\ stored \subseteq stored' /\ stored' \subseteq stored \cup BatchDocuments
        /\ pc = "send" /\ pc' = "send" /\ caller' = caller /\ settled' = settled
    BY <1>2, RequestStores
  <2>2. BatchDocuments = UNION {[k \in Ids |-> DocumentsOf(k)][m] : m \in Batch}
    BY DEF BatchDocuments, Batch
  <2>3. Batch' = Batch
    BY <2>1 DEF Batch
  <2>4. Outcome!Store
    BY <2>1, <2>2, <2>3 DEF Outcome!Store
  <2> QED BY <2>4 DEF Outcome!Next
<1>3. CASE Return
  BY <1>3, ReturnSettles DEF Outcome!Next
<1> QED BY <1>1, <1>2, <1>3 DEF Next

\* Every behaviour of the writer and its callers is one the promise allows: what
\* they report is true, final and complete.
THEOREM BulkKeepsPromise == Spec => ImplementsBulkOutcome
<1>1. ImplementsBulkOutcome <=> Outcome!Init /\ [][Outcome!Next]_(Outcome!vars)
  BY DEF ImplementsBulkOutcome, Outcome!Spec
<1>2. Init => Outcome!Init
  BY DEF Init, Outcome!Init, Batch
<1>3. IInv /\ IInv' /\ [Next]_vars => [Outcome!Next]_(Outcome!vars)
  BY OutcomeStep
<1> QED BY <1>1, <1>2, <1>3, BulkInvariant, PTL DEF Spec
=============================================================================
