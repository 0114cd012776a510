-------------------------- MODULE SrvResolverProofs --------------------------
(***************************************************************************)
(* Proofs about SrvResolver, for any set of servers, any reply and any     *)
(* number of calls: what sortSRVList() returns, and that the search goes   *)
(* through it.                                                             *)
(*                                                                         *)
(* The sort is a recursive function, so that what it returns is shown by   *)
(* induction over the number of elements that have been moved.  Induction  *)
(* is stated with sets here, for a set of numbers with a counterexample    *)
(* has a least one.                                                        *)
(***************************************************************************)
EXTENDS SrvResolver, SequenceTheorems, WellFoundedInduction, TLAPS

-----------------------------------------------------------------------------
(* Induction.                                                              *)

Less == {ss \in Nat \X Nat : ss[1] < ss[2]}

LEMMA LeastNumber ==
  ASSUME NEW T \in SUBSET Nat, T # {}
  PROVE  \E m \in T : \A n \in T : m <= n
<1>1. IsWellFoundedOn(Less, Nat)
  BY NatLessThanWellFounded DEF OpToRel, Less
<1>2. PICK m \in T : \A n \in T : ~(<<n, m>> \in Less)
  BY <1>1, WFMin, Zenon
<1>3. ASSUME NEW n \in T PROVE m <= n
  <2>1. m \in Nat /\ n \in Nat /\ ~(<<n, m>> \in Less)
    BY <1>2
  <2>2. ~(n < m)
    BY <2>1 DEF Less
  <2> QED
    BY <2>1, <2>2, SMT
<1> QED
  BY <1>3

LEMMA InductionOnSet ==
  ASSUME NEW T \in SUBSET Nat, 0 \in T, \A n \in Nat : n \in T => n + 1 \in T
  PROVE  \A n \in Nat : n \in T
<1> SUFFICES ASSUME Nat \ T # {} PROVE FALSE
  OBVIOUS
<1>1. PICK m \in Nat \ T : \A n \in Nat \ T : m <= n
  BY LeastNumber, Zenon
<1>2. m - 1 \in Nat
  BY <1>1, SMT
<1>3. m - 1 \in T
  BY <1>1, <1>2, SMT
<1> QED
  BY <1>1, <1>2, <1>3, SMT

\* f starts at x0 and takes the step G, m times.
Iterates(x0, G, m, f) == f = [n \in 0..m |-> IF n = 0 THEN x0 ELSE G[f[n-1]]]

\* A function is defined by a first value and a step from each one to the next.
LEMMA Iteration ==
  ASSUME NEW X, NEW x0 \in X, NEW G \in [X -> X], NEW N \in Nat
  PROVE  \E f \in [0..N -> X] : Iterates(x0, G, N, f)
<1> DEFINE Upto(m, f) == Iterates(x0, G, m, f)
           T == {m \in Nat : \E f \in [0..m -> X] : Upto(m, f)}
<1>1. 0 \in T
  <2> DEFINE f == [n \in 0..0 |-> x0]
  <2>1. f \in [0..0 -> X]
    OBVIOUS
  <2>2. Upto(0, f)
    BY SMT DEF Iterates
  <2> QED
    BY <2>1, <2>2
<1>2. ASSUME NEW m \in Nat, m \in T PROVE m + 1 \in T
  <2>1. PICK f \in [0..m -> X] : Upto(m, f)
    BY <1>2
  <2> DEFINE g == [n \in 0..(m + 1) |-> IF n = 0 THEN x0 ELSE G[f[n-1]]]
  <2>2. \A n \in 0..(m + 1) : n # 0 => n - 1 \in 0..m
    BY SMT
  <2>3. g \in [0..(m + 1) -> X]
    BY <2>1, <2>2
  <2>4. \A n \in 0..m : f[n] = g[n]
    <3>1. \A n \in 0..m : n \in 0..(m + 1)
      BY SMT
    <3>2. f = [n \in 0..m |-> IF n = 0 THEN x0 ELSE G[f[n-1]]]
      BY <2>1 DEF Iterates
    <3>3. \A n \in 0..m : f[n] = IF n = 0 THEN x0 ELSE G[f[n-1]]
      BY <3>2, Zenon
    <3> QED
      BY <3>1, <3>3
  <2>5. Upto(m + 1, g)
    BY <2>2, <2>4 DEF Iterates
  <2>6. m + 1 \in Nat
    BY SMT
  <2> HIDE DEF Upto, g
  <2> QED
    BY <2>3, <2>5, <2>6
<1> HIDE DEF T
<1>3. N \in T
  <2>1. T \in SUBSET Nat
    BY DEF T
  <2> QED
    BY <1>1, <1>2, <2>1, InductionOnSet, Zenon
<1> QED
  BY <1>3 DEF T


-----------------------------------------------------------------------------
(* sortSRVList.                                                            *)

\* s belongs before t: what ServersInOrder asks of two servers.
InOrder(list, s, t) ==
  \/ Before(s, t)
  \/ ~Before(t, s)
     /\ \A m, n \in DOMAIN list : list[m] = s /\ list[n] = t => m < n

LEMMA RemoveAtProperties ==
  ASSUME NEW S, NEW s \in Seq(S), NEW i \in 1..Len(s)
  PROVE  /\ RemoveAt(s, i) \in Seq(S)
         /\ Len(RemoveAt(s, i)) = Len(s) - 1
         /\ \A k \in 1..(Len(s) - 1) : RemoveAt(s, i)[k] = IF k < i THEN s[k] ELSE s[k + 1]
<1> DEFINE head == SubSeq(s, 1, i - 1)
           tail == SubSeq(s, i + 1, Len(s))
<1>1. Len(s) \in Nat /\ i \in Nat /\ 1 <= i /\ i <= Len(s)
  BY LenProperties, SMT
<1>2. \A k \in 1..Len(s) : s[k] \in S
  BY ElementOfSeq
<1>3. /\ head \in Seq(S) /\ Len(head) = i - 1
      /\ \A k \in 1..(i - 1) : head[k] = s[k]
  BY <1>1, <1>2, SMT
<1>4. /\ tail \in Seq(S) /\ Len(tail) = Len(s) - i
      /\ \A k \in 1..(Len(s) - i) : tail[k] = s[k + i]
  BY <1>1, <1>2, SMT
<1> HIDE DEF head, tail
<1>5. /\ head \o tail \in Seq(S)
      /\ Len(head \o tail) = Len(s) - 1
      /\ \A k \in 1..(Len(s) - 1) :
           (head \o tail)[k] = IF k < i THEN head[k] ELSE tail[k - (i - 1)]
  <2>1. /\ head \o tail \in Seq(S)
        /\ Len(head \o tail) = Len(head) + Len(tail)
        /\ \A k \in 1..(Len(head) + Len(tail)) :
             (head \o tail)[k] = IF k <= Len(head) THEN head[k] ELSE tail[k - Len(head)]
    BY <1>3, <1>4, ConcatProperties
  <2>2. Len(head) + Len(tail) = Len(s) - 1
    BY <1>1, <1>3, <1>4, SMT
  <2>3. \A k \in 1..(Len(s) - 1) : (k <= i - 1) <=> (k < i)
    BY <1>1, SMT
  <2> QED
    BY <1>3, <2>1, <2>2, <2>3, Zenon
<1>6. ASSUME NEW k \in 1..(Len(s) - 1)
      PROVE  (head \o tail)[k] = IF k < i THEN s[k] ELSE s[k + 1]
  <2>1. CASE k < i
    <3>1. k \in 1..(i - 1)
      BY <1>1, <2>1, SMT
    <3> QED
      BY <1>3, <1>5, <2>1, <3>1
  <2>2. CASE ~(k < i)
    <3>1. k - (i - 1) \in 1..(Len(s) - i) /\ k - (i - 1) + i = k + 1
      BY <1>1, <2>2, SMT
    <3> QED
      BY <1>4, <1>5, <2>2, <3>1
  <2> QED
    BY <2>1, <2>2
<1> QED
  BY <1>5, <1>6 DEF RemoveAt, head, tail

\* The inner loop finds the first element that no other goes before.
LEMMA LeastIndexFound ==
  ASSUME NEW list \in Seq(Servers), list # <<>>
  PROVE  /\ LeastIndex(list) \in 1..Len(list)
         /\ \A j \in 1..Len(list) : ~Before(list[j], list[LeastIndex(list)])
         /\ \A j \in 1..(LeastIndex(list) - 1) : Before(list[LeastIndex(list)], list[j])
<1>1. Len(list) \in Nat /\ Len(list) # 0 /\ DOMAIN list = 1..Len(list)
  BY LenProperties, EmptySeq
<1>2. \A i \in 1..Len(list) : list[i].priority \in Nat /\ list[i].weight \in Nat
  BY SrvAssumption, ElementOfSeq
<1> DEFINE P == {list[i].priority : i \in 1..Len(list)}
<1>3. PICK p \in P : \A q \in P : p <= q
  <2>1. P \in SUBSET Nat
    BY <1>2
  <2>2. 1 \in 1..Len(list)
    BY <1>1, SMT
  <2>3. P # {}
    BY <2>2
  <2> HIDE DEF P
  <2> QED
    BY <2>1, <2>3, LeastNumber, Zenon
<1> DEFINE W == {list[i].weight : i \in {k \in 1..Len(list) : list[k].priority = p}}
<1>4. PICK w \in W : \A v \in W : w <= v
  <2>1. W \in SUBSET Nat
    BY <1>2
  <2>2. W # {}
    BY <1>3
  <2> HIDE DEF W
  <2> QED
    BY <2>1, <2>2, LeastNumber, Zenon
<1> DEFINE I == {k \in 1..Len(list) : list[k].priority = p /\ list[k].weight = w}
<1>5. PICK i \in I : \A k \in I : i <= k
  <2>1. I \in SUBSET Nat
    BY SMT
  <2>2. I # {}
    BY <1>4
  <2> HIDE DEF I
  <2> QED
    BY <2>1, <2>2, LeastNumber, Zenon
<1>6. i \in 1..Len(list) /\ list[i].priority = p /\ list[i].weight = w
  BY <1>5
<1>7. ASSUME NEW j \in 1..Len(list)
      PROVE  /\ p <= list[j].priority
             /\ list[j].priority = p => w <= list[j].weight
  BY <1>3, <1>4
<1>8. ASSUME NEW j \in 1..Len(list) PROVE ~Before(list[j], list[i])
  <2>1. p \in Nat /\ w \in Nat
    BY <1>2, <1>6
  <2> QED
    BY <1>2, <1>6, <1>7, <2>1, SMT DEF Before
<1>9. ASSUME NEW j \in 1..(i - 1) PROVE Before(list[i], list[j])
  <2>1. j \in 1..Len(list) /\ ~(i <= j)
    BY <1>1, <1>6, SMT
  <2>2. j \notin I
    BY <1>5, <2>1
  <2>3. list[j].priority # p \/ list[j].weight # w
    BY <2>1, <2>2
  <2>4. /\ p <= list[j].priority
        /\ list[j].priority = p => w <= list[j].weight
    BY <1>7, <2>1
  <2>5. p \in Nat /\ w \in Nat /\ list[j].priority \in Nat /\ list[j].weight \in Nat
    BY <1>2, <1>6, <2>1
  <2> QED
    BY <1>6, <2>3, <2>4, <2>5, SMTT(30) DEF Before
<1> QED
  BY <1>1, <1>6, <1>8, <1>9 DEF LeastIndex

\* One step of the outer loop.
Moved(p) ==
  LET i == LeastIndex(p.tmp)
  IN  [list |-> Append(p.list, p.tmp[i]), tmp |-> RemoveAt(p.tmp, i)]

Sorting(reply0, f) ==
  f = [n \in 0..Len(reply0) |->
         IF n = 0 THEN [list |-> <<>>, tmp |-> reply0] ELSE Moved(f[n-1])]

\* What holds when n elements have been moved.
Sorted(reply0, n, p) ==
  /\ p \in [list: Seq(Servers), tmp: Seq(Servers)]
  /\ Len(p.list) = n
  /\ Len(p.tmp) = Len(reply0) - n
  /\ \A i \in 1..Len(p.list) : \A j \in 1..Len(p.tmp) : InOrder(reply0, p.list[i], p.tmp[j])
  /\ \A i, j \in 1..Len(p.list) : i < j => InOrder(reply0, p.list[i], p.list[j])
  /\ \A i, j \in 1..Len(p.tmp) : i < j =>
       \A k, l \in DOMAIN reply0 : reply0[k] = p.tmp[i] /\ reply0[l] = p.tmp[j] => k < l
  /\ ToSet(p.list) \cup ToSet(p.tmp) = ToSet(reply0)

LEMMA SortingExists ==
  ASSUME NEW reply0 \in Seq(Servers)
  PROVE  \E f : Sorting(reply0, f)
<1> DEFINE X == [list: Seq(Servers), tmp: Seq(Servers)]
           G == [p \in X |-> IF p.tmp = <<>> THEN p ELSE Moved(p)]
           x0 == [list |-> <<>>, tmp |-> reply0]
<1>1. ASSUME NEW p \in X, p.tmp # <<>>
      PROVE  /\ Moved(p) \in X
             /\ Len(Moved(p).tmp) = Len(p.tmp) - 1
  <2> DEFINE i == LeastIndex(p.tmp)
  <2>1. p.list \in Seq(Servers) /\ p.tmp \in Seq(Servers)
    OBVIOUS
  <2>2. i \in 1..Len(p.tmp)
    BY <1>1, <2>1, LeastIndexFound
  <2> HIDE DEF i
  <2>3. p.tmp[i] \in Servers
    BY <2>1, <2>2, ElementOfSeq
  <2>4. RemoveAt(p.tmp, i) \in Seq(Servers) /\ Len(RemoveAt(p.tmp, i)) = Len(p.tmp) - 1
    BY <2>1, <2>2, RemoveAtProperties
  <2>5. Append(p.list, p.tmp[i]) \in Seq(Servers)
    BY <2>1, <2>3, AppendProperties
  <2> QED
    BY <2>4, <2>5 DEF Moved, i
<1>2. x0 \in X /\ Len(reply0) \in Nat
  BY LenProperties, EmptySeq
<1>3. G \in [X -> X]
  <2> HIDE DEF X
  <2>1. \A p \in X : (IF p.tmp = <<>> THEN p ELSE Moved(p)) \in X
    BY <1>1
  <2> QED
    BY <2>1
<1>4. PICK f \in [0..Len(reply0) -> X] :
        f = [n \in 0..Len(reply0) |-> IF n = 0 THEN x0 ELSE G[f[n-1]]]
  <2> HIDE DEF X, G, x0
  <2>1. \E f \in [0..Len(reply0) -> X] : Iterates(x0, G, Len(reply0), f)
    BY <1>2, <1>3, Iteration, Zenon
  <2> QED
    BY <2>1 DEF Iterates
<1>5. \A n \in 0..Len(reply0) : Len(f[n].tmp) = Len(reply0) - n
  <2> DEFINE T == {n \in Nat : n \in 0..Len(reply0) => Len(f[n].tmp) = Len(reply0) - n}
  <2>1. 0 \in T
    <3>1. 0 \in 0..Len(reply0)
      BY <1>2, SMT
    <3>2. f[0] = x0
      BY <1>4, <3>1, Zenon
    <3> QED
      BY <1>2, <3>2, SMT
  <2>2. ASSUME NEW n \in Nat, n \in T PROVE n + 1 \in T
    <3>1. SUFFICES ASSUME n + 1 \in 0..Len(reply0)
                   PROVE  Len(f[n + 1].tmp) = Len(reply0) - (n + 1)
      BY SMT
    <3>2. n \in 0..Len(reply0) /\ n + 1 # 0 /\ (n + 1) - 1 = n /\ Len(reply0) - n # 0
      BY <1>2, <3>1, SMT
    <3>3. f[n + 1] = G[f[n]]
      BY <1>4, <3>1, <3>2, Zenon
    <3>4. Len(f[n].tmp) = Len(reply0) - n
      BY <2>2, <3>2
    <3>5. f[n] \in X
      BY <1>4, <3>2, Zenon
    <3>6. f[n].tmp # <<>>
      BY <3>2, <3>4, EmptySeq
    <3>7. f[n + 1] = Moved(f[n])
      BY <3>3, <3>5, <3>6
    <3> HIDE DEF X
    <3>8. Len(Moved(f[n]).tmp) = Len(f[n].tmp) - 1
      BY <1>1, <3>5, <3>6
    <3> QED
      BY <1>2, <3>4, <3>7, <3>8, SMT
  <2> HIDE DEF T
  <2>3. \A n \in Nat : n \in T
    <3>1. T \in SUBSET Nat
      BY DEF T
    <3> QED
      BY <2>1, <2>2, <3>1, InductionOnSet, Zenon
  <2>4. \A n \in 0..Len(reply0) : n \in Nat
    BY <1>2, SMT
  <2> QED
    BY <2>3, <2>4 DEF T
<1>6. ASSUME NEW n \in 0..Len(reply0), n # 0 PROVE G[f[n-1]] = Moved(f[n-1])
  <2>1. n - 1 \in 0..Len(reply0) /\ Len(reply0) - (n - 1) # 0
    BY <1>2, <1>6, SMT
  <2>2. f[n-1] \in X
    BY <1>4, <2>1, Zenon
  <2>3. Len(f[n-1].tmp) # 0
    BY <1>5, <2>1
  <2>4. f[n-1].tmp # <<>>
    BY <2>3, EmptySeq
  <2> QED
    BY <2>2, <2>4
<1>7. Sorting(reply0, f)
  <2>1. \A n \in 0..Len(reply0) : (IF n = 0 THEN x0 ELSE G[f[n-1]]) = (IF n = 0 THEN x0 ELSE Moved(f[n-1]))
    <3> HIDE DEF G, x0
    <3> QED
      BY <1>6
  <2>2. f = [n \in 0..Len(reply0) |-> IF n = 0 THEN x0 ELSE Moved(f[n-1])]
    <3> HIDE DEF G, x0
    <3> QED
      BY <1>4, <2>1
  <2> QED
    BY <2>2 DEF Sorting
<1> QED
  BY <1>7

\* Moving the least element of tmp behind list keeps what Sorted says.
LEMMA MovedKeepsSorted ==
  ASSUME NEW reply0 \in Seq(Servers), NEW n \in Nat, n < Len(reply0),
         NEW p, Sorted(reply0, n, p)
  PROVE  Sorted(reply0, n + 1, Moved(p))
<1> DEFINE i == LeastIndex(p.tmp)
           list2 == Append(p.list, p.tmp[i])
           tmp2 == RemoveAt(p.tmp, i)
           m == Len(p.tmp)
<1>1. /\ p.list \in Seq(Servers) /\ p.tmp \in Seq(Servers)
      /\ Len(p.list) = n /\ m = Len(reply0) - n
  BY DEF Sorted
<1>2. Len(reply0) \in Nat /\ m \in Nat /\ m # 0 /\ p.tmp # <<>>
  BY <1>1, LenProperties, EmptySeq, SMT
<1>3. /\ i \in 1..m
      /\ \A j \in 1..m : ~Before(p.tmp[j], p.tmp[i])
      /\ \A j \in 1..(i - 1) : Before(p.tmp[i], p.tmp[j])
  BY <1>1, <1>2, LeastIndexFound
<1> HIDE DEF i
<1>4. p.tmp[i] \in Servers
  BY <1>1, <1>3, ElementOfSeq
<1>5. /\ tmp2 \in Seq(Servers) /\ Len(tmp2) = m - 1
      /\ \A k \in 1..(m - 1) : tmp2[k] = IF k < i THEN p.tmp[k] ELSE p.tmp[k + 1]
  BY <1>1, <1>3, RemoveAtProperties, ZenonT(60)
<1>6. /\ list2 \in Seq(Servers) /\ Len(list2) = n + 1
      /\ \A k \in 1..n : list2[k] = p.list[k]
      /\ list2[n + 1] = p.tmp[i]
  BY <1>1, <1>4, AppendProperties, SMTT(30)
<1>7. Moved(p) = [list |-> list2, tmp |-> tmp2]
  BY DEF Moved, i
<1> HIDE DEF list2, tmp2
\* The place in p.tmp of each element of tmp2.
<1> DEFINE old(k) == IF k < i THEN k ELSE k + 1
<1>8. ASSUME NEW k \in 1..(m - 1)
      PROVE  old(k) \in 1..m /\ old(k) # i /\ tmp2[k] = p.tmp[old(k)]
  BY <1>2, <1>3, <1>5, SMT
<1>9. ASSUME NEW k \in 1..(m - 1), NEW l \in 1..(m - 1), k < l
      PROVE  old(k) < old(l)
  BY <1>2, <1>3, <1>9, SMT
\* p.tmp[i] goes before every other.
<1>10. ASSUME NEW j \in 1..m, j # i PROVE InOrder(reply0, p.tmp[i], p.tmp[j])
  <2>1. CASE j < i
    <3>1. j \in 1..(i - 1)
      BY <1>2, <1>3, <2>1, SMT
    <3> QED
      BY <1>3, <3>1 DEF InOrder
  <2>2. CASE ~(j < i)
    <3>1. i < j
      BY <1>2, <1>3, <1>10, <2>2, SMT
    <3>2. \A k, l \in DOMAIN reply0 : reply0[k] = p.tmp[i] /\ reply0[l] = p.tmp[j] => k < l
      BY <1>3, <3>1, Zenon DEF Sorted
    <3> QED
      BY <1>3, <3>2, Zenon DEF InOrder
  <2> QED
    BY <2>1, <2>2
<1>11. ASSUME NEW k \in 1..(n + 1), NEW j \in 1..(m - 1)
       PROVE  InOrder(reply0, list2[k], tmp2[j])
  <2>1. CASE k = n + 1
    BY <1>6, <1>8, <1>10, <2>1
  <2>2. CASE k # n + 1
    <3>1. k \in 1..n
      BY <2>2, SMT
    <3>2. InOrder(reply0, p.list[k], p.tmp[old(j)])
      <4>1. old(j) \in 1..m
        BY <1>8
      <4> HIDE DEF old
      <4> QED
        BY <1>1, <3>1, <4>1, Zenon DEF Sorted
    <3> HIDE DEF old
    <3> QED
      BY <1>6, <1>8, <3>1, <3>2
  <2> QED
    BY <2>1, <2>2
<1>12. ASSUME NEW k \in 1..(n + 1), NEW l \in 1..(n + 1), k < l
       PROVE  InOrder(reply0, list2[k], list2[l])
  <2>1. k \in 1..n
    BY <1>12, SMT
  <2>2. CASE l = n + 1
    BY <1>1, <1>3, <1>6, <2>1, <2>2, Zenon DEF Sorted
  <2>3. CASE l # n + 1
    <3>1. l \in 1..n
      BY <2>3, SMT
    <3> QED
      BY <1>1, <1>6, <1>12, <2>1, <3>1, Zenon DEF Sorted
  <2> QED
    BY <2>2, <2>3
<1>13. ASSUME NEW k \in 1..(m - 1), NEW l \in 1..(m - 1), k < l
       PROVE  \A a, b \in DOMAIN reply0 : reply0[a] = tmp2[k] /\ reply0[b] = tmp2[l] => a < b
  <2>1. old(k) \in 1..m /\ old(l) \in 1..m /\ old(k) < old(l)
    BY <1>8, <1>9, <1>13
  <2>2. tmp2[k] = p.tmp[old(k)] /\ tmp2[l] = p.tmp[old(l)]
    BY <1>8
  <2> HIDE DEF old
  <2> QED
    BY <2>1, <2>2, Zenon DEF Sorted
<1>14. ToSet(list2) \cup ToSet(tmp2) = ToSet(reply0)
  <2>1. /\ DOMAIN p.list = 1..n /\ DOMAIN p.tmp = 1..m
        /\ DOMAIN list2 = 1..(n + 1) /\ DOMAIN tmp2 = 1..(m - 1)
    BY <1>1, <1>5, <1>6, LenProperties
  <2>2. ToSet(list2) = ToSet(p.list) \cup {p.tmp[i]}
    <3>1. \A k \in 1..(n + 1) : k \in 1..n \/ k = n + 1
      BY SMT
    <3>2. \A k \in 1..n : k \in 1..(n + 1)
      BY SMT
    <3>3. n + 1 \in 1..(n + 1)
      BY SMT
    <3> QED
      BY <1>6, <2>1, <3>1, <3>2, <3>3 DEF ToSet
  <2>3. \A k \in 1..m : k # i => \E l \in 1..(m - 1) : tmp2[l] = p.tmp[k]
    <3>1. SUFFICES ASSUME NEW k \in 1..m, k # i
                   PROVE  \E l \in 1..(m - 1) : tmp2[l] = p.tmp[k]
      OBVIOUS
    <3>2. CASE k < i
      <4>1. k \in 1..(m - 1)
        BY <1>2, <1>3, <3>2, SMT
      <4> QED
        BY <1>5, <3>2, <4>1
    <3>3. CASE ~(k < i)
      <4>1. k - 1 \in 1..(m - 1) /\ ~(k - 1 < i) /\ (k - 1) + 1 = k
        BY <1>2, <1>3, <3>1, <3>3, SMT
      <4> QED
        BY <1>5, <4>1
    <3> QED
      BY <3>2, <3>3
  <2>4. ToSet(tmp2) \cup {p.tmp[i]} = ToSet(p.tmp)
    <3>1. \A l \in 1..(m - 1) : \E k \in 1..m : tmp2[l] = p.tmp[k]
      BY <1>8
    <3>2. /\ ToSet(tmp2) = {tmp2[l] : l \in 1..(m - 1)}
          /\ ToSet(p.tmp) = {p.tmp[k] : k \in 1..m}
      BY <2>1 DEF ToSet
    <3> HIDE DEF m
    <3>3. ToSet(tmp2) \cup {p.tmp[i]} \subseteq ToSet(p.tmp)
      BY <1>3, <3>1, <3>2
    <3>4. ToSet(p.tmp) \subseteq ToSet(tmp2) \cup {p.tmp[i]}
      BY <2>3, <3>2
    <3> QED
      BY <3>3, <3>4
  <2>5. ToSet(p.list) \cup ToSet(p.tmp) = ToSet(reply0)
    BY DEF Sorted
  <2> QED
    BY <2>2, <2>4, <2>5
<1>15. Len(tmp2) = Len(reply0) - (n + 1)
  BY <1>1, <1>2, <1>5, SMT
<1> DEFINE p2 == Moved(p)
<1>16. p2.list = list2 /\ p2.tmp = tmp2 /\ p2 \in [list: Seq(Servers), tmp: Seq(Servers)]
  BY <1>5, <1>6, <1>7
<1> HIDE DEF p2, old
<1>17. Sorted(reply0, n + 1, p2)
  BY <1>5, <1>6, <1>11, <1>12, <1>13, <1>14, <1>15, <1>16, ZenonT(60) DEF Sorted
<1> QED
  BY <1>17 DEF p2

\* sortSRVList() returns the servers of the reply in the order of priority, then
\* weight, equals in the order received.
THEOREM SortSRVListSorts ==
  ASSUME NEW reply0 \in Seq(Servers), IsInjective(reply0)
  PROVE  /\ SortSRVList(reply0) \in Seq(Servers)
         /\ Len(SortSRVList(reply0)) = Len(reply0)
         /\ ToSet(SortSRVList(reply0)) = ToSet(reply0)
         /\ \A i, j \in 1..Len(SortSRVList(reply0)) : i < j =>
              InOrder(reply0, SortSRVList(reply0)[i], SortSRVList(reply0)[j])
<1> DEFINE N == Len(reply0)
           f == CHOOSE g : Sorting(reply0, g)
<1>1. N \in Nat /\ DOMAIN reply0 = 1..N
  BY LenProperties
<1>2. Sorting(reply0, f)
  BY SortingExists, Zenon
<1>3. SortSRVList(reply0) = f[N].list
  BY DEF SortSRVList, Sorting, Moved
<1> HIDE DEF f
<1>4. \A n \in 0..N : f[n] = IF n = 0 THEN [list |-> <<>>, tmp |-> reply0] ELSE Moved(f[n-1])
  BY <1>2, Zenon DEF Sorting
<1> DEFINE T == {n \in Nat : n \in 0..N => Sorted(reply0, n, f[n])}
<1>5. 0 \in T
  <2>1. 0 \in 0..N
    BY <1>1, SMT
  <2>2. f[0] = [list |-> <<>>, tmp |-> reply0]
    BY <1>4, <2>1
  <2>3. <<>> \in Seq(Servers) /\ Len(<<>>) = 0 /\ 1..0 = {} /\ N = N - 0
    BY <1>1, EmptySeq, SMT
  <2>4. \A i, j \in 1..N : i < j =>
          \A k, l \in DOMAIN reply0 : reply0[k] = reply0[i] /\ reply0[l] = reply0[j] => k < l
    BY <1>1 DEF IsInjective
  <2>5. ToSet(<<>>) = {}
    BY <2>3, EmptySeq DEF ToSet
  <2>6. Sorted(reply0, 0, [list |-> <<>>, tmp |-> reply0])
    BY <2>3, <2>4, <2>5 DEF Sorted
  <2> QED
    BY <2>2, <2>6
<1>6. ASSUME NEW n \in Nat, n \in T PROVE n + 1 \in T
  <2>1. SUFFICES ASSUME n + 1 \in 0..N PROVE Sorted(reply0, n + 1, f[n + 1])
    BY SMT
  <2>2. n \in 0..N /\ n < N /\ n + 1 # 0 /\ (n + 1) - 1 = n
    BY <1>1, <2>1, SMT
  <2>3. f[n + 1] = Moved(f[n])
    BY <1>4, <2>1, <2>2
  <2>4. Sorted(reply0, n, f[n])
    BY <1>6, <2>2
  <2> QED
    BY <2>2, <2>3, <2>4, MovedKeepsSorted
<1> HIDE DEF T
<1>7. N \in T
  <2>1. T \in SUBSET Nat
    BY DEF T
  <2> QED
    BY <1>1, <1>5, <1>6, <2>1, InductionOnSet, Zenon
<1>8. Sorted(reply0, N, f[N])
  <2>1. N \in 0..N
    BY <1>1, SMT
  <2> QED
    BY <1>7, <2>1 DEF T
<1>9. /\ f[N].list \in Seq(Servers) /\ f[N].tmp \in Seq(Servers)
      /\ Len(f[N].list) = N /\ Len(f[N].tmp) = N - N
      /\ ToSet(f[N].list) \cup ToSet(f[N].tmp) = ToSet(reply0)
      /\ \A i, j \in 1..Len(f[N].list) : i < j => InOrder(reply0, f[N].list[i], f[N].list[j])
  BY <1>8 DEF Sorted
<1>10. ToSet(f[N].tmp) = {}
  <2>1. Len(f[N].tmp) = 0
    BY <1>1, <1>9, SMT
  <2>2. f[N].tmp = <<>>
    BY <1>9, <2>1, EmptySeq
  <2> QED
    BY <2>2 DEF ToSet
<1> QED
  BY <1>3, <1>9, <1>10

-----------------------------------------------------------------------------
(* The search.                                                             *)

\* Moving the head of t to the end of s loses nothing.
LEMMA MoveHead ==
  ASSUME NEW S, NEW s \in Seq(S), NEW t \in Seq(S), t # <<>>
  PROVE  /\ Head(t) \in S
         /\ Tail(t) \in Seq(S) /\ Len(Tail(t)) = Len(t) - 1
         /\ Append(s, Head(t)) \in Seq(S) /\ Len(Append(s, Head(t))) = Len(s) + 1
         /\ Append(s, Head(t)) \o Tail(t) = s \o t
<1>1. /\ Head(t) \in S /\ Tail(t) \in Seq(S) /\ Len(Tail(t)) = Len(t) - 1
      /\ \A k \in 1..Len(Tail(t)) : Tail(t)[k] = t[k + 1]
      /\ Head(t) = t[1]
  BY HeadTailProperties
<1>2. /\ Append(s, Head(t)) \in Seq(S) /\ Len(Append(s, Head(t))) = Len(s) + 1
      /\ \A k \in 1..Len(s) : Append(s, Head(t))[k] = s[k]
      /\ Append(s, Head(t))[Len(s) + 1] = Head(t)
  BY <1>1, AppendProperties
<1> DEFINE left == Append(s, Head(t)) \o Tail(t)
           right == s \o t
           m == Len(s)
           n == Len(t)
<1>3. m \in Nat /\ n \in Nat /\ n # 0
  BY LenProperties, EmptySeq
<1>4. /\ left \in Seq(S) /\ Len(left) = (m + 1) + (n - 1)
      /\ \A k \in 1..((m + 1) + (n - 1)) :
           left[k] = IF k <= m + 1 THEN Append(s, Head(t))[k] ELSE Tail(t)[k - (m + 1)]
  BY <1>1, <1>2, ConcatProperties
<1>5. /\ right \in Seq(S) /\ Len(right) = m + n
      /\ \A k \in 1..(m + n) : right[k] = IF k <= m THEN s[k] ELSE t[k - m]
  BY ConcatProperties
<1> HIDE DEF left, right
<1>6. (m + 1) + (n - 1) = m + n
  BY <1>3, SMT
<1>7. ASSUME NEW k \in 1..(m + n) PROVE left[k] = right[k]
  <2>1. CASE k <= m
    <3>1. k \in 1..m /\ k <= m + 1
      BY <1>3, <2>1, SMT
    <3> QED
      BY <1>2, <1>4, <1>5, <1>6, <2>1, <3>1
  <2>2. CASE k = m + 1
    <3>1. k <= m + 1 /\ ~(k <= m) /\ k - m = 1
      BY <1>3, <2>2, SMT
    <3> QED
      BY <1>1, <1>2, <1>4, <1>5, <1>6, <2>2, <3>1
  <2>3. CASE ~(k <= m + 1)
    <3>1. /\ ~(k <= m) /\ k - (m + 1) \in 1..Len(Tail(t))
          /\ (k - (m + 1)) + 1 = k - m
      BY <1>1, <1>3, <2>3, SMT
    <3> QED
      BY <1>1, <1>4, <1>5, <1>6, <2>3, <3>1
  <2> QED
    BY <1>3, <2>1, <2>2, <2>3, SMT
<1>8. left = right
  BY <1>4, <1>5, <1>6, <1>7, SeqEqual
<1> QED
  BY <1>1, <1>2, <1>8 DEF left, right

\* A query is out only before the servers are known, a lookup is always that of
\* the front server, and a search that has servers left has not failed.
IInv ==
  /\ TypeOK
  /\ TimerCoversQuery
  /\ qdns # "none" => servers = <<>> /\ ~failed
  /\ ndns # None => servers # <<>> /\ ndns = Head(servers).name
  /\ servers # <<>> => ~failed
  /\ ServersInOrder

\* ServersInOrder, of the servers tried and still to try together.
Ordered(all, list) ==
  /\ Len(all) = Len(list)
  /\ ToSet(all) = ToSet(list)
  /\ \A i, j \in DOMAIN all : i < j => InOrder(list, all[i], all[j])

\* Without servers there is nothing out of order.
LEMMA NoServers == tried = <<>> /\ servers = <<>> /\ reply = <<>> => ServersInOrder
<1> SUFFICES ASSUME tried = <<>>, servers = <<>>, reply = <<>> PROVE ServersInOrder
  OBVIOUS
<1>1. <<>> \o <<>> = <<>> /\ Len(<<>>) = 0 /\ DOMAIN <<>> = {}
  OBVIOUS
<1> QED
  BY <1>1 DEF ServersInOrder

LEMMA InitIInv == Init => IInv
<1> SUFFICES ASSUME Init PROVE IInv
  OBVIOUS
<1>1. TypeOK
  <2>1. <<>> \in Seq(Servers) /\ 0 \in 0..MaxCalls
    BY SrvAssumption, EmptySeq, SMT
  <2>2. NoResult \in [addr: Names \cup {NoAddr}, port: {s.port : s \in Servers} \cup {0}]
    BY DEF NoResult
  <2> QED
    BY <2>1, <2>2 DEF Init, TypeOK
<1>2. ServersInOrder
  BY NoServers DEF Init
<1> QED
  BY <1>1, <1>2 DEF Init, IInv, TimerCoversQuery

\* stop() leaves the object without a query, a lookup, a timer or a server.
LEMMA ClearedIInv == IInv /\ Cleared /\ signal' \in BOOLEAN /\ calls' \in 0..MaxCalls => IInv'
<1> SUFFICES ASSUME IInv, Cleared, signal' \in BOOLEAN, calls' \in 0..MaxCalls PROVE IInv'
  OBVIOUS
<1>1. TypeOK'
  BY EmptySeq DEF Cleared, IInv, TypeOK, NoResult
<1>2. ServersInOrder'
  <2>1. tried' = <<>> /\ servers' = <<>> /\ reply' = <<>>
    BY DEF Cleared
  <2>2. (tried = <<>> /\ servers = <<>> /\ reply = <<>> => ServersInOrder)'
    BY NoServers, PTL
  <2> QED
    BY <2>1, <2>2
<1> QED
  BY <1>1, <1>2 DEF Cleared, IInv, TimerCoversQuery

LEMMA ResolveIInv ==
  ASSUME IInv, NEW only \in BOOLEAN, Resolve(only), calls' \in 0..MaxCalls
  PROVE  IInv'
<1>1. TypeOK'
  BY EmptySeq DEF Resolve, IInv, TypeOK, NoResult
<1>2. ServersInOrder'
  <2>1. tried' = <<>> /\ servers' = <<>> /\ reply' = <<>>
    BY DEF Resolve
  <2>2. (tried = <<>> /\ servers = <<>> /\ reply = <<>> => ServersInOrder)'
    BY NoServers, PTL
  <2> QED
    BY <2>1, <2>2
<1> QED
  BY <1>1, <1>2 DEF Resolve, IInv, TimerCoversQuery

\* A server of a list has a name that is one.
LEMMA FrontServer ==
  ASSUME NEW list \in Seq(Servers), list # <<>>
  PROVE  /\ Head(list).name \in Names /\ Head(list).name # None
         /\ Head(list).port \in {s.port : s \in Servers}
<1>1. Head(list) \in Servers
  BY HeadTailProperties
<1> QED
  BY <1>1, SrvAssumption DEF Names

LEMMA NextServerIInv == IInv /\ NextServer /\ calls' \in 0..MaxCalls => IInv'
<1> SUFFICES ASSUME IInv, NextServer, calls' \in 0..MaxCalls PROVE IInv'
  OBVIOUS
<1>1. TypeOK'
  BY FrontServer DEF NextServer, IInv, TypeOK
<1>2. ServersInOrder'
  BY SMTT(30) DEF NextServer, IInv, ServersInOrder
<1> QED
  BY <1>1, <1>2 DEF NextServer, IInv, TimerCoversQuery

\* The reply's servers, sorted, are all still to be tried.
LEMMA QdnsDoneIInv ==
  ASSUME IInv, NEW list \in Replies, QdnsDone(list), UNCHANGED calls
  PROVE  IInv'
<1>1. list \in Seq(Servers) /\ IsInjective(list)
  <2>1. PICK n \in 0..MaxServers : list \in [1..n -> Servers] /\ IsInjective(list)
    BY DEF Replies
  <2>2. n \in Nat
    BY SrvAssumption, SMT
  <2> QED
    BY <2>1, <2>2, SeqDef
<1>2. CASE list = <<>>
  <2>1. Cleared /\ signal' \in BOOLEAN /\ calls' \in 0..MaxCalls
    BY <1>2 DEF QdnsDone, IInv, TypeOK
  <2> QED
    BY <2>1, ClearedIInv
<1>3. CASE list # <<>>
  <2> DEFINE sorted == SortSRVList(list)
  <2>1. /\ sorted \in Seq(Servers)
        /\ Len(sorted) = Len(list)
        /\ ToSet(sorted) = ToSet(list)
        /\ \A i, j \in 1..Len(sorted) : i < j => InOrder(list, sorted[i], sorted[j])
    BY <1>1, SortSRVListSorts
  <2>2. /\ qdns = "done" /\ qdns' = "none" /\ timer' = FALSE
        /\ servers' = sorted /\ reply' = list /\ tried' = <<>>
        /\ signal' = srvonly
        /\ ndns' = IF srvonly THEN ndns ELSE Head(sorted).name
        /\ UNCHANGED <<failed, result, srvonly, calls>>
    BY <1>3 DEF QdnsDone
  <2> HIDE DEF sorted
  <2>3. sorted # <<>>
    BY <1>1, <1>3, <2>1, EmptySeq
  <2>4. Head(sorted).name \in Names /\ Head(sorted).name # None
    BY <2>1, <2>3, FrontServer
  <2>5. ndns = None /\ servers = <<>>
    BY <2>2 DEF IInv
  <2>6. TypeOK'
    BY <1>1, <2>1, <2>2, <2>4, EmptySeq DEF IInv, TypeOK
  <2>7. ServersInOrder'
    <3>1. <<>> \o sorted = sorted
      BY <2>1, ConcatEmptySeq
    <3>2. DOMAIN sorted = 1..Len(sorted)
      BY <2>1, LenProperties
    <3> QED
      BY <2>1, <2>2, <3>1, <3>2 DEF ServersInOrder, InOrder
  <2>8. ~failed
    BY <2>2, <2>5 DEF IInv
  <2> QED
    BY <2>2, <2>3, <2>5, <2>6, <2>7, <2>8 DEF IInv, TimerCoversQuery
<1> QED
  BY <1>2, <1>3

\* A lookup that ends moves its server, the front one, to those tried.
LEMMA NdnsDoneIInv ==
  ASSUME IInv, NEW found \in BOOLEAN, NdnsDone(found), UNCHANGED calls
  PROVE  IInv'
<1>1. /\ ndns # None /\ servers # <<>> /\ ~failed
      /\ servers \in Seq(Servers) /\ tried \in Seq(Servers)
      /\ ndns \in Names /\ calls \in 0..MaxCalls
      /\ qdns = "none" /\ timer = FALSE
  BY DEF NdnsDone, IInv, TypeOK, TimerCoversQuery
<1>2. /\ Tail(servers) \in Seq(Servers) /\ Len(Tail(servers)) = Len(servers) - 1
      /\ Append(tried, Head(servers)) \in Seq(Servers)
      /\ Append(tried, Head(servers)) \o Tail(servers) = tried \o servers
  BY <1>1, MoveHead, ZenonT(60)
<1>3. Len(servers) \in Nat
  BY <1>1, LenProperties
<1>4. ASSUME servers' = Tail(servers), tried' = Append(tried, Head(servers)), reply' = reply
      PROVE  ServersInOrder'
  <2>1. tried' \o servers' = tried \o servers
    BY <1>2, <1>4
  <2>2. Ordered(tried \o servers, reply)
    BY DEF IInv, ServersInOrder, Ordered, InOrder
  <2>3. Ordered(tried' \o servers', reply') => ServersInOrder'
    BY DEF ServersInOrder, Ordered, InOrder
  <2> QED
    BY <1>4, <2>1, <2>2, <2>3
<1>5. CASE found
  <2>1. /\ servers' = Tail(servers) /\ tried' = Append(tried, Head(servers))
        /\ result' = [addr |-> ndns, port |-> Head(servers).port]
        /\ ndns' = None /\ signal' = TRUE
        /\ UNCHANGED <<qdns, timer, failed, srvonly, reply, calls>>
    BY <1>5 DEF NdnsDone
  <2>2. Head(servers).port \in {s.port : s \in Servers}
    BY <1>1, FrontServer
  <2>3. TypeOK'
    BY <1>1, <1>2, <2>1, <2>2 DEF IInv, TypeOK
  <2> QED
    BY <1>1, <1>4, <2>1, <2>3 DEF IInv, TimerCoversQuery
<1>6. CASE ~found /\ Len(servers) > 1
  <2>1. /\ servers' = Tail(servers) /\ tried' = Append(tried, Head(servers))
        /\ ndns' = Head(Tail(servers)).name
        /\ UNCHANGED <<qdns, timer, failed, result, srvonly, signal, reply, calls>>
    BY <1>3, <1>6, SMT DEF NdnsDone
  <2>2. Tail(servers) # <<>>
    <3>1. Len(Tail(servers)) # 0
      BY <1>2, <1>3, <1>6, SMT
    <3> QED
      BY <3>1, EmptySeq
  <2>3. Head(Tail(servers)).name \in Names
    BY <1>2, <2>2, FrontServer
  <2>4. TypeOK'
    BY <1>1, <1>2, <2>1, <2>3 DEF IInv, TypeOK
  <2> QED
    BY <1>1, <1>4, <2>1, <2>2, <2>4 DEF IInv, TimerCoversQuery
<1>7. CASE ~found /\ ~(Len(servers) > 1)
  <2>1. Cleared /\ signal' \in BOOLEAN /\ calls' \in 0..MaxCalls
    BY <1>1, <1>7 DEF NdnsDone
  <2> QED
    BY <2>1, ClearedIInv
<1> QED
  BY <1>5, <1>6, <1>7

\* A step that leaves the servers alone.
LEMMA OtherIInv ==
  ASSUME IInv, UNCHANGED calls,
         \/ QdnsFinish
         \/ QdnsEarly
         \/ SlotReturns
  PROVE  IInv'
<1>1. ServersInOrder'
  BY DEF IInv, ServersInOrder, QdnsFinish, QdnsEarly, SlotReturns, resolverVars
<1>2. TypeOK'
  BY DEF IInv, TypeOK, QdnsFinish, QdnsEarly, SlotReturns, resolverVars
<1> QED
  BY <1>1, <1>2 DEF IInv, TimerCoversQuery, QdnsFinish, QdnsEarly, SlotReturns, resolverVars

LEMMA NextIInv == IInv /\ [Next]_vars => IInv'
<1> SUFFICES ASSUME IInv, [Next]_vars PROVE IInv'
  OBVIOUS
<1>1. MaxCalls \in Nat /\ calls \in 0..MaxCalls /\ signal \in BOOLEAN
  BY SrvAssumption DEF IInv, TypeOK
<1>2. calls < MaxCalls /\ calls' = calls + 1 => calls' \in 0..MaxCalls
  BY <1>1, SMT
<1>3. ASSUME NEW only \in BOOLEAN, Counted(Resolve(only)) PROVE IInv'
  BY <1>2, <1>3, ResolveIInv DEF Counted
<1>4. CASE Counted(NextServer)
  BY <1>2, <1>4, NextServerIInv DEF Counted
<1>5. CASE Stop /\ UNCHANGED calls
  BY <1>1, <1>5, ClearedIInv DEF Stop
<1>6. CASE (QdnsFinish \/ QdnsEarly \/ SlotReturns) /\ UNCHANGED calls
  BY <1>6, OtherIInv
<1>7. ASSUME NEW list \in Replies, QdnsDone(list), UNCHANGED calls PROVE IInv'
  BY <1>7, QdnsDoneIInv
<1>8. ASSUME NEW found \in BOOLEAN, NdnsDone(found), UNCHANGED calls PROVE IInv'
  BY <1>8, NdnsDoneIInv
<1>9. CASE Timeout /\ UNCHANGED calls
  BY <1>1, <1>9, ClearedIInv DEF Timeout
<1>10. CASE UNCHANGED vars
  <2>1. ServersInOrder'
    BY <1>10 DEF IInv, ServersInOrder, vars, resolverVars
  <2> QED
    BY <1>10, <2>1 DEF IInv, TypeOK, TimerCoversQuery, vars, resolverVars
<1> QED
  BY <1>3, <1>4, <1>5, <1>6, <1>7, <1>8, <1>9, <1>10 DEF Next, Program, Event

\* The type invariant and the strengthening the properties rest on.
THEOREM InductiveInvariant == Spec => []IInv
<1>1. Init => IInv
  BY InitIInv
<1>2. IInv /\ [Next]_vars => IInv'
  BY NextIInv
<1> QED
  BY <1>1, <1>2, PTL DEF Spec

\* Every variable keeps its type: the front server's name and port among them,
\* so that no lookup is started, and no result taken, from an empty list.
THEOREM TypeCorrect == Spec => []TypeOK
<1>1. IInv => TypeOK
  BY DEF IInv
<1> QED
  BY <1>1, InductiveInvariant, PTL

\* The timer runs exactly while a query is out.
THEOREM QueryIsTimed == Spec => []TimerCoversQuery
<1>1. IInv => TimerCoversQuery
  BY DEF IInv
<1> QED
  BY <1>1, InductiveInvariant, PTL

\* The servers tried and still to try are the reply, sorted, whatever the reply.
THEOREM SearchFollowsOrder == Spec => []ServersInOrder
<1>1. IInv => ServersInOrder
  BY DEF IInv
<1> QED
  BY <1>1, InductiveInvariant, PTL

\* A lookup announces failure only when no server is left to try: the other two
\* ways to fail, an empty reply and the timer, come before any lookup.
THEOREM FailureIsLast == Spec => FailureOnlyAfterAllServers
<1>1. ASSUME IInv, [Next]_vars, ndns # None, ~signal, signal', failed'
      PROVE  Len(tried) + 1 = Len(reply)
  <2>1. /\ servers # <<>> /\ ~failed /\ qdns = "none" /\ timer = FALSE
        /\ servers \in Seq(Servers) /\ tried \in Seq(Servers)
        /\ Len(tried \o servers) = Len(reply)
    BY <1>1 DEF IInv, TypeOK, TimerCoversQuery, ServersInOrder
  <2>2. Len(servers) \in Nat /\ Len(servers) # 0 /\ Len(tried) \in Nat
    BY <2>1, LenProperties, EmptySeq
  <2>3. Len(tried) + Len(servers) = Len(reply)
    BY <2>1, ConcatProperties
  <2>4. PICK found \in BOOLEAN : NdnsDone(found)
    BY <1>1, <2>1 DEF Next, Program, Event, Counted, Resolve, NextServer, Stop, QdnsFinish,
                      QdnsEarly, QdnsDone, Timeout, SlotReturns, vars, resolverVars
  <2>5. Len(servers) <= 1
    BY <1>1, <2>1, <2>4 DEF NdnsDone
  <2> QED
    BY <2>2, <2>3, <2>5, SMT
<1> QED
  BY <1>1, InductiveInvariant, PTL DEF Spec, FailureOnlyAfterAllServers

=============================================================================
