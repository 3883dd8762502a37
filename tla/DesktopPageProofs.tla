-------------------------- MODULE DesktopPageProofs --------------------------
(***************************************************************************)
(* Proofs about the page of the desktop shell and the document below it,   *)
(* for any pages, fragments, scripts, functions and bounds.                *)
(***************************************************************************)
EXTENDS DesktopPage, FiniteSetTheorems, SequenceTheorems, WellFoundedInduction, TLAPS

-----------------------------------------------------------------------------
(* What the sequence operators of the library do.                           *)

LEMMA RemoveAtProperties ==
  ASSUME NEW S, NEW s \in Seq(S), NEW i \in DOMAIN s
  PROVE  /\ RemoveAt(s, i) \in Seq(S)
         /\ Len(RemoveAt(s, i)) = Len(s) - 1
         /\ \A k \in 1..(Len(s) - 1) :
              RemoveAt(s, i)[k] = IF k < i THEN s[k] ELSE s[k + 1]
<1> DEFINE left == SubSeq(s, 1, i - 1)
           right == SubSeq(s, i + 1, Len(s))
<1>1. i \in 1..Len(s) /\ Len(s) \in Nat
  OBVIOUS
<1>2. left \in Seq(S) /\ Len(left) = i - 1 /\ \A k \in 1..(i - 1) : left[k] = s[k]
  BY <1>1, SubSeqProperties, SMT
<1>3. /\ right \in Seq(S) /\ Len(right) = Len(s) - i
      /\ \A k \in 1..(Len(s) - i) : right[k] = s[i + k]
  BY <1>1, SubSeqProperties, SMT
<1> HIDE DEF left, right
<1>4. RemoveAt(s, i) = left \o right
  BY DEF RemoveAt, left, right
<1> QED
  BY <1>1, <1>2, <1>3, <1>4, ConcatProperties, SMT

\* Where the element at k was before the one at i was removed.
Before(i, k) == IF k < i THEN k ELSE k + 1

\* Every element but the removed one stays, and the order with it.
LEMMA RemoveAtKeepsOrder ==
  ASSUME NEW S, NEW s \in Seq(S), NEW i \in DOMAIN s, NEW r, r = RemoveAt(s, i)
  PROVE  /\ r \in Seq(S)
         /\ \A k \in DOMAIN r : Before(i, k) \in DOMAIN s \ {i} /\ r[k] = s[Before(i, k)]
         /\ \A j \in DOMAIN s \ {i} : \E k \in DOMAIN r : j = Before(i, k)
         /\ \A j, k \in DOMAIN r : j < k => Before(i, j) < Before(i, k)
<1>1. /\ r \in Seq(S) /\ Len(r) = Len(s) - 1
      /\ \A k \in 1..(Len(s) - 1) : r[k] = IF k < i THEN s[k] ELSE s[k + 1]
  BY RemoveAtProperties
<1>2. /\ DOMAIN s = 1..Len(s) /\ DOMAIN r = 1..(Len(s) - 1)
      /\ Len(s) \in Nat /\ i \in 1..Len(s)
  BY <1>1
<1>3. \A k \in DOMAIN r : Before(i, k) \in DOMAIN s \ {i} /\ r[k] = s[Before(i, k)]
  BY <1>1, <1>2 DEF Before
<1>4. ASSUME NEW j \in DOMAIN s \ {i}
      PROVE  \E k \in DOMAIN r : j = Before(i, k)
  <2>1. CASE j < i
    BY <1>2, <2>1 DEF Before
  <2>2. CASE j > i
    <3>1. j - 1 \in DOMAIN r /\ Before(i, j - 1) = j
      BY <1>2, <2>2 DEF Before
    <3> QED
      BY <3>1
  <2> QED
    BY <1>2, <2>1, <2>2
<1>5. \A j, k \in DOMAIN r : j < k => Before(i, j) < Before(i, k)
  BY <1>2 DEF Before
<1> QED
  BY <1>1, <1>3, <1>4, <1>5

\* A set of finite sets has one that contains no other of them.
LEMMA SmallestSet ==
  ASSUME NEW S, IsFiniteSet(S), NEW D, D \subseteq SUBSET S, D # {}
  PROVE  \E T \in D : \A U \in D : U \subseteq T => U = T
<1>1. D \subseteq FiniteSubsetsOf(S)
  BY FS_FiniteSubsetsOfFinite
<1>2. PICK T \in D : \A U \in D : ~ (<<U, T>> \in StrictSubsetOrdering(S))
  BY <1>1, FS_StrictSubsetOrderingWellFounded, WFMin
<1> QED
  BY <1>2 DEF StrictSubsetOrdering

\* Proofs by induction take the least counterexample.
LEMMA LeastNumber ==
  ASSUME NEW S \in SUBSET Nat, S # {}
  PROVE  \E m \in S : \A n \in S : m <= n
<1>1. PICK top \in S : TRUE
  OBVIOUS
<1> DEFINE D == {0..n : n \in {k \in S : k <= top}}
           all == 0..top
<1>2. IsFiniteSet(all)
  BY <1>1, FS_Interval
<1>3. D \subseteq SUBSET all
  <2>1. \A k \in Nat : k <= top => 0..k \subseteq all
    BY <1>1
  <2> HIDE DEF all
  <2> QED
    BY <2>1
<1>4. D # {}
  BY <1>1
<1>5. PICK T \in D : \A U \in D : U \subseteq T => U = T
  <2> HIDE DEF D, all
  <2> QED
    BY <1>2, <1>3, <1>4, SmallestSet
<1>6. PICK m \in S : m <= top /\ T = 0..m
  BY <1>5
<1>7. ASSUME NEW n \in S
      PROVE  m <= n
  <2> SUFFICES ASSUME n < m PROVE FALSE
    OBVIOUS
  <2>1. 0..n \in D
    BY <1>6
  <2>2. 0..n \subseteq 0..m
    OBVIOUS
  <2>3. 0..n = 0..m
    BY <1>5, <1>6, <2>1, <2>2
  <2>4. m \in 0..m /\ m \notin 0..n
    OBVIOUS
  <2> QED
    BY <2>3, <2>4
<1> QED
  BY <1>7

LEMMA MinProperties ==
  ASSUME NEW S \in SUBSET Nat, S # {}
  PROVE  Min(S) \in S /\ \A n \in S : Min(S) <= n
BY LeastNumber DEF Min

LEMMA RemoveFirstProperties ==
  ASSUME NEW S, NEW s \in Seq(S), IsInjective(s), NEW c \in Range(s)
  PROVE  /\ RemoveFirst(s, c) \in Seq(S) /\ IsInjective(RemoveFirst(s, c))
         /\ Range(RemoveFirst(s, c)) = Range(s) \ {c}
<1> DEFINE I == {i \in 1..Len(s) : s[i] = c}
           m == Min(I)
           r == RemoveFirst(s, c)
<1>1. DOMAIN s = 1..Len(s) /\ Len(s) \in Nat
  OBVIOUS
<1>2. I # {} /\ \E i \in 1..Len(s) : s[i] = c
  BY <1>1 DEF Range
<1>3. m \in DOMAIN s /\ s[m] = c
  <2>1. I \in SUBSET Nat
    OBVIOUS
  <2>2. m \in I
    <3> HIDE DEF I
    <3> QED
      BY <1>2, <2>1, MinProperties
  <2> QED
    BY <1>1, <2>2
<1>4. r = RemoveAt(s, m)
  BY <1>2 DEF RemoveFirst, SelectInSeq
<1> HIDE DEF m, r
<1>5. /\ r \in Seq(S)
      /\ \A k \in DOMAIN r : Before(m, k) \in DOMAIN s \ {m} /\ r[k] = s[Before(m, k)]
      /\ \A j \in DOMAIN s \ {m} : \E k \in DOMAIN r : j = Before(m, k)
      /\ \A j, k \in DOMAIN r : j < k => Before(m, j) < Before(m, k)
  BY <1>3, <1>4, RemoveAtKeepsOrder
<1>6. IsInjective(r)
  <2> SUFFICES ASSUME NEW j \in DOMAIN r, NEW k \in DOMAIN r, r[j] = r[k] PROVE j = k
    BY DEF IsInjective
  <2>1. Before(m, j) = Before(m, k)
    BY <1>5 DEF IsInjective
  <2>2. j \in Nat /\ k \in Nat
    BY <1>5
  <2> QED
    BY <1>5, <2>1, <2>2
<1>7. Range(r) = Range(s) \ {c}
  <2>1. \A j \in DOMAIN s \ {m} : s[j] # c
    BY <1>3 DEF IsInjective
  <2>2. Range(r) \subseteq Range(s) \ {c}
    BY <1>5, <2>1 DEF Range
  <2>3. ASSUME NEW x \in Range(s) \ {c} PROVE x \in Range(r)
    <3>1. PICK j \in DOMAIN s : s[j] = x
      BY DEF Range
    <3>2. j # m
      BY <1>3, <3>1
    <3>3. PICK k \in DOMAIN r : j = Before(m, k)
      BY <1>5, <3>2
    <3>4. r[k] = x
      BY <1>5, <3>1, <3>3
    <3> QED
      BY <3>4 DEF Range
  <2> QED
    BY <2>2, <2>3
<1> QED
  BY <1>5, <1>6, <1>7 DEF r

LEMMA LastFront ==
  ASSUME NEW S, NEW s \in Seq(S), s # << >>
  PROVE  /\ Len(s) \in Nat \ {0} /\ Len(s) \in DOMAIN s
         /\ Last(s) \in S /\ Last(s) = s[Len(s)]
         /\ Front(s) \in Seq(S) /\ Len(Front(s)) = Len(s) - 1
         /\ \A i \in 1..(Len(s) - 1) : Front(s)[i] = s[i]
<1>1. Len(s) \in Nat \ {0} /\ DOMAIN s = 1..Len(s)
  BY EmptySeq
<1>2. \A i \in 1..(Len(s) - 1) : s[i] \in S
  BY <1>1
<1>3. /\ Front(s) \in Seq(S) /\ Len(Front(s)) = Len(s) - 1
      /\ \A i \in 1..(Len(s) - 1) : Front(s)[i] = s[i]
  <2> DEFINE m == Len(s) - 1
  <2>1. m \in Int /\ 1 \in Int /\ \A i \in 1..m : s[i] \in S
    BY <1>1, <1>2
  <2>2. /\ SubSeq(s, 1, m) \in Seq(S)
        /\ Len(SubSeq(s, 1, m)) = IF 1 <= m THEN m - 1 + 1 ELSE 0
        /\ \A i \in 1..(m - 1 + 1) : SubSeq(s, 1, m)[i] = s[1 + i - 1]
    <3> HIDE DEF m
    <3> QED
      BY <2>1, SubSeqProperties
  <2> QED
    BY <1>1, <2>2 DEF Front
<1> QED
  BY <1>1, <1>3 DEF Last

LEMMA ReverseProperties ==
  ASSUME NEW S, NEW s \in Seq(S)
  PROVE  /\ Reverse(s) \in Seq(S) /\ DOMAIN Reverse(s) = DOMAIN s
         /\ \A i \in DOMAIN s : /\ (Len(s) - i) + 1 \in DOMAIN s
                              /\ Reverse(s)[i] = s[(Len(s) - i) + 1]
         /\ \A i \in DOMAIN s : Reverse(s)[(Len(s) - i) + 1] = s[i]
BY DEF Reverse

LEMMA RangeOfReverse ==
  ASSUME NEW S, NEW s \in Seq(S)
  PROVE  Range(Reverse(s)) = Range(s)
BY ReverseProperties DEF Range

LEMMA InjectiveReverse ==
  ASSUME NEW S, NEW s \in Seq(S), IsInjective(s)
  PROVE  IsInjective(Reverse(s))
<1>1. Len(s) \in Nat /\ DOMAIN s = 1..Len(s)
  OBVIOUS
<1>2. /\ DOMAIN Reverse(s) = DOMAIN s
      /\ \A i \in DOMAIN s : /\ (Len(s) - i) + 1 \in DOMAIN s
                           /\ Reverse(s)[i] = s[(Len(s) - i) + 1]
  BY ReverseProperties
<1> SUFFICES ASSUME NEW i \in DOMAIN s, NEW j \in DOMAIN s, Reverse(s)[i] = Reverse(s)[j]
             PROVE  i = j
  BY <1>2 DEF IsInjective
<1>3. (Len(s) - i) + 1 = (Len(s) - j) + 1
  BY <1>2 DEF IsInjective
<1> QED
  BY <1>1, <1>3

LEMMA InjectiveConcat ==
  ASSUME NEW S, NEW s \in Seq(S), NEW t \in Seq(S),
         IsInjective(s), IsInjective(t), Range(s) \cap Range(t) = {}
  PROVE  IsInjective(s \o t)
<1> DEFINE c == s \o t
<1>1. /\ c \in Seq(S) /\ Len(c) = Len(s) + Len(t) /\ DOMAIN c = 1..(Len(s) + Len(t))
      /\ \A i \in 1..(Len(s) + Len(t)) :
           c[i] = IF i <= Len(s) THEN s[i] ELSE t[i - Len(s)]
  BY ConcatProperties
<1>2. /\ Len(s) \in Nat /\ Len(t) \in Nat
      /\ DOMAIN s = 1..Len(s) /\ DOMAIN t = 1..Len(t)
  OBVIOUS
<1> HIDE DEF c
<1> SUFFICES ASSUME NEW i \in DOMAIN c, NEW j \in DOMAIN c, c[i] = c[j]
             PROVE  i = j
  BY DEF IsInjective, c
<1>3. CASE i <= Len(s) /\ j <= Len(s)
  BY <1>1, <1>2, <1>3 DEF IsInjective
<1>4. CASE i > Len(s) /\ j > Len(s)
  <2>1. i - Len(s) \in DOMAIN t /\ j - Len(s) \in DOMAIN t
    BY <1>1, <1>2, <1>4
  <2>2. t[i - Len(s)] = t[j - Len(s)]
    BY <1>1, <1>2, <1>4
  <2>3. i - Len(s) = j - Len(s)
    BY <2>1, <2>2 DEF IsInjective
  <2> QED
    BY <1>1, <1>2, <2>3
<1>5. ASSUME NEW a \in DOMAIN c, NEW b \in DOMAIN c, a <= Len(s), b > Len(s)
      PROVE  c[a] # c[b]
  <2>1. a \in DOMAIN s /\ b - Len(s) \in DOMAIN t
    BY <1>1, <1>2, <1>5
  <2>2. c[a] \in Range(s) /\ c[b] \in Range(t)
    BY <1>1, <1>2, <1>5, <2>1 DEF Range
  <2> QED
    BY <2>2
<1> QED
  BY <1>1, <1>2, <1>3, <1>4, <1>5

LEMMA InjectiveAppend ==
  ASSUME NEW S, NEW s \in Seq(S), NEW e \in S, IsInjective(s), e \notin Range(s)
  PROVE  IsInjective(Append(s, e)) /\ Range(Append(s, e)) = Range(s) \cup {e}
<1>1. /\ Append(s, e) \in Seq(S) /\ DOMAIN Append(s, e) = 1..(Len(s) + 1)
      /\ \A i \in DOMAIN s : Append(s, e)[i] = s[i]
      /\ Append(s, e)[Len(s) + 1] = e
      /\ Len(s) \in Nat /\ DOMAIN s = 1..Len(s)
  BY AppendProperties
<1>2. IsInjective(Append(s, e))
  BY <1>1 DEF IsInjective, Range
<1>3. Range(Append(s, e)) = Range(s) \cup {e}
  BY <1>1 DEF Range
<1> QED
  BY <1>2, <1>3

LEMMA InjectiveFront ==
  ASSUME NEW S, NEW s \in Seq(S), s # << >>, IsInjective(s)
  PROVE  /\ IsInjective(Front(s)) /\ Range(s) = Range(Front(s)) \cup {Last(s)}
         /\ Last(s) \notin Range(Front(s))
<1>1. /\ Len(s) \in Nat \ {0} /\ DOMAIN s = 1..Len(s) /\ Last(s) = s[Len(s)]
      /\ DOMAIN Front(s) = 1..(Len(s) - 1)
      /\ \A i \in 1..(Len(s) - 1) : Front(s)[i] = s[i]
  BY LastFront
<1>2. IsInjective(Front(s)) /\ Last(s) \notin Range(Front(s))
  BY <1>1 DEF IsInjective, Range
<1>3. Range(s) = Range(Front(s)) \cup {Last(s)}
  BY <1>1 DEF Range
<1> QED
  BY <1>2, <1>3

LEMMA InjectiveLength ==
  ASSUME NEW S, IsFiniteSet(S), NEW s \in Seq(S), IsInjective(s)
  PROVE  /\ Len(s) \in Nat /\ Len(s) <= Cardinality(S)
         /\ Len(s) = Cardinality(S) => Range(s) = S
<1>1. Len(s) \in Nat /\ s \in [1..Len(s) -> S] /\ DOMAIN s = 1..Len(s)
  BY LenProperties
<1>2. s \in Injection(1..Len(s), S)
  BY <1>1 DEF Injection
<1>3. Cardinality(1..Len(s)) = Len(s)
  BY <1>1, FS_Interval
<1>4. Len(s) <= Cardinality(S)
  BY <1>2, <1>3, FS_Injection
<1>5. ASSUME Len(s) = Cardinality(S)
      PROVE  Range(s) = S
  <2>1. s \in Surjection(1..Len(s), S)
    BY <1>2, <1>3, <1>5, FS_Injection
  <2> QED
    BY <1>1, <2>1 DEF Surjection, Range
<1> QED
  BY <1>1, <1>4, <1>5

-----------------------------------------------------------------------------
(* Recursive functions over Nat: what is computed by taking a step from     *)
(* base again and again.                                                    *)

Upto(g, n, S, base, step) ==
  /\ g \in [0..n -> S]
  /\ g[0] = base
  /\ \A k \in 0..(n - 1) : g[k + 1] = step[g[k]]

Iterates(f, S, base, step) ==
  /\ f \in [Nat -> S]
  /\ f[0] = base
  /\ \A k \in Nat : f[k + 1] = step[f[k]]

LEMMA UptoExists ==
  ASSUME NEW S, NEW base \in S, NEW step \in [S -> S], NEW n \in Nat
  PROVE  \E g : Upto(g, n, S, base, step)
<1> DEFINE D == {k \in Nat : ~\E g : Upto(g, k, S, base, step)}
<1> SUFFICES ASSUME D # {} PROVE FALSE
  OBVIOUS
<1>1. PICK m \in D : \A k \in D : m <= k
  <2>1. D \in SUBSET Nat
    OBVIOUS
  <2> HIDE DEF D
  <2> QED
    BY <2>1, LeastNumber
<1>2. CASE m = 0
  <2>1. Upto([k \in 0..0 |-> base], 0, S, base, step)
    BY DEF Upto
  <2> QED
    BY <1>1, <1>2, <2>1
<1>3. CASE m # 0
  <2>1. m - 1 \in Nat /\ m - 1 \notin D
    BY <1>1, <1>3
  <2>2. PICK g : Upto(g, m - 1, S, base, step)
    BY <2>1
  <2> DEFINE h == [k \in 0..m |-> IF k = m THEN step[g[m - 1]] ELSE g[k]]
  <2>3. /\ g \in [0..(m - 1) -> S] /\ g[0] = base
        /\ \A k \in 0..(m - 2) : g[k + 1] = step[g[k]]
    BY <2>1, <2>2 DEF Upto
  <2>4. h \in [0..m -> S]
    <3>1. g[m - 1] \in S
      BY <2>1, <2>3
    <3>2. step[g[m - 1]] \in S
      BY <3>1
    <3>3. \A k \in 0..m : k # m => g[k] \in S
      BY <2>1, <2>3
    <3> QED
      BY <3>2, <3>3
  <2>5. h[0] = base
    BY <2>1, <2>3
  <2>6. \A k \in 0..(m - 1) : h[k + 1] = step[h[k]]
    BY <2>1, <2>3
  <2>7. Upto(h, m, S, base, step)
    <3> HIDE DEF h
    <3> QED
      BY <2>4, <2>5, <2>6 DEF Upto
  <2> QED
    BY <1>1, <2>7
<1> QED
  BY <1>2, <1>3

LEMMA UptoAgree ==
  ASSUME NEW S, NEW base, NEW step, NEW n \in Nat, NEW m \in Nat, n <= m,
         NEW g, Upto(g, n, S, base, step), NEW h, Upto(h, m, S, base, step)
  PROVE  \A k \in 0..n : g[k] = h[k]
<1> DEFINE D == {k \in 0..n : g[k] # h[k]}
<1> SUFFICES ASSUME D # {} PROVE FALSE
  OBVIOUS
<1>1. PICK l \in D : \A k \in D : l <= k
  <2>1. D \in SUBSET Nat
    OBVIOUS
  <2> HIDE DEF D
  <2> QED
    BY <2>1, LeastNumber
<1>2. l # 0
  BY DEF Upto
<1>3. l - 1 \in 0..(n - 1) /\ l - 1 \in 0..(m - 1) /\ l - 1 \notin D
  BY <1>1, <1>2
<1>4. g[l - 1] = h[l - 1]
  BY <1>3
<1>5. g[(l - 1) + 1] = step[g[l - 1]] /\ h[(l - 1) + 1] = step[h[l - 1]]
  BY <1>3 DEF Upto
<1>6. (l - 1) + 1 = l
  BY <1>1
<1> QED
  BY <1>1, <1>4, <1>5, <1>6

LEMMA IterationExists ==
  ASSUME NEW S, NEW base \in S, NEW step \in [S -> S]
  PROVE  \E f : Iterates(f, S, base, step)
<1> DEFINE G(n) == CHOOSE g : Upto(g, n, S, base, step)
           f == [n \in Nat |-> G(n)[n]]
<1>1. \A n \in Nat : Upto(G(n), n, S, base, step)
  BY UptoExists
<1> HIDE DEF G
<1>2. f \in [Nat -> S]
  <2>1. \A n \in Nat : G(n)[n] \in S
    BY <1>1 DEF Upto
  <2> QED
    BY <2>1
<1>3. f[0] = base
  BY <1>1 DEF Upto
<1>4. ASSUME NEW k \in Nat
      PROVE  f[k + 1] = step[f[k]]
  <2>1. Upto(G(k), k, S, base, step) /\ Upto(G(k + 1), k + 1, S, base, step)
    BY <1>1
  <2>2. G(k)[k] = G(k + 1)[k]
    <3>1. k <= k + 1 /\ k + 1 \in Nat /\ k \in 0..k
      OBVIOUS
    <3> QED
      BY <2>1, <3>1, UptoAgree
  <2>3. G(k + 1)[k + 1] = step[G(k + 1)[k]]
    <3>1. k \in 0..((k + 1) - 1)
      OBVIOUS
    <3> QED
      BY <2>1, <3>1 DEF Upto
  <2> QED
    BY <2>2, <2>3
<1> HIDE DEF f
<1> QED
  BY <1>2, <1>3, <1>4 DEF Iterates

-----------------------------------------------------------------------------
(* Documents.                                                               *)

\* A document of these four functions, and that d has no other fields.
Doc(t, a, q, k) == [tag |-> t, attr |-> a, parent |-> q, kids |-> k]

HasFields(d) == d = Doc(d.tag, d.attr, d.parent, d.kids)

LEMMA FieldsOf ==
  ASSUME NEW d, NEW t, NEW a, NEW q, NEW k, d = Doc(t, a, q, k)
  PROVE  d.tag = t /\ d.attr = a /\ d.parent = q /\ d.kids = k /\ HasFields(d)
BY DEF Doc, HasFields

LEMMA ChildrenFacts ==
  ASSUME NEW d, IsDocument(d), NEW x \in NodesOf(d)
  PROVE  /\ d.kids[x] \in Seq(NodesOf(d)) /\ IsInjective(d.kids[x])
         /\ Range(d.kids[x]) = ChildSet(d, x) /\ ChildSet(d, x) \subseteq NodesOf(d)
         /\ \A c \in NodesOf(d) : c \in ChildSet(d, x) <=> d.parent[c] = x
<1>1. d.kids[x] \in Seq(NodesOf(d)) /\ IsInjective(d.kids[x])
  BY DEF IsDocument, LinksSound
<1>2. Range(d.kids[x]) = ChildSet(d, x)
  BY DEF Range, ChildSet
<1>3. Range(d.kids[x]) \in SUBSET NodesOf(d)
  BY <1>1, RangeOfSeq
<1>4. ASSUME NEW c \in NodesOf(d)
      PROVE  c \in ChildSet(d, x) <=> d.parent[c] = x
  <2>1. x # NoNode
    BY DEF IsDocument, NoNode
  <2> QED
    BY <2>1 DEF IsDocument, LinksSound
<1> QED
  BY <1>1, <1>2, <1>3, <1>4

\* A node is listed below another just if it names it as its parent.
Linked(d) == \A x, c \in NodesOf(d) : c \in ChildSet(d, x) <=> d.parent[c] = x

LEMMA DocumentFacts ==
  ASSUME NEW d, IsDocument(d)
  PROVE  /\ HasFields(d) /\ Linked(d)
         /\ IsFiniteSet(NodesOf(d)) /\ NewNode(d) \in Nat \ {0} /\ NodesOf(d) = 0..(NewNode(d) - 1)
         /\ NoNode \notin NodesOf(d) /\ NewNode(d) \notin NodesOf(d) /\ DOMAIN d.attr = NodesOf(d)
         /\ d.parent \in [NodesOf(d) -> NodesOf(d) \cup {NoNode}]
         /\ d.kids \in [NodesOf(d) -> Seq(NodesOf(d))]
         /\ Root \in NodesOf(d) /\ d.parent[Root] = NoNode
         /\ \A x \in NodesOf(d) : IsInjective(d.kids[x])
<1>1. Linked(d)
  BY ChildrenFacts DEF Linked
<1>2. HasFields(d)
  BY DEF IsDocument, HasFields, Doc
<1>3. NewNode(d) \in Nat
  BY FS_CardinalityType DEF IsDocument, NewNode
<1>4. /\ IsFiniteSet(NodesOf(d)) /\ NodesOf(d) = 0..(NewNode(d) - 1) /\ Root \in NodesOf(d)
  BY DEF IsDocument
<1>5. NewNode(d) # 0 /\ NoNode \notin NodesOf(d) /\ NewNode(d) \notin NodesOf(d)
  BY <1>3, <1>4 DEF NoNode
<1> QED
  BY <1>1, <1>2, <1>3, <1>4, <1>5 DEF IsDocument, LinksSound

LEMMA DocumentFrom ==
  ASSUME NEW e, HasFields(e), Linked(e), NEW m \in Nat \ {0}, NodesOf(e) = 0..(m - 1),
         DOMAIN e.attr = NodesOf(e),
         e.parent \in [NodesOf(e) -> NodesOf(e) \cup {NoNode}],
         e.kids \in [NodesOf(e) -> Seq(NodesOf(e))],
         e.parent[Root] = NoNode,
         \A x \in NodesOf(e) : IsInjective(e.kids[x])
  PROVE  IsDocument(e) /\ NewNode(e) = m
<1>1. IsFiniteSet(NodesOf(e)) /\ NewNode(e) = m
  <2>1. IsFiniteSet(0..(m - 1)) /\ Cardinality(0..(m - 1)) = m
    BY FS_Interval
  <2> QED
    BY <2>1 DEF NewNode
<1>2. Root \in NodesOf(e)
  BY DEF Root
<1>3. \A x \in NodesOf(e) : ChildSet(e, x) \subseteq NodesOf(e)
  <2> TAKE x \in NodesOf(e)
  <2>1. e.kids[x] \in Seq(NodesOf(e))
    OBVIOUS
  <2> HIDE DEF NodesOf
  <2>2. Range(e.kids[x]) \in SUBSET NodesOf(e)
    BY <2>1, RangeOfSeq
  <2> QED
    BY <2>2 DEF Range, ChildSet
<1>4. LinksSound(e)
  <2> SUFFICES ASSUME NEW x \in NodesOf(e)
               PROVE  /\ e.parent[x] = NoNode \/ x \in ChildSet(e, e.parent[x])
                      /\ \A c \in ChildSet(e, x) : e.parent[c] = x
                      /\ IsInjective(e.kids[x])
    BY DEF LinksSound
  <2>1. e.parent[x] \in NodesOf(e) \cup {NoNode}
    OBVIOUS
  <2>2. e.parent[x] = NoNode \/ x \in ChildSet(e, e.parent[x])
    BY <2>1 DEF Linked
  <2>3. \A c \in ChildSet(e, x) : e.parent[c] = x
    BY <1>3 DEF Linked
  <2> QED
    BY <2>2, <2>3
<1> QED
  BY <1>1, <1>2, <1>4 DEF IsDocument, HasFields, Doc

-----------------------------------------------------------------------------
(* The walk of a document as an iteration.                                  *)

WalkState(d) == [order : Seq(NodesOf(d)), stack : Seq(NodesOf(d))]

WalkFrom(n) == [order |-> << >>, stack |-> <<n>>]

WalkNext(d, w) ==
  IF w.stack = << >> THEN w
  ELSE [order |-> Append(w.order, Last(w.stack)),
        stack |-> Front(w.stack) \o Reverse(d.kids[Last(w.stack)])]

\* The recursive function of Walk.
Walking(d, n, f) ==
  f = [k \in Nat |-> IF k = 0 THEN WalkFrom(n) ELSE WalkNext(d, f[k - 1])]

LEMMA WalkIs ==
  ASSUME NEW d, NEW n
  PROVE  Walk(d, n) = (CHOOSE f : Walking(d, n, f))[Cardinality(NodesOf(d))]
BY DEF Walk, Walking, WalkFrom, WalkNext

LEMMA WalkNextType ==
  ASSUME NEW d, IsDocument(d), NEW w \in WalkState(d)
  PROVE  WalkNext(d, w) \in WalkState(d)
<1> DEFINE N == NodesOf(d)
<1>1. /\ w.order \in Seq(N) /\ w.stack \in Seq(N) /\ d.kids \in [N -> Seq(N)]
  BY DEF WalkState, IsDocument
<1> HIDE DEF N
<1>2. CASE w.stack = << >>
  BY <1>2 DEF WalkNext
<1>3. CASE w.stack # << >>
  <2> DEFINE t == Last(w.stack)
             o == Append(w.order, t)
             st == Front(w.stack) \o Reverse(d.kids[t])
  <2>1. t \in N /\ Front(w.stack) \in Seq(N)
    BY <1>1, <1>3, LastFront
  <2>2. Reverse(d.kids[t]) \in Seq(N)
    <3>1. d.kids[t] \in Seq(N)
      BY <1>1, <2>1
    <3> QED
      BY <3>1, ReverseProperties
  <2>3. o \in Seq(N)
    BY <1>1, <2>1
  <2>4. st \in Seq(N)
    BY <2>1, <2>2
  <2>5. WalkNext(d, w) = [order |-> o, stack |-> st]
    BY <1>3 DEF WalkNext
  <2> HIDE DEF t, o, st
  <2> QED
    BY <2>3, <2>4, <2>5 DEF WalkState, N
<1> QED
  BY <1>2, <1>3

\* The walk takes its steps from its start.
WalkSteps(d, n, f) ==
  /\ f \in [Nat -> WalkState(d)]
  /\ f[0] = WalkFrom(n)
  /\ \A k \in Nat : f[k + 1] = WalkNext(d, f[k])

LEMMA WalkIterates ==
  ASSUME NEW d, IsDocument(d), NEW n \in NodesOf(d)
  PROVE  \E f : WalkSteps(d, n, f) /\ Walk(d, n) = f[Cardinality(NodesOf(d))]
<1> DEFINE S == WalkState(d)
           step == [w \in S |-> WalkNext(d, w)]
<1>1. WalkFrom(n) \in S
  BY DEF WalkFrom, WalkState
<1>2. step \in [S -> S]
  BY WalkNextType
<1>3. PICK g : Iterates(g, S, WalkFrom(n), step)
  <2> HIDE DEF S, step
  <2> QED
    BY <1>1, <1>2, IterationExists
<1>4. WalkSteps(d, n, g)
  <2>1. \A k \in Nat : g[k] \in S
    BY <1>3 DEF Iterates
  <2>2. \A k \in Nat : step[g[k]] = WalkNext(d, g[k])
    BY <2>1
  <2> HIDE DEF step
  <2> QED
    BY <1>3, <2>2 DEF WalkSteps, Iterates
<1>5. Walking(d, n, g)
  <2> DEFINE h == [k \in Nat |-> IF k = 0 THEN WalkFrom(n) ELSE WalkNext(d, g[k - 1])]
  <2>1. ASSUME NEW k \in Nat PROVE g[k] = h[k]
    <3>1. CASE k = 0
      BY <1>4, <3>1 DEF WalkSteps
    <3>2. CASE k # 0
      <4>1. k - 1 \in Nat /\ (k - 1) + 1 = k
        BY <3>2
      <4>2. g[(k - 1) + 1] = WalkNext(d, g[k - 1])
        BY <1>4, <4>1 DEF WalkSteps
      <4> QED
        BY <3>2, <4>1, <4>2
    <3> QED
      BY <3>1, <3>2
  <2>2. g = [k \in Nat |-> g[k]]
    BY <1>4 DEF WalkSteps
  <2>3. g = h
    <3>1. h = [k \in Nat |-> h[k]]
      OBVIOUS
    <3> HIDE DEF h
    <3> QED
      BY <2>1, <2>2, <3>1
  <2> QED
    BY <2>3 DEF Walking
<1> DEFINE f == CHOOSE f : Walking(d, n, f)
<1>6. Walking(d, n, f)
  BY <1>5
<1>7. Walk(d, n) = f[Cardinality(NodesOf(d))]
  BY WalkIs
<1> HIDE DEF f
<1>8. \A k \in Nat : f[k] = g[k]
  <2> DEFINE D == {k \in Nat : f[k] # g[k]}
  <2> SUFFICES ASSUME D # {} PROVE FALSE
    OBVIOUS
  <2>1. PICK m \in D : \A k \in D : m <= k
    <3>1. D \in SUBSET Nat
      OBVIOUS
    <3> HIDE DEF D
    <3> QED
      BY <3>1, LeastNumber
  <2>2. f[0] = WalkFrom(n) /\ g[0] = WalkFrom(n)
    BY <1>4, <1>6 DEF Walking, WalkSteps
  <2>3. m # 0 /\ m - 1 \in Nat /\ m - 1 \notin D
    BY <2>1, <2>2
  <2>4. f[m] = WalkNext(d, f[m - 1])
    BY <1>6, <2>3 DEF Walking
  <2>5. g[m] = WalkNext(d, g[m - 1])
    BY <1>5, <2>3 DEF Walking
  <2> QED
    BY <2>1, <2>3, <2>4, <2>5
<1>9. Cardinality(NodesOf(d)) \in Nat
  BY FS_CardinalityType DEF IsDocument
<1> QED
  BY <1>4, <1>7, <1>8, <1>9

\* B is closed downwards and holds n and not its parent.
Below(d, n, B) ==
  /\ n \in B /\ B \subseteq NodesOf(d)
  /\ \A x \in B : ChildSet(d, x) \subseteq B
  /\ d.parent[n] \notin B

\* What is true of the walk from n after k steps: nodes met are apart, a node
\* is met through its parent, and the children of those visited are met.
WalkInv(d, n, B, w, k) ==
  LET O == Range(w.order)
      T == Range(w.stack)
  IN /\ IsInjective(w.order) /\ IsInjective(w.stack) /\ O \cap T = {}
     /\ O \cup T \subseteq B /\ n \in O \cup T
     /\ \A x \in O \cup T : x = n \/ d.parent[x] \in O
     /\ \A x \in O : ChildSet(d, x) \subseteq O \cup T
     /\ \A i \in DOMAIN w.order :
          w.order[i] = n \/ \E j \in 1..(i - 1) : w.order[j] = d.parent[w.order[i]]
     /\ w.stack # << >> => Len(w.order) = k

LEMMA WalkInvNext ==
  ASSUME NEW d, IsDocument(d), NEW n \in NodesOf(d), NEW B, Below(d, n, B),
         NEW w \in WalkState(d), NEW k \in Nat, WalkInv(d, n, B, w, k)
  PROVE  WalkInv(d, n, B, WalkNext(d, w), k + 1)
<1> DEFINE N == NodesOf(d)
           O == Range(w.order)
           T == Range(w.stack)
<1>1. w.order \in Seq(N) /\ w.stack \in Seq(N)
  BY DEF WalkState
<1>2. CASE w.stack = << >>
  BY <1>2 DEF WalkNext, WalkInv
<1>3. CASE w.stack # << >>
  <2> DEFINE t == Last(w.stack)
             K == ChildSet(d, t)
             o == Append(w.order, t)
             f == Front(w.stack)
             r == Reverse(d.kids[t])
             s == f \o r
  <2>1. WalkNext(d, w) = [order |-> o, stack |-> s]
    BY <1>3 DEF WalkNext
  <2>2. t \in N /\ f \in Seq(N) /\ IsInjective(f) /\ T = Range(f) \cup {t} /\ t \notin Range(f)
    BY <1>1, <1>3, LastFront, InjectiveFront DEF WalkInv
  <2>3. /\ d.kids[t] \in Seq(N) /\ IsInjective(d.kids[t]) /\ Range(d.kids[t]) = K
        /\ K \subseteq N /\ \A c \in K : d.parent[c] = t
    BY <2>2, ChildrenFacts
  <2>4. r \in Seq(N) /\ IsInjective(r) /\ Range(r) = K
    BY <2>3, ReverseProperties, InjectiveReverse, RangeOfReverse
  <2>5. /\ O \cap T = {} /\ O \cup T \subseteq B /\ n \in O \cup T
        /\ \A x \in O \cup T : x = n \/ d.parent[x] \in O
        /\ \A x \in O : ChildSet(d, x) \subseteq O \cup T
        /\ IsInjective(w.order)
    BY DEF WalkInv
  <2>6. t \in B /\ t \notin O /\ K \subseteq B /\ d.parent[n] \notin B
    BY <2>2, <2>5 DEF Below
  <2>7. K \cap (O \cup T) = {}
    BY <2>3, <2>5, <2>6
  <2> HIDE DEF t, K
  <2>8. o \in Seq(N) /\ IsInjective(o) /\ Range(o) = O \cup {t}
    BY <1>1, <2>2, <2>5, <2>6, InjectiveAppend
  <2>9. s \in Seq(N) /\ IsInjective(s) /\ Range(s) = Range(f) \cup K
    <3>1. Range(f) \cap Range(r) = {}
      BY <2>2, <2>4, <2>7
    <3> HIDE DEF f, r
    <3> QED
      BY <2>2, <2>4, <3>1, InjectiveConcat, RangeConcatenation
  <2> DEFINE P == O \cup {t}
             Q == Range(f) \cup K
  <2>10. P \cap Q = {} /\ P \cup Q = O \cup T \cup K
    BY <2>2, <2>5, <2>6, <2>7
  <2>11. \A x \in P \cup Q : x = n \/ d.parent[x] \in P
    BY <2>3, <2>5, <2>10
  <2>12. \A x \in P : ChildSet(d, x) \subseteq P \cup Q
    BY <2>5, <2>10 DEF K
  <2>13. ASSUME NEW i \in DOMAIN o
         PROVE  o[i] = n \/ \E j \in 1..(i - 1) : o[j] = d.parent[o[i]]
    <3>1. /\ Len(w.order) \in Nat /\ DOMAIN w.order = 1..Len(w.order)
          /\ DOMAIN o = 1..(Len(w.order) + 1)
          /\ \A j \in 1..Len(w.order) : o[j] = w.order[j]
          /\ o[Len(w.order) + 1] = t
      BY <1>1, <2>2, AppendProperties
    <3> HIDE DEF o
    <3>2. CASE i \in DOMAIN w.order
      <4>1. w.order[i] = n \/ \E j \in 1..(i - 1) : w.order[j] = d.parent[w.order[i]]
        BY <3>2 DEF WalkInv
      <4> QED
        BY <3>1, <3>2, <4>1
    <3>3. CASE i = Len(w.order) + 1
      <4>1. t = n \/ d.parent[t] \in O
        BY <2>2, <2>5
      <4>2. CASE d.parent[t] \in O
        <5>1. PICK j \in DOMAIN w.order : w.order[j] = d.parent[t]
          BY <4>2 DEF Range
        <5> QED
          BY <3>1, <3>3, <5>1
      <4> QED
        BY <3>1, <3>3, <4>1, <4>2
    <3> QED
      BY <3>1, <3>2, <3>3
  <2>14. Len(o) = k + 1
    BY <1>1, <1>3, <2>2, AppendProperties DEF WalkInv
  <2>15. P \cup Q \subseteq B /\ n \in P \cup Q
    BY <2>5, <2>6, <2>10
  <2> DEFINE v == [order |-> o, stack |-> s]
  <2>16. Range(v.order) = P /\ Range(v.stack) = Q /\ v.order = o /\ v.stack = s
    BY <2>8, <2>9
  <2> HIDE DEF v, P, Q, o, s
  <2>17. WalkInv(d, n, B, v, k + 1)
    BY <2>8, <2>9, <2>10, <2>11, <2>12, <2>13, <2>14, <2>15, <2>16 DEF WalkInv
  <2> QED
    BY <2>1, <2>17 DEF v
<1> QED
  BY <1>2, <1>3

\* The walk from a node that is not below itself ends.
LEMMA WalkEnds ==
  ASSUME NEW d, IsDocument(d), NEW n \in NodesOf(d), NEW B, Below(d, n, B)
  PROVE  /\ Walk(d, n) \in WalkState(d)
         /\ WalkInv(d, n, B, Walk(d, n), Cardinality(NodesOf(d)))
         /\ Walk(d, n).stack = << >>
<1> DEFINE N == NodesOf(d)
           c == Cardinality(N)
           w == Walk(d, n)
<1>1. PICK f : WalkSteps(d, n, f) /\ w = f[c]
  BY WalkIterates
<1>2. IsFiniteSet(N) /\ c \in Nat
  BY FS_CardinalityType DEF IsDocument
<1>3. \A k \in Nat : f[k] \in WalkState(d)
  BY <1>1 DEF WalkSteps
<1>4. \A k \in Nat : WalkInv(d, n, B, f[k], k)
  <2> DEFINE D == {k \in Nat : ~WalkInv(d, n, B, f[k], k)}
  <2> SUFFICES ASSUME D # {} PROVE FALSE
    OBVIOUS
  <2>1. PICK m \in D : \A k \in D : m <= k
    <3>1. D \in SUBSET Nat
      OBVIOUS
    <3> HIDE DEF D
    <3> QED
      BY <3>1, LeastNumber
  <2>2. WalkInv(d, n, B, f[0], 0)
    <3> DEFINE v == WalkFrom(n)
    <3>1. Range(v.order) = {} /\ Range(v.stack) = {n} /\ DOMAIN v.order = {}
      BY DEF WalkFrom, Range
    <3>2. IsInjective(v.order) /\ IsInjective(v.stack)
      BY DEF WalkFrom, IsInjective
    <3>3. Len(v.order) = 0
      BY DEF WalkFrom
    <3>4. n \in B
      BY DEF Below
    <3> HIDE DEF v
    <3>5. WalkInv(d, n, B, v, 0)
      BY <3>1, <3>2, <3>3, <3>4 DEF WalkInv
    <3> QED
      BY <1>1, <3>5 DEF WalkSteps, v
  <2>3. m # 0 /\ m - 1 \in Nat /\ m - 1 \notin D /\ (m - 1) + 1 = m
    BY <2>1, <2>2
  <2>4. f[(m - 1) + 1] = WalkNext(d, f[m - 1])
    BY <1>1, <2>3 DEF WalkSteps
  <2>5. WalkInv(d, n, B, f[m - 1], m - 1) /\ f[m - 1] \in WalkState(d)
    BY <1>3, <2>3
  <2>6. WalkInv(d, n, B, WalkNext(d, f[m - 1]), (m - 1) + 1)
    BY <2>3, <2>5, WalkInvNext
  <2> QED
    BY <2>1, <2>3, <2>4, <2>6
<1>5. w \in WalkState(d) /\ WalkInv(d, n, B, w, c)
  BY <1>1, <1>2, <1>3, <1>4
<1>6. w.stack = << >>
  <2> SUFFICES ASSUME w.stack # << >> PROVE FALSE
    OBVIOUS
  <2>1. w.order \in Seq(N) /\ w.stack \in Seq(N)
    BY <1>5 DEF WalkState
  <2> HIDE DEF w
  <2>2. Range(w.order) = N
    BY <1>2, <1>5, <2>1, InjectiveLength DEF WalkInv
  <2>3. Last(w.stack) \in N /\ Last(w.stack) \in Range(w.stack)
    BY <2>1, LastFront DEF Range
  <2> QED
    BY <1>5, <2>2, <2>3 DEF WalkInv
<1> QED
  BY <1>5, <1>6

\* What TraverseDepthFirst(n) gives: n and what is below it, each once, a node
\* after its parent.
LEMMA TraverseFacts ==
  ASSUME NEW d, IsDocument(d), NEW n \in NodesOf(d), NEW B, Below(d, n, B)
  PROVE  LET order == TraverseDepthFirst(d, n)
             met == Range(order)
         IN  /\ ~EndlessDown(d, n)
             /\ order \in Seq(NodesOf(d)) /\ IsInjective(order)
             /\ met \subseteq B /\ n \in met
             /\ \A x \in met : ChildSet(d, x) \subseteq met
             /\ \A x \in met : x = n \/ d.parent[x] \in met
             /\ \A i \in DOMAIN order : order[i] = n \/
                  \E j \in 1..(i - 1) : order[j] = d.parent[order[i]]
<1> DEFINE w == Walk(d, n)
           T == Range(w.stack)
<1>1. w \in WalkState(d) /\ WalkInv(d, n, B, w, Cardinality(NodesOf(d))) /\ w.stack = << >>
  BY WalkEnds
<1>2. T = {}
  BY <1>1 DEF Range
<1>3. w.order \in Seq(NodesOf(d))
  BY <1>1 DEF WalkState
<1>4. TraverseDepthFirst(d, n) = w.order /\ (EndlessDown(d, n) <=> w.stack # << >>)
  BY DEF TraverseDepthFirst, EndlessDown
<1> HIDE DEF w
<1> QED
  BY <1>1, <1>2, <1>3, <1>4 DEF WalkInv

LEMMA RootBelow ==
  ASSUME NEW d, IsDocument(d)
  PROVE  Below(d, Root, NodesOf(d)) /\ Root \in NodesOf(d)
<1>1. \A x \in NodesOf(d) : ChildSet(d, x) \subseteq NodesOf(d)
  BY ChildrenFacts
<1>2. NoNode \notin NodesOf(d)
  BY DEF IsDocument, NoNode
<1> QED
  BY <1>1, <1>2 DEF Below, IsDocument

-----------------------------------------------------------------------------
(* The operations of a document.                                            *)

LEMMA CreateKeeps ==
  ASSUME NEW d, IsDocument(d), NEW t, NEW as
  PROVE  LET e == Create(d, t, as)
             new == NewNode(d)
         IN  /\ IsDocument(e) /\ NodesOf(e) = NodesOf(d) \cup {new}
             /\ e.parent[new] = NoNode /\ e.tag[new] = t
             /\ \A x \in NodesOf(d) : e.parent[x] = d.parent[x] /\ e.kids[x] = d.kids[x]
                                      /\ e.tag[x] = d.tag[x] /\ e.attr[x] = d.attr[x]
<1> DEFINE N == NodesOf(d)
           new == NewNode(d)
           With(f, v) == [n \in N \cup {new} |-> IF n = new THEN v ELSE f[n]]
           tag == With(d.tag, t)
           attr == With(d.attr, as)
           parent == With(d.parent, NoNode)
           kids == With(d.kids, << >>)
           e == [tag |-> tag, attr |-> attr, parent |-> parent, kids |-> kids]
<1>1. Create(d, t, as) = e
  BY DEF Create
<1>2. /\ N = 0..(new - 1) /\ new \in Nat \ {0} /\ new \notin N /\ NoNode \notin N
      /\ d.parent \in [N -> N \cup {NoNode}] /\ d.kids \in [N -> Seq(N)] /\ Linked(d)
      /\ Root \in N /\ d.parent[Root] = NoNode
      /\ \A x \in N : IsInjective(d.kids[x])
  BY DocumentFacts
<1>3. NodesOf(e) = N \cup {new} /\ N \cup {new} = 0..new
  BY <1>2 DEF NodesOf
<1>4. /\ parent \in [N \cup {new} -> N \cup {new} \cup {NoNode}]
      /\ parent[new] = NoNode /\ \A x \in N : parent[x] = d.parent[x]
  BY <1>2
<1>5. /\ kids \in [N \cup {new} -> Seq(N \cup {new})]
      /\ kids[new] = << >> /\ \A x \in N : kids[x] = d.kids[x]
  <2>1. Seq(N) \subseteq Seq(N \cup {new})
    BY SeqMonotonic
  <2> HIDE DEF N, new
  <2> QED
    BY <1>2, <2>1 DEF N
<1>6. DOMAIN attr = N \cup {new} /\ tag[new] = t
      /\ \A x \in N : tag[x] = d.tag[x] /\ attr[x] = d.attr[x]
  BY <1>2
<1> HIDE DEF tag, attr, parent, kids, N, new
<1>7. /\ e.tag = tag /\ e.attr = attr /\ e.parent = parent /\ e.kids = kids /\ HasFields(e)
  BY DEF HasFields, Doc
<1> HIDE DEF e
<1>8. Linked(e)
  <2> SUFFICES ASSUME NEW x \in N \cup {new}, NEW c \in N \cup {new}
               PROVE  c \in ChildSet(e, x) <=> e.parent[c] = x
    BY <1>3 DEF Linked
  <2>1. CASE x = new
    <3>1. ChildSet(e, x) = {}
      BY <1>5, <1>7, <2>1 DEF ChildSet
    <3>2. new # NoNode
      BY <1>2 DEF NoNode
    <3>3. e.parent[c] # x
      BY <1>2, <1>4, <1>7, <2>1, <3>2
    <3> QED
      BY <3>1, <3>3
  <2>2. CASE x \in N
    <3>1. ChildSet(e, x) = ChildSet(d, x)
      BY <1>5, <1>7, <2>2 DEF ChildSet
    <3>2. CASE c = new
      <4>1. new \notin ChildSet(d, x)
        BY <1>2, <2>2, ChildrenFacts DEF N
      <4> QED
        BY <1>2, <1>4, <1>7, <2>2, <3>1, <3>2, <4>1
    <3>3. CASE c \in N
      BY <1>2, <1>4, <1>7, <2>2, <3>1, <3>3 DEF Linked, N
    <3> QED
      BY <3>2, <3>3
  <2> QED
    BY <2>1, <2>2
<1>9. \A x \in N \cup {new} : IsInjective(e.kids[x])
  <2>1. IsInjective(<< >>)
    BY DEF IsInjective
  <2> QED
    BY <1>2, <1>5, <1>7, <2>1
<1>10. IsDocument(e)
  <2>1. NodesOf(e) = 0..((new + 1) - 1) /\ new + 1 \in Nat \ {0}
    BY <1>2, <1>3
  <2>2. e.parent[Root] = NoNode
    BY <1>2, <1>4, <1>7
  <2> QED
    BY <1>3, <1>4, <1>5, <1>6, <1>7, <1>8, <1>9, <2>1, <2>2, DocumentFrom
<1> QED
  BY <1>1, <1>3, <1>4, <1>5, <1>6, <1>7, <1>10 DEF N, new

LEMMA AppendChildIs ==
  ASSUME NEW t, NEW a, NEW q, NEW k, NEW p, NEW c
  PROVE  AppendChild(Doc(t, a, q, k), p, c)
           = Doc(t, a, [q EXCEPT ![c] = p], [k EXCEPT ![p] = Append(@, c)])
<1> DEFINE e == [Doc(t, a, q, k) EXCEPT !.parent[c] = p]
           f == [e EXCEPT !.kids[p] = Append(@, c)]
<1>1. e = Doc(t, a, [q EXCEPT ![c] = p], k)
  BY DEF Doc
<1>2. f = AppendChild(Doc(t, a, q, k), p, c)
  BY DEF AppendChild, Doc
<1> HIDE DEF e
<1>3. f = Doc(t, a, [q EXCEPT ![c] = p], [k EXCEPT ![p] = Append(@, c)])
  BY <1>1 DEF Doc
<1> QED
  BY <1>2, <1>3

LEMMA RemoveChildIs ==
  ASSUME NEW t, NEW a, NEW q, NEW k, NEW p, NEW c
  PROVE  RemoveChild(Doc(t, a, q, k), p, c)
           = Doc(t, a, [q EXCEPT ![c] = NoNode], [k EXCEPT ![p] = RemoveFirst(@, c)])
<1> DEFINE e == [Doc(t, a, q, k) EXCEPT !.parent[c] = NoNode]
           f == [e EXCEPT !.kids[p] = RemoveFirst(@, c)]
<1>1. e = Doc(t, a, [q EXCEPT ![c] = NoNode], k)
  BY DEF Doc
<1>2. f = RemoveChild(Doc(t, a, q, k), p, c)
  BY DEF RemoveChild, Doc
<1> HIDE DEF e
<1>3. f = Doc(t, a, [q EXCEPT ![c] = NoNode], [k EXCEPT ![p] = RemoveFirst(@, c)])
  BY <1>1 DEF Doc
<1> QED
  BY <1>2, <1>3

LEMMA RemoveAllIs ==
  ASSUME NEW t, NEW a, NEW q, NEW k, NEW n
  PROVE  LET d == Doc(t, a, q, k)
         IN RemoveAll(d, n)
              = Doc(t, a, [m \in NodesOf(d) |-> IF m \in ChildSet(d, n) THEN NoNode ELSE q[m]],
                    [k EXCEPT ![n] = << >>])
<1> DEFINE d == Doc(t, a, q, k)
           parent == [m \in NodesOf(d) |-> IF m \in ChildSet(d, n) THEN NoNode ELSE q[m]]
           e == [d EXCEPT !.kids[n] = << >>]
           f == [e EXCEPT !.parent = [m \in NodesOf(d) |-> IF m \in ChildSet(d, n) THEN NoNode ELSE @[m]]]
<1>1. e = Doc(t, a, q, [k EXCEPT ![n] = << >>])
  BY DEF Doc
<1>2. f = RemoveAll(d, n)
  BY DEF RemoveAll, Doc
<1>3. f = [e EXCEPT !.parent = parent]
  BY <1>1 DEF Doc
<1> HIDE DEF e, parent, f
<1>4. f = Doc(t, a, parent, [k EXCEPT ![n] = << >>])
  BY <1>1, <1>3 DEF Doc
<1> QED
  BY <1>2, <1>4 DEF parent

LEMMA SetAttributeIs ==
  ASSUME NEW t, NEW a, NEW q, NEW k, NEW n, NEW b, NEW v
  PROVE  \E at : DOMAIN at = DOMAIN a
                 /\ SetAttribute(Doc(t, a, q, k), n, b, v) = Doc(t, at, q, k)
<1> DEFINE at == [a EXCEPT ![n] = [x \in DOMAIN @ \cup {b} |-> IF x = b THEN v ELSE @[x]]]
<1>1. SetAttribute(Doc(t, a, q, k), n, b, v) = Doc(t, at, q, k)
  BY DEF SetAttribute, Doc
<1>2. DOMAIN at = DOMAIN a
  OBVIOUS
<1> QED
  BY <1>1, <1>2

\* A document whose nodes are those of d.
LEMMA SameNodes ==
  ASSUME NEW d, IsDocument(d), NEW e, HasFields(e), NodesOf(e) = NodesOf(d), e.attr = d.attr,
         e.parent \in [NodesOf(d) -> NodesOf(d) \cup {NoNode}],
         e.kids \in [NodesOf(d) -> Seq(NodesOf(d))], e.parent[Root] = NoNode, Linked(e),
         \A x \in NodesOf(d) : IsInjective(e.kids[x])
  PROVE  IsDocument(e)
<1>1. NewNode(d) \in Nat \ {0} /\ NodesOf(e) = 0..(NewNode(d) - 1) /\ DOMAIN e.attr = NodesOf(e)
  BY DocumentFacts
<1> QED
  BY <1>1, DocumentFrom

LEMMA AppendChildKeeps ==
  ASSUME NEW d, IsDocument(d), NEW p \in NodesOf(d), NEW c \in NodesOf(d) \ {Root},
         d.parent[c] = NoNode
  PROVE  IsDocument(AppendChild(d, p, c)) /\ NodesOf(AppendChild(d, p, c)) = NodesOf(d)
<1> DEFINE N == NodesOf(d)
           e == AppendChild(d, p, c)
           parent == [d.parent EXCEPT ![c] = p]
           kids == [d.kids EXCEPT ![p] = Append(@, c)]
<1>1. /\ HasFields(d) /\ Linked(d) /\ NoNode \notin N
      /\ d.parent \in [N -> N \cup {NoNode}] /\ d.kids \in [N -> Seq(N)]
      /\ d.parent[Root] = NoNode /\ \A x \in N : IsInjective(d.kids[x])
  BY DocumentFacts
<1>2. e.tag = d.tag /\ e.attr = d.attr /\ e.parent = parent /\ e.kids = kids /\ HasFields(e)
  <2>1. d = Doc(d.tag, d.attr, d.parent, d.kids)
    BY <1>1 DEF HasFields
  <2>2. e = Doc(d.tag, d.attr, parent, kids)
    BY <2>1, AppendChildIs
  <2> QED
    BY <2>2, FieldsOf
<1>3. NodesOf(e) = N
  BY <1>2 DEF NodesOf
<1>4. /\ parent \in [N -> N \cup {NoNode}] /\ parent[c] = p
      /\ \A x \in N \ {c} : parent[x] = d.parent[x]
  BY <1>1
<1>5. /\ d.kids[p] \in Seq(N) /\ IsInjective(d.kids[p]) /\ Range(d.kids[p]) = ChildSet(d, p)
      /\ c \notin ChildSet(d, p)
  BY <1>1, ChildrenFacts
<1>6. IsInjective(kids[p]) /\ Range(kids[p]) = ChildSet(d, p) \cup {c}
  BY <1>1, <1>5, InjectiveAppend
<1>7. kids \in [N -> Seq(N)] /\ \A x \in N \ {p} : kids[x] = d.kids[x]
  BY <1>1, <1>5
<1> HIDE DEF e, parent, kids, N
<1>8. /\ ChildSet(e, p) = ChildSet(d, p) \cup {c}
      /\ \A x \in N \ {p} : ChildSet(e, x) = ChildSet(d, x)
  <2>1. ChildSet(e, p) = Range(kids[p])
    BY <1>2 DEF ChildSet, Range
  <2>2. \A x \in N \ {p} : ChildSet(e, x) = ChildSet(d, x)
    BY <1>2, <1>7 DEF ChildSet
  <2> QED
    BY <1>6, <1>7, <2>1, <2>2
<1>9. Linked(e)
  <2> SUFFICES ASSUME NEW x \in N, NEW y \in N
               PROVE  y \in ChildSet(e, x) <=> e.parent[y] = x
    BY <1>3 DEF Linked
  <2>1. y \in ChildSet(d, x) <=> d.parent[y] = x
    BY <1>1 DEF Linked, N
  <2>2. NoNode # x
    BY <1>1
  <2>3. CASE y = c
    BY <1>2, <1>4, <1>8, <2>1, <2>2, <2>3
  <2>4. CASE y # c
    BY <1>2, <1>4, <1>8, <2>1, <2>4
  <2> QED
    BY <2>3, <2>4
<1>10. \A x \in N : IsInjective(e.kids[x])
  BY <1>1, <1>2, <1>6, <1>7
<1>11. e.parent[Root] = NoNode
  BY <1>1, <1>2, <1>4, DocumentFacts DEF N
<1>12. IsDocument(e)
  BY <1>2, <1>3, <1>4, <1>7, <1>9, <1>10, <1>11, SameNodes DEF N
<1> QED
  BY <1>3, <1>12 DEF e, N

LEMMA RemoveChildKeeps ==
  ASSUME NEW d, IsDocument(d), NEW p \in NodesOf(d), NEW c \in ChildSet(d, p)
  PROVE  LET e == RemoveChild(d, p, c)
         IN IsDocument(e) /\ NodesOf(e) = NodesOf(d) /\ e.parent[c] = NoNode
<1> DEFINE N == NodesOf(d)
           e == RemoveChild(d, p, c)
           parent == [d.parent EXCEPT ![c] = NoNode]
           kids == [d.kids EXCEPT ![p] = RemoveFirst(@, c)]
<1>1. /\ HasFields(d) /\ Linked(d) /\ NoNode \notin N
      /\ d.parent \in [N -> N \cup {NoNode}] /\ d.kids \in [N -> Seq(N)]
      /\ Root \in N /\ d.parent[Root] = NoNode /\ \A x \in N : IsInjective(d.kids[x])
  BY DocumentFacts
<1>2. e.tag = d.tag /\ e.attr = d.attr /\ e.parent = parent /\ e.kids = kids /\ HasFields(e)
  <2>1. d = Doc(d.tag, d.attr, d.parent, d.kids)
    BY <1>1 DEF HasFields
  <2>2. e = Doc(d.tag, d.attr, parent, kids)
    BY <2>1, RemoveChildIs
  <2> QED
    BY <2>2, FieldsOf
<1>3. NodesOf(e) = N
  BY <1>2 DEF NodesOf
<1>4. /\ d.kids[p] \in Seq(N) /\ IsInjective(d.kids[p]) /\ Range(d.kids[p]) = ChildSet(d, p)
      /\ c \in N /\ d.parent[c] = p
  BY <1>1, ChildrenFacts
<1>5. /\ parent \in [N -> N \cup {NoNode}] /\ parent[c] = NoNode
      /\ \A x \in N \ {c} : parent[x] = d.parent[x]
  BY <1>1, <1>4
<1>6. /\ RemoveFirst(d.kids[p], c) \in Seq(N) /\ IsInjective(RemoveFirst(d.kids[p], c))
      /\ Range(RemoveFirst(d.kids[p], c)) = ChildSet(d, p) \ {c}
  BY <1>4, RemoveFirstProperties
<1>7. /\ kids \in [N -> Seq(N)] /\ kids[p] = RemoveFirst(d.kids[p], c)
      /\ \A x \in N \ {p} : kids[x] = d.kids[x]
  BY <1>1, <1>6
<1> HIDE DEF e, parent, kids, N
<1>8. /\ ChildSet(e, p) = ChildSet(d, p) \ {c}
      /\ \A x \in N \ {p} : ChildSet(e, x) = ChildSet(d, x)
  <2>1. ChildSet(e, p) = Range(kids[p])
    BY <1>2 DEF ChildSet, Range
  <2>2. \A x \in N \ {p} : ChildSet(e, x) = ChildSet(d, x)
    BY <1>2, <1>7 DEF ChildSet
  <2> QED
    BY <1>6, <1>7, <2>1, <2>2
<1>9. Linked(e)
  <2> SUFFICES ASSUME NEW x \in N, NEW y \in N
               PROVE  y \in ChildSet(e, x) <=> e.parent[y] = x
    BY <1>3 DEF Linked
  <2>1. y \in ChildSet(d, x) <=> d.parent[y] = x
    BY <1>1 DEF Linked, N
  <2>2. NoNode # x
    BY <1>1
  <2>3. CASE y = c
    BY <1>2, <1>4, <1>5, <1>8, <2>1, <2>2, <2>3
  <2>4. CASE y # c
    BY <1>2, <1>5, <1>8, <2>1, <2>4
  <2> QED
    BY <2>3, <2>4
<1>10. \A x \in N : IsInjective(e.kids[x])
  BY <1>1, <1>2, <1>6, <1>7
<1>11. e.parent[Root] = NoNode
  BY <1>1, <1>2, <1>5
<1>12. IsDocument(e)
  BY <1>2, <1>3, <1>5, <1>7, <1>9, <1>10, <1>11, SameNodes DEF N
<1> QED
  BY <1>2, <1>3, <1>5, <1>12 DEF e, N

\* appendChild of a script.
LEMMA MoveKeeps ==
  ASSUME NEW d, IsDocument(d), NEW p \in NodesOf(d), NEW c \in NodesOf(d) \ {Root}
  PROVE  IsDocument(Move(d, p, c)) /\ NodesOf(Move(d, p, c)) = NodesOf(d)
<1> DEFINE e == Detach(d, c)
<1>1. IsDocument(e) /\ NodesOf(e) = NodesOf(d) /\ e.parent[c] = NoNode
  <2>1. CASE d.parent[c] = NoNode
    BY <2>1 DEF Detach
  <2>2. CASE d.parent[c] # NoNode
    <3>1. d.parent[c] \in NodesOf(d) /\ c \in ChildSet(d, d.parent[c])
      <4>1. d.parent[c] \in NodesOf(d)
        BY <2>2, DocumentFacts
      <4> QED
        BY <4>1, ChildrenFacts
    <3> QED
      BY <2>2, <3>1, RemoveChildKeeps DEF Detach
  <2> QED
    BY <2>1, <2>2
<1> HIDE DEF e
<1>2. IsDocument(AppendChild(e, p, c)) /\ NodesOf(AppendChild(e, p, c)) = NodesOf(e)
  BY <1>1, AppendChildKeeps
<1> QED
  BY <1>1, <1>2 DEF Move, e

LEMMA RemoveAllKeeps ==
  ASSUME NEW d, IsDocument(d), NEW n \in NodesOf(d)
  PROVE  LET e == RemoveAll(d, n)
         IN  /\ IsDocument(e) /\ NodesOf(e) = NodesOf(d) /\ NewNode(e) = NewNode(d)
             /\ e.tag = d.tag /\ e.attr = d.attr /\ e.kids[n] = << >>
             /\ \A x \in NodesOf(d) : e.parent[x] # n
<1> DEFINE N == NodesOf(d)
           e == RemoveAll(d, n)
           parent == [m \in N |-> IF m \in ChildSet(d, n) THEN NoNode ELSE d.parent[m]]
           kids == [d.kids EXCEPT ![n] = << >>]
<1>1. /\ HasFields(d) /\ Linked(d) /\ NoNode \notin N
      /\ d.parent \in [N -> N \cup {NoNode}] /\ d.kids \in [N -> Seq(N)]
      /\ Root \in N /\ d.parent[Root] = NoNode /\ \A x \in N : IsInjective(d.kids[x])
  BY DocumentFacts
<1>2. e.tag = d.tag /\ e.attr = d.attr /\ e.parent = parent /\ e.kids = kids /\ HasFields(e)
  <2>1. d = Doc(d.tag, d.attr, d.parent, d.kids)
    BY <1>1 DEF HasFields
  <2>2. e = Doc(d.tag, d.attr, parent, kids)
    BY <2>1, RemoveAllIs
  <2> QED
    BY <2>2, FieldsOf
<1>3. NodesOf(e) = N
  BY <1>2 DEF NodesOf
<1>4. /\ parent \in [N -> N \cup {NoNode}]
      /\ \A x \in N : parent[x] = IF x \in ChildSet(d, n) THEN NoNode ELSE d.parent[x]
  BY <1>1
<1>5. kids \in [N -> Seq(N)] /\ kids[n] = << >> /\ \A x \in N \ {n} : kids[x] = d.kids[x]
  BY <1>1
<1> HIDE DEF e, parent, kids, N
<1>6. /\ ChildSet(e, n) = {}
      /\ \A x \in N \ {n} : ChildSet(e, x) = ChildSet(d, x)
  BY <1>2, <1>5 DEF ChildSet
<1>7. \A y \in N : y \in ChildSet(d, n) <=> d.parent[y] = n
  BY <1>1 DEF Linked, N
<1>8. Linked(e)
  <2> SUFFICES ASSUME NEW x \in N, NEW y \in N
               PROVE  y \in ChildSet(e, x) <=> e.parent[y] = x
    BY <1>3 DEF Linked
  <2>1. y \in ChildSet(d, x) <=> d.parent[y] = x
    BY <1>1 DEF Linked, N
  <2>2. NoNode # x
    BY <1>1
  <2> QED
    BY <1>2, <1>4, <1>6, <1>7, <2>1, <2>2
<1>9. \A x \in N : IsInjective(e.kids[x])
  <2>1. IsInjective(<< >>)
    BY DEF IsInjective
  <2> QED
    BY <1>1, <1>2, <1>5, <2>1
<1>10. e.parent[Root] = NoNode
  BY <1>1, <1>2, <1>4
<1>11. \A x \in N : e.parent[x] # n
  BY <1>1, <1>2, <1>4, <1>7 DEF N
<1>12. IsDocument(e)
  BY <1>2, <1>3, <1>4, <1>5, <1>8, <1>9, <1>10, SameNodes DEF N
<1> QED
  BY <1>2, <1>3, <1>5, <1>11, <1>12 DEF e, N, NewNode

LEMMA SetTextContentKeeps ==
  ASSUME NEW d, IsDocument(d), NEW n \in NodesOf(d), NEW text
  PROVE  LET e == SetTextContent(d, n, text)
         IN IsDocument(e) /\ NodesOf(d) \subseteq NodesOf(e)
<1>1. CASE d.tag[n] = "text"
  <2> DEFINE e == [d EXCEPT !.attr[n] = TextAttr(text)]
             attr == [d.attr EXCEPT ![n] = TextAttr(text)]
  <2>1. e.tag = d.tag /\ e.attr = attr /\ e.parent = d.parent /\ e.kids = d.kids /\ HasFields(e)
    <3>1. d = Doc(d.tag, d.attr, d.parent, d.kids)
      BY DocumentFacts DEF HasFields
    <3>2. e = Doc(d.tag, attr, d.parent, d.kids)
      BY <3>1 DEF Doc
    <3> QED
      BY <3>2, FieldsOf
  <2>2. DOMAIN attr = DOMAIN d.attr
    OBVIOUS
  <2> HIDE DEF e, attr
  <2>3. NodesOf(e) = NodesOf(d) /\ NewNode(e) = NewNode(d)
    BY <2>1 DEF NodesOf, NewNode
  <2>4. Linked(e)
    BY <2>1, <2>3, DocumentFacts DEF Linked, ChildSet
  <2>5. IsDocument(e)
    BY <2>1, <2>2, <2>3, <2>4, DocumentFacts, DocumentFrom
  <2> QED
    BY <1>1, <2>3, <2>5 DEF e, SetTextContent
<1>2. CASE d.tag[n] # "text"
  <2> DEFINE r == RemoveAll(d, n)
             new == NewNode(d)
             c == Create(r, "text", TextAttr(text))
  <2>1. IsDocument(r) /\ NodesOf(r) = NodesOf(d) /\ NewNode(r) = new
    BY RemoveAllKeeps
  <2> HIDE DEF r, new
  <2>2. IsDocument(c) /\ NodesOf(c) = NodesOf(d) \cup {new} /\ c.parent[new] = NoNode
    BY <2>1, CreateKeeps
  <2>3. new # Root /\ new \in NodesOf(c) /\ n \in NodesOf(c)
    BY <2>2, DocumentFacts DEF new
  <2> HIDE DEF c
  <2>4. /\ IsDocument(AppendChild(c, n, new))
        /\ NodesOf(AppendChild(c, n, new)) = NodesOf(c)
    BY <2>2, <2>3, AppendChildKeeps
  <2>5. SetTextContent(d, n, text) = AppendChild(c, n, new)
    BY <1>2 DEF SetTextContent, c, r, new
  <2> QED
    BY <2>2, <2>4, <2>5
<1> QED
  BY <1>1, <1>2

LEMMA SetAttributeKeeps ==
  ASSUME NEW d, IsDocument(d), NEW n \in NodesOf(d), NEW a, NEW v
  PROVE  IsDocument(SetAttribute(d, n, a, v)) /\ NodesOf(SetAttribute(d, n, a, v)) = NodesOf(d)
<1> DEFINE e == SetAttribute(d, n, a, v)
<1>1. e.tag = d.tag /\ DOMAIN e.attr = DOMAIN d.attr /\ e.parent = d.parent /\ e.kids = d.kids
      /\ HasFields(e)
  <2>1. d = Doc(d.tag, d.attr, d.parent, d.kids)
    BY DocumentFacts DEF HasFields
  <2>2. PICK at : DOMAIN at = DOMAIN d.attr
                  /\ SetAttribute(Doc(d.tag, d.attr, d.parent, d.kids), n, a, v)
                       = Doc(d.tag, at, d.parent, d.kids)
    BY SetAttributeIs
  <2>3. e = Doc(d.tag, at, d.parent, d.kids)
    BY <2>1, <2>2
  <2> HIDE DEF e
  <2>4. e.tag = d.tag /\ e.attr = at /\ e.parent = d.parent /\ e.kids = d.kids /\ HasFields(e)
    BY <2>3 DEF Doc, HasFields
  <2> QED
    BY <2>2, <2>4
<1> HIDE DEF e
<1>2. NodesOf(e) = NodesOf(d) /\ NewNode(e) = NewNode(d)
  BY <1>1 DEF NodesOf, NewNode
<1>3. Linked(e)
  BY <1>1, <1>2, DocumentFacts DEF Linked, ChildSet
<1>4. IsDocument(e)
  BY <1>1, <1>2, <1>3, DocumentFacts, DocumentFrom
<1> QED
  BY <1>2, <1>4 DEF e

\* The node of the document that node x of the fragment becomes below n, when
\* the document had base nodes.
Grafted(n, base, x) == IF x = Root THEN n ELSE base + x - 1

GraftedAll(n, base, xs) == [i \in DOMAIN xs |-> Grafted(n, base, xs[i])]

LEMMA GraftIs ==
  ASSUME NEW d, NEW n, NEW frag
  PROVE  LET r == RemoveAll(d, n)
             base == NewNode(d)
             new == base .. base + Cardinality(NodesOf(frag)) - 2
             N == NodesOf(d)
             all == N \cup new
         IN Graft(d, n, frag) =
              Doc([m \in all |-> IF m \in N THEN r.tag[m] ELSE frag.tag[m - base + 1]],
                  [m \in all |-> IF m \in N THEN r.attr[m] ELSE frag.attr[m - base + 1]],
                  [m \in all |-> IF m \in N THEN r.parent[m]
                                 ELSE Grafted(n, base, frag.parent[m - base + 1])],
                  [m \in all |-> IF m = n THEN GraftedAll(n, base, frag.kids[Root])
                                 ELSE IF m \in N THEN r.kids[m]
                                 ELSE GraftedAll(n, base, frag.kids[m - base + 1])])
BY DEF Graft, Doc, Grafted, GraftedAll

LEMMA GraftedAllFacts ==
  ASSUME NEW base \in Nat \ {0}, NEW size \in Nat \ {0}, NEW n \in 0..(base - 1),
         NEW xs \in Seq(0..(size - 1)), IsInjective(xs)
  PROVE  LET all == 0..(base + size - 2)
             ys == GraftedAll(n, base, xs)
         IN  /\ ys \in Seq(all) /\ IsInjective(ys)
             /\ Range(ys) = {Grafted(n, base, x) : x \in Range(xs)}
<1> DEFINE all == 0..(base + size - 2)
           ys == GraftedAll(n, base, xs)
           G(x) == Grafted(n, base, x)
<1>1. Len(xs) \in Nat /\ DOMAIN xs = 1..Len(xs) /\ \A i \in DOMAIN xs : xs[i] \in 0..(size - 1)
  OBVIOUS
<1>2. \A x \in 0..(size - 1) : G(x) \in all
  BY DEF Grafted, Root
<1>3. \A x, y \in 0..(size - 1) : G(x) = G(y) => x = y
  BY DEF Grafted, Root
<1>4. ys = [i \in 1..Len(xs) |-> G(xs[i])]
  BY <1>1 DEF GraftedAll
<1> HIDE DEF ys, G, all
<1>5. ys \in Seq(all)
  BY <1>1, <1>2, <1>4
<1>6. IsInjective(ys)
  BY <1>1, <1>3, <1>4 DEF IsInjective
<1>7. Range(ys) = {G(x) : x \in Range(xs)}
  BY <1>1, <1>4 DEF Range
<1> QED
  BY <1>5, <1>6, <1>7 DEF ys, G, all

\* innerHTML.
LEMMA GraftKeeps ==
  ASSUME NEW d, IsDocument(d), NEW n \in NodesOf(d), NEW frag, IsParsed(frag)
  PROVE  IsDocument(Graft(d, n, frag)) /\ NodesOf(d) \subseteq NodesOf(Graft(d, n, frag))
<1> DEFINE r == RemoveAll(d, n)
           base == NewNode(d)
           size == NewNode(frag)
           F == NodesOf(frag)
           N == NodesOf(d)
           new == base .. base + size - 2
           all == N \cup new
           G(x) == Grafted(n, base, x)
           tag == [m \in all |-> IF m \in N THEN r.tag[m] ELSE frag.tag[m - base + 1]]
           attr == [m \in all |-> IF m \in N THEN r.attr[m] ELSE frag.attr[m - base + 1]]
           parent == [m \in all |-> IF m \in N THEN r.parent[m]
                                    ELSE G(frag.parent[m - base + 1])]
           kids == [m \in all |-> IF m = n THEN GraftedAll(n, base, frag.kids[Root])
                                  ELSE IF m \in N THEN r.kids[m]
                                  ELSE GraftedAll(n, base, frag.kids[m - base + 1])]
           e == Graft(d, n, frag)
<1>1. e = Doc(tag, attr, parent, kids)
  <2>1. new = base .. base + Cardinality(NodesOf(frag)) - 2
    BY DEF NewNode
  <2> QED
    BY <2>1, GraftIs
<1>2. /\ base \in Nat \ {0} /\ N = 0..(base - 1) /\ NoNode \notin N /\ Root \in N
      /\ IsDocument(r) /\ NodesOf(r) = N /\ \A x \in N : r.parent[x] # n
  BY DocumentFacts, RemoveAllKeeps
<1>3. /\ r.parent \in [N -> N \cup {NoNode}] /\ r.kids \in [N -> Seq(N)] /\ Linked(r)
      /\ r.parent[Root] = NoNode /\ \A x \in N : IsInjective(r.kids[x])
  <2> HIDE DEF r
  <2> QED
    BY <1>2, DocumentFacts
<1>4. /\ size \in Nat \ {0} /\ F = 0..(size - 1) /\ Linked(frag)
      /\ frag.parent \in [F -> F \cup {NoNode}] /\ frag.kids \in [F -> Seq(F)]
      /\ frag.parent[Root] = NoNode /\ Root \in F /\ \A x \in F : IsInjective(frag.kids[x])
      /\ \A x \in F \ {Root} : frag.parent[x] # NoNode
  BY DocumentFacts DEF IsParsed
<1>5. /\ G(Root) = n
      /\ \A x \in F \ {Root} : G(x) \in new
      /\ \A x, y \in F : G(x) = G(y) => x = y
      /\ \A m \in new : m - base + 1 \in F \ {Root} /\ G(m - base + 1) = m
  <2> HIDE DEF base, size, F, N
  <2>1. /\ base \in Nat \ {0} /\ size \in Nat \ {0} /\ n \in 0..(base - 1)
        /\ F = 0..(size - 1) /\ Root = 0
    BY <1>2, <1>4 DEF Root, N
  <2>2. G(Root) = n /\ \A x \in F \ {Root} : G(x) = base + x - 1
    BY DEF Grafted
  <2> HIDE DEF G
  <2>3. \A x \in F \ {Root} : G(x) \in new /\ G(x) \notin 0..(base - 1)
    BY <2>1, <2>2
  <2>4. ASSUME NEW x \in F, NEW y \in F, G(x) = G(y) PROVE x = y
    BY <2>1, <2>2, <2>3, <2>4
  <2>5. \A m \in new : m - base + 1 \in F \ {Root} /\ G(m - base + 1) = m
    BY <2>1, <2>2
  <2> QED
    BY <2>2, <2>3, <2>4, <2>5
<1>6. all = 0..(base + size - 2) /\ N \cap new = {} /\ NoNode \notin all
  <2> HIDE DEF base, size, N
  <2> QED
    BY <1>2, <1>4 DEF NoNode
<1>7. \A x \in F : LET ys == GraftedAll(n, base, frag.kids[x])
                   IN  /\ ys \in Seq(all) /\ IsInjective(ys)
                       /\ Range(ys) = {G(c) : c \in ChildSet(frag, x)}
  <2> TAKE x \in F
  <2>1. frag.kids[x] \in Seq(0..(size - 1)) /\ IsInjective(frag.kids[x]) /\ n \in 0..(base - 1)
    BY <1>2, <1>4
  <2>2. Range(frag.kids[x]) = ChildSet(frag, x)
    BY DEF Range, ChildSet
  <2> HIDE DEF base, size, F, N, new, all
  <2> QED
    BY <1>2, <1>4, <1>6, <2>1, <2>2, GraftedAllFacts
<1> HIDE DEF base, size, F, N, new, G, r
<1>8. /\ parent \in [all -> all \cup {NoNode}]
      /\ \A m \in N : parent[m] = r.parent[m]
      /\ \A m \in new : parent[m] = G(frag.parent[m - base + 1])
                        /\ frag.parent[m - base + 1] \in F
  <2>1. \A m \in new : frag.parent[m - base + 1] \in F
    BY <1>4, <1>5
  <2>2. \A x \in F : G(x) \in all
    BY <1>4, <1>5 DEF N
  <2> QED
    BY <1>2, <1>3, <1>6, <2>1, <2>2
<1>9. /\ kids[n] = GraftedAll(n, base, frag.kids[Root])
      /\ \A m \in N \ {n} : kids[m] = r.kids[m]
      /\ \A m \in new : kids[m] = GraftedAll(n, base, frag.kids[m - base + 1])
  BY <1>2, <1>6 DEF N
<1>10. kids \in [all -> Seq(all)] /\ \A m \in all : IsInjective(kids[m])
  <2>1. ASSUME NEW m \in all PROVE kids[m] \in Seq(all) /\ IsInjective(kids[m])
    <3>1. CASE m = n
      BY <1>4, <1>7, <1>9, <3>1
    <3>2. CASE m \in N \ {n}
      <4>1. r.kids[m] \in Seq(N) /\ IsInjective(r.kids[m])
        BY <1>3, <3>2
      <4>2. N \subseteq all
        OBVIOUS
      <4>3. r.kids[m] \in Seq(all)
        BY <4>1, <4>2, SeqMonotonic
      <4> HIDE DEF kids
      <4> QED
        BY <1>9, <3>2, <4>1, <4>3
    <3>3. CASE m \in new
      <4>1. m - base + 1 \in F
        BY <1>5, <3>3
      <4> HIDE DEF kids
      <4> QED
        BY <1>7, <1>9, <3>3, <4>1
    <3> QED
      BY <3>1, <3>2, <3>3
  <2>2. kids = [m \in all |-> kids[m]]
    OBVIOUS
  <2> HIDE DEF kids, all
  <2> QED
    BY <2>1, <2>2
<1>11. /\ e.tag = tag /\ e.attr = attr /\ e.parent = parent /\ e.kids = kids /\ HasFields(e)
       /\ DOMAIN tag = all /\ DOMAIN attr = all
  <2> DEFINE t == tag
             a == attr
             p == parent
             k == kids
  <2>1. DOMAIN t = all /\ DOMAIN a = all
    OBVIOUS
  <2> HIDE DEF t, a, p, k, e
  <2>2. e = Doc(t, a, p, k)
    BY <1>1 DEF t, a, p, k
  <2>3. e.tag = t /\ e.attr = a /\ e.parent = p /\ e.kids = k /\ HasFields(e)
    BY <2>2, FieldsOf
  <2> QED
    BY <2>1, <2>3 DEF t, a, p, k
<1> HIDE DEF e, tag, attr, parent, kids, all
<1>12. NodesOf(e) = all
  BY <1>11 DEF NodesOf
<1>13. /\ \A z \in F : G(z) \in {n} \cup new /\ ChildSet(e, G(z)) = {G(c) : c \in ChildSet(frag, z)}
       /\ \A x \in N \ {n} : ChildSet(e, x) = ChildSet(r, x)
  <2>1. \A x \in N \ {n} : ChildSet(e, x) = ChildSet(r, x)
    BY <1>9, <1>11 DEF ChildSet
  <2>2. ASSUME NEW z \in F
        PROVE  G(z) \in {n} \cup new /\ ChildSet(e, G(z)) = {G(c) : c \in ChildSet(frag, z)}
    <3>1. kids[G(z)] = GraftedAll(n, base, frag.kids[z]) /\ G(z) \in {n} \cup new
      <4>1. CASE z = Root
        BY <1>5, <1>9, <4>1
      <4>2. CASE z # Root
        <5>1. G(z) \in new
          BY <1>5, <4>2
        <5>2. G(z) - base + 1 \in F /\ G(G(z) - base + 1) = G(z)
          BY <1>5, <5>1
        <5>3. G(z) - base + 1 = z
          BY <1>5, <5>2
        <5> QED
          BY <1>9, <5>1, <5>3
      <4> QED
        BY <4>1, <4>2
    <3>2. ChildSet(e, G(z)) = Range(kids[G(z)])
      BY <1>11 DEF ChildSet, Range
    <3>3. Range(GraftedAll(n, base, frag.kids[z])) = {G(c) : c \in ChildSet(frag, z)}
      BY <1>7
    <3> QED
      BY <3>1, <3>2, <3>3
  <2> QED
    BY <2>1, <2>2
<1>14. Linked(e)
  <2> SUFFICES ASSUME NEW x \in all, NEW y \in all
               PROVE  y \in ChildSet(e, x) <=> e.parent[y] = x
    BY <1>12 DEF Linked
  <2>1. x \in N \cup new /\ y \in N \cup new
    BY DEF all
  <2>2. CASE x \in N \ {n}
    <3>1. ChildSet(e, x) = ChildSet(r, x) /\ ChildSet(r, x) \subseteq N
      <4>1. x \in NodesOf(r)
        BY <1>2, <2>2
      <4>2. ChildSet(r, x) \subseteq NodesOf(r)
        BY <1>2, <4>1, ChildrenFacts
      <4> QED
        BY <1>2, <1>13, <2>2, <4>2
    <3>2. CASE y \in N
      <4>1. y \in ChildSet(r, x) <=> r.parent[y] = x
        BY <1>2, <1>3, <2>2, <3>2 DEF Linked
      <4> QED
        BY <1>8, <1>11, <3>1, <3>2, <4>1
    <3>3. CASE y \in new
      <4>1. y \notin ChildSet(e, x)
        BY <1>6, <3>1, <3>3
      <4>2. e.parent[y] \in {n} \cup new
        BY <1>8, <1>11, <1>13, <3>3
      <4> QED
        BY <1>6, <2>2, <4>1, <4>2
    <3> QED
      BY <2>1, <3>2, <3>3
  <2>3. CASE x \in {n} \cup new
    <3>1. PICK z \in F : x = G(z)
      BY <1>4, <1>5, <2>3
    <3>2. ChildSet(e, x) = {G(c) : c \in ChildSet(frag, z)}
      BY <1>13, <3>1
    <3>3. /\ ChildSet(frag, z) \subseteq F \ {Root}
          /\ \A c \in F : c \in ChildSet(frag, z) <=> frag.parent[c] = z
      <4>1. IsDocument(frag) /\ z \in NodesOf(frag)
        BY DEF IsParsed, F
      <4>2. /\ ChildSet(frag, z) \subseteq F
            /\ \A c \in F : c \in ChildSet(frag, z) <=> frag.parent[c] = z
        BY <4>1, ChildrenFacts DEF F
      <4>3. NoNode # z
        BY <4>1, DocumentFacts
      <4> QED
        BY <1>4, <4>2, <4>3
    <3>4. CASE y \in N
      <4>1. y \notin ChildSet(e, x)
        BY <1>5, <1>6, <3>2, <3>3, <3>4
      <4>2. e.parent[y] \in (N \cup {NoNode}) \ {n}
        BY <1>2, <1>3, <1>8, <1>11, <3>4
      <4>3. NoNode \notin new
        BY <1>6 DEF all
      <4> QED
        BY <1>6, <2>3, <4>1, <4>2, <4>3
    <3>5. CASE y \in new
      <4> DEFINE c == y - base + 1
      <4>1. c \in F \ {Root} /\ G(c) = y /\ e.parent[y] = G(frag.parent[c]) /\ frag.parent[c] \in F
        BY <1>5, <1>8, <1>11, <3>5
      <4> HIDE DEF c
      <4>2. y \in ChildSet(e, x) <=> c \in ChildSet(frag, z)
        BY <1>5, <3>2, <3>3, <4>1
      <4>3. c \in ChildSet(frag, z) <=> frag.parent[c] = z
        BY <3>3, <4>1
      <4>4. frag.parent[c] = z <=> G(frag.parent[c]) = x
        BY <1>5, <3>1, <4>1
      <4> QED
        BY <4>1, <4>2, <4>3, <4>4
    <3> QED
      BY <2>1, <3>4, <3>5
  <2> QED
    BY <2>1, <2>2, <2>3
<1>15. IsDocument(e)
  <2> DEFINE count == base + size - 1
  <2>1. count \in Nat \ {0} /\ NodesOf(e) = 0..(count - 1)
    BY <1>2, <1>4, <1>6, <1>12
  <2>2. e.parent[Root] = NoNode
    BY <1>2, <1>3, <1>8, <1>11
  <2> HIDE DEF count
  <2> QED
    BY <1>8, <1>10, <1>11, <1>12, <1>14, <2>1, <2>2, DocumentFrom
<1> QED
  BY <1>12, <1>15 DEF e, all, N

-----------------------------------------------------------------------------
(* The document of the page.                                                *)

\* The document scripts work on is one, and still has the nodes of the page.
DocumentInv ==
  /\ page \in Pages
  /\ IsDocument(doc)
  /\ NodesOf(page.doc) \subseteq NodesOf(doc)

DocumentStep ==
  \/ UNCHANGED <<page, doc>>
  \/ CreateNode \/ AppendChildCall \/ RemoveChildCall
  \/ SetText \/ SetInnerHtml \/ SetAttributeCall

\* Only these actions touch the document.
LEMMA NextDocument == [Next]_vars => DocumentStep
<1> SUFFICES ASSUME [Next]_vars PROVE DocumentStep
  OBVIOUS
<1> USE DEF DocumentStep
<1>1. CASE Call
  <2>1. CASE Hangs \/ AddListener \/ RemoveListener \/ OnEvent
    BY <2>1 DEF Hangs, AddListener, RemoveListener, OnEvent
  <2>2. CASE SetTimeout \/ ClearTimeout \/ SubmitCall
    BY <2>2 DEF SetTimeout, ClearTimeout, SubmitCall
  <2>3. CASE ReadControl \/ SetChecked \/ SetValue
    BY <2>3 DEF ReadControl, SetChecked, SetValue, Controls
  <2>4. CASE SetSelected \/ SetDisabled \/ SetIndex
    BY <2>4 DEF SetSelected, SetDisabled, SetIndex, Controls
  <2> QED
    BY <1>1, <2>1, <2>2, <2>3, <2>4 DEF Call
<1>2. CASE Return \/ Throw \/ RunScript \/ RunPendingTimers \/ RunTimer \/ DrainEnds
  BY <1>2 DEF Return, Throw, RunScript, RunPendingTimers, RunTimer, DrainEnds
<1>3. CASE DispatchEvent \/ Visit \/ CallListener \/ DispatchEnds
  BY <1>3 DEF DispatchEvent, Visit, CallListener, DispatchEnds
<1>4. CASE Show \/ Click \/ ClickNowhere \/ InputText \/ Backspace
  BY <1>4 DEF Show, Click, ClickNowhere, InputText, Backspace, Edit, Keep
<1>5. CASE UNCHANGED vars
  BY <1>5 DEF vars, rt
<1> QED
  BY <1>1, <1>2, <1>3, <1>4, <1>5 DEF Next, RuntimeNext

LEMMA TouchedAreNodes == ASSUME DocumentInv PROVE Touched \subseteq NodesOf(doc) \ {Root}
<1>1. IsDocument(page.doc) /\ page.touch \subseteq NodesOf(page.doc) \ {Root}
  BY DomAssumption DEF DocumentInv, IsParsed
<1>2. Root \in NodesOf(page.doc)
  BY <1>1, DocumentFacts
<1> QED
  BY <1>1, <1>2 DEF Touched, DocumentInv

\* A call that leaves a document with no fewer nodes.
LEMMA MutatesKeeps ==
  ASSUME DocumentInv, NEW d, Mutates(d), IsDocument(d), NodesOf(doc) \subseteq NodesOf(d)
  PROVE  DocumentInv'
BY DEF Mutates, DocumentInv

LEMMA DocumentNext == DocumentInv /\ [Next]_vars => DocumentInv'
<1> SUFFICES ASSUME DocumentInv, DocumentStep PROVE DocumentInv'
  BY NextDocument
<1>1. IsDocument(doc) /\ Touched \subseteq NodesOf(doc) \ {Root}
  BY TouchedAreNodes DEF DocumentInv
<1>2. CASE UNCHANGED <<page, doc>>
  BY <1>2 DEF DocumentInv
<1>3. CASE CreateNode
  <2>1. PICK t, at : doc' = Create(doc, t, at)
    BY <1>3 DEF CreateNode
  <2>2. IsDocument(doc') /\ NodesOf(doc) \subseteq NodesOf(doc') /\ page' = page
    BY <1>1, <1>3, <2>1, CreateKeeps DEF CreateNode
  <2> QED
    BY <2>2 DEF DocumentInv
<1>4. CASE AppendChildCall
  <2>1. PICK p \in Touched, c \in Touched : Mutates(Move(doc, p, c))
    BY <1>4 DEF AppendChildCall
  <2>2. p \in NodesOf(doc) /\ c \in NodesOf(doc) \ {Root}
    BY <1>1, <2>1
  <2>3. IsDocument(Move(doc, p, c)) /\ NodesOf(Move(doc, p, c)) = NodesOf(doc)
    BY <1>1, <2>2, MoveKeeps
  <2> QED
    BY <2>1, <2>3, MutatesKeeps
<1>5. CASE RemoveChildCall
  <2>1. PICK p \in Touched, c \in Touched : CanRemove(doc, p, c) /\ Mutates(RemoveChild(doc, p, c))
    BY <1>5 DEF RemoveChildCall
  <2>2. p \in NodesOf(doc) /\ c \in ChildSet(doc, p)
    BY <1>1, <2>1 DEF CanRemove
  <2>3. IsDocument(RemoveChild(doc, p, c)) /\ NodesOf(RemoveChild(doc, p, c)) = NodesOf(doc)
    BY <1>1, <2>2, RemoveChildKeeps
  <2> QED
    BY <2>1, <2>3, MutatesKeeps
<1>6. CASE SetText
  <2>1. PICK n \in Touched, x \in Texts : Mutates(SetTextContent(doc, n, x))
    BY <1>6 DEF SetText
  <2>2. n \in NodesOf(doc)
    BY <1>1, <2>1
  <2>3. /\ IsDocument(SetTextContent(doc, n, x))
        /\ NodesOf(doc) \subseteq NodesOf(SetTextContent(doc, n, x))
    BY <1>1, <2>2, SetTextContentKeeps
  <2> QED
    BY <2>1, <2>3, MutatesKeeps
<1>7. CASE SetInnerHtml
  <2>1. PICK n \in Touched, f \in Fragments : Mutates(Graft(doc, n, f))
    BY <1>7 DEF SetInnerHtml
  <2>2. n \in NodesOf(doc) /\ IsParsed(f)
    BY <1>1, <2>1, DomAssumption
  <2>3. IsDocument(Graft(doc, n, f)) /\ NodesOf(doc) \subseteq NodesOf(Graft(doc, n, f))
    BY <1>1, <2>2, GraftKeeps
  <2> QED
    BY <2>1, <2>3, MutatesKeeps
<1>8. CASE SetAttributeCall
  <2>1. PICK n \in Touched, a \in {"checked", "disabled"} : Mutates(SetAttribute(doc, n, a, ""))
    BY <1>8 DEF SetAttributeCall
  <2>2. n \in NodesOf(doc)
    BY <1>1, <2>1
  <2>3. /\ IsDocument(SetAttribute(doc, n, a, ""))
        /\ NodesOf(SetAttribute(doc, n, a, "")) = NodesOf(doc)
    BY <1>1, <2>2, SetAttributeKeeps
  <2> QED
    BY <2>1, <2>3, MutatesKeeps
<1> QED
  BY <1>2, <1>3, <1>4, <1>5, <1>6, <1>7, <1>8 DEF DocumentStep

LEMMA DocumentHolds == Spec => []DocumentInv
<1>1. Init => DocumentInv
  BY DomAssumption DEF Init, RuntimeInit, DocumentInv, IsParsed
<1> QED
  BY <1>1, DocumentNext, PTL DEF Spec

\* The links of the document agree, and what is attached to the root is a tree,
\* whatever scripts move, remove, write and parse (mocha_dom, set_inner_html).
THEOREM AttachedStaysTree == Spec => []AttachedIsTree
<1>1. DocumentInv => AttachedIsTree
  BY RootBelow, TraverseFacts DEF DocumentInv, AttachedIsTree
<1> QED
  BY <1>1, DocumentHolds, PTL

-----------------------------------------------------------------------------
(* Timers.  The ids of the queue grow, and are those given out so far.      *)

Task == [id : Nat, canceled : BOOLEAN]

TimersInv ==
  /\ nextTimer \in Nat
  /\ timers \in Seq(Task)
  /\ \A i \in DOMAIN timers : timers[i].id < nextTimer
  /\ \A i, j \in DOMAIN timers : i < j => timers[i].id < timers[j].id

TimersStep == UNCHANGED <<timers, nextTimer>> \/ SetTimeout \/ ClearTimeout \/ RunTimer

LEMMA TimersFacts ==
  ASSUME TimersInv
  PROVE  /\ timers \in Seq(Task) /\ DOMAIN timers = 1..Len(timers)
         /\ Len(timers) \in Nat /\ nextTimer \in Nat
         /\ \A i \in DOMAIN timers : timers[i].id \in Nat /\ timers[i].id < nextTimer
         /\ \A i, j \in DOMAIN timers : i < j => timers[i].id < timers[j].id
<1>1. timers \in Seq(Task) /\ nextTimer \in Nat
  BY DEF TimersInv
<1>2. \A i \in DOMAIN timers : timers[i] \in Task
  BY <1>1
<1>3. \A i \in DOMAIN timers : timers[i].id \in Nat
  BY <1>2 DEF Task
<1> QED
  BY <1>1, <1>3 DEF TimersInv

\* Only these actions touch the queue.
LEMMA NextTimers == [Next]_vars => TimersStep
<1> SUFFICES ASSUME [Next]_vars PROVE TimersStep
  OBVIOUS
<1> USE DEF TimersStep
<1>1. CASE Call
  <2>1. CASE CreateNode \/ AppendChildCall \/ RemoveChildCall \/ SetText
    BY <2>1 DEF CreateNode, AppendChildCall, RemoveChildCall, SetText, Mutates
  <2>2. CASE SetInnerHtml \/ SetAttributeCall \/ Hangs
    BY <2>2 DEF SetInnerHtml, SetAttributeCall, Hangs, Mutates
  <2>3. CASE AddListener \/ RemoveListener \/ OnEvent \/ SubmitCall
    BY <2>3 DEF AddListener, RemoveListener, OnEvent, SubmitCall
  <2>4. CASE ReadControl \/ SetChecked \/ SetValue
    BY <2>4 DEF ReadControl, SetChecked, SetValue, Controls
  <2>5. CASE SetSelected \/ SetDisabled \/ SetIndex
    BY <2>5 DEF SetSelected, SetDisabled, SetIndex, Controls
  <2> QED
    BY <1>1, <2>1, <2>2, <2>3, <2>4, <2>5 DEF Call
<1>2. CASE Return \/ Throw \/ RunScript \/ RunPendingTimers \/ DrainEnds
  BY <1>2 DEF Return, Throw, RunScript, RunPendingTimers, DrainEnds
<1>3. CASE DispatchEvent \/ Visit \/ CallListener \/ DispatchEnds
  BY <1>3 DEF DispatchEvent, Visit, CallListener, DispatchEnds
<1>4. CASE Show \/ Click \/ ClickNowhere \/ InputText \/ Backspace
  BY <1>4 DEF Show, Click, ClickNowhere, InputText, Backspace, Edit, Keep
<1>5. CASE UNCHANGED vars
  BY <1>5 DEF vars, rt
<1> QED
  BY <1>1, <1>2, <1>3, <1>4, <1>5 DEF Next, RuntimeNext

\* The first live task.
Live == {i \in 1..Len(timers) : ~timers[i].canceled}

LEMMA RunTimerRemoves ==
  ASSUME TimersInv, RunTimer
  PROVE  /\ nextTimer' = nextTimer
         /\ \E i \in DOMAIN timers :
              /\ ~timers[i].canceled
              /\ \A j \in DOMAIN timers : ~timers[j].canceled => i <= j
              /\ timers' = RemoveAt(timers, i)
<1>1. timers \in Seq(Task) /\ DOMAIN timers = 1..Len(timers) /\ Live \in SUBSET Nat
  BY DEF TimersInv, Live
<1> DEFINE i == IF Live # {} THEN Min(Live) ELSE 0
<1>2. i # 0 /\ timers' = RemoveAt(timers, i) /\ nextTimer' = nextTimer
  BY DEF RunTimer, SelectInSeq, Live
<1>3. i \in Live /\ \A j \in Live : i <= j
  BY <1>1, <1>2, MinProperties
<1> QED
  BY <1>1, <1>2, <1>3 DEF Live

LEMMA SetTimeoutAppends ==
  ASSUME TimersInv, SetTimeout
  PROVE  /\ nextTimer' = nextTimer + 1 /\ timers' \in Seq(Task)
         /\ Len(timers') = Len(timers) + 1
         /\ \A i \in DOMAIN timers : timers'[i] = timers[i]
         /\ timers'[Len(timers) + 1].id = nextTimer
<1> DEFINE t == [id |-> nextTimer, canceled |-> FALSE]
<1>1. t \in Task /\ timers \in Seq(Task) /\ DOMAIN timers = 1..Len(timers)
  BY DEF TimersInv, Task
<1>2. timers' = Append(timers, t) /\ nextTimer' = nextTimer + 1
  BY DEF SetTimeout
<1> HIDE DEF t
<1>3. /\ timers' \in Seq(Task) /\ Len(timers') = Len(timers) + 1
      /\ \A i \in DOMAIN timers : timers'[i] = timers[i]
      /\ timers'[Len(timers) + 1] = t
  BY <1>1, <1>2, AppendProperties
<1> QED
  BY <1>2, <1>3 DEF t

LEMMA ClearTimeoutMarks ==
  ASSUME TimersInv, ClearTimeout
  PROVE  /\ nextTimer' = nextTimer
         /\ timers' \in Seq(Task) /\ DOMAIN timers' = DOMAIN timers
         /\ \A i \in DOMAIN timers :
              timers'[i] \in {timers[i], [timers[i] EXCEPT !.canceled = TRUE]}
<1>1. timers \in Seq(Task) /\ DOMAIN timers = 1..Len(timers) /\ Len(timers) \in Nat
  BY DEF TimersInv
<1>2. PICK id \in 0 .. nextTimer - 1 :
        timers' = [i \in DOMAIN timers |->
                     IF timers[i].id = id THEN [timers[i] EXCEPT !.canceled = TRUE] ELSE timers[i]]
  BY DEF ClearTimeout
<1>3. ASSUME NEW i \in DOMAIN timers
      PROVE  /\ timers'[i] \in {timers[i], [timers[i] EXCEPT !.canceled = TRUE]}
             /\ timers'[i] \in Task
  <2> DEFINE t == timers[i]
  <2>1. t \in Task
    BY <1>1
  <2>2. timers'[i] \in {t, [t EXCEPT !.canceled = TRUE]}
    BY <1>2
  <2> HIDE DEF t
  <2>3. [t EXCEPT !.canceled = TRUE] \in Task
    BY <2>1 DEF Task
  <2>4. timers'[i] \in Task
    BY <2>1, <2>2, <2>3
  <2> QED
    BY <2>2, <2>4 DEF t
<1>4. timers' \in Seq(Task)
  <2>1. timers' = [i \in 1..Len(timers) |-> timers'[i]]
    BY <1>1, <1>2
  <2> QED
    BY <1>1, <1>3, <2>1
<1> QED
  BY <1>2, <1>3, <1>4 DEF ClearTimeout

LEMMA TimersNext == TimersInv /\ [Next]_vars => TimersInv'
<1> SUFFICES ASSUME TimersInv, TimersStep
             PROVE  TimersInv'
  BY NextTimers
<1>1. /\ timers \in Seq(Task) /\ DOMAIN timers = 1..Len(timers)
      /\ Len(timers) \in Nat /\ nextTimer \in Nat
      /\ \A i \in DOMAIN timers : timers[i].id \in Nat /\ timers[i].id < nextTimer
      /\ \A i, j \in DOMAIN timers : i < j => timers[i].id < timers[j].id
  BY TimersFacts
<1>2. CASE UNCHANGED <<timers, nextTimer>>
  BY <1>2 DEF TimersInv
<1>3. CASE SetTimeout
  <2>1. /\ nextTimer' = nextTimer + 1 /\ timers' \in Seq(Task)
        /\ DOMAIN timers' = 1..(Len(timers) + 1)
        /\ \A i \in DOMAIN timers : timers'[i] = timers[i]
        /\ timers'[Len(timers) + 1].id = nextTimer
    <3>1. timers' \in Seq(Task) => DOMAIN timers' = 1..Len(timers')
      OBVIOUS
    <3> QED
      BY <1>3, <3>1, SetTimeoutAppends
  <2>2. \A i \in DOMAIN timers' : i \in DOMAIN timers \/ i = Len(timers) + 1
    BY <1>1, <2>1
  <2> QED
    BY <1>1, <2>1, <2>2 DEF TimersInv
<1>4. CASE ClearTimeout
  <2>1. /\ nextTimer' = nextTimer /\ timers' \in Seq(Task) /\ DOMAIN timers' = DOMAIN timers
        /\ \A i \in DOMAIN timers :
             timers'[i] \in {timers[i], [timers[i] EXCEPT !.canceled = TRUE]}
    BY <1>4, ClearTimeoutMarks
  <2>2. \A i \in DOMAIN timers : timers'[i].id = timers[i].id
    <3> TAKE i \in DOMAIN timers
    <3>1. timers[i] \in Task
      BY <1>1
    <3> QED
      BY <2>1, <3>1 DEF Task
  <2> QED
    BY <1>1, <2>1, <2>2 DEF TimersInv
<1>5. CASE RunTimer
  <2>1. nextTimer' = nextTimer
    BY <1>5, RunTimerRemoves
  <2>2. PICK i \in DOMAIN timers : timers' = RemoveAt(timers, i)
    BY <1>5, RunTimerRemoves
  <2>3. /\ timers' \in Seq(Task)
        /\ \A k \in DOMAIN timers' :
             Before(i, k) \in DOMAIN timers /\ timers'[k] = timers[Before(i, k)]
        /\ \A j, k \in DOMAIN timers' : j < k => Before(i, j) < Before(i, k)
    BY <1>1, <2>2, RemoveAtKeepsOrder
  <2> QED
    BY <1>1, <2>1, <2>3 DEF TimersInv
<1> QED
  BY <1>2, <1>3, <1>4, <1>5 DEF TimersStep

LEMMA TimersHold == Spec => []TimersInv
<1>1. Init => TimersInv
  BY DEF Init, RuntimeInit, TimersInv
<1> QED
  BY <1>1, TimersNext, PTL DEF Spec

\* A task that a step takes from the queue was the first live one, and no task
\* with its id stays (run_pending_timers).
LEMMA TaskTaken ==
  ASSUME TimersInv, TimersStep, NEW t \in Range(timers),
         t \notin Range(timers'), [t EXCEPT !.canceled = TRUE] \notin Range(timers')
  PROVE  /\ ~t.canceled
         /\ \A u \in Range(timers) : ~u.canceled => t.id <= u.id
         /\ \A u \in Range(timers') : u.id # t.id
<1>1. /\ timers \in Seq(Task) /\ DOMAIN timers = 1..Len(timers) /\ Len(timers) \in Nat
      /\ \A i \in DOMAIN timers : timers[i].id \in Nat
      /\ \A i, j \in DOMAIN timers : i < j => timers[i].id < timers[j].id
  BY TimersFacts
<1>2. PICK i \in DOMAIN timers : t = timers[i]
  BY DEF Range
<1>3. CASE UNCHANGED <<timers, nextTimer>>
  BY <1>3
<1>4. CASE SetTimeout
  <2>1. i \in DOMAIN timers' /\ timers'[i] = t
    BY <1>1, <1>2, <1>4, SetTimeoutAppends
  <2> QED
    BY <2>1 DEF Range
<1>5. CASE ClearTimeout
  <2>1. i \in DOMAIN timers' /\ timers'[i] \in {t, [t EXCEPT !.canceled = TRUE]}
    BY <1>2, <1>5, ClearTimeoutMarks
  <2> QED
    BY <2>1 DEF Range
<1>6. CASE RunTimer
  <2>1. PICK r \in DOMAIN timers :
          /\ ~timers[r].canceled
          /\ \A j \in DOMAIN timers : ~timers[j].canceled => r <= j
          /\ timers' = RemoveAt(timers, r)
    BY <1>6, RunTimerRemoves
  <2>2. /\ \A k \in DOMAIN timers' :
             Before(r, k) \in DOMAIN timers \ {r} /\ timers'[k] = timers[Before(r, k)]
        /\ \A j \in DOMAIN timers \ {r} : \E k \in DOMAIN timers' : j = Before(r, k)
    <3>1. timers \in Seq(Task) /\ r \in DOMAIN timers /\ timers' = RemoveAt(timers, r)
      BY <1>1, <2>1
    <3> QED
      BY <3>1, RemoveAtKeepsOrder
  <2>3. i = r
    BY <1>2, <2>2 DEF Range
  <2>4. \A u \in Range(timers) : ~u.canceled => t.id <= u.id
    <3> TAKE u \in Range(timers)
    <3>1. PICK j \in DOMAIN timers : u = timers[j]
      BY DEF Range
    <3> QED
      BY <1>1, <1>2, <2>1, <2>3, <3>1
  <2>5. \A u \in Range(timers') : u.id # t.id
    <3> TAKE u \in Range(timers')
    <3>1. PICK k \in DOMAIN timers' : u = timers'[k]
      BY DEF Range
    <3>2. Before(r, k) \in DOMAIN timers \ {i} /\ u = timers[Before(r, k)]
      BY <2>2, <2>3, <3>1
    <3> QED
      BY <1>1, <1>2, <3>2
  <2> QED
    BY <1>2, <2>1, <2>3, <2>4, <2>5
<1> QED
  BY <1>3, <1>4, <1>5, <1>6 DEF TimersStep

\* Timer tasks run in the order they were set, each once, and no canceled one.
THEOREM TasksInOrder == Spec => TimersInOrder
<1>1. TimersInv /\ [Next]_vars =>
        [\A t \in Range(timers) :
           t \notin Range(timers') /\ [t EXCEPT !.canceled = TRUE] \notin Range(timers') =>
             /\ ~t.canceled
             /\ \A u \in Range(timers) : ~u.canceled => t.id <= u.id
             /\ \A u \in Range(timers') : u.id # t.id]_timers
  BY NextTimers, TaskTaken
<1> QED
  BY <1>1, TimersHold, PTL DEF Spec, TimersInOrder

-----------------------------------------------------------------------------
(* Among.                                                                   *)

\* r picks the elements of the first k of s that are in S, in their order.
Picks(s, S, k, r, at) ==
  /\ DOMAIN r = 1..Len(r) /\ Len(r) \in Nat
  /\ at \in [1..Len(r) -> 1..k]
  /\ \A i, j \in 1..Len(r) : i < j => at[i] < at[j]
  /\ \A i \in 1..Len(r) : r[i] = s[at[i]] /\ s[at[i]] \in S
  /\ \A j \in 1..k : s[j] \in S => \E i \in 1..Len(r) : at[i] = j

KeptUpto(s, S, n, f) ==
  /\ f[0] = << >>
  /\ \A k \in 1..n : f[k] = IF s[k] \in S THEN Append(f[k - 1], s[k]) ELSE f[k - 1]

\* The recursive function of Among.
Keeping(s, S, f) ==
  f = [i \in 0 .. Len(s) |->
         IF i = 0 THEN << >>
         ELSE IF s[i] \in S THEN Append(f[i - 1], s[i]) ELSE f[i - 1]]

LEMMA AmongIs ==
  ASSUME NEW s, NEW S
  PROVE  Among(s, S) = (CHOOSE f : Keeping(s, S, f))[Len(s)]
BY DEF Among, Keeping

LEMMA KeepingExists ==
  ASSUME NEW T, NEW s \in Seq(T), NEW S
  PROVE  \E f : Keeping(s, S, f)
<1> DEFINE D == {n \in 0..Len(s) : ~\E f \in [0..n -> Seq(T)] : KeptUpto(s, S, n, f)}
<1>1. Len(s) \in Nat /\ \A k \in 1..Len(s) : s[k] \in T
  OBVIOUS
<1>2. D = {}
  <2> SUFFICES ASSUME D # {} PROVE FALSE
    OBVIOUS
  <2>1. PICK m \in D : \A k \in D : m <= k
    <3>1. D \in SUBSET Nat
      BY <1>1
    <3> HIDE DEF D
    <3> QED
      BY <3>1, LeastNumber
  <2>2. CASE m = 0
    <3>1. [k \in 0..0 |-> << >>] \in [0..0 -> Seq(T)]
      OBVIOUS
    <3>2. KeptUpto(s, S, 0, [k \in 0..0 |-> << >>])
      BY DEF KeptUpto
    <3>3. \E f \in [0..m -> Seq(T)] : KeptUpto(s, S, m, f)
      <4> HIDE DEF D
      <4> QED
        BY <2>2, <3>1, <3>2
    <3> QED
      BY <2>1, <3>3
  <2>3. CASE m # 0
    <3>1. m \in 1..Len(s) /\ m - 1 \in 0..Len(s) /\ m - 1 \notin D
      <4>1. m \in 0..Len(s)
        BY <2>1
      <4>2. m \in 1..Len(s) /\ m - 1 \in 0..Len(s) /\ ~(m <= m - 1)
        BY <1>1, <2>3, <4>1
      <4> HIDE DEF D
      <4> QED
        BY <2>1, <4>2
    <3>2. PICK g \in [0..(m - 1) -> Seq(T)] : KeptUpto(s, S, m - 1, g)
      BY <3>1
    <3> DEFINE last == IF s[m] \in S THEN Append(g[m - 1], s[m]) ELSE g[m - 1]
               h == [k \in 0..m |-> IF k = m THEN last ELSE g[k]]
    <3>3. last \in Seq(T)
      <4>1. g[m - 1] \in Seq(T) /\ s[m] \in T
        BY <1>1, <3>1
      <4> QED
        BY <4>1
    <3> HIDE DEF last
    <3>4. h \in [0..m -> Seq(T)]
      BY <3>1, <3>3
    <3>5. KeptUpto(s, S, m, h)
      <4>1. h[0] = << >>
        BY <3>1, <3>2 DEF KeptUpto
      <4>2. ASSUME NEW k \in 1..m
            PROVE  h[k] = IF s[k] \in S THEN Append(h[k - 1], s[k]) ELSE h[k - 1]
        <5>1. CASE k = m
          <6>1. h[k] = last /\ h[k - 1] = g[m - 1]
            BY <3>1, <5>1
          <6> QED
            BY <5>1, <6>1 DEF last
        <5>2. CASE k # m
          <6>1. k \in 1..(m - 1) /\ h[k] = g[k] /\ h[k - 1] = g[k - 1]
            BY <3>1, <5>2
          <6> QED
            BY <3>2, <6>1 DEF KeptUpto
        <5> QED
          BY <5>1, <5>2
      <4> HIDE DEF h
      <4> QED
        BY <4>1, <4>2 DEF KeptUpto
    <3> HIDE DEF h
    <3> QED
      BY <2>1, <3>4, <3>5
  <2> QED
    BY <2>2, <2>3
<1>3. PICK f \in [0..Len(s) -> Seq(T)] : KeptUpto(s, S, Len(s), f)
  <2>1. Len(s) \in 0..Len(s) /\ Len(s) \notin D
    BY <1>1, <1>2
  <2> QED
    BY <2>1
<1>4. Keeping(s, S, f)
  <2> DEFINE e == [i \in 0 .. Len(s) |->
                    IF i = 0 THEN << >>
                    ELSE IF s[i] \in S THEN Append(f[i - 1], s[i]) ELSE f[i - 1]]
  <2>1. ASSUME NEW i \in 0..Len(s) PROVE f[i] = e[i]
    <3>1. CASE i = 0
      BY <1>3, <3>1 DEF KeptUpto
    <3>2. CASE i # 0
      <4>1. i \in 1..Len(s)
        BY <1>1, <3>2
      <4>2. f[i] = IF s[i] \in S THEN Append(f[i - 1], s[i]) ELSE f[i - 1]
        BY <1>3, <4>1 DEF KeptUpto
      <4> QED
        BY <3>2, <4>2
    <3> QED
      BY <3>1, <3>2
  <2>2. f = [i \in 0..Len(s) |-> f[i]] /\ e = [i \in 0..Len(s) |-> e[i]]
    OBVIOUS
  <2>3. f = e
    <3> HIDE DEF e
    <3> QED
      BY <2>1, <2>2
  <2> QED
    BY <2>3 DEF Keeping
<1> QED
  BY <1>4

LEMMA PicksNext ==
  ASSUME NEW T, NEW s \in Seq(T), NEW S, NEW k \in 1..Len(s),
         NEW r \in Seq(T), NEW at, Picks(s, S, k - 1, r, at), NEW q,
         q = IF s[k] \in S THEN Append(r, s[k]) ELSE r
  PROVE  q \in Seq(T) /\ \E to : Picks(s, S, k, q, to)
<1>1. Len(s) \in Nat /\ s[k] \in T /\ k \in Nat /\ k >= 1
  OBVIOUS
<1>2. CASE s[k] \notin S
  <2>1. q = r
    BY <1>2
  <2>2. Picks(s, S, k, r, at)
    BY <1>1, <1>2 DEF Picks
  <2> QED
    BY <2>1, <2>2
<1>3. CASE s[k] \in S
  <2> DEFINE n == Len(r)
             to == [i \in 1..(n + 1) |-> IF i = n + 1 THEN k ELSE at[i]]
  <2>1. /\ q \in Seq(T) /\ Len(q) = n + 1 /\ DOMAIN q = 1..(n + 1)
        /\ \A i \in 1..n : q[i] = r[i]
        /\ q[n + 1] = s[k] /\ n \in Nat
    <3>1. q = Append(r, s[k])
      BY <1>3
    <3> QED
      BY <1>1, <3>1, AppendProperties
  <2> HIDE DEF n
  <2>2. /\ at \in [1..n -> 1..(k - 1)]
        /\ \A i, j \in 1..n : i < j => at[i] < at[j]
        /\ \A i \in 1..n : r[i] = s[at[i]] /\ s[at[i]] \in S
        /\ \A j \in 1..(k - 1) : s[j] \in S => \E i \in 1..n : at[i] = j
    BY DEF Picks, n
  <2>3. to \in [1..(n + 1) -> 1..k]
    BY <1>1, <2>1, <2>2
  <2>4. \A i, j \in 1..(n + 1) : i < j => to[i] < to[j]
    BY <1>1, <2>1, <2>2
  <2>5. \A i \in 1..(n + 1) : q[i] = s[to[i]] /\ s[to[i]] \in S
    BY <1>3, <2>1, <2>2
  <2>6. ASSUME NEW j \in 1..k, s[j] \in S
        PROVE  \E i \in 1..(n + 1) : to[i] = j
    <3>1. CASE j = k
      BY <2>1, <3>1
    <3>2. CASE j # k
      <4>1. PICK i \in 1..n : at[i] = j
        BY <1>1, <2>2, <2>6, <3>2
      <4>2. i \in 1..(n + 1) /\ i # n + 1
        BY <2>1, <4>1
      <4>3. to[i] = j
        BY <4>1, <4>2
      <4> QED
        BY <4>2, <4>3
    <3> QED
      BY <3>1, <3>2
  <2> HIDE DEF to
  <2>7. Picks(s, S, k, q, to)
    BY <2>1, <2>3, <2>4, <2>5, <2>6 DEF Picks
  <2> QED
    BY <2>1, <2>7
<1> QED
  BY <1>2, <1>3

\* The elements of s in S, in their order.
LEMMA AmongFacts ==
  ASSUME NEW T, NEW s \in Seq(T), NEW S
  PROVE  LET r == Among(s, S)
         IN  /\ r \in Seq(T)
             /\ Range(r) = Range(s) \cap S
             /\ \E at \in [DOMAIN r -> DOMAIN s] :
                  /\ \A i, j \in DOMAIN r : i < j => at[i] < at[j]
                  /\ \A i \in DOMAIN r : r[i] = s[at[i]]
<1> DEFINE f == CHOOSE f : Keeping(s, S, f)
           r == Among(s, S)
           n == Len(s)
<1>1. Keeping(s, S, f)
  BY KeepingExists
<1>2. r = f[n] /\ n \in Nat /\ DOMAIN s = 1..n
  BY AmongIs
<1> HIDE DEF f, r
<1>3. /\ f[0] = << >>
      /\ \A k \in 1..n : f[k] = IF s[k] \in S THEN Append(f[k - 1], s[k]) ELSE f[k - 1]
  <2> DEFINE e == [i \in 0 .. Len(s) |->
                    IF i = 0 THEN << >>
                    ELSE IF s[i] \in S THEN Append(f[i - 1], s[i]) ELSE f[i - 1]]
  <2>1. f = e
    BY <1>1 DEF Keeping
  <2>2. e[0] = << >>
    BY <1>2
  <2>3. \A k \in 1..n : k \in 0..Len(s) /\ k # 0
    BY <1>2
  <2>4. \A k \in 1..n : e[k] = IF s[k] \in S THEN Append(f[k - 1], s[k]) ELSE f[k - 1]
    BY <2>3
  <2> HIDE DEF e
  <2> QED
    BY <2>1, <2>2, <2>4
<1> DEFINE Good(k) == f[k] \in Seq(T) /\ \E at : Picks(s, S, k, f[k], at)
           D == {k \in 0..n : ~Good(k)}
<1>4. D = {}
  <2> SUFFICES ASSUME D # {} PROVE FALSE
    OBVIOUS
  <2>1. PICK m \in D : \A k \in D : m <= k
    <3>1. D \in SUBSET Nat
      BY <1>2
    <3> HIDE DEF D
    <3> QED
      BY <3>1, LeastNumber
  <2>2. Good(0)
    <3>1. Picks(s, S, 0, << >>, [i \in 1..0 |-> 1])
      <4>1. Len(<< >>) = 0 /\ DOMAIN << >> = 1..0
        OBVIOUS
      <4> QED
        BY <4>1 DEF Picks
    <3> QED
      BY <1>3, <3>1
  <2>3. m \in 1..n /\ m - 1 \in 0..n /\ m - 1 \notin D
    BY <1>2, <2>1, <2>2
  <2>4. f[m - 1] \in Seq(T) /\ \E at : Picks(s, S, m - 1, f[m - 1], at)
    BY <2>3
  <2>5. PICK at : Picks(s, S, m - 1, f[m - 1], at)
    BY <2>4
  <2>6. f[m] = IF s[m] \in S THEN Append(f[m - 1], s[m]) ELSE f[m - 1]
    BY <1>3, <2>3
  <2>7. f[m] \in Seq(T) /\ \E to : Picks(s, S, m, f[m], to)
    <3> DEFINE p == f[m - 1]
               q == f[m]
    <3>1. /\ m \in 1..Len(s) /\ p \in Seq(T) /\ Picks(s, S, m - 1, p, at)
          /\ q = IF s[m] \in S THEN Append(p, s[m]) ELSE p
      BY <2>3, <2>4, <2>5, <2>6
    <3> HIDE DEF Good, D, p, q
    <3>2. q \in Seq(T) /\ \E to : Picks(s, S, m, q, to)
      BY <3>1, PicksNext
    <3> QED
      BY <3>2 DEF q
  <2> QED
    BY <2>1, <2>7
<1>5. r \in Seq(T) /\ \E at : Picks(s, S, n, r, at)
  <2>1. n \in 0..n
    BY <1>2
  <2>2. Good(n)
    BY <1>4, <2>1
  <2> QED
    BY <1>2, <2>2
<1>6. PICK at : Picks(s, S, n, r, at)
  BY <1>5
<1>7. /\ at \in [DOMAIN r -> DOMAIN s] /\ DOMAIN r = 1..Len(r)
      /\ \A i, j \in DOMAIN r : i < j => at[i] < at[j]
      /\ \A i \in DOMAIN r : r[i] = s[at[i]] /\ s[at[i]] \in S
      /\ \A j \in DOMAIN s : s[j] \in S => \E i \in DOMAIN r : at[i] = j
  BY <1>2, <1>6 DEF Picks
<1>8. Range(r) = Range(s) \cap S
  BY <1>7 DEF Range
<1> QED
  BY <1>5, <1>7, <1>8 DEF r

-----------------------------------------------------------------------------
(* The path up from a node.                                                 *)

ClimbNext(d, up) ==
  IF d.parent[Last(up)] = NoNode THEN up ELSE Append(up, d.parent[Last(up)])

\* The recursive function of PathUp.
Climbing(d, n, f) ==
  f = [k \in Nat |-> IF k = 0 THEN <<n>> ELSE ClimbNext(d, f[k - 1])]

LEMMA PathUpIs ==
  ASSUME NEW d, NEW n
  PROVE  PathUp(d, n) = (CHOOSE f : Climbing(d, n, f))[Cardinality(NodesOf(d))]
BY DEF PathUp, Climbing, ClimbNext

Paths(d) == Seq(NodesOf(d)) \ {<< >>}

LEMMA ClimbNextType ==
  ASSUME NEW d, IsDocument(d), NEW up \in Paths(d)
  PROVE  ClimbNext(d, up) \in Paths(d)
<1>1. Last(up) \in NodesOf(d)
  BY LastFront DEF Paths
<1>2. d.parent[Last(up)] \in NodesOf(d) \cup {NoNode}
  BY <1>1, DocumentFacts
<1>3. CASE d.parent[Last(up)] = NoNode
  BY <1>3 DEF ClimbNext
<1>4. CASE d.parent[Last(up)] # NoNode
  <2> DEFINE p == d.parent[Last(up)]
  <2>1. p \in NodesOf(d) /\ up \in Seq(NodesOf(d))
    BY <1>2, <1>4 DEF Paths
  <2>2. ClimbNext(d, up) = Append(up, p)
    BY <1>4 DEF ClimbNext
  <2> HIDE DEF p
  <2>3. Append(up, p) \in Seq(NodesOf(d)) /\ Append(up, p) # << >>
    BY <2>1, AppendProperties
  <2> QED
    BY <2>2, <2>3 DEF Paths
<1> QED
  BY <1>3, <1>4

ClimbSteps(d, n, f) ==
  /\ f \in [Nat -> Paths(d)]
  /\ f[0] = <<n>>
  /\ \A k \in Nat : f[k + 1] = ClimbNext(d, f[k])

LEMMA ClimbIterates ==
  ASSUME NEW d, IsDocument(d), NEW n \in NodesOf(d)
  PROVE  \E f : ClimbSteps(d, n, f) /\ PathUp(d, n) = f[Cardinality(NodesOf(d))]
<1> DEFINE S == Paths(d)
           step == [w \in S |-> ClimbNext(d, w)]
<1>1. <<n>> \in S
  BY DEF Paths
<1>2. step \in [S -> S]
  BY ClimbNextType
<1>3. PICK g : Iterates(g, S, <<n>>, step)
  <2> HIDE DEF S, step
  <2> QED
    BY <1>1, <1>2, IterationExists
<1>4. ClimbSteps(d, n, g)
  <2>1. \A k \in Nat : g[k] \in S
    BY <1>3 DEF Iterates
  <2>2. \A k \in Nat : step[g[k]] = ClimbNext(d, g[k])
    BY <2>1
  <2> HIDE DEF step
  <2> QED
    BY <1>3, <2>2 DEF ClimbSteps, Iterates
<1>5. Climbing(d, n, g)
  <2> DEFINE h == [k \in Nat |-> IF k = 0 THEN <<n>> ELSE ClimbNext(d, g[k - 1])]
  <2>1. ASSUME NEW k \in Nat PROVE g[k] = h[k]
    <3>1. CASE k = 0
      BY <1>4, <3>1 DEF ClimbSteps
    <3>2. CASE k # 0
      <4>1. k - 1 \in Nat /\ (k - 1) + 1 = k
        BY <3>2
      <4>2. g[(k - 1) + 1] = ClimbNext(d, g[k - 1])
        BY <1>4, <4>1 DEF ClimbSteps
      <4> QED
        BY <3>2, <4>1, <4>2
    <3> QED
      BY <3>1, <3>2
  <2>2. g = [k \in Nat |-> g[k]]
    BY <1>4 DEF ClimbSteps
  <2>3. g = h
    <3>1. h = [k \in Nat |-> h[k]]
      OBVIOUS
    <3> HIDE DEF h
    <3> QED
      BY <2>1, <2>2, <3>1
  <2> QED
    BY <2>3 DEF Climbing
<1> DEFINE f == CHOOSE f : Climbing(d, n, f)
<1>6. Climbing(d, n, f)
  BY <1>5
<1>7. PathUp(d, n) = f[Cardinality(NodesOf(d))]
  BY PathUpIs
<1> HIDE DEF f
<1>8. \A k \in Nat : f[k] = g[k]
  <2> DEFINE D == {k \in Nat : f[k] # g[k]}
  <2> SUFFICES ASSUME D # {} PROVE FALSE
    OBVIOUS
  <2>1. PICK m \in D : \A k \in D : m <= k
    <3>1. D \in SUBSET Nat
      OBVIOUS
    <3> HIDE DEF D
    <3> QED
      BY <3>1, LeastNumber
  <2>2. f[0] = <<n>> /\ g[0] = <<n>>
    BY <1>4, <1>6 DEF Climbing, ClimbSteps
  <2>3. m # 0 /\ m - 1 \in Nat /\ m - 1 \notin D
    BY <2>1, <2>2
  <2>4. f[m] = ClimbNext(d, f[m - 1])
    BY <1>6, <2>3 DEF Climbing
  <2>5. g[m] = ClimbNext(d, g[m - 1])
    BY <1>5, <2>3 DEF Climbing
  <2> QED
    BY <2>1, <2>3, <2>4, <2>5
<1>9. Cardinality(NodesOf(d)) \in Nat
  BY FS_CardinalityType DEF IsDocument
<1> QED
  BY <1>4, <1>7, <1>8, <1>9

\* What is true of the path after k steps.
PathInv(d, n, up, k) ==
  /\ Len(up) \in 1..(k + 1) /\ up[1] = n
  /\ \A i \in 1..(Len(up) - 1) : up[i + 1] = d.parent[up[i]]
  /\ d.parent[up[Len(up)]] # NoNode => Len(up) = k + 1

LEMMA PathInvNext ==
  ASSUME NEW d, IsDocument(d), NEW n, NEW up \in Paths(d), NEW k \in Nat, PathInv(d, n, up, k)
  PROVE  PathInv(d, n, ClimbNext(d, up), k + 1)
<1>1. /\ up \in Seq(NodesOf(d)) /\ Len(up) \in Nat \ {0} /\ Last(up) = up[Len(up)]
      /\ Last(up) \in NodesOf(d)
  BY LastFront DEF Paths
<1>2. CASE d.parent[Last(up)] = NoNode
  BY <1>1, <1>2 DEF PathInv, ClimbNext
<1>3. CASE d.parent[Last(up)] # NoNode
  <2> DEFINE p == d.parent[Last(up)]
             l == Len(up)
             q == Append(up, p)
  <2>1. p \in NodesOf(d)
    BY <1>1, <1>3, DocumentFacts
  <2>2. ClimbNext(d, up) = q
    BY <1>3 DEF ClimbNext
  <2>3. p = d.parent[up[l]]
    BY <1>1
  <2> HIDE DEF p
  <2>4. Len(q) = l + 1 /\ (\A i \in 1..l : q[i] = up[i]) /\ q[l + 1] = p
    BY <1>1, <2>1, AppendProperties
  <2> HIDE DEF q
  <2>5. /\ l \in 1..(k + 1) /\ up[1] = n /\ l = k + 1
        /\ \A i \in 1..(l - 1) : up[i + 1] = d.parent[up[i]]
    BY <1>1, <1>3 DEF PathInv
  <2> HIDE DEF l
  <2>6. \A i \in 1..l : q[i + 1] = d.parent[q[i]]
    <3> TAKE i \in 1..l
    <3>1. CASE i = l
      BY <2>3, <2>4, <2>5, <3>1
    <3>2. CASE i # l
      <4>1. i \in 1..(l - 1) /\ i + 1 \in 1..l
        BY <2>5, <3>2
      <4> QED
        BY <2>4, <2>5, <4>1
    <3> QED
      BY <3>1, <3>2
  <2>7. q[1] = n /\ Len(q) \in 1..((k + 1) + 1) /\ Len(q) = (k + 1) + 1 /\ Len(q) - 1 = l
    BY <2>4, <2>5
  <2>8. PathInv(d, n, q, k + 1)
    BY <2>6, <2>7 DEF PathInv
  <2> QED
    BY <2>2, <2>8
<1> QED
  BY <1>2, <1>3

\* What PathUp gives: n, its parent, and so on, up to the node without one
\* unless it goes around for ever.
LEMMA PathFacts ==
  ASSUME NEW d, IsDocument(d), NEW n \in NodesOf(d)
  PROVE  LET up == PathUp(d, n)
         IN  /\ up \in Seq(NodesOf(d)) /\ Len(up) \in Nat \ {0} /\ DOMAIN up = 1..Len(up)
             /\ up[1] = n
             /\ \A i \in 1..(Len(up) - 1) : up[i + 1] = d.parent[up[i]]
             /\ d.parent[up[Len(up)]] = NoNode \/ Len(up) = Cardinality(NodesOf(d)) + 1
             /\ ~EndlessUp(d, n) => d.parent[up[Len(up)]] = NoNode
<1> DEFINE c == Cardinality(NodesOf(d))
           up == PathUp(d, n)
<1>1. PICK f : ClimbSteps(d, n, f) /\ up = f[c]
  BY ClimbIterates
<1>2. c \in Nat
  BY FS_CardinalityType DEF IsDocument
<1>3. \A k \in Nat : PathInv(d, n, f[k], k)
  <2> DEFINE D == {k \in Nat : ~PathInv(d, n, f[k], k)}
  <2> SUFFICES ASSUME D # {} PROVE FALSE
    OBVIOUS
  <2>1. PICK m \in D : \A k \in D : m <= k
    <3>1. D \in SUBSET Nat
      OBVIOUS
    <3> HIDE DEF D
    <3> QED
      BY <3>1, LeastNumber
  <2>2. PathInv(d, n, <<n>>, 0)
    BY DEF PathInv
  <2>3. f[0] = <<n>>
    BY <1>1 DEF ClimbSteps
  <2>4. m # 0 /\ m - 1 \in Nat /\ m - 1 \notin D /\ (m - 1) + 1 = m
    BY <2>1, <2>2, <2>3
  <2>5. f[(m - 1) + 1] = ClimbNext(d, f[m - 1]) /\ f[m - 1] \in Paths(d)
    BY <1>1, <2>4 DEF ClimbSteps
  <2>6. PathInv(d, n, f[m - 1], m - 1)
    BY <2>4
  <2>7. PathInv(d, n, ClimbNext(d, f[m - 1]), (m - 1) + 1)
    BY <2>4, <2>5, <2>6, PathInvNext
  <2> QED
    BY <2>1, <2>4, <2>5, <2>7
<1>4. up \in Paths(d) /\ PathInv(d, n, up, c)
  BY <1>1, <1>2, <1>3 DEF ClimbSteps
<1>5. EndlessUp(d, n) <=> Len(up) > c
  BY DEF EndlessUp
<1> HIDE DEF up, c
<1>6. up \in Seq(NodesOf(d)) /\ Len(up) \in Nat \ {0} /\ DOMAIN up = 1..Len(up)
  BY <1>4, LastFront DEF Paths
<1> QED
  BY <1>2, <1>4, <1>5, <1>6 DEF PathInv, up, c

\* A path that ends meets no node twice.
LEMMA PathInjective ==
  ASSUME NEW d, IsDocument(d), NEW n \in NodesOf(d), ~EndlessUp(d, n)
  PROVE  IsInjective(PathUp(d, n))
<1> DEFINE up == PathUp(d, n)
           L == Len(up)
           N == NodesOf(d)
<1>1. /\ up \in Seq(N) /\ L \in Nat \ {0} /\ DOMAIN up = 1..L
      /\ \A i \in 1..(L - 1) : up[i + 1] = d.parent[up[i]]
      /\ d.parent[up[L]] = NoNode
  BY PathFacts
<1>2. NoNode \notin N
  BY DocumentFacts
<1> HIDE DEF up, L, N
<1>3. ASSUME NEW i \in 1..L, NEW j \in 1..L, i < j, up[i] = up[j]
      PROVE  FALSE
  <2> DEFINE D == {t \in 0..(L - j) : up[i + t] # up[j + t]}
  <2>1. D = {}
    <3> SUFFICES ASSUME D # {} PROVE FALSE
      OBVIOUS
    <3>1. PICK m \in D : \A k \in D : m <= k
      <4>1. D \in SUBSET Nat
        BY <1>1
      <4> HIDE DEF D
      <4> QED
        BY <4>1, LeastNumber
    <3>2. m \in 0..(L - j) /\ up[i + m] # up[j + m]
      BY <3>1
    <3>3. m # 0
      BY <1>3, <3>2
    <3>4. m - 1 \in 0..(L - j) /\ ~(m <= m - 1)
      BY <1>1, <3>2, <3>3
    <3>5. up[i + (m - 1)] = up[j + (m - 1)]
      BY <3>1, <3>4
    <3> HIDE DEF D
    <3>6. /\ i + (m - 1) \in 1..(L - 1) /\ j + (m - 1) \in 1..(L - 1)
          /\ (i + (m - 1)) + 1 = i + m /\ (j + (m - 1)) + 1 = j + m
      BY <1>1, <1>3, <3>2, <3>3
    <3>7. up[i + m] = d.parent[up[i + (m - 1)]] /\ up[j + m] = d.parent[up[j + (m - 1)]]
      BY <1>1, <3>6
    <3> QED
      BY <3>2, <3>5, <3>7
  <2>2. L - j \in 0..(L - j) /\ j + (L - j) = L
    BY <1>1
  <2>3. up[i + (L - j)] = up[L]
    BY <2>1, <2>2
  <2> HIDE DEF D
  <2>4. i + (L - j) \in 1..(L - 1) /\ (i + (L - j)) + 1 \in 1..L
    BY <1>1, <1>3
  <2>5. up[(i + (L - j)) + 1] = NoNode
    BY <1>1, <2>3, <2>4
  <2>6. up[(i + (L - j)) + 1] \in N
    BY <1>1, <2>4
  <2> QED
    BY <1>2, <2>5, <2>6
<1> SUFFICES ASSUME NEW i \in 1..L, NEW j \in 1..L, up[i] = up[j] PROVE i = j
  BY <1>1 DEF IsInjective, up
<1> QED
  BY <1>1, <1>3

\* A set that holds n and the parents of what it holds, holds the path.
LEMMA PathWithin ==
  ASSUME NEW d, IsDocument(d), NEW n \in NodesOf(d), NEW B, n \in B,
         \A x \in B \cap NodesOf(d) : d.parent[x] = NoNode \/ d.parent[x] \in B
  PROVE  Range(PathUp(d, n)) \subseteq B
<1> DEFINE up == PathUp(d, n)
           L == Len(up)
           N == NodesOf(d)
           D == {i \in 1..L : up[i] \notin B}
<1>1. /\ up \in Seq(N) /\ L \in Nat \ {0} /\ DOMAIN up = 1..L /\ up[1] = n
      /\ \A i \in 1..(L - 1) : up[i + 1] = d.parent[up[i]]
  BY PathFacts
<1>2. NoNode \notin N
  BY DocumentFacts
<1> HIDE DEF up, L
<1>3. D = {}
  <2> SUFFICES ASSUME D # {} PROVE FALSE
    OBVIOUS
  <2>1. PICK m \in D : \A k \in D : m <= k
    <3>1. D \in SUBSET Nat
      BY <1>1
    <3> HIDE DEF D
    <3> QED
      BY <3>1, LeastNumber
  <2>2. m \in 1..L /\ up[m] \notin B /\ up[m] \in N
    BY <1>1, <2>1
  <2>3. m # 1
    BY <1>1, <2>2
  <2>4. m - 1 \in 1..L /\ ~(m <= m - 1) /\ m - 1 \in 1..(L - 1) /\ (m - 1) + 1 = m
    BY <1>1, <2>2, <2>3
  <2>5. up[m - 1] \in B /\ up[m - 1] \in N
    BY <1>1, <2>1, <2>4
  <2>6. up[m] = d.parent[up[m - 1]]
    BY <1>1, <2>4
  <2> QED
    BY <1>2, <2>2, <2>5, <2>6
<1> QED
  BY <1>1, <1>3 DEF Range, up

\* The nearest node at or above n with a tag in tags.
LEMMA NearestFacts ==
  ASSUME NEW d, IsDocument(d), NEW n \in NodesOf(d), NEW tags
  PROVE  LET c == NearestTag(d, n, tags)
             up == PathUp(d, n)
         IN \/ c = NoNode /\ \A i \in DOMAIN up : d.tag[up[i]] \notin tags
            \/ \E i \in DOMAIN up : /\ c = up[i] /\ d.tag[c] \in tags
                                    /\ \A j \in DOMAIN up : j < i => d.tag[up[j]] \notin tags
<1> DEFINE up == PathUp(d, n)
           I == {i \in 1..Len(up) : d.tag[up[i]] \in tags}
           m == IF I # {} THEN Min(I) ELSE 0
           c == NearestTag(d, n, tags)
<1>1. Len(up) \in Nat /\ DOMAIN up = 1..Len(up)
  BY PathFacts
<1>2. c = IF m = 0 THEN NoNode ELSE up[m]
  BY DEF NearestTag, SelectInSeq
<1> HIDE DEF up, c
<1>3. CASE I = {}
  BY <1>1, <1>2, <1>3 DEF up, c
<1>4. CASE I # {}
  <2>1. I \in SUBSET Nat
    BY <1>1
  <2>2. Min(I) \in I /\ \A i \in I : Min(I) <= i
    <3> HIDE DEF I
    <3> QED
      BY <1>4, <2>1, MinProperties
  <2>3. m \in I /\ (\A i \in I : m <= i) /\ m # 0
    BY <1>1, <1>4, <2>2
  <2> HIDE DEF m
  <2>4. m \in DOMAIN up /\ c = up[m] /\ d.tag[c] \in tags
    BY <1>1, <1>2, <2>3
  <2>5. \A j \in DOMAIN up : j < m => d.tag[up[j]] \notin tags
    <3> TAKE j \in DOMAIN up
    <3> HAVE j < m
    <3>1. j \notin I
      BY <1>1, <2>3
    <3> QED
      BY <1>1, <3>1
  <2> QED
    BY <2>4, <2>5 DEF up, c
<1> QED
  BY <1>3, <1>4

-----------------------------------------------------------------------------
(* What is attached is closed downwards and upwards, and so is what is      *)
(* below one of its nodes.                                                  *)

LEMMA AttachedFacts ==
  ASSUME NEW d, IsDocument(d)
  PROVE  LET order == TraverseDepthFirst(d, Root)
         IN  /\ order \in Seq(NodesOf(d)) /\ DOMAIN order = 1..Len(order) /\ IsInjective(order)
             /\ Attached(d) = Range(order) /\ Attached(d) \subseteq NodesOf(d)
             /\ Root \in Attached(d) /\ d.parent[Root] = NoNode
             /\ \A x \in Attached(d) : ChildSet(d, x) \subseteq Attached(d)
             /\ \A x \in Attached(d) \ {Root} : d.parent[x] \in Attached(d)
             /\ \A i \in DOMAIN order : order[i] = Root \/
                  \E j \in 1..(i - 1) : order[j] = d.parent[order[i]]
<1>1. Below(d, Root, NodesOf(d)) /\ Root \in NodesOf(d)
  BY RootBelow
<1> DEFINE order == TraverseDepthFirst(d, Root)
<1>2. /\ order \in Seq(NodesOf(d)) /\ IsInjective(order)
      /\ Range(order) \subseteq NodesOf(d) /\ Root \in Range(order)
      /\ \A x \in Range(order) : ChildSet(d, x) \subseteq Range(order)
      /\ \A x \in Range(order) : x = Root \/ d.parent[x] \in Range(order)
      /\ \A i \in DOMAIN order : order[i] = Root \/
           \E j \in 1..(i - 1) : order[j] = d.parent[order[i]]
  BY <1>1, TraverseFacts
<1>3. Attached(d) = Range(order)
  BY DEF Attached
<1>4. d.parent[Root] = NoNode
  BY DocumentFacts
<1> HIDE DEF order
<1>5. DOMAIN order = 1..Len(order)
  BY <1>2
<1> QED
  BY <1>2, <1>3, <1>4, <1>5 DEF order

LEMMA AttachedBelow ==
  ASSUME NEW d, IsDocument(d), NEW n \in Attached(d)
  PROVE  n \in NodesOf(d) /\ \E B \in SUBSET Attached(d) : Below(d, n, B)
<1> DEFINE order == TraverseDepthFirst(d, Root)
           A == Attached(d)
           N == NodesOf(d)
<1>1. /\ order \in Seq(N) /\ DOMAIN order = 1..Len(order) /\ IsInjective(order)
      /\ A = Range(order) /\ A \subseteq N /\ d.parent[Root] = NoNode /\ Root \in A
      /\ \A x \in A : ChildSet(d, x) \subseteq A
      /\ \A i \in DOMAIN order : order[i] = Root \/
           \E j \in 1..(i - 1) : order[j] = d.parent[order[i]]
  BY AttachedFacts
<1>2. NoNode \notin N
  BY DocumentFacts
<1>3. \A x \in N : \A c \in N : c \in ChildSet(d, x) <=> d.parent[c] = x
  BY ChildrenFacts
<1> HIDE DEF order, A, N
<1>4. n \in A
  BY DEF A
<1>5. CASE n = Root
  BY <1>1, <1>2, <1>4, <1>5 DEF Below, A, N
<1>6. CASE n # Root
  <2>1. PICK p \in DOMAIN order : order[p] = n
    BY <1>1, <1>4 DEF Range
  <2> DEFINE B == {order[i] : i \in p..Len(order)}
  <2>2. n \in B /\ B \subseteq A
    BY <1>1, <2>1 DEF Range
  <2>3. Len(order) \in Nat /\ p \in 1..Len(order)
    BY <1>1, <2>1
  <2>4. ASSUME NEW x \in B, NEW c \in ChildSet(d, x)
        PROVE  c \in B
    <3>1. PICK i \in p..Len(order) : x = order[i]
      BY <2>4
    <3>2. x \in A /\ c \in A /\ c \in N /\ x \in N
      BY <1>1, <2>2, <2>4
    <3>3. PICK k \in DOMAIN order : c = order[k]
      BY <1>1, <3>2 DEF Range
    <3>4. d.parent[c] = x
      BY <1>3, <2>4, <3>2
    <3>5. c # Root
      BY <1>1, <1>2, <3>2, <3>4
    <3>6. PICK j \in 1..(k - 1) : order[j] = d.parent[order[k]]
      BY <1>1, <3>3, <3>5
    <3>7. k \in 1..Len(order) /\ i \in 1..Len(order) /\ j \in 1..Len(order) /\ j < k
      BY <1>1, <2>3, <3>1, <3>3, <3>6
    <3>8. order[j] = order[i]
      BY <3>1, <3>3, <3>4, <3>6
    <3>9. j = i
      BY <1>1, <3>7, <3>8 DEF IsInjective
    <3>10. k \in p..Len(order)
      BY <2>3, <3>1, <3>7, <3>9
    <3> QED
      BY <3>3, <3>10
  <2>5. d.parent[n] \notin B
    <3>1. PICK j \in 1..(p - 1) : order[j] = d.parent[n]
      BY <1>1, <1>6, <2>1
    <3> SUFFICES ASSUME NEW i \in p..Len(order), order[i] = d.parent[n] PROVE FALSE
      OBVIOUS
    <3>2. i \in 1..Len(order) /\ j \in 1..Len(order) /\ i # j
      BY <2>3, <3>1
    <3> QED
      BY <1>1, <3>1, <3>2 DEF IsInjective
  <2> HIDE DEF B
  <2>6. B \subseteq N /\ \A x \in B : ChildSet(d, x) \subseteq B
    BY <1>1, <2>2, <2>4
  <2>7. Below(d, n, B)
    BY <2>2, <2>5, <2>6 DEF Below, N
  <2> QED
    BY <1>1, <1>4, <2>2, <2>7 DEF A, N
<1> QED
  BY <1>5, <1>6

LEMMA BelowIsAttached ==
  ASSUME NEW d, IsDocument(d), NEW n \in Attached(d)
  PROVE  Range(TraverseDepthFirst(d, n)) \subseteq Attached(d)
<1>1. PICK B \in SUBSET Attached(d) : n \in NodesOf(d) /\ Below(d, n, B)
  BY AttachedBelow
<1>2. Range(TraverseDepthFirst(d, n)) \subseteq B
  BY <1>1, TraverseFacts
<1> QED
  BY <1>1, <1>2

LEMMA NearestIsAttached ==
  ASSUME NEW d, IsDocument(d), NEW n \in Attached(d), NEW tags
  PROVE  LET c == NearestTag(d, n, tags)
         IN  c = NoNode \/ (c \in Attached(d) /\ d.tag[c] \in tags)
<1> DEFINE A == Attached(d)
           up == PathUp(d, n)
           c == NearestTag(d, n, tags)
<1>1. /\ A \subseteq NodesOf(d) /\ d.parent[Root] = NoNode
      /\ \A x \in A \ {Root} : d.parent[x] \in A
  BY AttachedFacts
<1>2. \A x \in A \cap NodesOf(d) : d.parent[x] = NoNode \/ d.parent[x] \in A
  BY <1>1
<1>3. n \in NodesOf(d)
  BY <1>1
<1>4. Range(up) \subseteq A
  <2> HIDE DEF A
  <2>1. n \in A
    BY DEF A
  <2> QED
    BY <1>2, <1>3, <2>1, PathWithin
<1>5. c = NoNode \/ \E i \in DOMAIN up : c = up[i] /\ d.tag[c] \in tags
  BY <1>3, NearestFacts
<1> QED
  BY <1>4, <1>5 DEF Range

LEMMA OwnerIsAttached ==
  ASSUME NEW d, IsDocument(d), NEW n \in Attached(d)
  PROVE  OwnerForm(d, n) = NoNode \/ OwnerForm(d, n) \in Attached(d)
<1>1. n = Root \/ d.parent[n] \in Attached(d)
  BY AttachedFacts
<1>2. d.parent[Root] = NoNode
  BY AttachedFacts
<1> QED
  BY <1>1, <1>2, NearestIsAttached DEF OwnerForm

-----------------------------------------------------------------------------
(* The screen.                                                              *)

\* Every control that is attached has its state.
Complete(f) ==
  /\ f = [n \in DOMAIN f |-> f[n]]
  /\ {n \in Attached(doc) : IsControl(doc, n)} \subseteq DOMAIN f

LEMMA NothingToEnsure ==
  ASSUME NEW f, Complete(f), NEW ns \in SUBSET Attached(doc)
  PROVE  EnsureAll(doc, f, ns) = f
<1> DEFINE g == EnsureAll(doc, f, ns)
<1>1. /\ g = [n \in DOMAIN g |-> g[n]]
      /\ DOMAIN g = DOMAIN f \cup {n \in ns : IsControl(doc, n)}
      /\ \A n \in DOMAIN f : g[n] = f[n]
  BY DEF EnsureAll
<1>2. f = [n \in DOMAIN f |-> f[n]]
  BY DEF Complete
<1>3. DOMAIN g = DOMAIN f
  BY <1>1 DEF Complete
<1> HIDE DEF g
<1> QED
  BY <1>1, <1>2, <1>3 DEF g

LEMMA RerenderCompletes ==
  ASSUME NEW f, Rerender(f), doc' = doc
  PROVE  painted' = PaintedControls(forms)' /\ Complete(forms)'
<1>1. forms' = EnsureAll(doc, f, Attached(doc)) /\ painted' = PaintedControls(forms')
  BY DEF Rerender
<1>2. /\ forms' = [n \in DOMAIN forms' |-> forms'[n]]
      /\ DOMAIN forms' = DOMAIN f \cup {n \in Attached(doc) : IsControl(doc, n)}
  BY <1>1 DEF EnsureAll
<1> QED
  BY <1>1, <1>2 DEF PaintedControls, Complete

ShownInv == mode = "shown" => painted = PaintedControls(forms) /\ Complete(forms)

\* Nothing but Show makes the page shown.
LEMMA RuntimeNotShown == RuntimeNext => mode # "shown" /\ mode' # "shown"
<1> SUFFICES ASSUME RuntimeNext PROVE mode # "shown" /\ mode' # "shown"
  OBVIOUS
<1> USE DEF Running, Api, Mutates, Controls
<1>1. CASE Call
  <2>1. CASE CreateNode \/ AppendChildCall \/ RemoveChildCall \/ SetText
    BY <2>1 DEF CreateNode, AppendChildCall, RemoveChildCall, SetText
  <2>2. CASE SetInnerHtml \/ SetAttributeCall \/ Hangs
    BY <2>2 DEF SetInnerHtml, SetAttributeCall, Hangs
  <2>3. CASE AddListener \/ RemoveListener \/ OnEvent \/ SubmitCall
    BY <2>3 DEF AddListener, RemoveListener, OnEvent, SubmitCall
  <2>4. CASE ReadControl \/ SetChecked \/ SetValue
    BY <2>4 DEF ReadControl, SetChecked, SetValue
  <2>5. CASE SetSelected \/ SetDisabled \/ SetIndex
    BY <2>5 DEF SetSelected, SetDisabled, SetIndex
  <2>6. CASE SetTimeout \/ ClearTimeout
    BY <2>6 DEF SetTimeout, ClearTimeout
  <2> QED
    BY <1>1, <2>1, <2>2, <2>3, <2>4, <2>5, <2>6 DEF Call
<1>2. CASE Return \/ Throw \/ RunScript \/ RunPendingTimers \/ RunTimer \/ DrainEnds
  BY <1>2 DEF Return, Throw, RunScript, RunPendingTimers, RunTimer, DrainEnds
<1>3. CASE DispatchEvent \/ Visit \/ CallListener \/ DispatchEnds
  BY <1>3 DEF DispatchEvent, Visit, CallListener, DispatchEnds
<1> QED
  BY <1>1, <1>2, <1>3 DEF RuntimeNext

\* A click that changes no control leaves the states as they are.
LEMMA ClickActionFacts ==
  ASSUME IsDocument(doc), Complete(forms), NEW n \in Attached(doc)
  PROVE  LET act == ClickAction(doc, forms, n)
         IN  /\ act.did \in {"none", "submit", "changed"}
             /\ act.did \in {"none", "submit"} => act.forms = forms
             /\ act.did = "submit" => act.form \in Attached(doc)
<1> DEFINE c == ClickedControl(doc, n)
           f == Ensure(doc, forms, c)
           form == OwnerForm(doc, c)
           act == ClickAction(doc, forms, n)
<1>1. CASE c = NoNode
  BY <1>1 DEF ClickAction
<1>2. CASE c # NoNode
  <2>1. c \in Attached(doc)
    BY <1>2, NearestIsAttached DEF ClickedControl
  <2>2. f = forms
    <3> HIDE DEF c
    <3> QED
      BY <2>1, NothingToEnsure DEF Ensure
  <2>3. form = NoNode \/ form \in Attached(doc)
    <3> HIDE DEF c
    <3> QED
      BY <2>1, OwnerIsAttached
  <2>4. act.did \in {"none", "submit"} => act.forms = f
    BY <1>2 DEF ClickAction
  <2>5. act.did \in {"none", "submit", "changed"} /\ (act.did = "submit" => act.form = form /\ form # NoNode)
    BY <1>2 DEF ClickAction
  <2> HIDE DEF act, f, form, c
  <2> QED
    BY <2>2, <2>3, <2>4, <2>5 DEF act
<1> QED
  BY <1>1, <1>2

LEMMA ShownNext == DocumentInv /\ ShownInv /\ [Next]_vars => ShownInv'
<1> SUFFICES ASSUME DocumentInv, ShownInv, [Next]_vars PROVE ShownInv'
  OBVIOUS
<1>1. CASE RuntimeNext
  BY <1>1, RuntimeNotShown DEF ShownInv
<1>2. CASE Show
  <2>1. Rerender(forms) /\ doc' = doc
    BY <1>2 DEF Show
  <2> QED
    BY <2>1, RerenderCompletes DEF ShownInv
<1>3. ASSUME mode = "shown", UNCHANGED <<mode, doc, forms, painted>>
      PROVE  ShownInv'
  BY <1>3 DEF ShownInv, Complete, PaintedControls
<1>4. CASE Click
  <2>1. mode = "shown" /\ doc' = doc /\ mode' = mode
    BY <1>4 DEF Click, User, Keep
  <2>2. PICK n \in Attached(doc) \ Unpainted :
          LET act == ClickAction(doc, forms, n)
              f == act.forms
          IN  CASE act.did = "changed" -> Rerender(f) /\ sent' = Nothing
               [] act.did = "submit" -> Submit(f, act.form, act.submitter) /\ UNCHANGED painted
               [] act.did = "none" -> forms' = f /\ sent' = LinkOf(n) /\ UNCHANGED painted
    BY <1>4 DEF Click
  <2> DEFINE act == ClickAction(doc, forms, n)
  <2>3. /\ act.did \in {"none", "submit", "changed"}
        /\ act.did \in {"none", "submit"} => act.forms = forms
        /\ act.did = "submit" => act.form \in Attached(doc)
    BY <2>1, ClickActionFacts DEF DocumentInv, ShownInv
  <2>4. /\ act.did = "changed" => Rerender(act.forms)
        /\ act.did = "submit" => Submit(act.forms, act.form, act.submitter) /\ UNCHANGED painted
        /\ act.did = "none" => forms' = act.forms /\ UNCHANGED painted
    BY <2>2
  <2> HIDE DEF act
  <2>5. CASE act.did = "changed"
    BY <2>1, <2>4, <2>5, RerenderCompletes DEF ShownInv
  <2>6. CASE act.did = "none"
    BY <1>3, <2>1, <2>3, <2>4, <2>6
  <2>7. CASE act.did = "submit"
    <3>1. Range(TraverseDepthFirst(doc, act.form)) \subseteq Attached(doc)
      BY <2>3, <2>7, BelowIsAttached DEF DocumentInv
    <3>2. EnsureAll(doc, forms, Range(TraverseDepthFirst(doc, act.form))) = forms
      BY <2>1, <3>1, NothingToEnsure DEF ShownInv
    <3>3. forms' = forms
      BY <2>3, <2>4, <2>7, <3>2 DEF Submit
    <3> QED
      BY <1>3, <2>1, <2>4, <2>7, <3>3
  <2> QED
    BY <2>3, <2>5, <2>6, <2>7
<1>5. CASE ClickNowhere
  BY <1>3, <1>5 DEF ClickNowhere, User, Keep
<1>6. ASSUME NEW v, Edit(v) PROVE ShownInv'
  <2>1. Rerender([forms EXCEPT ![focus].value = v]) /\ doc' = doc
    BY <1>6 DEF Edit, Keep
  <2> QED
    BY <2>1, RerenderCompletes DEF ShownInv
<1>7. CASE InputText \/ Backspace
  BY <1>6, <1>7 DEF InputText, Backspace
<1>8. CASE UNCHANGED vars
  <2>1. UNCHANGED <<mode, doc, forms, painted>>
    BY <1>8 DEF vars, rt, shell
  <2> QED
    BY <1>3, <2>1 DEF ShownInv
<1> QED
  BY <1>1, <1>2, <1>4, <1>5, <1>7, <1>8 DEF Next

\* The screen shows the control states as they are, whatever the user clicks
\* and types: what changes a state paints the page again, and what is painted
\* makes no state (desktop lib.rs, rerender).
THEOREM ScreenStaysCurrent == Spec => []ScreenCurrent
<1>1. Init => ShownInv
  BY DEF Init, RuntimeInit, ShownInv
<1>2. ShownInv => ScreenCurrent
  BY DEF ShownInv, ScreenCurrent
<1>3. Spec => []ShownInv
  BY <1>1, DocumentHolds, ShownNext, PTL DEF Spec
<1> QED
  BY <1>2, <1>3, PTL

-----------------------------------------------------------------------------
(* The flow of an event.                                                    *)

Registration == [id : Nat, node : Nat, type : Types, capture : BOOLEAN, cb : Callbacks]
Stop == [node : Nat, capture : BOOLEAN]
Doings == SUBSET {"prevent", "stop", "immediate"}
CalledOnce == [id : Nat, node : Nat, capture : BOOLEAN, does : Doings]

SamePlace(x, y) == x.node = y.node /\ x.capture = y.capture
Follows(x, y) == x.capture \/ ~y.capture
Increasing(s) == \A i, j \in DOMAIN s : i < j => s[i].id < s[j].id

\* The visits to come are of places of their own, the capturing ones first.
VisitsApart(v) == \A i, j \in DOMAIN v : i < j => ~SamePlace(v[i], v[j]) /\ Follows(v[i], v[j])

\* The listeners called are: FlowKept.
CalledInOrder(c) ==
  \A i, j \in DOMAIN c :
    i < j => /\ SamePlace(c[i], c[j]) => c[i].id < c[j].id
             /\ Follows(c[i], c[j])
             /\ "immediate" \notin c[i].does
             /\ "stop" \in c[i].does => c[i].node = c[j].node

(* Of the registrations ls, the queue q, the calls c, the visits to come v, *)
(* where the event was stopped (st), whether at once (im), and the number n *)
(* of calls of the interface, from which the ids are taken.                 *)
FlowTypes(ls, q, c, v, st, im, n) ==
  /\ ls \in Seq(Registration) /\ q \in Seq(Registration) /\ c \in Seq(CalledOnce)
  /\ v \in Seq(Stop) /\ st \in Nat \cup {NoNode} /\ im \in BOOLEAN /\ n \in Nat

\* An id is given once: whatever has it is the same registration.
IdsKept(R, n) ==
  /\ \A x \in R : x.id < n
  /\ \A x, y \in R : x.id = y.id => SamePlace(x, y)

Flow(ls, q, c, v, st, im, n) ==
  /\ Increasing(ls) /\ Increasing(q) /\ VisitsApart(v) /\ CalledInOrder(c)
  /\ IdsKept(Range(ls) \cup Range(q) \cup Range(c), n)
  /\ \A x, y \in Range(q) : SamePlace(x, y)
  /\ \A x \in Range(q) \cup Range(c) : \A w \in Range(v) : ~SamePlace(x, w) /\ Follows(x, w)
  /\ \A x \in Range(c) : \A y \in Range(q) : Follows(x, y) /\ (SamePlace(x, y) => x.id < y.id)
  /\ \A x \in Range(c) : /\ "stop" \in x.does => st = x.node
                         /\ "immediate" \in x.does => im
  /\ st # NoNode => \A y \in Range(q) : y.node = st

\* While a listener runs it is the last that was called, and the event was
\* stopped nowhere but at its node.
Listening(q, c, st) ==
  /\ c # << >>
  /\ \A y \in Range(q) : SamePlace(Last(c), y)
  /\ st # NoNode => Last(c).node = st

Events == [type : Types \cup {"none"}, target : Nat, bubbles : {TRUE}, cancelable : {TRUE},
           prevented : BOOLEAN, immediate : BOOLEAN, stopped : Nat \cup {NoNode}]
Dispatches == [ev : Events, visits : Seq(Stop), queue : Seq(Registration),
               called : Seq(CalledOnce), before : Seq(Registration), path : Seq(Stop),
               changed : BOOLEAN, threw : BOOLEAN]

FlowInv ==
  /\ steps \in Nat /\ listeners \in Seq(Registration) /\ disp \in Dispatches
  /\ Flow(listeners, disp.queue, disp.called, disp.visits, disp.ev.stopped, disp.ev.immediate, steps)
  /\ mode = "listener" => Listening(disp.queue, disp.called, disp.ev.stopped)

\* A sequence without its first element.
LEMMA TailFacts ==
  ASSUME NEW T, NEW s \in Seq(T), s # << >>
  PROVE  /\ Tail(s) \in Seq(T) /\ Head(s) \in T /\ Head(s) = s[1] /\ 1 \in DOMAIN s
         /\ \A i \in DOMAIN Tail(s) : i \in Nat /\ i + 1 \in DOMAIN s /\ i + 1 > 1 /\ Tail(s)[i] = s[i + 1]
         /\ Range(Tail(s)) \subseteq Range(s) /\ Head(s) \in Range(s)
<1>1. Len(s) \in Nat \ {0} /\ DOMAIN s = 1..Len(s)
  BY EmptySeq
<1>2. /\ Tail(s) \in Seq(T) /\ Len(Tail(s)) = Len(s) - 1 /\ Head(s) = s[1]
      /\ \A i \in 1..(Len(s) - 1) : Tail(s)[i] = s[i + 1]
  BY HeadTailProperties
<1>3. DOMAIN Tail(s) = 1..(Len(s) - 1)
  BY <1>1, <1>2
<1> QED
  BY <1>1, <1>2, <1>3 DEF Range

LEMMA FlowVisits ==
  ASSUME NEW ls, NEW c, NEW v, NEW st, NEW im, NEW n, NEW r,
         FlowTypes(ls, << >>, c, v, st, im, n), Flow(ls, << >>, c, v, st, im, n), v # << >>,
         r \in Seq(Registration), Increasing(r),
         \A x \in Range(r) : x \in Range(ls) /\ SamePlace(x, Head(v)),
         st # NoNode => \A x \in Range(r) : x.node = st
  PROVE  Flow(ls, r, c, Tail(v), st, im, n)
<1> USE DEF FlowTypes
<1> DEFINE h == Head(v)
           t == Tail(v)
<1>1. /\ t \in Seq(Stop) /\ h \in Stop /\ h = v[1] /\ 1 \in DOMAIN v
      /\ \A i \in DOMAIN t : i \in Nat /\ i + 1 \in DOMAIN v /\ i + 1 > 1 /\ t[i] = v[i + 1]
      /\ Range(t) \subseteq Range(v) /\ h \in Range(v)
  BY TailFacts
<1>2. /\ Increasing(ls) /\ VisitsApart(v) /\ CalledInOrder(c)
      /\ IdsKept(Range(ls) \cup Range(<< >>) \cup Range(c), n)
      /\ \A x \in Range(c) : \A w \in Range(v) : ~SamePlace(x, w) /\ Follows(x, w)
      /\ \A x \in Range(c) : /\ "stop" \in x.does => st = x.node
                             /\ "immediate" \in x.does => im
  BY DEF Flow
<1>3. \A x \in Range(r) : x \in Range(ls) /\ SamePlace(x, h)
  OBVIOUS
<1> HIDE DEF h, t
<1>4. VisitsApart(t)
  BY <1>1, <1>2 DEF VisitsApart
<1>5. \A w \in Range(t) : ~SamePlace(h, w) /\ Follows(h, w)
  BY <1>1, <1>2 DEF VisitsApart, Range
<1>6. IdsKept(Range(ls) \cup Range(r) \cup Range(c), n)
  BY <1>2, <1>3 DEF IdsKept
<1>7. \A x, y \in Range(r) : SamePlace(x, y)
  BY <1>3 DEF SamePlace
<1>8. \A x \in Range(r) : \A w \in Range(t) : ~SamePlace(x, w) /\ Follows(x, w)
  BY <1>3, <1>5 DEF SamePlace, Follows
<1>9. \A x \in Range(c) : \A y \in Range(r) : Follows(x, y) /\ ~SamePlace(x, y)
  BY <1>1, <1>2, <1>3 DEF SamePlace, Follows
<1>10. \A x \in Range(c) : \A w \in Range(t) : ~SamePlace(x, w) /\ Follows(x, w)
  BY <1>1, <1>2
<1> QED
  BY <1>2, <1>4, <1>6, <1>7, <1>8, <1>9, <1>10 DEF Flow, t

\* The call of the listener x.
CallOf(x) == [id |-> x.id, node |-> x.node, capture |-> x.capture, does |-> {}]

LEMMA FlowCalls ==
  ASSUME NEW ls, NEW q, NEW c, NEW v, NEW st, NEW n,
         FlowTypes(ls, q, c, v, st, FALSE, n), Flow(ls, q, c, v, st, FALSE, n), q # << >>
  PROVE  LET d == Append(c, CallOf(Head(q)))
         IN  /\ FlowTypes(ls, Tail(q), d, v, st, FALSE, n)
             /\ Flow(ls, Tail(q), d, v, st, FALSE, n)
             /\ Listening(Tail(q), d, st)
<1> DEFINE h == Head(q)
           t == Tail(q)
           k == CallOf(h)
           d == Append(c, k)
           m == Len(c)
<1>0. /\ ls \in Seq(Registration) /\ q \in Seq(Registration) /\ c \in Seq(CalledOnce)
      /\ v \in Seq(Stop) /\ st \in Nat \cup {NoNode} /\ n \in Nat
  BY DEF FlowTypes
<1>1. /\ t \in Seq(Registration) /\ h \in Registration /\ h = q[1] /\ 1 \in DOMAIN q
      /\ \A i \in DOMAIN t : i \in Nat /\ i + 1 \in DOMAIN q /\ i + 1 > 1 /\ t[i] = q[i + 1]
      /\ Range(t) \subseteq Range(q) /\ h \in Range(q)
  BY <1>0, TailFacts
<1>2. k \in CalledOnce /\ k.id = h.id /\ SamePlace(k, h) /\ k.does = {}
  BY <1>1 DEF CallOf, SamePlace, Registration, CalledOnce, Doings
<1> HIDE DEF h, t, k
<1>3. /\ d \in Seq(CalledOnce) /\ DOMAIN d = 1..(m + 1) /\ m \in Nat /\ DOMAIN c = 1..m
      /\ \A i \in 1..m : d[i] = c[i]
      /\ d[m + 1] = k /\ Last(d) = k /\ d # << >>
  <2>1. d \in Seq(CalledOnce) /\ Len(d) = m + 1 /\ d # << >> /\ (\A i \in 1..m : d[i] = c[i]) /\ d[m + 1] = k
    BY <1>0, <1>2, AppendProperties
  <2>2. m \in Nat /\ DOMAIN c = 1..m
    BY <1>0
  <2> HIDE DEF d, m
  <2>3. Last(d) = d[Len(d)]
    BY <2>1, LastFront
  <2>4. DOMAIN d = 1..Len(d)
    BY <2>1
  <2> QED
    BY <2>1, <2>2, <2>3, <2>4
<1>4. /\ Increasing(ls) /\ Increasing(q) /\ VisitsApart(v) /\ CalledInOrder(c)
      /\ IdsKept(Range(ls) \cup Range(q) \cup Range(c), n)
      /\ \A x, y \in Range(q) : SamePlace(x, y)
      /\ \A x \in Range(q) \cup Range(c) : \A w \in Range(v) : ~SamePlace(x, w) /\ Follows(x, w)
      /\ \A x \in Range(c) : \A y \in Range(q) : Follows(x, y) /\ (SamePlace(x, y) => x.id < y.id)
      /\ \A x \in Range(c) : /\ "stop" \in x.does => st = x.node
                             /\ "immediate" \in x.does => FALSE
      /\ st # NoNode => \A y \in Range(q) : y.node = st
  BY DEF Flow
<1> HIDE DEF d, m
<1>5. Range(d) = Range(c) \cup {k}
  BY <1>3 DEF Range
<1>6. \A i \in 1..m : c[i] \in Range(c) /\ c[i] \in CalledOnce
  <2>1. \A i \in DOMAIN c : c[i] \in CalledOnce
    BY <1>0
  <2> QED
    BY <1>3, <2>1 DEF Range
<1>7. Increasing(t)
  BY <1>1, <1>4 DEF Increasing
<1>8. \A y \in Range(t) : h.id < y.id
  BY <1>1, <1>4 DEF Increasing, Range
<1>9. CalledInOrder(d)
  <2>1. ASSUME NEW i \in 1..m
        PROVE  /\ SamePlace(c[i], k) => c[i].id < k.id
               /\ Follows(c[i], k)
               /\ "immediate" \notin c[i].does
               /\ "stop" \in c[i].does => c[i].node = k.node
    <3>1. c[i] \in Range(c) /\ c[i].node # NoNode
      BY <1>6 DEF CalledOnce, NoNode
    <3>2. /\ SamePlace(c[i], h) => c[i].id < h.id
          /\ Follows(c[i], h)
          /\ "immediate" \notin c[i].does
          /\ "stop" \in c[i].does => c[i].node = h.node
      BY <1>1, <1>4, <3>1
    <3> QED
      BY <1>2, <3>2 DEF SamePlace, Follows
  <2>2. ASSUME NEW i \in 1..(m + 1), NEW j \in 1..(m + 1), i < j
        PROVE  /\ SamePlace(d[i], d[j]) => d[i].id < d[j].id
               /\ Follows(d[i], d[j])
               /\ "immediate" \notin d[i].does
               /\ "stop" \in d[i].does => d[i].node = d[j].node
    <3>1. i \in 1..m /\ (j \in 1..m \/ j = m + 1)
      BY <1>3, <2>2
    <3>2. CASE j = m + 1
      BY <1>3, <2>1, <3>1, <3>2
    <3>3. CASE j \in 1..m
      <4>1. d[i] = c[i] /\ d[j] = c[j] /\ i \in DOMAIN c /\ j \in DOMAIN c
        BY <1>3, <3>1, <3>3
      <4> QED
        BY <1>4, <2>2, <4>1 DEF CalledInOrder
    <3> QED
      BY <3>1, <3>2, <3>3
  <2> QED
    BY <1>3, <2>2 DEF CalledInOrder
<1>10. IdsKept(Range(ls) \cup Range(t) \cup Range(d), n)
  <2> DEFINE R == Range(ls) \cup Range(q) \cup Range(c)
             S == Range(ls) \cup Range(t) \cup Range(d)
  <2>1. S \subseteq R \cup {k} /\ h \in R
    BY <1>1, <1>5
  <2>2. \A x \in R : x.id < n
    BY <1>4 DEF IdsKept
  <2>3. \A x, y \in R : x.id = y.id => SamePlace(x, y)
    BY <1>4 DEF IdsKept
  <2> HIDE DEF R, S
  <2>4. \A x \in S : x.id < n
    BY <1>2, <2>1, <2>2
  <2>5. ASSUME NEW x \in S, NEW y \in S, x.id = y.id
        PROVE  SamePlace(x, y)
    <3>1. (x \in R \/ x = k) /\ (y \in R \/ y = k)
      BY <2>1
    <3>2. CASE x \in R /\ y \in R
      BY <2>3, <2>5, <3>2
    <3>3. CASE x \in R /\ y = k
      <4>1. SamePlace(x, h)
        BY <1>2, <2>1, <2>3, <2>5, <3>3
      <4> QED
        BY <1>2, <3>3, <4>1 DEF SamePlace
    <3>4. CASE x = k /\ y \in R
      <4>1. SamePlace(h, y)
        BY <1>2, <2>1, <2>3, <2>5, <3>4
      <4> QED
        BY <1>2, <3>4, <4>1 DEF SamePlace
    <3>5. CASE x = k /\ y = k
      BY <3>5 DEF SamePlace
    <3> QED
      BY <3>1, <3>2, <3>3, <3>4, <3>5
  <2> QED
    BY <2>4, <2>5 DEF IdsKept, S
<1>11. \A x, y \in Range(t) : SamePlace(x, y)
  BY <1>1, <1>4
<1>12. \A x \in Range(t) \cup Range(d) : \A w \in Range(v) : ~SamePlace(x, w) /\ Follows(x, w)
  <2>1. \A w \in Range(v) : ~SamePlace(k, w) /\ Follows(k, w)
    BY <1>1, <1>2, <1>4 DEF SamePlace, Follows
  <2> QED
    BY <1>1, <1>4, <1>5, <2>1
<1>13. \A x \in Range(d) : \A y \in Range(t) : Follows(x, y) /\ (SamePlace(x, y) => x.id < y.id)
  <2>1. \A y \in Range(t) : Follows(k, y) /\ k.id < y.id
    <3> TAKE y \in Range(t)
    <3>1. SamePlace(h, y) /\ h.id < y.id
      BY <1>1, <1>4, <1>8
    <3> QED
      BY <1>2, <3>1 DEF SamePlace, Follows
  <2> QED
    BY <1>1, <1>4, <1>5, <2>1
<1>14. \A x \in Range(d) : /\ "stop" \in x.does => st = x.node
                           /\ "immediate" \in x.does => FALSE
  BY <1>2, <1>4, <1>5
<1>15. Flow(ls, t, d, v, st, FALSE, n)
  BY <1>1, <1>4, <1>7, <1>9, <1>10, <1>11, <1>12, <1>13, <1>14 DEF Flow
<1>16. FlowTypes(ls, t, d, v, st, FALSE, n)
  BY <1>0, <1>1, <1>3 DEF FlowTypes
<1>17. Listening(t, d, st)
  <2>1. \A y \in Range(t) : SamePlace(k, y)
    BY <1>1, <1>2, <1>4 DEF SamePlace
  <2>2. st # NoNode => k.node = st
    BY <1>1, <1>2, <1>4 DEF SamePlace
  <2> QED
    BY <1>3, <2>1, <2>2 DEF Listening
<1> QED
  BY <1>15, <1>16, <1>17 DEF t, d, k, h

LEMMA IdsAreNumbers ==
  ASSUME NEW ls, NEW q, NEW c, NEW v, NEW st, NEW im, NEW n, FlowTypes(ls, q, c, v, st, im, n)
  PROVE  \A y \in Range(ls) \cup Range(q) \cup Range(c) : y.id \in Int
<1>1. Range(ls) \in SUBSET Registration /\ Range(q) \in SUBSET Registration
      /\ Range(c) \in SUBSET CalledOnce
  BY RangeOfSeq DEF FlowTypes
<1>2. \A y \in Registration \cup CalledOnce : y.id \in Int
  BY DEF Registration, CalledOnce
<1> QED
  BY <1>1, <1>2

\* Where, and whether at once, the event is stopped when the listener at node
\* does x.
StopAt(x, st, node) == IF x \in {"stop", "immediate"} /\ st = NoNode THEN node ELSE st
AtOnce(x, im) == im \/ x = "immediate"

\* The calls d are the calls c, of which the last does x besides.
LastDoes(c, d, x) ==
  /\ d \in Seq(CalledOnce) /\ Len(d) = Len(c)
  /\ \A i \in 1..Len(c) : d[i].id = c[i].id /\ SamePlace(d[i], c[i])
  /\ \A i \in 1..(Len(c) - 1) : d[i] = c[i]
  /\ d[Len(c)].does = c[Len(c)].does \cup {x}

\* The listener that runs does x to the event.
LEMMA FlowEffects ==
  ASSUME NEW ls, NEW q, NEW c, NEW v, NEW st, NEW im, NEW n, NEW x, NEW d, NEW st1, NEW im1,
         FlowTypes(ls, q, c, v, st, im, n), Flow(ls, q, c, v, st, im, n), Listening(q, c, st),
         LastDoes(c, d, x),
         st1 = StopAt(x, st, Last(c).node), im1 = AtOnce(x, im)
  PROVE  FlowTypes(ls, q, d, v, st1, im1, n + 1) /\ Flow(ls, q, d, v, st1, im1, n + 1)
         /\ Listening(q, d, st1)
<1> DEFINE m == Len(c)
<1>0. /\ ls \in Seq(Registration) /\ q \in Seq(Registration) /\ c \in Seq(CalledOnce)
      /\ v \in Seq(Stop) /\ st \in Nat \cup {NoNode} /\ im \in BOOLEAN /\ n \in Nat
  BY DEF FlowTypes
<1> USE DEF StopAt, AtOnce
<1>1. c # << >> /\ (\A y \in Range(q) : SamePlace(Last(c), y)) /\ (st # NoNode => Last(c).node = st)
  BY DEF Listening
<1>2. m \in Nat \ {0} /\ Last(c) = c[m] /\ DOMAIN c = 1..m /\ Last(c) \in CalledOnce
  BY <1>0, <1>1, LastFront
<1>3. DOMAIN d = 1..m /\ d # << >> /\ Last(d) = d[m]
  <2>1. Len(d) = m /\ d \in Seq(CalledOnce)
    BY DEF LastDoes
  <2> HIDE DEF m
  <2>2. DOMAIN d = 1..m /\ d # << >>
    BY <1>2, <2>1
  <2> QED
    BY <2>1, <2>2, LastFront
<1>4. /\ \A i \in 1..m : d[i].id = c[i].id /\ SamePlace(d[i], c[i])
      /\ \A i \in 1..(m - 1) : d[i] = c[i]
      /\ d[m].does = c[m].does \cup {x} /\ d \in Seq(CalledOnce)
  BY DEF LastDoes
<1> HIDE DEF m
<1>5. /\ Increasing(ls) /\ Increasing(q) /\ VisitsApart(v) /\ CalledInOrder(c)
      /\ IdsKept(Range(ls) \cup Range(q) \cup Range(c), n)
      /\ \A y, z \in Range(q) : SamePlace(y, z)
      /\ \A y \in Range(q) \cup Range(c) : \A w \in Range(v) : ~SamePlace(y, w) /\ Follows(y, w)
      /\ \A y \in Range(c) : \A z \in Range(q) : Follows(y, z) /\ (SamePlace(y, z) => y.id < z.id)
      /\ \A y \in Range(c) : /\ "stop" \in y.does => st = y.node
                             /\ "immediate" \in y.does => im
      /\ st # NoNode => \A y \in Range(q) : y.node = st
  BY DEF Flow
<1>6. \A i \in 1..m : c[i] \in Range(c)
  BY <1>2 DEF Range
<1>7. \A y \in Range(d) : \E z \in Range(c) : y.id = z.id /\ SamePlace(y, z)
  BY <1>2, <1>3, <1>4, <1>6 DEF Range
<1>8. CalledInOrder(d)
  <2>1. ASSUME NEW i \in 1..m, NEW j \in 1..m, i < j
        PROVE  /\ SamePlace(d[i], d[j]) => d[i].id < d[j].id
               /\ Follows(d[i], d[j])
               /\ "immediate" \notin d[i].does
               /\ "stop" \in d[i].does => d[i].node = d[j].node
    <3>1. /\ SamePlace(c[i], c[j]) => c[i].id < c[j].id
          /\ Follows(c[i], c[j])
          /\ "immediate" \notin c[i].does
          /\ "stop" \in c[i].does => c[i].node = c[j].node
      BY <1>2, <1>5, <2>1 DEF CalledInOrder
    <3>2. d[i] = c[i] /\ d[j].id = c[j].id /\ SamePlace(d[j], c[j])
      BY <1>2, <1>4, <2>1
    <3> QED
      BY <3>1, <3>2 DEF SamePlace, Follows
  <2> QED
    BY <1>3, <2>1 DEF CalledInOrder
<1>9. IdsKept(Range(ls) \cup Range(q) \cup Range(d), n + 1)
  <2> DEFINE R == Range(ls) \cup Range(q) \cup Range(c)
             S == Range(ls) \cup Range(q) \cup Range(d)
  <2>1. /\ \A y \in R : y.id < n
        /\ \A y, z \in R : y.id = z.id => SamePlace(y, z)
    BY <1>5 DEF IdsKept
  <2>2. ASSUME NEW y \in S PROVE \E z \in R : y.id = z.id /\ SamePlace(y, z)
    BY <1>7 DEF SamePlace
  <2>3. \A y \in R : y.id \in Int
    BY IdsAreNumbers
  <2> HIDE DEF R, S
  <2>4. \A y \in S : y.id < n + 1
    BY <1>0, <2>1, <2>2, <2>3
  <2>5. \A y, z \in S : y.id = z.id => SamePlace(y, z)
    <3> SUFFICES ASSUME NEW y \in S, NEW z \in S, y.id = z.id PROVE SamePlace(y, z)
      OBVIOUS
    <3>1. PICK y1 \in R : y.id = y1.id /\ SamePlace(y, y1)
      BY <2>2
    <3>2. PICK z1 \in R : z.id = z1.id /\ SamePlace(z, z1)
      BY <2>2
    <3>3. SamePlace(y1, z1)
      BY <2>1, <3>1, <3>2
    <3> QED
      BY <3>1, <3>2, <3>3 DEF SamePlace
  <2> QED
    BY <2>4, <2>5 DEF IdsKept, S
<1>10. \A y \in Range(q) \cup Range(d) : \A w \in Range(v) : ~SamePlace(y, w) /\ Follows(y, w)
  <2>1. ASSUME NEW y \in Range(d), NEW w \in Range(v) PROVE ~SamePlace(y, w) /\ Follows(y, w)
    <3>1. PICK z \in Range(c) : SamePlace(y, z)
      BY <1>7
    <3>2. ~SamePlace(z, w) /\ Follows(z, w)
      BY <1>5
    <3> QED
      BY <3>1, <3>2 DEF SamePlace, Follows
  <2> QED
    BY <1>5, <2>1
<1>11. \A y \in Range(d) : \A z \in Range(q) : Follows(y, z) /\ (SamePlace(y, z) => y.id < z.id)
  <2> SUFFICES ASSUME NEW y \in Range(d), NEW z \in Range(q)
               PROVE  Follows(y, z) /\ (SamePlace(y, z) => y.id < z.id)
    OBVIOUS
  <2>1. PICK y1 \in Range(c) : y.id = y1.id /\ SamePlace(y, y1)
    BY <1>7
  <2>2. Follows(y1, z) /\ (SamePlace(y1, z) => y1.id < z.id)
    BY <1>5
  <2> QED
    BY <2>1, <2>2 DEF SamePlace, Follows
<1>12. st1 = NoNode \/ st1 = Last(c).node
  BY <1>1
<1>13. Last(c).node \in Nat /\ Last(c).node # NoNode /\ d[m].node = Last(c).node
  BY <1>2, <1>4 DEF CalledOnce, SamePlace, NoNode
<1>14. ASSUME NEW y \in Range(d)
       PROVE  /\ "stop" \in y.does => st1 = y.node
              /\ "immediate" \in y.does => im1
  <2>1. PICK i \in 1..m : y = d[i]
    BY <1>3 DEF Range
  <2>2. /\ "stop" \in c[i].does => st = c[i].node
        /\ "immediate" \in c[i].does => im
        /\ c[i].node = d[i].node /\ c[i].node # NoNode
    <3>1. c[i] \in CalledOnce
      BY <1>0, <1>2, <2>1
    <3> QED
      BY <1>4, <1>5, <1>6, <3>1 DEF SamePlace, CalledOnce, NoNode
  <2>3. CASE i # m
    <3>1. d[i] = c[i]
      BY <1>2, <1>4, <2>3
    <3> QED
      BY <2>1, <2>2, <3>1
  <2>4. CASE i = m
    <3>1. y.does = c[m].does \cup {x} /\ y.node = Last(c).node
      BY <1>4, <1>13, <2>1, <2>4
    <3>2. CASE "stop" \in c[m].does
      BY <1>13, <2>2, <2>4, <3>1, <3>2
    <3>3. CASE x = "stop"
      BY <1>1, <1>13, <3>1, <3>3, <2>2, <2>4
    <3>4. "immediate" \in y.does => im1
      BY <2>2, <2>4, <3>1
    <3> QED
      BY <3>1, <3>2, <3>3, <3>4
  <2> QED
    BY <2>3, <2>4
<1>15. st1 # NoNode => \A y \in Range(q) : y.node = st1
  BY <1>1, <1>12 DEF SamePlace
<1>16. Flow(ls, q, d, v, st1, im1, n + 1)
  BY <1>5, <1>8, <1>9, <1>10, <1>11, <1>14, <1>15 DEF Flow
<1>17. FlowTypes(ls, q, d, v, st1, im1, n + 1)
  BY <1>0, <1>4, <1>12, <1>13 DEF FlowTypes
<1>18. Listening(q, d, st1)
  <2>1. \A y \in Range(q) : SamePlace(d[m], y)
    BY <1>1, <1>2, <1>4 DEF SamePlace
  <2> QED
    BY <1>3, <1>12, <1>13, <2>1 DEF Listening
<1> QED
  BY <1>16, <1>17, <1>18

\* A listener is added, or nothing but the number of calls changes.
LEMMA FlowAdds ==
  ASSUME NEW ls, NEW q, NEW c, NEW v, NEW st, NEW im, NEW n, NEW l \in Registration, l.id = n,
         FlowTypes(ls, q, c, v, st, im, n), Flow(ls, q, c, v, st, im, n)
  PROVE  Flow(Append(ls, l), q, c, v, st, im, n + 1)
<1> DEFINE ls1 == Append(ls, l)
           R == Range(ls) \cup Range(q) \cup Range(c)
<1>0. ls \in Seq(Registration) /\ q \in Seq(Registration) /\ c \in Seq(CalledOnce) /\ n \in Nat
  BY DEF FlowTypes
<1>1. /\ Increasing(ls)
      /\ \A y \in R : y.id < n
      /\ \A y, z \in R : y.id = z.id => SamePlace(y, z)
  BY DEF Flow, IdsKept
<1>2. /\ DOMAIN ls1 = 1..(Len(ls) + 1) /\ Len(ls) \in Nat /\ DOMAIN ls = 1..Len(ls)
      /\ \A i \in 1..Len(ls) : ls1[i] = ls[i]
      /\ ls1[Len(ls) + 1] = l
  <2>1. /\ Len(ls1) = Len(ls) + 1 /\ ls1 \in Seq(Registration)
        /\ \A i \in 1..Len(ls) : ls1[i] = ls[i]
        /\ ls1[Len(ls) + 1] = l
    BY <1>0, AppendProperties
  <2>2. Len(ls) \in Nat /\ DOMAIN ls = 1..Len(ls)
    BY <1>0
  <2> HIDE DEF ls1
  <2> QED
    BY <2>1, <2>2
<1>3. \A y \in R : y.id \in Int
  BY IdsAreNumbers
<1>4. Range(ls1) \cup Range(q) \cup Range(c) = R \cup {l}
  <2> HIDE DEF ls1
  <2>1. Range(ls1) = Range(ls) \cup {l}
    BY <1>2 DEF Range
  <2> QED
    BY <2>1
<1>5. \A i \in 1..Len(ls) : ls[i].id < n
  <2>1. \A i \in 1..Len(ls) : ls[i] \in R
    BY <1>2 DEF Range
  <2> HIDE DEF R
  <2> QED
    BY <1>1, <2>1
<1> HIDE DEF ls1, R
<1>6. Increasing(ls1)
  <2> SUFFICES ASSUME NEW i \in 1..(Len(ls) + 1), NEW j \in 1..(Len(ls) + 1), i < j
               PROVE  ls1[i].id < ls1[j].id
    BY <1>2 DEF Increasing
  <2>1. i \in 1..Len(ls) /\ (j \in 1..Len(ls) \/ j = Len(ls) + 1)
    BY <1>2
  <2> QED
    BY <1>1, <1>2, <1>5, <2>1 DEF Increasing
<1>7. IdsKept(R \cup {l}, n + 1)
  <2>1. \A y \in R \cup {l} : y.id < n + 1
    BY <1>0, <1>1, <1>3
  <2>2. \A y, z \in R \cup {l} : y.id = z.id => SamePlace(y, z)
    BY <1>0, <1>1, <1>3 DEF SamePlace
  <2> QED
    BY <2>1, <2>2 DEF IdsKept
<1>8. IdsKept(Range(ls1) \cup Range(q) \cup Range(c), n + 1)
  BY <1>4, <1>7
<1> QED
  BY <1>6, <1>8 DEF Flow, ls1

LEMMA FlowRemoves ==
  ASSUME NEW ls, NEW q, NEW c, NEW v, NEW st, NEW im, NEW n, NEW i \in DOMAIN ls,
         FlowTypes(ls, q, c, v, st, im, n), Flow(ls, q, c, v, st, im, n)
  PROVE  RemoveAt(ls, i) \in Seq(Registration) /\ Flow(RemoveAt(ls, i), q, c, v, st, im, n + 1)
<1> DEFINE ls1 == RemoveAt(ls, i)
           R == Range(ls) \cup Range(q) \cup Range(c)
           S == Range(ls1) \cup Range(q) \cup Range(c)
<1>0. ls \in Seq(Registration) /\ q \in Seq(Registration) /\ c \in Seq(CalledOnce) /\ n \in Nat
  BY DEF FlowTypes
<1>1. /\ Increasing(ls)
      /\ \A y \in R : y.id < n
      /\ \A y, z \in R : y.id = z.id => SamePlace(y, z)
  BY DEF Flow, IdsKept
<1>2. /\ ls1 \in Seq(Registration)
      /\ \A k \in DOMAIN ls1 : Before(i, k) \in DOMAIN ls /\ ls1[k] = ls[Before(i, k)]
      /\ \A j, k \in DOMAIN ls1 : j < k => Before(i, j) < Before(i, k)
  BY <1>0, RemoveAtKeepsOrder
<1>3. \A y \in R : y.id \in Int
  BY IdsAreNumbers
<1> HIDE DEF ls1
<1>4. S \subseteq R
  BY <1>2 DEF Range
<1> HIDE DEF R, S
<1>5. Increasing(ls1)
  BY <1>1, <1>2 DEF Increasing
<1>6. IdsKept(S, n + 1)
  <2>1. \A y \in S : y.id < n + 1
    BY <1>0, <1>1, <1>3, <1>4
  <2>2. \A y, z \in S : y.id = z.id => SamePlace(y, z)
    BY <1>1, <1>4
  <2> QED
    BY <2>1, <2>2 DEF IdsKept
<1> QED
  BY <1>2, <1>5, <1>6 DEF Flow, ls1, S

LEMMA FlowIdles ==
  ASSUME NEW ls, NEW q, NEW c, NEW v, NEW st, NEW im, NEW n,
         FlowTypes(ls, q, c, v, st, im, n), Flow(ls, q, c, v, st, im, n)
  PROVE  Flow(ls, q, c, v, st, im, n + 1)
<1> DEFINE R == Range(ls) \cup Range(q) \cup Range(c)
<1>0. ls \in Seq(Registration) /\ q \in Seq(Registration) /\ c \in Seq(CalledOnce) /\ n \in Nat
  BY DEF FlowTypes
<1>1. IdsKept(R, n)
  BY DEF Flow
<1>2. \A y \in R : y.id \in Int
  BY IdsAreNumbers
<1>3. IdsKept(R, n + 1)
  <2> HIDE DEF R
  <2> QED
    BY <1>0, <1>1, <1>2 DEF IdsKept
<1> QED
  BY <1>3 DEF Flow

-----------------------------------------------------------------------------
(* Which listeners an event meets, and where it goes.                      *)

LEMMA EachFacts ==
  ASSUME NEW nodes \in Seq(Nat), NEW c \in BOOLEAN, NEW e,
         e = [i \in DOMAIN nodes |-> [node |-> nodes[i], capture |-> c]]
  PROVE  /\ e \in Seq(Stop) /\ Len(e) = Len(nodes) /\ DOMAIN e = 1..Len(nodes) /\ Len(nodes) \in Nat
         /\ \A i \in 1..Len(nodes) : e[i].node = nodes[i] /\ e[i].capture = c
<1>1. DOMAIN nodes = 1..Len(nodes) /\ Len(nodes) \in Nat /\ \A i \in DOMAIN nodes : nodes[i] \in Nat
  OBVIOUS
<1>2. \A i \in DOMAIN nodes : [node |-> nodes[i], capture |-> c] \in Stop
  BY <1>1 DEF Stop
<1>3. e \in [1..Len(nodes) -> Stop]
  BY <1>1, <1>2
<1>4. e \in Seq(Stop) /\ Len(e) = Len(nodes)
  BY <1>1, <1>3
<1> QED
  BY <1>1, <1>4

LEMMA ReverseLength ==
  ASSUME NEW S, NEW s \in Seq(S)
  PROVE  Len(Reverse(s)) = Len(s) /\ Len(s) \in Nat
BY DEF Reverse

\* The visits go down the path of the target and then up again.
LEMMA VisitsFacts ==
  ASSUME NEW d, IsDocument(d), NEW n \in NodesOf(d)
  PROVE  LET p == PathUp(d, n)
             m == Len(p)
             v == Visits(d, n, TRUE)
         IN  /\ v \in Seq(Stop) /\ m \in Nat \ {0} /\ DOMAIN v = 1..(m + m)
             /\ \A i \in 1..m : v[i].node = p[(m - i) + 1] /\ v[i].capture = TRUE
             /\ \A i \in 1..m : v[m + i].node = p[i] /\ v[m + i].capture = FALSE
<1> DEFINE p == PathUp(d, n)
           m == Len(p)
           up == Tail(p)
           rev == Reverse(up)
           one == <<n>>
           e1 == [i \in DOMAIN rev |-> [node |-> rev[i], capture |-> TRUE]]
           e2 == [i \in DOMAIN one |-> [node |-> one[i], capture |-> TRUE]]
           e3 == [i \in DOMAIN one |-> [node |-> one[i], capture |-> FALSE]]
           e4 == [i \in DOMAIN up |-> [node |-> up[i], capture |-> FALSE]]
           v == Visits(d, n, TRUE)
<1>1. v = e1 \o e2 \o e3 \o e4
  BY DEF Visits, Ancestors
<1>2. /\ p \in Seq(NodesOf(d)) /\ m \in Nat \ {0} /\ p[1] = n /\ DOMAIN p = 1..m
  BY PathFacts
<1>3. NodesOf(d) \subseteq Nat
  BY DocumentFacts
<1>4. p \in Seq(Nat)
  <2> HIDE DEF p
  <2> QED
    BY <1>2, <1>3
<1>5. one \in Seq(Nat) /\ Len(one) = 1 /\ one[1] = n
  BY <1>3
<1> HIDE DEF p
<1>6. up \in Seq(Nat) /\ Len(up) = m - 1 /\ \A i \in 1..(m - 1) : up[i] = p[i + 1]
  BY <1>2, <1>4, HeadTailProperties, EmptySeq
<1> HIDE DEF up
<1>7. rev \in Seq(Nat) /\ Len(rev) = m - 1 /\ \A i \in 1..(m - 1) : rev[i] = p[(m - i) + 1]
  <2>1. /\ rev \in Seq(Nat) /\ DOMAIN rev = DOMAIN up
        /\ \A i \in DOMAIN up : (Len(up) - i) + 1 \in DOMAIN up /\ rev[i] = up[(Len(up) - i) + 1]
    BY <1>6, ReverseProperties
  <2>3. Len(rev) = m - 1
    BY <1>6, ReverseLength
  <2> HIDE DEF rev
  <2>2. DOMAIN up = 1..(m - 1) /\ DOMAIN rev = 1..Len(rev) /\ Len(rev) \in Nat /\ Len(up) \in Nat
    BY <1>6, <2>1
  <2>4. ASSUME NEW i \in 1..(m - 1) PROVE rev[i] = p[(m - i) + 1]
    <3>1. rev[i] = up[((m - 1) - i) + 1] /\ ((m - 1) - i) + 1 \in 1..(m - 1)
      BY <1>6, <2>1, <2>2
    <3>2. up[((m - 1) - i) + 1] = p[(((m - 1) - i) + 1) + 1]
      BY <1>6, <3>1
    <3>3. (((m - 1) - i) + 1) + 1 = (m - i) + 1
      BY <1>2
    <3> QED
      BY <3>1, <3>2, <3>3
  <2> QED
    BY <2>1, <2>3, <2>4
<1> HIDE DEF rev
<1> HIDE DEF one
<1>8. /\ e1 \in Seq(Stop) /\ Len(e1) = m - 1
      /\ \A i \in 1..(m - 1) : e1[i].node = p[(m - i) + 1] /\ e1[i].capture = TRUE
  <2>0. e1 = [i \in DOMAIN rev |-> [node |-> rev[i], capture |-> TRUE]] /\ TRUE \in BOOLEAN
    OBVIOUS
  <2> HIDE DEF e1
  <2>1. /\ e1 \in Seq(Stop) /\ Len(e1) = Len(rev)
        /\ \A i \in 1..Len(rev) : e1[i].node = rev[i] /\ e1[i].capture = TRUE
    BY <1>7, <2>0, EachFacts
  <2> QED
    BY <1>7, <2>1
<1>9. e2 \in Seq(Stop) /\ Len(e2) = 1 /\ e2[1].node = n /\ e2[1].capture = TRUE
  <2>0. e2 = [i \in DOMAIN one |-> [node |-> one[i], capture |-> TRUE]] /\ TRUE \in BOOLEAN
    OBVIOUS
  <2> HIDE DEF e2
  <2>1. /\ e2 \in Seq(Stop) /\ Len(e2) = Len(one)
        /\ \A i \in 1..Len(one) : e2[i].node = one[i] /\ e2[i].capture = TRUE
    BY <1>5, <2>0, EachFacts
  <2> QED
    BY <1>5, <2>1
<1>10. e3 \in Seq(Stop) /\ Len(e3) = 1 /\ e3[1].node = n /\ e3[1].capture = FALSE
  <2>0. e3 = [i \in DOMAIN one |-> [node |-> one[i], capture |-> FALSE]] /\ FALSE \in BOOLEAN
    OBVIOUS
  <2> HIDE DEF e3
  <2>1. /\ e3 \in Seq(Stop) /\ Len(e3) = Len(one)
        /\ \A i \in 1..Len(one) : e3[i].node = one[i] /\ e3[i].capture = FALSE
    BY <1>5, <2>0, EachFacts
  <2> QED
    BY <1>5, <2>1
<1>11. /\ e4 \in Seq(Stop) /\ Len(e4) = m - 1
       /\ \A i \in 1..(m - 1) : e4[i].node = p[i + 1] /\ e4[i].capture = FALSE
  <2>0. e4 = [i \in DOMAIN up |-> [node |-> up[i], capture |-> FALSE]] /\ FALSE \in BOOLEAN
    OBVIOUS
  <2> HIDE DEF e4
  <2>1. /\ e4 \in Seq(Stop) /\ Len(e4) = Len(up)
        /\ \A i \in 1..Len(up) : e4[i].node = up[i] /\ e4[i].capture = FALSE
    BY <1>6, <2>0, EachFacts
  <2> QED
    BY <1>6, <2>1
<1> HIDE DEF e1, e2, e3, e4, v, m
<1> DEFINE a == e1 \o e2
           b == a \o e3
<1>a. a = e1 \o e2 /\ b = a \o e3 /\ v = b \o e4
  BY <1>1
<1>b. /\ e1 \in Seq(Stop) /\ Len(e1) = m - 1 /\ e2 \in Seq(Stop) /\ Len(e2) = 1
      /\ e3 \in Seq(Stop) /\ Len(e3) = 1 /\ e4 \in Seq(Stop) /\ Len(e4) = m - 1
  BY <1>8, <1>9, <1>10, <1>11
<1> HIDE DEF a, b
<1>12. /\ a \in Seq(Stop) /\ Len(a) = (m - 1) + 1
       /\ \A i \in 1..((m - 1) + 1) : a[i] = IF i <= m - 1 THEN e1[i] ELSE e2[i - (m - 1)]
  <2> DEFINE k == m - 1
  <2>1. e1 \in Seq(Stop) /\ Len(e1) = k /\ e2 \in Seq(Stop) /\ Len(e2) = 1 /\ k \in Nat
    BY <1>2, <1>b
  <2> HIDE DEF k
  <2>2. /\ a \in Seq(Stop) /\ Len(a) = k + 1
        /\ \A i \in 1..(k + 1) : a[i] = IF i <= k THEN e1[i] ELSE e2[i - k]
    <3>1. a = e1 \o e2
      BY <1>a
    <3> QED
      BY <2>1, <3>1, ConcatProperties
  <2> QED
    BY <2>2 DEF k
<1>13. a \in Seq(Stop) /\ Len(a) = m /\ (m - 1) + 1 = m /\ (m + 1) + (m - 1) = m + m
  BY <1>2, <1>12
<1>14. /\ b \in Seq(Stop) /\ Len(b) = m + 1
       /\ \A i \in 1..(m + 1) : b[i] = IF i <= m THEN a[i] ELSE e3[i - m]
  <2>1. a \in Seq(Stop) /\ Len(a) = m /\ e3 \in Seq(Stop) /\ Len(e3) = 1 /\ m \in Nat
    BY <1>2, <1>b, <1>13
  <2>2. b = a \o e3
    BY <1>a
  <2> QED
    BY <2>1, <2>2, ConcatProperties
<1>15. /\ v \in Seq(Stop) /\ Len(v) = m + m
       /\ \A i \in 1..(m + m) : v[i] = IF i <= m + 1 THEN b[i] ELSE e4[i - (m + 1)]
  <2>1. b \in Seq(Stop) /\ Len(b) = m + 1
    BY <1>14
  <2> DEFINE l == m + 1
             k == m - 1
  <2>2. b \in Seq(Stop) /\ Len(b) = l /\ e4 \in Seq(Stop) /\ Len(e4) = k /\ l + k = m + m
        /\ l \in Nat /\ k \in Nat
    BY <1>2, <1>b, <1>13, <2>1
  <2> HIDE DEF k, l
  <2>3. /\ v \in Seq(Stop) /\ Len(v) = l + k
        /\ \A i \in 1..(l + k) : v[i] = IF i <= l THEN b[i] ELSE e4[i - l]
    <3>1. v = b \o e4
      BY <1>a
    <3> QED
      BY <2>2, <3>1, ConcatProperties
  <2> QED
    BY <2>2, <2>3 DEF l
<1>16. ASSUME NEW i \in 1..m
       PROVE  v[i].node = p[(m - i) + 1] /\ v[i].capture = TRUE
  <2>1. v[i] = a[i] /\ a[i] = IF i <= m - 1 THEN e1[i] ELSE e2[i - (m - 1)]
    <3>1. i \in 1..(m + m) /\ i \in 1..(m + 1) /\ i <= m + 1 /\ i <= m /\ i \in 1..((m - 1) + 1)
      BY <1>2
    <3> QED
      BY <1>12, <1>14, <1>15, <3>1
  <2>2. CASE i <= m - 1
    <3>1. a[i] = e1[i] /\ i \in 1..(m - 1)
      BY <1>2, <2>1, <2>2
    <3> QED
      BY <1>8, <2>1, <3>1
  <2>3. CASE i = m
    <3>1. ~(i <= m - 1) /\ i - (m - 1) = 1 /\ (m - i) + 1 = 1
      BY <1>2, <2>3
    <3>2. v[i] = e2[1]
      BY <2>1, <3>1
    <3> QED
      BY <1>2, <1>9, <3>1, <3>2
  <2>4. i <= m - 1 \/ i = m
    BY <1>2
  <2> QED
    BY <2>2, <2>3, <2>4
<1>17. ASSUME NEW i \in 1..m
       PROVE  v[m + i].node = p[i] /\ v[m + i].capture = FALSE
  <2>1. CASE i = 1
    <3>1. v[m + 1] = b[m + 1] /\ b[m + 1] = e3[1]
      BY <1>2, <1>14, <1>15
    <3> QED
      BY <1>2, <1>10, <2>1, <3>1
  <2>2. CASE i # 1
    <3>1. v[m + i] = e4[(m + i) - (m + 1)] /\ (m + i) - (m + 1) = i - 1 /\ i - 1 \in 1..(m - 1) /\ (i - 1) + 1 = i
      BY <1>2, <1>15, <2>2
    <3> QED
      BY <1>11, <3>1
  <2> QED
    BY <2>1, <2>2
<1>18. DOMAIN v = 1..(m + m)
  BY <1>15
<1> QED
  BY <1>2, <1>15, <1>16, <1>17, <1>18 DEF v, m, p

LEMMA VisitsAreApart ==
  ASSUME NEW d, IsDocument(d), NEW n \in NodesOf(d), ~EndlessUp(d, n)
  PROVE  Visits(d, n, TRUE) \in Seq(Stop) /\ VisitsApart(Visits(d, n, TRUE))
<1> DEFINE p == PathUp(d, n)
           m == Len(p)
           v == Visits(d, n, TRUE)
<1>1. /\ v \in Seq(Stop) /\ m \in Nat \ {0} /\ DOMAIN v = 1..(m + m)
      /\ \A i \in 1..m : v[i].node = p[(m - i) + 1] /\ v[i].capture = TRUE
      /\ \A i \in 1..m : v[m + i].node = p[i] /\ v[m + i].capture = FALSE
  BY VisitsFacts
<1>2. IsInjective(p) /\ DOMAIN p = 1..m
  BY PathInjective, PathFacts
<1> HIDE DEF p, m, v
<1>3. ASSUME NEW i \in 1..(m + m), NEW j \in 1..(m + m), i < j
      PROVE  ~SamePlace(v[i], v[j]) /\ Follows(v[i], v[j])
  <2>1. CASE j <= m
    <3>1. v[i].node = p[(m - i) + 1] /\ v[j].node = p[(m - j) + 1] /\ v[i].capture = TRUE
      BY <1>1, <1>3, <2>1
    <3>2. (m - i) + 1 \in 1..m /\ (m - j) + 1 \in 1..m /\ (m - i) + 1 # (m - j) + 1
      BY <1>1, <1>3, <2>1
    <3>3. v[i].node # v[j].node
      BY <1>2, <3>1, <3>2 DEF IsInjective
    <3> QED
      BY <3>1, <3>3 DEF SamePlace, Follows
  <2>2. CASE i <= m /\ j > m
    <3>1. j - m \in 1..m /\ m + (j - m) = j /\ i \in 1..m
      BY <1>1, <1>3, <2>2
    <3>2. v[i].capture = TRUE /\ v[j].capture = FALSE
      BY <1>1, <3>1
    <3> QED
      BY <3>2 DEF SamePlace, Follows
  <2>3. CASE i > m
    <3>1. i - m \in 1..m /\ j - m \in 1..m /\ m + (i - m) = i /\ m + (j - m) = j /\ i - m # j - m
      BY <1>1, <1>3, <2>3
    <3>2. v[i].node = p[i - m] /\ v[j].node = p[j - m] /\ v[j].capture = FALSE
      BY <1>1, <3>1
    <3>3. v[i].node # v[j].node
      BY <1>2, <3>1, <3>2 DEF IsInjective
    <3> QED
      BY <3>2, <3>3 DEF SamePlace, Follows
  <2> QED
    BY <1>1, <1>3, <2>1, <2>2, <2>3
<1>4. VisitsApart(v)
  BY <1>1, <1>3 DEF VisitsApart
<1> QED
  BY <1>1, <1>4 DEF v

\* The listeners taken down for a visit, in the order of registration.
LEMMA MatchingFacts ==
  ASSUME NEW ls \in Seq(Registration), Increasing(ls), NEW ev, NEW w
  PROVE  LET r == Matching(ls, ev, w)
         IN  /\ r \in Seq(Registration) /\ Increasing(r)
             /\ \A x \in Range(r) : x \in Range(ls) /\ SamePlace(x, w)
<1> DEFINE S == {l \in Range(ls) : l.node = w.node /\ l.capture = w.capture /\ l.type = ev.type}
           r == Matching(ls, ev, w)
<1>1. r = Among(ls, S)
  BY DEF Matching
<1>2. \A x \in S : x \in Range(ls) /\ SamePlace(x, w)
  BY DEF SamePlace
<1> HIDE DEF S, r
<1>3. r \in Seq(Registration) /\ Range(r) = Range(ls) \cap S
  BY <1>1, AmongFacts
<1>4. PICK at \in [DOMAIN r -> DOMAIN ls] :
        /\ \A i, j \in DOMAIN r : i < j => at[i] < at[j]
        /\ \A i \in DOMAIN r : r[i] = ls[at[i]]
  BY <1>1, AmongFacts
<1>5. Increasing(r)
  BY <1>4 DEF Increasing
<1> QED
  BY <1>2, <1>3, <1>5 DEF r

-----------------------------------------------------------------------------
(* What each action does to the flow of an event.                            *)

LEMMA FlowTyped ==
  ASSUME FlowInv
  PROVE  FlowTypes(listeners, disp.queue, disp.called, disp.visits, disp.ev.stopped,
                   disp.ev.immediate, steps)
BY DEF FlowInv, FlowTypes, Dispatches, Events

FlowIdle ==
  /\ UNCHANGED <<listeners, disp>> /\ (steps' = steps \/ steps' = steps + 1)
  /\ mode' = "listener" => mode = "listener"

FlowStep ==
  \/ FlowIdle \/ AddListener \/ RemoveListener \/ OnEvent \/ Throw
  \/ DispatchEvent \/ Visit \/ CallListener

\* Only these actions touch the listeners and the dispatch.
LEMMA NextFlow == [Next]_vars => FlowStep
<1> SUFFICES ASSUME [Next]_vars PROVE FlowStep
  OBVIOUS
<1> USE DEF FlowStep, FlowIdle, Api, Mutates, Controls
<1>1. CASE Call
  <2>1. CASE CreateNode \/ AppendChildCall \/ RemoveChildCall \/ SetText
    BY <2>1 DEF CreateNode, AppendChildCall, RemoveChildCall, SetText
  <2>2. CASE SetInnerHtml \/ SetAttributeCall \/ Hangs
    BY <2>2 DEF SetInnerHtml, SetAttributeCall, Hangs
  <2>3. CASE SubmitCall \/ SetTimeout \/ ClearTimeout
    BY <2>3 DEF SubmitCall, SetTimeout, ClearTimeout
  <2>4. CASE ReadControl \/ SetChecked \/ SetValue
    BY <2>4 DEF ReadControl, SetChecked, SetValue
  <2>5. CASE SetSelected \/ SetDisabled \/ SetIndex
    BY <2>5 DEF SetSelected, SetDisabled, SetIndex
  <2> QED
    BY <1>1, <2>1, <2>2, <2>3, <2>4, <2>5 DEF Call
<1>2. CASE Return \/ RunScript \/ RunPendingTimers \/ RunTimer \/ DrainEnds \/ DispatchEnds
  BY <1>2 DEF Return, RunScript, RunPendingTimers, RunTimer, DrainEnds, DispatchEnds, Running
<1>3. CASE Show \/ Click \/ ClickNowhere \/ InputText \/ Backspace
  BY <1>3 DEF Show, Click, ClickNowhere, InputText, Backspace, Edit, Keep
<1>4. CASE UNCHANGED vars
  BY <1>4 DEF vars, rt
<1> QED
  BY <1>1, <1>2, <1>3, <1>4 DEF Next, RuntimeNext

LEMMA FlowIdleKeeps == ASSUME FlowInv, FlowIdle PROVE FlowInv'
<1> DEFINE F(n) == Flow(listeners, disp.queue, disp.called, disp.visits, disp.ev.stopped,
                        disp.ev.immediate, n)
<1>1. F(steps) /\ F(steps + 1)
  BY FlowTyped, FlowIdles DEF FlowInv
<1>2. listeners' = listeners /\ disp' = disp /\ (steps' = steps \/ steps' = steps + 1)
  BY DEF FlowIdle
<1>3. Flow(listeners, disp.queue, disp.called, disp.visits, disp.ev.stopped,
           disp.ev.immediate, steps)'
  BY <1>1, <1>2
<1>4. steps' \in Nat
  BY <1>2 DEF FlowInv
<1> QED
  BY <1>2, <1>3, <1>4 DEF FlowInv, FlowIdle

LEMMA AddListenerKeeps == ASSUME DocumentInv, FlowInv, AddListener PROVE FlowInv'
<1>1. PICK n \in Touched, ty \in Types, c \in BOOLEAN, cb \in Callbacks :
        listeners' = Append(listeners, [id |-> steps, node |-> n, type |-> ty, capture |-> c,
                                        cb |-> cb])
  BY DEF AddListener
<1> DEFINE l == [id |-> steps, node |-> n, type |-> ty, capture |-> c, cb |-> cb]
<1>2. Touched \subseteq Nat
  BY TouchedAreNodes, DocumentFacts DEF DocumentInv
<1>3. l \in Registration /\ l.id = steps
  BY <1>2 DEF FlowInv, Registration
<1>4. disp' \in Dispatches /\ disp'.ev = disp.ev /\ disp'.queue = disp.queue
      /\ disp'.called = disp.called /\ disp'.visits = disp.visits
  BY DEF AddListener, FlowInv, Dispatches
<1>5. mode' = mode /\ steps' = steps + 1 /\ listeners' = Append(listeners, l)
  BY <1>1 DEF AddListener, Api
<1> HIDE DEF l
<1>6. listeners' \in Seq(Registration)
  BY <1>3, <1>5, AppendProperties DEF FlowInv
<1>7. Flow(Append(listeners, l), disp.queue, disp.called, disp.visits, disp.ev.stopped,
           disp.ev.immediate, steps + 1)
  BY <1>3, FlowTyped, FlowAdds DEF FlowInv
<1> QED
  BY <1>4, <1>5, <1>6, <1>7 DEF FlowInv

LEMMA RemoveListenerKeeps == ASSUME FlowInv, RemoveListener PROVE FlowInv'
<1>1. PICK i \in DOMAIN listeners : listeners' = RemoveAt(listeners, i)
  BY DEF RemoveListener
<1>2. disp' \in Dispatches /\ disp'.ev = disp.ev /\ disp'.queue = disp.queue
      /\ disp'.called = disp.called /\ disp'.visits = disp.visits
  BY DEF RemoveListener, FlowInv, Dispatches
<1>3. mode' = mode /\ steps' = steps + 1
  BY DEF RemoveListener, Api
<1>4. /\ RemoveAt(listeners, i) \in Seq(Registration)
      /\ Flow(RemoveAt(listeners, i), disp.queue, disp.called, disp.visits, disp.ev.stopped,
              disp.ev.immediate, steps + 1)
  BY FlowTyped, FlowRemoves DEF FlowInv
<1> QED
  BY <1>1, <1>2, <1>3, <1>4 DEF FlowInv

\* What an event is after a listener did one thing.
LEMMA EffectFacts ==
  ASSUME NEW ev \in Events, NEW n \in Nat, NEW x \in {"prevent", "stop", "immediate"}
  PROVE  /\ Effect(ev, n, {x}) \in Events
         /\ Effect(ev, n, {x}).stopped = StopAt(x, ev.stopped, n)
         /\ Effect(ev, n, {x}).immediate = AtOnce(x, ev.immediate)
<1> USE DEF Events, StopAt, AtOnce
<1>1. CASE x = "prevent"
  BY <1>1 DEF Effect, PreventDefault
<1>2. CASE x = "stop"
  BY <1>2 DEF Effect, StopPropagation
<1>3. CASE x = "immediate"
  BY <1>3 DEF Effect, StopPropagation, StopImmediate
<1> QED
  BY <1>1, <1>2, <1>3

LEMMA OnEventDoes ==
  ASSUME FlowInv, OnEvent
  PROVE  \E x \in {"prevent", "stop", "immediate"} :
           /\ disp'.ev = Effect(disp.ev, Last(disp.called).node, {x})
           /\ disp'.ev \in Events
           /\ disp'.ev.stopped = StopAt(x, disp.ev.stopped, Last(disp.called).node)
           /\ disp'.ev.immediate = AtOnce(x, disp.ev.immediate)
           /\ LastDoes(disp.called, disp'.called, x)
           /\ disp'.queue = disp.queue /\ disp'.visits = disp.visits
           /\ disp'.before = disp.before /\ disp'.path = disp.path
           /\ disp' \in Dispatches
<1> DEFINE c == disp.called
           m == Len(c)
           l == Last(c)
           d == disp'.called
<1>1. PICK x \in {"prevent", "stop", "immediate"} :
        disp' = [disp EXCEPT !.ev = Effect(@, l.node, {x}),
                             !.called[Len(disp.called)].does = @ \cup {x}]
  BY DEF OnEvent
<1>2. disp \in Dispatches /\ Listening(disp.queue, c, disp.ev.stopped)
  BY DEF FlowInv, OnEvent
<1>3. c \in Seq(CalledOnce) /\ c # << >> /\ disp.ev \in Events
  BY <1>2 DEF Dispatches, Listening
<1>4. m \in Nat \ {0} /\ DOMAIN c = 1..m /\ l = c[m] /\ l \in CalledOnce
  <2> HIDE DEF c
  <2> QED
    BY <1>3, LastFront
<1>5. /\ disp'.ev = Effect(disp.ev, l.node, {x}) /\ disp'.queue = disp.queue
      /\ disp'.visits = disp.visits /\ disp'.before = disp.before /\ disp'.path = disp.path
      /\ disp'.changed = disp.changed /\ disp'.threw = disp.threw
      /\ d = [c EXCEPT ![m].does = @ \cup {x}]
      /\ disp' = [ev |-> disp'.ev, visits |-> disp'.visits, queue |-> disp'.queue, called |-> d,
                  before |-> disp'.before, path |-> disp'.path, changed |-> disp'.changed,
                  threw |-> disp'.threw]
  BY <1>1, <1>2 DEF Dispatches
<1>6. /\ disp'.ev \in Events
      /\ disp'.ev.stopped = StopAt(x, disp.ev.stopped, l.node)
      /\ disp'.ev.immediate = AtOnce(x, disp.ev.immediate)
  <2>1. l.node \in Nat
    BY <1>4 DEF CalledOnce
  <2>2. disp'.ev = Effect(disp.ev, l.node, {x})
    BY <1>5
  <2> HIDE DEF l
  <2>3. /\ Effect(disp.ev, l.node, {x}) \in Events
        /\ Effect(disp.ev, l.node, {x}).stopped = StopAt(x, disp.ev.stopped, l.node)
        /\ Effect(disp.ev, l.node, {x}).immediate = AtOnce(x, disp.ev.immediate)
    BY <1>3, <2>1, EffectFacts
  <2> QED
    BY <2>2, <2>3
<1> HIDE DEF c, m, d
<1>7. LastDoes(c, d, x)
  <2> DEFINE k == [c[m] EXCEPT !.does = @ \cup {x}]
  <2>1. k \in CalledOnce /\ k.id = c[m].id /\ SamePlace(k, c[m]) /\ k.does = c[m].does \cup {x}
    BY <1>4 DEF CalledOnce, Doings, SamePlace
  <2>2. d = [c EXCEPT ![m] = k]
    BY <1>5
  <2> HIDE DEF k
  <2>3. d \in Seq(CalledOnce) /\ Len(d) = Len(c)
    BY <1>3, <1>4, <2>1, <2>2
  <2>4. d[m] = k /\ \A i \in 1..m : i # m => d[i] = c[i]
    BY <1>4, <2>2
  <2>5. m = Len(c)
    BY DEF m
  <2>6. \A i \in 1..(m - 1) : i \in 1..m /\ i # m
    BY <1>4
  <2>7. \A i \in 1..m : d[i].id = c[i].id /\ SamePlace(d[i], c[i])
    BY <2>1, <2>4 DEF SamePlace
  <2> QED
    BY <2>1, <2>3, <2>4, <2>5, <2>6, <2>7 DEF LastDoes
<1>8. disp' \in Dispatches
  <2>1. /\ disp'.ev \in Events /\ d \in Seq(CalledOnce)
        /\ disp'.queue \in Seq(Registration) /\ disp'.visits \in Seq(Stop)
        /\ disp'.before \in Seq(Registration) /\ disp'.path \in Seq(Stop)
        /\ disp'.changed \in BOOLEAN /\ disp'.threw \in BOOLEAN
    BY <1>2, <1>5, <1>6, <1>7 DEF Dispatches, LastDoes
  <2>2. disp' = [ev |-> disp'.ev, visits |-> disp'.visits, queue |-> disp'.queue, called |-> d,
                 before |-> disp'.before, path |-> disp'.path, changed |-> disp'.changed,
                 threw |-> disp'.threw]
    BY <1>5
  <2> QED
    BY <2>1, <2>2 DEF Dispatches
<1> QED
  BY <1>5, <1>6, <1>7, <1>8 DEF c, d

LEMMA OnEventKeeps == ASSUME FlowInv, OnEvent PROVE FlowInv'
<1> DEFINE c == disp.called
           d == disp'.called
<1>1. PICK x \in {"prevent", "stop", "immediate"} :
        /\ disp'.ev.stopped = StopAt(x, disp.ev.stopped, Last(c).node)
        /\ disp'.ev.immediate = AtOnce(x, disp.ev.immediate)
        /\ LastDoes(c, d, x)
        /\ disp'.queue = disp.queue /\ disp'.visits = disp.visits /\ disp' \in Dispatches
  BY OnEventDoes
<1>2. /\ mode = "listener" /\ mode' = mode /\ steps' = steps + 1
      /\ listeners' = listeners /\ steps \in Nat /\ listeners \in Seq(Registration)
      /\ Listening(disp.queue, c, disp.ev.stopped)
  BY DEF FlowInv, OnEvent, Api
<1>3. /\ FlowTypes(listeners, disp.queue, c, disp.visits, disp.ev.stopped, disp.ev.immediate,
                   steps)
      /\ Flow(listeners, disp.queue, c, disp.visits, disp.ev.stopped, disp.ev.immediate, steps)
  BY FlowTyped DEF FlowInv
<1> HIDE DEF c, d
<1>4. /\ Flow(listeners, disp.queue, d, disp.visits, disp'.ev.stopped, disp'.ev.immediate, steps + 1)
      /\ Listening(disp.queue, d, disp'.ev.stopped)
  <2> DEFINE st1 == disp'.ev.stopped
             im1 == disp'.ev.immediate
  <2>1. st1 = StopAt(x, disp.ev.stopped, Last(c).node) /\ im1 = AtOnce(x, disp.ev.immediate)
    BY <1>1
  <2> HIDE DEF st1, im1
  <2>2. /\ Flow(listeners, disp.queue, d, disp.visits, st1, im1, steps + 1)
        /\ Listening(disp.queue, d, st1)
    BY <1>1, <1>2, <1>3, <2>1, FlowEffects
  <2> QED
    BY <2>2 DEF st1, im1
<1> QED
  BY <1>1, <1>2, <1>4 DEF FlowInv, d

LEMMA ThrowKeeps == ASSUME FlowInv, Throw PROVE FlowInv'
<1>1. disp' \in Dispatches /\ disp'.ev = disp.ev /\ disp'.queue = disp.queue
      /\ disp'.called = disp.called /\ disp'.visits = disp.visits
  BY DEF Throw, FlowInv, Dispatches
<1>2. mode' # "listener" /\ UNCHANGED <<listeners, steps>>
  BY DEF Throw
<1> QED
  BY <1>1, <1>2 DEF FlowInv

\* A dispatch starts with nobody called and all visits to come.
LEMMA FlowStarts ==
  ASSUME NEW ls, NEW q, NEW c, NEW v, NEW st, NEW im, NEW n, NEW w,
         Flow(ls, q, c, v, st, im, n), VisitsApart(w)
  PROVE  Flow(ls, << >>, << >>, w, NoNode, FALSE, n)
<1>1. Range(<< >>) = {}
  BY DEF Range
<1>2. Increasing(<< >>) /\ CalledInOrder(<< >>)
  BY DEF Increasing, CalledInOrder
<1>3. Increasing(ls) /\ IdsKept(Range(ls) \cup Range(q) \cup Range(c), n)
  BY DEF Flow
<1>4. IdsKept(Range(ls) \cup Range(<< >>) \cup Range(<< >>), n)
  BY <1>1, <1>3 DEF IdsKept
<1> QED
  BY <1>1, <1>2, <1>3, <1>4 DEF Flow

LEMMA DispatchEventKeeps == ASSUME DocumentInv, FlowInv, DispatchEvent PROVE FlowInv'
<1>1. UNCHANGED <<listeners, steps>> /\ mode' # "listener"
  BY DEF DispatchEvent
<1>2. PICK target \in page.targets, ty \in Types :
        IF EndlessUp(doc, target) THEN mode' = "hung" /\ UNCHANGED disp
        ELSE /\ mode' = "dispatch"
             /\ disp' = [NoDispatch EXCEPT !.ev = NewEvent(ty, target, TRUE, TRUE),
                                           !.visits = Visits(doc, target, TRUE),
                                           !.path = Visits(doc, target, TRUE),
                                           !.before = listeners]
  BY DEF DispatchEvent
<1>3. CASE EndlessUp(doc, target)
  BY <1>1, <1>2, <1>3 DEF FlowInv
<1>4. CASE ~EndlessUp(doc, target)
  <2> DEFINE v == Visits(doc, target, TRUE)
             e == NewEvent(ty, target, TRUE, TRUE)
  <2>1. target \in NodesOf(doc) /\ IsDocument(doc)
    BY <1>2, DomAssumption DEF DocumentInv
  <2>2. v \in Seq(Stop) /\ VisitsApart(v)
    BY <1>4, <2>1, VisitsAreApart
  <2>3. target \in Nat
    BY <2>1, DocumentFacts
  <2>4. e \in Events /\ e.stopped = NoNode /\ e.immediate = FALSE
    BY <2>3 DEF NewEvent, Events
  <2> HIDE DEF v, e
  <2>5. disp' = [ev |-> e, visits |-> v, queue |-> << >>, called |-> << >>, before |-> listeners,
                 path |-> v, changed |-> FALSE, threw |-> FALSE]
    BY <1>2, <1>4 DEF NoDispatch, v, e
  <2>6. /\ disp'.ev = e /\ disp'.visits = v /\ disp'.queue = << >> /\ disp'.called = << >>
        /\ disp' \in Dispatches
    BY <2>2, <2>4, <2>5 DEF Dispatches, FlowInv
  <2>7. Flow(listeners, << >>, << >>, v, NoNode, FALSE, steps)
    BY <2>2, FlowStarts DEF FlowInv
  <2> QED
    BY <1>1, <2>4, <2>6, <2>7 DEF FlowInv
<1> QED
  BY <1>3, <1>4

LEMMA VisitKeeps == ASSUME FlowInv, Visit PROVE FlowInv'
<1> DEFINE v == Head(disp.visits)
           r == IF Enters(disp.ev, v) THEN Matching(listeners, disp.ev, v) ELSE << >>
           st == disp.ev.stopped
<1>1. /\ disp.queue = << >> /\ disp.visits # << >> /\ mode' = mode /\ mode # "listener"
      /\ listeners' = listeners /\ steps' = steps
      /\ disp' = [disp EXCEPT !.visits = Tail(@), !.queue = r]
  BY DEF Visit
<1>2. /\ FlowTypes(listeners, << >>, disp.called, disp.visits, st, disp.ev.immediate, steps)
      /\ Flow(listeners, << >>, disp.called, disp.visits, st, disp.ev.immediate, steps)
      /\ disp \in Dispatches /\ listeners \in Seq(Registration) /\ Increasing(listeners)
  BY <1>1, FlowTyped DEF FlowInv, Flow
<1>3. /\ r \in Seq(Registration) /\ Increasing(r)
      /\ \A x \in Range(r) : x \in Range(listeners) /\ SamePlace(x, v)
  <2>1. CASE Enters(disp.ev, v)
    <3>1. r = Matching(listeners, disp.ev, v)
      BY <2>1
    <3> HIDE DEF r, v
    <3> QED
      BY <1>2, <3>1, MatchingFacts
  <2>2. CASE ~Enters(disp.ev, v)
    <3>1. r = << >>
      BY <2>2
    <3> HIDE DEF r
    <3> QED
      BY <3>1 DEF Increasing, Range
  <2> QED
    BY <2>1, <2>2
<1>4. st # NoNode => \A x \in Range(r) : x.node = st
  <2>1. CASE Enters(disp.ev, v)
    <3>1. st # NoNode => v.node = st
      BY <2>1 DEF Enters
    <3> HIDE DEF r
    <3> QED
      BY <1>3, <3>1 DEF SamePlace
  <2>2. CASE ~Enters(disp.ev, v)
    BY <2>2 DEF Range
  <2> QED
    BY <2>1, <2>2
<1>5. Tail(disp.visits) \in Seq(Stop)
  BY <1>1, <1>2, TailFacts DEF Dispatches
<1> HIDE DEF r
<1>6. /\ disp'.ev = disp.ev /\ disp'.queue = r /\ disp'.visits = Tail(disp.visits)
      /\ disp'.called = disp.called /\ disp' \in Dispatches
  BY <1>1, <1>2, <1>3, <1>5 DEF Dispatches
<1>7. Flow(listeners, r, disp.called, Tail(disp.visits), st, disp.ev.immediate, steps)
  BY <1>1, <1>2, <1>3, <1>4, FlowVisits
<1> QED
  BY <1>1, <1>2, <1>6, <1>7 DEF FlowInv

LEMMA CallListenerKeeps == ASSUME FlowInv, CallListener PROVE FlowInv'
<1> DEFINE q == disp.queue
           c == disp.called
           v == disp.visits
           st == disp.ev.stopped
           im == disp.ev.immediate
<1>1. /\ q # << >> /\ mode = "dispatch" /\ listeners' = listeners /\ steps' = steps
      /\ im => disp' = [disp EXCEPT !.queue = << >>] /\ mode' = mode
      /\ ~im => /\ mode' = "listener"
                /\ disp' = [disp EXCEPT !.queue = Tail(@), !.called = Append(@, CallOf(Head(q)))]
  BY DEF CallListener, CallOf
<1>2. /\ FlowTypes(listeners, q, c, v, st, im, steps) /\ Flow(listeners, q, c, v, st, im, steps)
      /\ disp \in Dispatches /\ im \in BOOLEAN
  BY FlowTyped DEF FlowInv, FlowTypes
<1>3. CASE im
  <2>0. disp' = [disp EXCEPT !.queue = << >>] /\ << >> \in Seq(Registration)
    BY <1>1, <1>3
  <2>1. /\ disp'.ev = disp.ev /\ disp'.queue = << >> /\ disp'.visits = v /\ disp'.called = c
        /\ disp' \in Dispatches
    BY <1>2, <2>0 DEF Dispatches
  <2>2. Flow(listeners, << >>, c, v, st, im, steps)
    <3> HIDE DEF q, c, v, st, im
    <3>1. Range(<< >>) = {} /\ Increasing(<< >>)
      BY DEF Range, Increasing
    <3>2. IdsKept(Range(listeners) \cup Range(<< >>) \cup Range(c), steps)
      BY <1>2, <3>1 DEF Flow, IdsKept
    <3> QED
      BY <1>2, <3>1, <3>2 DEF Flow
  <2> QED
    BY <1>1, <1>2, <1>3, <2>1, <2>2 DEF FlowInv
<1>4. CASE ~im
  <2> DEFINE d == Append(c, CallOf(Head(q)))
  <2>1. im = FALSE
    BY <1>2, <1>4
  <2>2. /\ FlowTypes(listeners, Tail(q), d, v, st, FALSE, steps)
        /\ Flow(listeners, Tail(q), d, v, st, FALSE, steps)
        /\ Listening(Tail(q), d, st)
    <3>1. FlowTypes(listeners, q, c, v, st, FALSE, steps) /\ Flow(listeners, q, c, v, st, FALSE, steps)
      BY <1>2, <2>1
    <3> HIDE DEF q, c, v, st, im
    <3> QED
      BY <1>1, <3>1, FlowCalls
  <2>3. d \in Seq(CalledOnce) /\ Tail(q) \in Seq(Registration)
    BY <2>2 DEF FlowTypes
  <2> HIDE DEF d
  <2>4. /\ disp'.ev = disp.ev /\ disp'.queue = Tail(q) /\ disp'.visits = v /\ disp'.called = d
        /\ disp' \in Dispatches
    BY <1>1, <1>2, <1>4, <2>3 DEF Dispatches, d
  <2> QED
    BY <1>1, <2>1, <2>2, <2>4 DEF FlowInv
<1> QED
  BY <1>3, <1>4

LEMMA FlowNext == DocumentInv /\ FlowInv /\ [Next]_vars => FlowInv'
BY NextFlow, FlowIdleKeeps, AddListenerKeeps, RemoveListenerKeeps, OnEventKeeps, ThrowKeeps,
   DispatchEventKeeps, VisitKeeps, CallListenerKeeps DEF FlowStep

LEMMA FlowInitially == Init => FlowInv
<1> SUFFICES ASSUME Init PROVE FlowInv
  OBVIOUS
<1>1. listeners = << >> /\ disp = NoDispatch /\ steps = 0 /\ mode = "idle"
  BY DEF Init, RuntimeInit
<1>2. disp \in Dispatches
  BY <1>1 DEF NoDispatch, Dispatches, NewEvent, Events, Root
<1>3. /\ disp.queue = << >> /\ disp.called = << >> /\ disp.visits = << >>
      /\ disp.ev.stopped = NoNode /\ disp.ev.immediate = FALSE
  BY <1>1 DEF NoDispatch, NewEvent
<1>4. Flow(<< >>, << >>, << >>, << >>, NoNode, FALSE, 0)
  BY DEF Flow, Range, Increasing, VisitsApart, CalledInOrder, IdsKept
<1>5. << >> \in Seq(Registration) /\ 0 \in Nat /\ mode # "listener"
  BY <1>1
<1>6. Flow(listeners, disp.queue, disp.called, disp.visits, disp.ev.stopped,
           disp.ev.immediate, steps)
  BY <1>1, <1>3, <1>4
<1> QED
  BY <1>1, <1>2, <1>5, <1>6 DEF FlowInv

\* Whatever listeners do to the listeners, a dispatch calls each at most once,
\* those of a node in the order of registration, and none after the event was
\* stopped at another node (js_dom, dispatch_event).
THEOREM FlowIsKept == Spec => []FlowKept
<1>1. FlowInv => FlowKept
  <2> SUFFICES ASSUME FlowInv, NEW i \in DOMAIN disp.called, NEW j \in DOMAIN disp.called, i < j
               PROVE  LET a == disp.called[i]  b == disp.called[j]
                      IN /\ a.id # b.id
                         /\ "immediate" \notin a.does
                         /\ "stop" \in a.does => a.node = b.node
                         /\ a.node = b.node /\ a.capture = b.capture => a.id < b.id
                         /\ a.capture \/ ~b.capture
    BY DEF FlowKept
  <2> DEFINE c == disp.called
  <2>1. /\ CalledInOrder(c) /\ c \in Seq(CalledOnce)
        /\ IdsKept(Range(listeners) \cup Range(disp.queue) \cup Range(c), steps)
    BY DEF FlowInv, Flow, Dispatches
  <2> HIDE DEF c
  <2>2. i \in DOMAIN c /\ j \in DOMAIN c
    BY DEF c
  <2>3. c[i] \in Range(c) /\ c[j] \in Range(c) /\ c[i].id \in Int /\ c[j].id \in Int
    <3>1. c[i] \in CalledOnce /\ c[j] \in CalledOnce
      BY <2>1, <2>2
    <3> QED
      BY <2>2, <3>1 DEF Range, CalledOnce
  <2>4. c[i].id = c[j].id => SamePlace(c[i], c[j])
    BY <2>1, <2>3 DEF IdsKept
  <2>5. /\ SamePlace(c[i], c[j]) => c[i].id < c[j].id
        /\ Follows(c[i], c[j])
        /\ "immediate" \notin c[i].does
        /\ "stop" \in c[i].does => c[i].node = c[j].node
    BY <2>1, <2>2 DEF CalledInOrder
  <2> QED
    BY <2>3, <2>4, <2>5 DEF SamePlace, Follows, c
<1>2. Spec => []FlowInv
  BY FlowInitially, DocumentHolds, FlowNext, PTL DEF Spec
<1> QED
  BY <1>1, <1>2, PTL

-----------------------------------------------------------------------------
(* A whole dispatch, callback by callback.                                  *)

\* Induction over the places of a sequence.
LEMMA AllPlaces ==
  ASSUME NEW n \in Nat, NEW A, 0 \in A, \A k \in 1..n : k - 1 \in A => k \in A
  PROVE  0..n \subseteq A
<1> DEFINE D == {k \in 0..n : k \notin A}
<1> SUFFICES ASSUME D # {} PROVE FALSE
  OBVIOUS
<1>1. PICK m \in D : \A k \in D : m <= k
  <2>1. D \in SUBSET Nat
    OBVIOUS
  <2> HIDE DEF D
  <2> QED
    BY <2>1, LeastNumber
<1>2. m \in 1..n /\ m - 1 \in 0..n
  BY <1>1
<1>3. m - 1 \notin D
  BY <1>1, <1>2
<1> QED
  BY <1>1, <1>2, <1>3

\* f is the fold over n places, of which step holds the functions.
Folds(f, S, base, n, step) ==
  /\ f \in [0..n -> S] /\ f[0] = base
  /\ \A k \in 1..n : f[k] = step[k][f[k - 1]]

LEMMA FoldExists ==
  ASSUME NEW S, NEW base \in S, NEW n \in Nat, NEW step,
         \A k \in 1..n : step[k] \in [S -> S]
  PROVE  \E f : Folds(f, S, base, n, step)
<1> DEFINE A == {m \in 0..n : \E f : Folds(f, S, base, m, step)}
<1>1. 0 \in A
  <2>1. Folds([k \in 0..0 |-> base], S, base, 0, step)
    BY DEF Folds
  <2> QED
    BY <2>1
<1>2. ASSUME NEW m \in 1..n, m - 1 \in A PROVE m \in A
  <2>1. PICK g : Folds(g, S, base, m - 1, step)
    BY <1>2
  <2> DEFINE last == step[m][g[m - 1]]
             h == [k \in 0..m |-> IF k = m THEN last ELSE g[k]]
  <2>2. /\ g \in [0..(m - 1) -> S] /\ g[0] = base
        /\ \A k \in 1..(m - 1) : g[k] = step[k][g[k - 1]]
    BY <2>1 DEF Folds
  <2>3. last \in S
    <3>1. g[m - 1] \in S /\ step[m] \in [S -> S]
      BY <2>2
    <3> QED
      BY <3>1
  <2> HIDE DEF last
  <2>4. h \in [0..m -> S]
    BY <2>2, <2>3
  <2>5. h[0] = base
    BY <2>2
  <2>6. ASSUME NEW k \in 1..m PROVE h[k] = step[k][h[k - 1]]
    <3>1. CASE k = m
      <4>1. h[k] = last /\ h[k - 1] = g[m - 1]
        BY <3>1
      <4> QED
        BY <3>1, <4>1 DEF last
    <3>2. CASE k # m
      <4>1. k \in 1..(m - 1) /\ h[k] = g[k] /\ h[k - 1] = g[k - 1]
        BY <3>2
      <4> QED
        BY <2>2, <4>1
    <3> QED
      BY <3>1, <3>2
  <2>7. Folds(h, S, base, m, step)
    <3> HIDE DEF h
    <3> QED
      BY <2>4, <2>5, <2>6 DEF Folds
  <2> QED
    BY <2>7
<1>3. 0..n \subseteq A
  <2> HIDE DEF A
  <2> QED
    BY <1>1, <1>2, AllPlaces
<1>4. n \in A
  BY <1>3
<1> QED
  BY <1>4

\* The callbacks that stand for listeners, and the states of a dispatch to L.
Given == [id : Nat, node : Nat, type : Types, capture : BOOLEAN, once : {FALSE}, does : Doings]
DispatchState(L) == [ev : Events, called : Seq(Nat), left : {L}]

LEMMA EffectIs ==
  ASSUME NEW ev \in Events, NEW n \in Nat, NEW does \in Doings
  PROVE  LET im == "immediate" \in does
         IN  Effect(ev, n, does) =
               [type |-> ev.type, target |-> ev.target, bubbles |-> ev.bubbles,
                cancelable |-> ev.cancelable,
                prevented |-> ev.prevented \/ "prevent" \in does,
                immediate |-> ev.immediate \/ im,
                stopped |-> IF (im \/ "stop" \in does) /\ ev.stopped = NoNode THEN n
                            ELSE ev.stopped]
<1> USE DEF Events, Effect, PreventDefault, StopPropagation, StopImmediate
<1>0. n # NoNode
  BY DEF NoNode
<1>1. CASE "prevent" \in does /\ "stop" \in does /\ "immediate" \in does
  BY <1>0, <1>1
<1>2. CASE "prevent" \in does /\ "stop" \in does /\ "immediate" \notin does
  BY <1>0, <1>2
<1>3. CASE "prevent" \in does /\ "stop" \notin does /\ "immediate" \in does
  BY <1>0, <1>3
<1>4. CASE "prevent" \in does /\ "stop" \notin does /\ "immediate" \notin does
  BY <1>0, <1>4
<1>5. CASE "prevent" \notin does /\ "stop" \in does /\ "immediate" \in does
  BY <1>0, <1>5
<1>6. CASE "prevent" \notin does /\ "stop" \in does /\ "immediate" \notin does
  BY <1>0, <1>6
<1>7. CASE "prevent" \notin does /\ "stop" \notin does /\ "immediate" \in does
  BY <1>0, <1>7
<1>8. CASE "prevent" \notin does /\ "stop" \notin does /\ "immediate" \notin does
  BY <1>0, <1>8
<1> QED
  BY <1>1, <1>2, <1>3, <1>4, <1>5, <1>6, <1>7, <1>8

\* What several effects at one node come to.
LEMMA EffectsAdd ==
  ASSUME NEW ev \in Events, NEW n \in Nat, NEW does \in Doings,
         NEW x \in {"prevent", "stop", "immediate"}
  PROVE  /\ Effect(ev, n, does) \in Events
         /\ Effect(ev, n, does).type = ev.type /\ Effect(ev, n, does).target = ev.target
         /\ Effect(ev, n, {}) = ev
         /\ x \in does => Effect(Effect(ev, n, {x}), n, does) = Effect(ev, n, does)
         /\ Effect(ev, n, does) = ev =>
              Effect(Effect(ev, n, {x}), n, does \cup {x}) = Effect(ev, n, {x})
<1>0. {} \in Doings /\ {x} \in Doings /\ does \cup {x} \in Doings /\ n # NoNode
  BY DEF Doings, NoNode
<1> DEFINE R(e, s) ==
             [type |-> e.type, target |-> e.target, bubbles |-> e.bubbles,
              cancelable |-> e.cancelable,
              prevented |-> e.prevented \/ "prevent" \in s,
              immediate |-> e.immediate \/ "immediate" \in s,
              stopped |-> IF ("immediate" \in s \/ "stop" \in s) /\ e.stopped = NoNode THEN n
                          ELSE e.stopped]
<1>1. \A e \in Events, s \in Doings : Effect(e, n, s) = R(e, s)
  BY EffectIs
<1>2. \A e \in Events, s \in Doings : R(e, s) \in Events
  BY DEF Events, Doings
<1>3. Effect(ev, n, {}) = ev
  <2>1. Effect(ev, n, {}) = R(ev, {})
    BY <1>0, <1>1
  <2>2. /\ ev.prevented \in BOOLEAN /\ ev.immediate \in BOOLEAN
        /\ ev = [type |-> ev.type, target |-> ev.target, bubbles |-> ev.bubbles,
                 cancelable |-> ev.cancelable, prevented |-> ev.prevented,
                 immediate |-> ev.immediate, stopped |-> ev.stopped]
    BY DEF Events
  <2>3. /\ (ev.prevented \/ "prevent" \in {}) = ev.prevented
        /\ (ev.immediate \/ "immediate" \in {}) = ev.immediate
    BY <2>2
  <2>4. R(ev, {}) = ev
    BY <2>2, <2>3
  <2> QED
    BY <2>1, <2>4
<1>4. \A s \in Doings : Effect(Effect(ev, n, {x}), n, s) = R(R(ev, {x}), s)
  <2>1. Effect(ev, n, {x}) = R(ev, {x}) /\ R(ev, {x}) \in Events
    BY <1>0, <1>1, <1>2
  <2> HIDE DEF R
  <2> QED
    BY <1>1, <2>1
<1>5. x \in does => R(R(ev, {x}), does) = R(ev, does)
  BY <1>0
<1>6. R(ev, does) = ev => R(R(ev, {x}), does \cup {x}) = R(ev, {x})
  <2> SUFFICES ASSUME R(ev, does) = ev PROVE R(R(ev, {x}), does \cup {x}) = R(ev, {x})
    OBVIOUS
  <2>1. /\ "prevent" \in does => ev.prevented
        /\ "immediate" \in does => ev.immediate
        /\ "immediate" \in does \/ "stop" \in does => ev.stopped # NoNode
    <3>1. /\ R(ev, does).prevented = ev.prevented /\ R(ev, does).immediate = ev.immediate
          /\ R(ev, does).stopped = ev.stopped
      OBVIOUS
    <3>2. /\ (ev.prevented \/ "prevent" \in does) = ev.prevented
          /\ (ev.immediate \/ "immediate" \in does) = ev.immediate
          /\ (IF ("immediate" \in does \/ "stop" \in does) /\ ev.stopped = NoNode THEN n
              ELSE ev.stopped) = ev.stopped
      BY <3>1
    <3> QED
      BY <1>0, <3>2
  <2> DEFINE r == R(ev, {x})
  <2>2. /\ ((ev.prevented \/ "prevent" \in {x}) \/ "prevent" \in does \cup {x})
             = (ev.prevented \/ "prevent" \in {x})
        /\ ((ev.immediate \/ "immediate" \in {x}) \/ "immediate" \in does \cup {x})
             = (ev.immediate \/ "immediate" \in {x})
    BY <2>1
  <2>3. /\ r.type = ev.type /\ r.target = ev.target /\ r.bubbles = ev.bubbles
        /\ r.cancelable = ev.cancelable
        /\ r.prevented = (ev.prevented \/ "prevent" \in {x})
        /\ r.immediate = (ev.immediate \/ "immediate" \in {x})
        /\ r.stopped = IF ("immediate" \in {x} \/ "stop" \in {x}) /\ ev.stopped = NoNode THEN n
                       ELSE ev.stopped
        /\ r = [type |-> r.type, target |-> r.target, bubbles |-> r.bubbles,
                cancelable |-> r.cancelable, prevented |-> r.prevented,
                immediate |-> r.immediate, stopped |-> r.stopped]
    OBVIOUS
  <2>4. (IF ("immediate" \in does \cup {x} \/ "stop" \in does \cup {x}) /\ r.stopped = NoNode THEN n
         ELSE r.stopped) = r.stopped
    <3> HIDE DEF r
    <3> QED
      BY <1>0, <2>1, <2>3
  <2> HIDE DEF r
  <2>5. R(r, does \cup {x}) = r
    BY <2>2, <2>3, <2>4
  <2> QED
    BY <2>5 DEF r
<1>7. R(ev, does).type = ev.type /\ R(ev, does).target = ev.target
  OBVIOUS
<1> HIDE DEF R
<1> QED
  BY <1>0, <1>1, <1>2, <1>3, <1>4, <1>5, <1>6, <1>7

LEMMA EffectRepeats ==
  ASSUME NEW ev \in Events, NEW n \in Nat, NEW does \in Doings, NEW x \in does
  PROVE  Effect(Effect(ev, n, {x}), n, does) = Effect(ev, n, does)
<1>1. x \in {"prevent", "stop", "immediate"}
  BY DEF Doings
<1> QED
  BY <1>1, EffectsAdd

LEMMA RunCallbackIs ==
  ASSUME NEW L, NEW st \in DispatchState(L), NEW l \in Given
  PROVE  /\ RunCallback(st, l) \in DispatchState(L)
         /\ st.ev.immediate => RunCallback(st, l) = st
         /\ ~st.ev.immediate =>
              RunCallback(st, l) = [ev |-> Effect(st.ev, l.node, l.does),
                                    called |-> Append(st.called, l.id), left |-> L]
<1>1. /\ st.ev \in Events /\ st.called \in Seq(Nat) /\ st.left = L
      /\ l.node \in Nat /\ l.does \in Doings /\ l.once = FALSE /\ l.id \in Nat
  BY DEF DispatchState, Given
<1>2. Effect(st.ev, l.node, l.does) \in Events
  BY <1>1, EffectsAdd
<1>3. Append(st.called, l.id) \in Seq(Nat)
  BY <1>1
<1> QED
  BY <1>1, <1>2, <1>3 DEF RunCallback, DispatchState

\* The recursive functions of RunAll and Deliver.
RunningAll(st, ls, f) ==
  f = [i \in 0 .. Len(ls) |-> IF i = 0 THEN st ELSE RunCallback(f[i - 1], ls[i])]
Delivering(st, v, f) ==
  f = [i \in 0 .. Len(v) |-> IF i = 0 THEN st ELSE Invoke(f[i - 1], v[i])]

LEMMA RunAllIs ==
  ASSUME NEW st, NEW ls PROVE RunAll(st, ls) = (CHOOSE f : RunningAll(st, ls, f))[Len(ls)]
BY DEF RunAll, RunningAll

LEMMA DeliverIs ==
  ASSUME NEW st, NEW v PROVE Deliver(st, v) = (CHOOSE f : Delivering(st, v, f))[Len(v)]
BY DEF Deliver, Delivering

RunSteps(f, L, st, ls) ==
  /\ f \in [0..Len(ls) -> DispatchState(L)] /\ f[0] = st
  /\ \A k \in 1..Len(ls) : f[k] = RunCallback(f[k - 1], ls[k])

DeliverSteps(f, L, st, v) ==
  /\ f \in [0..Len(v) -> DispatchState(L)] /\ f[0] = st
  /\ \A k \in 1..Len(v) : f[k] = Invoke(f[k - 1], v[k])

LEMMA RunAllTakes ==
  ASSUME NEW L, NEW st \in DispatchState(L), NEW ls \in Seq(Given)
  PROVE  \E f : RunSteps(f, L, st, ls) /\ RunAll(st, ls) = f[Len(ls)]
<1> DEFINE n == Len(ls)
           S == DispatchState(L)
           step == [k \in 1..n |-> [x \in S |-> RunCallback(x, ls[k])]]
<1>1. n \in Nat /\ \A k \in 1..n : ls[k] \in Given
  OBVIOUS
<1>2. \A k \in 1..n : step[k] \in [S -> S]
  BY <1>1, RunCallbackIs
<1>3. \A s \in S, k \in 1..n : step[k][s] = RunCallback(s, ls[k])
  OBVIOUS
<1> HIDE DEF n, S, step
<1>4. PICK g : Folds(g, S, st, n, step)
  <2>1. st \in S
    BY DEF S
  <2> QED
    BY <1>1, <1>2, <2>1, FoldExists
<1> USE <1>4 DEF Folds
<1>5. \A k \in 1..n : g[k] = RunCallback(g[k - 1], ls[k])
  <2> TAKE k \in 1..n
  <2>1. g[k - 1] \in S
    BY <1>1
  <2> QED
    BY <1>3, <1>4, <2>1
<1>6. RunningAll(st, ls, g)
  <2> DEFINE h == [i \in 0 .. n |-> IF i = 0 THEN st ELSE RunCallback(g[i - 1], ls[i])]
  <2>1. \A i \in 0..n : g[i] = h[i]
    BY <1>1, <1>4, <1>5
  <2>2. g = [i \in 0..n |-> g[i]] /\ h = [i \in 0..n |-> h[i]]
    OBVIOUS
  <2>3. g = h
    <3> HIDE DEF h
    <3> QED
      BY <2>1, <2>2
  <2> QED
    BY <2>3 DEF RunningAll, n
<1> DEFINE f == CHOOSE f : RunningAll(st, ls, f)
<1>7. RunningAll(st, ls, f)
  BY <1>6
<1>8. RunAll(st, ls) = f[n]
  BY RunAllIs DEF n
<1> HIDE DEF f
<1>9. f[0] = st /\ \A k \in 1..n : f[k] = RunCallback(f[k - 1], ls[k])
  <2> DEFINE h == [i \in 0 .. n |-> IF i = 0 THEN st ELSE RunCallback(f[i - 1], ls[i])]
  <2>1. f = h
    BY <1>7 DEF RunningAll, n
  <2>2. h[0] = st /\ \A k \in 1..n : h[k] = RunCallback(f[k - 1], ls[k])
    BY <1>1
  <2> HIDE DEF h
  <2> QED
    BY <2>1, <2>2
<1>10. 0..n \subseteq {k \in 0..n : f[k] = g[k]}
  <2> DEFINE A == {k \in 0..n : f[k] = g[k]}
  <2>1. 0 \in A
    BY <1>1, <1>4, <1>9
  <2>2. ASSUME NEW k \in 1..n, k - 1 \in A PROVE k \in A
    BY <1>1, <1>5, <1>9, <2>2
  <2> HIDE DEF A
  <2>3. 0..n \subseteq A
    BY <1>1, <2>1, <2>2, AllPlaces
  <2> QED
    BY <2>3 DEF A
<1>11. g[n] = f[n]
  BY <1>1, <1>10
<1> QED
  BY <1>4, <1>5, <1>8, <1>11 DEF RunSteps, n, S

\* Nothing to run; the first; nothing after the event was stopped at once.
LEMMA RunAllFacts ==
  ASSUME NEW L, NEW st \in DispatchState(L), NEW ls \in Seq(Given)
  PROVE  /\ RunAll(st, ls) \in DispatchState(L)
         /\ RunAll(st, << >>) = st
         /\ ls # << >> => RunAll(st, ls) = RunAll(RunCallback(st, Head(ls)), Tail(ls))
         /\ st.ev.immediate => RunAll(st, ls) = st
<1> DEFINE n == Len(ls)
<1>1. n \in Nat /\ \A k \in 1..n : ls[k] \in Given
  OBVIOUS
<1>0. PICK f : RunSteps(f, L, st, ls) /\ RunAll(st, ls) = f[n]
  BY RunAllTakes
<1>2. /\ f \in [0..n -> DispatchState(L)] /\ f[0] = st /\ RunAll(st, ls) = f[n]
      /\ \A k \in 1..n : f[k] = RunCallback(f[k - 1], ls[k])
  BY <1>0 DEF RunSteps
<1>3. RunAll(st, << >>) = st
  <2>1. << >> \in Seq(Given) /\ Len(<< >>) = 0
    OBVIOUS
  <2>2. PICK g : RunSteps(g, L, st, << >>) /\ RunAll(st, << >>) = g[Len(<< >>)]
    BY <2>1, RunAllTakes
  <2> QED
    BY <2>1, <2>2 DEF RunSteps
<1>4. ASSUME ls # << >>
      PROVE  RunAll(st, ls) = RunAll(RunCallback(st, Head(ls)), Tail(ls))
  <2> DEFINE t == Tail(ls)
             st1 == RunCallback(st, Head(ls))
  <2>1. /\ t \in Seq(Given) /\ Len(t) = n - 1 /\ n - 1 \in Nat /\ Head(ls) = ls[1] /\ 1 \in 1..n
        /\ \A i \in 1..(n - 1) : t[i] = ls[i + 1]
    <3>1. n # 0
      BY <1>4, EmptySeq
    <3> QED
      BY <1>1, <1>4, <3>1, HeadTailProperties
  <2>2. st1 \in DispatchState(L) /\ st1 = f[1]
    <3>1. ls[1] \in Given
      BY <1>1, <2>1
    <3>2. f[1] = RunCallback(f[1 - 1], ls[1])
      BY <1>2, <2>1
    <3> QED
      BY <1>2, <2>1, <3>1, <3>2, RunCallbackIs
  <2> HIDE DEF t, st1, n
  <2>6. PICK g : RunSteps(g, L, st1, t) /\ RunAll(st1, t) = g[n - 1]
    BY <2>1, <2>2, RunAllTakes
  <2>3. /\ g \in [0..(n - 1) -> DispatchState(L)] /\ g[0] = st1 /\ RunAll(st1, t) = g[n - 1]
        /\ \A k \in 1..(n - 1) : g[k] = RunCallback(g[k - 1], t[k])
    BY <2>1, <2>6 DEF RunSteps
  <2>4. 0..(n - 1) \subseteq {k \in 0..(n - 1) : g[k] = f[k + 1]}
    <3> DEFINE A == {k \in 0..(n - 1) : g[k] = f[k + 1]}
    <3>1. 0 \in A
      BY <2>1, <2>2, <2>3
    <3>2. ASSUME NEW k \in 1..(n - 1), k - 1 \in A PROVE k \in A
      <4>1. g[k - 1] = f[k]
        BY <2>1, <3>2
      <4>2. k + 1 \in 1..n /\ (k + 1) - 1 = k /\ k \in 0..(n - 1)
        BY <1>1, <2>1
      <4>3. f[k + 1] = RunCallback(f[k], ls[k + 1])
        BY <1>2, <4>2
      <4> QED
        BY <2>1, <2>3, <4>1, <4>2, <4>3
    <3> HIDE DEF A
    <3>3. 0..(n - 1) \subseteq A
      BY <2>1, <3>1, <3>2, AllPlaces
    <3> QED
      BY <3>3 DEF A
  <2>5. g[n - 1] = f[n]
    BY <1>1, <2>1, <2>4
  <2> QED
    BY <1>2, <2>3, <2>5 DEF t, st1
<1>5. ASSUME st.ev.immediate PROVE RunAll(st, ls) = st
  <2> DEFINE A == {k \in 0..n : f[k] = st}
  <2>1. 0 \in A
    BY <1>1, <1>2
  <2>2. ASSUME NEW k \in 1..n, k - 1 \in A PROVE k \in A
    <3>1. f[k] = RunCallback(st, ls[k]) /\ ls[k] \in Given
      BY <1>1, <1>2, <2>2
    <3>2. RunCallback(st, ls[k]) = st
      BY <1>5, <3>1, RunCallbackIs
    <3> QED
      BY <3>1, <3>2
  <2> HIDE DEF A, n
  <2>3. 0..n \subseteq A
    BY <1>1, <2>1, <2>2, AllPlaces
  <2> QED
    BY <1>1, <1>2, <2>3 DEF A
<1>6. RunAll(st, ls) \in DispatchState(L)
  BY <1>1, <1>2
<1> QED
  BY <1>3, <1>4, <1>5, <1>6
LEMMA InvokeIs ==
  ASSUME NEW L \in Seq(Given), NEW st \in DispatchState(L), NEW v \in Stop
  PROVE  Invoke(st, v) \in DispatchState(L)
<1>1. st.left = L
  BY DEF DispatchState
<1>2. Matching(L, st.ev, v) \in Seq(Given)
  <2> DEFINE S == {l \in Range(L) : l.node = v.node /\ l.capture = v.capture /\ l.type = st.ev.type}
  <2>1. Matching(L, st.ev, v) = Among(L, S)
    BY DEF Matching
  <2> HIDE DEF S
  <2> QED
    BY <2>1, AmongFacts
<1>3. RunAll(st, Matching(L, st.ev, v)) \in DispatchState(L)
  BY <1>2, RunAllFacts
<1> QED
  BY <1>1, <1>3 DEF Invoke

LEMMA DeliverTakes ==
  ASSUME NEW L \in Seq(Given), NEW st \in DispatchState(L), NEW v \in Seq(Stop)
  PROVE  \E f : DeliverSteps(f, L, st, v) /\ Deliver(st, v) = f[Len(v)]
<1> DEFINE n == Len(v)
           S == DispatchState(L)
           step == [k \in 1..n |-> [x \in S |-> Invoke(x, v[k])]]
<1>1. n \in Nat /\ \A k \in 1..n : v[k] \in Stop
  OBVIOUS
<1>2. \A k \in 1..n : step[k] \in [S -> S]
  BY <1>1, InvokeIs
<1>3. \A s \in S, k \in 1..n : step[k][s] = Invoke(s, v[k])
  OBVIOUS
<1> HIDE DEF n, S, step
<1>4. PICK g : Folds(g, S, st, n, step)
  <2>1. st \in S
    BY DEF S
  <2> QED
    BY <1>1, <1>2, <2>1, FoldExists
<1> USE <1>4 DEF Folds
<1>5. \A k \in 1..n : g[k] = Invoke(g[k - 1], v[k])
  <2> TAKE k \in 1..n
  <2>1. g[k - 1] \in S
    BY <1>1
  <2> QED
    BY <1>3, <1>4, <2>1
<1>6. Delivering(st, v, g)
  <2> DEFINE h == [i \in 0 .. n |-> IF i = 0 THEN st ELSE Invoke(g[i - 1], v[i])]
  <2>1. \A i \in 0..n : g[i] = h[i]
    BY <1>1, <1>4, <1>5
  <2>2. g = [i \in 0..n |-> g[i]] /\ h = [i \in 0..n |-> h[i]]
    OBVIOUS
  <2>3. g = h
    <3> HIDE DEF h
    <3> QED
      BY <2>1, <2>2
  <2> QED
    BY <2>3 DEF Delivering, n
<1> DEFINE f == CHOOSE f : Delivering(st, v, f)
<1>7. Delivering(st, v, f)
  BY <1>6
<1>8. Deliver(st, v) = f[n]
  BY DeliverIs DEF n
<1> HIDE DEF f
<1>9. f[0] = st /\ \A k \in 1..n : f[k] = Invoke(f[k - 1], v[k])
  <2> DEFINE h == [i \in 0 .. n |-> IF i = 0 THEN st ELSE Invoke(f[i - 1], v[i])]
  <2>1. f = h
    BY <1>7 DEF Delivering, n
  <2>2. h[0] = st /\ \A k \in 1..n : h[k] = Invoke(f[k - 1], v[k])
    BY <1>1
  <2> HIDE DEF h
  <2> QED
    BY <2>1, <2>2
<1>10. 0..n \subseteq {k \in 0..n : f[k] = g[k]}
  <2> DEFINE A == {k \in 0..n : f[k] = g[k]}
  <2>1. 0 \in A
    BY <1>1, <1>4, <1>9
  <2>2. ASSUME NEW k \in 1..n, k - 1 \in A PROVE k \in A
    BY <1>1, <1>5, <1>9, <2>2
  <2> HIDE DEF A
  <2>3. 0..n \subseteq A
    BY <1>1, <2>1, <2>2, AllPlaces
  <2> QED
    BY <2>3 DEF A
<1>11. g[n] = f[n]
  BY <1>1, <1>10
<1> QED
  BY <1>4, <1>5, <1>8, <1>11 DEF DeliverSteps, n, S

\* Nowhere to go; the first visit.
LEMMA DeliverFacts ==
  ASSUME NEW L \in Seq(Given), NEW st \in DispatchState(L), NEW v \in Seq(Stop)
  PROVE  /\ Deliver(st, v) \in DispatchState(L)
         /\ Deliver(st, << >>) = st
         /\ v # << >> => Deliver(st, v) = Deliver(Invoke(st, Head(v)), Tail(v))
<1> DEFINE n == Len(v)
<1>1. n \in Nat /\ \A k \in 1..n : v[k] \in Stop
  OBVIOUS
<1>0. PICK f : DeliverSteps(f, L, st, v) /\ Deliver(st, v) = f[n]
  BY DeliverTakes
<1>2. /\ f \in [0..n -> DispatchState(L)] /\ f[0] = st /\ Deliver(st, v) = f[n]
      /\ \A k \in 1..n : f[k] = Invoke(f[k - 1], v[k])
  BY <1>0 DEF DeliverSteps
<1>3. Deliver(st, << >>) = st
  <2>1. << >> \in Seq(Stop) /\ Len(<< >>) = 0
    OBVIOUS
  <2>2. PICK g : DeliverSteps(g, L, st, << >>) /\ Deliver(st, << >>) = g[Len(<< >>)]
    BY <2>1, DeliverTakes
  <2> QED
    BY <2>1, <2>2 DEF DeliverSteps
<1>4. ASSUME v # << >>
      PROVE  Deliver(st, v) = Deliver(Invoke(st, Head(v)), Tail(v))
  <2> DEFINE t == Tail(v)
             st1 == Invoke(st, Head(v))
  <2>1. /\ t \in Seq(Stop) /\ Len(t) = n - 1 /\ n - 1 \in Nat /\ Head(v) = v[1] /\ 1 \in 1..n
        /\ \A i \in 1..(n - 1) : t[i] = v[i + 1]
    <3>1. n # 0
      BY <1>4, EmptySeq
    <3> QED
      BY <1>1, <1>4, <3>1, HeadTailProperties
  <2>2. st1 \in DispatchState(L) /\ st1 = f[1]
    <3>1. v[1] \in Stop
      BY <1>1, <2>1
    <3>2. f[1] = Invoke(f[1 - 1], v[1])
      BY <1>2, <2>1
    <3> QED
      BY <1>2, <2>1, <3>1, <3>2, InvokeIs
  <2> HIDE DEF t, st1, n
  <2>6. PICK g : DeliverSteps(g, L, st1, t) /\ Deliver(st1, t) = g[n - 1]
    BY <2>1, <2>2, DeliverTakes
  <2>3. /\ g \in [0..(n - 1) -> DispatchState(L)] /\ g[0] = st1 /\ Deliver(st1, t) = g[n - 1]
        /\ \A k \in 1..(n - 1) : g[k] = Invoke(g[k - 1], t[k])
    BY <2>1, <2>6 DEF DeliverSteps
  <2>4. 0..(n - 1) \subseteq {k \in 0..(n - 1) : g[k] = f[k + 1]}
    <3> DEFINE A == {k \in 0..(n - 1) : g[k] = f[k + 1]}
    <3>1. 0 \in A
      BY <2>1, <2>2, <2>3
    <3>2. ASSUME NEW k \in 1..(n - 1), k - 1 \in A PROVE k \in A
      <4>1. g[k - 1] = f[k]
        BY <2>1, <3>2
      <4>2. k + 1 \in 1..n /\ (k + 1) - 1 = k /\ k \in 0..(n - 1)
        BY <1>1, <2>1
      <4>3. f[k + 1] = Invoke(f[k], v[k + 1])
        BY <1>2, <4>2
      <4> QED
        BY <2>1, <2>3, <4>1, <4>2, <4>3
    <3> HIDE DEF A
    <3>3. 0..(n - 1) \subseteq A
      BY <2>1, <3>1, <3>2, AllPlaces
    <3> QED
      BY <3>3 DEF A
  <2>5. g[n - 1] = f[n]
    BY <1>1, <2>1, <2>4
  <2> QED
    BY <1>2, <2>3, <2>5 DEF t, st1
<1>5. Deliver(st, v) \in DispatchState(L)
  BY <1>1, <1>2
<1> QED
  BY <1>3, <1>4, <1>5

LEMMA SeqIsFunction ==
  ASSUME NEW S, NEW s \in Seq(S)
  PROVE  s \in [1..Len(s) -> S] /\ s = [i \in 1..Len(s) |-> s[i]]
BY LenProperties

\* The callbacks of q, of which the one with the id n does D[n].
GivenBy(q, D) == [i \in DOMAIN q |-> AsCallback(q[i], D[q[i].id])]

LEMMA GivenByFacts ==
  ASSUME NEW q \in Seq(Registration), NEW D \in [Nat -> Doings]
  PROVE  /\ GivenBy(q, D) \in Seq(Given) /\ Len(GivenBy(q, D)) = Len(q)
         /\ DOMAIN GivenBy(q, D) = DOMAIN q
         /\ q = << >> => GivenBy(q, D) = << >>
         /\ q # << >> => /\ GivenBy(q, D) # << >>
                        /\ Head(GivenBy(q, D)) = AsCallback(Head(q), D[Head(q).id])
                        /\ Tail(GivenBy(q, D)) = GivenBy(Tail(q), D)
<1> DEFINE g == GivenBy(q, D)
           n == Len(q)
<1>1. DOMAIN q = 1..n /\ n \in Nat /\ \A i \in 1..n : q[i] \in Registration
  OBVIOUS
<1>2. \A l \in Registration : AsCallback(l, D[l.id]) \in Given
  BY DEF Registration, Given, AsCallback
<1>3. DOMAIN g = 1..n /\ \A i \in 1..n : g[i] = AsCallback(q[i], D[q[i].id])
  BY <1>1 DEF GivenBy
<1>4. g \in [1..n -> Given]
  <2>1. g = [i \in 1..n |-> AsCallback(q[i], D[q[i].id])]
    BY <1>1 DEF GivenBy
  <2> HIDE DEF g
  <2> QED
    BY <1>1, <1>2, <2>1
<1> HIDE DEF g
<1>5. g \in Seq(Given) /\ Len(g) = n
  BY <1>1, <1>4
<1>6. ASSUME q = << >> PROVE g = << >>
  <2>1. n = 0
    BY <1>6
  <2> QED
    BY <1>5, <2>1, EmptySeq
<1>7. ASSUME q # << >>
      PROVE  /\ g # << >> /\ Head(g) = AsCallback(Head(q), D[Head(q).id])
             /\ Tail(g) = GivenBy(Tail(q), D)
  <2>1. n # 0 /\ 1 \in 1..n
    BY <1>1, <1>7, EmptySeq
  <2>2. g # << >>
    BY <1>5, <2>1
  <2>3. Head(q) = q[1] /\ Head(g) = g[1]
    BY <1>5, <1>7, <2>2, HeadTailProperties
  <2>4. /\ Tail(q) \in Seq(Registration) /\ Len(Tail(q)) = n - 1
        /\ \A i \in 1..(n - 1) : Tail(q)[i] = q[i + 1]
        /\ Tail(g) \in Seq(Given) /\ Len(Tail(g)) = n - 1
        /\ \A i \in 1..(n - 1) : Tail(g)[i] = g[i + 1]
    BY <1>5, <1>7, <2>2, HeadTailProperties
  <2>5. DOMAIN Tail(q) = 1..(n - 1) /\ DOMAIN Tail(g) = 1..(n - 1)
    BY <2>4
  <2>6. \A i \in 1..(n - 1) : Tail(g)[i] = AsCallback(Tail(q)[i], D[Tail(q)[i].id])
    <3> TAKE i \in 1..(n - 1)
    <3>1. i + 1 \in 1..n
      BY <1>1, <2>1
    <3> QED
      BY <1>3, <2>4, <3>1
  <2>7. Tail(g) = [i \in 1..(n - 1) |-> Tail(g)[i]]
    BY <2>4, SeqIsFunction
  <2>8. Tail(g) = GivenBy(Tail(q), D)
    BY <2>5, <2>6, <2>7 DEF GivenBy
  <2> QED
    BY <1>3, <2>1, <2>2, <2>3, <2>8
<1> QED
  BY <1>1, <1>3, <1>5, <1>6, <1>7 DEF g

LEMMA GivenByAppend ==
  ASSUME NEW q \in Seq(Registration), NEW l \in Registration, NEW D \in [Nat -> Doings]
  PROVE  /\ Append(q, l) \in Seq(Registration)
         /\ GivenBy(Append(q, l), D) = Append(GivenBy(q, D), AsCallback(l, D[l.id]))
<1> DEFINE p == Append(q, l)
           c == AsCallback(l, D[l.id])
           g == GivenBy(q, D)
           n == Len(q)
<1>1. /\ p \in Seq(Registration) /\ Len(p) = n + 1 /\ n \in Nat /\ p[n + 1] = l
      /\ (\A i \in 1..n : p[i] = q[i]) /\ DOMAIN q = 1..n /\ DOMAIN p = 1..(n + 1)
  BY AppendProperties
<1>2. /\ c \in Given /\ g \in Seq(Given) /\ Len(g) = n
      /\ \A i \in 1..n : g[i] = AsCallback(q[i], D[q[i].id])
  BY <1>1, GivenByFacts DEF Registration, Given, AsCallback, GivenBy
<1> HIDE DEF p, g
<1>3. /\ Append(g, c) \in Seq(Given) /\ Len(Append(g, c)) = n + 1 /\ Append(g, c)[n + 1] = c
      /\ \A i \in 1..n : Append(g, c)[i] = g[i]
  BY <1>2, AppendProperties
<1> HIDE DEF c
<1> DEFINE e == Append(g, c)
           h == [i \in 1..(n + 1) |-> AsCallback(p[i], D[p[i].id])]
<1>4. e = [i \in 1..(n + 1) |-> e[i]] /\ h = [i \in 1..(n + 1) |-> h[i]]
  <2>1. e \in Seq(Given) /\ Len(e) = n + 1
    BY <1>3
  <2> HIDE DEF e
  <2>2. e = [i \in 1..(n + 1) |-> e[i]]
    BY <2>1, SeqIsFunction
  <2> QED
    BY <2>2
<1>5. \A i \in 1..(n + 1) : e[i] = h[i]
  <2> TAKE i \in 1..(n + 1)
  <2>1. CASE i = n + 1
    BY <1>1, <1>3, <2>1 DEF c
  <2>2. CASE i \in 1..n
    BY <1>1, <1>2, <1>3, <2>2
  <2>3. i = n + 1 \/ i \in 1..n
    BY <1>1
  <2> HIDE DEF e, h
  <2> QED
    BY <2>1, <2>2, <2>3
<1>6. e = h
  <2> HIDE DEF e, h
  <2> QED
    BY <1>4, <1>5
<1> QED
  BY <1>1, <1>6 DEF GivenBy, p, g, c

\* The elements kept of s, place by place.
LEMMA KeepingSteps ==
  ASSUME NEW T, NEW s \in Seq(T), NEW S, NEW f, Keeping(s, S, f)
  PROVE  /\ f[0] = << >>
         /\ \A k \in 1..Len(s) : f[k] = IF s[k] \in S THEN Append(f[k - 1], s[k]) ELSE f[k - 1]
<1> DEFINE e == [i \in 0 .. Len(s) |->
                  IF i = 0 THEN << >>
                  ELSE IF s[i] \in S THEN Append(f[i - 1], s[i]) ELSE f[i - 1]]
<1>0. Len(s) \in Nat
  OBVIOUS
<1>1. f = e
  BY DEF Keeping
<1>2. e[0] = << >>
  BY <1>0
<1>3. \A k \in 1..Len(s) : k \in 0..Len(s) /\ k # 0
  BY <1>0
<1>4. \A k \in 1..Len(s) : e[k] = IF s[k] \in S THEN Append(f[k - 1], s[k]) ELSE f[k - 1]
  BY <1>3
<1> HIDE DEF e
<1> QED
  BY <1>1, <1>2, <1>4

\* Those taken down for a visit stand for the listeners taken down.
LEMMA MatchingGiven ==
  ASSUME NEW ls \in Seq(Registration), NEW D \in [Nat -> Doings], NEW ev, NEW w
  PROVE  Matching(GivenBy(ls, D), ev, w) = GivenBy(Matching(ls, ev, w), D)
<1> DEFINE g == GivenBy(ls, D)
           n == Len(ls)
           In(l) == l.node = w.node /\ l.capture = w.capture /\ l.type = ev.type
           S == {l \in Range(ls) : In(l)}
           T == {l \in Range(g) : In(l)}
<1>1. /\ n \in Nat /\ g \in Seq(Given) /\ Len(g) = n /\ DOMAIN ls = 1..n
      /\ \A k \in 1..n : g[k] = AsCallback(ls[k], D[ls[k].id])
  BY GivenByFacts DEF GivenBy
<1>2. \A k \in 1..n : g[k] \in T <=> ls[k] \in S
  <2> TAKE k \in 1..n
  <2>1. In(g[k]) <=> In(ls[k])
    <3>1. g[k] = AsCallback(ls[k], D[ls[k].id])
      BY <1>1
    <3>2. g[k].node = ls[k].node /\ g[k].capture = ls[k].capture /\ g[k].type = ls[k].type
      BY <3>1 DEF AsCallback
    <3> HIDE DEF g
    <3> QED
      BY <3>2
  <2>2. g[k] \in Range(g) /\ ls[k] \in Range(ls)
    BY <1>1 DEF Range
  <2> HIDE DEF g, In
  <2> QED
    BY <2>1, <2>2
<1>3. Matching(g, ev, w) = Among(g, T) /\ Matching(ls, ev, w) = Among(ls, S)
  BY DEF Matching
<1> HIDE DEF g, n, S, T
<1> DEFINE a == CHOOSE f : Keeping(g, T, f)
           b == CHOOSE f : Keeping(ls, S, f)
<1>4. Keeping(g, T, a) /\ Keeping(ls, S, b)
  BY <1>1, KeepingExists
<1>5. Among(g, T) = a[n] /\ Among(ls, S) = b[n]
  BY <1>1, AmongIs DEF n
<1> HIDE DEF a, b
<1>6. /\ a[0] = << >> /\ b[0] = << >>
      /\ \A k \in 1..n : /\ a[k] = IF g[k] \in T THEN Append(a[k - 1], g[k]) ELSE a[k - 1]
                         /\ b[k] = IF ls[k] \in S THEN Append(b[k - 1], ls[k]) ELSE b[k - 1]
  BY <1>1, <1>4, KeepingSteps DEF n
<1> DEFINE A == {k \in 0..n : b[k] \in Seq(Registration) /\ a[k] = GivenBy(b[k], D)}
<1>7. 0 \in A
  <2>1. << >> \in Seq(Registration)
    OBVIOUS
  <2>2. GivenBy(<< >>, D) = << >>
    BY <2>1, GivenByFacts
  <2>3. 0 \in 0..n /\ b[0] \in Seq(Registration) /\ a[0] = GivenBy(b[0], D)
    BY <1>1, <1>6, <2>1, <2>2
  <2> QED
    BY <2>3
<1>8. ASSUME NEW k \in 1..n, k - 1 \in A PROVE k \in A
  <2>1. k \in 0..n /\ b[k - 1] \in Seq(Registration) /\ a[k - 1] = GivenBy(b[k - 1], D)
        /\ ls[k] \in Registration /\ g[k] = AsCallback(ls[k], D[ls[k].id])
    BY <1>1, <1>8
  <2>2. CASE ls[k] \in S
    <3>1. b[k] = Append(b[k - 1], ls[k]) /\ a[k] = Append(a[k - 1], g[k])
      BY <1>2, <1>6, <2>2
    <3>2. /\ Append(b[k - 1], ls[k]) \in Seq(Registration)
          /\ GivenBy(Append(b[k - 1], ls[k]), D) = Append(GivenBy(b[k - 1], D), g[k])
      <4> DEFINE q == b[k - 1]
                 l == ls[k]
      <4>1. q \in Seq(Registration) /\ l \in Registration /\ g[k] = AsCallback(l, D[l.id])
        BY <2>1
      <4> HIDE DEF q, l
      <4>2. /\ Append(q, l) \in Seq(Registration)
            /\ GivenBy(Append(q, l), D) = Append(GivenBy(q, D), AsCallback(l, D[l.id]))
        BY <4>1, GivenByAppend
      <4> QED
        BY <4>1, <4>2 DEF q, l
    <3> QED
      BY <2>1, <3>1, <3>2
  <2>3. CASE ls[k] \notin S
    BY <1>2, <1>6, <2>1, <2>3
  <2> QED
    BY <2>2, <2>3
<1> HIDE DEF A
<1>9. 0..n \subseteq A
  BY <1>1, <1>7, <1>8, AllPlaces
<1>10. a[n] = GivenBy(b[n], D)
  BY <1>1, <1>9 DEF A
<1> QED
  BY <1>3, <1>5, <1>10 DEF g

-----------------------------------------------------------------------------
(* The dispatch in progress and the whole dispatch.                         *)

Ids(c) == [i \in DOMAIN c |-> c[i].id]

\* What a listener does is known once it has returned.
Fits(D, c, run) ==
  \A i \in DOMAIN c : /\ c[i].does \subseteq D[c[i].id]
                      /\ (run /\ i = Len(c)) \/ D[c[i].id] = c[i].does

(* Of a dispatch d, in which a listener is running or not, if the listeners *)
(* do as D says: the whole of it; what has happened once the listener that  *)
(* runs has done all it does; and what comes of it.                         *)
Whole(d, D) ==
  Dispatch(d.path, GivenBy(d.before, D), NewEvent(d.ev.type, d.ev.target, TRUE, TRUE))

EventThen(d, run, D) ==
  IF run THEN Effect(d.ev, Last(d.called).node, D[Last(d.called).id]) ELSE d.ev

Then(d, run, D) ==
  [ev |-> EventThen(d, run, D), called |-> Ids(d.called), left |-> GivenBy(d.before, D)]

Rest(d, run, D) == Deliver(RunAll(Then(d, run, D), GivenBy(d.queue, D)), d.visits)

OnCourse(d, run) ==
  /\ run => d.called # << >> /\ Effect(d.ev, Last(d.called).node, Last(d.called).does) = d.ev
  /\ \A D \in [Nat -> Doings] : Fits(D, d.called, run) => Whole(d, D) = Rest(d, run, D)

LEMMA IdsFacts ==
  ASSUME NEW c \in Seq(CalledOnce)
  PROVE  /\ Ids(c) \in Seq(Nat) /\ Len(Ids(c)) = Len(c)
         /\ \A k \in CalledOnce : Ids(Append(c, k)) = Append(Ids(c), k.id)
<1> DEFINE n == Len(c)
<1>1. n \in Nat /\ DOMAIN c = 1..n /\ \A i \in 1..n : c[i] \in CalledOnce /\ c[i].id \in Nat
  <2>1. n \in Nat /\ DOMAIN c = 1..n /\ \A i \in 1..n : c[i] \in CalledOnce
    OBVIOUS
  <2> QED
    BY <2>1 DEF CalledOnce
<1>2. Ids(c) = [i \in 1..n |-> c[i].id]
  BY <1>1 DEF Ids
<1>3. Ids(c) \in [1..n -> Nat]
  BY <1>1, <1>2
<1>4. Ids(c) \in Seq(Nat) /\ Len(Ids(c)) = n
  BY <1>1, <1>3
<1>5. ASSUME NEW k \in CalledOnce PROVE Ids(Append(c, k)) = Append(Ids(c), k.id)
  <2> DEFINE a == Append(c, k)
             b == Append(Ids(c), k.id)
  <2>1. k.id \in Nat
    BY DEF CalledOnce
  <2>2. /\ a \in Seq(CalledOnce) /\ Len(a) = n + 1 /\ a[n + 1] = k /\ \A i \in 1..n : a[i] = c[i]
    BY AppendProperties
  <2>3. /\ b \in Seq(Nat) /\ Len(b) = n + 1 /\ b[n + 1] = k.id /\ \A i \in 1..n : b[i] = Ids(c)[i]
    BY <1>4, <2>1, AppendProperties
  <2>4. DOMAIN a = 1..(n + 1)
    BY <2>2
  <2> HIDE DEF a, b, n
  <2>5. b = [i \in 1..(n + 1) |-> b[i]]
    BY <2>3, SeqIsFunction
  <2>6. \A i \in 1..(n + 1) : b[i] = a[i].id
    <3> TAKE i \in 1..(n + 1)
    <3>1. i = n + 1 \/ i \in 1..n
      BY <1>1
    <3>2. \A j \in 1..n : Ids(c)[j] = c[j].id
      BY <1>2
    <3> QED
      BY <2>2, <2>3, <3>1, <3>2
  <2>7. b = [i \in 1..(n + 1) |-> a[i].id]
    BY <2>5, <2>6
  <2> QED
    BY <2>4, <2>7 DEF Ids, a, b
<1> QED
  BY <1>4, <1>5

LEMMA ThenIsState ==
  ASSUME NEW d \in Dispatches, NEW run \in BOOLEAN, run => d.called # << >>,
         NEW D \in [Nat -> Doings]
  PROVE  /\ GivenBy(d.before, D) \in Seq(Given)
         /\ Then(d, run, D) \in DispatchState(GivenBy(d.before, D))
<1>1. d.ev \in Events /\ d.called \in Seq(CalledOnce) /\ d.before \in Seq(Registration)
  BY DEF Dispatches
<1>2. EventThen(d, run, D) \in Events
  <2>1. CASE run
    <3>1. Last(d.called) \in CalledOnce
      BY <1>1, <2>1, LastFront
    <3>2. Last(d.called).node \in Nat /\ D[Last(d.called).id] \in Doings
      BY <3>1 DEF CalledOnce
    <3>3. Effect(d.ev, Last(d.called).node, D[Last(d.called).id]) \in Events
      BY <1>1, <3>2, EffectsAdd
    <3> QED
      BY <2>1, <3>3 DEF EventThen
  <2>2. CASE ~run
    BY <1>1, <2>2 DEF EventThen
  <2> QED
    BY <2>1, <2>2
<1>3. Ids(d.called) \in Seq(Nat)
  BY <1>1, IdsFacts
<1>4. GivenBy(d.before, D) \in Seq(Given)
  BY <1>1, GivenByFacts
<1> QED
  BY <1>2, <1>3, <1>4 DEF Then, DispatchState

\* At the start all is to come.
LEMMA CourseStarts ==
  ASSUME NEW d \in Dispatches, d.queue = << >>, d.called = << >>, d.visits = d.path,
         d.ev = NewEvent(d.ev.type, d.ev.target, TRUE, TRUE)
  PROVE  OnCourse(d, FALSE)
<1> SUFFICES ASSUME NEW D \in [Nat -> Doings] PROVE Whole(d, D) = Rest(d, FALSE, D)
  BY DEF OnCourse
<1> DEFINE L == GivenBy(d.before, D)
<1>1. L \in Seq(Given) /\ Then(d, FALSE, D) \in DispatchState(L)
  BY ThenIsState
<1>2. Ids(<< >>) = << >>
  BY DEF Ids
<1>3. Then(d, FALSE, D) = [ev |-> d.ev, called |-> << >>, left |-> L]
  BY <1>2 DEF Then, EventThen
<1>4. GivenBy(d.queue, D) = << >>
  <2>1. << >> \in Seq(Registration)
    OBVIOUS
  <2> QED
    BY <2>1, GivenByFacts
<1>5. << >> \in Seq(Given)
  OBVIOUS
<1> HIDE DEF L
<1>6. RunAll(Then(d, FALSE, D), << >>) = Then(d, FALSE, D)
  BY <1>1, <1>5, RunAllFacts
<1> QED
  BY <1>3, <1>4, <1>6 DEF Whole, Rest, Dispatch, L

\* The next visit.
LEMMA CourseVisits ==
  ASSUME NEW d \in Dispatches, OnCourse(d, FALSE), d.queue = << >>, d.visits # << >>,
         NEW e, e = [d EXCEPT !.visits = Tail(@),
                              !.queue = IF Enters(d.ev, Head(d.visits))
                                        THEN Matching(d.before, d.ev, Head(d.visits)) ELSE << >>]
  PROVE  OnCourse(e, FALSE)
<1> DEFINE v == Head(d.visits)
           q == IF Enters(d.ev, v) THEN Matching(d.before, d.ev, v) ELSE << >>
<1>1. /\ e.ev = d.ev /\ e.called = d.called /\ e.before = d.before /\ e.path = d.path
      /\ e.visits = Tail(d.visits) /\ e.queue = q
  BY DEF Dispatches
<1>2. d.visits \in Seq(Stop) /\ d.before \in Seq(Registration)
  BY DEF Dispatches
<1> SUFFICES ASSUME NEW D \in [Nat -> Doings], Fits(D, e.called, FALSE)
             PROVE  Whole(e, D) = Rest(e, FALSE, D)
  BY DEF OnCourse
<1> DEFINE L == GivenBy(d.before, D)
           st == Then(d, FALSE, D)
<1>3. L \in Seq(Given) /\ st \in DispatchState(L) /\ st.ev = d.ev /\ st.left = L
  BY ThenIsState DEF Then, EventThen
<1>4. Whole(e, D) = Whole(d, D) /\ Then(e, FALSE, D) = st
  BY <1>1 DEF Whole, Then, EventThen
<1>5. Whole(d, D) = Rest(d, FALSE, D)
  BY <1>1 DEF OnCourse
<1>6. GivenBy(<< >>, D) = << >> /\ << >> \in Seq(Given)
  <2>1. << >> \in Seq(Registration)
    OBVIOUS
  <2> QED
    BY <2>1, GivenByFacts
<1> HIDE DEF L, st, v, q
<1>7. RunAll(st, << >>) = st
  BY <1>3, <1>6, RunAllFacts
<1>8. Rest(d, FALSE, D) = Deliver(st, d.visits)
  BY <1>6, <1>7 DEF Rest, st
<1>9. Deliver(st, d.visits) = Deliver(Invoke(st, v), Tail(d.visits))
  BY <1>2, <1>3, DeliverFacts DEF v
<1>10. Invoke(st, v) = RunAll(st, GivenBy(q, D))
  <2>1. CASE Enters(d.ev, v)
    <3>1. q = Matching(d.before, d.ev, v)
      BY <2>1 DEF q
    <3>2. Matching(L, d.ev, v) = GivenBy(q, D)
      BY <1>2, <3>1, MatchingGiven DEF L
    <3> QED
      BY <1>3, <2>1, <3>2 DEF Invoke
  <2>2. CASE ~Enters(d.ev, v)
    <3>1. q = << >>
      BY <2>2 DEF q
    <3> QED
      BY <1>3, <1>6, <1>7, <2>2, <3>1 DEF Invoke
  <2> QED
    BY <2>1, <2>2
<1> QED
  BY <1>1, <1>4, <1>5, <1>8, <1>9, <1>10 DEF Rest

\* The next listener.
LEMMA CourseCalls ==
  ASSUME NEW d \in Dispatches, OnCourse(d, FALSE), d.queue # << >>, ~d.ev.immediate,
         NEW e, e = [d EXCEPT !.queue = Tail(@), !.called = Append(@, CallOf(Head(d.queue)))]
  PROVE  OnCourse(e, TRUE)
<1> DEFINE q == d.queue
           c == d.called
           h == Head(q)
           k == CallOf(h)
           m == Len(c)
<1>1. /\ d.ev \in Events /\ q \in Seq(Registration) /\ c \in Seq(CalledOnce)
      /\ d.before \in Seq(Registration)
      /\ e.ev = d.ev /\ e.called = Append(c, k) /\ e.before = d.before /\ e.path = d.path
      /\ e.visits = d.visits /\ e.queue = Tail(q)
  BY DEF Dispatches
<1>2. h \in Registration /\ k \in CalledOnce /\ k.id = h.id /\ k.node = h.node /\ k.does = {}
  <2>1. h \in Registration
    BY <1>1, TailFacts
  <2> HIDE DEF h
  <2> QED
    BY <2>1 DEF CallOf, Registration, CalledOnce, Doings
<1>3. h.id \in Nat /\ h.node \in Nat
  BY <1>2 DEF Registration
<1> HIDE DEF q, c, h, k
<1>4. /\ e.called # << >> /\ Last(e.called) = k /\ Len(e.called) = m + 1 /\ m \in Nat
      /\ \A i \in 1..m : e.called[i] = c[i]
      /\ DOMAIN c = 1..m /\ DOMAIN e.called = 1..(m + 1)
  <2>1. /\ e.called \in Seq(CalledOnce) /\ Len(e.called) = m + 1 /\ e.called # << >>
        /\ (\A i \in 1..m : e.called[i] = c[i]) /\ e.called[m + 1] = k
    <3> DEFINE p == Append(c, k)
    <3>1. /\ p \in Seq(CalledOnce) /\ Len(p) = m + 1 /\ p # << >>
          /\ (\A i \in 1..m : p[i] = c[i]) /\ p[m + 1] = k
      BY <1>1, <1>2, AppendProperties
    <3> HIDE DEF p
    <3>2. e.called = p
      BY <1>1 DEF p
    <3> QED
      BY <3>1, <3>2
  <2>2. Last(e.called) = e.called[Len(e.called)]
    BY <2>1, LastFront
  <2>3. m \in Nat /\ DOMAIN c = 1..m
    BY <1>1
  <2> QED
    BY <2>1, <2>2, <2>3
<1>5. Effect(e.ev, k.node, k.does) = e.ev
  <2>1. Effect(d.ev, k.node, {}) = d.ev
    <3>1. {} \in Doings /\ "stop" \in {"prevent", "stop", "immediate"}
      BY DEF Doings
    <3> QED
      BY <1>1, <1>2, <1>3, <3>1, EffectsAdd
  <2> QED
    BY <1>1, <1>2, <2>1
<1>6. ASSUME NEW D \in [Nat -> Doings], Fits(D, e.called, TRUE)
      PROVE  Whole(e, D) = Rest(e, TRUE, D)
  <2> DEFINE L == GivenBy(d.before, D)
             st == Then(d, FALSE, D)
             g == GivenBy(q, D)
             a == AsCallback(h, D[h.id])
  <2>1. L \in Seq(Given) /\ st \in DispatchState(L) /\ st.ev = d.ev /\ st.called = Ids(c)
    BY ThenIsState DEF Then, EventThen, c
  <2>2. Fits(D, c, FALSE)
    <3> SUFFICES ASSUME NEW i \in 1..m
                 PROVE  c[i].does \subseteq D[c[i].id] /\ D[c[i].id] = c[i].does
      BY <1>4 DEF Fits
    <3>1. i \in DOMAIN e.called /\ i # Len(e.called) /\ e.called[i] = c[i]
      BY <1>4
    <3> QED
      BY <1>6, <3>1 DEF Fits
  <2>3. Whole(d, D) = Rest(d, FALSE, D)
    BY <2>2 DEF OnCourse, c
  <2>4. Whole(e, D) = Whole(d, D)
    BY <1>1 DEF Whole
  <2>5. /\ g \in Seq(Given) /\ g # << >> /\ Head(g) = a /\ Tail(g) = GivenBy(Tail(q), D)
    BY <1>1, GivenByFacts DEF q, h
  <2>6. a \in Given /\ a.node = h.node /\ a.id = h.id /\ a.does = D[h.id]
    BY <1>2, <1>3 DEF AsCallback, Given, Registration
  <2> HIDE DEF L, st, g, a
  <2>7. RunAll(st, g) = RunAll(RunCallback(st, a), GivenBy(Tail(q), D))
    <3>1. RunAll(st, g) = RunAll(RunCallback(st, Head(g)), Tail(g))
      BY <2>1, <2>5, RunAllFacts
    <3> QED
      BY <2>5, <3>1
  <2>8. RunCallback(st, a) = [ev |-> Effect(d.ev, h.node, D[h.id]),
                              called |-> Append(Ids(c), h.id), left |-> L]
    <3>1. ~st.ev.immediate
      BY <2>1
    <3>2. RunCallback(st, a) = [ev |-> Effect(st.ev, a.node, a.does),
                                called |-> Append(st.called, a.id), left |-> L]
      BY <2>1, <2>6, <3>1, RunCallbackIs
    <3> QED
      BY <2>1, <2>6, <3>2
  <2>9. Then(e, TRUE, D) = [ev |-> Effect(d.ev, h.node, D[h.id]),
                            called |-> Append(Ids(c), h.id), left |-> L]
    <3>1. Ids(e.called) = Append(Ids(c), h.id)
      BY <1>1, <1>2, IdsFacts
    <3>2. EventThen(e, TRUE, D) = Effect(d.ev, h.node, D[h.id])
      BY <1>1, <1>2, <1>4 DEF EventThen
    <3> QED
      BY <1>1, <3>1, <3>2 DEF Then, L
  <2> QED
    BY <1>1, <2>3, <2>4, <2>7, <2>8, <2>9 DEF Rest, st, g, q
<1> QED
  BY <1>4, <1>5, <1>6 DEF OnCourse

\* Once the event was stopped at once, none of those taken down is called.
LEMMA CourseStops ==
  ASSUME NEW d \in Dispatches, OnCourse(d, FALSE), d.ev.immediate,
         NEW e, e = [d EXCEPT !.queue = << >>]
  PROVE  OnCourse(e, FALSE)
<1>1. /\ e.ev = d.ev /\ e.called = d.called /\ e.before = d.before /\ e.path = d.path
      /\ e.visits = d.visits /\ e.queue = << >>
      /\ d.queue \in Seq(Registration) /\ d.before \in Seq(Registration)
  BY DEF Dispatches
<1> SUFFICES ASSUME NEW D \in [Nat -> Doings], Fits(D, e.called, FALSE)
             PROVE  Whole(e, D) = Rest(e, FALSE, D)
  BY DEF OnCourse
<1> DEFINE L == GivenBy(d.before, D)
           st == Then(d, FALSE, D)
<1>2. st \in DispatchState(L) /\ st.ev = d.ev
  BY ThenIsState DEF Then, EventThen
<1>3. Whole(e, D) = Whole(d, D) /\ Then(e, FALSE, D) = st /\ Whole(d, D) = Rest(d, FALSE, D)
  BY <1>1 DEF Whole, Then, EventThen, OnCourse
<1>4. << >> \in Seq(Given) /\ GivenBy(e.queue, D) = << >> /\ GivenBy(d.queue, D) \in Seq(Given)
  <2>1. << >> \in Seq(Registration) /\ << >> \in Seq(Given)
    OBVIOUS
  <2> QED
    BY <1>1, <2>1, GivenByFacts
<1> HIDE DEF L, st
<1>5. RunAll(st, GivenBy(d.queue, D)) = st /\ RunAll(st, << >>) = st
  BY <1>2, <1>4, RunAllFacts
<1> QED
  BY <1>1, <1>3, <1>4, <1>5 DEF Rest, st

\* The listener that runs does x.
LEMMA CourseDoes ==
  ASSUME NEW d \in Dispatches, OnCourse(d, TRUE), NEW x \in {"prevent", "stop", "immediate"},
         NEW e \in Dispatches,
         e.ev = Effect(d.ev, Last(d.called).node, {x}), LastDoes(d.called, e.called, x),
         e.queue = d.queue, e.visits = d.visits, e.before = d.before, e.path = d.path
  PROVE  OnCourse(e, TRUE)
<1> DEFINE c == d.called
           b == e.called
           m == Len(c)
           l == Last(c)
<1>1. d.ev \in Events /\ c \in Seq(CalledOnce) /\ c # << >> /\ Effect(d.ev, l.node, l.does) = d.ev
  BY DEF Dispatches, OnCourse
<1>2. /\ b \in Seq(CalledOnce) /\ Len(b) = m
      /\ \A i \in 1..m : b[i].id = c[i].id /\ SamePlace(b[i], c[i])
      /\ \A i \in 1..(m - 1) : b[i] = c[i]
      /\ b[m].does = c[m].does \cup {x}
  BY DEF LastDoes
<1> HIDE DEF c, b
<1>3. /\ m \in Nat \ {0} /\ l = c[m] /\ l \in CalledOnce /\ DOMAIN c = 1..m /\ DOMAIN b = 1..m
      /\ b # << >> /\ Last(b) = b[m] /\ m \in 1..m
  <2>1. m \in Nat \ {0} /\ l = c[m] /\ l \in CalledOnce /\ DOMAIN c = 1..m
    BY <1>1, LastFront
  <2>2. b # << >>
    BY <1>2, <2>1
  <2>3. Last(b) = b[Len(b)]
    BY <1>2, <2>2, LastFront
  <2> QED
    BY <1>2, <2>1, <2>2, <2>3
<1>4. Last(b).node = l.node /\ Last(b).id = l.id /\ Last(b).does = l.does \cup {x}
  BY <1>2, <1>3 DEF SamePlace
<1>5. l.node \in Nat /\ l.does \in Doings /\ l.id \in Nat
  BY <1>3 DEF CalledOnce
<1>0. e.ev = Effect(d.ev, l.node, {x})
  BY DEF c
<1> HIDE DEF l, m
<1>6. Effect(e.ev, Last(b).node, Last(b).does) = e.ev
  <2>1. Effect(Effect(d.ev, l.node, {x}), l.node, l.does \cup {x}) = Effect(d.ev, l.node, {x})
    BY <1>1, <1>5, EffectsAdd
  <2> QED
    BY <1>4, <2>1 DEF l, c
<1>7. ASSUME NEW D \in [Nat -> Doings], Fits(D, b, TRUE)
      PROVE  Whole(e, D) = Rest(e, TRUE, D)
  <2>1. Fits(D, c, TRUE)
    <3> SUFFICES ASSUME NEW i \in 1..m
                 PROVE  c[i].does \subseteq D[c[i].id] /\ (i = m \/ D[c[i].id] = c[i].does)
      BY <1>3 DEF Fits, m
    <3>1. b[i].does \subseteq D[b[i].id] /\ (i = m \/ D[b[i].id] = b[i].does)
      BY <1>2, <1>3, <1>7 DEF Fits
    <3>2. CASE i = m
      BY <1>2, <3>1, <3>2
    <3>3. CASE i # m
      <4>1. i \in 1..(m - 1)
        BY <1>3, <3>3
      <4> QED
        BY <1>2, <3>1, <3>3, <4>1
    <3> QED
      BY <3>2, <3>3
  <2>2. Whole(d, D) = Rest(d, TRUE, D)
    BY <2>1 DEF OnCourse, c
  <2>3. e.ev.type = d.ev.type /\ e.ev.target = d.ev.target
    <3>1. {x} \in Doings
      BY DEF Doings
    <3>2. /\ Effect(d.ev, l.node, {x}).type = d.ev.type
          /\ Effect(d.ev, l.node, {x}).target = d.ev.target
      BY <1>1, <1>5, <3>1, EffectsAdd
    <3> QED
      BY <1>0, <3>2
  <2>4. Whole(e, D) = Whole(d, D)
    BY <2>3 DEF Whole
  <2>5. x \in D[l.id] /\ D[l.id] \in Doings
    BY <1>2, <1>3, <1>4, <1>5, <1>7 DEF Fits
  <2>6. Effect(e.ev, l.node, D[l.id]) = Effect(d.ev, l.node, D[l.id])
    <3>1. Effect(Effect(d.ev, l.node, {x}), l.node, D[l.id]) = Effect(d.ev, l.node, D[l.id])
      BY <1>1, <1>5, <2>5, EffectRepeats
    <3> QED
      BY <1>0, <3>1
  <2>7. EventThen(e, TRUE, D) = EventThen(d, TRUE, D)
    BY <1>4, <2>6 DEF EventThen, b, l, c
  <2>8. Ids(b) = Ids(c)
    BY <1>2, <1>3 DEF Ids
  <2>9. Then(e, TRUE, D) = Then(d, TRUE, D)
    BY <2>7, <2>8 DEF Then, b, c
  <2> QED
    BY <2>2, <2>4, <2>9 DEF Rest
<1> QED
  BY <1>3, <1>6, <1>7 DEF OnCourse, b

\* A listener returns: what it did is all it does.
LEMMA CourseReturns ==
  ASSUME NEW d \in Dispatches, OnCourse(d, TRUE)
  PROVE  OnCourse(d, FALSE)
<1> SUFFICES ASSUME NEW D \in [Nat -> Doings], Fits(D, d.called, FALSE)
             PROVE  Whole(d, D) = Rest(d, FALSE, D)
  BY DEF OnCourse
<1> DEFINE c == d.called
<1>1. c \in Seq(CalledOnce) /\ c # << >> /\ Effect(d.ev, Last(c).node, Last(c).does) = d.ev
  BY DEF Dispatches, OnCourse
<1>2. Fits(D, c, TRUE)
  BY DEF Fits
<1>3. Whole(d, D) = Rest(d, TRUE, D)
  BY <1>2 DEF OnCourse
<1> HIDE DEF c
<1>4. D[Last(c).id] = Last(c).does
  <2>1. Last(c) = c[Len(c)] /\ Len(c) \in DOMAIN c
    <3>0. c \in Seq(CalledOnce) /\ c # << >>
      BY <1>1
    <3> QED
      BY <3>0, LastFront
  <2> QED
    BY <2>1 DEF Fits, c
<1>5. EventThen(d, TRUE, D) = EventThen(d, FALSE, D)
  BY <1>1, <1>4 DEF EventThen, c
<1>6. Then(d, TRUE, D) = Then(d, FALSE, D)
  BY <1>5 DEF Then
<1> QED
  BY <1>3, <1>6 DEF Rest

\* At the end the whole is what happened.
Mirrors(d) ==
  LET callbacks == [i \in DOMAIN d.before |->
                      AsCallback(d.before[i], DoneBy(d.called, d.before[i].id))]
      r == Dispatch(d.path, callbacks, NewEvent(d.ev.type, d.ev.target, TRUE, TRUE))
  IN  r.called = [i \in DOMAIN d.called |-> d.called[i].id] /\ r.ev.prevented = d.ev.prevented

LEMMA CourseEnds ==
  ASSUME NEW d \in Dispatches, OnCourse(d, FALSE), d.queue = << >>, d.visits = << >>,
         \A i, j \in DOMAIN d.called : d.called[i].id = d.called[j].id => i = j
  PROVE  Mirrors(d)
<1> DEFINE c == d.called
           D == [n \in Nat |-> DoneBy(c, n)]
           L == GivenBy(d.before, D)
           st == Then(d, FALSE, D)
<1>1. c \in Seq(CalledOnce) /\ d.before \in Seq(Registration)
  BY DEF Dispatches
<1> HIDE DEF c
<1>2. \A i \in DOMAIN c : c[i] \in CalledOnce /\ c[i].id \in Nat /\ c[i].does \in Doings
  <2>1. \A i \in DOMAIN c : c[i] \in CalledOnce
    BY <1>1
  <2> QED
    BY <2>1 DEF CalledOnce
<1>3. D \in [Nat -> Doings]
  <2>1. \A n \in Nat : DoneBy(c, n) \in Doings
    BY <1>2 DEF DoneBy, Doings
  <2> QED
    BY <2>1
<1>4. \A i \in DOMAIN c : D[c[i].id] = c[i].does
  <2> TAKE i \in DOMAIN c
  <2>1. {j \in DOMAIN c : c[j].id = c[i].id} = {i}
    BY DEF c
  <2>2. DoneBy(c, c[i].id) = c[i].does
    BY <2>1 DEF DoneBy
  <2> QED
    BY <1>2, <2>2
<1>5. L = [i \in DOMAIN d.before |-> AsCallback(d.before[i], DoneBy(c, d.before[i].id))]
  <2>1. \A i \in DOMAIN d.before : d.before[i].id \in Nat
    <3>1. \A i \in DOMAIN d.before : d.before[i] \in Registration
      BY <1>1
    <3> QED
      BY <3>1 DEF Registration
  <2>2. \A i \in DOMAIN d.before : D[d.before[i].id] = DoneBy(c, d.before[i].id)
    BY <2>1
  <2> HIDE DEF D
  <2> QED
    BY <2>2 DEF GivenBy
<1> HIDE DEF D
<1>6. Fits(D, c, FALSE)
  BY <1>4 DEF Fits
<1>7. Whole(d, D) = Rest(d, FALSE, D)
  BY <1>3, <1>6 DEF OnCourse, c
<1>8. L \in Seq(Given) /\ st \in DispatchState(L) /\ st.ev = d.ev /\ st.called = Ids(c)
  BY <1>3, ThenIsState DEF Then, EventThen, c
<1>9. GivenBy(d.queue, D) = << >> /\ << >> \in Seq(Given) /\ << >> \in Seq(Stop)
  <2>1. << >> \in Seq(Registration) /\ << >> \in Seq(Given) /\ << >> \in Seq(Stop)
    OBVIOUS
  <2> QED
    BY <1>3, <2>1, GivenByFacts
<1> HIDE DEF L, st
<1>10. RunAll(st, << >>) = st
  BY <1>8, <1>9, RunAllFacts
<1>11. Deliver(st, << >>) = st
  BY <1>8, <1>9, DeliverFacts
<1>12. Whole(d, D) = st
  BY <1>7, <1>9, <1>10, <1>11 DEF Rest, st
<1> QED
  BY <1>5, <1>8, <1>12 DEF Mirrors, Whole, Ids, L, c

-----------------------------------------------------------------------------
(* MirrorsEventDispatcher.  While the event is under way the dispatch is on *)
(* course; before the first dispatch there was none.                        *)

MirrorInv ==
  /\ mode \in {"dispatch", "listener"} /\ ~disp.changed =>
       listeners = disp.before /\ OnCourse(disp, mode = "listener")
  /\ mode \in {"idle", "script", "drain", "timer"} => disp.ev.type = "none"
  /\ MirrorsEventDispatcher

LEMMA MirrorIs ==
  MirrorsEventDispatcher <=>
    (mode = "ready" /\ ~disp.changed /\ ~disp.threw /\ disp.ev.type # "none" => Mirrors(disp))
BY DEF MirrorsEventDispatcher, Mirrors

\* A step that is none of a dispatch: a script or a callback goes on.
MirrorIdle ==
  /\ UNCHANGED <<listeners, disp>>
  /\ mode' = mode \/ mode' \in {"hung", "shown"}
     \/ {mode, mode'} \subseteq {"idle", "script", "drain", "timer"}
     \/ (mode \in {"drain", "timer"} /\ mode' = "ready")

MirrorStep ==
  \/ MirrorIdle \/ AddListener \/ RemoveListener \/ OnEvent \/ Return \/ Throw
  \/ DispatchEvent \/ Visit \/ CallListener \/ DispatchEnds

LEMMA NextMirror == [Next]_vars => MirrorStep
<1> SUFFICES ASSUME [Next]_vars PROVE MirrorStep
  OBVIOUS
<1> USE DEF MirrorStep, MirrorIdle, Api, Mutates, Controls
<1>1. CASE Call
  <2>1. CASE CreateNode \/ AppendChildCall \/ RemoveChildCall \/ SetText
    BY <2>1 DEF CreateNode, AppendChildCall, RemoveChildCall, SetText
  <2>2. CASE SetInnerHtml \/ SetAttributeCall \/ Hangs
    BY <2>2 DEF SetInnerHtml, SetAttributeCall, Hangs
  <2>3. CASE SubmitCall \/ SetTimeout \/ ClearTimeout
    BY <2>3 DEF SubmitCall, SetTimeout, ClearTimeout
  <2>4. CASE ReadControl \/ SetChecked \/ SetValue
    BY <2>4 DEF ReadControl, SetChecked, SetValue
  <2>5. CASE SetSelected \/ SetDisabled \/ SetIndex
    BY <2>5 DEF SetSelected, SetDisabled, SetIndex
  <2> QED
    BY <1>1, <2>1, <2>2, <2>3, <2>4, <2>5 DEF Call
<1>2. CASE RunScript \/ RunPendingTimers \/ RunTimer \/ DrainEnds
  BY <1>2 DEF RunScript, RunPendingTimers, RunTimer, DrainEnds
<1>3. CASE Show \/ Click \/ ClickNowhere \/ InputText \/ Backspace
  BY <1>3 DEF Show, Click, ClickNowhere, InputText, Backspace, Edit, Keep
<1>4. CASE UNCHANGED vars
  BY <1>4 DEF vars, rt
<1> QED
  BY <1>1, <1>2, <1>3, <1>4 DEF Next, RuntimeNext

LEMMA CalledApart ==
  ASSUME FlowInv, NEW i \in DOMAIN disp.called, NEW j \in DOMAIN disp.called,
         disp.called[i].id = disp.called[j].id
  PROVE  i = j
<1> DEFINE c == disp.called
<1>1. /\ CalledInOrder(c) /\ c \in Seq(CalledOnce)
      /\ IdsKept(Range(listeners) \cup Range(disp.queue) \cup Range(c), steps)
  BY DEF FlowInv, Flow, Dispatches
<1> HIDE DEF c
<1>2. i \in DOMAIN c /\ j \in DOMAIN c /\ c[i].id = c[j].id /\ i \in Int /\ j \in Int
  <2>1. DOMAIN c = 1..Len(c)
    BY <1>1
  <2> QED
    BY <2>1 DEF c
<1>3. c[i] \in Range(c) /\ c[j] \in Range(c) /\ c[i].id \in Int /\ c[j].id \in Int
  <2>1. c[i] \in CalledOnce /\ c[j] \in CalledOnce
    BY <1>1, <1>2
  <2> QED
    BY <1>2, <2>1 DEF Range, CalledOnce
<1>4. SamePlace(c[i], c[j]) /\ SamePlace(c[j], c[i])
  BY <1>1, <1>2, <1>3 DEF IdsKept
<1>5. ~(i < j) /\ ~(j < i)
  BY <1>1, <1>2, <1>3, <1>4 DEF CalledInOrder
<1> QED
  BY <1>2, <1>5

LEMMA OnEventGoesOn ==
  ASSUME FlowInv, OnEvent, OnCourse(disp, TRUE) PROVE OnCourse(disp', TRUE)
<1>1. PICK x \in {"prevent", "stop", "immediate"} :
        /\ disp'.ev = Effect(disp.ev, Last(disp.called).node, {x})
        /\ LastDoes(disp.called, disp'.called, x)
        /\ disp'.queue = disp.queue /\ disp'.visits = disp.visits
        /\ disp'.before = disp.before /\ disp'.path = disp.path
  BY OnEventDoes
<1>2. disp \in Dispatches /\ disp' \in Dispatches
  BY OnEventKeeps DEF FlowInv
<1> QED
  BY <1>1, <1>2, CourseDoes

LEMMA DispatchEventStarts ==
  ASSUME DocumentInv, FlowInv, DispatchEvent, mode' = "dispatch"
  PROVE  disp'.before = listeners /\ OnCourse(disp', FALSE)
<1>1. PICK target \in page.targets, ty \in Types :
        disp' = [NoDispatch EXCEPT !.ev = NewEvent(ty, target, TRUE, TRUE),
                                   !.visits = Visits(doc, target, TRUE),
                                   !.path = Visits(doc, target, TRUE),
                                   !.before = listeners]
  BY DEF DispatchEvent
<1>2. /\ disp'.before = listeners /\ disp'.queue = << >> /\ disp'.called = << >>
      /\ disp'.visits = disp'.path /\ disp'.ev = NewEvent(ty, target, TRUE, TRUE)
  BY <1>1 DEF NoDispatch
<1>3. disp'.ev = NewEvent(disp'.ev.type, disp'.ev.target, TRUE, TRUE)
  BY <1>2 DEF NewEvent
<1>4. disp' \in Dispatches
  BY DispatchEventKeeps DEF FlowInv
<1> QED
  BY <1>2, <1>3, <1>4, CourseStarts

LEMMA MirrorNext == DocumentInv /\ FlowInv /\ MirrorInv /\ [Next]_vars => MirrorInv'
<1> SUFFICES ASSUME DocumentInv, FlowInv, MirrorInv, MirrorStep PROVE MirrorInv'
  BY NextMirror
<1>0. disp \in Dispatches
  BY DEF FlowInv
<1>1. /\ mode \in {"dispatch", "listener"} /\ ~disp.changed =>
           listeners = disp.before /\ OnCourse(disp, mode = "listener")
      /\ mode \in {"idle", "script", "drain", "timer"} => disp.ev.type = "none"
      /\ mode = "ready" /\ ~disp.changed /\ ~disp.threw /\ disp.ev.type # "none" => Mirrors(disp)
  BY MirrorIs DEF MirrorInv
<1> SUFFICES
      /\ mode' \in {"dispatch", "listener"} /\ ~disp'.changed =>
           listeners' = disp'.before /\ OnCourse(disp', mode' = "listener")
      /\ mode' \in {"idle", "script", "drain", "timer"} => disp'.ev.type = "none"
      /\ mode' = "ready" /\ ~disp'.changed /\ ~disp'.threw /\ disp'.ev.type # "none" => Mirrors(disp')
  <2>1. (MirrorsEventDispatcher <=>
           (mode = "ready" /\ ~disp.changed /\ ~disp.threw /\ disp.ev.type # "none" => Mirrors(disp)))'
    BY MirrorIs, PTL
  <2> QED
    BY <2>1 DEF MirrorInv
<1>2. CASE MirrorIdle
  BY <1>1, <1>2 DEF MirrorIdle
<1>3. CASE AddListener \/ RemoveListener
  <2>1. disp' = [disp EXCEPT !.changed = TRUE] /\ mode' = mode
    BY <1>3 DEF AddListener, RemoveListener
  <2>2. disp'.changed = TRUE /\ disp'.ev = disp.ev
    BY <1>0, <2>1 DEF Dispatches
  <2> QED
    BY <1>1, <2>1, <2>2
<1>4. CASE OnEvent
  <2>1. mode = "listener" /\ mode' = mode /\ listeners' = listeners
    BY <1>4 DEF OnEvent
  <2>2. disp'.changed = disp.changed /\ disp'.before = disp.before
    BY <1>0, <1>4 DEF OnEvent, Dispatches
  <2>3. OnCourse(disp, TRUE) => OnCourse(disp', TRUE)
    BY <1>4, OnEventGoesOn
  <2> QED
    BY <1>1, <2>1, <2>2, <2>3
<1>5. CASE Return
  <2>1. disp' = disp /\ listeners' = listeners /\ (mode = "listener" => mode' = "dispatch")
        /\ (mode = "script" => mode' = "idle") /\ (mode = "timer" => mode' = "drain") /\ Running
    BY <1>5 DEF Return
  <2>2. OnCourse(disp, TRUE) => OnCourse(disp, FALSE)
    BY <1>0, CourseReturns
  <2> QED
    BY <1>1, <2>1, <2>2 DEF Running
<1>6. CASE Throw
  <2>1. /\ disp' = [disp EXCEPT !.threw = @ \/ mode = "listener"] /\ listeners' = listeners
        /\ mode' = IF mode = "script" THEN "idle" ELSE "ready"
        /\ mode \in {"script", "timer", "listener"}
    BY <1>6 DEF Throw, Running
  <2>2. disp'.ev = disp.ev /\ (mode = "listener" => disp'.threw)
    BY <1>0, <2>1 DEF Dispatches
  <2> QED
    BY <1>1, <2>1, <2>2
<1>7. CASE DispatchEvent
  <2>1. listeners' = listeners /\ mode' \in {"hung", "dispatch"}
    BY <1>7 DEF DispatchEvent
  <2>2. mode' = "dispatch" => disp'.before = listeners /\ OnCourse(disp', FALSE)
    BY <1>7, DispatchEventStarts
  <2> QED
    BY <2>1, <2>2
<1>8. CASE Visit
  <2>1. mode = "dispatch" /\ mode' = mode /\ listeners' = listeners
        /\ disp'.changed = disp.changed /\ disp'.before = disp.before
    BY <1>0, <1>8 DEF Visit, Dispatches
  <2>2. ~disp.changed => OnCourse(disp', FALSE)
    <3> SUFFICES ASSUME ~disp.changed PROVE OnCourse(disp', FALSE)
      OBVIOUS
    <3>1. OnCourse(disp, FALSE) /\ listeners = disp.before
      BY <1>1, <2>1
    <3>2. /\ disp.queue = << >> /\ disp.visits # << >>
          /\ disp' = [disp EXCEPT !.visits = Tail(@),
                                  !.queue = IF Enters(disp.ev, Head(disp.visits))
                                            THEN Matching(disp.before, disp.ev, Head(disp.visits))
                                            ELSE << >>]
      BY <1>8, <3>1 DEF Visit
    <3> QED
      BY <1>0, <3>1, <3>2, CourseVisits
  <2> QED
    BY <1>1, <2>1, <2>2
<1>9. CASE CallListener
  <2>1. mode = "dispatch" /\ listeners' = listeners /\ disp.queue # << >>
    BY <1>9 DEF CallListener
  <2>2. CASE disp.ev.immediate
    <3>1. disp' = [disp EXCEPT !.queue = << >>] /\ mode' = mode
      BY <1>9, <2>2 DEF CallListener
    <3>2. disp'.changed = disp.changed /\ disp'.before = disp.before
      BY <1>0, <3>1 DEF Dispatches
    <3>3. OnCourse(disp, FALSE) => OnCourse(disp', FALSE)
      BY <1>0, <2>2, <3>1, CourseStops
    <3> QED
      BY <1>1, <2>1, <3>1, <3>2, <3>3
  <2>3. CASE ~disp.ev.immediate
    <3>1. /\ disp' = [disp EXCEPT !.queue = Tail(@), !.called = Append(@, CallOf(Head(disp.queue)))]
          /\ mode' = "listener"
      BY <1>9, <2>3 DEF CallListener, CallOf
    <3>2. disp'.changed = disp.changed /\ disp'.before = disp.before
      BY <1>0, <3>1 DEF Dispatches
    <3>3. OnCourse(disp, FALSE) => OnCourse(disp', TRUE)
      BY <1>0, <2>1, <2>3, <3>1, CourseCalls
    <3> QED
      BY <1>1, <2>1, <3>1, <3>2, <3>3
  <2> QED
    BY <2>2, <2>3
<1>10. CASE DispatchEnds
  <2>1. /\ mode = "dispatch" /\ mode' = "ready" /\ disp' = disp
        /\ disp.queue = << >> /\ disp.visits = << >>
    BY <1>10 DEF DispatchEnds
  <2>2. OnCourse(disp, FALSE) => Mirrors(disp)
    BY <1>0, <2>1, CalledApart, CourseEnds
  <2>3. ~disp.changed => Mirrors(disp)
    BY <1>1, <2>1, <2>2
  <2> QED
    BY <2>1, <2>3
<1> QED
  BY <1>2, <1>3, <1>4, <1>5, <1>6, <1>7, <1>8, <1>9, <1>10 DEF MirrorStep

LEMMA MirrorInitially == Init => MirrorInv
<1> SUFFICES ASSUME Init PROVE MirrorInv
  OBVIOUS
<1>1. mode = "idle" /\ disp = NoDispatch
  BY DEF Init, RuntimeInit
<1>2. disp.ev.type = "none"
  BY <1>1 DEF NoDispatch, NewEvent
<1> QED
  BY <1>1, <1>2 DEF MirrorInv, MirrorsEventDispatcher

\* A dispatch during which no listener was added or removed calls what the
\* dispatcher for Rust callbacks calls, whatever the listeners do to the
\* document, and prevents the default action when that does (js_dom,
\* dispatch_event; mocha_events, dispatch_event).
THEOREM DispatchMirrors == Spec => []MirrorsEventDispatcher
<1>1. Spec => []FlowInv
  BY FlowInitially, DocumentHolds, FlowNext, PTL DEF Spec
<1>2. MirrorInv => MirrorsEventDispatcher
  BY DEF MirrorInv
<1> QED
  BY <1>1, <1>2, DocumentHolds, MirrorInitially, MirrorNext, PTL DEF Spec

-----------------------------------------------------------------------------
(* Control states: what keeps them, and which radios are checked.           *)

IsState(c) ==
  c = [kind |-> c.kind, name |-> c.name, value |-> c.value,
       checked |-> c.checked, selected |-> c.selected, disabled |-> c.disabled]

\* c and e differ at most in what a radio group does not look at.
SameRadio(c, e) == e.kind = c.kind /\ e.name = c.name /\ e.checked = c.checked

StatesOf(d, f) ==
  /\ f = [n \in DOMAIN f |-> f[n]]
  /\ \A n \in DOMAIN f : /\ n \in NodesOf(d) /\ IsControl(d, n) /\ IsState(f[n])
                         /\ f[n].kind = "radio" => d.tag[n] = "input"

Kept(f, g) == DOMAIN f \subseteq DOMAIN g /\ \A n \in DOMAIN f : SameRadio(f[n], g[n])

InGroup(d, f, a, b) ==
  /\ f[a].kind = "radio" /\ f[b].kind = "radio"
  /\ f[a].name = f[b].name /\ f[a].name # NoName
  /\ OwnerForm(d, a) = OwnerForm(d, b)

\* Of a group that changed no two are checked, but for what the markup says.
Exclusive(d, f, g) ==
  \A a \in DOMAIN f : \A b \in (DOMAIN f) \ {a} :
    /\ InGroup(d, f, a, b) /\ {a, b} \subseteq Attached(d)
    /\ ~f[a].checked /\ g[a].checked
    /\ ~(HasAttr(d, a, "checked") /\ HasAttr(d, b, "checked"))
    => ~g[b].checked

Later(d, f, g) == DOMAIN f \subseteq DOMAIN g /\ StatesOf(d, g) /\ Exclusive(d, f, g)

LEMMA StateFields ==
  ASSUME NEW c, IsState(c), NEW v
  PROVE  /\ IsState([c EXCEPT !.value = v]) /\ SameRadio(c, [c EXCEPT !.value = v])
         /\ IsState([c EXCEPT !.selected = v]) /\ SameRadio(c, [c EXCEPT !.selected = v])
         /\ IsState([c EXCEPT !.disabled = v]) /\ SameRadio(c, [c EXCEPT !.disabled = v])
         /\ IsState([c EXCEPT !.checked = v]) /\ [c EXCEPT !.checked = v].checked = v
         /\ [c EXCEPT !.checked = v].kind = c.kind /\ [c EXCEPT !.checked = v].name = c.name
<1> DEFINE R(k, n, x, h, s, b) ==
             [kind |-> k, name |-> n, value |-> x, checked |-> h, selected |-> s, disabled |-> b]
<1>1. PICK k, n, x, h, s, b : c = R(k, n, x, h, s, b)
  BY DEF IsState
<1>2. /\ [c EXCEPT !.value = v] = R(k, n, v, h, s, b)
      /\ [c EXCEPT !.selected = v] = R(k, n, x, h, v, b)
      /\ [c EXCEPT !.disabled = v] = R(k, n, x, h, s, v)
      /\ [c EXCEPT !.checked = v] = R(k, n, x, v, s, b)
  BY <1>1
<1>3. c.kind = k /\ c.name = n /\ c.checked = h
  BY <1>1
<1> QED
  BY <1>2, <1>3 DEF IsState, SameRadio

LEMMA StateField ==
  ASSUME NEW c, IsState(c), NEW v, NEW e,
         e = [c EXCEPT !.value = v] \/ e = [c EXCEPT !.selected = v] \/ e = [c EXCEPT !.disabled = v]
  PROVE  IsState(e) /\ SameRadio(c, e)
<1>1. CASE e = [c EXCEPT !.value = v]
  BY <1>1, StateFields
<1>2. CASE e = [c EXCEPT !.selected = v]
  BY <1>2, StateFields
<1>3. CASE e = [c EXCEPT !.disabled = v]
  BY <1>3, StateFields
<1> QED
  BY <1>1, <1>2, <1>3

LEMMA KeptIsLater ==
  ASSUME NEW d, NEW f, NEW g, Kept(f, g), StatesOf(d, g)
  PROVE  Later(d, f, g)
BY DEF Later, Kept, Exclusive, SameRadio

LEMMA KeptThenLater ==
  ASSUME NEW d, NEW e, NEW f, NEW g, Kept(e, f), Later(d, f, g)
  PROVE  Later(d, e, g)
<1> SUFFICES ASSUME NEW a \in DOMAIN e, NEW b \in (DOMAIN e) \ {a},
                    InGroup(d, e, a, b), {a, b} \subseteq Attached(d), ~e[a].checked, g[a].checked,
                    ~(HasAttr(d, a, "checked") /\ HasAttr(d, b, "checked"))
             PROVE  ~g[b].checked
  BY DEF Later, Kept, Exclusive
<1>1. a \in DOMAIN f /\ b \in (DOMAIN f) \ {a} /\ SameRadio(e[a], f[a]) /\ SameRadio(e[b], f[b])
  BY DEF Kept
<1>2. InGroup(d, f, a, b) /\ ~f[a].checked
  BY <1>1 DEF InGroup, SameRadio
<1> QED
  BY <1>1, <1>2 DEF Later, Exclusive

LEMMA LaterThenKept ==
  ASSUME NEW d, NEW e, NEW f, NEW g, Later(d, e, f), Kept(f, g), StatesOf(d, g)
  PROVE  Later(d, e, g)
<1> SUFFICES ASSUME NEW a \in DOMAIN e, NEW b \in (DOMAIN e) \ {a},
                    InGroup(d, e, a, b), {a, b} \subseteq Attached(d), ~e[a].checked, g[a].checked,
                    ~(HasAttr(d, a, "checked") /\ HasAttr(d, b, "checked"))
             PROVE  ~g[b].checked
  BY DEF Later, Kept, Exclusive
<1>1. SameRadio(f[a], g[a]) /\ SameRadio(f[b], g[b])
  BY DEF Kept, Later
<1> QED
  BY <1>1 DEF Later, Exclusive, SameRadio

LEMMA KeptKept ==
  ASSUME NEW e, NEW f, NEW g, Kept(e, f), Kept(f, g)
  PROVE  Kept(e, g)
BY DEF Kept, SameRadio

\* f with some states changed in other fields than those a group looks at.
LEMMA KeptBy ==
  ASSUME NEW d, NEW f, StatesOf(d, f), NEW g, g = [n \in DOMAIN g |-> g[n]], DOMAIN g = DOMAIN f,
         \A n \in DOMAIN f : IsState(g[n]) /\ SameRadio(f[n], g[n])
  PROVE  Kept(f, g) /\ StatesOf(d, g)
BY DEF Kept, StatesOf, SameRadio

LEMMA FieldKeeps ==
  ASSUME NEW d, NEW f, StatesOf(d, f), NEW n, NEW v, NEW g,
         g = [f EXCEPT ![n].value = v] \/ g = [f EXCEPT ![n].selected = v]
           \/ g = [f EXCEPT ![n].disabled = v]
  PROVE  Kept(f, g) /\ StatesOf(d, g)
<1>1. g = [m \in DOMAIN g |-> g[m]] /\ DOMAIN g = DOMAIN f
  BY DEF StatesOf
<1>2. ASSUME NEW m \in DOMAIN f
      PROVE  IsState(g[m]) /\ SameRadio(f[m], g[m])
  <2>1. IsState(f[m])
    BY DEF StatesOf
  <2>2. CASE m = n
    <3>1. g[m] = [f[m] EXCEPT !.value = v] \/ g[m] = [f[m] EXCEPT !.selected = v]
            \/ g[m] = [f[m] EXCEPT !.disabled = v]
      BY <2>2
    <3> QED
      BY <2>1, <3>1, StateField
  <2>3. CASE m # n
    <3>1. g[m] = f[m]
      BY <2>3
    <3> QED
      BY <2>1, <3>1 DEF SameRadio
  <2> QED
    BY <2>2, <2>3
<1> QED
  BY <1>1, <1>2, KeptBy

LEMMA InitialIsState ==
  ASSUME NEW d, NEW n, IsControl(d, n)
  PROVE  /\ IsState(InitialControl(d, n))
         /\ InitialControl(d, n).kind = "radio" => d.tag[n] = "input"
         /\ InitialControl(d, n).checked => HasAttr(d, n, "checked")
<1>1. ControlKind(d, n) = "radio" => d.tag[n] = "input"
  BY DEF ControlKind, IsControl, ControlTags, TypedKinds
<1> QED
  BY <1>1 DEF InitialControl, IsState

LEMMA EnsureKeeps ==
  ASSUME NEW d, NEW f, StatesOf(d, f), NEW ns \in SUBSET NodesOf(d), NEW g, g = EnsureAll(d, f, ns)
  PROVE  /\ Kept(f, g) /\ StatesOf(d, g)
         /\ DOMAIN g = DOMAIN f \cup {n \in ns : IsControl(d, n)}
         /\ \A n \in DOMAIN f : g[n] = f[n]
         /\ \A n \in (DOMAIN g) \ (DOMAIN f) : g[n].checked => HasAttr(d, n, "checked")
<1>1. /\ g = [n \in DOMAIN g |-> g[n]]
      /\ DOMAIN g = DOMAIN f \cup {n \in ns : IsControl(d, n)}
      /\ \A n \in DOMAIN f : g[n] = f[n]
      /\ \A n \in (DOMAIN g) \ (DOMAIN f) : g[n] = InitialControl(d, n)
  BY DEF EnsureAll
<1>2. \A n \in (DOMAIN g) \ (DOMAIN f) : n \in NodesOf(d) /\ IsControl(d, n)
  BY <1>1
<1>3. \A n \in (DOMAIN g) \ (DOMAIN f) :
        /\ IsState(g[n]) /\ (g[n].kind = "radio" => d.tag[n] = "input")
        /\ g[n].checked => HasAttr(d, n, "checked")
  BY <1>1, <1>2, InitialIsState
<1> QED
  BY <1>1, <1>2, <1>3 DEF Kept, StatesOf, SameRadio

LEMMA CheckedField ==
  ASSUME NEW c, IsState(c), NEW v, NEW e, e = [c EXCEPT !.checked = v]
  PROVE  IsState(e) /\ e.checked = v /\ e.kind = c.kind /\ e.name = c.name
BY StateFields

LEMMA OptionsFacts ==
  ASSUME NEW d, IsDocument(d), NEW s \in NodesOf(d)
  PROVE  Range(SelectOptions(d, s)) \subseteq NodesOf(d)
<1> DEFINE S == {c \in ChildSet(d, s) : d.tag[c] = "option"}
<1>1. d.kids[s] \in Seq(NodesOf(d)) /\ Range(d.kids[s]) \subseteq NodesOf(d)
  BY ChildrenFacts
<1>2. SelectOptions(d, s) = Among(d.kids[s], S)
  BY DEF SelectOptions
<1> HIDE DEF S
<1> QED
  BY <1>1, <1>2, AmongFacts

LEMMA WithOptionsKeeps ==
  ASSUME NEW d, IsDocument(d), NEW s \in NodesOf(d), NEW f, StatesOf(d, f)
  PROVE  Kept(f, WithOptions(d, f, s)) /\ StatesOf(d, WithOptions(d, f, s))
BY OptionsFacts, EnsureKeeps DEF WithOptions

\* Some states are marked selected, or not, in one go.
LEMMA SelectingKeeps ==
  ASSUME NEW d, NEW f, StatesOf(d, f), NEW T, NEW v, NEW g,
         g = [n \in DOMAIN f |-> IF n \in T THEN [f[n] EXCEPT !.selected = v[n]] ELSE f[n]]
  PROVE  Kept(f, g) /\ StatesOf(d, g)
<1>1. g = [n \in DOMAIN g |-> g[n]] /\ DOMAIN g = DOMAIN f
  OBVIOUS
<1>2. ASSUME NEW n \in DOMAIN f
      PROVE  IsState(g[n]) /\ SameRadio(f[n], g[n])
  <2>1. IsState(f[n])
    BY DEF StatesOf
  <2>2. CASE n \in T
    <3>1. g[n] = [f[n] EXCEPT !.selected = v[n]]
      BY <2>2
    <3> QED
      BY <2>1, <3>1, StateField
  <2>3. CASE n \notin T
    <3>1. g[n] = f[n]
      BY <2>3
    <3> QED
      BY <2>1, <3>1 DEF SameRadio
  <2> QED
    BY <2>2, <2>3
<1> QED
  BY <1>1, <1>2, KeptBy

LEMMA SetSelectedIndexKeeps ==
  ASSUME NEW d, IsDocument(d), NEW s \in NodesOf(d), NEW f, StatesOf(d, f), NEW i
  PROVE  /\ Kept(f, SetSelectedIndex(d, f, s, i))
         /\ StatesOf(d, SetSelectedIndex(d, f, s, i))
<1> DEFINE w == WithOptions(d, f, s)
           opts == SelectOptions(d, s)
           T == {n \in DOMAIN w : Contains(opts, n)}
           v == [n \in DOMAIN w |-> i \in DOMAIN opts /\ opts[i] = n]
           g == [n \in DOMAIN w |-> IF n \in T THEN [w[n] EXCEPT !.selected = v[n]] ELSE w[n]]
<1>1. SetSelectedIndex(d, f, s, i) = g
  BY DEF SetSelectedIndex
<1>2. Kept(f, w) /\ StatesOf(d, w)
  BY WithOptionsKeeps
<1> HIDE DEF w, T, v
<1>3. Kept(w, g) /\ StatesOf(d, g)
  BY <1>2, SelectingKeeps
<1> HIDE DEF g
<1> QED
  BY <1>1, <1>2, <1>3, KeptKept

LEMMA NormalizeKeeps ==
  ASSUME NEW d, NEW f, StatesOf(d, f), NEW ss
  PROVE  /\ Kept(f, NormalizeSelects(d, f, ss)) /\ StatesOf(d, NormalizeSelects(d, f, ss))
         /\ DOMAIN NormalizeSelects(d, f, ss) = DOMAIN f
<1> DEFINE T == {n \in DOMAIN f : d.tag[n] = "option" /\ d.parent[n] \in ss}
           Chosen(s) ==
             LET opts == SelectOptions(d, s)
                 i == SelectLastInSeq(opts, LAMBDA o : f[o].selected)
             IN opts[IF i = 0 THEN 1 ELSE i]
           v == [n \in DOMAIN f |-> Chosen(d.parent[n]) = n]
           g == [n \in DOMAIN f |-> IF n \in T THEN [f[n] EXCEPT !.selected = v[n]] ELSE f[n]]
<1>1. NormalizeSelects(d, f, ss) = g
  BY DEF NormalizeSelects
<1> HIDE DEF T, v
<1>2. Kept(f, g) /\ StatesOf(d, g)
  BY SelectingKeeps
<1>3. DOMAIN g = DOMAIN f
  OBVIOUS
<1> HIDE DEF g
<1> QED
  BY <1>1, <1>2, <1>3

LEMMA EnsureDocumentStates ==
  ASSUME NEW d, IsDocument(d)
  PROVE  StatesOf(d, EnsureDocument(d, NoControls))
<1> DEFINE ns == Range(TraverseDepthFirst(d, Root))
           f == EnsureAll(d, NoControls, ns)
<1>1. ns \subseteq NodesOf(d)
  BY AttachedFacts
<1>2. StatesOf(d, NoControls)
  BY DEF StatesOf, NoControls
<1> HIDE DEF ns
<1>3. StatesOf(d, f)
  BY <1>1, <1>2, EnsureKeeps
<1> HIDE DEF f
<1> QED
  BY <1>3, NormalizeKeeps DEF EnsureDocument, ns, f

\* checked of a state that is no radio, or that is unchecked.
LEMMA CheckedKeeps ==
  ASSUME NEW d, NEW f, StatesOf(d, f), NEW n \in DOMAIN f, NEW v,
         f[n].kind # "radio" \/ ~v, NEW g, g = [f EXCEPT ![n].checked = v]
  PROVE  Later(d, f, g)
<1>1. g = [m \in DOMAIN g |-> g[m]] /\ DOMAIN g = DOMAIN f /\ \A m \in (DOMAIN f) \ {n} : g[m] = f[m]
  BY DEF StatesOf
<1>2. g[n] = [f[n] EXCEPT !.checked = v] /\ IsState(f[n])
  BY DEF StatesOf
<1>3. IsState(g[n]) /\ g[n].checked = v /\ g[n].kind = f[n].kind
  BY <1>2, StateFields
<1>4. StatesOf(d, g)
  BY <1>1, <1>3 DEF StatesOf
<1>5. ASSUME NEW a \in DOMAIN f, ~f[a].checked, g[a].checked
      PROVE  f[a].kind # "radio"
  BY <1>1, <1>3, <1>5
<1>6. Exclusive(d, f, g)
  BY <1>5 DEF Exclusive, InGroup
<1> QED
  BY <1>1, <1>4, <1>6 DEF Later

LEMMA SelectRadioKeeps ==
  ASSUME NEW d, IsDocument(d), NEW f, StatesOf(d, f), NEW r \in DOMAIN f
  PROVE  Later(d, f, SelectRadio(d, f, r))
<1> DEFINE mates == Mates(d, f, r)
           h == EnsureAll(d, f, mates)
           Mate(n) == n \in mates /\ h[n].kind = "radio" /\ h[n].name = f[r].name
           g == [n \in DOMAIN h |-> IF n = r THEN [h[n] EXCEPT !.checked = TRUE]
                                    ELSE IF Mate(n) THEN [h[n] EXCEPT !.checked = FALSE]
                                    ELSE h[n]]
<1>1. SelectRadio(d, f, r) = g
  BY DEF SelectRadio
<1>2. mates \subseteq NodesOf(d) /\ \A n \in mates : n # r
  BY AttachedFacts DEF Mates
<1>3. ASSUME NEW b \in (DOMAIN f) \ {r}, InGroup(d, f, r, b), b \in Attached(d)
      PROVE  b \in mates
  BY <1>3 DEF InGroup, StatesOf, Mates
<1> HIDE DEF mates
<1>4. StatesOf(d, h) /\ Kept(f, h)
  BY <1>2, EnsureKeeps
<1> HIDE DEF h
<1>5. g = [n \in DOMAIN g |-> g[n]] /\ DOMAIN g = DOMAIN h
  OBVIOUS
<1>6. /\ \A n \in DOMAIN h : Mate(n) /\ n # r => g[n] = [h[n] EXCEPT !.checked = FALSE]
      /\ \A n \in DOMAIN h : ~Mate(n) /\ n # r => g[n] = h[n]
      /\ \A n \in DOMAIN h : n = r => g[n] = [h[n] EXCEPT !.checked = TRUE]
  OBVIOUS
<1> HIDE DEF g
<1>7. \A n \in DOMAIN h : IsState(h[n])
  BY <1>4 DEF StatesOf
<1>8. ASSUME NEW n \in DOMAIN h
      PROVE  /\ IsState(g[n]) /\ g[n].kind = h[n].kind
             /\ n # r /\ Mate(n) => g[n].checked = FALSE
             /\ n # r /\ ~Mate(n) => g[n].checked = h[n].checked
  <2>1. IsState(h[n])
    BY <1>7
  <2>2. \/ n # r /\ Mate(n) /\ g[n] = [h[n] EXCEPT !.checked = FALSE]
        \/ n # r /\ ~Mate(n) /\ g[n] = h[n]
        \/ n = r /\ g[n] = [h[n] EXCEPT !.checked = TRUE]
    BY <1>6
  <2> HIDE DEF Mate
  <2>3. CASE n # r /\ Mate(n) /\ g[n] = [h[n] EXCEPT !.checked = FALSE]
    BY <2>1, <2>3, CheckedField
  <2>4. CASE n # r /\ ~Mate(n) /\ g[n] = h[n]
    BY <2>1, <2>4
  <2>5. CASE n = r /\ g[n] = [h[n] EXCEPT !.checked = TRUE]
    BY <2>1, <2>5, CheckedField
  <2> QED
    BY <2>2, <2>3, <2>4, <2>5
<1>9. StatesOf(d, g)
  BY <1>4, <1>5, <1>8 DEF StatesOf
<1>10. ASSUME NEW a \in DOMAIN f, NEW b \in (DOMAIN f) \ {a}, InGroup(d, f, a, b),
              {a, b} \subseteq Attached(d), ~f[a].checked, g[a].checked
       PROVE  ~g[b].checked
  <2>1. a \in DOMAIN h /\ b \in DOMAIN h /\ SameRadio(f[a], h[a]) /\ SameRadio(f[b], h[b])
    BY <1>4 DEF Kept
  <2>2. a = r
    BY <1>8, <1>10, <2>1 DEF SameRadio
  <2>3. b \in mates /\ b # r
    BY <1>3, <1>10, <2>2
  <2>4. Mate(b)
    BY <1>10, <2>1, <2>2, <2>3 DEF InGroup, SameRadio
  <2> QED
    BY <1>8, <2>1, <2>3, <2>4
<1>11. Exclusive(d, f, g)
  BY <1>10 DEF Exclusive
<1> QED
  BY <1>1, <1>4, <1>5, <1>9, <1>11 DEF Later, Kept

-----------------------------------------------------------------------------
(* What is below a node, and the form of a control.                         *)

\* What holds of the first node of a path and goes up, holds up to the k-th.
LEMMA PathClimbs ==
  ASSUME NEW d, IsDocument(d), NEW n \in NodesOf(d), NEW k \in DOMAIN PathUp(d, n), NEW B, n \in B,
         \A i \in 1..(k - 1) : PathUp(d, n)[i] \in B => PathUp(d, n)[i + 1] \in B
  PROVE  PathUp(d, n)[k] \in B
<1> DEFINE up == PathUp(d, n)
           L == Len(up)
           D == {i \in 1..k : up[i] \notin B}
<1>1. L \in Nat \ {0} /\ DOMAIN up = 1..L /\ up[1] = n
  BY PathFacts
<1>2. \A i \in 1..(k - 1) : up[i] \in B => up[i + 1] \in B
  OBVIOUS
<1> HIDE DEF up, L
<1>3. k \in 1..L
  BY <1>1 DEF up
<1>4. D = {}
  <2> SUFFICES ASSUME D # {} PROVE FALSE
    OBVIOUS
  <2>1. PICK m \in D : \A i \in D : m <= i
    <3>1. D \in SUBSET Nat
      BY <1>1, <1>3
    <3> HIDE DEF D
    <3> QED
      BY <3>1, LeastNumber
  <2>2. m \in 1..k /\ up[m] \notin B
    BY <2>1
  <2>3. m # 1
    BY <1>1, <2>2
  <2>4. m - 1 \in 1..k /\ ~(m <= m - 1) /\ m - 1 \in 1..(k - 1) /\ (m - 1) + 1 = m
    BY <1>1, <1>3, <2>2, <2>3
  <2>5. up[m - 1] \in B
    BY <2>1, <2>4
  <2>6. up[(m - 1) + 1] \in B
    BY <1>2, <2>4, <2>5
  <2> QED
    BY <2>2, <2>4, <2>6
<1>5. k \in 1..k
  BY <1>1, <1>3
<1> QED
  BY <1>4, <1>5 DEF up

\* The walk from the root meets every node of the path before the one below
\* it, so the path from a node it meets ends.
LEMMA AttachedEnds ==
  ASSUME NEW d, IsDocument(d), NEW n \in Attached(d)
  PROVE  ~EndlessUp(d, n)
<1> DEFINE order == TraverseDepthFirst(d, Root)
           up == PathUp(d, n)
           L == Len(up)
           N == NodesOf(d)
           O == Len(order)
<1>1. /\ order \in Seq(N) /\ DOMAIN order = 1..O /\ IsInjective(order)
      /\ Attached(d) = Range(order) /\ Attached(d) \subseteq N
      /\ \A i \in 1..O : order[i] = Root \/ \E j \in 1..(i - 1) : order[j] = d.parent[order[i]]
      /\ d.parent[Root] = NoNode
  BY AttachedFacts
<1>2. /\ up \in Seq(N) /\ L \in Nat \ {0} /\ DOMAIN up = 1..L /\ up[1] = n
      /\ \A i \in 1..(L - 1) : up[i + 1] = d.parent[up[i]]
  BY <1>1, PathFacts
<1>3. NoNode \notin N /\ IsFiniteSet(N) /\ Cardinality(N) \in Nat
  BY DocumentFacts, FS_CardinalityType
<1>4. O \in Nat /\ O <= Cardinality(N)
  BY <1>1, <1>3, InjectiveLength
<1>5. EndlessUp(d, n) <=> L > Cardinality(N)
  BY DEF EndlessUp
<1> DEFINE B == {i \in 1..L : \E p \in 1..O : order[p] = up[i] /\ p + (i - 1) <= O}
           D == (1..L) \ B
<1>6. 1 \in B
  <2>1. PICK p \in 1..O : order[p] = n
    BY <1>1 DEF Range
  <2>2. order[p] = up[1] /\ p + (1 - 1) <= O /\ 1 \in 1..L
    BY <1>2, <1>4, <2>1
  <2> HIDE DEF order, up, L, O
  <2> QED
    BY <2>2
<1> HIDE DEF order, up, L, N, O
<1>7. ASSUME NEW i \in 1..(L - 1), i \in B
      PROVE  i + 1 \in B
  <2>1. PICK p \in 1..O : order[p] = up[i] /\ p + (i - 1) <= O
    BY <1>7
  <2>2. up[i + 1] = d.parent[up[i]] /\ i + 1 \in 1..L /\ up[i + 1] \in N
    BY <1>2
  <2>3. order[p] # Root
    BY <1>1, <1>3, <2>1, <2>2
  <2>4. PICK j \in 1..(p - 1) : order[j] = d.parent[order[p]]
    BY <1>1, <2>3
  <2>5. j \in 1..O /\ order[j] = up[i + 1] /\ j + ((i + 1) - 1) <= O
    BY <1>2, <1>4, <2>1, <2>2, <2>4
  <2> QED
    BY <2>2, <2>5
<1>8. D = {}
  <2> SUFFICES ASSUME D # {} PROVE FALSE
    OBVIOUS
  <2>1. PICK m \in D : \A i \in D : m <= i
    <3>1. D \in SUBSET Nat
      BY <1>2
    <3> HIDE DEF D
    <3> QED
      BY <3>1, LeastNumber
  <2> HIDE DEF B
  <2>2. m \in 1..L /\ m \notin B
    BY <2>1
  <2>3. m # 1
    BY <1>6, <2>2
  <2>4. m - 1 \in 1..L /\ ~(m <= m - 1) /\ m - 1 \in 1..(L - 1) /\ (m - 1) + 1 = m
    BY <1>2, <2>2, <2>3
  <2>5. m - 1 \in B
    BY <2>1, <2>4
  <2>6. (m - 1) + 1 \in B
    BY <1>7, <2>4, <2>5
  <2> QED
    BY <2>2, <2>4, <2>6
<1>9. L \in 1..L
  BY <1>2
<1>10. L \in B
  BY <1>8, <1>9
<1>11. PICK p \in 1..O : p + (L - 1) <= O
  BY <1>10
<1>12. ~(L > Cardinality(N))
  BY <1>2, <1>3, <1>4, <1>11
<1> QED
  BY <1>5, <1>12

\* What the walk from an attached node meets.
LEMMA BelowFacts ==
  ASSUME NEW d, IsDocument(d), NEW n \in Attached(d)
  PROVE  LET met == Range(TraverseDepthFirst(d, n))
         IN  /\ met \subseteq Attached(d) /\ n \in met /\ n \in NodesOf(d)
             /\ TraverseDepthFirst(d, n) \in Seq(NodesOf(d))
             /\ \A x \in met : x = n \/ d.parent[x] \in met
             /\ \A x \in NodesOf(d) : d.parent[x] \in met => x \in met
<1> DEFINE met == Range(TraverseDepthFirst(d, n))
<1>1. PICK B \in SUBSET Attached(d) : n \in NodesOf(d) /\ Below(d, n, B)
  BY AttachedBelow
<1>2. /\ TraverseDepthFirst(d, n) \in Seq(NodesOf(d)) /\ met \subseteq B /\ n \in met
      /\ \A x \in met : ChildSet(d, x) \subseteq met
      /\ \A x \in met : x = n \/ d.parent[x] \in met
  BY <1>1, TraverseFacts
<1>3. Attached(d) \subseteq NodesOf(d)
  BY AttachedFacts
<1> HIDE DEF met
<1>4. ASSUME NEW x \in NodesOf(d), d.parent[x] \in met
      PROVE  x \in met
  <2>1. d.parent[x] \in NodesOf(d)
    BY <1>1, <1>2, <1>3, <1>4
  <2>2. x \in ChildSet(d, d.parent[x])
    BY <2>1, ChildrenFacts
  <2> QED
    BY <1>2, <1>4, <2>2
<1> QED
  BY <1>1, <1>2, <1>4 DEF met

\* The path up from a node that the walk from n meets goes through n.
LEMMA PathMeets ==
  ASSUME NEW d, IsDocument(d), NEW n \in Attached(d), NEW x \in Range(TraverseDepthFirst(d, n))
  PROVE  \E k \in DOMAIN PathUp(d, x) : PathUp(d, x)[k] = n
<1> DEFINE met == Range(TraverseDepthFirst(d, n))
           up == PathUp(d, x)
           L == Len(up)
<1>1. /\ met \subseteq Attached(d) /\ \A y \in met : y = n \/ d.parent[y] \in met
  BY BelowFacts
<1>2. Attached(d) \subseteq NodesOf(d) /\ NoNode \notin NodesOf(d)
  BY AttachedFacts, DocumentFacts
<1>3. x \in Attached(d) /\ x \in NodesOf(d) /\ x \in met
  BY <1>1, <1>2
<1>4. /\ L \in Nat \ {0} /\ DOMAIN up = 1..L /\ d.parent[up[L]] = NoNode
      /\ \A i \in 1..(L - 1) : up[i + 1] = d.parent[up[i]]
  BY <1>3, AttachedEnds, PathFacts
<1> SUFFICES ASSUME \A k \in DOMAIN up : up[k] # n
             PROVE  FALSE
  BY DEF up
<1> HIDE DEF met, L
<1>5. L \in DOMAIN up /\ \A i \in 1..(L - 1) : i \in DOMAIN up /\ up[i + 1] = d.parent[up[i]]
  BY <1>4
<1>6. \A i \in 1..(L - 1) : up[i] \in met => up[i + 1] \in met
  BY <1>1, <1>5
<1>7. up[L] \in met
  <2>1. \A i \in 1..(L - 1) : PathUp(d, x)[i] \in met => PathUp(d, x)[i + 1] \in met
    BY <1>6
  <2> QED
    BY <1>3, <1>5, <2>1, PathClimbs
<1>8. d.parent[up[L]] \in met
  BY <1>1, <1>5, <1>7
<1> QED
  BY <1>1, <1>2, <1>4, <1>8

LEMMA PathGoesUp ==
  ASSUME NEW d, IsDocument(d), NEW n \in NodesOf(d), NEW up, up = PathUp(d, n)
  PROVE  /\ Len(up) \in Nat \ {0} /\ DOMAIN up = 1..Len(up)
         /\ \A i \in 1..Len(up) : up[i] \in NodesOf(d)
         /\ \A i \in 1..(Len(up) - 1) : up[i + 1] = d.parent[up[i]]
BY PathFacts

\* Where the form of a control is looked for.
LEMMA OwnerFacts ==
  ASSUME NEW d, IsDocument(d), NEW a \in Attached(d), OwnerForm(d, a) # NoNode
  PROVE  /\ d.parent[a] \in Attached(d)
         /\ \E k \in DOMAIN PathUp(d, d.parent[a]) :
              /\ OwnerForm(d, a) = PathUp(d, d.parent[a])[k]
              /\ \A j \in DOMAIN PathUp(d, d.parent[a]) :
                   j < k => d.tag[PathUp(d, d.parent[a])[j]] # "form"
<1>1. d.parent[a] # NoNode /\ OwnerForm(d, a) = NearestTag(d, d.parent[a], {"form"})
  BY DEF OwnerForm
<1>2. d.parent[a] \in Attached(d) /\ d.parent[a] \in NodesOf(d)
  BY <1>1, AttachedFacts
<1>3. \/ NearestTag(d, d.parent[a], {"form"}) = NoNode
      \/ \E k \in DOMAIN PathUp(d, d.parent[a]) :
            /\ NearestTag(d, d.parent[a], {"form"}) = PathUp(d, d.parent[a])[k]
            /\ \A j \in DOMAIN PathUp(d, d.parent[a]) :
                 j < k => d.tag[PathUp(d, d.parent[a])[j]] \notin {"form"}
  BY <1>2, NearestFacts
<1> QED
  BY <1>1, <1>2, <1>3

\* A control below a form has its own form there, which may be an inner one.
LEMMA OwnerBelow ==
  ASSUME NEW d, IsDocument(d), NEW n \in Attached(d), d.tag[n] = "form",
         NEW a \in Range(TraverseDepthFirst(d, n)), d.tag[a] # "form"
  PROVE  OwnerForm(d, a) # NoNode /\ OwnerForm(d, a) \in Range(TraverseDepthFirst(d, n))
<1> DEFINE met == Range(TraverseDepthFirst(d, n))
           up == PathUp(d, d.parent[a])
<1>1. /\ met \subseteq Attached(d) /\ \A y \in met : y = n \/ d.parent[y] \in met
  BY BelowFacts
<1>2. Attached(d) \subseteq NodesOf(d) /\ NoNode \notin NodesOf(d)
  BY AttachedFacts, DocumentFacts
<1>3. d.parent[a] \in met /\ d.parent[a] \in NodesOf(d) /\ a \in Attached(d) /\ d.parent[a] # NoNode
  BY <1>1, <1>2
<1>4. /\ Len(up) \in Nat \ {0} /\ DOMAIN up = 1..Len(up)
      /\ \A i \in 1..(Len(up) - 1) : up[i + 1] = d.parent[up[i]]
  BY <1>3, PathGoesUp
<1>5. PICK k \in DOMAIN up : up[k] = n
  BY <1>3, PathMeets
<1>6. OwnerForm(d, a) # NoNode
  <2>1. OwnerForm(d, a) = NearestTag(d, d.parent[a], {"form"})
    BY <1>3 DEF OwnerForm
  <2>2. \/ OwnerForm(d, a) = NoNode /\ \A i \in DOMAIN up : d.tag[up[i]] \notin {"form"}
        \/ \E i \in DOMAIN up : OwnerForm(d, a) = up[i] /\ d.tag[OwnerForm(d, a)] \in {"form"}
    BY <1>3, <2>1, NearestFacts
  <2>3. ~ \A i \in DOMAIN up : d.tag[up[i]] \notin {"form"}
    BY <1>5
  <2>4. \A i \in DOMAIN up : up[i] \in NodesOf(d)
    BY <1>3, PathFacts
  <2> HIDE DEF up
  <2> QED
    BY <1>2, <2>2, <2>3, <2>4
<1>7. PICK g \in DOMAIN up : /\ OwnerForm(d, a) = up[g]
                             /\ \A j \in DOMAIN up : j < g => d.tag[up[j]] # "form"
  BY <1>3, <1>6, OwnerFacts
<1> HIDE DEF met
<1>8. \A i \in 1..(g - 1) : PathUp(d, d.parent[a])[i] \in met => PathUp(d, d.parent[a])[i + 1] \in met
  <2> SUFFICES ASSUME NEW i \in 1..(g - 1), up[i] \in met
               PROVE  up[i + 1] \in met
    OBVIOUS
  <2> HIDE DEF up
  <2>1. g \in Nat /\ i \in DOMAIN up /\ i < g /\ i \in 1..(Len(up) - 1)
    BY <1>4, <1>7
  <2>2. up[i] # n /\ up[i + 1] = d.parent[up[i]]
    BY <1>4, <1>7, <2>1
  <2> QED
    BY <1>1, <2>2
<1>9. up[g] \in met
  BY <1>3, <1>8, PathClimbs
<1> QED
  BY <1>6, <1>7, <1>9 DEF met

\* What has its form below n is below n.
LEMMA OwnedBelow ==
  ASSUME NEW d, IsDocument(d), NEW n \in Attached(d), NEW b \in Attached(d),
         OwnerForm(d, b) # NoNode, OwnerForm(d, b) \in Range(TraverseDepthFirst(d, n))
  PROVE  b \in Range(TraverseDepthFirst(d, n))
<1> DEFINE met == Range(TraverseDepthFirst(d, n))
           up == PathUp(d, d.parent[b])
           B == NodesOf(d) \ met
<1>1. Attached(d) \subseteq NodesOf(d) /\ \A x \in NodesOf(d) : d.parent[x] \in met => x \in met
  BY AttachedFacts, BelowFacts
<1>2. d.parent[b] \in NodesOf(d) /\ b \in NodesOf(d)
  BY <1>1, OwnerFacts
<1>3. PICK k \in DOMAIN up : OwnerForm(d, b) = up[k]
  BY OwnerFacts
<1>4. /\ Len(up) \in Nat \ {0} /\ DOMAIN up = 1..Len(up)
      /\ \A i \in 1..Len(up) : up[i] \in NodesOf(d)
      /\ \A i \in 1..(Len(up) - 1) : up[i + 1] = d.parent[up[i]]
  BY <1>2, PathGoesUp
<1>5. up[k] \notin B
  BY <1>3
<1> HIDE DEF met
<1>6. \A i \in 1..(k - 1) : PathUp(d, d.parent[b])[i] \in B => PathUp(d, d.parent[b])[i + 1] \in B
  <2> SUFFICES ASSUME NEW i \in 1..(k - 1), up[i] \in B
               PROVE  up[i + 1] \in B
    OBVIOUS
  <2> HIDE DEF up
  <2>1. i \in 1..(Len(up) - 1) /\ i \in DOMAIN up /\ i + 1 \in DOMAIN up
    BY <1>4
  <2>2. up[i + 1] = d.parent[up[i]] /\ up[i + 1] \in NodesOf(d) /\ up[i] \in NodesOf(d)
    BY <1>4, <2>1
  <2> QED
    BY <1>1, <2>2
<1>7. d.parent[b] \notin B
  <2> HIDE DEF B
  <2> QED
    BY <1>2, <1>5, <1>6, PathClimbs
<1> QED
  BY <1>1, <1>2, <1>7 DEF met

LEMMA ResetKeeps ==
  ASSUME NEW d, IsDocument(d), NEW f, StatesOf(d, f), NEW form \in Attached(d), d.tag[form] = "form"
  PROVE  Later(d, f, ResetForm(d, f, form))
<1> DEFINE met == Range(TraverseDepthFirst(d, form))
           others == Restrict(f, DOMAIN f \ met)
           h == EnsureAll(d, others, met)
           g == NormalizeSelects(d, h, Selects(d, met))
<1>1. ResetForm(d, f, form) = g
  BY DEF ResetForm
<1>2. met \subseteq Attached(d) /\ Attached(d) \subseteq NodesOf(d)
  BY AttachedFacts, BelowFacts
<1>3. /\ others = [n \in DOMAIN others |-> others[n]] /\ DOMAIN others = (DOMAIN f) \ met
      /\ \A n \in DOMAIN others : others[n] = f[n]
  BY DEF Restrict
<1>4. ASSUME NEW a \in DOMAIN f, NEW b \in DOMAIN f, InGroup(d, f, a, b), b \in Attached(d), a \in met
      PROVE  b \in met
  <2>1. d.tag[a] # "form"
    BY <1>4 DEF InGroup, StatesOf
  <2>2. OwnerForm(d, a) # NoNode /\ OwnerForm(d, a) \in met
    BY <1>4, <2>1, OwnerBelow
  <2>3. OwnerForm(d, b) = OwnerForm(d, a)
    BY <1>4 DEF InGroup
  <2> QED
    BY <1>4, <2>2, <2>3, OwnedBelow
<1> HIDE DEF met, others
<1>5. StatesOf(d, others)
  BY <1>3 DEF StatesOf
<1>6. /\ StatesOf(d, h)
      /\ DOMAIN h = DOMAIN others \cup {n \in met : IsControl(d, n)}
      /\ \A n \in DOMAIN others : h[n] = others[n]
      /\ \A n \in (DOMAIN h) \ (DOMAIN others) : h[n].checked => HasAttr(d, n, "checked")
  <2>1. met \in SUBSET NodesOf(d)
    BY <1>2
  <2>2. h = EnsureAll(d, others, met)
    OBVIOUS
  <2> HIDE DEF h
  <2>3. StatesOf(d, h)
    BY <1>5, <2>1, <2>2, EnsureKeeps
  <2>4. DOMAIN h = DOMAIN others \cup {n \in met : IsControl(d, n)}
    BY <1>5, <2>1, <2>2, EnsureKeeps
  <2>5. \A n \in DOMAIN others : h[n] = others[n]
    BY <2>2 DEF EnsureAll
  <2>6. \A n \in (DOMAIN h) \ (DOMAIN others) : h[n].checked => HasAttr(d, n, "checked")
    BY <1>5, <2>1, <2>2, EnsureKeeps
  <2> QED
    BY <2>3, <2>4, <2>5, <2>6
<1> HIDE DEF h
<1>7. DOMAIN f \subseteq DOMAIN h
  BY <1>3, <1>6 DEF StatesOf
<1>8. ASSUME NEW a \in DOMAIN f, NEW b \in (DOMAIN f) \ {a}, InGroup(d, f, a, b),
             {a, b} \subseteq Attached(d), ~f[a].checked, h[a].checked,
             ~(HasAttr(d, a, "checked") /\ HasAttr(d, b, "checked"))
      PROVE  ~h[b].checked
  <2>1. a \in met
    BY <1>3, <1>6, <1>8
  <2>2. b \in met
    BY <1>4, <1>8, <2>1
  <2>3. HasAttr(d, a, "checked") /\ (h[b].checked => HasAttr(d, b, "checked"))
    BY <1>3, <1>6, <1>7, <1>8, <2>1, <2>2
  <2> QED
    BY <1>8, <2>3
<1>9. Exclusive(d, f, h)
  BY <1>8 DEF Exclusive
<1>10. Later(d, f, h)
  BY <1>6, <1>7, <1>9 DEF Later
<1>11. Kept(h, g) /\ StatesOf(d, g)
  BY <1>6, NormalizeKeeps
<1> HIDE DEF g
<1> QED
  BY <1>1, <1>10, <1>11, LaterThenKept

-----------------------------------------------------------------------------
(* Radio groups.                                                            *)

\* A document only gets new nodes, and keeps the tags of those it has.
TagsKept(d, e) == \A n \in NodesOf(d) : n \in NodesOf(e) /\ e.tag[n] = d.tag[n]

LEMMA MoveTags ==
  ASSUME NEW d, IsDocument(d), NEW p \in NodesOf(d), NEW c \in NodesOf(d) \ {Root}
  PROVE  /\ RemoveChild(d, p, c).tag = d.tag
         /\ AppendChild(d, p, c).tag = d.tag
<1>1. d = Doc(d.tag, d.attr, d.parent, d.kids)
  BY DocumentFacts DEF HasFields
<1> DEFINE t == d.tag
           a == d.attr
           q == d.parent
           k == d.kids
<1>2. d = Doc(t, a, q, k)
  BY <1>1
<1> HIDE DEF t, a, q, k
<1>3. RemoveChild(Doc(t, a, q, k), p, c)
        = Doc(t, a, [q EXCEPT ![c] = NoNode], [k EXCEPT ![p] = RemoveFirst(@, c)])
  BY RemoveChildIs
<1>4. AppendChild(Doc(t, a, q, k), p, c)
        = Doc(t, a, [q EXCEPT ![c] = p], [k EXCEPT ![p] = Append(@, c)])
  BY AppendChildIs
<1>5. RemoveChild(d, p, c).tag = t /\ AppendChild(d, p, c).tag = t
  BY <1>2, <1>3, <1>4 DEF Doc
<1> QED
  BY <1>5 DEF t

LEMMA MoveKeepsTags ==
  ASSUME NEW d, IsDocument(d), NEW p \in NodesOf(d), NEW c \in NodesOf(d) \ {Root}
  PROVE  TagsKept(d, Move(d, p, c))
<1> DEFINE e == Detach(d, c)
<1>1. IsDocument(e) /\ NodesOf(e) = NodesOf(d) /\ e.tag = d.tag
  <2>1. CASE d.parent[c] = NoNode
    BY <2>1 DEF Detach
  <2>2. CASE d.parent[c] # NoNode
    <3>1. d.parent[c] \in NodesOf(d) /\ c \in ChildSet(d, d.parent[c])
      <4>1. d.parent[c] \in NodesOf(d)
        BY <2>2, DocumentFacts
      <4> QED
        BY <4>1, ChildrenFacts
    <3> QED
      BY <2>2, <3>1, RemoveChildKeeps, MoveTags DEF Detach
  <2> QED
    BY <2>1, <2>2
<1> HIDE DEF e
<1>2. Move(d, p, c).tag = d.tag
  BY <1>1, MoveTags DEF Move, e
<1> QED
  BY <1>2 DEF TagsKept, NodesOf

LEMMA SetTextKeepsTags ==
  ASSUME NEW d, IsDocument(d), NEW n \in NodesOf(d), NEW text
  PROVE  TagsKept(d, SetTextContent(d, n, text))
<1>1. CASE d.tag[n] = "text"
  <2>1. d = Doc(d.tag, d.attr, d.parent, d.kids)
    BY DocumentFacts DEF HasFields
  <2>2. [d EXCEPT !.attr[n] = TextAttr(text)].tag = d.tag
    BY <2>1 DEF Doc
  <2> QED
    BY <1>1, <2>2 DEF SetTextContent, TagsKept, NodesOf
<1>2. CASE d.tag[n] # "text"
  <2> DEFINE r == RemoveAll(d, n)
             new == NewNode(d)
             c == Create(r, "text", TextAttr(text))
  <2>1. IsDocument(r) /\ NodesOf(r) = NodesOf(d) /\ NewNode(r) = new /\ r.tag = d.tag
    BY RemoveAllKeeps
  <2> HIDE DEF r, new
  <2>2. IsDocument(c) /\ NodesOf(c) = NodesOf(d) \cup {new} /\ \A x \in NodesOf(d) : c.tag[x] = d.tag[x]
    BY <2>1, CreateKeeps
  <2>3. new # Root /\ new \in NodesOf(c) /\ n \in NodesOf(c)
    BY <2>2, DocumentFacts DEF new
  <2> HIDE DEF c
  <2>4. AppendChild(c, n, new).tag = c.tag
    BY <2>2, <2>3, MoveTags
  <2>5. SetTextContent(d, n, text) = AppendChild(c, n, new)
    BY <1>2 DEF SetTextContent, c, r, new
  <2> QED
    BY <2>2, <2>4, <2>5 DEF TagsKept, NodesOf
<1> QED
  BY <1>1, <1>2

LEMMA SetAttributeKeepsTags ==
  ASSUME NEW d, IsDocument(d), NEW n, NEW a, NEW v
  PROVE  TagsKept(d, SetAttribute(d, n, a, v))
<1>1. d = Doc(d.tag, d.attr, d.parent, d.kids)
  BY DocumentFacts DEF HasFields
<1>2. PICK at : SetAttribute(Doc(d.tag, d.attr, d.parent, d.kids), n, a, v)
                  = Doc(d.tag, at, d.parent, d.kids)
  BY SetAttributeIs
<1>3. SetAttribute(d, n, a, v).tag = d.tag
  BY <1>1, <1>2, FieldsOf
<1> QED
  BY <1>3 DEF TagsKept, NodesOf

LEMMA GraftKeepsTags ==
  ASSUME NEW d, IsDocument(d), NEW n \in NodesOf(d), NEW frag
  PROVE  TagsKept(d, Graft(d, n, frag))
<1> DEFINE new == NewNode(d) .. NewNode(d) + Cardinality(NodesOf(frag)) - 2
           tags == [m \in NodesOf(d) \cup new |->
                      IF m \in NodesOf(d) THEN RemoveAll(d, n).tag[m] ELSE frag.tag[m - NewNode(d) + 1]]
<1>1. Graft(d, n, frag).tag = tags
  BY GraftIs DEF Doc
<1>2. RemoveAll(d, n).tag = d.tag
  BY RemoveAllKeeps
<1>3. DOMAIN tags = NodesOf(d) \cup new /\ \A m \in NodesOf(d) : tags[m] = d.tag[m]
  BY <1>2
<1> HIDE DEF tags
<1> QED
  BY <1>1, <1>3 DEF TagsKept, NodesOf

LEMMA DocumentTags == ASSUME DocumentInv, DocumentStep PROVE TagsKept(doc, doc')
<1>1. IsDocument(doc) /\ Touched \subseteq NodesOf(doc) \ {Root}
  BY TouchedAreNodes DEF DocumentInv
<1>2. CASE UNCHANGED <<page, doc>>
  BY <1>2 DEF TagsKept
<1>3. CASE CreateNode
  <2>1. PICK t, at : doc' = Create(doc, t, at)
    BY <1>3 DEF CreateNode
  <2> QED
    BY <1>1, <2>1, CreateKeeps DEF TagsKept
<1>4. CASE AppendChildCall
  <2>1. PICK p \in Touched, c \in Touched : doc' = Move(doc, p, c)
    BY <1>4 DEF AppendChildCall, Mutates
  <2> QED
    BY <1>1, <2>1, MoveKeepsTags
<1>5. CASE RemoveChildCall
  <2>1. PICK p \in Touched, c \in Touched : doc' = RemoveChild(doc, p, c)
    BY <1>5 DEF RemoveChildCall, Mutates
  <2>2. doc'.tag = doc.tag
    BY <1>1, <2>1, MoveTags
  <2> QED
    BY <2>2 DEF TagsKept, NodesOf
<1>6. CASE SetText
  <2>1. PICK n \in Touched, x \in Texts : doc' = SetTextContent(doc, n, x)
    BY <1>6 DEF SetText, Mutates
  <2> QED
    BY <1>1, <2>1, SetTextKeepsTags
<1>7. CASE SetInnerHtml
  <2>1. PICK n \in Touched, f \in Fragments : doc' = Graft(doc, n, f)
    BY <1>7 DEF SetInnerHtml, Mutates
  <2> QED
    BY <1>1, <2>1, GraftKeepsTags
<1>8. CASE SetAttributeCall
  <2>1. PICK n \in Touched, a \in {"checked", "disabled"} : doc' = SetAttribute(doc, n, a, "")
    BY <1>8 DEF SetAttributeCall, Mutates
  <2> QED
    BY <1>1, <2>1, SetAttributeKeepsTags
<1> QED
  BY <1>2, <1>3, <1>4, <1>5, <1>6, <1>7, <1>8 DEF DocumentStep

LEMMA StatesFollow ==
  ASSUME NEW d, NEW e, TagsKept(d, e), NEW f, StatesOf(d, f)
  PROVE  StatesOf(e, f)
BY DEF TagsKept, StatesOf, IsControl

LEMMA KeptSelf == ASSUME NEW f PROVE Kept(f, f)
BY DEF Kept, SameRadio

FormsStep == UNCHANGED forms \/ Later(doc, forms, forms')

\* A state is made, and then something is done to it.
LEMMA EnsureThen ==
  ASSUME IsDocument(doc), StatesOf(doc, forms), NEW n \in NodesOf(doc), IsControl(doc, n)
  PROVE  LET f == Ensure(doc, forms, n)
         IN  Kept(forms, f) /\ StatesOf(doc, f) /\ n \in DOMAIN f
<1> DEFINE f == Ensure(doc, forms, n)
<1>1. {n} \in SUBSET NodesOf(doc)
  OBVIOUS
<1>2. f = EnsureAll(doc, forms, {n})
  BY DEF Ensure
<1> HIDE DEF f
<1>3. Kept(forms, f) /\ StatesOf(doc, f)
  BY <1>1, <1>2, EnsureKeeps
<1>4. n \in DOMAIN f
  BY <1>2 DEF EnsureAll
<1> QED
  BY <1>3, <1>4 DEF f

LEMMA SetSelectValueKeeps ==
  ASSUME NEW d, IsDocument(d), NEW s \in NodesOf(d), NEW f, StatesOf(d, f), NEW v
  PROVE  Kept(f, SetSelectValue(d, f, s, v)) /\ StatesOf(d, SetSelectValue(d, f, s, v))
<1> DEFINE w == WithOptions(d, f, s)
           i == SelectInSeq(SelectOptions(d, s), LAMBDA o : w[o].value = v)
<1>1. Kept(f, w) /\ StatesOf(d, w)
  BY WithOptionsKeeps
<1>2. SetSelectValue(d, f, s, v) = SetSelectedIndex(d, w, s, i)
  BY DEF SetSelectValue
<1> HIDE DEF w, i
<1>3. Kept(w, SetSelectedIndex(d, w, s, i)) /\ StatesOf(d, SetSelectedIndex(d, w, s, i))
  BY <1>1, SetSelectedIndexKeeps
<1> QED
  BY <1>1, <1>2, <1>3, KeptKept

LEMMA ControlCalls ==
  ASSUME DocumentInv, StatesOf(doc, forms),
         ReadControl \/ SetChecked \/ SetValue \/ SetSelected \/ SetDisabled \/ SetIndex
  PROVE  Later(doc, forms, forms')
<1>1. IsDocument(doc) /\ ControlNodes \subseteq NodesOf(doc) /\ \A n \in ControlNodes : IsControl(doc, n)
  BY TouchedAreNodes DEF DocumentInv, ControlNodes
<1>2. \A n \in ControlNodes : LET f == Ensure(doc, forms, n)
                              IN  Kept(forms, f) /\ StatesOf(doc, f) /\ n \in DOMAIN f
  BY <1>1, EnsureThen
<1>3. CASE ReadControl
  <2>1. PICK n \in ControlNodes :
          forms' = IF doc.tag[n] = "select" THEN WithOptions(doc, Ensure(doc, forms, n), n)
                   ELSE Ensure(doc, forms, n)
    BY <1>3 DEF ReadControl
  <2> DEFINE f == Ensure(doc, forms, n)
  <2>2. Kept(forms, f) /\ StatesOf(doc, f)
    BY <1>2
  <2> HIDE DEF f
  <2>3. Kept(f, WithOptions(doc, f, n)) /\ StatesOf(doc, WithOptions(doc, f, n))
    BY <1>1, <2>2, WithOptionsKeeps
  <2>4. forms' = f \/ forms' = WithOptions(doc, f, n)
    BY <2>1 DEF f
  <2> QED
    BY <2>2, <2>3, <2>4, KeptKept, KeptIsLater
<1>4. CASE SetChecked
  <2>1. PICK n \in ControlNodes, b \in BOOLEAN :
          forms' = LET f == Ensure(doc, forms, n)
                   IN  IF f[n].kind = "radio" /\ b THEN SelectRadio(doc, f, n)
                       ELSE [f EXCEPT ![n].checked = b]
    BY <1>4 DEF SetChecked, Controls
  <2> DEFINE f == Ensure(doc, forms, n)
             g == [f EXCEPT ![n].checked = b]
  <2>2. Kept(forms, f) /\ StatesOf(doc, f) /\ n \in DOMAIN f
    BY <1>2
  <2>3. \/ forms' = SelectRadio(doc, f, n)
        \/ forms' = g /\ (f[n].kind # "radio" \/ ~b)
    BY <2>1
  <2>4. g = [f EXCEPT ![n].checked = b]
    OBVIOUS
  <2> HIDE DEF f, g
  <2>5. CASE forms' = SelectRadio(doc, f, n)
    <3>1. Later(doc, f, SelectRadio(doc, f, n))
      BY <1>1, <2>2, SelectRadioKeeps
    <3> QED
      BY <2>2, <2>5, <3>1, KeptThenLater
  <2>6. CASE forms' = g /\ (f[n].kind # "radio" \/ ~b)
    <3>1. Later(doc, f, g)
      BY <2>2, <2>4, <2>6, CheckedKeeps
    <3> QED
      BY <2>2, <2>6, <3>1, KeptThenLater
  <2> QED
    BY <2>3, <2>5, <2>6
<1>5. CASE SetValue
  <2>1. PICK n \in ControlNodes, x \in Texts :
          forms' = IF doc.tag[n] = "select" THEN SetSelectValue(doc, forms, n, x)
                   ELSE [Ensure(doc, forms, n) EXCEPT ![n].value = x]
    BY <1>5 DEF SetValue, Controls
  <2> DEFINE f == Ensure(doc, forms, n)
             g == [f EXCEPT ![n].value = x]
  <2>2. Kept(forms, f) /\ StatesOf(doc, f)
    BY <1>2
  <2>3. forms' = SetSelectValue(doc, forms, n, x) \/ forms' = g
    BY <2>1
  <2>4. /\ Kept(forms, SetSelectValue(doc, forms, n, x))
        /\ StatesOf(doc, SetSelectValue(doc, forms, n, x))
    BY <1>1, SetSelectValueKeeps
  <2>5. g = [f EXCEPT ![n].value = x]
    OBVIOUS
  <2> HIDE DEF f, g
  <2>6. Kept(f, g) /\ StatesOf(doc, g)
    BY <2>2, <2>5, FieldKeeps
  <2> QED
    BY <2>2, <2>3, <2>4, <2>6, KeptKept, KeptIsLater
<1>6. CASE SetSelected \/ SetDisabled
  <2>1. PICK n \in ControlNodes, b \in BOOLEAN :
          \/ forms' = [Ensure(doc, forms, n) EXCEPT ![n].selected = b]
          \/ forms' = [Ensure(doc, forms, n) EXCEPT ![n].disabled = b]
    BY <1>6 DEF SetSelected, SetDisabled, Controls
  <2> DEFINE f == Ensure(doc, forms, n)
  <2>2. Kept(forms, f) /\ StatesOf(doc, f)
    BY <1>2
  <2>3. forms' = [f EXCEPT ![n].selected = b] \/ forms' = [f EXCEPT ![n].disabled = b]
    BY <2>1
  <2> HIDE DEF f
  <2>4. Kept(f, forms') /\ StatesOf(doc, forms')
    BY <2>2, <2>3, FieldKeeps
  <2> QED
    BY <2>2, <2>4, KeptKept, KeptIsLater
<1>7. CASE SetIndex
  <2>1. PICK n \in ControlNodes :
          \E i \in 0 .. Len(SelectOptions(doc, n)) : forms' = SetSelectedIndex(doc, forms, n, i)
    BY <1>7 DEF SetIndex, Controls
  <2>2. PICK i : forms' = SetSelectedIndex(doc, forms, n, i)
    BY <2>1
  <2>3. Kept(forms, forms') /\ StatesOf(doc, forms')
    BY <1>1, <2>2, SetSelectedIndexKeeps
  <2> QED
    BY <2>3, KeptIsLater
<1> QED
  BY <1>3, <1>4, <1>5, <1>6, <1>7

LEMMA ClickKeeps ==
  ASSUME IsDocument(doc), StatesOf(doc, forms), NEW n \in Attached(doc)
  PROVE  Later(doc, forms, ClickAction(doc, forms, n).forms)
<1> DEFINE c == ClickedControl(doc, n)
           f == Ensure(doc, forms, c)
           form == OwnerForm(doc, c)
           g == ClickAction(doc, forms, n).forms
           h == [f EXCEPT ![c].checked = ~@]
<1>1. CASE c = NoNode
  <2>1. g = forms
    BY <1>1 DEF ClickAction
  <2> QED
    BY <2>1, KeptSelf, KeptIsLater
<1>2. CASE c # NoNode
  <2>1. c \in Attached(doc) /\ doc.tag[c] \in ControlTags
    BY <1>2, NearestIsAttached DEF ClickedControl
  <2>2. \/ g = f
        \/ f[c].kind = "checkbox" /\ g = h
        \/ g = SelectRadio(doc, f, c)
        \/ form # NoNode /\ g = ResetForm(doc, f, form)
    BY <1>2 DEF ClickAction
  <2> SUFFICES Later(doc, forms, g)
    OBVIOUS
  <2> HIDE DEF c, g
  <2>3. c \in NodesOf(doc) /\ IsControl(doc, c)
    BY <2>1, AttachedFacts DEF IsControl
  <2>4. Kept(forms, f) /\ StatesOf(doc, f) /\ c \in DOMAIN f
    BY <2>3, EnsureThen
  <2>5. h = [f EXCEPT ![c].checked = ~f[c].checked]
    OBVIOUS
  <2>6. form # NoNode => form \in Attached(doc) /\ doc.tag[form] = "form"
    <3> SUFFICES ASSUME form # NoNode PROVE form \in Attached(doc) /\ doc.tag[form] = "form"
      OBVIOUS
    <3>1. doc.parent[c] # NoNode /\ form = NearestTag(doc, doc.parent[c], {"form"})
      BY DEF OwnerForm
    <3>2. doc.parent[c] \in Attached(doc)
      BY <2>1, <3>1, AttachedFacts
    <3> HIDE DEF form
    <3> QED
      BY <3>1, <3>2, NearestIsAttached
  <2> HIDE DEF f, form, h
  <2>7. CASE g = f
    BY <2>4, <2>7, KeptIsLater
  <2>8. CASE f[c].kind = "checkbox" /\ g = h
    <3>1. Later(doc, f, h)
      BY <2>4, <2>5, <2>8, CheckedKeeps
    <3> QED
      BY <2>4, <2>8, <3>1, KeptThenLater
  <2>9. CASE g = SelectRadio(doc, f, c)
    <3>1. Later(doc, f, g)
      BY <2>4, <2>9, SelectRadioKeeps
    <3> QED
      BY <2>4, <3>1, KeptThenLater
  <2>10. CASE form # NoNode /\ g = ResetForm(doc, f, form)
    <3>1. Later(doc, f, g)
      BY <2>4, <2>6, <2>10, ResetKeeps
    <3> QED
      BY <2>4, <3>1, KeptThenLater
  <2> QED
    BY <2>2, <2>7, <2>8, <2>9, <2>10
<1> QED
  BY <1>1, <1>2

\* States are made of what is painted, or below the form that is sent.
LEMMA LaterEnsured ==
  ASSUME IsDocument(doc), NEW f, Later(doc, forms, f), NEW n \in Attached(doc) \cup {Root},
         NEW g, g = EnsureAll(doc, f, Range(TraverseDepthFirst(doc, n)))
  PROVE  Later(doc, forms, g)
<1> DEFINE ns == Range(TraverseDepthFirst(doc, n))
<1>1. n \in Attached(doc)
  BY AttachedFacts
<1>2. ns \subseteq Attached(doc) /\ Attached(doc) \subseteq NodesOf(doc)
  BY <1>1, BelowFacts, AttachedFacts
<1> HIDE DEF ns
<1>3. ns \in SUBSET NodesOf(doc) /\ g = EnsureAll(doc, f, ns) /\ StatesOf(doc, f)
  BY <1>2 DEF ns, Later
<1>4. Kept(f, g) /\ StatesOf(doc, g)
  BY <1>3, EnsureKeeps
<1> QED
  BY <1>4, LaterThenKept

LEMMA RerenderKeeps ==
  ASSUME IsDocument(doc), NEW f, Later(doc, forms, f), Rerender(f)
  PROVE  Later(doc, forms, forms')
<1>1. forms' = EnsureAll(doc, f, Range(TraverseDepthFirst(doc, Root)))
  BY DEF Rerender, Attached
<1> QED
  BY <1>1, LaterEnsured

LEMMA ClickForm ==
  ASSUME IsDocument(doc), NEW n \in Attached(doc)
  PROVE  LET act == ClickAction(doc, forms, n)
         IN  /\ act.did \in {"none", "submit", "changed"}
             /\ act.did = "submit" => act.form \in Attached(doc)
<1> DEFINE c == ClickedControl(doc, n)
           form == OwnerForm(doc, c)
           act == ClickAction(doc, forms, n)
<1>1. CASE c = NoNode
  BY <1>1 DEF ClickAction
<1>2. CASE c # NoNode
  <2>1. c \in Attached(doc)
    BY <1>2, NearestIsAttached DEF ClickedControl
  <2>2. act.did \in {"none", "submit", "changed"} /\ (act.did = "submit" => act.form = form /\ form # NoNode)
    BY <1>2 DEF ClickAction
  <2> HIDE DEF act, c
  <2>3. form = NoNode \/ form \in Attached(doc)
    BY <2>1, OwnerIsAttached
  <2> QED
    BY <2>2, <2>3 DEF act
<1> QED
  BY <1>1, <1>2

LEMMA NextForms ==
  ASSUME DocumentInv, StatesOf(doc, forms), [Next]_vars
  PROVE  FormsStep
<1>1. IsDocument(doc)
  BY DEF DocumentInv
<1> USE DEF FormsStep
<1>2. CASE Call
  <2>1. CASE CreateNode \/ AppendChildCall \/ RemoveChildCall \/ SetText \/ SetInnerHtml
    BY <2>1 DEF CreateNode, AppendChildCall, RemoveChildCall, SetText, SetInnerHtml, Mutates
  <2>2. CASE SetAttributeCall \/ Hangs \/ AddListener \/ RemoveListener \/ OnEvent
    BY <2>2 DEF SetAttributeCall, Mutates, Hangs, AddListener, RemoveListener, OnEvent
  <2>3. CASE SetTimeout \/ ClearTimeout \/ SubmitCall
    BY <2>3 DEF SetTimeout, ClearTimeout, SubmitCall
  <2>4. CASE ReadControl \/ SetChecked \/ SetValue \/ SetSelected \/ SetDisabled \/ SetIndex
    BY <2>4, ControlCalls
  <2> QED
    BY <1>2, <2>1, <2>2, <2>3, <2>4 DEF Call
<1>3. CASE Return \/ Throw \/ RunScript \/ RunPendingTimers \/ RunTimer \/ DrainEnds
  BY <1>3 DEF Return, Throw, RunScript, RunPendingTimers, RunTimer, DrainEnds
<1>4. CASE DispatchEvent \/ Visit \/ CallListener \/ DispatchEnds
  BY <1>4 DEF DispatchEvent, Visit, CallListener, DispatchEnds
<1>5. Later(doc, forms, forms)
  BY KeptSelf, KeptIsLater
<1>6. CASE Show
  <2>1. Rerender(forms)
    BY <1>6 DEF Show
  <2> QED
    BY <1>1, <1>5, <2>1, RerenderKeeps
<1>7. CASE Click
  <2>1. PICK n \in Attached(doc) \ Unpainted :
          LET act == ClickAction(doc, forms, n)
              f == act.forms
          IN  CASE act.did = "changed" -> Rerender(f) /\ sent' = Nothing
               [] act.did = "submit" -> Submit(f, act.form, act.submitter) /\ UNCHANGED painted
               [] act.did = "none" -> forms' = f /\ sent' = LinkOf(n) /\ UNCHANGED painted
    BY <1>7 DEF Click
  <2> DEFINE act == ClickAction(doc, forms, n)
  <2>2. Later(doc, forms, act.forms)
    BY <1>1, ClickKeeps
  <2>3. act.did \in {"none", "submit", "changed"} /\ (act.did = "submit" => act.form \in Attached(doc))
    BY <1>1, ClickForm
  <2>4. /\ act.did = "changed" => Rerender(act.forms)
        /\ act.did = "submit" => Submit(act.forms, act.form, act.submitter)
        /\ act.did = "none" => forms' = act.forms
    BY <2>1
  <2> HIDE DEF act
  <2>5. CASE act.did = "changed"
    BY <1>1, <2>2, <2>4, <2>5, RerenderKeeps
  <2>6. CASE act.did = "none"
    BY <2>2, <2>4, <2>6
  <2>7. CASE act.did = "submit"
    <3>1. \/ forms' = act.forms
          \/ forms' = EnsureAll(doc, act.forms, Range(TraverseDepthFirst(doc, act.form)))
      BY <2>4, <2>7 DEF Submit
    <3>2. act.form \in Attached(doc) \cup {Root}
      BY <2>3, <2>7
    <3> QED
      BY <1>1, <2>2, <3>1, <3>2, LaterEnsured
  <2> QED
    BY <2>3, <2>5, <2>6, <2>7
<1>8. ASSUME NEW v, Edit(v) PROVE Later(doc, forms, forms')
  <2>1. Rerender([forms EXCEPT ![focus].value = v])
    BY <1>8 DEF Edit
  <2>2. Later(doc, forms, [forms EXCEPT ![focus].value = v])
    BY FieldKeeps, KeptIsLater
  <2> QED
    BY <1>1, <2>1, <2>2, RerenderKeeps
<1>9. CASE ClickNowhere \/ InputText \/ Backspace
  BY <1>8, <1>9 DEF ClickNowhere, InputText, Backspace
<1>10. CASE UNCHANGED vars
  BY <1>10 DEF vars, rt
<1> QED
  BY <1>2, <1>3, <1>4, <1>6, <1>7, <1>9, <1>10 DEF Next, RuntimeNext

StatesInv == StatesOf(doc, forms)

LEMMA StatesNext == DocumentInv /\ StatesInv /\ [Next]_vars => StatesInv'
<1> SUFFICES ASSUME DocumentInv, StatesInv, [Next]_vars PROVE StatesInv'
  OBVIOUS
<1>1. StatesOf(doc, forms')
  BY NextForms DEF FormsStep, StatesInv, Later
<1>2. TagsKept(doc, doc')
  BY NextDocument, DocumentTags
<1> QED
  BY <1>1, <1>2, StatesFollow DEF StatesInv

\* A radio that becomes checked, by the user, by a script or by a reset, leaves
\* no other of its group checked, unless the markup checks both
\* (forms state.rs, select_radio and reset_form).
THEOREM RadiosStayExclusive == Spec => RadioGroupsExclusive
<1>1. Init => StatesInv
  BY DomAssumption, EnsureDocumentStates DEF Init, RuntimeInit, StatesInv, IsParsed
<1>2. Spec => []StatesInv
  BY <1>1, StatesNext, DocumentHolds, PTL DEF Spec
<1>3. ASSUME DocumentInv, StatesInv, [Next]_vars
      PROVE  UNCHANGED forms \/ Exclusive(doc, forms, forms')
  BY <1>3, NextForms DEF FormsStep, StatesInv, Later
<1>4. DocumentInv /\ StatesInv /\ [Next]_vars =>
        [\A a \in DOMAIN forms : \A b \in (DOMAIN forms) \ {a} :
           /\ SameGroup(a, b) /\ {a, b} \subseteq Attached(doc)
           /\ doc' = doc /\ ~forms[a].checked /\ forms'[a].checked
           /\ ~(HasAttr(doc, a, "checked") /\ HasAttr(doc, b, "checked"))
           => ~forms'[b].checked]_<<doc, forms>>
  BY <1>3 DEF Exclusive, SameGroup, InGroup
<1> QED
  BY <1>2, <1>4, DocumentHolds, PTL DEF Spec, RadioGroupsExclusive

-----------------------------------------------------------------------------
(* What is sent.                                                            *)

SentRight(d, f, p, s) ==
  s.to = "form" =>
    \A i \in DOMAIN s.fields :
      /\ ~f[s.fields[i].node].disabled
      /\ Contains(PathUp(d, s.fields[i].node), s.form)
      /\ s.fields[i].node \in DOMAIN p /\ f[s.fields[i].node].kind # "submit" =>
           s.fields[i].value = p[s.fields[i].node].value \/ p[s.fields[i].node].checked

SentInv == (mode # "shown" => sent = Nothing) /\ SentRight(doc, forms, painted, sent)

\* The screen shows of a control what is sent of it.
LEMMA ShownIsSent ==
  ASSUME NEW n \in DOMAIN PaintedControls(forms), NEW submitter, Successful(forms, n, submitter),
         forms[n].kind # "submit"
  PROVE  LET p == PaintedControls(forms)[n]
         IN  \/ p.value = IF forms[n].kind = "select" THEN SelectValue(doc, forms, n) ELSE forms[n].value
             \/ p.checked
<1>1. PaintedControls(forms)[n] = Painted(doc, forms, n) /\ forms[n].kind # "hidden"
  BY DEF PaintedControls, VisibleControls
<1>2. \/ forms[n].kind \in TextKinds
      \/ forms[n].kind \in {"checkbox", "radio"} /\ forms[n].checked
      \/ forms[n].kind = "select"
  BY <1>1 DEF Successful
<1>3. /\ Painted(doc, forms, n).checked = (forms[n].kind \in {"checkbox", "radio"} /\ forms[n].checked)
      /\ forms[n].kind = "select" => Painted(doc, forms, n).value = SelectValue(doc, forms, n)
      /\ forms[n].kind \in TextKinds => Painted(doc, forms, n).value = forms[n].value
  BY DEF Painted, TextKinds
<1>4. forms[n].kind \in TextKinds => forms[n].kind # "select"
  BY DEF TextKinds
<1> QED
  BY <1>1, <1>2, <1>3, <1>4

LEMMA SubmissionIsRight ==
  ASSUME IsDocument(doc), Complete(forms), NEW form \in Attached(doc), NEW submitter, NEW s,
         s = [to |-> "form", form |-> form, fields |-> Fields(doc, forms, form, submitter)]
  PROVE  SentRight(doc, forms, PaintedControls(forms), s)
<1> DEFINE order == TraverseDepthFirst(doc, form)
           met == Range(order)
           f == EnsureAll(doc, forms, met)
           S == {n \in met : /\ IsControl(doc, n) /\ Successful(f, n, submitter)
                             /\ doc.tag[n] = "select" => SelectOptions(doc, n) # << >>}
           ns == SuccessfulControls(doc, forms, form, submitter)
           Value(n) == IF forms[n].kind = "select" THEN SelectValue(doc, forms, n) ELSE forms[n].value
           flds == Fields(doc, forms, form, submitter)
<1>1. order \in Seq(NodesOf(doc)) /\ met \subseteq Attached(doc)
  BY BelowFacts
<1>2. f = forms
  <2> HIDE DEF met
  <2>1. met \in SUBSET Attached(doc)
    BY <1>1
  <2> QED
    BY <2>1, NothingToEnsure
<1>3. ns = Among(order, S)
  BY DEF SuccessfulControls
<1>4. \A n \in S : n \in met /\ Successful(forms, n, submitter)
  BY <1>2
<1>5. DOMAIN flds = DOMAIN ns
  BY DEF Fields
<1>6. \A i \in DOMAIN ns : flds[i].node = ns[i] /\ flds[i].value = Value(ns[i])
  BY <1>2 DEF Fields
<1> HIDE DEF S, f, met, flds, ns
<1>7. Range(ns) \subseteq S
  <2> HIDE DEF order
  <2> QED
    BY <1>1, <1>3, AmongFacts
<1>8. s.to = "form" /\ s.form = form /\ s.fields = flds
  BY DEF flds
<1>9. ASSUME NEW i \in DOMAIN flds, NEW n, n = flds[i].node
      PROVE  /\ ~forms[n].disabled
             /\ Contains(PathUp(doc, n), form)
             /\ n \in DOMAIN PaintedControls(forms) /\ forms[n].kind # "submit" =>
                  \/ flds[i].value = PaintedControls(forms)[n].value
                  \/ PaintedControls(forms)[n].checked
  <2>1. n = ns[i] /\ flds[i].value = Value(n) /\ n \in S
    BY <1>5, <1>6, <1>7, <1>9 DEF Range
  <2>2. n \in met /\ Successful(forms, n, submitter)
    BY <1>4, <2>1
  <2>3. ~forms[n].disabled
    BY <2>2 DEF Successful
  <2>4. n \in NodesOf(doc)
    BY <1>1, <2>2, AttachedFacts
  <2>5. PICK k \in DOMAIN PathUp(doc, n) : PathUp(doc, n)[k] = form
    BY <2>2, PathMeets DEF met
  <2>6. k \in 1..Len(PathUp(doc, n))
    BY <2>4, PathFacts
  <2>7. Contains(PathUp(doc, n), form)
    BY <2>5, <2>6 DEF Contains
  <2>8. ASSUME n \in DOMAIN PaintedControls(forms), forms[n].kind # "submit"
        PROVE  \/ Value(n) = PaintedControls(forms)[n].value
               \/ PaintedControls(forms)[n].checked
    BY <2>2, <2>8, ShownIsSent
  <2> QED
    BY <2>1, <2>3, <2>7, <2>8
<1> QED
  BY <1>8, <1>9 DEF SentRight

LEMMA NotAForm == Nothing.to # "form" /\ \A n : LinkOf(n).to # "form"
BY DEF Nothing, LinkOf

LEMMA SentNext == DocumentInv /\ ShownInv /\ SentInv /\ [Next]_vars => SentInv'
<1> SUFFICES ASSUME DocumentInv, ShownInv, SentInv, [Next]_vars PROVE SentInv'
  OBVIOUS
<1>1. ASSUME mode' = "shown", sent'.to # "form"
      PROVE  SentInv'
  BY <1>1 DEF SentInv, SentRight
<1>2. CASE RuntimeNext /\ UNCHANGED shell
  <2>1. mode # "shown" /\ mode' # "shown" /\ sent' = Nothing
    BY <1>2, RuntimeNotShown DEF SentInv, shell
  <2>2. sent'.to # "form"
    BY <2>1, NotAForm
  <2> QED
    BY <2>1, <2>2 DEF SentInv, SentRight, Nothing
<1>3. CASE Show
  <2>1. mode' = "shown" /\ sent' = Nothing
    BY <1>3 DEF Show, SentInv
  <2> QED
    BY <1>1, <2>1, NotAForm
<1>4. CASE Click
  <2>1. mode = "shown" /\ doc' = doc /\ mode' = mode
    BY <1>4 DEF Click, User, Keep
  <2>2. PICK n \in Attached(doc) \ Unpainted :
          LET act == ClickAction(doc, forms, n)
              f == act.forms
          IN  CASE act.did = "changed" -> Rerender(f) /\ sent' = Nothing
               [] act.did = "submit" -> Submit(f, act.form, act.submitter) /\ UNCHANGED painted
               [] act.did = "none" -> forms' = f /\ sent' = LinkOf(n) /\ UNCHANGED painted
    BY <1>4 DEF Click
  <2> DEFINE act == ClickAction(doc, forms, n)
  <2>3. /\ act.did \in {"none", "submit", "changed"}
        /\ act.did \in {"none", "submit"} => act.forms = forms
        /\ act.did = "submit" => act.form \in Attached(doc)
    BY <2>1, ClickActionFacts DEF DocumentInv, ShownInv
  <2>4. /\ act.did = "changed" => sent' = Nothing
        /\ act.did = "submit" => Submit(act.forms, act.form, act.submitter) /\ UNCHANGED painted
        /\ act.did = "none" => sent' = LinkOf(n)
    BY <2>2
  <2> HIDE DEF act
  <2>5. CASE act.did = "changed" \/ act.did = "none"
    <3>1. sent'.to # "form"
      BY <2>4, <2>5, NotAForm
    <3> QED
      BY <1>1, <2>1, <3>1
  <2>6. CASE act.did = "submit" /\ sent' = Nothing
    BY <1>1, <2>1, <2>6, NotAForm
  <2>7. CASE act.did = "submit" /\ sent' # Nothing
    <3>1. Range(TraverseDepthFirst(doc, act.form)) \subseteq Attached(doc)
      BY <2>3, <2>7, BelowIsAttached DEF DocumentInv
    <3>2. EnsureAll(doc, forms, Range(TraverseDepthFirst(doc, act.form))) = forms
      BY <2>1, <3>1, NothingToEnsure DEF ShownInv
    <3>3. /\ forms' = forms /\ painted' = painted
          /\ sent' = [to |-> "form", form |-> act.form,
                      fields |-> Fields(doc, forms, act.form, act.submitter)]
      BY <2>3, <2>4, <2>7, <3>2 DEF Submit
    <3>4. IsDocument(doc) /\ Complete(forms) /\ painted = PaintedControls(forms)
      BY <2>1 DEF DocumentInv, ShownInv
    <3>5. SentRight(doc, forms, painted, sent')
      BY <2>3, <2>7, <3>3, <3>4, SubmissionIsRight
    <3> QED
      BY <2>1, <3>3, <3>5 DEF SentInv
  <2> QED
    BY <2>3, <2>5, <2>6, <2>7
<1>5. CASE ClickNowhere \/ InputText \/ Backspace
  <2>1. mode' = "shown" /\ sent' = Nothing
    BY <1>5 DEF ClickNowhere, InputText, Backspace, Edit, User, Keep
  <2> QED
    BY <1>1, <2>1, NotAForm
<1>6. CASE UNCHANGED vars
  <2>1. UNCHANGED <<mode, doc, forms, painted, sent>>
    BY <1>6 DEF vars, rt, shell
  <2> QED
    BY <2>1 DEF SentInv
<1> QED
  BY <1>2, <1>3, <1>4, <1>5, <1>6 DEF Next

\* What a click sends is what the screen showed: the enabled controls below
\* the form, with the values they were painted with (desktop lib.rs, click;
\* forms submission.rs, successful_controls).
THEOREM SentIsShown == Spec => []SendsWhatIsShown
<1>1. Init => ShownInv /\ SentInv
  BY NotAForm DEF Init, RuntimeInit, ShownInv, SentInv, SentRight
<1>2. Spec => [](ShownInv /\ SentInv)
  BY <1>1, ShownNext, SentNext, DocumentHolds, PTL DEF Spec
<1>3. SentInv => SendsWhatIsShown
  BY DEF SentInv, SentRight, SendsWhatIsShown
<1> QED
  BY <1>2, <1>3, PTL
=============================================================================
