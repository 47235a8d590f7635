---------------------------- MODULE SchedProofs ----------------------------
(***************************************************************************)
(* What the functions of module Sched do to a well-linked kernel state.    *)
(* One lemma per function: it keeps the types and the links, and it says   *)
(* which fields change.  The proofs about components cite these lemmas     *)
(* and never open the functions.  The first lemmas are about the numbers   *)
(* and the lists they use.                                                 *)
(***************************************************************************)
EXTENDS Sched, SequenceTheorems, FiniteSetTheorems, WellFoundedInduction, TLAPS

-----------------------------------------------------------------------------
(* Numbers and sequences *)

\* A set of numbers has a least element: CHOOSE finds the slot of get_task, the
\* child of sys_waitpid and the place of list_insert.
LEMMA LeastElement ==
  ASSUME NEW T \in SUBSET Nat, T # {}
  PROVE  \E x \in T : \A y \in T : x <= y
<1> DEFINE R == {ss \in Nat \X Nat : ss[1] < ss[2]}
<1>1. R = OpToRel(<, Nat)
  BY DEF OpToRel
<1>2. IsWellFoundedOn(R, Nat)
  BY <1>1, NatLessThanWellFounded
<1>3. \A x, y \in Nat : x < y => <<x, y>> \in R
  OBVIOUS
<1> HIDE DEF R
<1>4. \E x \in T : \A y \in T : ~(<<y, x>> \in R)
  BY <1>2, WFMin
<1>5. PICK x \in T : \A y \in T : ~(<<y, x>> \in R)
  BY <1>4
<1>6. ASSUME NEW y \in T PROVE x <= y
  <2>1. x \in Nat /\ y \in Nat
    OBVIOUS
  <2>2. ~(y < x)
    BY <2>1, <1>3, <1>5
  <2> QED BY <2>1, <2>2
<1> QED BY <1>6

\* Deleting position i of a sequence shifts what follows it (remove_node).
LEMMA RemoveAtFacts ==
  ASSUME NEW S, NEW s \in Seq(S), NEW i \in 1 .. Len(s)
  PROVE  /\ RemoveAt(s, i) \in Seq(S)
         /\ Len(RemoveAt(s, i)) = Len(s) - 1
         /\ \A j \in 1 .. Len(s) - 1 :
              RemoveAt(s, i)[j] = IF j < i THEN s[j] ELSE s[j + 1]
<1> DEFINE a == SubSeq(s, 1, i - 1)
           b == SubSeq(s, i + 1, Len(s))
<1>1. a \in Seq(S) /\ Len(a) = i - 1 /\ \A j \in 1 .. i - 1 : a[j] = s[j]
  BY SubSeqProperties
<1>2. /\ b \in Seq(S) /\ Len(b) = Len(s) - i
      /\ \A j \in 1 .. Len(s) - i : b[j] = s[i + j]
  <2>1. \A j \in i + 1 .. Len(s) : s[j] \in S
    OBVIOUS
  <2>2. /\ b \in Seq(S)
        /\ Len(b) = IF i + 1 <= Len(s) THEN Len(s) - (i + 1) + 1 ELSE 0
        /\ \A j \in 1 .. Len(s) - (i + 1) + 1 : b[j] = s[(i + 1) + j - 1]
    BY <2>1, SubSeqProperties
  <2> QED BY <2>2
<1>3. RemoveAt(s, i) = a \o b
  BY DEF RemoveAt
<1> HIDE DEF a, b
<1>4. /\ a \o b \in Seq(S)
      /\ Len(a \o b) = Len(a) + Len(b)
      /\ \A j \in 1 .. Len(a) + Len(b) :
           (a \o b)[j] = IF j <= Len(a) THEN a[j] ELSE b[j - Len(a)]
  BY <1>1, <1>2, ConcatProperties
<1> QED BY <1>1, <1>2, <1>3, <1>4, SMTT(30)

\* Inserting at position i shifts what was there (insert_before_anchor).
LEMMA InsertAtFacts ==
  ASSUME NEW S, NEW s \in Seq(S), NEW e \in S, NEW i \in 1 .. Len(s) + 1
  PROVE  /\ InsertAt(s, i, e) \in Seq(S)
         /\ Len(InsertAt(s, i, e)) = Len(s) + 1
         /\ \A j \in 1 .. Len(s) + 1 :
              InsertAt(s, i, e)[j] = IF j < i THEN s[j]
                                     ELSE IF j = i THEN e ELSE s[j - 1]
<1> DEFINE a == SubSeq(s, 1, i - 1)
           b == SubSeq(s, i, Len(s))
           ae == a \o <<e>>
<1>1. a \in Seq(S) /\ Len(a) = i - 1 /\ \A j \in 1 .. i - 1 : a[j] = s[j]
  BY SubSeqProperties
<1>2. /\ b \in Seq(S) /\ Len(b) = Len(s) - i + 1
      /\ \A j \in 1 .. Len(s) - i + 1 : b[j] = s[i + j - 1]
  <2>1. \A j \in i .. Len(s) : s[j] \in S
    OBVIOUS
  <2> QED BY <2>1, SubSeqProperties
<1>3. InsertAt(s, i, e) = ae \o b
  BY DEF InsertAt
<1> HIDE DEF a, b
<1>4. /\ ae \in Seq(S) /\ Len(ae) = i
      /\ \A j \in 1 .. i : ae[j] = IF j < i THEN s[j] ELSE e
  BY <1>1
<1> HIDE DEF ae
<1>5. /\ ae \o b \in Seq(S)
      /\ Len(ae \o b) = Len(ae) + Len(b)
      /\ \A j \in 1 .. Len(ae) + Len(b) :
           (ae \o b)[j] = IF j <= Len(ae) THEN ae[j] ELSE b[j - Len(ae)]
  BY <1>2, <1>4, ConcatProperties
<1> QED BY <1>1, <1>2, <1>3, <1>4, <1>5

-----------------------------------------------------------------------------
(* Lists as what is on them *)

Has(s, e) == \E i \in 1 .. Len(s) : s[i] = e
Once(s) == \A i, j \in 1 .. Len(s) : s[i] = s[j] => i = j

\* An empty list has nothing on it.
LEMMA EmptyHas ==
  ASSUME NEW S, NEW s \in Seq(S)
  PROVE  s = <<>> <=> ~ \E e \in S : Has(s, e)
BY DEF Has

\* Pushing at the head (list_push).
LEMMA ConsFacts ==
  ASSUME NEW S, NEW s \in Seq(S), NEW e \in S
  PROVE  /\ <<e>> \o s \in Seq(S) /\ <<e>> \o s # <<>>
         /\ \A x : Has(<<e>> \o s, x) <=> x = e \/ Has(s, x)
         /\ Once(s) /\ ~Has(s, e) => Once(<<e>> \o s)
<1> DEFINE t == <<e>> \o s
<1>1. /\ t \in Seq(S) /\ Len(t) = Len(s) + 1
      /\ t[1] = e /\ \A i \in 1 .. Len(s) : t[i + 1] = s[i]
  OBVIOUS
<1> HIDE DEF t
<1>2. \A i \in 1 .. Len(t) : i = 1 \/ (i - 1 \in 1 .. Len(s) /\ t[i] = s[i - 1])
  <2> SUFFICES ASSUME NEW i \in 1 .. Len(t), i # 1
               PROVE  i - 1 \in 1 .. Len(s) /\ t[i] = s[i - 1]
    OBVIOUS
  <2>1. i - 1 \in 1 .. Len(s) /\ (i - 1) + 1 = i
    BY <1>1
  <2> QED BY <2>1, <1>1
<1>3. ASSUME NEW x PROVE Has(t, x) <=> x = e \/ Has(s, x)
  <2>1. ASSUME Has(t, x) PROVE x = e \/ Has(s, x)
    BY <1>1, <1>2, <2>1 DEF Has
  <2>2. ASSUME Has(s, x) PROVE Has(t, x)
    <3>1. PICK i \in 1 .. Len(s) : s[i] = x
      BY <2>2 DEF Has
    <3>2. i + 1 \in 1 .. Len(t) /\ t[i + 1] = x
      BY <3>1, <1>1
    <3> QED BY <3>2 DEF Has
  <2>3. Has(t, e)
    BY <1>1 DEF Has
  <2> QED BY <2>1, <2>2, <2>3
<1>4. ASSUME Once(s), ~Has(s, e) PROVE Once(t)
  <2> SUFFICES ASSUME NEW i \in 1 .. Len(t), NEW j \in 1 .. Len(t), t[i] = t[j]
               PROVE  i = j
    BY DEF Once
  <2>1. CASE i = 1 \/ j = 1
    BY <2>1, <1>1, <1>2, <1>4 DEF Has
  <2>2. CASE i # 1 /\ j # 1
    <3>1. s[i - 1] = s[j - 1] /\ i - 1 \in 1 .. Len(s) /\ j - 1 \in 1 .. Len(s)
      BY <2>2, <1>2
    <3>2. i - 1 = j - 1
      BY <3>1, <1>4 DEF Once
    <3> QED BY <3>2, <1>1
  <2> QED BY <2>1, <2>2
<1> QED BY <1>1, <1>3, <1>4 DEF t

\* Taking off the last element (the oldest waiter of a mutex).
LEMMA FrontFacts ==
  ASSUME NEW S, NEW s \in Seq(S), s # <<>>, Once(s)
  PROVE  /\ Last(s) \in S /\ Has(s, Last(s)) /\ Front(s) \in Seq(S) /\ Once(Front(s))
         /\ \A x : Has(Front(s), x) <=> Has(s, x) /\ x # Last(s)
<1> DEFINE t == Front(s)
           n == Len(s)
<1>1. n \in Nat \ {0}
  BY EmptySeq
<1>2. t \in Seq(S) /\ Len(t) = n - 1 /\ \A i \in 1 .. n - 1 : t[i] = s[i]
  <2>1. 1 \in Int /\ n - 1 \in Int /\ \A i \in 1 .. n - 1 : s[i] \in S
    BY <1>1
  <2>2. /\ SubSeq(s, 1, n - 1) \in Seq(S)
        /\ Len(SubSeq(s, 1, n - 1)) = IF 1 <= n - 1 THEN n - 1 - 1 + 1 ELSE 0
        /\ \A i \in 1 .. n - 1 - 1 + 1 : SubSeq(s, 1, n - 1)[i] = s[1 + i - 1]
    BY <2>1, SubSeqProperties
  <2>3. t = SubSeq(s, 1, n - 1)
    BY DEF Front
  <2> HIDE DEF t, n
  <2>4. /\ \A i \in 1 .. n - 1 : i \in 1 .. n - 1 - 1 + 1 /\ 1 + i - 1 = i
        /\ (IF 1 <= n - 1 THEN n - 1 - 1 + 1 ELSE 0) = n - 1
    BY <1>1
  <2> QED BY <2>2, <2>3, <2>4
<1>3. Last(s) = s[n] /\ n \in 1 .. Len(s)
  BY <1>1 DEF Last
<1> HIDE DEF t, n
<1>4. \A i \in 1 .. Len(s) : i = n \/ i \in 1 .. n - 1
  BY <1>1 DEF n
<1>5. Once(t)
  BY <1>1, <1>2 DEF Once, n
<1>6. \A i \in 1 .. n - 1 : i \in 1 .. Len(s) /\ i # n
  BY <1>1 DEF n
<1>7. ASSUME NEW x PROVE Has(t, x) <=> Has(s, x) /\ x # Last(s)
  <2>1. ASSUME Has(t, x) PROVE Has(s, x) /\ x # Last(s)
    <3>1. PICK i \in 1 .. n - 1 : t[i] = x
      BY <2>1, <1>2 DEF Has
    <3> QED BY <3>1, <1>2, <1>3, <1>6 DEF Has, Once
  <2>2. ASSUME Has(s, x), x # Last(s) PROVE Has(t, x)
    <3>1. PICK i \in 1 .. Len(s) : s[i] = x
      BY <2>2 DEF Has
    <3> QED BY <3>1, <2>2, <1>2, <1>3, <1>4 DEF Has
  <2> QED BY <2>1, <2>2
<1> QED BY <1>2, <1>3, <1>5, <1>7 DEF Has, t

\* Taking off the first element (the newest waiter of wait_list).
LEMMA TailFacts ==
  ASSUME NEW S, NEW s \in Seq(S), s # <<>>, Once(s)
  PROVE  /\ Head(s) \in S /\ Has(s, Head(s)) /\ Tail(s) \in Seq(S) /\ Once(Tail(s))
         /\ \A x : Has(Tail(s), x) <=> Has(s, x) /\ x # Head(s)
<1> DEFINE t == Tail(s)
           n == Len(s)
<1>1. n \in Nat \ {0}
  BY EmptySeq
<1>2. t \in Seq(S) /\ Len(t) = n - 1 /\ \A i \in 1 .. n - 1 : t[i] = s[i + 1]
  BY <1>1, HeadTailProperties
<1>3. Head(s) = s[1] /\ 1 \in 1 .. Len(s)
  BY <1>1
<1> HIDE DEF t
<1>4. Once(t)
  <2> SUFFICES ASSUME NEW i \in 1 .. n - 1, NEW j \in 1 .. n - 1, t[i] = t[j] PROVE i = j
    BY <1>2 DEF Once
  <2>1. s[i + 1] = s[j + 1] /\ i + 1 \in 1 .. n /\ j + 1 \in 1 .. n
    BY <1>1, <1>2
  <2>2. i + 1 = j + 1
    BY <2>1 DEF Once
  <2> QED BY <2>2
<1>5. ASSUME NEW x PROVE Has(t, x) <=> Has(s, x) /\ x # Head(s)
  <2>1. ASSUME Has(t, x) PROVE Has(s, x) /\ x # Head(s)
    <3>1. PICK i \in 1 .. n - 1 : t[i] = x
      BY <2>1, <1>2 DEF Has
    <3>2. i + 1 \in 1 .. n /\ i + 1 # 1 /\ s[i + 1] = x
      BY <3>1, <1>1, <1>2
    <3> QED BY <3>2, <1>3 DEF Has, Once
  <2>2. ASSUME Has(s, x), x # Head(s) PROVE Has(t, x)
    <3>1. PICK i \in 1 .. n : s[i] = x
      BY <2>2 DEF Has
    <3>2. i - 1 \in 1 .. n - 1 /\ (i - 1) + 1 = i
      BY <3>1, <2>2, <1>1, <1>3
    <3>3. t[i - 1] = x
      BY <3>1, <3>2, <1>2
    <3> QED BY <3>2, <3>3, <1>2 DEF Has
  <2> QED BY <2>1, <2>2
<1> QED BY <1>2, <1>3, <1>4, <1>5 DEF Has, t

\* Moving an element to the end of a list, or adding it there (buffer_remove
\* and buffer_insert).
LEMMA MoveToEnd ==
  ASSUME NEW S, NEW s \in Seq(S), NEW e \in S
  PROVE  LET t == Append(RemoveFirst(s, e), e)
         IN t \in Seq(S) /\ \A x : Has(t, x) <=> x = e \/ Has(s, x)
<1> DEFINE r == RemoveFirst(s, e)
           t == Append(r, e)
<1>1. /\ r \in Seq(S)
      /\ \A x : Has(r, x) => Has(s, x)
      /\ \A x : Has(s, x) /\ x # e => Has(r, x)
  <2>1. CASE ~Has(s, e)
    BY <2>1 DEF RemoveFirst, Has
  <2>2. CASE Has(s, e)
    <3> DEFINE I == {i \in 1 .. Len(s) : s[i] = e}
               m == Min(I)
    <3>1. I \in SUBSET Nat /\ I # {}
      BY <2>2 DEF Has
    <3>2. m \in I
      BY <3>1, LeastElement DEF Min
    <3>3. r = RemoveAt(s, m)
      BY <2>2, <3>1 DEF RemoveFirst, SelectInSeq, Has
    <3>4. m \in 1 .. Len(s) /\ s[m] = e
      BY <3>2
    <3> HIDE DEF m
    <3>5. /\ r \in Seq(S) /\ Len(r) = Len(s) - 1
          /\ \A j \in 1 .. Len(s) - 1 : r[j] = IF j < m THEN s[j] ELSE s[j + 1]
      BY <3>3, <3>4, RemoveAtFacts
    <3> HIDE DEF r
    <3>6. ASSUME NEW x, Has(r, x) PROVE Has(s, x)
      <4>1. PICK j \in 1 .. Len(s) - 1 : r[j] = x
        BY <3>5, <3>6 DEF Has
      <4>2. j \in 1 .. Len(s) /\ j + 1 \in 1 .. Len(s)
        OBVIOUS
      <4> QED BY <4>1, <4>2, <3>5 DEF Has
    <3>7. ASSUME NEW x, Has(s, x), x # e PROVE Has(r, x)
      <4>1. PICK j \in 1 .. Len(s) : s[j] = x
        BY <3>7 DEF Has
      <4>2. CASE j < m
        <5>1. j \in 1 .. Len(s) - 1
          BY <4>2, <3>4
        <5> QED BY <5>1, <4>1, <4>2, <3>5 DEF Has
      <4>3. CASE j > m
        <5>1. j - 1 \in 1 .. Len(s) - 1 /\ ~(j - 1 < m) /\ (j - 1) + 1 = j
          BY <4>3, <3>4
        <5>2. r[j - 1] = x
          BY <5>1, <4>1, <3>5
        <5> QED BY <5>1, <5>2, <3>5 DEF Has
      <4> QED BY <4>1, <4>2, <4>3, <3>4, <3>7
    <3> QED BY <3>5, <3>6, <3>7
  <2> QED BY <2>1, <2>2
<1> HIDE DEF r
<1>2. /\ t \in Seq(S) /\ Len(t) = Len(r) + 1 /\ t[Len(r) + 1] = e
      /\ \A i \in 1 .. Len(r) : t[i] = r[i]
  BY <1>1, AppendProperties
<1> HIDE DEF t
<1>3. ASSUME NEW x PROVE Has(t, x) <=> x = e \/ Has(s, x)
  <2>1. \A i \in 1 .. Len(t) : i = Len(r) + 1 \/ i \in 1 .. Len(r)
    BY <1>1, <1>2
  <2>2. Len(r) + 1 \in 1 .. Len(t) /\ \A i \in 1 .. Len(r) : i \in 1 .. Len(t)
    BY <1>1, <1>2
  <2>3. Has(t, x) <=> x = e \/ Has(r, x)
    BY <2>1, <2>2, <1>2 DEF Has
  <2> QED BY <2>3, <1>1
<1> QED BY <1>2, <1>3 DEF t, r

-----------------------------------------------------------------------------
(* The order of a list *)

\* The parts of a list with one node in front.
LEMMA HeadTailConcat ==
  ASSUME NEW S, NEW e \in S, NEW s \in Seq(S)
  PROVE  <<e>> \o s # <<>> /\ Head(<<e>> \o s) = e /\ Tail(<<e>> \o s) = s
<1> DEFINE t == <<e>> \o s
<1>1. t \in Seq(S) /\ Len(t) = Len(s) + 1 /\ t[1] = e /\ \A i \in 1 .. Len(s) : t[i + 1] = s[i]
  OBVIOUS
<1> HIDE DEF t
<1>2. t # <<>> /\ Head(t) = e
  BY <1>1
<1>3. Tail(t) \in Seq(S) /\ Len(Tail(t)) = Len(s) /\ \A i \in 1 .. Len(s) : Tail(t)[i] = t[i + 1]
  BY <1>1, <1>2
<1>4. \A i \in 1 .. Len(s) : Tail(t)[i] = s[i]
  BY <1>1, <1>3
<1>5. Tail(t) = s
  BY <1>3, <1>4, SeqEqual
<1> QED BY <1>2, <1>5 DEF t

\* A list from its tail to its head: the order in which schedule() and mutex_unlock
\* take its nodes.
LEMMA ReverseFacts ==
  ASSUME NEW S, NEW s \in Seq(S)
  PROVE  /\ Reverse(s) \in Seq(S) /\ Len(Reverse(s)) = Len(s)
         /\ \A i \in 1 .. Len(s) : Len(s) - i + 1 \in 1 .. Len(s) /\ Reverse(s)[i] = s[Len(s) - i + 1]
<1>1. Len(s) \in Nat /\ \A i \in 1 .. Len(s) : Len(s) - i + 1 \in 1 .. Len(s) /\ s[Len(s) - i + 1] \in S
  OBVIOUS
<1> QED BY <1>1 DEF Reverse

\* Who comes first into the list of list.c leaves it last.
LEMMA ReversePush ==
  ASSUME NEW S, NEW s \in Seq(S), NEW p \in S
  PROVE  Reverse(<<p>> \o s) = Append(Reverse(s), p)
<1> DEFINE t == <<p>> \o s
           n == Len(s)
<1>1. t \in Seq(S) /\ Len(t) = n + 1 /\ n \in Nat /\ t[1] = p /\ \A i \in 1 .. n : t[i + 1] = s[i]
  OBVIOUS
<1> HIDE DEF t
<1>2. Reverse(t) \in Seq(S) /\ Len(Reverse(t)) = n + 1 /\ \A i \in 1 .. n + 1 : Reverse(t)[i] = t[n + 1 - i + 1]
  BY <1>1, ReverseFacts
<1>3. Reverse(s) \in Seq(S) /\ Len(Reverse(s)) = n /\ \A i \in 1 .. n : Reverse(s)[i] = s[n - i + 1]
  BY ReverseFacts
<1> DEFINE a == Append(Reverse(s), p)
<1>4. a \in Seq(S) /\ Len(a) = n + 1 /\ a[n + 1] = p /\ \A i \in 1 .. n : a[i] = Reverse(s)[i]
  BY <1>1, <1>3
<1> HIDE DEF a, n
<1>5. \A i \in 1 .. n + 1 : Reverse(t)[i] = a[i]
  <2> SUFFICES ASSUME NEW i \in 1 .. n + 1 PROVE Reverse(t)[i] = a[i]
    OBVIOUS
  <2>1. CASE i = n + 1
    <3>1. n + 1 - i + 1 = 1
      BY <1>1, <2>1
    <3>2. Reverse(t)[i] = t[1]
      BY <1>2, <3>1
    <3> QED BY <1>1, <1>4, <2>1, <3>2
  <2>2. CASE i # n + 1
    <3>1. i \in 1 .. n /\ n - i + 1 \in 1 .. n /\ n + 1 - i + 1 = (n - i + 1) + 1
      BY <1>1, <2>2
    <3>2. Reverse(t)[i] = t[(n - i + 1) + 1]
      BY <1>2, <3>1
    <3>3. t[(n - i + 1) + 1] = s[n - i + 1]
      BY <1>1, <3>1
    <3>4. a[i] = s[n - i + 1]
      BY <1>3, <1>4, <3>1
    <3> QED BY <3>2, <3>3, <3>4
  <2> QED BY <2>1, <2>2
<1>6. Reverse(t) = a
  BY <1>2, <1>4, <1>5, SeqEqual
<1> QED BY <1>6 DEF t, a

\* Who is taken first, and who is left.
LEMMA ReverseLast ==
  ASSUME NEW S, NEW s \in Seq(S), s # <<>>
  PROVE  /\ Last(s) \in S /\ Front(s) \in Seq(S)
         /\ Reverse(s) = <<Last(s)>> \o Reverse(Front(s))
<1> DEFINE f == Front(s)
           n == Len(s)
<1>1. n \in Nat \ {0} /\ Last(s) = s[n] /\ Last(s) \in S
  BY EmptySeq DEF Last
<1>2. f \in Seq(S) /\ Len(f) = n - 1 /\ \A i \in 1 .. n - 1 : f[i] = s[i]
  <2>1. n \in Nat /\ n >= 1 /\ \A i \in 1 .. n - 1 : s[i] \in S
    BY <1>1
  <2>2. Len(s) = n
    OBVIOUS
  <2> HIDE DEF n
  <2> QED BY <2>1, <2>2 DEF Front
<1> HIDE DEF f
<1>3. Reverse(s) \in Seq(S) /\ Len(Reverse(s)) = n /\ \A i \in 1 .. n : Reverse(s)[i] = s[n - i + 1]
  BY ReverseFacts
<1>4. Reverse(f) \in Seq(S) /\ Len(Reverse(f)) = n - 1 /\ \A i \in 1 .. n - 1 : Reverse(f)[i] = f[n - 1 - i + 1]
  BY <1>2, ReverseFacts
<1> DEFINE l == Last(s)
           b == <<l>> \o Reverse(f)
<1> HIDE DEF l
<1>5. b \in Seq(S) /\ Len(b) = n /\ b[1] = l /\ \A i \in 1 .. n - 1 : b[i + 1] = Reverse(f)[i]
  <2>1. l \in S
    BY <1>1 DEF l
  <2> HIDE DEF n
  <2> QED BY <1>1, <1>4, <2>1
<1> HIDE DEF b, n
<1>6. \A i \in 1 .. n : Reverse(s)[i] = b[i]
  <2> SUFFICES ASSUME NEW i \in 1 .. n PROVE Reverse(s)[i] = b[i]
    OBVIOUS
  <2>1. CASE i = 1
    <3>1. n - i + 1 = n
      BY <1>1, <2>1
    <3> QED BY <1>1, <1>3, <1>5, <2>1, <3>1 DEF l
  <2>2. CASE i # 1
    <3>1. PICK j \in 1 .. n - 1 : i = j + 1
      <4>1. i - 1 \in 1 .. n - 1 /\ i = (i - 1) + 1
        BY <1>1, <2>2
      <4> QED BY <4>1
    <3>2. n - 1 - j + 1 \in 1 .. n - 1 /\ n - i + 1 = n - 1 - j + 1
      BY <1>1, <3>1
    <3>3. b[i] = f[n - 1 - j + 1]
      BY <1>4, <1>5, <3>1
    <3> QED BY <1>2, <1>3, <3>2, <3>3
  <2> QED BY <2>1, <2>2
<1>7. Reverse(s) = b
  BY <1>3, <1>5, <1>6, SeqEqual
<1> QED BY <1>1, <1>2, <1>7 DEF f, b, l

\* The one order of at most one element.
LEMMA SetToSeqSmall ==
  /\ SetToSeq({}) = <<>>
  /\ \A p : SetToSeq({p}) = <<p>>
<1>1. SetToSeq({}) = <<>>
  <2>1. Cardinality({}) = 0
    BY FS_EmptySet
  <2>2. \A f \in [1 .. 0 -> {}] : f = <<>>
    OBVIOUS
  <2>3. <<>> \in [1 .. 0 -> {}] /\ IsInjective(<<>>)
    BY DEF IsInjective
  <2> QED BY <2>1, <2>2, <2>3 DEF SetToSeq
<1>2. ASSUME NEW p PROVE SetToSeq({p}) = <<p>>
  <2>1. Cardinality({p}) = 1
    BY FS_Singleton
  <2>2. ASSUME NEW f \in [1 .. 1 -> {p}] PROVE f = <<p>>
    <3>1. f[1] = p
      OBVIOUS
    <3>4. f \in Seq({p}) /\ Len(f) = 1
      BY 1 \in Nat, SMTT(30)
    <3>2. <<p>> \in Seq({p}) /\ Len(<<p>>) = 1 /\ <<p>>[1] = p
      OBVIOUS
    <3>3. \A i \in 1 .. 1 : f[i] = <<p>>[i]
      OBVIOUS
    <3> QED BY <3>1, <3>2, <3>3, <3>4, SeqEqual
  <2>3. <<p>> \in [1 .. 1 -> {p}] /\ IsInjective(<<p>>)
    BY DEF IsInjective
  <2> QED BY <2>1, <2>2, <2>3 DEF SetToSeq
<1> QED BY <1>1, <1>2

-----------------------------------------------------------------------------
(* Lists *)

KernelOK(k) == k \in KernelState /\ WellLinked(k)

\* Every field but the links.
SameTasks(k, m) ==
  /\ m.state = k.state /\ m.running = k.running /\ m.stop = k.stop
  /\ m.ppid = k.ppid /\ m.waitpid = k.waitpid /\ m.priority = k.priority
  /\ m.ticks = k.ticks /\ m.value = k.value /\ m.jiffies = k.jiffies

\* remove_node unlinks a linked node and touches nothing else.
LEMMA RemoveNode ==
  ASSUME NEW k, KernelOK(k), NEW p \in Pid, k.container[p] # NoList
  PROVE  /\ KernelOK(remove_node(k, p))
         /\ SameTasks(k, remove_node(k, p))
         /\ remove_node(k, p).container = [k.container EXCEPT ![p] = NoList]
<1> DEFINE l == k.container[p]
           s == k.list[l]
           i == IndexIn(s, p)
           m == remove_node(k, p)
           t == RemoveAt(s, i)
<1>1. l \in Lists /\ s \in Seq(Pid)
  BY DEF KernelOK, KernelState
<1>2. i \in 1 .. Len(s) /\ s[i] = p
  <2>1. \E j \in 1 .. Len(s) : s[j] = p
    BY DEF KernelOK, WellLinked
  <2> QED BY <2>1 DEF IndexIn
<1>3. m = [k EXCEPT !.list[l] = t, !.container[p] = NoList]
  BY DEF remove_node
<1>4. /\ m \in KernelState /\ SameTasks(k, m)
      /\ m.container = [k.container EXCEPT ![p] = NoList]
      /\ m.list = [k.list EXCEPT ![l] = t]
  <2>1. t \in Seq(Pid)
    BY <1>1, <1>2, RemoveAtFacts
  <2> HIDE DEF m, t, l, s, i
  <2>2. k \in KernelState
    BY DEF KernelOK
  <2>3. /\ m.container = [k.container EXCEPT ![p] = NoList]
        /\ m.list = [k.list EXCEPT ![l] = t]
    BY <2>2, <1>3 DEF KernelState
  <2>4. SameTasks(k, m)
    BY <2>2, <1>3 DEF KernelState, SameTasks
  <2>5. m \in KernelState
    BY <1>1, <1>3, <2>1, <2>2 DEF KernelState
  <2> QED BY <2>3, <2>4, <2>5
<1>5. WellLinked(m)
  <2>1. /\ t \in Seq(Pid) /\ Len(t) = Len(s) - 1
        /\ \A j \in 1 .. Len(s) - 1 : t[j] = IF j < i THEN s[j] ELSE s[j + 1]
    BY <1>1, <1>2, RemoveAtFacts
  <2> HIDE DEF t, m, i
  <2>a. /\ k.list \in [Lists -> Seq(Pid)]
        /\ k.container \in [Pid -> Lists \cup {NoList}]
    BY DEF KernelOK, KernelState
  <2>c. \A j \in 1 .. Len(t) :
          \E n \in 1 .. Len(s) : n # i /\ t[j] = s[n] /\ n = IF j < i THEN j ELSE j + 1
    <3> SUFFICES ASSUME NEW j \in 1 .. Len(t)
                 PROVE  \E n \in 1 .. Len(s) :
                          n # i /\ t[j] = s[n] /\ n = IF j < i THEN j ELSE j + 1
      OBVIOUS
    <3> DEFINE n == IF j < i THEN j ELSE j + 1
    <3>1. n \in 1 .. Len(s) /\ n # i /\ t[j] = s[n]
      BY <2>1, <1>1, <1>2
    <3> QED BY <3>1
  <2>b. m.list[l] = t /\ \A q \in Lists \ {l} : m.list[q] = k.list[q]
    BY <2>a, <1>1, <1>4
  <2>2. \A q \in Lists : \A j \in 1 .. Len(m.list[q]) : m.container[m.list[q][j]] = q
    <3> SUFFICES ASSUME NEW q \in Lists, NEW j \in 1 .. Len(m.list[q])
                 PROVE  m.list[q][j] \in Pid \ {p} /\ k.container[m.list[q][j]] = q
      BY <2>a, <1>4
    <3>1. CASE q = l
      <4>1. PICK n \in 1 .. Len(s) : n # i /\ m.list[q][j] = s[n]
        BY <3>1, <2>b, <2>c
      <4> QED BY <4>1, <3>1, <1>1, <1>2, SMTT(30) DEF KernelOK, WellLinked
    <3>2. CASE q # l
      <4>1. m.list[q][j] \in Pid /\ k.container[m.list[q][j]] = q
        BY <3>2, <2>a, <2>b DEF KernelOK, WellLinked
      <4> QED BY <4>1, <3>2
    <3> QED BY <3>1, <3>2
  <2>3. \A q \in Lists : \A j, n \in 1 .. Len(m.list[q]) :
          m.list[q][j] = m.list[q][n] => j = n
    <3> SUFFICES ASSUME NEW q \in Lists, NEW j \in 1 .. Len(m.list[q]),
                        NEW n \in 1 .. Len(m.list[q]), m.list[q][j] = m.list[q][n]
                 PROVE  j = n
      OBVIOUS
    <3>0. \A x, y \in 1 .. Len(k.list[q]) : k.list[q][x] = k.list[q][y] => x = y
      BY SMTT(30) DEF KernelOK, WellLinked
    <3>1. CASE q = l
      <4>1. PICK x \in 1 .. Len(s) : t[j] = s[x] /\ x = IF j < i THEN j ELSE j + 1
        BY <3>1, <2>b, <2>c
      <4>2. PICK y \in 1 .. Len(s) : t[n] = s[y] /\ y = IF n < i THEN n ELSE n + 1
        BY <3>1, <2>b, <2>c
      <4>3. x = y
        BY <4>1, <4>2, <3>0, <3>1, <2>b, ZenonT(40)
      <4> QED BY <4>1, <4>2, <4>3, <3>1, <2>b, <2>1, <1>1, <1>2
    <3>2. CASE q # l
      BY <3>0, <3>2, <2>b
    <3> QED BY <3>1, <3>2
  <2>4. \A q \in Pid : m.container[q] # NoList =>
          \E j \in 1 .. Len(m.list[m.container[q]]) : m.list[m.container[q]][j] = q
    <3> SUFFICES ASSUME NEW q \in Pid, m.container[q] # NoList
                 PROVE  \E j \in 1 .. Len(m.list[m.container[q]]) :
                          m.list[m.container[q]][j] = q
      OBVIOUS
    <3>0. q # p /\ m.container[q] = k.container[q] /\ k.container[q] \in Lists
      BY <2>a, <1>4
    <3>1. PICK n \in 1 .. Len(k.list[k.container[q]]) : k.list[k.container[q]][n] = q
      BY <3>0 DEF KernelOK, WellLinked
    <3>2. CASE k.container[q] = l
      <4>1. n \in 1 .. Len(s) /\ s[n] = q /\ n # i
        BY <3>0, <3>1, <3>2, <1>2
      <4>2. CASE n < i
        BY <4>1, <4>2, <3>0, <3>2, <2>1, <2>b, <1>1, <1>2, SMTT(30)
      <4>3. CASE n > i
        <5>1. n - 1 \in 1 .. Len(t) /\ t[n - 1] = q
          BY <4>1, <4>3, <2>1, <1>1, <1>2
        <5> QED BY <5>1, <3>0, <3>2, <2>b
      <4> QED BY <4>1, <4>2, <4>3, <1>1, <1>2
    <3>3. CASE k.container[q] # l
      BY <3>0, <3>1, <3>3, <2>b
    <3> QED BY <3>2, <3>3
  <2> QED BY <2>2, <2>3, <2>4 DEF WellLinked
<1> QED BY <1>4, <1>5 DEF KernelOK

\* Linking an unlinked node before any position, or at the end, of a list.
LEMMA InsertNode ==
  ASSUME NEW k, KernelOK(k), NEW p \in Pid, k.container[p] = NoList,
         NEW l \in Lists, NEW i \in 1 .. Len(k.list[l]) + 1
  PROVE  /\ KernelOK(insert_at(k, l, p, i))
         /\ SameTasks(k, insert_at(k, l, p, i))
         /\ insert_at(k, l, p, i).container = [k.container EXCEPT ![p] = l]
<1> DEFINE s == k.list[l]
           m == insert_at(k, l, p, i)
           t == InsertAt(s, i, p)
<1>0. k \in KernelState /\ NoList \notin Lists
  BY SchedAssumption DEF KernelOK, NoList
<1>1. /\ k.list \in [Lists -> Seq(Pid)]
      /\ k.container \in [Pid -> Lists \cup {NoList}]
      /\ s \in Seq(Pid)
  BY <1>0 DEF KernelState
<1>2. /\ t \in Seq(Pid) /\ Len(t) = Len(s) + 1
      /\ \A j \in 1 .. Len(s) + 1 :
           t[j] = IF j < i THEN s[j] ELSE IF j = i THEN p ELSE s[j - 1]
  BY <1>1, InsertAtFacts, SMTT(30)
<1>3. m = [k EXCEPT !.list[l] = t, !.container[p] = l]
  BY DEF insert_at
<1>4. /\ m \in KernelState /\ SameTasks(k, m)
      /\ m.container = [k.container EXCEPT ![p] = l]
      /\ m.list = [k.list EXCEPT ![l] = t]
  <2> HIDE DEF m, t, s
  <2>3. /\ m.container = [k.container EXCEPT ![p] = l]
        /\ m.list = [k.list EXCEPT ![l] = t]
    BY <1>0, <1>3 DEF KernelState
  <2>4. SameTasks(k, m)
    BY <1>0, <1>3 DEF KernelState, SameTasks
  <2>5. m \in KernelState
    BY <1>0, <1>2, <1>3 DEF KernelState
  <2> QED BY <2>3, <2>4, <2>5
<1>5. m.list[l] = t /\ \A q \in Lists \ {l} : m.list[q] = k.list[q]
  BY <1>1, <1>4
<1>6. \A j \in 1 .. Len(s) : s[j] \in Pid /\ s[j] # p /\ k.container[s[j]] = l
  BY <1>0, <1>1 DEF KernelOK, WellLinked
<1>7. WellLinked(m)
  <2> HIDE DEF t, m
  <2>1. \A q \in Lists : \A j \in 1 .. Len(m.list[q]) : m.container[m.list[q][j]] = q
    <3> SUFFICES ASSUME NEW q \in Lists, NEW j \in 1 .. Len(m.list[q])
                 PROVE  m.container[m.list[q][j]] = q
      OBVIOUS
    <3>1. CASE q = l
      <4>1. t[j] = p \/ \E n \in 1 .. Len(s) : t[j] = s[n]
        <5>1. CASE j < i
          BY <5>1, <3>1, <1>1, <1>2, <1>5
        <5>2. CASE j > i
          <6>1. j - 1 \in 1 .. Len(s) /\ t[j] = s[j - 1]
            BY <5>2, <3>1, <1>1, <1>2, <1>5
          <6> QED BY <6>1
        <5> QED BY <5>1, <5>2, <3>1, <1>1, <1>2, <1>5
      <4> QED BY <4>1, <3>1, <1>1, <1>4, <1>5, <1>6
    <3>2. CASE q # l
      <4>1. m.list[q] = k.list[q] /\ k.list[q] \in Seq(Pid)
        BY <3>2, <1>1, <1>5
      <4>2. m.list[q][j] \in Pid /\ k.container[m.list[q][j]] = q
        BY <4>1 DEF KernelOK, WellLinked
      <4> QED BY <4>2, <3>2, <1>0, <1>1, <1>4
    <3> QED BY <3>1, <3>2
  <2>2. \A q \in Lists : \A j, n \in 1 .. Len(m.list[q]) :
          m.list[q][j] = m.list[q][n] => j = n
    <3> SUFFICES ASSUME NEW q \in Lists, NEW j \in 1 .. Len(m.list[q]),
                        NEW n \in 1 .. Len(m.list[q]), m.list[q][j] = m.list[q][n]
                 PROVE  j = n
      OBVIOUS
    <3>0. \A x, y \in 1 .. Len(k.list[q]) : k.list[q][x] = k.list[q][y] => x = y
      BY DEF KernelOK, WellLinked
    <3>1. CASE q = l
      <4> DEFINE from(x) == IF x < i THEN x ELSE x - 1
      <4>1. \A x \in 1 .. Len(t) : x # i => from(x) \in 1 .. Len(s) /\ t[x] = s[from(x)]
        BY <1>1, <1>2
      <4>2. t[i] = p /\ i \in 1 .. Len(t)
        BY <1>1, <1>2
      <4>3. CASE j = i \/ n = i
        <5>1. \A x \in 1 .. Len(t) : x # i => t[x] # p
          BY <4>1, <1>6
        <5> QED BY <5>1, <4>2, <4>3, <3>1, <1>5
      <4>4. CASE j # i /\ n # i
        <5>0. /\ from(j) \in 1 .. Len(s) /\ t[j] = s[from(j)]
              /\ from(n) \in 1 .. Len(s) /\ t[n] = s[from(n)]
          BY <4>1, <4>4, <3>1, <1>5
        <5> HIDE DEF from
        <5>1. from(j) = from(n)
          BY <5>0, <3>0, <3>1, <1>5
        <5> USE DEF from
        <5> QED BY <5>1, <4>4, <3>1, <1>1, <1>2, <1>5
      <4> QED BY <4>3, <4>4
    <3>2. CASE q # l
      BY <3>0, <3>2, <1>5
    <3> QED BY <3>1, <3>2
  <2>3. \A q \in Pid : m.container[q] # NoList =>
          \E j \in 1 .. Len(m.list[m.container[q]]) : m.list[m.container[q]][j] = q
    <3> SUFFICES ASSUME NEW q \in Pid, m.container[q] # NoList
                 PROVE  \E j \in 1 .. Len(m.list[m.container[q]]) :
                          m.list[m.container[q]][j] = q
      OBVIOUS
    <3>1. CASE q = p
      <4>1. m.container[q] = l /\ i \in 1 .. Len(t) /\ t[i] = p
        BY <3>1, <1>1, <1>2, <1>4
      <4> QED BY <4>1, <3>1, <1>5
    <3>2. CASE q # p
      <4>0. m.container[q] = k.container[q] /\ k.container[q] \in Lists
        BY <3>2, <1>1, <1>4
      <4>1. PICK n \in 1 .. Len(k.list[k.container[q]]) : k.list[k.container[q]][n] = q
        BY <4>0 DEF KernelOK, WellLinked
      <4>2. CASE k.container[q] = l
        <5>1. CASE n < i
          <6>1. n \in 1 .. Len(t) /\ t[n] = q
            BY <5>1, <4>1, <4>2, <1>1, <1>2
          <6> QED BY <6>1, <4>0, <4>2, <1>5
        <5>2. CASE n >= i
          <6>1. n + 1 \in 1 .. Len(t) /\ t[n + 1] = q
            BY <5>2, <4>1, <4>2, <1>1, <1>2
          <6> QED BY <6>1, <4>0, <4>2, <1>5
        <5> QED BY <5>1, <5>2, <4>1, <4>2
      <4>3. CASE k.container[q] # l
        BY <4>0, <4>1, <4>3, <1>5
      <4> QED BY <4>2, <4>3
    <3> QED BY <3>1, <3>2
  <2> QED BY <2>1, <2>2, <2>3 DEF WellLinked
<1> QED BY <1>4, <1>7 DEF KernelOK

\* list_push, with the assertion it makes satisfied.
LEMMA ListPush ==
  ASSUME NEW k, KernelOK(k), NEW p \in Pid, k.container[p] = NoList, NEW l \in Lists
  PROVE  /\ KernelOK(list_push(k, l, p))
         /\ SameTasks(k, list_push(k, l, p))
         /\ list_push(k, l, p).container = [k.container EXCEPT ![p] = l]
<1>1. k.list[l] \in Seq(Pid)
  BY DEF KernelOK, KernelState
<1>2. list_push(k, l, p) = insert_at(k, l, p, 1)
  BY DEF list_push
<1>3. 1 \in 1 .. Len(k.list[l]) + 1
  BY <1>1
<1> QED BY <1>2, <1>3, InsertNode

\* list_insert puts an unlinked node somewhere on the list.
LEMMA ListInsert ==
  ASSUME NEW k, KernelOK(k), NEW p \in Pid, k.container[p] = NoList, NEW l \in Lists
  PROVE  /\ KernelOK(list_insert(k, l, p))
         /\ SameTasks(k, list_insert(k, l, p))
         /\ list_insert(k, l, p).container = [k.container EXCEPT ![p] = l]
<1> DEFINE s == k.list[l]
           After == {i \in 1 .. Len(s) : k.value[s[i]] > k.value[p]}
           Least == CHOOSE i \in After : \A j \in After : i <= j
<1>1. s \in Seq(Pid)
  BY DEF KernelOK, KernelState
<1>2. CASE After = {}
  <2>1. list_insert(k, l, p) = insert_at(k, l, p, Len(s) + 1)
    BY <1>2 DEF list_insert, list_pushback
  <2>2. Len(s) + 1 \in 1 .. Len(k.list[l]) + 1
    BY <1>1
  <2> QED BY <2>1, <2>2, InsertNode
<1>3. CASE After # {}
  <2>1. list_insert(k, l, p) = insert_at(k, l, p, Least)
    BY <1>3, SMTT(30) DEF list_insert
  <2>2. Least \in After
    <3>1. After \subseteq Nat
      BY <1>1
    <3>2. \E i \in After : \A j \in After : i <= j
      BY <1>3, <3>1, LeastElement
    <3> QED BY <3>2
  <2> HIDE DEF Least
  <2>3. Least \in 1 .. Len(k.list[l]) + 1
    BY <2>2, <1>1
  <2> QED BY <2>1, <2>3, InsertNode
<1> QED BY <1>2, <1>3

-----------------------------------------------------------------------------
(* The scheduler *)

\* The fields no function of the scheduler writes.
SameFields(k, m) ==
  /\ m.ppid = k.ppid /\ m.waitpid = k.waitpid /\ m.priority = k.priority
  /\ m.ticks = k.ticks /\ m.value = k.value /\ m.jiffies = k.jiffies

\* Assigning the state of a TCB keeps the links.
LEMMA SetState ==
  ASSUME NEW k, KernelOK(k), NEW p \in Pid, NEW st \in TaskState
  PROVE  LET m == [k EXCEPT !.state[p] = st]
         IN /\ KernelOK(m) /\ SameFields(k, m)
            /\ m.state = [k.state EXCEPT ![p] = st]
            /\ m.container = k.container /\ m.list = k.list
            /\ m.running = k.running /\ m.stop = k.stop
<1> DEFINE m == [k EXCEPT !.state[p] = st]
<1>0. k \in KernelState
  BY DEF KernelOK
<1>1. /\ m.state = [k.state EXCEPT ![p] = st]
      /\ m.container = k.container /\ m.list = k.list
      /\ m.running = k.running /\ m.stop = k.stop
  BY <1>0 DEF KernelState
<1>2. SameFields(k, m)
  BY <1>0 DEF KernelState, SameFields
<1>3. m \in KernelState
  BY <1>0 DEF KernelState
<1>4. WellLinked(m)
  BY <1>1 DEF KernelOK, WellLinked
<1> QED BY <1>1, <1>2, <1>3, <1>4 DEF KernelOK

\* So does assigning running_task.
LEMMA SetRunning ==
  ASSUME NEW k, KernelOK(k), NEW p \in Pid
  PROVE  LET m == [k EXCEPT !.running = p]
         IN /\ KernelOK(m) /\ SameFields(k, m)
            /\ m.state = k.state /\ m.container = k.container
            /\ m.running = p /\ m.stop = k.stop
<1> DEFINE m == [k EXCEPT !.running = p]
<1>0. k \in KernelState
  BY DEF KernelOK
<1>1. /\ m.state = k.state /\ m.container = k.container /\ m.list = k.list
      /\ m.running = p /\ m.stop = k.stop
  BY <1>0 DEF KernelState
<1>2. SameFields(k, m)
  BY <1>0 DEF KernelState, SameFields
<1>3. m \in KernelState
  BY <1>0 DEF KernelState
<1>4. WellLinked(m)
  BY <1>1 DEF KernelOK, WellLinked
<1> QED BY <1>1, <1>2, <1>3, <1>4 DEF KernelOK

\* A list some node is linked on has a last node, linked on it.
LEMMA LastLinked ==
  ASSUME NEW k, KernelOK(k), NEW l \in Lists, \E q \in Pid : k.container[q] = l
  PROVE  /\ k.list[l] # <<>>
         /\ Last(k.list[l]) \in Pid
         /\ k.container[Last(k.list[l])] = l
<1>0. k.list[l] \in Seq(Pid) /\ l # NoList
  BY SchedAssumption DEF KernelOK, KernelState, NoList
<1>1. \E i \in 1 .. Len(k.list[l]) : TRUE
  BY <1>0 DEF KernelOK, WellLinked
<1>2. k.list[l] # <<>> /\ Len(k.list[l]) \in 1 .. Len(k.list[l])
  BY <1>0, <1>1
<1>3. Last(k.list[l]) = k.list[l][Len(k.list[l])]
  BY DEF Last
<1> QED BY <1>0, <1>2, <1>3 DEF KernelOK, WellLinked

\* schedule() switches to a task of the ready list; the task it leaves goes
\* to the ready list unless it is linked already.
LEMMA Schedule ==
  ASSUME NEW k, KernelOK(k), k.running \in Pid, k.container[k.running] # "ready",
         \E q \in Pid : k.container[q] = "ready"
  PROVE  \E next \in Pid :
           LET m == schedule(k)
               cur == k.running
           IN /\ k.container[next] = "ready"
              /\ KernelOK(m) /\ SameFields(k, m) /\ m.stop = k.stop
              /\ m.running = next
              /\ m.state = IF k.container[cur] = NoList
                           THEN [[k.state EXCEPT ![next] = "RUNNING"] EXCEPT ![cur] = "READY"]
                           ELSE [k.state EXCEPT ![next] = "RUNNING"]
              /\ m.container = IF k.container[cur] = NoList
                               THEN [[k.container EXCEPT ![next] = NoList] EXCEPT ![cur] = "ready"]
                               ELSE [k.container EXCEPT ![next] = NoList]
<1> DEFINE next == Last(k.list["ready"])
           cur == k.running
           k1 == remove_node(k, next)
           k2 == [k1 EXCEPT !.state[next] = "RUNNING"]
           k2r == [k2 EXCEPT !.state[cur] = "READY"]
           k3 == IF k2.container[cur] = NoList THEN list_push(k2r, "ready", cur) ELSE k2
<1>0. /\ "ready" \in Lists /\ NoList # "ready" /\ NoTask \notin Pid
      /\ k.container \in [Pid -> Lists \cup {NoList}]
      /\ {"RUNNING", "READY"} \subseteq TaskState
  BY SchedAssumption DEF NoList, NoTask, Pid, KernelOK, KernelState, TaskState
<1>1. k.list["ready"] # <<>> /\ next \in Pid /\ k.container[next] = "ready"
  BY <1>0, LastLinked
<1>2. schedule(k) = [k3 EXCEPT !.running = next]
  BY <1>0, <1>1 DEF schedule
<1> HIDE DEF next
<1>3. /\ KernelOK(k1) /\ SameTasks(k, k1)
      /\ k1.container = [k.container EXCEPT ![next] = NoList]
  BY <1>0, <1>1, RemoveNode
<1> HIDE DEF k1
<1>4. /\ KernelOK(k2) /\ SameFields(k1, k2)
      /\ k2.state = [k1.state EXCEPT ![next] = "RUNNING"]
      /\ k2.container = k1.container /\ k2.running = k1.running /\ k2.stop = k1.stop
  BY <1>0, <1>1, <1>3, SetState
<1> HIDE DEF k2
<1>5. k2.container[cur] = k.container[cur]
  BY <1>0, <1>1, <1>3, <1>4
<1>6. /\ KernelOK(k3) /\ SameFields(k2, k3) /\ k3.stop = k2.stop
      /\ k3.state = IF k.container[cur] = NoList
                    THEN [k2.state EXCEPT ![cur] = "READY"] ELSE k2.state
      /\ k3.container = IF k.container[cur] = NoList
                        THEN [k2.container EXCEPT ![cur] = "ready"] ELSE k2.container
  <2>1. CASE k.container[cur] = NoList
    <3>1. /\ KernelOK(k2r) /\ SameFields(k2, k2r) /\ k2r.stop = k2.stop
          /\ k2r.state = [k2.state EXCEPT ![cur] = "READY"]
          /\ k2r.container = k2.container
      BY <1>0, <1>4, SetState
    <3> HIDE DEF k2r
    <3>2. k3 = list_push(k2r, "ready", cur)
      BY <2>1, <1>5
    <3>3. /\ KernelOK(k3) /\ SameTasks(k2r, k3)
          /\ k3.container = [k2r.container EXCEPT ![cur] = "ready"]
      BY <3>1, <3>2, <2>1, <1>0, <1>5, ListPush
    <3> HIDE DEF k3
    <3> QED BY <3>1, <3>3, <2>1 DEF SameFields, SameTasks
  <2>2. CASE k.container[cur] # NoList
    <3>1. k3 = k2
      BY <2>2, <1>5
    <3> HIDE DEF k3
    <3> QED BY <3>1, <2>2, <1>4 DEF SameFields
  <2> QED BY <2>1, <2>2
<1> HIDE DEF k3
<1>7. LET m == schedule(k)
      IN /\ KernelOK(m) /\ SameFields(k3, m)
         /\ m.state = k3.state /\ m.container = k3.container
         /\ m.running = next /\ m.stop = k3.stop
  BY <1>1, <1>2, <1>6, SetRunning
<1>8. /\ SameFields(k, schedule(k)) /\ schedule(k).stop = k.stop
  BY <1>3, <1>4, <1>6, <1>7 DEF SameFields, SameTasks
<1>9. k2.state = [k.state EXCEPT ![next] = "RUNNING"] /\ k2.container = [k.container EXCEPT ![next] = NoList]
  BY <1>3, <1>4 DEF SameTasks
<1> HIDE DEF cur
<1>10. /\ schedule(k).state = IF k.container[cur] = NoList
              THEN [[k.state EXCEPT ![next] = "RUNNING"] EXCEPT ![cur] = "READY"]
              ELSE [k.state EXCEPT ![next] = "RUNNING"]
       /\ schedule(k).container = IF k.container[cur] = NoList
              THEN [[k.container EXCEPT ![next] = NoList] EXCEPT ![cur] = "ready"]
              ELSE [k.container EXCEPT ![next] = NoList]
  BY <1>6, <1>7, <1>9
<1> QED BY <1>1, <1>7, <1>8, <1>10 DEF cur

\* With an empty ready list schedule() returns to a task that still runs.
LEMMA ScheduleAlone ==
  ASSUME NEW k, KernelOK(k), k.running \in Pid, k.state[k.running] = "RUNNING",
         ~ \E q \in Pid : k.container[q] = "ready"
  PROVE  schedule(k) = k
<1>1. k.list["ready"] \in Seq(Pid)
  BY SchedAssumption DEF KernelOK, KernelState
<1>2. k.list["ready"] = <<>>
  <2>1. ASSUME k.list["ready"] # <<>> PROVE FALSE
    <3>1. 1 \in 1 .. Len(k.list["ready"]) /\ k.list["ready"][1] \in Pid
      BY <2>1, <1>1
    <3> QED BY <3>1, SchedAssumption DEF KernelOK, WellLinked
  <2> QED BY <2>1
<1>3. k.running # NoTask
  BY DEF NoTask, Pid
<1> QED BY <1>2, <1>3 DEF schedule

\* The first switch, with no task running, starts the last ready task.
LEMMA ScheduleFirst ==
  ASSUME NEW k, KernelOK(k), k.running = NoTask, k.list["ready"] # <<>>
  PROVE  LET m == schedule(k)
             next == Last(k.list["ready"])
         IN /\ next \in Pid /\ k.container[next] = "ready"
            /\ KernelOK(m) /\ SameFields(k, m) /\ m.stop = k.stop
            /\ m.running = next /\ m.state = k.state
            /\ m.container = [k.container EXCEPT ![next] = NoList]
<1> DEFINE next == Last(k.list["ready"])
           k1 == remove_node(k, next)
           m == schedule(k)
<1>0. /\ "ready" \in Lists /\ NoList # "ready" /\ k.list["ready"] \in Seq(Pid)
      /\ k.container \in [Pid -> Lists \cup {NoList}]
  BY SchedAssumption DEF NoList, KernelOK, KernelState
<1>1. next \in Pid /\ k.container[next] = "ready"
  <2>1. Len(k.list["ready"]) \in 1 .. Len(k.list["ready"])
    BY <1>0
  <2>2. next = k.list["ready"][Len(k.list["ready"])]
    BY DEF Last
  <2> QED BY <1>0, <2>1, <2>2 DEF KernelOK, WellLinked
<1>2. m = [k1 EXCEPT !.running = next]
  BY DEF schedule
<1> HIDE DEF next
<1>3. /\ KernelOK(k1) /\ SameTasks(k, k1)
      /\ k1.container = [k.container EXCEPT ![next] = NoList]
  BY <1>0, <1>1, RemoveNode
<1> HIDE DEF k1, m
<1>4. /\ KernelOK(m) /\ SameFields(k1, m)
      /\ m.state = k1.state /\ m.container = k1.container
      /\ m.running = next /\ m.stop = k1.stop
  BY <1>1, <1>2, <1>3, SetRunning
<1>5. SameFields(k, m) /\ m.stop = k.stop /\ m.state = k.state
  BY <1>3, <1>4 DEF SameFields, SameTasks
<1> QED BY <1>1, <1>3, <1>4, <1>5 DEF m, next

\* unblock() moves a linked task to the ready list.
LEMMA Unblock ==
  ASSUME NEW k, KernelOK(k), NEW p \in Pid, k.container[p] # NoList
  PROVE  LET m == unblock(k, p)
         IN /\ KernelOK(m) /\ SameFields(k, m)
            /\ m.running = k.running /\ m.stop = k.stop
            /\ m.state = [k.state EXCEPT ![p] = "READY"]
            /\ m.container = [k.container EXCEPT ![p] = "ready"]
<1> DEFINE k1 == remove_node(k, p)
           k2 == list_push(k1, "ready", p)
           m == [k2 EXCEPT !.state[p] = "READY"]
<1>0. "ready" \in Lists /\ "READY" \in TaskState /\ k.container \in [Pid -> Lists \cup {NoList}]
  BY SchedAssumption DEF TaskState, KernelOK, KernelState
<1>1. KernelOK(k1) /\ SameTasks(k, k1) /\ k1.container = [k.container EXCEPT ![p] = NoList]
  BY RemoveNode
<1> HIDE DEF k1
<1>2. KernelOK(k2) /\ SameTasks(k1, k2) /\ k2.container = [k1.container EXCEPT ![p] = "ready"]
  BY <1>0, <1>1, ListPush
<1>3. unblock(k, p) = m
  BY DEF unblock, k1
<1> HIDE DEF k2
<1>4. /\ KernelOK(m) /\ SameFields(k2, m)
      /\ m.state = [k2.state EXCEPT ![p] = "READY"]
      /\ m.container = k2.container
      /\ m.running = k2.running /\ m.stop = k2.stop
  BY <1>0, <1>2, SetState
<1> HIDE DEF m
<1>5. m.container = [k.container EXCEPT ![p] = "ready"]
  BY <1>0, <1>1, <1>2, <1>4
<1>6. m.state = [k.state EXCEPT ![p] = "READY"]
  BY <1>1, <1>2, <1>4 DEF SameTasks
<1>7. SameFields(k, m) /\ m.running = k.running /\ m.stop = k.stop
  BY <1>1, <1>2, <1>4 DEF SameTasks, SameFields
<1> QED BY <1>3, <1>4, <1>5, <1>6, <1>7

\* A node is linked on block_list, or on any list, by the task that blocks.
LEMMA PushAs ==
  ASSUME NEW k, KernelOK(k), NEW p \in Pid, k.container[p] = NoList,
         NEW l \in Lists, NEW st \in TaskState
  PROVE  LET m == list_push([k EXCEPT !.state[p] = st], l, p)
         IN /\ KernelOK(m) /\ SameFields(k, m)
            /\ m.running = k.running /\ m.stop = k.stop
            /\ m.state = [k.state EXCEPT ![p] = st]
            /\ m.container = [k.container EXCEPT ![p] = l]
<1> DEFINE k1 == [k EXCEPT !.state[p] = st]
           m == list_push(k1, l, p)
<1>1. /\ KernelOK(k1) /\ SameFields(k, k1)
      /\ k1.state = [k.state EXCEPT ![p] = st] /\ k1.container = k.container
      /\ k1.running = k.running /\ k1.stop = k.stop
  BY SetState
<1> HIDE DEF k1
<1>2. /\ KernelOK(m) /\ SameTasks(k1, m)
      /\ m.container = [k1.container EXCEPT ![p] = l]
  BY <1>1, ListPush
<1> HIDE DEF m
<1>3. /\ SameFields(k, m) /\ m.running = k.running /\ m.stop = k.stop
      /\ m.state = [k.state EXCEPT ![p] = st]
      /\ m.container = [k.container EXCEPT ![p] = l]
  BY <1>1, <1>2 DEF SameTasks, SameFields
<1> QED BY <1>2, <1>3 DEF m, k1

\* block() of an unlinked task: push, then schedule.
LEMMA BlockIsPush ==
  ASSUME NEW k, KernelOK(k), NEW p \in Pid, k.container[p] = NoList,
         NEW l, NEW st \in TaskState
  PROVE  block(k, l, p, st) = schedule(list_push([k EXCEPT !.state[p] = st], l, p))
<1>1. [k EXCEPT !.state[p] = st].container = k.container
  BY DEF KernelOK, KernelState
<1> QED BY <1>1 DEF block

\* task_sleep() of an unlinked running task: it is linked on sleep_list, then
\* schedule() runs.
LEMMA SleepIsInsert ==
  ASSUME NEW k, KernelOK(k), k.running \in Pid, k.container[k.running] = NoList,
         NEW t \in Nat
  PROVE  \E m : /\ task_sleep(k, t) = schedule(m)
               /\ KernelOK(m) /\ m.running = k.running /\ m.stop = k.stop
               /\ m.ppid = k.ppid /\ m.waitpid = k.waitpid
               /\ m.state = [k.state EXCEPT ![k.running] = "SLEEPING"]
               /\ m.container = [k.container EXCEPT ![k.running] = "sleep"]
<1> DEFINE p == k.running
           k1 == [k EXCEPT !.value[p] = k.jiffies + t, !.state[p] = "SLEEPING"]
           m == list_insert(k1, "sleep", p)
<1>0. /\ k \in KernelState /\ "sleep" \in Lists /\ "SLEEPING" \in TaskState
      /\ k.jiffies + t \in Nat /\ p \in Pid
  BY SchedAssumption, SMTT(30) DEF KernelOK, KernelState, TaskState
<1>1. task_sleep(k, t) = schedule(m)
  BY DEF task_sleep
<1> HIDE DEF p
<1>2. /\ k1.state = [k.state EXCEPT ![p] = "SLEEPING"] /\ k1.ppid = k.ppid
      /\ k1.waitpid = k.waitpid /\ k1.container = k.container /\ k1.list = k.list
      /\ k1.running = k.running /\ k1.stop = k.stop
  BY <1>0 DEF KernelState
<1>3. k1 \in KernelState
  BY <1>0 DEF KernelState
<1> HIDE DEF k1
<1>4. KernelOK(k1)
  BY <1>2, <1>3 DEF KernelOK, WellLinked
<1>5. /\ KernelOK(m) /\ SameTasks(k1, m)
      /\ m.container = [k1.container EXCEPT ![p] = "sleep"]
  <2>1. k1.container[p] = NoList
    BY <1>2 DEF p
  <2> QED BY <1>0, <1>4, <2>1, ListInsert
<1> HIDE DEF m
<1>6. /\ m.running = k.running /\ m.stop = k.stop
      /\ m.ppid = k.ppid /\ m.waitpid = k.waitpid
      /\ m.state = [k.state EXCEPT ![p] = "SLEEPING"]
      /\ m.container = [k.container EXCEPT ![p] = "sleep"]
  BY <1>2, <1>5 DEF SameTasks
<1> QED BY <1>1, <1>5, <1>6 DEF p

\* Assigning waitpid keeps the links.
LEMMA SetWaitpid ==
  ASSUME NEW k, KernelOK(k), NEW p \in Pid, NEW w \in Pid \cup {AnyChild}
  PROVE  LET m == [k EXCEPT !.waitpid[p] = w]
         IN /\ KernelOK(m)
            /\ m.state = k.state /\ m.container = k.container
            /\ m.running = k.running /\ m.stop = k.stop /\ m.ppid = k.ppid
            /\ m.waitpid = [k.waitpid EXCEPT ![p] = w]
<1> DEFINE m == [k EXCEPT !.waitpid[p] = w]
<1>0. k \in KernelState
  BY DEF KernelOK
<1>1. m \in KernelState
  BY <1>0 DEF KernelState
<1>2. /\ m.state = k.state /\ m.container = k.container /\ m.list = k.list
      /\ m.running = k.running /\ m.stop = k.stop /\ m.ppid = k.ppid
      /\ m.waitpid = [k.waitpid EXCEPT ![p] = w]
  BY <1>0 DEF KernelState
<1> HIDE DEF m
<1>3. WellLinked(m)
  BY <1>2 DEF KernelOK, WellLinked
<1> QED BY <1>1, <1>2, <1>3 DEF KernelOK, m

\* The fields of the clock are no links.
LEMMA SetClock ==
  ASSUME NEW k, KernelOK(k), NEW j \in Nat
  PROVE  LET m == [k EXCEPT !.jiffies = j]
         IN /\ KernelOK(m)
            /\ m.state = k.state /\ m.container = k.container /\ m.list = k.list
            /\ m.running = k.running /\ m.stop = k.stop /\ m.ppid = k.ppid
            /\ m.waitpid = k.waitpid /\ m.priority = k.priority
            /\ m.ticks = k.ticks /\ m.value = k.value /\ m.jiffies = j
<1> DEFINE m == [k EXCEPT !.jiffies = j]
<1>0. k \in KernelState
  BY DEF KernelOK
<1>1. m \in KernelState
  BY <1>0 DEF KernelState
<1>2. /\ m.state = k.state /\ m.container = k.container /\ m.list = k.list
      /\ m.running = k.running /\ m.stop = k.stop /\ m.ppid = k.ppid
      /\ m.waitpid = k.waitpid /\ m.priority = k.priority
      /\ m.ticks = k.ticks /\ m.value = k.value /\ m.jiffies = j
  BY <1>0 DEF KernelState
<1> HIDE DEF m
<1>3. WellLinked(m)
  BY <1>2 DEF KernelOK, WellLinked
<1> QED BY <1>1, <1>2, <1>3 DEF KernelOK, m

\* Changing a time slice changes nothing the lists depend on.
LEMMA SetTicks ==
  ASSUME NEW k, KernelOK(k), NEW p \in Pid, NEW n \in Nat \ {0}
  PROVE  LET m == [k EXCEPT !.ticks[p] = n]
         IN /\ KernelOK(m)
            /\ m.state = k.state /\ m.container = k.container
            /\ m.running = k.running /\ m.stop = k.stop /\ m.ppid = k.ppid
            /\ m.waitpid = k.waitpid /\ m.jiffies = k.jiffies
<1> DEFINE m == [k EXCEPT !.ticks[p] = n]
<1>0. k \in KernelState
  BY DEF KernelOK
<1>1. m \in KernelState
  BY <1>0 DEF KernelState
<1>2. /\ m.state = k.state /\ m.container = k.container /\ m.list = k.list
      /\ m.running = k.running /\ m.stop = k.stop /\ m.ppid = k.ppid
      /\ m.waitpid = k.waitpid /\ m.jiffies = k.jiffies
  BY <1>0 DEF KernelState
<1> HIDE DEF m
<1>3. WellLinked(m)
  BY <1>2 DEF KernelOK, WellLinked
<1> QED BY <1>1, <1>2, <1>3 DEF KernelOK, m

\* weakup() moves one sleeper to the ready list, or does nothing.
LEMMA Weakup ==
  ASSUME NEW k, KernelOK(k)
  PROVE  LET m == weakup(k)
         IN \/ m = k
            \/ \E p \in Pid :
                 /\ k.container[p] = "sleep" /\ k.jiffies >= k.value[p]
                 /\ KernelOK(m) /\ SameFields(k, m)
                 /\ m.running = k.running /\ m.stop = k.stop
                 /\ m.state = [k.state EXCEPT ![p] = "READY"]
                 /\ m.container = [k.container EXCEPT ![p] = "ready"]
<1> DEFINE s == k.list["sleep"]
           p == Head(s)
           k1 == remove_node(k, p)
           m == weakup(k)
<1>0. /\ "sleep" \in Lists /\ "ready" \in Lists /\ NoList \notin Lists
      /\ "READY" \in TaskState /\ s \in Seq(Pid)
      /\ k.container \in [Pid -> Lists \cup {NoList}]
  BY SchedAssumption, SMTT(30) DEF TaskState, KernelOK, KernelState, NoList
<1>1. CASE ~(s # <<>> /\ k.jiffies >= k.value[p])
  BY <1>1 DEF weakup
<1>2. CASE s # <<>> /\ k.jiffies >= k.value[p]
  <2>1. m = list_push([k1 EXCEPT !.state[p] = "READY"], "ready", p)
    BY <1>2 DEF weakup
  <2>2. p = s[1] /\ p \in Pid /\ 1 \in 1 .. Len(s)
    BY <1>0, <1>2
  <2>3. k.container[p] = "sleep" /\ k.jiffies >= k.value[p]
    BY <2>2, <1>0, <1>2 DEF KernelOK, WellLinked
  <2> HIDE DEF p
  <2>4. KernelOK(k1) /\ SameTasks(k, k1) /\ k1.container = [k.container EXCEPT ![p] = NoList]
    BY <2>2, <2>3, <1>0, RemoveNode
  <2> HIDE DEF k1
  <2>5. k1.container[p] = NoList
    BY <2>2, <2>4, <1>0
  <2>6. /\ KernelOK(m) /\ SameFields(k1, m)
        /\ m.running = k1.running /\ m.stop = k1.stop
        /\ m.state = [k1.state EXCEPT ![p] = "READY"]
        /\ m.container = [k1.container EXCEPT ![p] = "ready"]
    BY <2>1, <2>2, <2>4, <2>5, <1>0, PushAs
  <2> HIDE DEF m
  <2>7. /\ SameFields(k, m) /\ m.running = k.running /\ m.stop = k.stop
        /\ m.state = [k.state EXCEPT ![p] = "READY"]
    BY <2>4, <2>6 DEF SameTasks, SameFields
  <2>8. m.container = [k.container EXCEPT ![p] = "ready"]
    BY <2>4, <2>6, <1>0
  <2> QED BY <2>2, <2>3, <2>6, <2>7, <2>8 DEF m
<1> QED BY <1>1, <1>2

-----------------------------------------------------------------------------
(* The task table *)

\* get_task() returns a free slot when there is one.
LEMMA GetTask ==
  ASSUME NEW k, FreeSlots(k) # {}
  PROVE  get_task(k) \in Pid /\ k.state[get_task(k)] = "FREE"
<1>1. FreeSlots(k) \in SUBSET Nat
  BY SchedAssumption DEF FreeSlots, Pid
<1>2. \E p \in FreeSlots(k) : \A q \in FreeSlots(k) : p <= q
  BY <1>1, LeastElement
<1> QED BY <1>2 DEF get_task, FreeSlots

\* Filling or clearing the fields of a slot keeps the links.
LEMMA SetSlot ==
  ASSUME NEW k, KernelOK(k), NEW c \in Pid, NEW st \in TaskState, NEW pp \in Pid,
         NEW w \in Pid \cup {AnyChild}, NEW pr \in Nat \ {0}, NEW v \in Nat
  PROVE  LET m == set_slot(k, c, st, pp, w, pr, v)
         IN /\ KernelOK(m)
            /\ m.state = [k.state EXCEPT ![c] = st]
            /\ m.ppid = [k.ppid EXCEPT ![c] = pp]
            /\ m.waitpid = [k.waitpid EXCEPT ![c] = w]
            /\ m.container = k.container
            /\ m.running = k.running /\ m.stop = k.stop
<1> DEFINE m == [k EXCEPT !.state[c] = st, !.ppid[c] = pp, !.waitpid[c] = w,
                          !.priority[c] = pr, !.ticks[c] = pr, !.value[c] = v]
<1>0. k \in KernelState
  BY DEF KernelOK
<1>1. /\ m.state = [k.state EXCEPT ![c] = st]
      /\ m.ppid = [k.ppid EXCEPT ![c] = pp]
      /\ m.waitpid = [k.waitpid EXCEPT ![c] = w]
      /\ m.container = k.container /\ m.list = k.list
      /\ m.running = k.running /\ m.stop = k.stop
  BY <1>0 DEF KernelState
<1>2. m \in KernelState
  BY <1>0 DEF KernelState
<1> HIDE DEF m
<1>3. WellLinked(m)
  BY <1>1 DEF KernelOK, WellLinked
<1> QED BY <1>1, <1>2, <1>3 DEF KernelOK, set_slot, m

\* sys_fork() fills the slot with a ready child of the running task.
LEMMA ForkFacts ==
  ASSUME NEW k, KernelOK(k), k.running \in Pid, FreeSlots(k) # {},
         k.container[get_task(k)] = NoList
  PROVE  LET m == fork(k)
             c == get_task(k)
         IN /\ KernelOK(m)
            /\ m.running = k.running /\ m.stop = k.stop
            /\ m.state = [k.state EXCEPT ![c] = "READY"]
            /\ m.container = [k.container EXCEPT ![c] = "ready"]
            /\ m.ppid = [k.ppid EXCEPT ![c] = k.running]
            /\ m.waitpid = [k.waitpid EXCEPT ![c] = k.waitpid[k.running]]
<1> DEFINE p == k.running
           c == get_task(k)
           k1 == set_slot(k, c, "READY", p, k.waitpid[p], k.priority[p], 0)
           m == fork(k)
<1>0. k \in KernelState /\ "ready" \in Lists /\ "READY" \in TaskState
  BY SchedAssumption DEF KernelOK, TaskState
<1>1. c \in Pid /\ m = list_push(k1, "ready", c)
  BY GetTask DEF fork
<1> HIDE DEF c
<1>2. /\ k1.state = [k.state EXCEPT ![c] = "READY"]
      /\ k1.ppid = [k.ppid EXCEPT ![c] = p]
      /\ k1.waitpid = [k.waitpid EXCEPT ![c] = k.waitpid[p]]
      /\ k1.container = k.container
      /\ k1.running = k.running /\ k1.stop = k.stop /\ KernelOK(k1)
  <2>1. /\ k.waitpid[p] \in Pid \cup {AnyChild} /\ k.priority[p] \in Nat \ {0}
        /\ 0 \in Nat /\ p \in Pid /\ c \in Pid /\ "READY" \in TaskState
    BY <1>0, <1>1 DEF KernelState
  <2> HIDE DEF p
  <2> DEFINE w == k.waitpid[p]
             pr == k.priority[p]
  <2>2. k1 = set_slot(k, c, "READY", p, w, pr, 0)
    OBVIOUS
  <2>3. w \in Pid \cup {AnyChild} /\ pr \in Nat \ {0}
    BY <2>1
  <2> HIDE DEF w, pr, k1, m
  <2>4. KernelOK(k1)
    BY <2>1, <2>2, <2>3, SetSlot
  <2>5. /\ k1.state = [k.state EXCEPT ![c] = "READY"]
        /\ k1.ppid = [k.ppid EXCEPT ![c] = p]
        /\ k1.waitpid = [k.waitpid EXCEPT ![c] = w]
        /\ k1.container = k.container
        /\ k1.running = k.running /\ k1.stop = k.stop
    BY <2>1, <2>2, <1>0 DEF set_slot, KernelState
  <2> QED BY <2>4, <2>5 DEF w
<1> HIDE DEF k1
<1>5. /\ KernelOK(m) /\ SameTasks(k1, m)
      /\ m.container = [k1.container EXCEPT ![c] = "ready"]
  BY <1>0, <1>1, <1>2, ListPush DEF c
<1> HIDE DEF m
<1>6. /\ m.running = k.running /\ m.stop = k.stop
      /\ m.state = [k.state EXCEPT ![c] = "READY"]
      /\ m.container = [k.container EXCEPT ![c] = "ready"]
      /\ m.ppid = [k.ppid EXCEPT ![c] = k.running]
      /\ m.waitpid = [k.waitpid EXCEPT ![c] = k.waitpid[k.running]]
  BY <1>2, <1>5 DEF SameTasks
<1> QED BY <1>5, <1>6 DEF m, c

\* The children of p go to the parent of p, and nothing else changes.
LEMMA AdoptFacts ==
  ASSUME NEW k, KernelOK(k), NEW p \in Pid
  PROVE  LET m == adopt(k, p)
         IN /\ KernelOK(m)
            /\ m.state = k.state /\ m.container = k.container
            /\ m.running = k.running /\ m.stop = k.stop /\ m.waitpid = k.waitpid
            /\ \A c \in Pid : m.ppid[c] = IF k.state[c] # "FREE" /\ k.ppid[c] = p
                                         THEN k.ppid[p] ELSE k.ppid[c]
<1> DEFINE f == [c \in Pid |-> IF k.state[c] # "FREE" /\ k.ppid[c] = p
                               THEN k.ppid[p] ELSE k.ppid[c]]
           m == [k EXCEPT !.ppid = f]
<1>0. k \in KernelState
  BY DEF KernelOK
<1>1. adopt(k, p) = m
  BY DEF adopt
<1>2. f \in [Pid -> Pid]
  BY <1>0 DEF KernelState
<1> HIDE DEF f
<1>3. /\ m.state = k.state /\ m.container = k.container /\ m.list = k.list
      /\ m.running = k.running /\ m.stop = k.stop /\ m.waitpid = k.waitpid
      /\ m.ppid = f
  BY <1>0 DEF KernelState
<1>4. m \in KernelState
  BY <1>0, <1>2 DEF KernelState
<1> HIDE DEF m
<1>5. WellLinked(m)
  BY <1>3 DEF KernelOK, WellLinked
<1> QED BY <1>1, <1>3, <1>4, <1>5 DEF KernelOK, f

\* freeTask() clears the slot and unlinks the node.
LEMMA FreeTaskFacts ==
  ASSUME NEW k, KernelOK(k), NEW c \in Pid, k.container[c] # NoList
  PROVE  LET m == freeTask(k, c)
         IN /\ KernelOK(m)
            /\ m.running = k.running /\ m.stop = k.stop
            /\ m.state = [k.state EXCEPT ![c] = "FREE"]
            /\ m.container = [k.container EXCEPT ![c] = NoList]
            /\ m.ppid = [k.ppid EXCEPT ![c] = 0]
            /\ m.waitpid = [k.waitpid EXCEPT ![c] = 0]
<1> DEFINE k1 == set_slot(k, c, "FREE", 0, 0, 1, 0)
           m == freeTask(k, c)
<1>0. k \in KernelState /\ "FREE" \in TaskState /\ 0 \in Pid
  BY SchedAssumption DEF KernelOK, TaskState, Pid
<1>1. m = remove_node(k1, c)
  BY DEF freeTask
<1>2. /\ k1.state = [k.state EXCEPT ![c] = "FREE"]
      /\ k1.ppid = [k.ppid EXCEPT ![c] = 0]
      /\ k1.waitpid = [k.waitpid EXCEPT ![c] = 0]
      /\ k1.container = k.container
      /\ k1.running = k.running /\ k1.stop = k.stop /\ KernelOK(k1)
  <2>1. 1 \in Nat \ {0} /\ 0 \in Nat /\ 0 \in Pid \cup {AnyChild}
    BY <1>0
  <2> QED BY <1>0, <2>1, SetSlot
<1> HIDE DEF k1
<1>5. /\ KernelOK(m) /\ SameTasks(k1, m)
      /\ m.container = [k1.container EXCEPT ![c] = NoList]
  <2>1. k1.container[c] # NoList /\ KernelOK(k1)
    BY <1>2
  <2> HIDE DEF m
  <2> QED BY <1>1, <2>1, RemoveNode
<1> HIDE DEF m
<1>6. /\ m.running = k.running /\ m.stop = k.stop
      /\ m.state = [k.state EXCEPT ![c] = "FREE"]
      /\ m.container = [k.container EXCEPT ![c] = NoList]
      /\ m.ppid = [k.ppid EXCEPT ![c] = 0]
      /\ m.waitpid = [k.waitpid EXCEPT ![c] = 0]
  BY <1>2, <1>5 DEF SameTasks
<1> QED BY <1>5, <1>6 DEF m

\* The first child sys_waitpid meets is one of those it looks for.
LEMMA FirstMatchFacts ==
  ASSUME NEW k, NEW p, NEW arg, Matching(k, p, arg) # {}
  PROVE  FirstMatch(k, p, arg) \in Matching(k, p, arg)
<1>1. Matching(k, p, arg) \in SUBSET Nat
  BY SchedAssumption DEF Matching, Pid
<1>2. \E c \in Matching(k, p, arg) : \A d \in Matching(k, p, arg) : c <= d
  BY <1>1, LeastElement
<1> QED BY <1>2 DEF FirstMatch

-----------------------------------------------------------------------------
(* The order of the lists: a switch changes ready and no other list *)

\* remove_node leaves the lists alone that the node is not on.
LEMMA RemoveKeepsOrder ==
  ASSUME NEW m, KernelOK(m), NEW p \in Pid, NEW l \in Lists, m.container[p] # l
  PROVE  remove_node(m, p).list[l] = m.list[l]
<1>1. m \in KernelState
  BY DEF KernelOK
<1>2. m.list = [h \in Lists |-> m.list[h]] /\ m.container[p] \in Lists \cup {NoList}
  BY <1>1 DEF KernelState
<1> QED BY <1>1, <1>2 DEF remove_node, Halt, KernelState

\* list_push changes one list.
LEMMA PushKeepsOrder ==
  ASSUME NEW m, KernelOK(m), NEW p \in Pid, NEW h \in Lists, NEW l \in Lists, h # l
  PROVE  list_push(m, h, p).list[l] = m.list[l]
<1>1. m \in KernelState
  BY DEF KernelOK
<1> QED BY <1>1 DEF list_push, insert_at, Halt, KernelState

\* list_push puts the node before the others.
LEMMA PushOrder ==
  ASSUME NEW m, KernelOK(m), NEW p \in Pid, NEW l \in Lists, m.container[p] = NoList
  PROVE  list_push(m, l, p).list[l] = <<p>> \o m.list[l]
<1>1. m \in KernelState /\ m.list[l] \in Seq(Pid)
  BY DEF KernelOK, KernelState
<1>2. list_push(m, l, p).list[l] = InsertAt(m.list[l], 1, p)
  BY <1>1 DEF list_push, insert_at, KernelState
<1> DEFINE s == m.list[l]
<1> HIDE DEF s
<1>3. s \in Seq(Pid) /\ 1 \in 1 .. Len(s) + 1
  BY <1>1 DEF s
<1>4. /\ InsertAt(s, 1, p) \in Seq(Pid) /\ Len(InsertAt(s, 1, p)) = Len(s) + 1
      /\ \A j \in 1 .. Len(s) + 1 :
           InsertAt(s, 1, p)[j] = IF j < 1 THEN s[j] ELSE IF j = 1 THEN p ELSE s[j - 1]
  BY <1>3, InsertAtFacts
<1>5. /\ <<p>> \o s \in Seq(Pid) /\ Len(<<p>> \o s) = Len(s) + 1
      /\ (<<p>> \o s)[1] = p /\ \A j \in 2 .. Len(s) + 1 : (<<p>> \o s)[j] = s[j - 1]
  BY <1>3
<1>6. \A j \in 1 .. Len(s) + 1 : InsertAt(s, 1, p)[j] = (<<p>> \o s)[j]
  BY <1>3, <1>4, <1>5
<1>7. InsertAt(s, 1, p) = <<p>> \o s
  BY <1>4, <1>5, <1>6, SeqEqual, ZenonT(40)
<1> QED BY <1>2, <1>7 DEF s

\* schedule() moves tasks on and off ready only.
LEMMA ScheduleKeepsOrder ==
  ASSUME NEW m, KernelOK(m), m.running \in Pid, NEW l \in Lists, l # "ready"
  PROVE  schedule(m).list[l] = m.list[l]
<1> DEFINE ready == m.list["ready"]
           next == Last(ready)
           cur == m.running
           k1 == remove_node(m, next)
           k2 == [k1 EXCEPT !.state[next] = "RUNNING"]
           k2b == [k2 EXCEPT !.state[cur] = "READY"]
           k3 == IF k2.container[cur] = NoList THEN list_push(k2b, "ready", cur) ELSE k2
<1>0. "ready" \in Lists /\ {"READY", "RUNNING"} \subseteq TaskState /\ cur # NoTask /\ m \in KernelState
  BY SchedAssumption DEF TaskState, NoTask, Pid, KernelOK
<1>1. CASE ready = <<>>
  <2>1. schedule(m) = m \/ schedule(m) = Halt(m, "assert")
    BY <1>1 DEF schedule
  <2>2. Halt(m, "assert").list = m.list
    BY <1>0 DEF Halt, KernelState
  <2> QED BY <2>1, <2>2
<1>2. CASE ready # <<>>
  <2>1. next \in Pid /\ m.container[next] = "ready"
    <3>1. ready \in Seq(Pid) /\ Len(ready) \in 1 .. Len(ready)
      BY <1>0, <1>2, EmptySeq DEF KernelState
    <3> QED BY <1>0, <3>1 DEF KernelOK, WellLinked, Last
  <2>2. KernelOK(k1) /\ k1.list[l] = m.list[l]
    <3>1. m.container[next] # NoList /\ m.container[next] # l
      BY <2>1 DEF NoList
    <3> HIDE DEF next
    <3>2. KernelOK(k1)
      BY <2>1, <3>1, RemoveNode
    <3>3. k1.list[l] = m.list[l]
      BY <2>1, <3>1, RemoveKeepsOrder
    <3> QED BY <3>2, <3>3
  <2>3. schedule(m) = [k3 EXCEPT !.running = next]
    BY <1>0, <1>2 DEF schedule
  <2> HIDE DEF k1
  <2>4. KernelOK(k2) /\ k2.list = k1.list
    BY <1>0, <2>1, <2>2, SetState
  <2> HIDE DEF k2
  <2>5. KernelOK(k2b) /\ k2b.list = k2.list
    BY <1>0, <2>4, SetState
  <2> HIDE DEF k2b
  <2>6. list_push(k2b, "ready", cur).list[l] = k2b.list[l]
    BY <1>0, <2>5, PushKeepsOrder
  <2>7. [k3 EXCEPT !.running = next].list = k3.list
    <3>1. k2 \in KernelState /\ k2b \in KernelState
      BY <2>4, <2>5 DEF KernelOK
    <3> QED BY <3>1 DEF list_push, insert_at, Halt, KernelState
  <2> QED BY <2>2, <2>3, <2>4, <2>5, <2>6, <2>7
<1> QED BY <1>1, <1>2

\* unblock() takes the task off the list it waits on.
LEMMA UnblockOrder ==
  ASSUME NEW m, KernelOK(m), NEW p \in Pid, m.container[p] # NoList,
         NEW l \in Lists, l # "ready"
  PROVE  unblock(m, p).list[l] = remove_node(m, p).list[l]
<1> DEFINE m1 == remove_node(m, p)
           m2 == list_push(m1, "ready", p)
<1>0. "ready" \in Lists
  BY SchedAssumption
<1>1. KernelOK(m1) /\ m1.container[p] = NoList
  <2>1. m.container \in [Pid -> Lists \cup {NoList}]
    BY DEF KernelOK, KernelState
  <2>2. KernelOK(m1) /\ m1.container = [m.container EXCEPT ![p] = NoList]
    BY RemoveNode
  <2> QED BY <2>1, <2>2
<1>2. unblock(m, p) = [m2 EXCEPT !.state[p] = "READY"]
  BY DEF unblock
<1> HIDE DEF m1
<1>3. KernelOK(m2) /\ m2.list[l] = m1.list[l]
  <2>1. KernelOK(m2)
    BY <1>0, <1>1, ListPush
  <2>2. m2.list[l] = m1.list[l]
    BY <1>0, <1>1, PushKeepsOrder
  <2> QED BY <2>1, <2>2
<1> HIDE DEF m2
<1>4. [m2 EXCEPT !.state[p] = "READY"].list = m2.list
  BY <1>3 DEF KernelOK, KernelState
<1> QED BY <1>2, <1>3, <1>4 DEF m1

-----------------------------------------------------------------------------
(* The sleep list and the times on it *)

\* The sleepers, their order, their times and the clock are the same.
SameSleep(m, n) ==
  /\ n.list["sleep"] = m.list["sleep"] /\ n.jiffies = m.jiffies
  /\ \A i \in 1 .. Len(m.list["sleep"]) :
       n.value[m.list["sleep"][i]] = m.value[m.list["sleep"][i]]

\* Such steps compose.
LEMMA SameSleepTrans ==
  ASSUME NEW m, NEW n, NEW o, SameSleep(m, n), SameSleep(n, o)
  PROVE  SameSleep(m, o)
BY DEF SameSleep

\* list_push and remove_node write no time and no clock.
LEMMA ListKeepsTimes ==
  ASSUME NEW m, KernelOK(m), NEW p \in Pid, NEW l \in Lists
  PROVE  /\ list_push(m, l, p).value = m.value /\ list_push(m, l, p).jiffies = m.jiffies
         /\ remove_node(m, p).value = m.value /\ remove_node(m, p).jiffies = m.jiffies
BY DEF KernelOK, KernelState, list_push, insert_at, remove_node, Halt

\* Nor does schedule(), which leaves sleep_list alone.
LEMMA ScheduleSleep ==
  ASSUME NEW m, KernelOK(m), m.running \in Pid
  PROVE  SameSleep(m, schedule(m))
<1> DEFINE ready == m.list["ready"]
           next == Last(ready)
           cur == m.running
           k1 == remove_node(m, next)
           k2 == [k1 EXCEPT !.state[next] = "RUNNING"]
           k2b == [k2 EXCEPT !.state[cur] = "READY"]
           k3 == IF k2.container[cur] = NoList THEN list_push(k2b, "ready", cur) ELSE k2
           n == schedule(m)
<1>0. /\ "ready" \in Lists /\ "sleep" \in Lists /\ {"READY", "RUNNING"} \subseteq TaskState
      /\ cur # NoTask /\ m \in KernelState
  BY SchedAssumption DEF TaskState, NoTask, Pid, KernelOK
<1>1. n.list["sleep"] = m.list["sleep"]
  BY <1>0, ScheduleKeepsOrder
<1>2. CASE ready = <<>>
  <2>1. n = m \/ n = Halt(m, "assert")
    BY <1>2 DEF schedule
  <2>2. Halt(m, "assert").value = m.value /\ Halt(m, "assert").jiffies = m.jiffies
    BY <1>0 DEF Halt, KernelState
  <2> QED BY <1>1, <2>1, <2>2 DEF SameSleep
<1>3. CASE ready # <<>>
  <2>1. next \in Pid /\ m.container[next] # NoList
    <3>1. ready \in Seq(Pid) /\ Len(ready) \in 1 .. Len(ready)
      BY <1>0, <1>3, EmptySeq DEF KernelState
    <3> QED BY <1>0, <3>1 DEF KernelOK, WellLinked, Last, NoList
  <2>2. n = [k3 EXCEPT !.running = next]
    BY <1>0, <1>3 DEF schedule
  <2> HIDE DEF next, n
  <2>3. KernelOK(k1) /\ SameTasks(m, k1)
    BY <2>1, RemoveNode
  <2> HIDE DEF k1
  <2>4. KernelOK(k2) /\ SameFields(k1, k2)
    BY <1>0, <2>1, <2>3, SetState
  <2> HIDE DEF k2
  <2>5. KernelOK(k2b) /\ SameFields(k2, k2b)
    BY <1>0, <2>4, SetState
  <2> HIDE DEF k2b
  <2>6. /\ list_push(k2b, "ready", cur).value = k2b.value
        /\ list_push(k2b, "ready", cur).jiffies = k2b.jiffies
    BY <1>0, <2>5, ListKeepsTimes
  <2>7. n.value = k3.value /\ n.jiffies = k3.jiffies
    <3>1. k2 \in KernelState /\ k2b \in KernelState
      BY <2>4, <2>5 DEF KernelOK
    <3> QED BY <2>2, <3>1 DEF list_push, insert_at, Halt, KernelState
  <2> QED BY <1>1, <2>3, <2>4, <2>5, <2>6, <2>7 DEF SameTasks, SameFields, SameSleep, n
<1> QED BY <1>2, <1>3

\* Waking a task that does not sleep.
LEMMA UnblockSleep ==
  ASSUME NEW m, KernelOK(m), NEW p \in Pid, m.container[p] \notin {NoList, "sleep"}
  PROVE  SameSleep(m, unblock(m, p))
<1>1. "sleep" \in Lists /\ "sleep" # "ready"
  BY SchedAssumption
<1>2. unblock(m, p).list["sleep"] = m.list["sleep"]
  BY <1>1, UnblockOrder, RemoveKeepsOrder
<1>3. SameFields(m, unblock(m, p))
  BY Unblock
<1> QED BY <1>2, <1>3 DEF SameFields, SameSleep

\* Linking a task on a list that is not sleep_list, with its new state.
LEMMA PushSleep ==
  ASSUME NEW m, KernelOK(m), NEW p \in Pid, m.container[p] = NoList,
         NEW l \in Lists \ {"sleep"}, NEW st \in TaskState
  PROVE  SameSleep(m, list_push([m EXCEPT !.state[p] = st], l, p))
<1> DEFINE k1 == [m EXCEPT !.state[p] = st]
<1>1. KernelOK(k1) /\ SameFields(m, k1) /\ k1.list = m.list
  BY SetState
<1> HIDE DEF k1
<1>2. "sleep" \in Lists
  BY SchedAssumption
<1>3. list_push(k1, l, p).list["sleep"] = k1.list["sleep"]
  BY <1>1, <1>2, PushKeepsOrder
<1>4. list_push(k1, l, p).value = k1.value /\ list_push(k1, l, p).jiffies = k1.jiffies
  BY <1>1, ListKeepsTimes
<1> QED BY <1>1, <1>3, <1>4 DEF SameFields, SameSleep, k1

\* list_insert puts the node behind every node that is not later, and, if any
\* follow, before one that is later.
LEMMA InsertOrder ==
  ASSUME NEW m, KernelOK(m), NEW p \in Pid, m.container[p] = NoList, NEW l \in Lists
  PROVE  LET s == m.list[l]
         IN \E i \in 1 .. Len(s) + 1 :
              /\ list_insert(m, l, p).list[l] = InsertAt(s, i, p)
              /\ \A j \in 1 .. Len(s) : j < i => m.value[s[j]] <= m.value[p]
              /\ i <= Len(s) => m.value[s[i]] > m.value[p]
<1> DEFINE s == m.list[l]
           After == {i \in 1 .. Len(s) : m.value[s[i]] > m.value[p]}
           Least == CHOOSE i \in After : \A j \in After : i <= j
<1>1. s \in Seq(Pid) /\ m \in KernelState /\ Len(s) \in Nat
  BY SMTT(30) DEF KernelOK, KernelState
<1>2. \A j \in 1 .. Len(s) : m.value[s[j]] \in Nat /\ m.value[p] \in Nat
  BY <1>1, SMTT(30) DEF KernelState
<1>3. \A i : insert_at(m, l, p, i).list[l] = InsertAt(s, i, p)
  BY <1>1 DEF insert_at, KernelState
<1>4. CASE After = {}
  <2>1. list_insert(m, l, p) = insert_at(m, l, p, Len(s) + 1)
    BY <1>4 DEF list_insert, list_pushback
  <2>2. \A j \in 1 .. Len(s) : m.value[s[j]] <= m.value[p]
    BY <1>2, <1>4
  <2>3. Len(s) + 1 \in 1 .. Len(s) + 1 /\ ~(Len(s) + 1 <= Len(s))
    BY <1>1
  <2> QED BY <1>3, <2>1, <2>2, <2>3
<1>5. CASE After # {}
  <2>1. list_insert(m, l, p) = insert_at(m, l, p, Least)
    BY <1>5 DEF list_insert
  <2>2. Least \in After /\ \A j \in After : Least <= j
    <3>1. After \subseteq Nat
      BY <1>1
    <3>2. \E i \in After : \A j \in After : i <= j
      BY <1>5, <3>1, LeastElement
    <3> QED BY <3>2
  <2> HIDE DEF Least
  <2>3. Least \in 1 .. Len(s) + 1 /\ m.value[s[Least]] > m.value[p]
    BY <1>1, <2>2
  <2>4. \A j \in 1 .. Len(s) : j < Least => m.value[s[j]] <= m.value[p]
    BY <1>1, <1>2, <2>2
  <2> QED BY <1>3, <2>1, <2>3, <2>4, SMTT(30)
<1> QED BY <1>4, <1>5

\* weakup() takes the first sleeper off if its time has come.
LEMMA WeakupOrder ==
  ASSUME NEW m, KernelOK(m)
  PROVE  LET s == m.list["sleep"]
             n == weakup(m)
         IN \/ n = m /\ (s # <<>> => m.jiffies < m.value[s[1]])
            \/ /\ s # <<>> /\ n.list["sleep"] = RemoveAt(s, 1)
               /\ n.value = m.value /\ n.jiffies = m.jiffies
<1> DEFINE s == m.list["sleep"]
           p == Head(s)
           k1 == remove_node(m, p)
           k1r == [k1 EXCEPT !.state[p] = "READY"]
           n == weakup(m)
<1>0. /\ "sleep" \in Lists /\ "ready" \in Lists /\ "READY" \in TaskState
      /\ m \in KernelState /\ s \in Seq(Pid) /\ m.jiffies \in Nat
  BY SchedAssumption DEF TaskState, KernelOK, KernelState
<1>1. CASE s = <<>>
  BY <1>1 DEF weakup
<1>2. CASE s # <<>>
  <2>1. p = s[1] /\ p \in Pid /\ 1 \in 1 .. Len(s) /\ m.value[p] \in Nat
    BY <1>0, <1>2 DEF KernelState
  <2>2. CASE ~(m.jiffies >= m.value[p])
    <3>1. n = m
      BY <1>2, <2>2 DEF weakup
    <3>2. m.jiffies < m.value[s[1]]
      BY <1>0, <2>1, <2>2
    <3> QED BY <3>1, <3>2
  <2>3. CASE m.jiffies >= m.value[p]
    <3>1. n = list_push(k1r, "ready", p)
      BY <1>2, <2>3 DEF weakup
    <3>2. m.container[p] = "sleep" /\ IndexIn(s, p) = 1
      <4>1. m.container[p] = "sleep" /\ \A i \in 1 .. Len(s) : s[i] = p => i = 1
        BY <1>0, <2>1 DEF KernelOK, WellLinked
      <4> QED BY <2>1, <4>1 DEF IndexIn
    <3> HIDE DEF p
    <3>3. k1.list["sleep"] = RemoveAt(s, 1)
      BY <1>0, <3>2 DEF remove_node, NoList, KernelState
    <3>4. KernelOK(k1) /\ SameTasks(m, k1)
      BY <2>1, <3>2, RemoveNode DEF NoList
    <3> HIDE DEF k1, n
    <3>5. KernelOK(k1r) /\ SameFields(k1, k1r) /\ k1r.list = k1.list
      BY <1>0, <2>1, <3>4, SetState
    <3> HIDE DEF k1r
    <3>6. /\ n.list["sleep"] = k1r.list["sleep"]
          /\ n.value = k1r.value /\ n.jiffies = k1r.jiffies
      BY <1>0, <2>1, <3>1, <3>5, PushKeepsOrder, ListKeepsTimes
    <3> QED BY <1>2, <3>3, <3>4, <3>5, <3>6 DEF SameTasks, SameFields, n
  <2> QED BY <2>2, <2>3
<1> QED BY <1>1, <1>2
\* The first switch.
LEMMA ScheduleFirstSleep ==
  ASSUME NEW m, KernelOK(m), m.running = NoTask, m.list["ready"] # <<>>
  PROVE  SameSleep(m, schedule(m))
<1> DEFINE next == Last(m.list["ready"])
           k1 == remove_node(m, next)
<1>1. "sleep" \in Lists /\ "sleep" # "ready"
  BY SchedAssumption
<1>2. next \in Pid /\ m.container[next] = "ready" /\ SameFields(m, schedule(m))
  BY ScheduleFirst
<1>3. schedule(m) = [k1 EXCEPT !.running = next]
  BY DEF schedule
<1> HIDE DEF next
<1>4. KernelOK(k1) /\ k1.list["sleep"] = m.list["sleep"]
  <2>1. m.container[next] # NoList /\ m.container[next] # "sleep"
    BY <1>2 DEF NoList
  <2>2. KernelOK(k1)
    BY <1>2, <2>1, RemoveNode
  <2> QED BY <1>1, <1>2, <2>1, <2>2, RemoveKeepsOrder
<1> HIDE DEF k1
<1>5. schedule(m).list = k1.list
  BY <1>3, <1>4 DEF KernelOK, KernelState
<1> QED BY <1>2, <1>4, <1>5 DEF SameFields, SameSleep

\* Filling or clearing a slot whose task does not sleep.
LEMMA SetSlotSleep ==
  ASSUME NEW m, KernelOK(m), NEW c \in Pid, m.container[c] # "sleep",
         NEW st \in TaskState, NEW pp \in Pid, NEW w \in Pid \cup {AnyChild},
         NEW pr \in Nat \ {0}, NEW v \in Nat
  PROVE  SameSleep(m, set_slot(m, c, st, pp, w, pr, v))
<1> DEFINE n == [m EXCEPT !.state[c] = st, !.ppid[c] = pp, !.waitpid[c] = w,
                          !.priority[c] = pr, !.ticks[c] = pr, !.value[c] = v]
           s == m.list["sleep"]
<1>1. m \in KernelState /\ "sleep" \in Lists /\ m.value \in [Pid -> Nat]
  BY SchedAssumption DEF KernelOK, KernelState
<1>2. n.list = m.list /\ n.jiffies = m.jiffies /\ n.value = [m.value EXCEPT ![c] = v]
  BY <1>1 DEF KernelState
<1>3. \A i \in 1 .. Len(s) : s[i] # c
  BY <1>1 DEF KernelOK, WellLinked
<1> HIDE DEF n
<1>4. SameSleep(m, n)
  BY <1>1, <1>2, <1>3 DEF SameSleep
<1> QED BY <1>4 DEF set_slot, n
=============================================================================
