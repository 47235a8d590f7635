---------------------------- MODULE BufferProofs ----------------------------
(***************************************************************************)
(* The buffer cache is safe for every number of tasks, buffers and blocks: *)
(* one buffer per block, b_count counts the holders, and no wake-up is     *)
(* lost.                                                                   *)
(***************************************************************************)
EXTENDS Buffer, SequenceTheorems, FiniteSetTheorems, WellFoundedInduction, TLAPS

-----------------------------------------------------------------------------
(* Numbers and sequences *)

\* A set of numbers has a least element: the buffer getblk reuses is the first of
\* those with the lowest score.
LEMMA LeastElement ==
  ASSUME NEW T \in SUBSET Nat, T # {}
  PROVE  \E x \in T : \A y \in T : x <= y
<1> DEFINE R == {ss \in Nat \X Nat : ss[1] < ss[2]}
<1>1. R = OpToRel(<, Nat)
  BY DEF OpToRel
<1>2. IsWellFoundedOn(R, Nat)
  BY <1>1, NatLessThanWellFounded
<1>3. \A x, y \in Nat : x < y => <<x, y>> \in R
  OBVIOUS
<1> HIDE DEF R
<1>4. \E x \in T : \A y \in T : ~(<<y, x>> \in R)
  BY <1>2, WFMin
<1>5. PICK x \in T : \A y \in T : ~(<<y, x>> \in R)
  BY <1>4
<1>6. ASSUME NEW y \in T PROVE x <= y
  <2>1. x \in Nat /\ y \in Nat
    OBVIOUS
  <2>2. ~(y < x)
    BY <2>1, <1>3, <1>5
  <2> QED BY <2>1, <2>2
<1> QED BY <1>6

Has(w, e) == \E i \in 1 .. Len(w) : w[i] = e
Once(w) == \A i, j \in 1 .. Len(w) : w[i] = w[j] => i = j

\* Deleting position i of a sequence shifts what follows it (remove_node).
LEMMA RemoveAtFacts ==
  ASSUME NEW S, NEW w \in Seq(S), NEW i \in 1 .. Len(w)
  PROVE  /\ RemoveAt(w, i) \in Seq(S)
         /\ Len(RemoveAt(w, i)) = Len(w) - 1
         /\ \A j \in 1 .. Len(w) - 1 :
              RemoveAt(w, i)[j] = IF j < i THEN w[j] ELSE w[j + 1]
<1> DEFINE a == SubSeq(w, 1, i - 1)
           b == SubSeq(w, i + 1, Len(w))
<1>1. a \in Seq(S) /\ Len(a) = i - 1 /\ \A j \in 1 .. i - 1 : a[j] = w[j]
  BY SubSeqProperties
<1>2. /\ b \in Seq(S) /\ Len(b) = Len(w) - i
      /\ \A j \in 1 .. Len(w) - i : b[j] = w[i + j]
  <2>1. \A j \in i + 1 .. Len(w) : w[j] \in S
    OBVIOUS
  <2>2. /\ b \in Seq(S)
        /\ Len(b) = IF i + 1 <= Len(w) THEN Len(w) - (i + 1) + 1 ELSE 0
        /\ \A j \in 1 .. Len(w) - (i + 1) + 1 : b[j] = w[(i + 1) + j - 1]
    BY <2>1, SubSeqProperties
  <2> QED BY <2>2
<1>3. RemoveAt(w, i) = a \o b
  BY DEF RemoveAt
<1> HIDE DEF a, b
<1>4. /\ a \o b \in Seq(S)
      /\ Len(a \o b) = Len(a) + Len(b)
      /\ \A j \in 1 .. Len(a) + Len(b) :
           (a \o b)[j] = IF j <= Len(a) THEN a[j] ELSE b[j - Len(a)]
  BY <1>1, <1>2, ConcatProperties
<1> QED BY <1>1, <1>2, <1>3, <1>4, SMTT(30)

\* An empty list has nothing on it.
LEMMA EmptyHas ==
  ASSUME NEW S, NEW w \in Seq(S)
  PROVE  w = <<>> <=> ~ \E e \in S : Has(w, e)
BY DEF Has

\* Pushing at the head (list_push).
LEMMA ConsFacts ==
  ASSUME NEW S, NEW w \in Seq(S), NEW e \in S
  PROVE  /\ <<e>> \o w \in Seq(S) /\ <<e>> \o w # <<>>
         /\ \A x : Has(<<e>> \o w, x) <=> x = e \/ Has(w, x)
         /\ Once(w) /\ ~Has(w, e) => Once(<<e>> \o w)
<1> DEFINE t == <<e>> \o w
<1>1. /\ t \in Seq(S) /\ Len(t) = Len(w) + 1
      /\ t[1] = e /\ \A i \in 1 .. Len(w) : t[i + 1] = w[i]
  OBVIOUS
<1> HIDE DEF t
<1>2. \A i \in 1 .. Len(t) : i = 1 \/ (i - 1 \in 1 .. Len(w) /\ t[i] = w[i - 1])
  <2> SUFFICES ASSUME NEW i \in 1 .. Len(t), i # 1
               PROVE  i - 1 \in 1 .. Len(w) /\ t[i] = w[i - 1]
    OBVIOUS
  <2>1. i - 1 \in 1 .. Len(w) /\ (i - 1) + 1 = i
    BY <1>1
  <2> QED BY <2>1, <1>1
<1>3. ASSUME NEW x PROVE Has(t, x) <=> x = e \/ Has(w, x)
  <2>1. ASSUME Has(t, x) PROVE x = e \/ Has(w, x)
    BY <1>1, <1>2, <2>1 DEF Has
  <2>2. ASSUME Has(w, x) PROVE Has(t, x)
    <3>1. PICK i \in 1 .. Len(w) : w[i] = x
      BY <2>2 DEF Has
    <3>2. i + 1 \in 1 .. Len(t) /\ t[i + 1] = x
      BY <3>1, <1>1
    <3> QED BY <3>2 DEF Has
  <2>3. Has(t, e)
    BY <1>1 DEF Has
  <2> QED BY <2>1, <2>2, <2>3
<1>4. ASSUME Once(w), ~Has(w, e) PROVE Once(t)
  <2> SUFFICES ASSUME NEW i \in 1 .. Len(t), NEW j \in 1 .. Len(t), t[i] = t[j]
               PROVE  i = j
    BY DEF Once
  <2>1. CASE i = 1 \/ j = 1
    BY <2>1, <1>1, <1>2, <1>4 DEF Has
  <2>2. CASE i # 1 /\ j # 1
    <3>1. w[i - 1] = w[j - 1] /\ i - 1 \in 1 .. Len(w) /\ j - 1 \in 1 .. Len(w)
      BY <2>2, <1>2
    <3>2. i - 1 = j - 1
      BY <3>1, <1>4 DEF Once
    <3> QED BY <3>2, <1>1
  <2> QED BY <2>1, <2>2
<1> QED BY <1>1, <1>3, <1>4 DEF t

\* Taking off the last element (the oldest waiter of a mutex).
LEMMA FrontFacts ==
  ASSUME NEW S, NEW w \in Seq(S), w # <<>>, Once(w)
  PROVE  /\ Last(w) \in S /\ Has(w, Last(w)) /\ Front(w) \in Seq(S) /\ Once(Front(w))
         /\ \A x : Has(Front(w), x) <=> Has(w, x) /\ x # Last(w)
<1> DEFINE t == Front(w)
           n == Len(w)
<1>1. n \in Nat \ {0}
  BY EmptySeq
<1>2. t \in Seq(S) /\ Len(t) = n - 1 /\ \A i \in 1 .. n - 1 : t[i] = w[i]
  <2>1. 1 \in Int /\ n - 1 \in Int /\ \A i \in 1 .. n - 1 : w[i] \in S
    BY <1>1
  <2>2. /\ SubSeq(w, 1, n - 1) \in Seq(S)
        /\ Len(SubSeq(w, 1, n - 1)) = IF 1 <= n - 1 THEN n - 1 - 1 + 1 ELSE 0
        /\ \A i \in 1 .. n - 1 - 1 + 1 : SubSeq(w, 1, n - 1)[i] = w[1 + i - 1]
    BY <2>1, SubSeqProperties
  <2>3. t = SubSeq(w, 1, n - 1)
    BY DEF Front
  <2> HIDE DEF t, n
  <2>4. /\ \A i \in 1 .. n - 1 : i \in 1 .. n - 1 - 1 + 1 /\ 1 + i - 1 = i
        /\ (IF 1 <= n - 1 THEN n - 1 - 1 + 1 ELSE 0) = n - 1
    BY <1>1
  <2> QED BY <2>2, <2>3, <2>4
<1>3. Last(w) = w[n] /\ n \in 1 .. Len(w)
  BY <1>1 DEF Last
<1> HIDE DEF t, n
<1>4. \A i \in 1 .. Len(w) : i = n \/ i \in 1 .. n - 1
  BY <1>1 DEF n
<1>5. Once(t)
  BY <1>1, <1>2 DEF Once, n
<1>6. \A i \in 1 .. n - 1 : i \in 1 .. Len(w) /\ i # n
  BY <1>1 DEF n
<1>7. ASSUME NEW x PROVE Has(t, x) <=> Has(w, x) /\ x # Last(w)
  <2>1. ASSUME Has(t, x) PROVE Has(w, x) /\ x # Last(w)
    <3>1. PICK i \in 1 .. n - 1 : t[i] = x
      BY <2>1, <1>2 DEF Has
    <3> QED BY <3>1, <1>2, <1>3, <1>6 DEF Has, Once
  <2>2. ASSUME Has(w, x), x # Last(w) PROVE Has(t, x)
    <3>1. PICK i \in 1 .. Len(w) : w[i] = x
      BY <2>2 DEF Has
    <3> QED BY <3>1, <2>2, <1>2, <1>3, <1>4 DEF Has
  <2> QED BY <2>1, <2>2
<1> QED BY <1>2, <1>3, <1>5, <1>7 DEF Has, t

\* Taking off the first element (the newest waiter of wait_list).
LEMMA TailFacts ==
  ASSUME NEW S, NEW w \in Seq(S), w # <<>>, Once(w)
  PROVE  /\ Head(w) \in S /\ Has(w, Head(w)) /\ Tail(w) \in Seq(S) /\ Once(Tail(w))
         /\ \A x : Has(Tail(w), x) <=> Has(w, x) /\ x # Head(w)
<1> DEFINE t == Tail(w)
           n == Len(w)
<1>1. n \in Nat \ {0}
  BY EmptySeq
<1>2. t \in Seq(S) /\ Len(t) = n - 1 /\ \A i \in 1 .. n - 1 : t[i] = w[i + 1]
  BY <1>1, HeadTailProperties
<1>3. Head(w) = w[1] /\ 1 \in 1 .. Len(w)
  BY <1>1
<1> HIDE DEF t
<1>4. Once(t)
  <2> SUFFICES ASSUME NEW i \in 1 .. n - 1, NEW j \in 1 .. n - 1, t[i] = t[j] PROVE i = j
    BY <1>2 DEF Once
  <2>1. w[i + 1] = w[j + 1] /\ i + 1 \in 1 .. n /\ j + 1 \in 1 .. n
    BY <1>1, <1>2
  <2>2. i + 1 = j + 1
    BY <2>1 DEF Once
  <2> QED BY <2>2
<1>5. ASSUME NEW x PROVE Has(t, x) <=> Has(w, x) /\ x # Head(w)
  <2>1. ASSUME Has(t, x) PROVE Has(w, x) /\ x # Head(w)
    <3>1. PICK i \in 1 .. n - 1 : t[i] = x
      BY <2>1, <1>2 DEF Has
    <3>2. i + 1 \in 1 .. n /\ i + 1 # 1 /\ w[i + 1] = x
      BY <3>1, <1>1, <1>2
    <3> QED BY <3>2, <1>3 DEF Has, Once
  <2>2. ASSUME Has(w, x), x # Head(w) PROVE Has(t, x)
    <3>1. PICK i \in 1 .. n : w[i] = x
      BY <2>2 DEF Has
    <3>2. i - 1 \in 1 .. n - 1 /\ (i - 1) + 1 = i
      BY <3>1, <2>2, <1>1, <1>3
    <3>3. t[i - 1] = x
      BY <3>1, <3>2, <1>2
    <3> QED BY <3>2, <3>3, <1>2 DEF Has
  <2> QED BY <2>1, <2>2
<1> QED BY <1>2, <1>3, <1>4, <1>5 DEF Has, t

\* Moving an element to the end of a list, or adding it there (buffer_remove
\* and buffer_insert).
LEMMA MoveToEnd ==
  ASSUME NEW S, NEW w \in Seq(S), NEW e \in S
  PROVE  LET t == Append(RemoveFirst(w, e), e)
         IN t \in Seq(S) /\ \A x : Has(t, x) <=> x = e \/ Has(w, x)
<1> DEFINE r == RemoveFirst(w, e)
           t == Append(r, e)
<1>1. /\ r \in Seq(S)
      /\ \A x : Has(r, x) => Has(w, x)
      /\ \A x : Has(w, x) /\ x # e => Has(r, x)
  <2>1. CASE ~Has(w, e)
    BY <2>1 DEF RemoveFirst, Has
  <2>2. CASE Has(w, e)
    <3> DEFINE I == {i \in 1 .. Len(w) : w[i] = e}
               m == Min(I)
    <3>1. I \in SUBSET Nat /\ I # {}
      BY <2>2 DEF Has
    <3>2. m \in I
      BY <3>1, LeastElement DEF Min
    <3>3. r = RemoveAt(w, m)
      BY <2>2, <3>1 DEF RemoveFirst, SelectInSeq, Has
    <3>4. m \in 1 .. Len(w) /\ w[m] = e
      BY <3>2
    <3> HIDE DEF m
    <3>5. /\ r \in Seq(S) /\ Len(r) = Len(w) - 1
          /\ \A j \in 1 .. Len(w) - 1 : r[j] = IF j < m THEN w[j] ELSE w[j + 1]
      BY <3>3, <3>4, RemoveAtFacts
    <3> HIDE DEF r
    <3>6. ASSUME NEW x, Has(r, x) PROVE Has(w, x)
      <4>1. PICK j \in 1 .. Len(w) - 1 : r[j] = x
        BY <3>5, <3>6 DEF Has
      <4>2. j \in 1 .. Len(w) /\ j + 1 \in 1 .. Len(w)
        OBVIOUS
      <4> QED BY <4>1, <4>2, <3>5 DEF Has
    <3>7. ASSUME NEW x, Has(w, x), x # e PROVE Has(r, x)
      <4>1. PICK j \in 1 .. Len(w) : w[j] = x
        BY <3>7 DEF Has
      <4>2. CASE j < m
        <5>1. j \in 1 .. Len(w) - 1
          BY <4>2, <3>4
        <5> QED BY <5>1, <4>1, <4>2, <3>5 DEF Has
      <4>3. CASE j > m
        <5>1. j - 1 \in 1 .. Len(w) - 1 /\ ~(j - 1 < m) /\ (j - 1) + 1 = j
          BY <4>3, <3>4
        <5>2. r[j - 1] = x
          BY <5>1, <4>1, <3>5
        <5> QED BY <5>1, <5>2, <3>5 DEF Has
      <4> QED BY <4>1, <4>2, <4>3, <3>4, <3>7
    <3> QED BY <3>5, <3>6, <3>7
  <2> QED BY <2>1, <2>2
<1> HIDE DEF r
<1>2. /\ t \in Seq(S) /\ Len(t) = Len(r) + 1 /\ t[Len(r) + 1] = e
      /\ \A i \in 1 .. Len(r) : t[i] = r[i]
  BY <1>1, AppendProperties
<1> HIDE DEF t
<1>3. ASSUME NEW x PROVE Has(t, x) <=> x = e \/ Has(w, x)
  <2>1. \A i \in 1 .. Len(t) : i = Len(r) + 1 \/ i \in 1 .. Len(r)
    BY <1>1, <1>2
  <2>2. Len(r) + 1 \in 1 .. Len(t) /\ \A i \in 1 .. Len(r) : i \in 1 .. Len(t)
    BY <1>1, <1>2
  <2>3. Has(t, x) <=> x = e \/ Has(r, x)
    BY <2>1, <2>2, <1>2 DEF Has
  <2> QED BY <2>3, <1>1
<1> QED BY <1>2, <1>3 DEF t, r

Pc == {"run", "held", "full", "retry", "lock", "woken", "mutex", "owner",
       "queued", "io", "done"}
DevOp == {"bread", "getblk", "brelse", "sync"}
Contents == (Block \cup {NoBlock}) \X (0 .. Versions - 1)

CacheState ==
  [blk : [Buf -> Block \cup {NoBlock}], count : [Buf -> Nat],
   dirty : [Buf -> BOOLEAN], vaild : [Buf -> BOOLEAN],
   waiter : [Buf -> Task \cup {NoTask}], locked : [Buf -> BOOLEAN],
   lockq : [Buf -> Seq(Task)], data : [Buf -> Contents], disk : [Block -> Contents],
   nalloc : 0 .. NBuf, free_list : Seq(Buf), wait_list : Seq(Task), do_request : BOOLEAN,
   pc : [Task -> Pc], op : [Task -> DevOp \cup {"write", "none"}],
   want : [Task -> Block \cup {NoBlock}], use : [Task -> Buf \cup {0}],
   req : [Task -> Block \cup {NoBlock}]]

-----------------------------------------------------------------------------
(* The inductive invariant.  A task inside a function of the cache is at   *)
(* no resting point; the parts below are about the tasks T that are.  The  *)
(* one that is not may be counted in b_count of a buffer h and may have    *)
(* locked a buffer l (0 for none).                                         *)

\* Task q has been counted in b_count of the buffer it uses.
Counted(t, q) ==
  \/ t.pc[q] = "held"
  \/ t.pc[q] \in {"mutex", "owner", "queued", "io", "done"} /\ t.op[q] \in {"bread", "write"}

HoldersIn(t, T, b) == {q \in T : t.use[q] = b /\ Counted(t, q)}

\* Task q has locked the buffer it uses.
Locks(t, q) == t.pc[q] \in {"io", "done", "owner"}

\* What a resting task relies on.
TaskOK(t, q) ==
  /\ t.pc[q] = "held" => t.op[q] = "none"
  /\ t.pc[q] \in {"queued", "io", "done"} => t.op[q] \in DevOp
  /\ t.pc[q] \in {"mutex", "owner"} => t.op[q] # "none"
  /\ t.pc[q] \in {"mutex", "owner", "queued", "io", "done"} =>
       /\ t.use[q] \in Allocated(t)
       /\ t.op[q] \in DevOp => t.req[q] \in Block
       /\ t.op[q] = "getblk" => t.want[q] \in Block
  /\ t.pc[q] \in {"full", "retry", "lock", "woken"} => t.want[q] \in Block
  /\ Counted(t, q) => t.use[q] \in Allocated(t) /\ t.blk[t.use[q]] = t.want[q]
  /\ t.pc[q] = "held" \/ (Counted(t, q) /\ t.op[q] = "write") => t.vaild[t.use[q]]
  /\ t.pc[q] \in {"lock", "woken"} => t.use[q] \in Allocated(t) /\ t.waiter[t.use[q]] = q
  /\ t.pc[q] = "lock" => t.locked[t.use[q]]
  /\ t.pc[q] = "mutex" => Has(t.lockq[t.use[q]], q)

\* Who waits for a buffer's lock is on its queue, and the queue is empty unless
\* the lock is taken, by one task.
LockOK(t, T, l) ==
  \A b \in Buf :
    /\ Once(t.lockq[b])
    /\ \A q \in Task : Has(t.lockq[b], q) => q \in T /\ t.pc[q] = "mutex" /\ t.use[q] = b
    /\ t.lockq[b] # <<>> => t.locked[b]
    /\ t.locked[b] <=> b = l \/ \E q \in T : t.use[q] = b /\ Locks(t, q)
    /\ b = l => ~ \E q \in T : t.use[q] = b /\ Locks(t, q)
    /\ \A q, r \in T : t.use[q] = b /\ Locks(t, q) /\ t.use[r] = b /\ Locks(t, r) => q = r
    /\ t.waiter[b] # NoTask =>
         t.waiter[b] \in T /\ t.pc[t.waiter[b]] \in {"lock", "woken"} /\ t.use[t.waiter[b]] = b

\* wait_list holds tasks asleep on it, once each.
WaitOK(t, T) ==
  /\ Once(t.wait_list)
  /\ \A q \in Task : Has(t.wait_list, q) => q \in T /\ t.pc[q] = "full"

\* The buffers handed out are on free_list and belong to different blocks.
BlocksOK(t) ==
  /\ \A b \in Buf : Has(t.free_list, b) <=> b \in Allocated(t)
  /\ \A b \in Allocated(t) : t.blk[b] \in Block
  /\ \A a, b \in Allocated(t) : t.blk[a] = t.blk[b] => a = b

\* b_count counts the resting holders, and the one that does not rest.
CountOK(t, T, h) ==
  \A b \in Buf : t.count[b] = Cardinality(HoldersIn(t, T, b)) + (IF b = h THEN 1 ELSE 0)

Core(t, T, h, l) ==
  /\ t \in CacheState
  /\ \A q \in T : TaskOK(t, q)
  /\ LockOK(t, T, l) /\ WaitOK(t, T) /\ BlocksOK(t) /\ CountOK(t, T, h)

\* A task that is inside the cache or holds a buffer ends in brelse, or leaves
\* another such task behind; only sync_dev returns without waking anybody.
Busy(t, q) ==
  /\ t.pc[q] \notin {"run", "full"}
  /\ t.pc[q] \in {"mutex", "owner", "queued", "io", "done"} => t.op[q] # "sync"

FullOK(t) == t.wait_list # <<>> => \E q \in Task : Busy(t, q)

IInv == Core(s, Task, 0, 0) /\ FullOK(s)

\* FullOK with a witness among the resting tasks.
FullIn(t, T) == t.wait_list # <<>> => \E q \in T : Busy(t, q)

Inv(t) == Core(t, Task, 0, 0) /\ FullOK(t)

-----------------------------------------------------------------------------
(* Coming to rest and leaving it *)

\* The types of the fields.
LEMMA Types ==
  ASSUME NEW t \in CacheState
  PROVE  /\ t.blk \in [Buf -> Block \cup {NoBlock}] /\ t.count \in [Buf -> Nat]
         /\ t.dirty \in [Buf -> BOOLEAN] /\ t.vaild \in [Buf -> BOOLEAN]
         /\ t.waiter \in [Buf -> Task \cup {NoTask}] /\ t.locked \in [Buf -> BOOLEAN]
         /\ t.lockq \in [Buf -> Seq(Task)] /\ t.data \in [Buf -> Contents]
         /\ t.disk \in [Block -> Contents]
         /\ t.nalloc \in 0 .. NBuf /\ t.free_list \in Seq(Buf) /\ t.wait_list \in Seq(Task)
         /\ t.pc \in [Task -> Pc] /\ t.op \in [Task -> DevOp \cup {"write", "none"}]
         /\ t.want \in [Task -> Block \cup {NoBlock}] /\ t.use \in [Task -> Buf \cup {0}]
         /\ t.req \in [Task -> Block \cup {NoBlock}] /\ Allocated(t) \subseteq Buf
         /\ 0 \notin Buf
BY BufferAssumption DEF CacheState, Allocated, Buf

\* u differs from t in nothing the resting tasks look at, but for b_count, and
\* buffers that have become valid.
SameButCount(t, u, T) ==
  /\ u.blk = t.blk /\ u.waiter = t.waiter /\ \A b \in Buf : t.vaild[b] => u.vaild[b]
  /\ u.locked = t.locked /\ u.lockq = t.lockq /\ u.nalloc = t.nalloc
  /\ u.free_list = t.free_list /\ u.wait_list = t.wait_list
  /\ \A q \in T : /\ u.pc[q] = t.pc[q] /\ u.op[q] = t.op[q] /\ u.want[q] = t.want[q]
                  /\ u.use[q] = t.use[q] /\ u.req[q] = t.req[q]

\* Such a change keeps the invariant when it keeps the counts right.
LEMMA Recount ==
  ASSUME NEW T \in SUBSET Task, NEW h, NEW g, NEW l, NEW t, Core(t, T, h, l),
         NEW u \in CacheState, SameButCount(t, u, T), CountOK(u, T, g)
  PROVE  Core(u, T, g, l) /\ (FullIn(t, T) => FullIn(u, T))
<1>1. \A q \in T : /\ Counted(u, q) <=> Counted(t, q)
                   /\ Locks(u, q) <=> Locks(t, q)
                   /\ Busy(u, q) <=> Busy(t, q)
  BY DEF SameButCount, Counted, Locks, Busy
<1>2. ASSUME NEW q \in T PROVE TaskOK(u, q)
  <2>1. TaskOK(t, q) /\ t \in CacheState
    BY DEF Core
  <2>2. t.pc[q] = "held" => Counted(t, q)
    BY DEF Counted
  <2>3. Counted(t, q) => t.use[q] \in Buf
    BY <2>1, Types DEF TaskOK
  <2> QED BY <1>1, <2>1, <2>2, <2>3 DEF SameButCount, TaskOK, Allocated
<1>3. LockOK(u, T, l)
  BY <1>1 DEF Core, SameButCount, LockOK
<1>4. WaitOK(u, T) /\ BlocksOK(u)
  BY DEF Core, SameButCount, WaitOK, BlocksOK, Allocated
<1> QED BY <1>1, <1>2, <1>3, <1>4 DEF Core, FullIn, SameButCount

\* u differs from t in nothing the resting tasks look at.
SameCache(t, u, T) ==
  /\ u.blk = t.blk /\ u.count = t.count /\ u.vaild = t.vaild /\ u.waiter = t.waiter
  /\ u.locked = t.locked /\ u.lockq = t.lockq /\ u.nalloc = t.nalloc
  /\ u.free_list = t.free_list /\ u.wait_list = t.wait_list
  /\ \A q \in T : /\ u.pc[q] = t.pc[q] /\ u.op[q] = t.op[q] /\ u.want[q] = t.want[q]
                  /\ u.use[q] = t.use[q] /\ u.req[q] = t.req[q]

\* The same holders are counted.
LEMMA SameHolders ==
  ASSUME NEW t, NEW u, NEW T,
         \A q \in T : u.pc[q] = t.pc[q] /\ u.op[q] = t.op[q] /\ u.use[q] = t.use[q]
  PROVE  \A b : HoldersIn(u, T, b) = HoldersIn(t, T, b)
BY DEF HoldersIn, Counted

\* Such a change keeps the invariant.
LEMMA Agree ==
  ASSUME NEW T \in SUBSET Task, NEW h, NEW l, NEW t, Core(t, T, h, l),
         NEW u \in CacheState, SameCache(t, u, T)
  PROVE  Core(u, T, h, l) /\ (FullIn(t, T) => FullIn(u, T))
<1>1. SameButCount(t, u, T)
  BY DEF SameCache, SameButCount
<1>2. \A b : HoldersIn(u, T, b) = HoldersIn(t, T, b)
  BY SameHolders DEF SameCache
<1>3. u.count = t.count /\ CountOK(t, T, h)
  BY DEF Core, SameCache
<1>4. CountOK(u, T, h)
  BY <1>2, <1>3 DEF CountOK
<1> QED BY <1>1, <1>4, Recount

\* The buffer a task is counted in, and the one it has locked.
CountedIn(t, p) == IF Counted(t, p) THEN t.use[p] ELSE 0
LockedBy(t, p) == IF Locks(t, p) THEN t.use[p] ELSE 0

\* One task more among the holders.
LEMMA OneMore ==
  ASSUME NEW t, NEW p \in Task, NEW b
  PROVE  Cardinality(HoldersIn(t, Task, b)) =
           Cardinality(HoldersIn(t, Task \ {p}, b))
             + (IF t.use[p] = b /\ Counted(t, p) THEN 1 ELSE 0)
<1> DEFINE A == HoldersIn(t, Task, b)
           B == HoldersIn(t, Task \ {p}, b)
<1>1. IsFiniteSet(B)
  BY BufferAssumption, FS_Subset DEF HoldersIn
<1>2. CASE t.use[p] = b /\ Counted(t, p)
  <2>1. A = B \cup {p} /\ p \notin B
    BY <1>2 DEF HoldersIn
  <2> QED BY <1>1, <1>2, <2>1, FS_AddElement, ZenonT(40)
<1>3. CASE ~(t.use[p] = b /\ Counted(t, p))
  <2>1. A = B
    BY <1>3 DEF HoldersIn
  <2>2. Cardinality(B) \in Nat
    BY <1>1, FS_CardinalityType
  <2> QED BY <1>3, <2>1, <2>2
<1> QED BY <1>2, <1>3

\* A task that is on no queue comes to rest.
LEMMA Settle ==
  ASSUME NEW p \in Task, NEW t,
         Core(t, Task \ {p}, CountedIn(t, p), LockedBy(t, p)), TaskOK(t, p)
  PROVE  Core(t, Task, 0, 0)
<1> DEFINE T == Task \ {p}
<1>0. t \in CacheState /\ T \subseteq Task
  BY DEF Core
<1>1. LockOK(t, Task, 0)
  <2> SUFFICES ASSUME NEW b \in Buf
               PROVE  /\ Once(t.lockq[b])
                      /\ \A q \in Task : Has(t.lockq[b], q) => t.pc[q] = "mutex" /\ t.use[q] = b
                      /\ t.lockq[b] # <<>> => t.locked[b]
                      /\ t.locked[b] <=> b = 0 \/ \E q \in Task : t.use[q] = b /\ Locks(t, q)
                      /\ b # 0
                      /\ \A q, r \in Task : t.use[q] = b /\ Locks(t, q) /\ t.use[r] = b /\ Locks(t, r) => q = r
                      /\ t.waiter[b] # NoTask =>
                           t.waiter[b] \in Task /\ t.pc[t.waiter[b]] \in {"lock", "woken"} /\ t.use[t.waiter[b]] = b
    BY DEF LockOK
  <2>1. /\ Once(t.lockq[b])
        /\ \A q \in Task : Has(t.lockq[b], q) => q \in T /\ t.pc[q] = "mutex" /\ t.use[q] = b
        /\ t.lockq[b] # <<>> => t.locked[b]
        /\ t.locked[b] <=> b = LockedBy(t, p) \/ \E q \in T : t.use[q] = b /\ Locks(t, q)
        /\ b = LockedBy(t, p) => ~ \E q \in T : t.use[q] = b /\ Locks(t, q)
        /\ \A q, r \in T : t.use[q] = b /\ Locks(t, q) /\ t.use[r] = b /\ Locks(t, r) => q = r
        /\ t.waiter[b] # NoTask =>
             t.waiter[b] \in T /\ t.pc[t.waiter[b]] \in {"lock", "woken"} /\ t.use[t.waiter[b]] = b
    BY DEF Core, LockOK
  <2>2. b # 0
    BY <1>0, Types
  <2>3. b = LockedBy(t, p) <=> t.use[p] = b /\ Locks(t, p)
    BY <2>2 DEF LockedBy
  <2> QED BY <2>1, <2>2, <2>3
<1>2. WaitOK(t, Task)
  BY DEF Core, WaitOK
<1>3. CountOK(t, Task, 0)
  <2> SUFFICES ASSUME NEW b \in Buf
               PROVE  t.count[b] = Cardinality(HoldersIn(t, Task, b)) + 0
    BY <1>0, Types DEF CountOK
  <2>1. t.count[b] = Cardinality(HoldersIn(t, T, b)) + (IF b = CountedIn(t, p) THEN 1 ELSE 0)
    BY DEF Core, CountOK
  <2>2. b = CountedIn(t, p) <=> t.use[p] = b /\ Counted(t, p)
    BY <1>0, Types DEF CountedIn
  <2>3. t.count[b] \in Nat
    BY <1>0, Types
  <2>4. Cardinality(HoldersIn(t, Task, b)) =
          Cardinality(HoldersIn(t, T, b)) + (IF b = CountedIn(t, p) THEN 1 ELSE 0)
    BY <2>2, OneMore
  <2>5. t.count[b] = Cardinality(HoldersIn(t, Task, b))
    BY <2>1, <2>4
  <2> QED BY <2>3, <2>5
<1>4. \A q \in Task : TaskOK(t, q)
  BY DEF Core
<1> QED BY <1>0, <1>1, <1>2, <1>3, <1>4 DEF Core

\* A task that is on no queue goes on.
LEMMA Leave ==
  ASSUME NEW p \in Task, NEW t, Core(t, Task, 0, 0),
         t.pc[p] \notin {"full", "mutex", "lock", "woken"}
  PROVE  Core(t, Task \ {p}, CountedIn(t, p), LockedBy(t, p))
<1> DEFINE T == Task \ {p}
<1>0. t \in CacheState /\ TaskOK(t, p)
  BY DEF Core
<1>1. LockOK(t, T, LockedBy(t, p))
  <2> SUFFICES ASSUME NEW b \in Buf
               PROVE  /\ Once(t.lockq[b])
                      /\ \A q \in Task : Has(t.lockq[b], q) => q \in T /\ t.pc[q] = "mutex" /\ t.use[q] = b
                      /\ t.lockq[b] # <<>> => t.locked[b]
                      /\ t.locked[b] <=> b = LockedBy(t, p) \/ \E q \in T : t.use[q] = b /\ Locks(t, q)
                      /\ b = LockedBy(t, p) => ~ \E q \in T : t.use[q] = b /\ Locks(t, q)
                      /\ \A q, r \in T : t.use[q] = b /\ Locks(t, q) /\ t.use[r] = b /\ Locks(t, r) => q = r
                      /\ t.waiter[b] # NoTask =>
                           t.waiter[b] \in T /\ t.pc[t.waiter[b]] \in {"lock", "woken"} /\ t.use[t.waiter[b]] = b
    BY DEF LockOK
  <2>1. b # 0
    BY <1>0, Types
  <2>2. /\ Once(t.lockq[b])
        /\ \A q \in Task : Has(t.lockq[b], q) => t.pc[q] = "mutex" /\ t.use[q] = b
        /\ t.lockq[b] # <<>> => t.locked[b]
        /\ t.locked[b] <=> \E q \in Task : t.use[q] = b /\ Locks(t, q)
        /\ \A q, r \in Task : t.use[q] = b /\ Locks(t, q) /\ t.use[r] = b /\ Locks(t, r) => q = r
        /\ t.waiter[b] # NoTask =>
             t.waiter[b] \in Task /\ t.pc[t.waiter[b]] \in {"lock", "woken"} /\ t.use[t.waiter[b]] = b
    BY <2>1 DEF Core, LockOK
  <2>3. b = LockedBy(t, p) <=> t.use[p] = b /\ Locks(t, p)
    BY <2>1 DEF LockedBy
  <2> QED BY <2>2, <2>3
<1>2. WaitOK(t, T)
  BY DEF Core, WaitOK
<1>3. CountOK(t, T, CountedIn(t, p))
  <2> SUFFICES ASSUME NEW b \in Buf
               PROVE  t.count[b] = Cardinality(HoldersIn(t, T, b))
                                     + (IF b = CountedIn(t, p) THEN 1 ELSE 0)
    BY DEF CountOK
  <2>1. t.count[b] = Cardinality(HoldersIn(t, Task, b)) /\ b # 0
    <3>1. b # 0 /\ t.count[b] \in Nat /\ t.count[b] = Cardinality(HoldersIn(t, Task, b)) + (IF b = 0 THEN 1 ELSE 0)
      BY <1>0, Types DEF Core, CountOK
    <3>2. Cardinality(HoldersIn(t, Task, b)) \in Nat
      BY BufferAssumption, FS_Subset, FS_CardinalityType DEF HoldersIn
    <3> QED BY <3>1, <3>2
  <2>2. b = CountedIn(t, p) <=> t.use[p] = b /\ Counted(t, p)
    BY <2>1 DEF CountedIn
  <2>3. Cardinality(HoldersIn(t, Task, b)) =
          Cardinality(HoldersIn(t, T, b)) + (IF b = CountedIn(t, p) THEN 1 ELSE 0)
    BY <2>2, OneMore
  <2> QED BY <2>1, <2>3
<1> QED BY <1>0, <1>1, <1>2, <1>3 DEF Core

-----------------------------------------------------------------------------
(* The lock of a buffer *)

\* All that is not the lock or a program counter.
SameButLock(t, u) ==
  /\ u.blk = t.blk /\ u.count = t.count /\ u.dirty = t.dirty /\ u.vaild = t.vaild
  /\ u.waiter = t.waiter /\ u.data = t.data /\ u.disk = t.disk /\ u.nalloc = t.nalloc
  /\ u.free_list = t.free_list /\ u.wait_list = t.wait_list /\ u.do_request = t.do_request
  /\ u.op = t.op /\ u.want = t.want /\ u.use = t.use /\ u.req = t.req

\* buffer_unlock gives the lock to the oldest waiter or leaves it free, and wakes
\* the task that waits to reuse the buffer.
LEMMA Unlock ==
  ASSUME NEW p \in Task, NEW h, NEW t, NEW b \in Buf, Core(t, Task \ {p}, h, b)
  PROVE  LET u == buffer_unlock(t, b)
         IN /\ Core(u, Task \ {p}, h, 0) /\ (FullIn(t, Task \ {p}) => FullIn(u, Task \ {p}))
            /\ SameButLock(t, u) /\ u.pc[p] = t.pc[p]
<1> DEFINE T == Task \ {p}
           u == buffer_unlock(t, b)
           que == t.lockq[b]
           w == t.waiter[b]
           new == Last(que)
<1>0. /\ t \in CacheState /\ que \in Seq(Task) /\ t.pc \in [Task -> Pc]
      /\ t.locked \in [Buf -> BOOLEAN] /\ t.lockq \in [Buf -> Seq(Task)]
      /\ w \in Task \cup {NoTask} /\ b # 0 /\ NoTask \notin Task
  BY Types, BufferAssumption DEF Core
<1>1. /\ Once(que)
      /\ \A q \in Task : Has(que, q) => q \in T /\ t.pc[q] = "mutex" /\ t.use[q] = b
      /\ w # NoTask => w \in T /\ t.pc[w] \in {"lock", "woken"} /\ t.use[w] = b
      /\ t.locked[b]
      /\ \A q \in T : t.use[q] = b => ~Locks(t, q)
  BY DEF Core, LockOK
<1>2. que # <<>> => /\ new \in T /\ t.pc[new] = "mutex" /\ t.use[new] = b
                    /\ Front(que) \in Seq(Task) /\ Once(Front(que))
                    /\ \A q : Has(Front(que), q) <=> Has(que, q) /\ q # new
  BY <1>0, <1>1, FrontFacts
<1>3. que # <<>> /\ w # NoTask => w # new
  BY <1>1, <1>2
<1>4. /\ u \in CacheState /\ SameButLock(t, u)
      /\ u.locked = IF que = <<>> THEN [t.locked EXCEPT ![b] = FALSE] ELSE t.locked
      /\ u.lockq = IF que = <<>> THEN t.lockq ELSE [t.lockq EXCEPT ![b] = Front(que)]
      /\ \A q \in Task : u.pc[q] = IF q = w THEN "woken"
                                   ELSE IF que # <<>> /\ q = new THEN "owner" ELSE t.pc[q]
  <2> DEFINE t1 == IF que = <<>> THEN [t EXCEPT !.locked[b] = FALSE]
                   ELSE [t EXCEPT !.lockq[b] = Front(que), !.pc[new] = "owner"]
  <2>1. u = IF w = NoTask THEN t1 ELSE [t1 EXCEPT !.pc[w] = "woken"]
    BY DEF buffer_unlock, Goto
  <2>2. /\ t1 \in CacheState /\ SameButLock(t, t1)
        /\ t1.locked = IF que = <<>> THEN [t.locked EXCEPT ![b] = FALSE] ELSE t.locked
        /\ t1.lockq = IF que = <<>> THEN t.lockq ELSE [t.lockq EXCEPT ![b] = Front(que)]
        /\ t1.pc = IF que = <<>> THEN t.pc ELSE [t.pc EXCEPT ![new] = "owner"]
    <3>1. CASE que = <<>>
      BY <3>1, <1>0 DEF CacheState, SameButLock
    <3>2. CASE que # <<>>
      <4>1. t1 = [t EXCEPT !.lockq[b] = Front(que), !.pc[new] = "owner"]
        BY <3>2
      <4>2. new \in Task /\ Front(que) \in Seq(Task) /\ "owner" \in Pc
        BY <3>2, <1>2 DEF Pc
      <4> HIDE DEF new, que
      <4> QED BY <3>2, <4>1, <4>2, <1>0 DEF CacheState, SameButLock
    <3> QED BY <3>1, <3>2
  <2> HIDE DEF t1, u, new, que, w
  <2>3. /\ u \in CacheState /\ SameButLock(t1, u) /\ u.locked = t1.locked /\ u.lockq = t1.lockq
        /\ u.pc = IF w = NoTask THEN t1.pc ELSE [t1.pc EXCEPT ![w] = "woken"]
    <3>1. w # NoTask => w \in Task /\ "woken" \in Pc
      BY <1>1 DEF Pc
    <3>2. t1.pc \in [Task -> Pc]
      BY <2>2, Types
    <3> QED BY <2>1, <2>2, <3>1, <3>2 DEF CacheState, SameButLock
  <2>4. SameButLock(t, u)
    BY <2>2, <2>3 DEF SameButLock
  <2> QED BY <1>0, <1>2, <1>3, <2>2, <2>3, <2>4
<1> HIDE DEF u, new
<1>5. /\ \A q \in Task : Locks(u, q) <=> Locks(t, q) \/ (que # <<>> /\ q = new)
      /\ \A q \in Task : Counted(u, q) <=> Counted(t, q)
      /\ \A q \in Task : Busy(t, q) => Busy(u, q)
      /\ u.pc[p] = t.pc[p]
  <2>1. w # p /\ (que # <<>> => new # p)
    BY <1>0, <1>1, <1>2
  <2>2. ASSUME NEW q \in Task
        PROVE  /\ Locks(u, q) <=> Locks(t, q) \/ (que # <<>> /\ q = new)
               /\ Counted(u, q) <=> Counted(t, q)
               /\ Busy(t, q) => Busy(u, q)
    <3>1. CASE q = w
      BY <3>1, <1>0, <1>1, <1>3, <1>4 DEF Locks, Counted, Busy, SameButLock
    <3>2. CASE que # <<>> /\ q = new
      <4>1. u.pc[q] = "owner" /\ t.pc[q] = "mutex" /\ u.op = t.op
        BY <3>2, <1>0, <1>2, <1>3, <1>4 DEF SameButLock
      <4> QED BY <3>2, <4>1 DEF Locks, Counted, Busy
    <3>3. CASE q # w /\ ~(que # <<>> /\ q = new)
      BY <3>3, <1>4 DEF Locks, Counted, Busy, SameButLock
    <3> QED BY <3>1, <3>2, <3>3
  <2> QED BY <2>1, <2>2, <1>4
<1>6. ASSUME NEW q \in T PROVE TaskOK(u, q)
  <2>1. TaskOK(t, q)
    BY DEF Core
  <2>2. CASE q = w
    <3>1. u.pc[q] = "woken" /\ t.pc[q] \in {"lock", "woken"} /\ t.use[q] = b
      BY <2>2, <1>0, <1>1, <1>4
    <3> QED BY <2>1, <3>1, <1>4 DEF TaskOK, Counted, SameButLock, Allocated
  <2>3. CASE que # <<>> /\ q = new
    <3>1. u.pc[q] = "owner" /\ t.pc[q] = "mutex" /\ t.use[q] = b
      BY <2>3, <1>0, <1>2, <1>3, <1>4
    <3> QED BY <2>1, <3>1, <1>4 DEF TaskOK, Counted, SameButLock, Allocated
  <2>4. CASE q # w /\ ~(que # <<>> /\ q = new)
    <3>1. u.pc[q] = t.pc[q]
      BY <2>4, <1>4
    <3>2. t.pc[q] = "lock" => t.use[q] # b
      BY <2>1, <2>4 DEF TaskOK
    <3>3. t.pc[q] = "lock" => u.locked[t.use[q]]
      BY <2>1, <3>2, <1>0, <1>4, Types DEF TaskOK
    <3>4. t.pc[q] = "mutex" => Has(u.lockq[t.use[q]], q)
      <4> SUFFICES ASSUME t.pc[q] = "mutex" PROVE Has(u.lockq[t.use[q]], q)
        OBVIOUS
      <4>1. Has(t.lockq[t.use[q]], q) /\ t.use[q] \in Buf
        BY <2>1, <1>0, Types DEF TaskOK
      <4>2. CASE t.use[q] = b /\ que # <<>>
        <5>1. u.lockq[b] = Front(que) /\ Has(que, q) /\ q # new
          BY <4>1, <4>2, <2>4, <1>0, <1>4
        <5> QED BY <5>1, <4>2, <1>2
      <4>3. CASE ~(t.use[q] = b /\ que # <<>>)
        BY <4>1, <4>3, <1>0, <1>4
      <4> QED BY <4>2, <4>3
    <3> QED BY <2>1, <3>1, <3>3, <3>4, <1>4 DEF TaskOK, Counted, SameButLock, Allocated
  <2> QED BY <2>2, <2>3, <2>4
<1>7. LockOK(u, T, 0)
  <2> SUFFICES ASSUME NEW c \in Buf
               PROVE  /\ Once(u.lockq[c])
                      /\ \A q \in Task : Has(u.lockq[c], q) => q \in T /\ u.pc[q] = "mutex" /\ u.use[q] = c
                      /\ u.lockq[c] # <<>> => u.locked[c]
                      /\ u.locked[c] <=> c = 0 \/ \E q \in T : u.use[q] = c /\ Locks(u, q)
                      /\ c = 0 => ~ \E q \in T : u.use[q] = c /\ Locks(u, q)
                      /\ \A q, r \in T : u.use[q] = c /\ Locks(u, q) /\ u.use[r] = c /\ Locks(u, r) => q = r
                      /\ u.waiter[c] # NoTask =>
                           u.waiter[c] \in T /\ u.pc[u.waiter[c]] \in {"lock", "woken"} /\ u.use[u.waiter[c]] = c
    BY DEF LockOK
  <2>1. /\ Once(t.lockq[c])
        /\ \A q \in Task : Has(t.lockq[c], q) => q \in T /\ t.pc[q] = "mutex" /\ t.use[q] = c
        /\ t.lockq[c] # <<>> => t.locked[c]
        /\ t.locked[c] <=> c = b \/ \E q \in T : t.use[q] = c /\ Locks(t, q)
        /\ \A q, r \in T : t.use[q] = c /\ Locks(t, q) /\ t.use[r] = c /\ Locks(t, r) => q = r
        /\ t.waiter[c] # NoTask =>
             t.waiter[c] \in T /\ t.pc[t.waiter[c]] \in {"lock", "woken"} /\ t.use[t.waiter[c]] = c
    BY DEF Core, LockOK
  <2>2. c # 0 /\ u.use = t.use /\ u.waiter = t.waiter
    BY <1>0, <1>4, Types DEF SameButLock
  <2>3. u.waiter[c] # NoTask =>
          u.waiter[c] \in T /\ u.pc[u.waiter[c]] \in {"lock", "woken"} /\ u.use[u.waiter[c]] = c
    BY <2>1, <2>2, <1>2, <1>4
  <2>4. CASE c # b
    <3>1. u.lockq[c] = t.lockq[c] /\ u.locked[c] = t.locked[c]
      BY <2>4, <1>0, <1>4
    <3>2. \A q \in T : t.use[q] = c => (Locks(u, q) <=> Locks(t, q))
      BY <2>4, <1>2, <1>5
    <3>3. \A q \in Task : Has(t.lockq[c], q) => u.pc[q] = "mutex"
      BY <2>1, <2>4, <1>0, <1>1, <1>2, <1>4, SMTT(30)
    <3> QED BY <2>1, <2>2, <2>3, <2>4, <3>1, <3>2, <3>3
  <2>5. CASE c = b /\ que = <<>>
    <3>1. u.lockq[c] = <<>> /\ u.locked[c] = FALSE
      BY <2>5, <1>0, <1>4
    <3>2. \A q \in T : t.use[q] = c => ~Locks(u, q)
      BY <2>5, <1>1, <1>5
    <3>3. \A q \in Task : ~Has(u.lockq[c], q)
      BY <3>1, EmptyHas, EmptySeq
    <3>4. Once(u.lockq[c])
      BY <3>1 DEF Once
    <3> QED BY <2>2, <2>3, <3>1, <3>2, <3>3, <3>4
  <2>6. CASE c = b /\ que # <<>>
    <3>1. u.lockq[c] = Front(que) /\ u.locked[c] = TRUE
      BY <2>6, <1>0, <1>1, <1>4
    <3>2. \A q \in T : t.use[q] = c => (Locks(u, q) <=> q = new)
      BY <2>6, <1>1, <1>5
    <3>3. \A q \in Task : Has(Front(que), q) => u.pc[q] = "mutex" /\ q \in T /\ t.use[q] = b
      BY <2>6, <1>0, <1>1, <1>2, <1>4, SMTT(30)
    <3> QED BY <2>2, <2>3, <2>6, <3>1, <3>2, <3>3, <1>2
  <2> QED BY <2>4, <2>5, <2>6
<1>8. WaitOK(u, T)
  BY <1>0, <1>1, <1>2, <1>4, SMTT(30) DEF Core, WaitOK, SameButLock
<1>9. BlocksOK(u)
  BY <1>4 DEF Core, BlocksOK, SameButLock, Allocated
<1>10. CountOK(u, T, h)
  <2>1. \A c : HoldersIn(u, T, c) = HoldersIn(t, T, c)
    BY <1>4, <1>5 DEF HoldersIn, SameButLock
  <2>2. u.count = t.count /\ CountOK(t, T, h)
    BY <1>4 DEF Core, SameButLock
  <2> QED BY <2>1, <2>2 DEF CountOK
<1>11. FullIn(t, T) => FullIn(u, T)
  BY <1>4, <1>5 DEF FullIn, SameButLock
<1>12. Core(u, T, h, 0)
  BY <1>4, <1>6, <1>7, <1>8, <1>9, <1>10 DEF Core
<1> QED BY <1>4, <1>5, <1>11, <1>12 DEF u

\* Task p, counted in buffer h or in none, is about to lock the buffer it uses.
Asks(t, p, h) ==
  /\ t.use[p] \in Allocated(t) /\ t.op[p] # "none"
  /\ t.op[p] \in DevOp => t.req[p] \in Block
  /\ t.op[p] = "getblk" => t.want[p] \in Block
  /\ h = IF t.op[p] \in {"bread", "write"} THEN t.use[p] ELSE 0
  /\ h # 0 => t.blk[t.use[p]] = t.want[p]
  /\ t.op[p] = "write" => t.vaild[t.use[p]]

\* A task goes to sleep on the queue of a lock that is taken.
LEMMA WaitForLock ==
  ASSUME NEW p \in Task, NEW h, NEW t, Core(t, Task \ {p}, h, 0), Asks(t, p, h),
         t.locked[t.use[p]] \/ t.lockq[t.use[p]] # <<>>
  PROVE  Core([t EXCEPT !.lockq[t.use[p]] = <<p>> \o @, !.pc[p] = "mutex"], Task, 0, 0)
<1> DEFINE T == Task \ {p}
           b == t.use[p]
           que == <<p>> \o t.lockq[b]
           u == [t EXCEPT !.lockq[b] = que, !.pc[p] = "mutex"]
<1>0. /\ t \in CacheState /\ t.lockq \in [Buf -> Seq(Task)] /\ t.pc \in [Task -> Pc]
      /\ b \in Buf /\ b \in Allocated(t) /\ 0 \notin Buf /\ T \subseteq Task
  BY Types DEF Core, Asks
<1>1. /\ que \in Seq(Task) /\ que # <<>>
      /\ \A q : Has(que, q) <=> q = p \/ Has(t.lockq[b], q)
      /\ Once(que)
  <2>1. Once(t.lockq[b]) /\ ~Has(t.lockq[b], p) /\ t.lockq[b] \in Seq(Task)
    BY <1>0 DEF Core, LockOK
  <2> QED BY <2>1, ConsFacts
<1>2. t.locked[b]
  BY <1>0 DEF Core, LockOK
<1>3. /\ u \in CacheState /\ SameButLock(t, u) /\ u.locked = t.locked
      /\ u.lockq = [t.lockq EXCEPT ![b] = que] /\ u.pc = [t.pc EXCEPT ![p] = "mutex"]
  <2>1. "mutex" \in Pc
    BY DEF Pc
  <2> HIDE DEF que, b
  <2> QED BY <1>0, <1>1, <2>1 DEF CacheState, SameButLock
<1> HIDE DEF u, que
<1>4. u.pc[p] = "mutex" /\ \A q \in T : u.pc[q] = t.pc[q]
  BY <1>0, <1>3
<1>5. /\ \A q \in T : Locks(u, q) <=> Locks(t, q)
      /\ \A q \in T : Counted(u, q) <=> Counted(t, q)
      /\ ~Locks(u, p) /\ (Counted(u, p) <=> t.op[p] \in {"bread", "write"})
  BY <1>3, <1>4 DEF Locks, Counted, SameButLock
<1>6. \A c \in Buf : \A q : Has(t.lockq[c], q) => Has(u.lockq[c], q)
  BY <1>0, <1>1, <1>3
<1>7. ASSUME NEW q \in Task PROVE TaskOK(u, q)
  <2>1. CASE q = p
    <3>1. Has(u.lockq[b], p) /\ u.use[p] = b
      BY <1>0, <1>1, <1>3 DEF SameButLock
    <3>2. Counted(u, p) => t.op[p] \in {"bread", "write"} /\ b # 0
      BY <1>0, <1>5
    <3> QED BY <2>1, <3>1, <3>2, <1>0, <1>3, <1>4 DEF TaskOK, Asks, SameButLock, Allocated
  <2>2. CASE q # p
    <3>1. TaskOK(t, q) /\ q \in T
      BY <2>2 DEF Core
    <3>2. t.pc[q] = "mutex" => Has(u.lockq[t.use[q]], q)
      BY <3>1, <1>0, <1>6, Types DEF TaskOK
    <3> QED BY <3>1, <3>2, <1>3, <1>4, <1>5 DEF TaskOK, SameButLock, Allocated
  <2> QED BY <2>1, <2>2
<1>8. LockOK(u, Task, 0)
  <2> SUFFICES ASSUME NEW c \in Buf
               PROVE  /\ Once(u.lockq[c])
                      /\ \A q \in Task : Has(u.lockq[c], q) => u.pc[q] = "mutex" /\ u.use[q] = c
                      /\ u.lockq[c] # <<>> => u.locked[c]
                      /\ u.locked[c] <=> \E q \in Task : u.use[q] = c /\ Locks(u, q)
                      /\ \A q, r \in Task : u.use[q] = c /\ Locks(u, q) /\ u.use[r] = c /\ Locks(u, r) => q = r
                      /\ u.waiter[c] # NoTask =>
                           u.waiter[c] \in Task /\ u.pc[u.waiter[c]] \in {"lock", "woken"} /\ u.use[u.waiter[c]] = c
    BY <1>0 DEF LockOK
  <2>1. /\ Once(t.lockq[c])
        /\ \A q \in Task : Has(t.lockq[c], q) => q \in T /\ t.pc[q] = "mutex" /\ t.use[q] = c
        /\ t.lockq[c] # <<>> => t.locked[c]
        /\ t.locked[c] <=> \E q \in T : t.use[q] = c /\ Locks(t, q)
        /\ \A q, r \in T : t.use[q] = c /\ Locks(t, q) /\ t.use[r] = c /\ Locks(t, r) => q = r
        /\ t.waiter[c] # NoTask =>
             t.waiter[c] \in T /\ t.pc[t.waiter[c]] \in {"lock", "woken"} /\ t.use[t.waiter[c]] = c
    BY <1>0 DEF Core, LockOK
  <2>2. u.use = t.use /\ u.waiter = t.waiter /\ u.locked = t.locked
    BY <1>3 DEF SameButLock
  <2>3. /\ Once(u.lockq[c])
        /\ \A q \in Task : Has(u.lockq[c], q) => u.pc[q] = "mutex" /\ t.use[q] = c
        /\ u.lockq[c] # <<>> => t.locked[c]
    <3>1. CASE c = b
      BY <3>1, <2>1, <1>0, <1>1, <1>2, <1>3, <1>4
    <3>2. CASE c # b
      BY <3>2, <2>1, <1>0, <1>3, <1>4
    <3> QED BY <3>1, <3>2
  <2> QED BY <2>1, <2>2, <2>3, <1>4, <1>5
<1>9. WaitOK(u, Task)
  BY <1>3, <1>4 DEF Core, WaitOK, SameButLock
<1>10. BlocksOK(u)
  BY <1>3 DEF Core, BlocksOK, SameButLock, Allocated
<1>11. CountOK(u, Task, 0)
  <2> SUFFICES ASSUME NEW c \in Buf
               PROVE  u.count[c] = Cardinality(HoldersIn(u, Task, c)) + (IF c = 0 THEN 1 ELSE 0)
    BY DEF CountOK
  <2>1. HoldersIn(u, T, c) = HoldersIn(t, T, c)
    BY <1>3, <1>5 DEF HoldersIn, SameButLock
  <2>2. t.count[c] = Cardinality(HoldersIn(t, T, c)) + (IF c = h THEN 1 ELSE 0)
    BY DEF Core, CountOK
  <2>3. c = h <=> u.use[p] = c /\ Counted(u, p)
    BY <1>0, <1>3, <1>5 DEF Asks, SameButLock
  <2>4. u.count[c] = t.count[c] /\ c # 0 /\ u.count[c] \in Nat
    BY <1>0, <1>3, Types DEF SameButLock
  <2>5. Cardinality(HoldersIn(u, Task, c)) =
          Cardinality(HoldersIn(u, T, c)) + (IF u.use[p] = c /\ Counted(u, p) THEN 1 ELSE 0)
    BY OneMore
  <2>6. u.count[c] = Cardinality(HoldersIn(u, Task, c))
    BY <2>1, <2>2, <2>3, <2>4, <2>5
  <2> QED BY <2>4, <2>6
<1>12. Core(u, Task, 0, 0)
  BY <1>3, <1>7, <1>8, <1>9, <1>10, <1>11 DEF Core
<1> QED BY <1>12 DEF u, que

\* A task that sleeps nowhere but was busy, or leaves a busy one, keeps FullOK.
LEMMA FullKept ==
  ASSUME NEW p \in Task, NEW t, NEW u, FullIn(t, Task \ {p}) \/ Busy(u, p),
         u.wait_list = t.wait_list, \A q \in Task \ {p} : Busy(t, q) => Busy(u, q)
  PROVE  FullOK(u)
BY DEF FullIn, FullOK

\* Buffer b gets locked by the task that does not rest.
TakesLock(t, u, T, b) ==
  /\ u.blk = t.blk /\ u.count = t.count /\ u.vaild = t.vaild /\ u.waiter = t.waiter
  /\ u.locked = [t.locked EXCEPT ![b] = TRUE] /\ u.lockq = t.lockq /\ u.nalloc = t.nalloc
  /\ u.free_list = t.free_list /\ u.wait_list = t.wait_list
  /\ \A q \in T : /\ u.pc[q] = t.pc[q] /\ u.op[q] = t.op[q] /\ u.want[q] = t.want[q]
                  /\ u.use[q] = t.use[q] /\ u.req[q] = t.req[q]

\* mutex_lock on a free lock.
LEMMA TakeLock ==
  ASSUME NEW T \in SUBSET Task, NEW h, NEW t, Core(t, T, h, 0), NEW b \in Buf,
         ~t.locked[b], t.lockq[b] = <<>>, NEW u \in CacheState, TakesLock(t, u, T, b)
  PROVE  Core(u, T, h, b)
<1>0. t \in CacheState /\ t.locked \in [Buf -> BOOLEAN] /\ 0 \notin Buf
  BY Types DEF Core
<1>1. u.locked[b] /\ \A c \in Buf \ {b} : u.locked[c] = t.locked[c]
  BY <1>0 DEF TakesLock
<1>2. /\ \A q \in T : Locks(u, q) <=> Locks(t, q)
      /\ \A q \in T : Counted(u, q) <=> Counted(t, q)
  BY DEF Locks, Counted, TakesLock
<1>3. ASSUME NEW q \in T PROVE TaskOK(u, q)
  <2>1. TaskOK(t, q)
    BY DEF Core
  <2>2. t.pc[q] = "lock" => u.locked[t.use[q]]
    BY <2>1, <1>0, <1>1, Types DEF TaskOK
  <2> QED BY <2>1, <2>2, <1>2 DEF TaskOK, TakesLock, Allocated
<1>4. LockOK(u, T, b)
  <2>1. u.waiter = t.waiter /\ u.lockq = t.lockq /\ \A q \in T : u.use[q] = t.use[q] /\ u.pc[q] = t.pc[q]
    BY DEF TakesLock
  <2>2. \A q \in T : t.use[q] = b => ~Locks(t, q)
    BY <1>0 DEF Core, LockOK
  <2> SUFFICES ASSUME NEW c \in Buf
               PROVE  /\ Once(u.lockq[c])
                      /\ \A q \in Task : Has(u.lockq[c], q) => q \in T /\ u.pc[q] = "mutex" /\ u.use[q] = c
                      /\ u.lockq[c] # <<>> => u.locked[c]
                      /\ u.locked[c] <=> c = b \/ \E q \in T : u.use[q] = c /\ Locks(u, q)
                      /\ c = b => ~ \E q \in T : u.use[q] = c /\ Locks(u, q)
                      /\ \A q, r \in T : u.use[q] = c /\ Locks(u, q) /\ u.use[r] = c /\ Locks(u, r) => q = r
                      /\ u.waiter[c] # NoTask =>
                           u.waiter[c] \in T /\ u.pc[u.waiter[c]] \in {"lock", "woken"} /\ u.use[u.waiter[c]] = c
    BY DEF LockOK
  <2>3. /\ Once(t.lockq[c])
        /\ \A q \in Task : Has(t.lockq[c], q) => q \in T /\ t.pc[q] = "mutex" /\ t.use[q] = c
        /\ t.lockq[c] # <<>> => t.locked[c]
        /\ t.locked[c] <=> c = 0 \/ \E q \in T : t.use[q] = c /\ Locks(t, q)
        /\ \A q, r \in T : t.use[q] = c /\ Locks(t, q) /\ t.use[r] = c /\ Locks(t, r) => q = r
        /\ t.waiter[c] # NoTask =>
             t.waiter[c] \in T /\ t.pc[t.waiter[c]] \in {"lock", "woken"} /\ t.use[t.waiter[c]] = c
    BY DEF Core, LockOK
  <2>4. u.locked[c] <=> c = b \/ \E q \in T : u.use[q] = c /\ Locks(u, q)
    BY <2>1, <2>3, <1>0, <1>1, <1>2
  <2> QED BY <2>1, <2>2, <2>3, <2>4, <1>1, <1>2
<1>5. WaitOK(u, T) /\ BlocksOK(u)
  BY DEF Core, WaitOK, BlocksOK, TakesLock, Allocated
<1>6. CountOK(u, T, h)
  <2>1. \A c : HoldersIn(u, T, c) = HoldersIn(t, T, c)
    BY SameHolders DEF TakesLock
  <2>2. u.count = t.count /\ CountOK(t, T, h)
    BY DEF Core, TakesLock
  <2> QED BY <2>1, <2>2 DEF CountOK
<1> QED BY <1>3, <1>4, <1>5, <1>6 DEF Core

\* device_request, from the point where it may wait for the device.
LEMMA TurnKeeps ==
  ASSUME NEW p \in Task, NEW h, NEW t, Core(t, Task \ {p}, h, 0), Asks(t, p, h),
         t.op[p] \in DevOp, t.op[p] = "sync" => FullIn(t, Task \ {p})
  PROVE  Inv(Turn(t, p))
<1> DEFINE T == Task \ {p}
           b == t.use[p]
           t1 == [t EXCEPT !.do_request = TRUE]
           u == Turn(t, p)
<1>0. t \in CacheState /\ b \in Buf /\ b \in Allocated(t) /\ 0 \notin Buf /\ t.pc \in [Task -> Pc]
  BY Types DEF Core, Asks
<1>1. CASE t.do_request
  <2>1. u = [t EXCEPT !.pc[p] = "queued"]
    BY <1>1 DEF Turn, Goto
  <2>2. "queued" \in Pc
    BY DEF Pc
  <2> HIDE DEF u
  <2>3. /\ u \in CacheState /\ SameButLock(t, u) /\ u.locked = t.locked /\ u.lockq = t.lockq
        /\ u.pc = [t.pc EXCEPT ![p] = "queued"]
    BY <1>0, <2>1, <2>2 DEF CacheState, SameButLock
  <2>4. u.pc[p] = "queued" /\ \A q \in T : u.pc[q] = t.pc[q]
    BY <1>0, <2>3
  <2>5. SameCache(t, u, T)
    BY <2>3, <2>4 DEF SameCache, SameButLock
  <2>6. Core(u, T, h, 0) /\ T \in SUBSET Task
    BY <1>0, <2>3, <2>5, Agree
  <2>7. CountedIn(u, p) = h /\ LockedBy(u, p) = 0 /\ TaskOK(u, p)
    <3>1. ~Locks(u, p) /\ (Counted(u, p) <=> t.op[p] \in {"bread", "write"})
      BY <2>3, <2>4 DEF Locks, Counted, SameButLock
    <3>2. CountedIn(u, p) = h /\ LockedBy(u, p) = 0
      BY <3>1, <2>3 DEF CountedIn, LockedBy, Asks, SameButLock
    <3> QED BY <3>1, <3>2, <1>0, <2>3, <2>4 DEF TaskOK, Asks, SameButLock, Allocated, DevOp
  <2>8. Core(u, Task, 0, 0)
    BY <2>6, <2>7, Settle
  <2>9. FullIn(t, T) \/ Busy(u, p)
    BY <2>3, <2>4 DEF Busy, SameButLock
  <2>10. \A q \in T : Busy(t, q) => Busy(u, q)
    BY <2>3, <2>4 DEF Busy, SameButLock
  <2>11. FullOK(u)
    BY <2>3, <2>9, <2>10, FullKept DEF SameButLock
  <2> QED BY <2>8, <2>11 DEF Inv, u
<1>2. CASE ~t.do_request
  <2>1. u = buffer_lock(t1, p, b, "io")
    BY <1>2 DEF Turn
  <2>2. /\ t1 \in CacheState /\ SameCache(t, t1, Task) /\ t1.pc = t.pc /\ t1.op = t.op
        /\ t1.use = t.use /\ t1.req = t.req /\ t1.want = t.want
    BY <1>0 DEF CacheState, SameCache
  <2> HIDE DEF t1, u
  <2>3. Core(t1, T, h, 0) /\ Asks(t1, p, h) /\ T \in SUBSET Task
    <3>1. SameCache(t, t1, T)
      BY <2>2 DEF SameCache
    <3> QED BY <2>2, <3>1, Agree DEF Asks, SameCache, Allocated
  <2>4. CASE ~t1.locked[b] /\ t1.lockq[b] = <<>>
    <3>1. u = [t1 EXCEPT !.locked[b] = TRUE, !.pc[p] = "io"]
      BY <2>1, <2>4 DEF buffer_lock
    <3>2. "io" \in Pc /\ t1.locked \in [Buf -> BOOLEAN]
      BY <2>2, Types DEF Pc
    <3>3. /\ u \in CacheState /\ SameButLock(t1, u) /\ u.lockq = t1.lockq
          /\ u.locked = [t1.locked EXCEPT ![b] = TRUE] /\ u.pc = [t1.pc EXCEPT ![p] = "io"]
      BY <1>0, <2>2, <3>1, <3>2 DEF CacheState, SameButLock
    <3>4. u.pc[p] = "io" /\ (\A q \in T : u.pc[q] = t1.pc[q]) /\ u.locked[b]
      BY <1>0, <2>2, <3>2, <3>3
    <3>5. /\ \A q \in T : Locks(u, q) <=> Locks(t1, q)
          /\ \A q \in T : Counted(u, q) <=> Counted(t1, q)
          /\ \A q \in T : Busy(u, q) <=> Busy(t1, q)
          /\ Locks(u, p) /\ (Counted(u, p) <=> t1.op[p] \in {"bread", "write"})
      BY <3>3, <3>4 DEF Locks, Counted, Busy, SameButLock
    <3>6. \A c \in Buf : t1.locked[c] => u.locked[c]
      BY <3>2, <3>3
    <3>7. Core(u, T, h, b)
      <4>1. TakesLock(t1, u, T, b)
        BY <3>3, <3>4 DEF TakesLock, SameButLock
      <4> QED BY <1>0, <2>3, <2>4, <3>3, <4>1, TakeLock
    <3>8. CountedIn(u, p) = h /\ LockedBy(u, p) = b /\ TaskOK(u, p)
      <4>1. CountedIn(u, p) = h /\ LockedBy(u, p) = b
        BY <2>2, <2>3, <3>3, <3>5 DEF CountedIn, LockedBy, Asks, SameButLock
      <4> QED BY <4>1, <1>0, <2>2, <2>3, <3>3, <3>4, <3>5
          DEF TaskOK, Asks, SameButLock, SameCache, Allocated, DevOp
    <3>9. Core(u, Task, 0, 0)
      BY <3>7, <3>8, Settle
    <3>10. FullIn(t, T) \/ Busy(u, p)
      BY <2>2, <3>3, <3>4 DEF Busy, SameButLock
    <3>11. \A q \in T : Busy(t, q) => Busy(u, q)
      BY <2>2, <3>5 DEF Busy, SameCache
    <3>12. u.wait_list = t.wait_list
      BY <2>2, <3>3 DEF SameButLock, SameCache
    <3>13. FullOK(u)
      BY <3>10, <3>11, <3>12, FullKept
    <3> QED BY <3>9, <3>13 DEF Inv, u
  <2>5. CASE t1.locked[b] \/ t1.lockq[b] # <<>>
    <3>1. u = [t1 EXCEPT !.lockq[b] = <<p>> \o @, !.pc[p] = "mutex"] /\ t1.use[p] = b
      BY <2>1, <2>2, <2>5, SMTT(30) DEF buffer_lock
    <3>2. Core(u, Task, 0, 0)
      BY <2>3, <2>5, <3>1, WaitForLock
    <3>3. u.pc = [t.pc EXCEPT ![p] = "mutex"] /\ u.op = t.op /\ u.wait_list = t.wait_list
      BY <2>2, <3>1 DEF SameCache, CacheState
    <3>4. u.pc[p] = "mutex" /\ \A q \in T : u.pc[q] = t.pc[q]
      BY <1>0, <3>3
    <3>5. FullIn(t, T) \/ Busy(u, p)
      BY <3>3, <3>4 DEF Busy
    <3>6. \A q \in T : Busy(t, q) => Busy(u, q)
      BY <3>3, <3>4 DEF Busy
    <3>7. FullOK(u)
      BY <3>3, <3>5, <3>6, FullKept
    <3> QED BY <3>2, <3>7 DEF Inv, u
  <2> QED BY <2>4, <2>5
<1> QED BY <1>1, <1>2

\* device_request for buffer b: only bread counts the caller in it.
LEMMA Request ==
  ASSUME NEW p \in Task, NEW t, NEW b \in Allocated(t), NEW op \in DevOp, NEW h,
         Core(t, Task \ {p}, h, 0), h = IF op = "bread" THEN b ELSE 0,
         op = "bread" => t.blk[b] = t.want[p], op = "getblk" => t.want[p] \in Block,
         op = "sync" => FullIn(t, Task \ {p})
  PROVE  Inv(device_request(t, p, b, op))
<1> DEFINE T == Task \ {p}
           u == [t EXCEPT !.op[p] = op, !.use[p] = b, !.req[p] = t.blk[b]]
<1>0. /\ t \in CacheState /\ b \in Buf /\ t.blk[b] \in Block /\ T \in SUBSET Task
      /\ t.op \in [Task -> DevOp \cup {"write", "none"}] /\ t.use \in [Task -> Buf \cup {0}]
      /\ t.req \in [Task -> Block \cup {NoBlock}] /\ 0 \notin Buf
  BY Types DEF Core, BlocksOK
<1>1. device_request(t, p, b, op) = Turn(u, p)
  BY DEF device_request
<1>2. /\ u \in CacheState /\ u.op = [t.op EXCEPT ![p] = op]
      /\ u.use = [t.use EXCEPT ![p] = b] /\ u.req = [t.req EXCEPT ![p] = t.blk[b]]
      /\ u.pc = t.pc /\ u.want = t.want /\ u.blk = t.blk /\ u.count = t.count
      /\ u.vaild = t.vaild /\ u.waiter = t.waiter /\ u.locked = t.locked
      /\ u.lockq = t.lockq /\ u.nalloc = t.nalloc
      /\ u.free_list = t.free_list /\ u.wait_list = t.wait_list
  BY <1>0 DEF CacheState
<1> HIDE DEF u
<1>3. /\ u.op[p] = op /\ u.use[p] = b /\ u.req[p] = t.blk[b]
      /\ \A q \in T : u.op[q] = t.op[q] /\ u.use[q] = t.use[q] /\ u.req[q] = t.req[q]
  BY <1>0, <1>2
<1>4. SameCache(t, u, T)
  BY <1>2, <1>3 DEF SameCache
<1>5. Core(u, T, h, 0) /\ (FullIn(t, T) => FullIn(u, T))
  BY <1>0, <1>2, <1>4, Agree
<1>6. Asks(u, p, h)
  BY <1>0, <1>2, <1>3 DEF Asks, DevOp, Allocated
<1>7. Inv(Turn(u, p))
  BY <1>3, <1>5, <1>6, TurnKeeps
<1> QED BY <1>1, <1>7

\* What Return sets.
LEMMA ReturnFields ==
  ASSUME NEW p \in Task, NEW t \in CacheState, NEW b \in Buf \cup {0}
  PROVE  LET u == Return(t, p, b)
         IN /\ u \in CacheState /\ SameCache(t, u, Task \ {p})
            /\ b = 0 => u.pc[p] = "run"
            /\ b # 0 => u.pc[p] = "held" /\ u.want[p] = t.want[p]
            /\ u.op[p] = "none" /\ u.use[p] = b /\ u.dirty = t.dirty
<1> DEFINE u == Return(t, p, b)
           st == IF b = 0 THEN "run" ELSE "held"
           wn == IF b = 0 THEN NoBlock ELSE t.want[p]
<1>1. st \in Pc /\ wn \in Block \cup {NoBlock} /\ "none" \in DevOp \cup {"write", "none"}
  BY Types DEF Pc
<1>2. u = [t EXCEPT !.pc[p] = st, !.use[p] = b, !.want[p] = wn, !.op[p] = "none",
                    !.req[p] = NoBlock]
  <2>1. u = [t EXCEPT !.pc[p] = st, !.use[p] = b, !.want[p] = IF b = 0 THEN NoBlock ELSE @,
                      !.op[p] = "none", !.req[p] = NoBlock]
    BY DEF Return
  <2> QED BY <2>1
<1> HIDE DEF u, st, wn
<1>3. /\ u \in CacheState /\ u.pc = [t.pc EXCEPT ![p] = st]
      /\ u.use = [t.use EXCEPT ![p] = b] /\ u.want = [t.want EXCEPT ![p] = wn]
      /\ u.op = [t.op EXCEPT ![p] = "none"] /\ u.req = [t.req EXCEPT ![p] = NoBlock]
      /\ u.blk = t.blk /\ u.count = t.count /\ u.dirty = t.dirty
      /\ u.vaild = t.vaild /\ u.waiter = t.waiter /\ u.locked = t.locked
      /\ u.lockq = t.lockq /\ u.nalloc = t.nalloc
      /\ u.free_list = t.free_list /\ u.wait_list = t.wait_list
  BY <1>1, <1>2 DEF CacheState
<1>4. /\ u.pc[p] = st /\ u.op[p] = "none" /\ u.use[p] = b /\ u.want[p] = wn
      /\ \A q \in Task \ {p} :
           /\ u.pc[q] = t.pc[q] /\ u.op[q] = t.op[q] /\ u.want[q] = t.want[q]
           /\ u.use[q] = t.use[q] /\ u.req[q] = t.req[q]
  BY <1>3, Types
<1>5. SameCache(t, u, Task \ {p})
  BY <1>3, <1>4 DEF SameCache
<1> QED BY <1>3, <1>4, <1>5 DEF u, st, wn

\* bread returns to its caller with a buffer.
LEMMA ReturnHeld ==
  ASSUME NEW p \in Task, NEW t, NEW b \in Allocated(t), Core(t, Task \ {p}, b, 0),
         t.blk[b] = t.want[p], t.vaild[b]
  PROVE  Inv(Return(t, p, b))
<1> DEFINE T == Task \ {p}
           u == Return(t, p, b)
<1>0. t \in CacheState /\ b \in Buf \cup {0} /\ b # 0 /\ T \in SUBSET Task
  BY Types DEF Core
<1>1. /\ u \in CacheState /\ SameCache(t, u, T)
      /\ u.pc[p] = "held" /\ u.op[p] = "none" /\ u.use[p] = b /\ u.want[p] = t.want[p]
  BY <1>0, ReturnFields, SMTT(30)
<1> HIDE DEF u
<1>2. Core(u, T, b, 0)
  BY <1>0, <1>1, Agree
<1>3. CountedIn(u, p) = b /\ LockedBy(u, p) = 0
  BY <1>1 DEF CountedIn, LockedBy, Counted, Locks
<1>4. TaskOK(u, p)
  BY <1>1 DEF TaskOK, SameCache, Allocated, Counted
<1>5. FullOK(u)
  BY <1>1 DEF FullOK, Busy
<1> QED BY <1>2, <1>3, <1>4, <1>5, Settle DEF Inv, u

\* A system call returns, and the task holds nothing.
LEMMA ReturnFree ==
  ASSUME NEW p \in Task, NEW t, Core(t, Task \ {p}, 0, 0)
  PROVE  LET u == Return(t, p, 0)
         IN /\ Core(u, Task, 0, 0) /\ u.wait_list = t.wait_list
            /\ FullIn(t, Task \ {p}) => FullOK(u)
<1> DEFINE T == Task \ {p}
           u == Return(t, p, 0)
<1>0. t \in CacheState /\ T \in SUBSET Task /\ 0 \in Buf \cup {0}
  BY DEF Core
<1>1. u \in CacheState /\ SameCache(t, u, T) /\ u.pc[p] = "run"
  BY <1>0, ReturnFields
<1> HIDE DEF u
<1>2. Core(u, T, 0, 0) /\ (FullIn(t, T) => FullIn(u, T))
  BY <1>0, <1>1, Agree
<1>3. CountedIn(u, p) = 0 /\ LockedBy(u, p) = 0 /\ TaskOK(u, p)
  BY <1>1 DEF CountedIn, LockedBy, Counted, Locks, TaskOK
<1>4. FullIn(u, T) => FullOK(u)
  BY DEF FullOK, FullIn
<1>5. Core(u, Task, 0, 0)
  BY <1>2, <1>3, Settle
<1> QED BY <1>1, <1>2, <1>4, <1>5 DEF SameCache, u

\* bread goes on with the buffer getblk has found for it.
LEMMA GotKeeps ==
  ASSUME NEW p \in Task, NEW t, NEW b \in Allocated(t), Core(t, Task \ {p}, b, 0),
         t.blk[b] = t.want[p]
  PROVE  Inv(Got(t, p, b))
<1>1. CASE t.vaild[b]
  BY <1>1, ReturnHeld DEF Got
<1>2. CASE ~t.vaild[b]
  <2>1. Inv(device_request(t, p, b, "bread"))
    <3>1. "bread" \in DevOp /\ b = (IF "bread" = "bread" THEN b ELSE 0)
      BY DEF DevOp
    <3> QED BY <3>1, Request
  <2> QED BY <1>2, <2>1 DEF Got
<1> QED BY <1>1, <1>2

-----------------------------------------------------------------------------
(* fs/buffer.c *)

\* A buffer nobody is counted in has no holders, and conversely.
LEMMA NoHolders ==
  ASSUME NEW p \in Task, NEW t, Core(t, Task \ {p}, 0, 0), NEW b \in Buf
  PROVE  t.count[b] = 0 <=> HoldersIn(t, Task \ {p}, b) = {}
<1> DEFINE H == HoldersIn(t, Task \ {p}, b)
<1>1. IsFiniteSet(H)
  BY BufferAssumption, FS_Subset DEF HoldersIn
<1>2. t.count[b] \in Nat /\ b # 0 /\ t.count[b] = Cardinality(H) + (IF b = 0 THEN 1 ELSE 0)
  BY Types DEF Core, CountOK
<1>3. Cardinality(H) \in Nat
  BY <1>1, FS_CardinalityType
<1>4. t.count[b] = Cardinality(H)
  BY <1>2, <1>3
<1> QED BY <1>1, <1>4, FS_EmptySet

\* In u buffer b belongs to the block p asks for, and p is counted in it.
GivenTo(t, u, p, b) ==
  /\ \/ b \in Allocated(t) /\ u.nalloc = t.nalloc
     \/ b = t.nalloc + 1 /\ u.nalloc = t.nalloc + 1
  /\ u.free_list = Append(RemoveFirst(t.free_list, b), b)
  /\ u.count = [t.count EXCEPT ![b] = 1] /\ u.vaild = [t.vaild EXCEPT ![b] = FALSE]
  /\ u.blk = [t.blk EXCEPT ![b] = t.want[p]]
  /\ u.waiter = t.waiter /\ u.locked = t.locked /\ u.lockq = t.lockq
  /\ u.wait_list = t.wait_list /\ u.pc = t.pc /\ u.op = t.op /\ u.want = t.want
  /\ u.use = t.use /\ u.req = t.req

\* A buffer without holders is given to the block p asks for, which has none.
LEMMA NewBuffer ==
  ASSUME NEW p \in Task, NEW t, Core(t, Task \ {p}, 0, 0), NEW b \in Buf, NEW u \in CacheState,
         t.count[b] = 0, t.want[p] \in Block, InCache(t, t.want[p]) = {}, GivenTo(t, u, p, b)
  PROVE  Core(u, Task \ {p}, b, 0) /\ b \in Allocated(u) /\ u.blk[b] = u.want[p]
<1> DEFINE T == Task \ {p}
<1> USE DEF GivenTo
<1>0. /\ t \in CacheState /\ b # 0 /\ t.nalloc \in 0 .. NBuf /\ t.free_list \in Seq(Buf)
      /\ t.count \in [Buf -> Nat] /\ t.vaild \in [Buf -> BOOLEAN]
      /\ t.blk \in [Buf -> Block \cup {NoBlock}]
  BY Types, SMTT(30) DEF Core
<1>1. Allocated(u) = Allocated(t) \cup {b} /\ Allocated(u) \subseteq Buf
  <2>1. t.nalloc \in Nat /\ u.nalloc \in 0 .. NBuf /\ NBuf \in Nat /\ b \in 1 .. NBuf
    BY <1>0, Types, BufferAssumption DEF Buf
  <2>2. CASE b \in Allocated(t) /\ u.nalloc = t.nalloc
    BY <2>1, <2>2 DEF Allocated, Buf
  <2>3. CASE b = t.nalloc + 1 /\ u.nalloc = t.nalloc + 1
    <3>1. 1 .. t.nalloc + 1 = (1 .. t.nalloc) \cup {t.nalloc + 1}
      BY <2>1
    <3> QED BY <2>1, <2>3, <3>1 DEF Allocated, Buf
  <2> QED BY <2>2, <2>3
<1>2. \A q \in T : Counted(t, q) => t.use[q] # b
  BY NoHolders DEF HoldersIn
<1>3. /\ \A c \in Buf \ {b} : u.blk[c] = t.blk[c] /\ u.vaild[c] = t.vaild[c] /\ u.count[c] = t.count[c]
      /\ u.blk[b] = t.want[p] /\ u.count[b] = 1
  BY <1>0
<1>4. \A q \in T : /\ Counted(u, q) <=> Counted(t, q)
                   /\ Locks(u, q) <=> Locks(t, q)
  BY DEF Counted, Locks
<1>5. ASSUME NEW q \in T PROVE TaskOK(u, q)
  <2>1. TaskOK(t, q)
    BY DEF Core
  <2>2. Counted(t, q) => /\ t.use[q] \in Allocated(u) /\ u.blk[t.use[q]] = t.want[q]
                         /\ u.vaild[t.use[q]] = t.vaild[t.use[q]]
    BY <2>1, <1>1, <1>2, <1>3 DEF TaskOK
  <2>3. t.pc[q] = "held" => Counted(t, q)
    BY DEF Counted
  <2> QED BY <2>1, <2>2, <2>3, <1>1, <1>4, ZenonT(40) DEF TaskOK
<1>6. LockOK(u, T, 0)
  BY <1>4 DEF Core, LockOK
<1>7. WaitOK(u, T)
  BY DEF Core, WaitOK
<1>8. BlocksOK(u)
  <2>1. \A c : Has(u.free_list, c) <=> c = b \/ Has(t.free_list, c)
    BY <1>0, MoveToEnd
  <2>2. \A c \in Buf : Has(u.free_list, c) <=> c \in Allocated(u)
    BY <2>1, <1>1 DEF Core, BlocksOK
  <2>3. \A c \in Allocated(t) : t.blk[c] \in Block /\ t.blk[c] # t.want[p] /\ c \in Buf
    BY <1>1 DEF Core, BlocksOK, InCache
  <2>4. \A c \in Allocated(u) : u.blk[c] \in Block
    BY <2>3, <1>1, <1>3
  <2>5. ASSUME NEW a \in Allocated(u), NEW c \in Allocated(u), u.blk[a] = u.blk[c]
        PROVE  a = c
    <3>1. CASE a # b /\ c # b
      BY <3>1, <2>3, <2>5, <1>1, <1>3 DEF Core, BlocksOK
    <3>2. CASE a = b \/ c = b
      BY <3>2, <2>3, <2>5, <1>1, <1>3
    <3> QED BY <3>1, <3>2
  <2> QED BY <2>2, <2>4, <2>5 DEF BlocksOK
<1>9. CountOK(u, T, b)
  <2>1. \A c : HoldersIn(u, T, c) = HoldersIn(t, T, c)
    BY <1>4 DEF HoldersIn
  <2>2. Cardinality(HoldersIn(t, T, b)) = 0
    BY NoHolders, FS_EmptySet
  <2>3. ASSUME NEW c \in Buf \ {b}
        PROVE  u.count[c] = Cardinality(HoldersIn(u, T, c)) + (IF c = b THEN 1 ELSE 0)
    <3>1. t.count[c] = Cardinality(HoldersIn(t, T, c)) + (IF c = 0 THEN 1 ELSE 0) /\ c # 0
      BY <1>0, Types, ZenonT(40) DEF Core, CountOK
    <3> QED BY <3>1, <2>1, <1>3, ZenonT(40)
  <2>4. HoldersIn(u, T, b) = HoldersIn(t, T, b) /\ u.count[b] = 1
    BY <2>1, <1>3
  <2> SUFFICES ASSUME NEW c \in Buf
               PROVE  u.count[c] = Cardinality(HoldersIn(u, T, c)) + (IF c = b THEN 1 ELSE 0)
    BY DEF CountOK
  <2>5. CASE c = b
    BY <2>2, <2>4, <2>5
  <2> QED BY <2>3, <2>5
<1>10. Core(u, T, b, 0)
  BY <1>5, <1>6, <1>7, <1>8, <1>9 DEF Core
<1> QED BY <1>1, <1>3, <1>10

\* The label _find_new, with a buffer that has been handed out before.
LEMMA FindNew ==
  ASSUME NEW p \in Task, NEW t, Core(t, Task \ {p}, 0, 0), NEW b \in Allocated(t),
         t.count[b] = 0, t.want[p] \in Block, InCache(t, t.want[p]) = {}
  PROVE  Inv(find_new(t, p, b))
<1> DEFINE f == Append(RemoveFirst(t.free_list, b), b)
           n == t.want[p]
           u == [t EXCEPT !.free_list = f, !.count[b] = 1, !.dirty[b] = FALSE,
                          !.vaild[b] = FALSE, !.blk[b] = n]
<1>0. /\ t \in CacheState /\ b \in Buf /\ f \in Seq(Buf) /\ t.nalloc \in 0 .. NBuf
  <2>1. t \in CacheState
    BY DEF Core
  <2>2. t.free_list \in Seq(Buf) /\ b \in Buf /\ t.nalloc \in 0 .. NBuf
    BY <2>1, Types
  <2> QED BY <2>1, <2>2, MoveToEnd
<1>1. find_new(t, p, b) = Got(u, p, b)
  <2>1. find_new(t, p, b) =
          Got([[t EXCEPT !.free_list = f] EXCEPT !.count[b] = 1, !.dirty[b] = FALSE,
                                  !.vaild[b] = FALSE, !.blk[b] = n], p, b)
    BY DEF find_new, buffer_insert
  <2> HIDE DEF f, n
  <2>2. [[t EXCEPT !.free_list = f] EXCEPT !.count[b] = 1, !.dirty[b] = FALSE,
                                  !.vaild[b] = FALSE, !.blk[b] = n] = u
    BY <1>0 DEF CacheState
  <2> QED BY <2>1, <2>2
<1>2. /\ u \in CacheState /\ u.nalloc = t.nalloc
      /\ u.free_list = f /\ u.count = [t.count EXCEPT ![b] = 1]
      /\ u.vaild = [t.vaild EXCEPT ![b] = FALSE] /\ u.blk = [t.blk EXCEPT ![b] = n]
      /\ u.waiter = t.waiter /\ u.locked = t.locked /\ u.lockq = t.lockq
      /\ u.wait_list = t.wait_list /\ u.pc = t.pc /\ u.op = t.op /\ u.want = t.want
      /\ u.use = t.use /\ u.req = t.req
  <2>1. n \in Block \cup {NoBlock} /\ 1 \in Nat /\ FALSE \in BOOLEAN
    OBVIOUS
  <2> HIDE DEF f, n
  <2> QED BY <1>0, <2>1, ZenonT(40) DEF CacheState
<1> HIDE DEF u
<1>3. Core(u, Task \ {p}, b, 0) /\ b \in Allocated(u) /\ u.blk[b] = u.want[p]
  <2>1. GivenTo(t, u, p, b)
    BY <1>2 DEF GivenTo
  <2>2. b \in Buf /\ u \in CacheState
    BY <1>0, <1>2
  <2> QED BY <2>1, <2>2, NewBuffer
<1> QED BY <1>1, <1>3, GotKeeps

\* The same with the next buffer of the memory set aside for them.
LEMMA FirstUse ==
  ASSUME NEW p \in Task, NEW t, Core(t, Task \ {p}, 0, 0), t.nalloc < NBuf,
         t.want[p] \in Block, InCache(t, t.want[p]) = {}
  PROVE  Inv(find_new(get_new_buffer(t), p, t.nalloc + 1))
<1> DEFINE b == t.nalloc + 1
           f == Append(RemoveFirst(t.free_list, b), b)
           n == t.want[p]
           u == [t EXCEPT !.nalloc = b, !.free_list = f, !.count[b] = 1, !.dirty[b] = FALSE,
                          !.vaild[b] = FALSE, !.blk[b] = n]
<1>0. /\ t \in CacheState /\ b \in Buf /\ f \in Seq(Buf) /\ b \in 0 .. NBuf
  <2>1. t \in CacheState
    BY DEF Core
  <2>2. t.free_list \in Seq(Buf) /\ t.nalloc \in 0 .. NBuf
    BY <2>1, Types
  <2>3. b \in Buf /\ b \in 0 .. NBuf
    BY <2>2, BufferAssumption DEF Buf
  <2> QED BY <2>1, <2>2, <2>3, MoveToEnd
<1>1. find_new(get_new_buffer(t), p, b) = Got(u, p, b)
  <2> DEFINE t0 == [t EXCEPT !.nalloc = b]
  <2>1. get_new_buffer(t) = t0
    BY DEF get_new_buffer
  <2>2. t0.free_list = t.free_list /\ t0.want = t.want
    BY <1>0 DEF CacheState
  <2>3. find_new(t0, p, b) =
          Got([[t0 EXCEPT !.free_list = Append(RemoveFirst(t0.free_list, b), b)]
                 EXCEPT !.count[b] = 1, !.dirty[b] = FALSE,
                        !.vaild[b] = FALSE, !.blk[b] = t0.want[p]], p, b)
    BY DEF find_new, buffer_insert
  <2>4. find_new(t0, p, b) =
          Got([[t0 EXCEPT !.free_list = f] EXCEPT !.count[b] = 1, !.dirty[b] = FALSE,
                        !.vaild[b] = FALSE, !.blk[b] = n], p, b)
    BY <2>2, <2>3
  <2> HIDE DEF f, n, b
  <2>5. [[t0 EXCEPT !.free_list = f] EXCEPT !.count[b] = 1, !.dirty[b] = FALSE,
                                  !.vaild[b] = FALSE, !.blk[b] = n] = u
    BY <1>0 DEF CacheState
  <2> QED BY <2>1, <2>4, <2>5
<1>2. /\ u \in CacheState /\ u.nalloc = b
      /\ u.free_list = f /\ u.count = [t.count EXCEPT ![b] = 1]
      /\ u.vaild = [t.vaild EXCEPT ![b] = FALSE] /\ u.blk = [t.blk EXCEPT ![b] = n]
      /\ u.waiter = t.waiter /\ u.locked = t.locked /\ u.lockq = t.lockq
      /\ u.wait_list = t.wait_list /\ u.pc = t.pc /\ u.op = t.op /\ u.want = t.want
      /\ u.use = t.use /\ u.req = t.req
  <2>1. n \in Block \cup {NoBlock} /\ 1 \in Nat /\ FALSE \in BOOLEAN
    OBVIOUS
  <2> HIDE DEF f, n, b
  <2> QED BY <1>0, <2>1 DEF CacheState
<1> HIDE DEF u
<1>3. t.count[b] = 0
  <2>1. \A q \in Task \ {p} : Counted(t, q) => t.use[q] # b
    <3>1. t.nalloc \in Nat
      BY <1>0, Types DEF Core
    <3>2. b \notin Allocated(t)
      BY <3>1 DEF Allocated
    <3> QED BY <3>2 DEF Core, TaskOK
  <2>2. HoldersIn(t, Task \ {p}, b) = {} /\ b \in Buf
    BY <2>1, <1>0 DEF HoldersIn
  <2> HIDE DEF b
  <2> QED BY <2>2, NoHolders
<1>4. Core(u, Task \ {p}, b, 0) /\ b \in Allocated(u) /\ u.blk[b] = u.want[p]
  <2>1. GivenTo(t, u, p, b)
    BY <1>2 DEF GivenTo
  <2>2. b \in Buf /\ u \in CacheState
    BY <1>0, <1>2
  <2> HIDE DEF b
  <2> QED BY <2>1, <2>2, <1>3, NewBuffer
<1> QED BY <1>1, <1>4, GotKeeps

\* The search of getblk ends with a buffer nobody refers to.
LEMMA VictimFacts ==
  ASSUME NEW t, t \in CacheState, BlocksOK(t), Reusable(t) # {}
  PROVE  /\ Victim(t) \in Allocated(t) /\ t.count[Victim(t)] = 0
         /\ t.waiter[Victim(t)] = NoTask
<1> DEFINE f == t.free_list
           sc(i) == Score(t, f[i])
           N == {sc(i) : i \in Reusable(t)}
           best(i) == \A j \in Reusable(t) : sc(i) < sc(j) \/ (sc(i) = sc(j) /\ i <= j)
<1>0. f \in Seq(Buf) /\ Reusable(t) \subseteq 1 .. Len(f)
  BY Types DEF Reusable
<1>1. \A i : sc(i) \in Nat
  BY DEF Score
<1>2. N \in SUBSET Nat /\ N # {}
  BY <1>1
<1>3. PICK m \in N : \A n \in N : m <= n
  BY <1>2, LeastElement
<1> DEFINE I == {i \in Reusable(t) : sc(i) = m}
<1>4. I \in SUBSET Nat /\ I # {}
  BY <1>0, <1>3
<1>5. PICK i \in I : \A j \in I : i <= j
  BY <1>4, LeastElement
<1>6. i \in Reusable(t) /\ best(i)
  <2> SUFFICES ASSUME NEW j \in Reusable(t)
               PROVE  sc(i) < sc(j) \/ (sc(i) = sc(j) /\ i <= j)
    BY <1>5
  <2>1. sc(i) = m /\ m \in Nat /\ sc(j) \in N /\ sc(j) \in Nat
    BY <1>1, <1>2, <1>3, <1>5
  <2> HIDE DEF sc
  <2>2. m <= sc(j)
    BY <2>1, <1>3
  <2>3. sc(j) = m => i <= j
    BY <1>5
  <2> QED BY <2>1, <2>2, <2>3
<1> DEFINE v == CHOOSE x \in Reusable(t) : best(x)
<1>7. v \in Reusable(t)
  BY <1>6
<1>8. Victim(t) = f[v]
  BY DEF Victim
<1> HIDE DEF v
<1>9. f[v] \in Buf /\ Has(f, f[v])
  BY <1>0, <1>7 DEF Has
<1>10. t.count[f[v]] = 0 /\ t.waiter[f[v]] = NoTask
  BY <1>7 DEF Reusable
<1> QED BY <1>8, <1>9, <1>10 DEF BlocksOK

\* With no buffer to reuse the caller sleeps on wait_list: every buffer has a
\* holder, or a task that waits to reuse it.
LEMMA SleepFull ==
  ASSUME NEW p \in Task, NEW t, Core(t, Task \ {p}, 0, 0), t.want[p] \in Block,
         ~(t.nalloc < NBuf), Reusable(t) = {}
  PROVE  Inv([t EXCEPT !.wait_list = <<p>> \o @, !.pc[p] = "full"])
<1> DEFINE T == Task \ {p}
           wl == <<p>> \o t.wait_list
           u == [t EXCEPT !.wait_list = wl, !.pc[p] = "full"]
<1>0. /\ t \in CacheState /\ t.wait_list \in Seq(Task) /\ t.pc \in [Task -> Pc] /\ 0 \notin Buf
      /\ t.nalloc \in 0 .. NBuf /\ t.free_list \in Seq(Buf) /\ "full" \in Pc
  BY Types DEF Core, Pc
<1>1. /\ wl \in Seq(Task) /\ Once(wl)
      /\ \A q : Has(wl, q) <=> q = p \/ Has(t.wait_list, q)
  <2>1. Once(t.wait_list) /\ ~Has(t.wait_list, p)
    BY DEF Core, WaitOK
  <2> QED BY <1>0, <2>1, ConsFacts
<1>2. /\ u \in CacheState /\ SameCache([t EXCEPT !.wait_list = wl], u, T)
      /\ u.pc = [t.pc EXCEPT ![p] = "full"] /\ u.wait_list = wl
      /\ u.blk = t.blk /\ u.count = t.count /\ u.vaild = t.vaild /\ u.waiter = t.waiter
      /\ u.locked = t.locked /\ u.lockq = t.lockq /\ u.nalloc = t.nalloc
      /\ u.free_list = t.free_list /\ u.op = t.op /\ u.want = t.want
      /\ u.use = t.use /\ u.req = t.req
  <2> HIDE DEF wl
  <2> QED BY <1>0, <1>1 DEF CacheState, SameCache
<1> HIDE DEF u
<1>3. u.pc[p] = "full" /\ \A q \in T : u.pc[q] = t.pc[q]
  BY <1>0, <1>2
<1>4. /\ \A q \in T : Locks(u, q) <=> Locks(t, q)
      /\ \A q \in T : Counted(u, q) <=> Counted(t, q)
      /\ \A q \in T : Busy(u, q) <=> Busy(t, q)
      /\ ~Locks(u, p) /\ ~Counted(u, p)
  BY <1>2, <1>3 DEF Locks, Counted, Busy
<1>5. ASSUME NEW q \in Task PROVE TaskOK(u, q)
  <2>1. CASE q = p
    BY <2>1, <1>2, <1>3, <1>4 DEF TaskOK
  <2>2. CASE q # p
    <3>1. TaskOK(t, q) /\ q \in T
      BY <2>2 DEF Core
    <3> QED BY <3>1, <1>2, <1>3, <1>4 DEF TaskOK, Allocated
  <2> QED BY <2>1, <2>2
<1>6. LockOK(u, Task, 0)
  <2> SUFFICES ASSUME NEW c \in Buf
               PROVE  /\ Once(u.lockq[c])
                      /\ \A q \in Task : Has(u.lockq[c], q) => u.pc[q] = "mutex" /\ u.use[q] = c
                      /\ u.lockq[c] # <<>> => u.locked[c]
                      /\ u.locked[c] <=> \E q \in Task : u.use[q] = c /\ Locks(u, q)
                      /\ \A q, r \in Task : u.use[q] = c /\ Locks(u, q) /\ u.use[r] = c /\ Locks(u, r) => q = r
                      /\ u.waiter[c] # NoTask =>
                           u.waiter[c] \in Task /\ u.pc[u.waiter[c]] \in {"lock", "woken"} /\ u.use[u.waiter[c]] = c
    BY <1>0 DEF LockOK
  <2>1. /\ Once(t.lockq[c])
        /\ \A q \in Task : Has(t.lockq[c], q) => q \in T /\ t.pc[q] = "mutex" /\ t.use[q] = c
        /\ t.lockq[c] # <<>> => t.locked[c]
        /\ t.locked[c] <=> \E q \in T : t.use[q] = c /\ Locks(t, q)
        /\ \A q, r \in T : t.use[q] = c /\ Locks(t, q) /\ t.use[r] = c /\ Locks(t, r) => q = r
        /\ t.waiter[c] # NoTask =>
             t.waiter[c] \in T /\ t.pc[t.waiter[c]] \in {"lock", "woken"} /\ t.use[t.waiter[c]] = c
    BY <1>0 DEF Core, LockOK
  <2> QED BY <2>1, <1>2, <1>3, <1>4
<1>7. WaitOK(u, Task)
  BY <1>1, <1>2, <1>3 DEF Core, WaitOK
<1>8. BlocksOK(u)
  BY <1>2 DEF Core, BlocksOK, Allocated
<1>9. CountOK(u, Task, 0)
  <2> SUFFICES ASSUME NEW c \in Buf
               PROVE  u.count[c] = Cardinality(HoldersIn(u, Task, c)) + (IF c = 0 THEN 1 ELSE 0)
    BY DEF CountOK
  <2>1. HoldersIn(u, Task, c) = HoldersIn(t, T, c)
    BY <1>2, <1>4 DEF HoldersIn
  <2>2. t.count[c] = Cardinality(HoldersIn(t, T, c)) + (IF c = 0 THEN 1 ELSE 0)
    BY DEF Core, CountOK
  <2>3. u.count = t.count
    BY <1>2
  <2> QED BY <2>1, <2>2, <2>3
<1>10. FullOK(u)
  <2> DEFINE b == NBuf
  <2>1. NBuf \in Buf /\ NBuf \in Allocated(t)
    BY <1>0, BufferAssumption DEF Buf, Allocated
  <2>2. Has(t.free_list, NBuf)
    BY <2>1 DEF Core, BlocksOK
  <2>3. t.count[NBuf] # 0 \/ t.waiter[NBuf] # NoTask
    BY <2>2 DEF Reusable, Has
  <2>4. CASE t.count[NBuf] # 0
    <3>1. HoldersIn(t, T, NBuf) # {}
      BY <2>1, <2>4, NoHolders
    <3>2. PICK q \in T : Counted(t, q)
      BY <3>1 DEF HoldersIn
    <3>3. Busy(t, q)
      BY <3>2 DEF Counted, Busy
    <3> QED BY <3>3, <1>4 DEF FullOK
  <2>5. CASE t.waiter[NBuf] # NoTask
    <3>1. t.waiter[NBuf] \in T /\ t.pc[t.waiter[NBuf]] \in {"lock", "woken"}
      BY <2>1, <2>5 DEF Core, LockOK
    <3>2. Busy(t, t.waiter[NBuf])
      BY <3>1 DEF Busy
    <3> QED BY <3>1, <3>2, <1>4 DEF FullOK
  <2> QED BY <2>3, <2>4, <2>5
<1>11. Inv(u)
  BY <1>2, <1>5, <1>6, <1>7, <1>8, <1>9, <1>10 DEF Inv, Core
<1> QED BY <1>11 DEF u, wl

\* The caller sleeps as b_waiter of a locked buffer.
LEMMA SleepLocked ==
  ASSUME NEW p \in Task, NEW t, Core(t, Task \ {p}, 0, 0), t.want[p] \in Block,
         NEW v \in Allocated(t), t.locked[v], t.waiter[v] = NoTask
  PROVE  Inv([t EXCEPT !.waiter[v] = p, !.use[p] = v, !.pc[p] = "lock"])
<1> DEFINE T == Task \ {p}
           u == [t EXCEPT !.waiter[v] = p, !.use[p] = v, !.pc[p] = "lock"]
<1>0. /\ t \in CacheState /\ t.waiter \in [Buf -> Task \cup {NoTask}] /\ t.pc \in [Task -> Pc]
      /\ t.use \in [Task -> Buf \cup {0}] /\ 0 \notin Buf /\ v \in Buf /\ "lock" \in Pc
      /\ NoTask \notin Task
  BY Types, BufferAssumption DEF Core, Pc
<1>2. /\ u \in CacheState
      /\ u.pc = [t.pc EXCEPT ![p] = "lock"] /\ u.use = [t.use EXCEPT ![p] = v]
      /\ u.waiter = [t.waiter EXCEPT ![v] = p]
      /\ u.blk = t.blk /\ u.count = t.count /\ u.vaild = t.vaild
      /\ u.locked = t.locked /\ u.lockq = t.lockq /\ u.nalloc = t.nalloc
      /\ u.free_list = t.free_list /\ u.wait_list = t.wait_list
      /\ u.op = t.op /\ u.want = t.want /\ u.req = t.req
  BY <1>0 DEF CacheState
<1> HIDE DEF u
<1>3. /\ u.pc[p] = "lock" /\ u.use[p] = v /\ u.waiter[v] = p
      /\ \A q \in T : u.pc[q] = t.pc[q] /\ u.use[q] = t.use[q]
      /\ \A c \in Buf \ {v} : u.waiter[c] = t.waiter[c]
  BY <1>0, <1>2
<1>4. /\ \A q \in T : Locks(u, q) <=> Locks(t, q)
      /\ \A q \in T : Counted(u, q) <=> Counted(t, q)
      /\ ~Locks(u, p) /\ ~Counted(u, p) /\ Busy(u, p)
  BY <1>2, <1>3 DEF Locks, Counted, Busy
<1>5. ASSUME NEW q \in Task PROVE TaskOK(u, q)
  <2>1. CASE q = p
    BY <2>1, <1>2, <1>3, <1>4 DEF TaskOK, Allocated
  <2>2. CASE q # p
    <3>1. TaskOK(t, q) /\ q \in T /\ t.use[q] \in Buf \cup {0} /\ Allocated(t) \subseteq Buf
      BY <2>2, <1>0, Types DEF Core
    <3>2. t.pc[q] \in {"lock", "woken"} => t.use[q] # v /\ t.use[q] \in Buf
      BY <3>1, <1>0 DEF TaskOK
    <3>3. t.pc[q] \in {"lock", "woken"} => u.waiter[t.use[q]] = q
      BY <3>1, <3>2, <1>3 DEF TaskOK
    <3> QED BY <3>1, <3>3, <1>2, <1>3, <1>4 DEF TaskOK, Allocated
  <2> QED BY <2>1, <2>2
<1>6. LockOK(u, Task, 0)
  <2> SUFFICES ASSUME NEW c \in Buf
               PROVE  /\ Once(u.lockq[c])
                      /\ \A q \in Task : Has(u.lockq[c], q) => u.pc[q] = "mutex" /\ u.use[q] = c
                      /\ u.lockq[c] # <<>> => u.locked[c]
                      /\ u.locked[c] <=> \E q \in Task : u.use[q] = c /\ Locks(u, q)
                      /\ \A q, r \in Task : u.use[q] = c /\ Locks(u, q) /\ u.use[r] = c /\ Locks(u, r) => q = r
                      /\ u.waiter[c] # NoTask =>
                           u.waiter[c] \in Task /\ u.pc[u.waiter[c]] \in {"lock", "woken"} /\ u.use[u.waiter[c]] = c
    BY <1>0 DEF LockOK
  <2>1. /\ Once(t.lockq[c])
        /\ \A q \in Task : Has(t.lockq[c], q) => q \in T /\ t.pc[q] = "mutex" /\ t.use[q] = c
        /\ t.lockq[c] # <<>> => t.locked[c]
        /\ t.locked[c] <=> \E q \in T : t.use[q] = c /\ Locks(t, q)
        /\ \A q, r \in T : t.use[q] = c /\ Locks(t, q) /\ t.use[r] = c /\ Locks(t, r) => q = r
        /\ t.waiter[c] # NoTask =>
             t.waiter[c] \in T /\ t.pc[t.waiter[c]] \in {"lock", "woken"} /\ t.use[t.waiter[c]] = c
    BY <1>0 DEF Core, LockOK
  <2>2. u.waiter[c] # NoTask =>
          u.waiter[c] \in Task /\ u.pc[u.waiter[c]] \in {"lock", "woken"} /\ u.use[u.waiter[c]] = c
    <3>1. CASE c = v
      BY <3>1, <1>3
    <3>2. CASE c # v
      BY <3>2, <2>1, <1>3
    <3> QED BY <3>1, <3>2
  <2> QED BY <2>1, <2>2, <1>2, <1>3, <1>4
<1>7. WaitOK(u, Task)
  BY <1>2, <1>3 DEF Core, WaitOK
<1>8. BlocksOK(u)
  BY <1>2 DEF Core, BlocksOK, Allocated
<1>9. CountOK(u, Task, 0)
  <2> SUFFICES ASSUME NEW c \in Buf
               PROVE  u.count[c] = Cardinality(HoldersIn(u, Task, c)) + (IF c = 0 THEN 1 ELSE 0)
    BY DEF CountOK
  <2>1. HoldersIn(u, Task, c) = HoldersIn(t, T, c)
    BY <1>3, <1>4 DEF HoldersIn
  <2>2. t.count[c] = Cardinality(HoldersIn(t, T, c)) + (IF c = 0 THEN 1 ELSE 0)
    BY DEF Core, CountOK
  <2>3. u.count = t.count
    BY <1>2
  <2> QED BY <2>1, <2>2, <2>3
<1>10. Inv(u)
  BY <1>2, <1>4, <1>5, <1>6, <1>7, <1>8, <1>9 DEF Inv, Core, FullOK
<1> QED BY <1>10 DEF u
\* A hit takes a reference.
LEMMA Hit ==
  ASSUME NEW p \in Task, NEW t, Core(t, Task \ {p}, 0, 0), NEW b \in Allocated(t),
         t.blk[b] = t.want[p]
  PROVE  Inv(Got(get_from_hash_table(t, b), p, b))
<1> DEFINE T == Task \ {p}
           u == [t EXCEPT !.count[b] = @ + 1]
<1>0. t \in CacheState /\ b \in Buf /\ t.count \in [Buf -> Nat] /\ 0 \notin Buf /\ T \in SUBSET Task
  BY Types DEF Core
<1>1. t.count[b] + 1 \in Nat
  BY <1>0
<1>2. /\ u \in CacheState /\ SameButCount(t, u, T) /\ Allocated(u) = Allocated(t)
      /\ u.count = [t.count EXCEPT ![b] = @ + 1] /\ u.want = t.want /\ u.blk = t.blk
  BY <1>0, <1>1 DEF CacheState, SameButCount, Allocated
<1> HIDE DEF u
<1>3. CountOK(u, T, b)
  <2> SUFFICES ASSUME NEW c \in Buf
               PROVE  u.count[c] = Cardinality(HoldersIn(u, T, c)) + (IF c = b THEN 1 ELSE 0)
    BY DEF CountOK
  <2>1. t.count[c] = Cardinality(HoldersIn(t, T, c)) + (IF c = 0 THEN 1 ELSE 0)
    BY DEF Core, CountOK
  <2>2. HoldersIn(u, T, c) = HoldersIn(t, T, c)
    BY <1>2, SameHolders DEF SameButCount
  <2>3. Cardinality(HoldersIn(t, T, c)) \in Nat
    BY BufferAssumption, FS_Subset, FS_CardinalityType DEF HoldersIn
  <2>4. u.count[c] = IF c = b THEN t.count[c] + 1 ELSE t.count[c]
    BY <1>0, <1>2
  <2> QED BY <1>0, <2>1, <2>2, <2>3, <2>4
<1>4. Core(u, T, b, 0)
  BY <1>0, <1>2, <1>3, Recount
<1>5. Inv(Got(u, p, b))
  BY <1>2, <1>4, GotKeeps
<1> QED BY <1>5 DEF get_from_hash_table, u

\* getblk from the label _retry.
LEMMA GetblkKeeps ==
  ASSUME NEW p \in Task, NEW t, Core(t, Task \ {p}, 0, 0), t.want[p] \in Block
  PROVE  Inv(getblk(t, p))
<1> DEFINE n == t.want[p]
           b == find_from_hash_table(t, n)
           v == Victim(t)
<1>0. t \in CacheState /\ BlocksOK(t)
  BY DEF Core
<1>1. CASE InCache(t, n) # {}
  <2>1. b \in Allocated(t) /\ t.blk[b] = n
    BY <1>1 DEF InCache, find_from_hash_table
  <2>2. getblk(t, p) = Got(get_from_hash_table(t, b), p, b)
    BY <1>1 DEF getblk
  <2> HIDE DEF b
  <2> QED BY <2>1, <2>2, Hit
<1>2. CASE InCache(t, n) = {} /\ t.nalloc < NBuf
  BY <1>2, FirstUse DEF getblk
<1>3. CASE InCache(t, n) = {} /\ ~(t.nalloc < NBuf) /\ Reusable(t) = {}
  BY <1>3, SleepFull DEF getblk
<1>4. CASE InCache(t, n) = {} /\ ~(t.nalloc < NBuf) /\ Reusable(t) # {}
  <2>1. v \in Allocated(t) /\ t.count[v] = 0 /\ t.waiter[v] = NoTask
    BY <1>0, <1>4, VictimFacts
  <2>2. getblk(t, p) =
          IF t.locked[v] THEN [t EXCEPT !.waiter[v] = p, !.use[p] = v, !.pc[p] = "lock"]
          ELSE IF t.dirty[v] THEN device_request(t, p, v, "getblk")
          ELSE find_new(t, p, v)
    BY <1>4 DEF getblk, bwrite
  <2>3. Inv(device_request(t, p, v, "getblk"))
    <3>1. "getblk" \in DevOp /\ "getblk" # "bread" /\ "getblk" # "sync"
      BY DEF DevOp
    <3> HIDE DEF v
    <3> QED BY <2>1, <3>1, Request
  <2>4. Inv(find_new(t, p, v))
    <3> HIDE DEF v
    <3> QED BY <2>1, <1>4, FindNew
  <2>5. t.locked[v] => Inv([t EXCEPT !.waiter[v] = p, !.use[p] = v, !.pc[p] = "lock"])
    <3> HIDE DEF v
    <3> QED BY <2>1, SleepLocked
  <2> QED BY <2>2, <2>3, <2>4, <2>5
<1> QED BY <1>1, <1>2, <1>3, <1>4

\* getblk after its wait for the drive, and after its wait for the lock.
LEMMA UnlockedKeeps ==
  ASSUME NEW p \in Task, NEW t, Core(t, Task \ {p}, 0, 0), t.want[p] \in Block,
         NEW b \in Allocated(t)
  PROVE  Inv(Written(t, p, b)) /\ Inv(Unlocked(t, p, b))
<1>1. Inv(getblk(t, p))
  BY GetblkKeeps
<1>2. t.count[b] = 0 /\ InCache(t, t.want[p]) = {} => Inv(find_new(t, p, b))
  BY FindNew
<1>3. Inv(Written(t, p, b))
  BY <1>1, <1>2 DEF Written
<1>4. Inv(device_request(t, p, b, "getblk"))
  <2>1. "getblk" \in DevOp /\ "getblk" # "bread" /\ "getblk" # "sync"
    BY DEF DevOp
  <2> QED BY <2>1, Request
<1> QED BY <1>1, <1>3, <1>4 DEF Unlocked, bwrite

\* The end of brelse: the task that has waited longest for a buffer is woken.
LEMMA WakeOneKeeps ==
  ASSUME NEW p \in Task, NEW t, Core(t, Task \ {p}, 0, 0)
  PROVE  Inv(WakeOne(t, p))
<1> DEFINE T == Task \ {p}
           u == Return(t, p, 0)
           w == Head(t.wait_list)
           x == [u EXCEPT !.wait_list = Tail(@), !.pc[w] = "retry"]
<1>1. Core(u, Task, 0, 0) /\ u.wait_list = t.wait_list
  BY ReturnFree
<1>2. CASE t.wait_list = <<>>
  <2>1. FullOK(u)
    BY <1>1, <1>2 DEF FullOK
  <2> QED BY <1>1, <1>2, <2>1 DEF WakeOne, Inv
<1>3. CASE t.wait_list # <<>>
  <2>0. WakeOne(t, p) = x
    BY <1>3 DEF WakeOne
  <2> HIDE DEF u
  <2>1. u \in CacheState /\ u.wait_list \in Seq(Task) /\ u.pc \in [Task -> Pc]
    BY <1>1, Types DEF Core
  <2>2. /\ w \in Task /\ Tail(u.wait_list) \in Seq(Task) /\ Once(Tail(u.wait_list))
        /\ \A q : Has(Tail(u.wait_list), q) <=> Has(u.wait_list, q) /\ q # w
        /\ Has(u.wait_list, w)
    BY <1>1, <1>3, <2>1, TailFacts DEF Core, WaitOK
  <2>3. u.pc[w] = "full"
    BY <1>1, <2>2 DEF Core, WaitOK
  <2>4. /\ x \in CacheState /\ x.pc = [u.pc EXCEPT ![w] = "retry"]
        /\ x.wait_list = Tail(u.wait_list)
        /\ x.blk = u.blk /\ x.count = u.count /\ x.vaild = u.vaild /\ x.waiter = u.waiter
        /\ x.locked = u.locked /\ x.lockq = u.lockq /\ x.nalloc = u.nalloc
        /\ x.free_list = u.free_list /\ x.op = u.op /\ x.want = u.want
        /\ x.use = u.use /\ x.req = u.req
    <3>1. "retry" \in Pc
      BY DEF Pc
    <3> HIDE DEF w
    <3> QED BY <2>1, <2>2, <3>1 DEF CacheState
  <2> HIDE DEF x, w
  <2>5. x.pc[w] = "retry" /\ \A q \in Task \ {w} : x.pc[q] = u.pc[q]
    BY <2>1, <2>2, <2>4
  <2>6. \A q \in Task : /\ Counted(x, q) <=> Counted(u, q)
                        /\ Locks(x, q) <=> Locks(u, q)
    BY <2>3, <2>4, <2>5 DEF Counted, Locks
  <2>7. ASSUME NEW q \in Task PROVE TaskOK(x, q)
    <3>1. TaskOK(u, q)
      BY <1>1 DEF Core
    <3>2. CASE q = w
      BY <3>1, <3>2, <2>3, <2>4, <2>5, <2>6 DEF TaskOK, Allocated
    <3>3. CASE q # w
      BY <3>1, <3>3, <2>4, <2>5, <2>6 DEF TaskOK, Allocated
    <3> QED BY <3>2, <3>3
  <2>8. LockOK(x, Task, 0)
    <3> SUFFICES ASSUME NEW c \in Buf
                 PROVE  /\ Once(x.lockq[c])
                        /\ \A q \in Task : Has(x.lockq[c], q) => x.pc[q] = "mutex" /\ x.use[q] = c
                        /\ x.lockq[c] # <<>> => x.locked[c]
                        /\ x.locked[c] <=> \E q \in Task : x.use[q] = c /\ Locks(x, q)
                        /\ \A q, r \in Task : x.use[q] = c /\ Locks(x, q) /\ x.use[r] = c /\ Locks(x, r) => q = r
                        /\ x.waiter[c] # NoTask =>
                             x.waiter[c] \in Task /\ x.pc[x.waiter[c]] \in {"lock", "woken"} /\ x.use[x.waiter[c]] = c
      BY <2>1, Types DEF LockOK
    <3>1. /\ Once(u.lockq[c])
          /\ \A q \in Task : Has(u.lockq[c], q) => u.pc[q] = "mutex" /\ u.use[q] = c
          /\ u.lockq[c] # <<>> => u.locked[c]
          /\ u.locked[c] <=> \E q \in Task : u.use[q] = c /\ Locks(u, q)
          /\ \A q, r \in Task : u.use[q] = c /\ Locks(u, q) /\ u.use[r] = c /\ Locks(u, r) => q = r
          /\ u.waiter[c] # NoTask =>
               u.waiter[c] \in Task /\ u.pc[u.waiter[c]] \in {"lock", "woken"} /\ u.use[u.waiter[c]] = c
      BY <1>1, <2>1, Types DEF Core, LockOK
    <3> QED BY <3>1, <2>3, <2>4, <2>5, <2>6
  <2>9. WaitOK(x, Task)
    BY <1>1, <2>2, <2>4, <2>5 DEF Core, WaitOK
  <2>10. BlocksOK(x)
    BY <1>1, <2>4 DEF Core, BlocksOK, Allocated
  <2>11. CountOK(x, Task, 0)
    <3>1. \A c : HoldersIn(x, Task, c) = HoldersIn(u, Task, c)
      BY <2>4, <2>6 DEF HoldersIn
    <3>2. CountOK(u, Task, 0) /\ x.count = u.count
      BY <1>1, <2>4 DEF Core
    <3> QED BY <3>1, <3>2 DEF CountOK
  <2>12. FullOK(x)
    BY <2>2, <2>5 DEF FullOK, Busy
  <2>13. Inv(x)
    BY <2>4, <2>7, <2>8, <2>9, <2>10, <2>11, <2>12 DEF Inv, Core
  <2> QED BY <2>0, <2>13
<1> QED BY <1>2, <1>3

\* The loop of sync_dev.
LEMMA SyncKeeps ==
  ASSUME NEW p \in Task, NEW t, Core(t, Task \ {p}, 0, 0), FullIn(t, Task \ {p}), NEW b
  PROVE  Inv(sync_dev(t, p, b))
<1> DEFINE D == {c \in Allocated(t) : c >= b /\ t.dirty[c]}
           c == CHOOSE x \in D : \A d \in D : x <= d
<1>1. CASE D = {}
  BY <1>1, ReturnFree DEF sync_dev, Inv
<1>2. CASE D # {}
  <2>1. D \in SUBSET Nat
    BY Types DEF Core, Allocated
  <2>2. c \in D
    BY <1>2, <2>1, LeastElement
  <2>3. c \in Allocated(t)
    BY <2>2
  <2>4. sync_dev(t, p, b) = device_request(t, p, c, "sync")
    BY <1>2 DEF sync_dev, bwrite
  <2>5. "sync" \in DevOp /\ "sync" # "bread" /\ "sync" # "getblk"
    BY DEF DevOp
  <2> HIDE DEF c
  <2>6. Inv(device_request(t, p, c, "sync"))
    BY <2>3, <2>5, Request
  <2> QED BY <2>4, <2>6
<1> QED BY <1>1, <1>2

-----------------------------------------------------------------------------
(* The steps of the tasks *)

\* A task that keeps nobody waiting is not the one that will wake the sleepers.
LEMMA OtherBusy ==
  ASSUME NEW p \in Task, IInv, ~Busy(s, p)
  PROVE  FullIn(s, Task \ {p})
BY DEF IInv, FullOK, FullIn

\* bread, from the call to where the task first rests.
LEMMA BreadStep ==
  ASSUME IInv, Bread
  PROVE  Inv(s')
<1>1. PICK p \in Task, n \in Block :
        s.pc[p] = "run" /\ s' = getblk([s EXCEPT !.want[p] = n], p)
  BY DEF Bread
<1> DEFINE T == Task \ {p}
           u == [s EXCEPT !.want[p] = n]
<1>2. Core(s, T, 0, 0) /\ s \in CacheState /\ T \in SUBSET Task
  <2>1. CountedIn(s, p) = 0 /\ LockedBy(s, p) = 0
    BY <1>1 DEF CountedIn, LockedBy, Counted, Locks
  <2> QED BY <1>1, <2>1, Leave DEF IInv, Core
<1>3. u \in CacheState /\ SameCache(s, u, T) /\ u.want[p] = n
  BY <1>2 DEF CacheState, SameCache
<1> HIDE DEF u
<1>4. Core(u, T, 0, 0)
  BY <1>2, <1>3, Agree
<1>5. Inv(getblk(u, p))
  BY <1>3, <1>4, GetblkKeeps
<1> QED BY <1>1, <1>5 DEF u

\* A change of the contents of a buffer.
LEMMA ModifiedFacts ==
  ASSUME NEW t \in CacheState, NEW b \in Buf
  PROVE  LET u == Modified(t, b)
         IN u \in CacheState /\ SameCache(t, u, Task)
<1> DEFINE d == <<t.data[b][1], (t.data[b][2] + 1) % Versions>>
           u == [t EXCEPT !.data[b] = d, !.dirty[b] = TRUE]
<1>1. t.data \in [Buf -> Contents] /\ t.dirty \in [Buf -> BOOLEAN]
  BY Types
<1>2. t.data[b] \in Contents
  BY <1>1
<1>3. t.data[b][1] \in Block \cup {NoBlock} /\ t.data[b][2] \in Nat
  BY <1>2, BufferAssumption DEF Contents
<1>4. (t.data[b][2] + 1) % Versions \in 0 .. Versions - 1
  BY <1>3, BufferAssumption
<1>5. d \in Contents
  BY <1>3, <1>4 DEF Contents
<1>6. Modified(t, b) = u
  BY DEF Modified
<1> HIDE DEF d
<1>7. u \in CacheState /\ SameCache(t, u, Task)
  BY <1>1, <1>5 DEF CacheState, SameCache
<1> QED BY <1>6, <1>7

\* A holder changes the data of its buffer.
LEMMA ChangeStep ==
  ASSUME IInv, Change
  PROVE  Inv(s')
<1>1. PICK p \in Task : s.pc[p] = "held" /\ s' = Modified(s, s.use[p])
  BY DEF Change
<1>2. s \in CacheState /\ TaskOK(s, p)
  BY DEF IInv, Core
<1>3. s.use[p] \in Buf
  BY <1>1, <1>2, Types DEF TaskOK, Counted
<1>4. s' \in CacheState /\ SameCache(s, s', Task)
  BY <1>1, <1>2, <1>3, ModifiedFacts
<1>5. Core(s', Task, 0, 0) /\ (FullIn(s, Task) => FullIn(s', Task))
  BY <1>4, Agree DEF IInv
<1> QED BY <1>5 DEF IInv, Inv, FullIn, FullOK

\* A task that has the lock of the buffer it holds changes the buffer and lets
\* the lock go (inode_write).
LEMMA WriteAndUnlock ==
  ASSUME NEW p \in Task, NEW t, NEW b \in Allocated(t), Core(t, Task \ {p}, b, b),
         t.blk[b] = t.want[p], t.vaild[b]
  PROVE  Inv(buffer_unlock(Modified(Return(t, p, b), b), b))
<1> DEFINE T == Task \ {p}
           y == Return(t, p, b)
           z == Modified(y, b)
           w == buffer_unlock(z, b)
<1>0. t \in CacheState /\ b \in Buf /\ b \in Buf \cup {0} /\ b # 0 /\ T \in SUBSET Task
  BY Types DEF Core
<1>1. /\ y \in CacheState /\ SameCache(t, y, T) /\ y.pc[p] = "held" /\ y.want[p] = t.want[p]
      /\ y.op[p] = "none" /\ y.use[p] = b
  BY <1>0, ReturnFields
<1> HIDE DEF y
<1>2. Core(y, T, b, b)
  BY <1>0, <1>1, Agree
<1>3. z \in CacheState /\ SameCache(y, z, Task)
  BY <1>0, <1>1, ModifiedFacts
<1> HIDE DEF z
<1>4. SameCache(y, z, T)
  BY <1>3 DEF SameCache
<1>5. Core(z, T, b, b)
  BY <1>0, <1>2, <1>3, <1>4, Agree
<1>6. Core(w, T, b, 0) /\ SameButLock(z, w) /\ w.pc[p] = z.pc[p]
  BY <1>0, <1>5, Unlock
<1> HIDE DEF w
<1>7. /\ w.pc[p] = "held" /\ w.op[p] = "none" /\ w.use[p] = b /\ w.want[p] = t.want[p]
      /\ w.blk = t.blk /\ w.vaild = t.vaild /\ w.nalloc = t.nalloc
  BY <1>1, <1>3, <1>6 DEF SameCache, SameButLock
<1>8. CountedIn(w, p) = b /\ LockedBy(w, p) = 0 /\ TaskOK(w, p) /\ Busy(w, p)
  BY <1>7 DEF CountedIn, LockedBy, Counted, Locks, TaskOK, Busy, Allocated
<1>9. Core(w, Task, 0, 0)
  BY <1>6, <1>8, Settle
<1> QED BY <1>8, <1>9 DEF Inv, FullOK, w, z, y

\* mutex_lock in inode_write, with the lock free and with the lock taken.
LEMMA LockToWrite ==
  ASSUME NEW p \in Task, NEW x, NEW b \in Allocated(x), Core(x, Task \ {p}, b, 0),
         x.use[p] = b, x.op[p] = "write", x.blk[b] = x.want[p], x.vaild[b]
  PROVE  LET t == buffer_lock(x, p, b, "held")
         IN Inv(IF t.pc[p] = "held"
                THEN buffer_unlock(Modified(Return(t, p, b), b), b) ELSE t)
<1> DEFINE T == Task \ {p}
           t == buffer_lock(x, p, b, "held")
<1>0. /\ x \in CacheState /\ b \in Buf /\ b # 0 /\ T \in SUBSET Task
      /\ x.pc \in [Task -> Pc] /\ x.locked \in [Buf -> BOOLEAN] /\ "held" \in Pc
  BY Types DEF Core, Pc
<1>1. CASE ~x.locked[b] /\ x.lockq[b] = <<>>
  <2>1. t = [x EXCEPT !.locked[b] = TRUE, !.pc[p] = "held"]
    BY <1>1 DEF buffer_lock
  <2> HIDE DEF t
  <2>2. t \in CacheState /\ TakesLock(x, t, T, b) /\ t.pc[p] = "held" /\ t.want = x.want
    BY <2>1, <1>0 DEF CacheState, TakesLock
  <2>3. Core(t, T, b, b)
    BY <1>0, <1>1, <2>2, TakeLock
  <2>4. b \in Allocated(t) /\ t.blk[b] = t.want[p] /\ t.vaild[b]
    BY <2>2 DEF TakesLock, Allocated
  <2>5. Inv(buffer_unlock(Modified(Return(t, p, b), b), b))
    BY <2>3, <2>4, WriteAndUnlock
  <2> QED BY <2>2, <2>5 DEF t
<1>2. CASE ~(~x.locked[b] /\ x.lockq[b] = <<>>)
  <2> DEFINE u == [x EXCEPT !.lockq[x.use[p]] = <<p>> \o @, !.pc[p] = "mutex"]
  <2>1. t = u
    BY <1>2 DEF buffer_lock
  <2>2. Asks(x, p, b)
    BY <1>0, SMTT(30) DEF Asks, DevOp
  <2>3. Core(u, Task, 0, 0)
    BY <1>2, <2>2, WaitForLock
  <2>4. u.pc[p] = "mutex" /\ u.op[p] = "write"
    BY <1>0 DEF CacheState
  <2> HIDE DEF u, t
  <2>5. FullOK(u)
    BY <2>4 DEF FullOK, Busy
  <2>6. t.pc[p] # "held" /\ Inv(t)
    BY <2>1, <2>3, <2>4, <2>5 DEF Inv
  <2> QED BY <2>6 DEF t
<1> QED BY <1>1, <1>2

\* A holder changes the data under the lock (inode_write).
LEMMA WriteStep ==
  ASSUME IInv, Write
  PROVE  Inv(s')
<1>1. PICK p \in Task :
        LET t == buffer_lock([s EXCEPT !.op[p] = "write"], p, s.use[p], "held")
        IN /\ s.pc[p] = "held"
           /\ s' = IF t.pc[p] = "held"
                   THEN buffer_unlock(Modified(Return(t, p, s.use[p]), s.use[p]), s.use[p])
                   ELSE t
  BY DEF Write
<1> DEFINE T == Task \ {p}
           b == s.use[p]
           x == [s EXCEPT !.op[p] = "write"]
<1>2. s \in CacheState /\ TaskOK(s, p) /\ T \in SUBSET Task /\ Counted(s, p)
  BY <1>1 DEF IInv, Core, Counted
<1>3. b \in Allocated(s) /\ s.blk[b] = s.want[p] /\ s.vaild[b]
  BY <1>1, <1>2 DEF TaskOK
<1>4. Core(s, T, b, 0)
  <2>1. CountedIn(s, p) = b /\ LockedBy(s, p) = 0
    BY <1>1, <1>2 DEF CountedIn, LockedBy, Locks
  <2> QED BY <1>1, <2>1, Leave DEF IInv
<1>5. /\ x \in CacheState /\ SameCache(s, x, T) /\ x.op[p] = "write"
      /\ x.use = s.use /\ x.want = s.want
  <2>1. "write" \in DevOp \cup {"write", "none"}
    OBVIOUS
  <2> QED BY <1>2, <2>1 DEF CacheState, SameCache
<1>6. s' = LET t == buffer_lock(x, p, b, "held")
           IN IF t.pc[p] = "held"
              THEN buffer_unlock(Modified(Return(t, p, b), b), b) ELSE t
  BY <1>1
<1> HIDE DEF x
<1>7. Core(x, T, b, 0)
  BY <1>2, <1>4, <1>5, Agree
<1>8. b \in Allocated(x) /\ x.use[p] = b /\ x.blk[b] = x.want[p] /\ x.vaild[b] /\ x.op[p] = "write"
  BY <1>3, <1>5 DEF SameCache, Allocated
<1> HIDE DEF b
<1> QED BY <1>6, <1>7, <1>8, LockToWrite

\* brelse by a task that is counted in b_count of b.
LEMMA Release ==
  ASSUME NEW p \in Task, NEW t, NEW b \in Allocated(t), Core(t, Task \ {p}, b, 0)
  PROVE  LET u == [t EXCEPT !.count[b] = @ - 1]
         IN Inv(IF u.count[b] # 0 THEN Return(u, p, 0)
                ELSE IF u.dirty[b] THEN bwrite(u, p, b, "brelse")
                ELSE WakeOne(u, p))
<1> DEFINE T == Task \ {p}
           u == [t EXCEPT !.count[b] = @ - 1]
<1>2. t \in CacheState /\ T \in SUBSET Task /\ t.count \in [Buf -> Nat] /\ 0 \notin Buf /\ b \in Buf
  BY Types DEF Core
<1>5. \A c : Cardinality(HoldersIn(t, T, c)) \in Nat
  BY BufferAssumption, FS_Subset, FS_CardinalityType DEF HoldersIn
<1>6. t.count[b] - 1 \in Nat
  <2>1. t.count[b] = Cardinality(HoldersIn(t, T, b)) + 1
    BY <1>2 DEF Core, CountOK
  <2>2. Cardinality(HoldersIn(t, T, b)) \in Nat
    BY <1>5
  <2> QED BY <2>1, <2>2
<1>7. /\ u \in CacheState /\ SameButCount(t, u, T) /\ Allocated(u) = Allocated(t)
      /\ u.count = [t.count EXCEPT ![b] = @ - 1]
  BY <1>2, <1>6 DEF CacheState, SameButCount, Allocated
<1> HIDE DEF u
<1>8. CountOK(u, T, 0)
  <2> SUFFICES ASSUME NEW c \in Buf
               PROVE  u.count[c] = Cardinality(HoldersIn(u, T, c)) + (IF c = 0 THEN 1 ELSE 0)
    BY DEF CountOK
  <2>1. t.count[c] = Cardinality(HoldersIn(t, T, c)) + (IF c = b THEN 1 ELSE 0)
    BY DEF Core, CountOK
  <2>2. HoldersIn(u, T, c) = HoldersIn(t, T, c)
    BY <1>7, SameHolders DEF SameButCount
  <2>3. u.count[c] = IF c = b THEN t.count[c] - 1 ELSE t.count[c]
    BY <1>2, <1>7
  <2>4. Cardinality(HoldersIn(t, T, c)) \in Nat /\ c # 0
    BY <1>2, <1>5
  <2> QED BY <2>1, <2>2, <2>3, <2>4
<1>9. Core(u, T, 0, 0)
  BY <1>2, <1>7, <1>8, Recount
<1>10. u.count[b] # 0 => Inv(Return(u, p, 0))
  <2> SUFFICES ASSUME u.count[b] # 0 PROVE Inv(Return(u, p, 0))
    OBVIOUS
  <2>1. HoldersIn(u, T, b) # {}
    BY <1>2, <1>9, NoHolders
  <2>2. PICK q \in T : Counted(u, q)
    BY <2>1 DEF HoldersIn
  <2>3. FullIn(u, T)
    BY <2>2 DEF FullIn, Counted, Busy
  <2> QED BY <1>9, <2>3, ReturnFree DEF Inv
<1>11. Inv(bwrite(u, p, b, "brelse"))
  <2>1. "brelse" \in DevOp /\ "brelse" # "bread" /\ "brelse" # "getblk" /\ "brelse" # "sync"
    BY DEF DevOp
  <2>2. b \in Allocated(u)
    BY <1>7
  <2> QED BY <1>9, <2>1, <2>2, Request DEF bwrite
<1>12. Inv(WakeOne(u, p))
  BY <1>9, WakeOneKeeps
<1> QED BY <1>10, <1>11, <1>12 DEF u

\* brelse.
LEMMA BrelseStep ==
  ASSUME IInv, Brelse
  PROVE  Inv(s')
<1>1. PICK p \in Task :
        LET t == [s EXCEPT !.count[s.use[p]] = @ - 1]
        IN /\ s.pc[p] = "held"
           /\ s' = IF t.count[s.use[p]] # 0 THEN Return(t, p, 0)
                   ELSE IF t.dirty[s.use[p]] THEN bwrite(t, p, s.use[p], "brelse")
                   ELSE WakeOne(t, p)
  BY DEF Brelse
<1> DEFINE b == s.use[p]
<1>2. s \in CacheState /\ TaskOK(s, p) /\ Counted(s, p)
  BY <1>1 DEF IInv, Core, Counted
<1>3. b \in Allocated(s)
  BY <1>1, <1>2 DEF TaskOK
<1>4. Core(s, Task \ {p}, b, 0)
  <2>1. CountedIn(s, p) = b /\ LockedBy(s, p) = 0
    BY <1>1, <1>2 DEF CountedIn, LockedBy, Locks
  <2> QED BY <1>1, <2>1, Leave DEF IInv
<1>5. s' = LET u == [s EXCEPT !.count[b] = @ - 1]
           IN IF u.count[b] # 0 THEN Return(u, p, 0)
              ELSE IF u.dirty[b] THEN bwrite(u, p, b, "brelse")
              ELSE WakeOne(u, p)
  BY <1>1
<1> HIDE DEF b
<1> QED BY <1>3, <1>4, <1>5, Release

\* sync_dev.
LEMMA SyncStep ==
  ASSUME IInv, Sync
  PROVE  Inv(s')
<1>1. PICK p \in Task : s.pc[p] = "run" /\ s' = sync_dev(s, p, 1)
  BY DEF Sync
<1>2. CountedIn(s, p) = 0 /\ LockedBy(s, p) = 0 /\ ~Busy(s, p)
  BY <1>1 DEF CountedIn, LockedBy, Counted, Locks, Busy
<1>3. Core(s, Task \ {p}, 0, 0)
  BY <1>1, <1>2, Leave DEF IInv
<1>4. FullIn(s, Task \ {p})
  BY <1>2, OtherBusy
<1> QED BY <1>1, <1>3, <1>4, SyncKeeps

\* getblk starts again after its sleep.
LEMMA RetryStep ==
  ASSUME IInv, Retry
  PROVE  Inv(s')
<1>1. PICK p \in Task : s.pc[p] = "retry" /\ s' = getblk(s, p)
  BY DEF Retry
<1>2. CountedIn(s, p) = 0 /\ LockedBy(s, p) = 0
  BY <1>1 DEF CountedIn, LockedBy, Counted, Locks
<1>3. Core(s, Task \ {p}, 0, 0)
  BY <1>1, <1>2, Leave DEF IInv
<1>4. s.want[p] \in Block
  BY <1>1 DEF IInv, Core, TaskOK
<1> QED BY <1>1, <1>3, <1>4, GetblkKeeps

\* A task that has been woken is no longer b_waiter.
LEMMA WokenStep ==
  ASSUME IInv, Woken
  PROVE  Inv(s')
<1>1. PICK p \in Task :
        s.pc[p] = "woken" /\ s' = Unlocked([s EXCEPT !.waiter[s.use[p]] = NoTask], p, s.use[p])
  BY DEF Woken
<1> DEFINE T == Task \ {p}
           b == s.use[p]
           u == [s EXCEPT !.waiter[b] = NoTask]
<1>2. /\ s \in CacheState /\ TaskOK(s, p) /\ s.waiter \in [Buf -> Task \cup {NoTask}]
      /\ 0 \notin Buf /\ NoTask \notin Task
  BY Types, BufferAssumption DEF IInv, Core
<1>3. b \in Allocated(s) /\ b \in Buf /\ s.waiter[b] = p /\ s.want[p] \in Block
  BY <1>1, <1>2, Types DEF TaskOK
<1> HIDE DEF b
<1>4. /\ u \in CacheState /\ u.waiter = [s.waiter EXCEPT ![b] = NoTask]
      /\ u.blk = s.blk /\ u.count = s.count /\ u.vaild = s.vaild
      /\ u.locked = s.locked /\ u.lockq = s.lockq /\ u.nalloc = s.nalloc
      /\ u.free_list = s.free_list /\ u.wait_list = s.wait_list
      /\ u.pc = s.pc /\ u.op = s.op /\ u.want = s.want /\ u.use = s.use /\ u.req = s.req
  BY <1>2, <1>3 DEF CacheState
<1> HIDE DEF u
<1>5. u.waiter[b] = NoTask /\ \A c \in Buf \ {b} : u.waiter[c] = s.waiter[c]
  BY <1>2, <1>3, <1>4
<1>6. /\ \A q \in Task : Locks(u, q) <=> Locks(s, q)
      /\ \A q \in Task : Counted(u, q) <=> Counted(s, q)
      /\ ~Locks(s, p) /\ ~Counted(s, p)
  BY <1>1, <1>4 DEF Locks, Counted
<1>7. ASSUME NEW q \in T PROVE TaskOK(u, q)
  <2>1. TaskOK(s, q) /\ Allocated(s) \subseteq Buf
    BY <1>2, Types DEF IInv, Core
  <2>2. s.pc[q] \in {"lock", "woken"} => u.waiter[s.use[q]] = q
    BY <2>1, <1>3, <1>5 DEF TaskOK
  <2> QED BY <2>1, <2>2, <1>4, <1>6 DEF TaskOK, Allocated
<1>8. LockOK(u, T, 0)
  <2> SUFFICES ASSUME NEW c \in Buf
               PROVE  /\ Once(u.lockq[c])
                      /\ \A q \in Task : Has(u.lockq[c], q) => q \in T /\ u.pc[q] = "mutex" /\ u.use[q] = c
                      /\ u.lockq[c] # <<>> => u.locked[c]
                      /\ u.locked[c] <=> \E q \in T : u.use[q] = c /\ Locks(u, q)
                      /\ \A q, r \in T : u.use[q] = c /\ Locks(u, q) /\ u.use[r] = c /\ Locks(u, r) => q = r
                      /\ u.waiter[c] # NoTask =>
                           u.waiter[c] \in T /\ u.pc[u.waiter[c]] \in {"lock", "woken"} /\ u.use[u.waiter[c]] = c
    BY <1>2 DEF LockOK
  <2>1. /\ Once(s.lockq[c])
        /\ \A q \in Task : Has(s.lockq[c], q) => s.pc[q] = "mutex" /\ s.use[q] = c
        /\ s.lockq[c] # <<>> => s.locked[c]
        /\ s.locked[c] <=> \E q \in Task : s.use[q] = c /\ Locks(s, q)
        /\ \A q, r \in Task : s.use[q] = c /\ Locks(s, q) /\ s.use[r] = c /\ Locks(s, r) => q = r
        /\ s.waiter[c] # NoTask =>
             s.waiter[c] \in Task /\ s.pc[s.waiter[c]] \in {"lock", "woken"} /\ s.use[s.waiter[c]] = c
    BY <1>2 DEF IInv, Core, LockOK
  <2>2. s.pc[p] # "mutex"
    BY <1>1
  <2>3. u.waiter[c] # NoTask => c # b /\ u.waiter[c] = s.waiter[c]
    BY <1>5
  <2>4. u.waiter[c] # NoTask => u.waiter[c] # p
    BY <2>1, <2>3 DEF b
  <2> QED BY <2>1, <2>2, <2>3, <2>4, <1>4, <1>6
<1>9. WaitOK(u, T)
  BY <1>1, <1>4 DEF IInv, Core, WaitOK
<1>10. BlocksOK(u)
  BY <1>4 DEF IInv, Core, BlocksOK, Allocated
<1>11. CountOK(u, T, 0)
  <2>1. \A c : HoldersIn(u, T, c) = HoldersIn(s, Task, c)
    BY <1>4, <1>6 DEF HoldersIn
  <2>2. CountOK(s, Task, 0) /\ u.count = s.count
    BY <1>4 DEF IInv, Core
  <2> QED BY <2>1, <2>2 DEF CountOK
<1>12. Core(u, T, 0, 0)
  BY <1>4, <1>7, <1>8, <1>9, <1>10, <1>11 DEF Core
<1>13. b \in Allocated(u) /\ u.want[p] \in Block
  BY <1>3, <1>4 DEF Allocated
<1>14. Inv(Unlocked(u, p, b))
  BY <1>12, <1>13, UnlockedKeeps
<1> QED BY <1>1, <1>14 DEF u, b

\* A task that has the lock for its request goes on with the request.
LEMMA Advance ==
  ASSUME NEW p \in Task, NEW u \in CacheState, IInv, SameCache(s, u, Task \ {p}),
         s.pc[p] \in {"owner", "io"}, s.op[p] \in DevOp, u.pc[p] \in {"io", "done"},
         u.op[p] = s.op[p], u.use[p] = s.use[p], u.want[p] = s.want[p], u.req[p] = s.req[p]
  PROVE  Inv(u)
<1> DEFINE T == Task \ {p}
<1>1. Core(s, T, CountedIn(s, p), LockedBy(s, p)) /\ T \in SUBSET Task
  BY Leave DEF IInv
<1>2. Core(u, T, CountedIn(s, p), LockedBy(s, p))
  BY <1>1, Agree
<1>3. CountedIn(u, p) = CountedIn(s, p) /\ LockedBy(u, p) = LockedBy(s, p)
  BY DEF CountedIn, LockedBy, Counted, Locks
<1>4. TaskOK(s, p)
  BY DEF IInv, Core
<1>5. TaskOK(u, p)
  BY <1>4 DEF TaskOK, SameCache, Counted, Allocated, DevOp
<1>6. Core(u, Task, 0, 0)
  BY <1>2, <1>3, <1>5, Settle
<1>7. \A q \in Task : Busy(s, q) => Busy(u, q)
  BY DEF Busy, SameCache
<1>8. FullOK(u)
  BY <1>7 DEF FullOK, SameCache, IInv
<1> QED BY <1>6, <1>8 DEF Inv

\* The task that was handed the lock goes on.
LEMMA OwnerStep ==
  ASSUME IInv, Owner
  PROVE  Inv(s')
<1>1. PICK p \in Task :
        /\ s.pc[p] = "owner"
        /\ s' = IF s.op[p] = "write"
                THEN buffer_unlock(Modified(Return(s, p, s.use[p]), s.use[p]), s.use[p])
                ELSE Goto(s, p, "io")
  BY DEF Owner
<1>2. /\ s \in CacheState /\ TaskOK(s, p) /\ s.pc \in [Task -> Pc] /\ "io" \in Pc
      /\ s.op[p] \in DevOp \cup {"write", "none"}
  BY Types DEF IInv, Core, Pc
<1>3. CASE s.op[p] = "write"
  <2>1. Counted(s, p) /\ CountedIn(s, p) = s.use[p] /\ LockedBy(s, p) = s.use[p]
    BY <1>1, <1>3 DEF CountedIn, LockedBy, Counted, Locks
  <2>2. Core(s, Task \ {p}, s.use[p], s.use[p])
    BY <1>1, <2>1, Leave DEF IInv
  <2>3. s.use[p] \in Allocated(s) /\ s.blk[s.use[p]] = s.want[p] /\ s.vaild[s.use[p]]
    BY <1>2, <1>3, <2>1 DEF TaskOK
  <2> QED BY <1>1, <1>3, <2>2, <2>3, WriteAndUnlock
<1>4. CASE s.op[p] # "write"
  <2> DEFINE u == [s EXCEPT !.pc[p] = "io"]
  <2>1. s' = u /\ s.op[p] \in DevOp
    BY <1>1, <1>2, <1>4 DEF Goto, TaskOK
  <2>2. /\ u \in CacheState /\ SameCache(s, u, Task \ {p}) /\ u.pc[p] = "io"
        /\ u.op = s.op /\ u.use = s.use /\ u.want = s.want /\ u.req = s.req
    BY <1>2 DEF CacheState, SameCache
  <2> HIDE DEF u
  <2>3. Inv(u)
    BY <1>1, <2>1, <2>2, Advance
  <2> QED BY <2>1, <2>3
<1> QED BY <1>3, <1>4

\* device_request sends the request that waited.
LEMMA QueuedStep ==
  ASSUME IInv, Queued
  PROVE  Inv(s')
<1>1. PICK p \in Task : s.pc[p] = "queued" /\ s' = Turn(s, p)
  BY DEF Queued
<1> DEFINE h == CountedIn(s, p)
<1>2. s \in CacheState /\ TaskOK(s, p) /\ LockedBy(s, p) = 0 /\ 0 \notin Buf
  BY <1>1, Types DEF IInv, Core, LockedBy, Locks
<1>3. Core(s, Task \ {p}, h, 0)
  BY <1>1, <1>2, Leave DEF IInv
<1>4. Asks(s, p, h) /\ s.op[p] \in DevOp
  BY <1>1, <1>2 DEF Asks, TaskOK, CountedIn, Counted, DevOp
<1>5. s.op[p] = "sync" => FullIn(s, Task \ {p})
  BY <1>1, OtherBusy, SMTT(30) DEF Busy
<1> HIDE DEF h
<1> QED BY <1>1, <1>3, <1>4, <1>5, TurnKeeps

\* The drive has moved the data.
LEMMA DriveDoneStep ==
  ASSUME IInv, DriveDone
  PROVE  Inv(s')
<1>1. PICK p \in Task :
        /\ s.pc[p] = "io"
        /\ s' = Goto(IF s.op[p] = "bread"
                     THEN [s EXCEPT !.data[s.use[p]] = s.disk[s.req[p]]]
                     ELSE [s EXCEPT !.disk[s.req[p]] = s.data[s.use[p]]], p, "done")
  BY DEF DriveDone
<1> DEFINE b == s.use[p]
           n == s.req[p]
<1>2. /\ s \in CacheState /\ TaskOK(s, p) /\ s.data \in [Buf -> Contents]
      /\ s.disk \in [Block -> Contents] /\ s.pc \in [Task -> Pc] /\ "done" \in Pc
  BY Types DEF IInv, Core, Pc
<1>3. b \in Buf /\ n \in Block /\ s.op[p] \in DevOp
  BY <1>1, <1>2, Types DEF TaskOK
<1> HIDE DEF b, n
<1>4. /\ s' \in CacheState /\ SameCache(s, s', Task \ {p}) /\ s'.pc[p] = "done"
      /\ s'.op = s.op /\ s'.use = s.use /\ s'.want = s.want /\ s'.req = s.req
  <2>1. CASE s.op[p] = "bread"
    <3> DEFINE d == s.disk[n]
               u == [s EXCEPT !.data[b] = d, !.pc[p] = "done"]
    <3>1. s' = u
      BY <1>1, <2>1 DEF Goto, b, n
    <3>2. d \in Contents
      BY <1>2, <1>3
    <3> HIDE DEF d
    <3>3. /\ u \in CacheState /\ SameCache(s, u, Task \ {p}) /\ u.pc[p] = "done"
          /\ u.op = s.op /\ u.use = s.use /\ u.want = s.want /\ u.req = s.req
      BY <1>2, <1>3, <3>2 DEF CacheState, SameCache
    <3> QED BY <3>1, <3>3
  <2>2. CASE s.op[p] # "bread"
    <3> DEFINE d == s.data[b]
               u == [s EXCEPT !.disk[n] = d, !.pc[p] = "done"]
    <3>1. s' = u
      BY <1>1, <2>2 DEF Goto, b, n
    <3>2. d \in Contents
      BY <1>2, <1>3
    <3> HIDE DEF d
    <3>3. /\ u \in CacheState /\ SameCache(s, u, Task \ {p}) /\ u.pc[p] = "done"
          /\ u.op = s.op /\ u.use = s.use /\ u.want = s.want /\ u.req = s.req
      BY <1>2, <1>3, <3>2 DEF CacheState, SameCache
    <3> QED BY <3>1, <3>3
  <2> QED BY <2>1, <2>2
<1> QED BY <1>1, <1>3, <1>4, Advance

Ended(t, b) == [buffer_unlock(t, b) EXCEPT !.do_request = FALSE, !.dirty[b] = FALSE]

\* The end of device_request leaves the lock of b free or with its oldest waiter.
LEMMA RequestEnds ==
  ASSUME NEW p \in Task, NEW h, NEW t, NEW b \in Buf, Core(t, Task \ {p}, h, b)
  PROVE  LET u == Ended(t, b)
         IN /\ Core(u, Task \ {p}, h, 0)
            /\ FullIn(t, Task \ {p}) => FullIn(u, Task \ {p})
            /\ u.nalloc = t.nalloc /\ u.blk = t.blk /\ u.want = t.want
<1> DEFINE T == Task \ {p}
           x == buffer_unlock(t, b)
           u == [x EXCEPT !.do_request = FALSE, !.dirty[b] = FALSE]
<1>1. Core(x, T, h, 0) /\ (FullIn(t, T) => FullIn(x, T)) /\ SameButLock(t, x) /\ T \in SUBSET Task
  BY Unlock
<1> HIDE DEF x
<1>2. x \in CacheState
  BY <1>1 DEF Core
<1>3. u \in CacheState /\ SameCache(x, u, T) /\ u.want = x.want
  BY <1>2 DEF CacheState, SameCache
<1> HIDE DEF u
<1>4. Core(u, T, h, 0) /\ (FullIn(x, T) => FullIn(u, T))
  BY <1>1, <1>3, Agree
<1>5. u.nalloc = t.nalloc /\ u.blk = t.blk /\ u.want = t.want
  BY <1>1, <1>3 DEF SameCache, SameButLock
<1> QED BY <1>1, <1>4, <1>5 DEF Ended, u, x

\* A buffer that has been read in is valid.
LEMMA ReadIn ==
  ASSUME NEW p \in Task, NEW t, NEW b \in Allocated(t), Core(t, Task \ {p}, b, 0),
         t.blk[b] = t.want[p]
  PROVE  Inv(Return([t EXCEPT !.vaild[b] = TRUE], p, b))
<1> DEFINE T == Task \ {p}
           u == [t EXCEPT !.vaild[b] = TRUE]
<1>1. t \in CacheState /\ b \in Buf /\ T \in SUBSET Task /\ t.vaild \in [Buf -> BOOLEAN]
  BY Types DEF Core
<1>2. /\ u \in CacheState /\ SameButCount(t, u, T) /\ u.count = t.count
      /\ u.vaild[b] /\ u.blk = t.blk /\ u.want = t.want /\ Allocated(u) = Allocated(t)
  BY <1>1 DEF CacheState, SameButCount, Allocated
<1> HIDE DEF u
<1>3. CountOK(u, T, b)
  <2>1. \A c : HoldersIn(u, T, c) = HoldersIn(t, T, c)
    BY <1>2, SameHolders DEF SameButCount
  <2>2. CountOK(t, T, b) /\ u.count = t.count
    BY <1>2 DEF Core
  <2> QED BY <2>1, <2>2 DEF CountOK
<1>4. Core(u, T, b, 0)
  BY <1>1, <1>2, <1>3, Recount
<1>5. Inv(Return(u, p, b))
  BY <1>2, <1>4, ReturnHeld
<1> QED BY <1>5 DEF u

\* device_request returns to the cache.
LEMMA RequestDoneStep ==
  ASSUME IInv, RequestDone
  PROVE  Inv(s')
<1>1. PICK p \in Task :
        LET b == s.use[p]
            t == Ended(s, b)
        IN /\ s.pc[p] = "done"
           /\ s' = CASE s.op[p] = "bread" -> Return([t EXCEPT !.vaild[b] = TRUE], p, b)
                     [] s.op[p] = "getblk" -> Written(t, p, b)
                     [] s.op[p] = "brelse" -> WakeOne(t, p)
                     [] s.op[p] = "sync" -> sync_dev(t, p, b + 1)
  BY DEF RequestDone, Ended
<1> DEFINE T == Task \ {p}
           b == s.use[p]
           t == Ended(s, b)
           h == CountedIn(s, p)
<1>2. s \in CacheState /\ TaskOK(s, p) /\ LockedBy(s, p) = b
  BY <1>1 DEF IInv, Core, LockedBy, Locks
<1>3. b \in Allocated(s) /\ b \in Buf /\ s.op[p] \in DevOp
  BY <1>1, <1>2, Types DEF TaskOK
<1>4. Core(s, T, h, b)
  BY <1>1, <1>2, Leave DEF IInv
<1>5. /\ Core(t, T, h, 0) /\ (FullIn(s, T) => FullIn(t, T))
      /\ t.nalloc = s.nalloc /\ t.blk = s.blk /\ t.want = s.want
  <2> HIDE DEF b, h
  <2>1. b \in Buf
    BY <1>3
  <2>2. Core(t, T, h, 0)
    BY <1>4, <2>1, RequestEnds
  <2>3. FullIn(s, T) => FullIn(t, T)
    BY <1>4, <2>1, RequestEnds
  <2>4. t.nalloc = s.nalloc /\ t.blk = s.blk /\ t.want = s.want
    BY <1>4, <2>1, RequestEnds
  <2> QED BY <2>2, <2>3, <2>4
<1>6. b \in Allocated(t)
  BY <1>3, <1>5 DEF Allocated
<1> HIDE DEF t
<1>7. CASE s.op[p] = "bread"
  <2>1. h = b /\ t.blk[b] = t.want[p]
    BY <1>1, <1>2, <1>5, <1>7 DEF CountedIn, Counted, TaskOK
  <2>2. Inv(Return([t EXCEPT !.vaild[b] = TRUE], p, b))
    BY <1>5, <1>6, <2>1, ReadIn
  <2>3. s' = Return([t EXCEPT !.vaild[b] = TRUE], p, b)
    BY <1>1, <1>7 DEF t
  <2> QED BY <2>2, <2>3
<1>8. s.op[p] # "bread" => h = 0
  BY <1>1, <1>3 DEF CountedIn, Counted, DevOp
<1>9. CASE s.op[p] = "getblk"
  <2>1. t.want[p] \in Block
    BY <1>1, <1>2, <1>5, <1>9 DEF TaskOK
  <2>2. Inv(Written(t, p, b))
    BY <1>5, <1>6, <1>8, <1>9, <2>1, UnlockedKeeps
  <2>3. s' = Written(t, p, b)
    BY <1>1, <1>9 DEF t
  <2> QED BY <2>2, <2>3
<1>10. CASE s.op[p] = "brelse"
  <2>1. Inv(WakeOne(t, p))
    BY <1>5, <1>8, <1>10, WakeOneKeeps
  <2>2. s' = WakeOne(t, p)
    BY <1>1, <1>10 DEF t
  <2> QED BY <2>1, <2>2
<1>11. CASE s.op[p] = "sync"
  <2>1. FullIn(t, T)
    BY <1>1, <1>5, <1>11, OtherBusy DEF Busy
  <2>2. Inv(sync_dev(t, p, b + 1))
    BY <1>5, <1>8, <1>11, <2>1, SyncKeeps
  <2>3. s' = sync_dev(t, p, b + 1)
    BY <1>1, <1>11 DEF t
  <2> QED BY <2>2, <2>3
<1> QED BY <1>3, <1>7, <1>9, <1>10, <1>11 DEF DevOp

-----------------------------------------------------------------------------
(* The theorems *)

\* The empty cache.
LEMMA InitHolds ==
  ASSUME Init
  PROVE  IInv
<1>1. s \in CacheState
  <2>1. /\ NoBlock \in Block \cup {NoBlock} /\ 0 \in Nat /\ NoTask \in Task \cup {NoTask}
        /\ <<>> \in Seq(Task) /\ <<>> \in Seq(Buf) /\ 0 \in 0 .. NBuf /\ "run" \in Pc
        /\ "none" \in DevOp \cup {"write", "none"} /\ 0 \in Buf \cup {0}
    BY BufferAssumption DEF Pc
  <2>2. <<NoBlock, 0>> \in Contents /\ \A n \in Block : <<n, 0>> \in Contents
    BY BufferAssumption DEF Contents
  <2> QED BY <2>1, <2>2 DEF Init, CacheState
<1>2. /\ s.nalloc = 0 /\ s.free_list = <<>> /\ s.wait_list = <<>>
      /\ \A b \in Buf : s.lockq[b] = <<>> /\ ~s.locked[b] /\ s.waiter[b] = NoTask /\ s.count[b] = 0
      /\ \A q \in Task : s.pc[q] = "run"
  BY DEF Init
<1>3. Allocated(s) = {}
  BY <1>2 DEF Allocated
<1>4. \A q \in Task : ~Counted(s, q) /\ ~Locks(s, q) /\ TaskOK(s, q)
  BY <1>2 DEF Counted, Locks, TaskOK
<1>5. \A b \in Buf : b # 0
  BY <1>1, Types
<1>0. Once(<<>>) /\ \A e : ~Has(<<>>, e)
  BY DEF Once, Has
<1>6. LockOK(s, Task, 0)
  BY <1>0, <1>2, <1>4, <1>5 DEF LockOK
<1>7. WaitOK(s, Task)
  BY <1>0, <1>2 DEF WaitOK
<1>8. BlocksOK(s)
  BY <1>0, <1>2, <1>3 DEF BlocksOK
<1>9. CountOK(s, Task, 0)
  <2> SUFFICES ASSUME NEW b \in Buf
               PROVE  s.count[b] = Cardinality(HoldersIn(s, Task, b)) + (IF b = 0 THEN 1 ELSE 0)
    BY DEF CountOK
  <2>1. HoldersIn(s, Task, b) = {}
    BY <1>4 DEF HoldersIn
  <2> QED BY <2>1, <1>2, <1>5, FS_EmptySet
<1> QED BY <1>1, <1>2, <1>4, <1>6, <1>7, <1>8, <1>9 DEF IInv, Core, FullOK

\* Every step keeps the invariant.
LEMMA StepKeeps ==
  ASSUME IInv, [Next]_s
  PROVE  IInv'
<1>1. CASE UNCHANGED s
  BY <1>1 DEF IInv
<1>2. CASE Next
  <2>1. Inv(s')
    BY <1>2, BreadStep, ChangeStep, WriteStep, BrelseStep, SyncStep, RetryStep, WokenStep,
       OwnerStep, QueuedStep, DriveDoneStep, RequestDoneStep DEF Next
  <2> QED BY <2>1 DEF IInv, Inv
<1> QED BY <1>1, <1>2

\* The cache is always in the state the functions of buffer.c rely on: its lists
\* and counts agree with where the tasks are.
THEOREM CacheSafe == Spec => []IInv
<1>1. Init => IInv
  BY InitHolds
<1>2. IInv /\ [Next]_s => IInv'
  BY StepKeeps
<1> QED BY <1>1, <1>2, PTL DEF Spec

\* A block never has two buffers, although getblk blocks between its search of
\* the hash table and its insertion.
THEOREM OneBufferPerBlock == Spec => []OneCopy
<1>1. IInv => OneCopy
  <2> SUFFICES ASSUME IInv, NEW n \in Block PROVE Cardinality(InCache(s, n)) <= 1
    BY DEF OneCopy
  <2>1. \A a, b \in InCache(s, n) : a = b
    BY DEF InCache, IInv, Core, BlocksOK
  <2>2. CASE InCache(s, n) = {}
    BY <2>2, FS_EmptySet
  <2>3. CASE InCache(s, n) # {}
    <3>1. PICK a \in InCache(s, n) : InCache(s, n) = {a}
      BY <2>1, <2>3
    <3>2. Cardinality({a}) = 1
      BY FS_Singleton
    <3> QED BY <3>1, <3>2
  <2> QED BY <2>2, <2>3
<1> QED BY <1>1, CacheSafe, PTL

\* b_count counts the holders of a buffer, and no buffer changes its block under
\* a holder.
THEOREM HoldersKeepTheirBuffer == Spec => []HeldStable
<1>1. IInv => HeldStable
  <2> SUFFICES ASSUME IInv, NEW b \in Buf
               PROVE  /\ s.count[b] = Cardinality(Holders(b))
                      /\ \A p \in Holders(b) : s.blk[b] = s.want[p]
                      /\ \A p \in Holders(b) : s.pc[p] = "held" => s.vaild[b]
    BY DEF HeldStable
  <2>1. Holders(b) = HoldersIn(s, Task, b)
    BY DEF Holders, HoldersIn, Counted
  <2>2. s \in CacheState /\ b # 0 /\ s.count[b] \in Nat
    BY Types DEF IInv, Core
  <2>3. s.count[b] = Cardinality(HoldersIn(s, Task, b)) + (IF b = 0 THEN 1 ELSE 0)
    BY DEF IInv, Core, CountOK
  <2>4. Cardinality(HoldersIn(s, Task, b)) \in Nat
    BY BufferAssumption, FS_Subset, FS_CardinalityType DEF HoldersIn
  <2>5. s.count[b] = Cardinality(Holders(b))
    BY <2>1, <2>2, <2>3, <2>4
  <2>6. ASSUME NEW p \in Holders(b)
        PROVE  s.blk[b] = s.want[p] /\ (s.pc[p] = "held" => s.vaild[b])
    <3>1. p \in Task /\ s.use[p] = b /\ Counted(s, p)
      BY <2>1 DEF HoldersIn
    <3>2. TaskOK(s, p)
      BY <3>1 DEF IInv, Core
    <3> QED BY <3>1, <3>2 DEF TaskOK
  <2> QED BY <2>5, <2>6
<1> QED BY <1>1, CacheSafe, PTL

\* Nobody sleeps for the lock of a buffer that nobody has: mutex_unlock and
\* device_request wake whom they must.
THEOREM NoSleepAtAFreeLock == Spec => []LockWakes
<1>1. IInv => LockWakes
  <2> SUFFICES ASSUME IInv, NEW p \in Task, s.pc[p] \in {"lock", "mutex"}
               PROVE  \E q \in Task \ {p} : /\ s.use[q] = s.use[p]
                                            /\ s.pc[q] \in {"io", "done", "owner"}
    BY DEF LockWakes
  <2> DEFINE b == s.use[p]
  <2>1. s \in CacheState /\ TaskOK(s, p) /\ LockOK(s, Task, 0)
    BY DEF IInv, Core
  <2>2. b \in Buf /\ b # 0
    BY <2>1, Types DEF TaskOK
  <2>3. s.locked[b]
    <3>1. CASE s.pc[p] = "lock"
      BY <3>1, <2>1 DEF TaskOK
    <3>2. CASE s.pc[p] = "mutex"
      <4>1. Has(s.lockq[b], p)
        BY <3>2, <2>1 DEF TaskOK
      <4>2. s.lockq[b] # <<>>
        BY <4>1 DEF Has
      <4> QED BY <4>2, <2>1, <2>2 DEF LockOK
    <3> QED BY <3>1, <3>2
  <2>4. PICK q \in Task : s.use[q] = b /\ Locks(s, q)
    BY <2>1, <2>2, <2>3 DEF LockOK
  <2> QED BY <2>4 DEF Locks
<1> QED BY <1>1, CacheSafe, PTL

\* Nobody sleeps for a buffer with nobody left to wake him.
THEOREM NoSleepAlone == Spec => []FullWakes
<1>1. IInv => FullWakes
  BY DEF IInv, FullOK, Busy, FullWakes
<1> QED BY <1>1, CacheSafe, PTL

=============================================================================
