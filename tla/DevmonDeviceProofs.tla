------------------------- MODULE DevmonDeviceProofs -------------------------
(***************************************************************************)
(* Proofs about DevmonDevice, for any set of devices and any finite set of *)
(* services.  The type invariant, PendingCount, AwaitedOnce, SingleRound   *)
(* and DeviceHandleHeld support each other: pending_svcs stays a natural   *)
(* number only because it counts what is outstanding, it counts correctly  *)
(* only because a service is awaited once, and that holds only because     *)
(* rounds do not overlap.  So they are proved together, as Inv.            *)
(***************************************************************************)
EXTENDS DevmonDevice, FiniteSetTheorems, SequenceTheorems, TLAPS

-----------------------------------------------------------------------------
(* Queues: counting the messages in one, and their order *)

\* The number of messages of a kind in a queue is a natural number.
LEMMA NumType ==
    ASSUME NEW M, NEW q \in Seq(M), NEW K
    PROVE  /\ IsFiniteSet({i \in DOMAIN q : q[i] \in K})
           /\ Num(q, K) \in Nat
<1>1. DOMAIN q = 1..Len(q) /\ Len(q) \in Nat
  BY LenProperties
<1>2. IsFiniteSet(1..Len(q))
  BY <1>1, FS_Interval
<1>3. IsFiniteSet({i \in DOMAIN q : q[i] \in K})
  BY <1>1, <1>2, FS_Subset
<1> QED
  BY <1>3, FS_CardinalityType DEF Num

\* The queue of an empty connection holds nothing.
LEMMA NumEmpty ==
    ASSUME NEW K
    PROVE  Num(<<>>, K) = 0
<1>1. {i \in DOMAIN <<>> : <<>>[i] \in K} = {}
  OBVIOUS
<1> QED
  BY <1>1, FS_EmptySet DEF Num

\* A queue of one message.
LEMMA NumOne ==
    ASSUME NEW m, NEW K
    PROVE  Num(<<m>>, K) = IF m \in K THEN 1 ELSE 0
<1>1. CASE m \in K
  <2>1. {i \in DOMAIN <<m>> : <<m>>[i] \in K} = {1}
    BY <1>1
  <2> QED
    BY <1>1, <2>1, FS_Singleton DEF Num
<1>2. CASE m \notin K
  <2>1. {i \in DOMAIN <<m>> : <<m>>[i] \in K} = {}
    BY <1>2
  <2> QED
    BY <1>2, <2>1, FS_EmptySet DEF Num
<1> QED
  BY <1>1, <1>2

\* Messages sent in one callback add to those already queued.
LEMMA NumConcat ==
    ASSUME NEW M, NEW q \in Seq(M), NEW r \in Seq(M), NEW K
    PROVE  Num(q \o r, K) = Num(q, K) + Num(r, K)
<1> DEFINE A == {i \in DOMAIN q : q[i] \in K}
           B == {i \in DOMAIN r : r[i] \in K}
           C == {i \in DOMAIN (q \o r) : (q \o r)[i] \in K}
           D == {i \in C : i > Len(q)}
           f == [i \in B |-> i + Len(q)]
<1>1. /\ Len(q) \in Nat /\ DOMAIN q = 1..Len(q)
      /\ Len(r) \in Nat /\ DOMAIN r = 1..Len(r)
      /\ DOMAIN (q \o r) = 1..(Len(q) + Len(r))
  BY LenProperties, ConcatProperties
<1>2. /\ \A i \in 1..Len(q) : (q \o r)[i] = q[i]
      /\ \A i \in 1..Len(r) : (q \o r)[i + Len(q)] = r[i]
  BY <1>1
<1>3. C = A \cup D /\ A \cap D = {}
  BY <1>1, <1>2
<1>4. IsFiniteSet(A) /\ IsFiniteSet(B)
  BY NumType
<1>5. f \in Bijection(B, D)
  <2>1. f \in [B -> D]
    BY <1>1, <1>2
  <2>2. \A i, j \in B : f[i] = f[j] => i = j
    BY <1>1
  <2>3. \A k \in D : \E i \in B : f[i] = k
    <3> SUFFICES ASSUME NEW k \in D PROVE k - Len(q) \in B /\ f[k - Len(q)] = k
      OBVIOUS
    <3>1. k - Len(q) \in 1..Len(r) /\ (k - Len(q)) + Len(q) = k
      BY <1>1
    <3>2. r[k - Len(q)] = (q \o r)[k]
      BY <3>1, <1>2
    <3> QED
      BY <3>1, <3>2, <1>1
  <2> QED
    BY <2>1, <2>2, <2>3 DEF Bijection, Injection, Surjection, IsInjective
<1>6. IsFiniteSet(D) /\ Cardinality(D) = Cardinality(B)
  BY <1>4, <1>5, FS_Bijection DEF ExistsBijection
<1> HIDE DEF A, B, C, D
<1>7. Cardinality(C) = Cardinality(A) + Cardinality(D)
  <2>1. Cardinality(A \cup D) =
            Cardinality(A) + Cardinality(D) - Cardinality(A \cap D)
    BY <1>4, <1>6, FS_Union
  <2>2. Cardinality(A \cap D) = 0
    BY <1>3, FS_EmptySet
  <2>3. Cardinality(A) \in Nat /\ Cardinality(D) \in Nat
    BY <1>4, <1>6, FS_CardinalityType
  <2> QED
    BY <1>3, <2>1, <2>2, <2>3
<1> QED
  BY <1>6, <1>7 DEF Num, A, B, C

\* Appending one message.
LEMMA NumAppend ==
    ASSUME NEW M, NEW q \in Seq(M), NEW m \in M, NEW K
    PROVE  Num(Append(q, m), K) = Num(q, K) + (IF m \in K THEN 1 ELSE 0)
<1>1. Append(q, m) = q \o <<m>> /\ <<m>> \in Seq(M)
  BY AppendIsConcat
<1>2. Num(q \o <<m>>, K) = Num(q, K) + Num(<<m>>, K)
  BY <1>1, NumConcat
<1> QED
  BY <1>1, <1>2, NumOne

\* Taking the first message.
LEMMA NumTail ==
    ASSUME NEW M, NEW q \in Seq(M), q # <<>>, NEW K
    PROVE  Num(q, K) = Num(Tail(q), K) + (IF Head(q) \in K THEN 1 ELSE 0)
<1>1. /\ Head(q) \in M /\ Tail(q) \in Seq(M)
      /\ <<Head(q)>> \in Seq(M)
  BY HeadTailProperties
<1>2. q = <<Head(q)>> \o Tail(q)
  BY <1>1, HeadTailProperties, ConcatSimplifications
<1>3. Num(<<Head(q)>> \o Tail(q), K) = Num(<<Head(q)>>, K) + Num(Tail(q), K)
  BY <1>1, NumConcat
<1>4. Num(Tail(q), K) \in Nat /\ Num(<<Head(q)>>, K) \in Nat
  BY <1>1, NumType
<1>5. Num(q, K) = Num(<<Head(q)>>, K) + Num(Tail(q), K)
  BY <1>2, <1>3, Zenon
<1>6. Num(<<Head(q)>>, K) = IF Head(q) \in K THEN 1 ELSE 0
  BY NumOne
<1> QED
  BY <1>4, <1>5, <1>6

\* A queue of messages that are all of the kind.
LEMMA NumAll ==
    ASSUME NEW M, NEW q \in Seq(M), NEW K, \A i \in DOMAIN q : q[i] \in K
    PROVE  Num(q, K) = Len(q)
<1>1. DOMAIN q = 1..Len(q) /\ Len(q) \in Nat
  BY LenProperties
<1>2. {i \in DOMAIN q : q[i] \in K} = 1..Len(q)
  BY <1>1
<1>3. Cardinality(1..Len(q)) = Len(q)
  BY <1>1, FS_Interval
<1> QED
  BY <1>2, <1>3 DEF Num

\* A queue without a message of the kind.
LEMMA NumNone ==
    ASSUME NEW q, NEW K, \A i \in DOMAIN q : q[i] \notin K
    PROVE  Num(q, K) = 0
<1>1. {i \in DOMAIN q : q[i] \in K} = {}
  OBVIOUS
<1> QED
  BY <1>1, FS_EmptySet DEF Num

\* A queue in which at most one place is of the kind.
LEMMA NumAtMostOne ==
    ASSUME NEW q, NEW K,
           \A i, j \in DOMAIN q : q[i] \in K /\ q[j] \in K => i = j
    PROVE  Num(q, K) \in {0, 1}
<1> DEFINE A == {i \in DOMAIN q : q[i] \in K}
<1>1. CASE A = {}
  BY <1>1, FS_EmptySet DEF Num
<1>2. CASE A # {}
  <2> PICK i \in A : TRUE
    BY <1>2
  <2>1. A = {i}
    OBVIOUS
  <2> QED
    BY <2>1, FS_Singleton DEF Num
<1> QED
  BY <1>1, <1>2

\* A narrower kind counts no more messages.
LEMMA NumSubset ==
    ASSUME NEW M, NEW q \in Seq(M), NEW K, NEW L, K \subseteq L
    PROVE  Num(q, K) <= Num(q, L)
<1>1. {i \in DOMAIN q : q[i] \in K} \subseteq {i \in DOMAIN q : q[i] \in L}
  OBVIOUS
<1>2. IsFiniteSet({i \in DOMAIN q : q[i] \in L})
  BY NumType
<1> QED
  BY <1>1, <1>2, FS_Subset DEF Num

\* An order of a finite set lists each element exactly once.
LEMMA OrdersType ==
    ASSUME NEW S, IsFiniteSet(S), NEW q \in Orders(S)
    PROVE  /\ q \in Seq(S) /\ Len(q) = Cardinality(S)
           /\ DOMAIN q = 1..Cardinality(S)
           /\ Cardinality(S) \in Nat
           /\ \A i, j \in DOMAIN q : q[i] = q[j] => i = j
<1>1. Cardinality(S) \in Nat
  BY FS_CardinalityType
<1>2. q \in [1..Cardinality(S) -> S] /\ IsInjective(q)
  BY DEF Orders, Bijection, Injection
<1> QED
  BY <1>1, <1>2, IsASeq DEF IsInjective

\* Sending two batches one after the other is sending them as one.
LEMMA ConcatTwo ==
    ASSUME NEW M, NEW a \in Seq(M), NEW b \in Seq(M), NEW c \in Seq(M)
    PROVE  b \o c \in Seq(M) /\ (a \o b) \o c = a \o (b \o c)
<1>1. b \o c \in Seq(M)
  BY ConcatProperties
<1>2. (a \o b) \o c = a \o (b \o c)
  BY ConcatAssociative
<1> QED
  BY <1>1, <1>2

\* None counted, none there.
LEMMA NumZero ==
    ASSUME NEW M, NEW q \in Seq(M), NEW K, Num(q, K) = 0, NEW i \in DOMAIN q
    PROVE  q[i] \notin K
<1>1. IsFiniteSet({j \in DOMAIN q : q[j] \in K})
  BY NumType
<1>2. {j \in DOMAIN q : q[j] \in K} = {}
  BY <1>1, FS_EmptySet DEF Num
<1> QED
  BY <1>2

-----------------------------------------------------------------------------
(* The order of messages *)

\* Every message of A in the queue is in front of every message of B
Before(q, A, B) ==
    \A i, j \in DOMAIN q : q[i] \in A /\ q[j] \in B => i < j

\* A queue whose head has been taken.
LEMMA BeforeTail ==
    ASSUME NEW M, NEW q \in Seq(M), q # <<>>, NEW A, NEW B, Before(q, A, B)
    PROVE  Before(Tail(q), A, B)
<1>1. /\ Len(q) \in Nat /\ DOMAIN q = 1..Len(q) /\ Tail(q) \in Seq(M)
      /\ Len(Tail(q)) = Len(q) - 1 /\ DOMAIN Tail(q) = 1..(Len(q) - 1)
      /\ \A i \in 1..(Len(q) - 1) : Tail(q)[i] = q[i + 1]
  BY HeadTailProperties, LenProperties
<1> SUFFICES ASSUME NEW i \in DOMAIN Tail(q), NEW j \in DOMAIN Tail(q),
                    Tail(q)[i] \in A, Tail(q)[j] \in B
             PROVE  i < j
  BY DEF Before
<1>2. i + 1 \in DOMAIN q /\ j + 1 \in DOMAIN q /\ q[i + 1] \in A /\ q[j + 1] \in B
  BY <1>1
<1>3. i + 1 < j + 1
  BY <1>2 DEF Before
<1> QED
  BY <1>1, <1>3

\* Two queues, one behind the other.
LEMMA BeforeConcat ==
    ASSUME NEW M, NEW q \in Seq(M), NEW r \in Seq(M), NEW A, NEW B,
           Before(q, A, B), Before(r, A, B), Num(q, B) = 0 \/ Num(r, A) = 0
    PROVE  Before(q \o r, A, B)
<1> DEFINE c == q \o r
<1>1. /\ Len(q) \in Nat /\ DOMAIN q = 1..Len(q)
      /\ Len(r) \in Nat /\ DOMAIN r = 1..Len(r)
      /\ DOMAIN c = 1..(Len(q) + Len(r))
      /\ \A i \in 1..(Len(q) + Len(r)) :
            c[i] = IF i <= Len(q) THEN q[i] ELSE r[i - Len(q)]
  BY LenProperties, ConcatProperties
<1>2. /\ Num(q, B) = 0 => \A i \in DOMAIN q : q[i] \notin B
      /\ Num(r, A) = 0 => \A i \in DOMAIN r : r[i] \notin A
  BY NumZero
<1> HIDE DEF c
<1> SUFFICES ASSUME NEW i \in DOMAIN c, NEW j \in DOMAIN c, c[i] \in A, c[j] \in B
             PROVE  i < j
  BY DEF Before, c
<1>3. CASE i <= Len(q) /\ j <= Len(q)
  <2>1. i \in DOMAIN q /\ j \in DOMAIN q /\ q[i] \in A /\ q[j] \in B
    BY <1>1, <1>3
  <2> QED
    BY <2>1 DEF Before
<1>4. CASE i <= Len(q) /\ j > Len(q)
  BY <1>1, <1>4
<1>5. CASE i > Len(q) /\ j > Len(q)
  <2>1. /\ i - Len(q) \in DOMAIN r /\ j - Len(q) \in DOMAIN r
        /\ r[i - Len(q)] \in A /\ r[j - Len(q)] \in B
    BY <1>1, <1>5
  <2>2. i - Len(q) < j - Len(q)
    BY <2>1 DEF Before
  <2> QED
    BY <1>1, <2>2
<1>6. CASE i > Len(q) /\ j <= Len(q)
  <2>1. i - Len(q) \in DOMAIN r /\ r[i - Len(q)] \in A /\ j \in DOMAIN q /\ q[j] \in B
    BY <1>1, <1>6
  <2> QED
    BY <1>2, <2>1
<1> QED
  BY <1>1, <1>3, <1>4, <1>5, <1>6

\* What is in front of the head of a queue: nothing.
LEMMA BeforeHead ==
    ASSUME NEW M, NEW q \in Seq(M), q # <<>>, NEW A, NEW B, Before(q, A, B),
           Head(q) \in B
    PROVE  Num(q, A) = 0
<1>1. Len(q) \in Nat /\ DOMAIN q = 1..Len(q) /\ 1 \in DOMAIN q /\ q[1] = Head(q)
  BY HeadTailProperties, LenProperties, EmptySeq
<1>2. \A i \in DOMAIN q : q[i] \notin A
  BY <1>1 DEF Before
<1> QED
  BY <1>2, NumNone

\* Some counted, one there.
LEMMA NumSome ==
    ASSUME NEW q, NEW K, Num(q, K) # 0
    PROVE  \E i \in DOMAIN q : q[i] \in K
BY NumNone

-----------------------------------------------------------------------------
(* The inductive invariant, by device and with the counts as parameters *)

Busy(r) == IF r.pending_svcs > 0 THEN 1 ELSE 0

RoundOK(r, ld, ds, ls, w) ==
    /\ r.pending_svcs = ls + w
    /\ ld + ds + Busy(r) <= 1
    /\ ~r.processing => ld + ds + Busy(r) = 0
    /\ r.processing /\ r.dsvcset \cup r.psvcset # {} => ld + ds + Busy(r) = 1
    /\ ds + ls > 0 => r.device_svc

Acct(d) == RoundOK(dev[d], InFlight("load_dev", d), InFlight("dep_sys", d),
                   InFlight("load_sub", d), Cardinality(Watched(d)))

Once(d) ==
    \A s \in Services :
        Total(AddLoad(d, s)) + (IF <<d, s>> \in map_svcdev THEN 1 ELSE 0) <= 1

Inv == TypeOK /\ \A d \in Devices : Acct(d) /\ Once(d)

\* Messages about a service name one
SubOps == {"load_sub", "dep_sub", "wake", "event"}
Proper == {m \in Message : m.op \in SubOps => m.s \in Services}
Named == out \in Seq(Proper) /\ inn \in Seq(Proper)

IInv == Inv /\ Named

-----------------------------------------------------------------------------
(* Kinds of messages and their counts *)

\* Membership in a kind of message is a matter of the message's fields.
LEMMA KindMember ==
    ASSUME NEW m \in Message
    PROVE  /\ \A op \in Ops, e \in Devices :
                 m \in Kind(op, e) <=> m.op = op /\ m.d = e
           /\ \A e \in Devices, s \in Services :
                 m \in AddLoad(e, s) <=>
                    m.op = "load_sub" /\ m.d = e /\ m.s = s /\ ~m.rem
  BY DEF Message, Kind, AddLoad, Ops

\* The counts of messages under way are natural numbers.
LEMMA TotalType ==
    ASSUME TypeOK, NEW K
    PROVE  Total(K) \in Nat
<1>1. out \in Seq(Message) /\ inn \in Seq(Message)
  BY DEF TypeOK
<1>2. Num(out, K) \in Nat /\ Num(inn, K) \in Nat
  BY <1>1, NumType
<1> QED
  BY <1>2 DEF Total

\* The services watched for a device are a finite set.
LEMMA WatchedType ==
    ASSUME NEW d
    PROVE  IsFiniteSet(Watched(d)) /\ Cardinality(Watched(d)) \in Nat
<1>1. IsFiniteSet(Watched(d))
  BY DeviceAssumption, FS_Subset DEF Watched
<1> QED
  BY <1>1, FS_CardinalityType

\* A dispatched message leaves the counts, what its callback sends joins them.
LEMMA DispatchTotal ==
    ASSUME TypeOK, inn # <<>>, inn' = Tail(inn),
           NEW sent \in Seq(Message), out' = out \o sent,
           NEW K
    PROVE  /\ Total(K)' = Total(K) - (IF Head(inn) \in K THEN 1 ELSE 0)
                          + Num(sent, K)
           /\ Head(inn) \in K => Total(K) > 0
           /\ Total(K)' \in Nat /\ Total(K) \in Nat /\ Num(sent, K) \in Nat
<1>1. inn \in Seq(Message) /\ out \in Seq(Message) /\ Tail(inn) \in Seq(Message)
  BY HeadTailProperties DEF TypeOK
<1>2. Num(out \o sent, K) = Num(out, K) + Num(sent, K)
  BY <1>1, NumConcat
<1>3. Num(inn, K) = Num(Tail(inn), K) + (IF Head(inn) \in K THEN 1 ELSE 0)
  BY <1>1, NumTail
<1>4. /\ Num(out, K) \in Nat /\ Num(sent, K) \in Nat
      /\ Num(inn, K) \in Nat /\ Num(Tail(inn), K) \in Nat
  BY <1>1, NumType
<1>5. Total(K)' = Num(out \o sent, K) + Num(Tail(inn), K)
  BY DEF Total
<1>6. Total(K) = Num(out, K) + Num(inn, K)
  BY DEF Total
<1> QED
  BY <1>2, <1>3, <1>4, <1>5, <1>6

\* A sent message alone: how it counts.
LEMMA SentOne ==
    ASSUME NEW m \in Message
    PROVE  /\ <<m>> \in Seq(Message)
           /\ \A K : Num(<<m>>, K) = IF m \in K THEN 1 ELSE 0
<1>1. <<m>> \in Seq(Message)
  OBVIOUS
<1>2. \A K : Num(<<m>>, K) = IF m \in K THEN 1 ELSE 0
  <2> TAKE K
  <2> QED BY NumOne
<1> QED
  BY <1>1, <1>2

-----------------------------------------------------------------------------
(* device::process *)

\* process() keeps the type of the object, releases the device's handle and
\* leaves the device processing exactly when an event was pending.
LEMMA ProcessType ==
    ASSUME NEW r \in DeviceRec
    PROVE  /\ process(r) \in DeviceRec
           /\ process(r).pending_svcs = r.pending_svcs
           /\ process(r).processing = r.pending
           /\ process(r).pending = FALSE
  BY DEF DeviceRec, process, Shuffled

\* It sends the load of the device's service iff an event was pending.
LEMMA ProcessRequestType ==
    ASSUME NEW r \in DeviceRec, NEW d \in Devices
    PROVE  /\ processRequest(d, r) \in Seq(Message)
           /\ \A op \in Ops, e \in Devices :
                 Num(processRequest(d, r), Kind(op, e)) =
                    IF r.pending /\ op = "load_dev" /\ e = d THEN 1 ELSE 0
           /\ \A e \in Devices, s \in Services :
                 Num(processRequest(d, r), AddLoad(e, s)) = 0
<1> DEFINE m == Msg("load_dev", d, NoService, r.removed, "")
<1>1. m \in Message /\ m.op = "load_dev" /\ m.d = d
  BY DEF Message, Msg, Ops, Args, DeviceRec
<1>2. CASE r.pending
  <2>1. processRequest(d, r) = <<m>>
    BY <1>2 DEF processRequest
  <2>2. \A op \in Ops, e \in Devices :
           m \in Kind(op, e) <=> op = "load_dev" /\ e = d
    BY <1>1, KindMember
  <2>3. \A e \in Devices, s \in Services : m \notin AddLoad(e, s)
    BY <1>1, KindMember
  <2> HIDE DEF m
  <2> QED
    BY <1>1, <1>2, <2>1, <2>2, <2>3, SentOne
<1>3. CASE ~r.pending
  <2>1. processRequest(d, r) = <<>>
    BY <1>3 DEF processRequest
  <2> QED
    BY <1>3, <2>1, NumEmpty
<1> QED
  BY <1>2, <1>3 DEF DeviceRec

-----------------------------------------------------------------------------
(* What a callback does to the accounts of its device *)

Tracked == {"load_dev", "dep_sys", "load_sub"}

\* Decrementing the count of a device that waits for something.
LEMMA DecrementType ==
    ASSUME NEW r \in DeviceRec, r.pending_svcs > 0
    PROVE  LET q == [r EXCEPT !.pending_svcs = @ - 1]
           IN  /\ q \in DeviceRec /\ q.pending_svcs = r.pending_svcs - 1
               /\ q.processing = r.processing /\ q.device_svc = r.device_svc
               /\ q.dsvcset = r.dsvcset /\ q.psvcset = r.psvcset
  BY DEF DeviceRec

\* A service resolves: with the last one the round ends.
LEMMA ResolveOK ==
    ASSUME NEW r \in DeviceRec, NEW ld \in Nat, NEW ds \in Nat, NEW ls \in Nat,
           NEW w \in Nat, NEW ls2 \in Nat, NEW w2 \in Nat,
           RoundOK(r, ld, ds, ls, w), ls2 + w2 + 1 = ls + w, ls2 <= ls,
           NEW q \in DeviceRec, q.pending_svcs = r.pending_svcs - 1,
           q.processing = r.processing, q.device_svc = r.device_svc,
           q.dsvcset = r.dsvcset, q.psvcset = r.psvcset
    PROVE  /\ q.pending_svcs = 0 =>
                RoundOK(process(q), ld + (IF q.pending THEN 1 ELSE 0), ds, ls2, w2)
           /\ q.pending_svcs # 0 => RoundOK(q, ld, ds, ls2, w2)
<1>1. r.pending_svcs \in Nat /\ r.pending_svcs > 0
  BY DEF RoundOK, DeviceRec
<1>2. q.pending_svcs \in Nat
  BY DEF DeviceRec
<1>3. ASSUME q.pending_svcs = 0
      PROVE RoundOK(process(q), ld + (IF q.pending THEN 1 ELSE 0), ds, ls2, w2)
  <2>1. /\ process(q).pending_svcs = 0
        /\ process(q).processing = q.pending
    BY <1>2, <1>3, ProcessType
  <2>2. ld = 0 /\ ds = 0 /\ ls2 = 0 /\ w2 = 0
    BY <1>1, <1>2, <1>3 DEF RoundOK, Busy
  <2>3. q.pending \in BOOLEAN
    BY <1>2 DEF DeviceRec
  <2> QED
    BY <2>1, <2>2, <2>3 DEF RoundOK, Busy
<1>4. ASSUME q.pending_svcs # 0
      PROVE RoundOK(q, ld, ds, ls2, w2)
  <2>2. Busy(q) = 1 /\ Busy(r) = 1
    BY <1>1, <1>2, <1>4 DEF Busy
  <2>3. ld + ds = 0 /\ r.processing /\ ls2 + w2 = q.pending_svcs
    BY <2>2, <1>1, <1>2 DEF RoundOK
  <2> QED
    BY <2>2, <2>3 DEF RoundOK
<1> QED
  BY <1>3, <1>4

\* A load is answered and the service watched instead.
LEMMA WatchOK ==
    ASSUME NEW r, NEW ld \in Nat, NEW ds \in Nat, NEW ls \in Nat, NEW w \in Nat,
           RoundOK(r, ld, ds, ls, w), ls > 0
    PROVE  RoundOK(r, ld, ds, ls - 1, w + 1)
  BY DEF RoundOK

\* The load of the device's service fails: the round ends there.
LEMMA LoadFailOK ==
    ASSUME NEW r \in DeviceRec, NEW ld \in Nat, NEW ds \in Nat, NEW ls \in Nat,
           NEW w \in Nat, RoundOK(r, ld, ds, ls, w), ld > 0
    PROVE  RoundOK(process(r), (ld - 1) + (IF r.pending THEN 1 ELSE 0), ds, ls, w)
<1>1. r.pending_svcs \in Nat /\ r.pending \in BOOLEAN
  BY DEF DeviceRec
<1>2. ld = 1 /\ ds = 0 /\ r.pending_svcs = 0
  BY <1>1 DEF RoundOK, Busy
<1>3. ls = 0 /\ w = 0
  BY <1>2 DEF RoundOK
<1>4. process(r).pending_svcs = 0 /\ process(r).processing = r.pending
  BY <1>2, ProcessType
<1> QED
  BY <1>1, <1>2, <1>3, <1>4 DEF RoundOK, Busy

\* The device's service is loaded: the request to attach it takes over.
LEMMA AttachOK ==
    ASSUME NEW r \in DeviceRec, NEW ld \in Nat, NEW ds \in Nat, NEW ls \in Nat,
           NEW w \in Nat, RoundOK(r, ld, ds, ls, w), ld > 0,
           NEW q \in DeviceRec, q.pending_svcs = r.pending_svcs, q.device_svc,
           q.processing = r.processing, q.dsvcset = r.dsvcset,
           q.psvcset = r.psvcset
    PROVE  RoundOK(q, ld - 1, ds + 1, ls, w)
<1>1. r.pending_svcs \in Nat /\ Busy(q) = Busy(r) /\ Busy(r) \in {0, 1}
  BY DEF DeviceRec, Busy
<1> QED
  BY <1>1 DEF RoundOK

\* It is attached: the services of the round take over, if there are any.
LEMMA SubPhaseOK ==
    ASSUME NEW r \in DeviceRec, NEW ld \in Nat, NEW ds \in Nat, NEW ls \in Nat,
           NEW w \in Nat, RoundOK(r, ld, ds, ls, w), ds > 0,
           NEW n \in Nat, r.dsvcset \cup r.psvcset # {} => n > 0,
           NEW q \in DeviceRec, q.pending_svcs = n, q.device_svc = r.device_svc,
           q.processing = r.processing, q.dsvcset = r.dsvcset,
           q.psvcset = r.psvcset
    PROVE  /\ ls = 0 /\ w = 0
           /\ RoundOK(q, ld, ds - 1, ls + n, w)
<1>1. r.pending_svcs \in Nat /\ Busy(r) \in {0, 1} /\ Busy(q) \in {0, 1}
      /\ (Busy(r) = 0 <=> r.pending_svcs = 0) /\ (Busy(q) = 0 <=> n = 0)
  BY DEF DeviceRec, Busy
<1>2. ld = 0 /\ ds = 1 /\ r.pending_svcs = 0 /\ r.processing
  BY <1>1 DEF RoundOK
<1>3. ls = 0 /\ w = 0 /\ r.device_svc
  BY <1>2 DEF RoundOK
<1>4. RoundOK(q, ld, ds - 1, ls + n, w)
  BY <1>1, <1>2, <1>3 DEF RoundOK
<1> QED
  BY <1>3, <1>4

\* A round is started over an idle device.
LEMMA StartOK ==
    ASSUME NEW r \in DeviceRec, NEW ld \in Nat, NEW ds \in Nat, NEW ls \in Nat,
           NEW w \in Nat, RoundOK(r, ld, ds, ls, w), ~r.processing,
           NEW p \in DeviceRec, p.pending, p.pending_svcs = r.pending_svcs
    PROVE  RoundOK(process(p), ld + 1, ds, ls, w)
<1>1. r.pending_svcs \in Nat
  BY DEF DeviceRec
<1>2. ld = 0 /\ ds = 0 /\ r.pending_svcs = 0
  BY <1>1 DEF RoundOK, Busy
<1>3. ls = 0 /\ w = 0
  BY <1>2 DEF RoundOK
<1>4. process(p).pending_svcs = 0 /\ process(p).processing
  BY <1>2, ProcessType
<1> QED
  BY <1>2, <1>3, <1>4 DEF RoundOK, Busy

-----------------------------------------------------------------------------
(* Types *)

\* The message at the head of the inbox, and what is left behind it.
LEMMA HeadType ==
    ASSUME TypeOK, inn # <<>>
    PROVE  /\ Head(inn) \in Message /\ Tail(inn) \in Seq(Message)
           /\ Head(inn).d \in Devices /\ Head(inn).rem \in BOOLEAN
           /\ Head(inn).s \in Services \cup {NoService}
<1>1. inn \in Seq(Message)
  BY DEF TypeOK
<1>2. Head(inn) \in Message /\ Tail(inn) \in Seq(Message)
  BY <1>1, HeadTailProperties
<1> QED
  BY <1>2 DEF Message

\* What clients have been told stays a pair of bytes.
LEMMA ReadyType ==
    ASSUME TypeOK, NEW d \in Devices, NEW r, NEW st \in Byte
    PROVE  [told EXCEPT ![d] = ready(told[d], r, st)]
              \in [Devices -> [sys : Byte, name : Byte]]
  BY DEF TypeOK, ready

\* The messages devmon sends have the type of messages.
LEMMA MsgType ==
    ASSUME NEW op \in Ops, NEW d \in Devices, NEW s \in Services \cup {NoService},
           NEW rem \in BOOLEAN, NEW arg \in Args
    PROVE  /\ Msg(op, d, s, rem, arg) \in Message
           /\ Msg(op, d, s, rem, arg).op = op
           /\ Msg(op, d, s, rem, arg).d = d
           /\ Msg(op, d, s, rem, arg).s = s
           /\ Msg(op, d, s, rem, arg).rem = rem
           /\ Msg(op, d, s, rem, arg).arg = arg
  BY DEF Msg, Message

\* A batch that drives no round
Idle(sent) ==
    /\ \A op \in Tracked, e \in Devices : Num(sent, Kind(op, e)) = 0
    /\ \A e \in Devices, s \in Services : Num(sent, AddLoad(e, s)) = 0

\* Messages that drive no round: a dependency or wake request, an event.
LEMMA Untracked ==
    ASSUME NEW m \in Message, m.op \notin Tracked
    PROVE  <<m>> \in Seq(Message) /\ Idle(<<m>>)
<1>1. \A op \in Tracked, e \in Devices : m \notin Kind(op, e)
  BY KindMember DEF Tracked, Ops
<1>2. \A e \in Devices, s \in Services : m \notin AddLoad(e, s)
  BY KindMember DEF Tracked
<1> QED
  BY <1>1, <1>2, SentOne DEF Idle

-----------------------------------------------------------------------------
(* The callbacks in which a service resolves *)

\* What Resolved() leaves behind when all it sends is `full`
ResolvedPost(d, q, full) ==
    /\ out' = out \o full
    /\ \A op \in Tracked, e \in Devices :
          Num(full, Kind(op, e)) =
             IF q.pending_svcs = 0 /\ q.pending /\ op = "load_dev" /\ e = d
             THEN 1 ELSE 0
    /\ \A e \in Devices, s \in Services : Num(full, AddLoad(e, s)) = 0
    /\ dev' = [dev EXCEPT ![d] = IF q.pending_svcs = 0 THEN process(q) ELSE q]
    /\ dev' \in [Devices -> DeviceRec]
    /\ told' \in [Devices -> [sys : Byte, name : Byte]]

\* Resolved() sends what it is given and, at the end of a round with an event
\* pending, the load that starts the next one.
LEMMA ResolvedEffect ==
    ASSUME TypeOK, NEW d \in Devices, NEW q \in DeviceRec,
           NEW sent \in Seq(Message), Idle(sent), Resolved(d, q, sent)
    PROVE  \E full \in Seq(Message) : ResolvedPost(d, q, full)
<1> USE DEF Tracked, Idle, ResolvedPost
<1>0. out \in Seq(Message) /\ dev \in [Devices -> DeviceRec]
  BY DEF TypeOK
<1>1. CASE q.pending_svcs = 0
  <2> DEFINE pr == processRequest(d, q)
  <2>1. ProcessStep(d, q, sent)
    BY <1>1 DEF Resolved
  <2>2. pr \in Seq(Message)
    BY ProcessRequestType
  <2>3. out' = (out \o sent) \o pr
    BY <2>1 DEF ProcessStep
  <2>4. sent \o pr \in Seq(Message) /\ out' = out \o (sent \o pr)
    <3> HIDE DEF pr
    <3>1. sent \o pr \in Seq(Message) /\ (out \o sent) \o pr = out \o (sent \o pr)
      BY <1>0, <2>2, ConcatTwo, SMTT(60)
    <3> QED
      BY <2>3, <3>1, Zenon
  <2>5. \A op \in Tracked, e \in Devices :
           Num(sent \o pr, Kind(op, e)) =
              IF q.pending /\ op = "load_dev" /\ e = d THEN 1 ELSE 0
    <3> TAKE op \in Tracked, e \in Devices
    <3>1. Num(sent \o pr, Kind(op, e)) =
             Num(sent, Kind(op, e)) + Num(pr, Kind(op, e))
      BY <2>2, NumConcat
    <3>2. Num(pr, Kind(op, e)) =
             IF q.pending /\ op = "load_dev" /\ e = d THEN 1 ELSE 0
      BY ProcessRequestType DEF Ops
    <3>3. Num(sent, Kind(op, e)) = 0
      OBVIOUS
    <3> HIDE DEF pr
    <3> QED
      BY <3>1, <3>2, <3>3
  <2>6. \A e \in Devices, s \in Services : Num(sent \o pr, AddLoad(e, s)) = 0
    <3> TAKE e \in Devices, s \in Services
    <3>1. Num(sent \o pr, AddLoad(e, s)) =
             Num(sent, AddLoad(e, s)) + Num(pr, AddLoad(e, s))
      BY <2>2, NumConcat
    <3>2. Num(pr, AddLoad(e, s)) = 0
      BY ProcessRequestType
    <3>3. Num(sent, AddLoad(e, s)) = 0
      OBVIOUS
    <3> HIDE DEF pr
    <3> QED
      BY <3>1, <3>2, <3>3
  <2>7. dev' = [dev EXCEPT ![d] = process(q)] /\ process(q) \in DeviceRec
    BY <2>1, ProcessType DEF ProcessStep
  <2>8. told' \in [Devices -> [sys : Byte, name : Byte]]
    <3>1. processByte(q) \in Byte
      BY DEF processByte, Byte
    <3> QED
      BY <2>1, <3>1, ReadyType DEF ProcessStep
  <2> HIDE DEF pr
  <2> sent \o pr \in Seq(Message)
    BY <2>4
  <2> WITNESS sent \o pr \in Seq(Message)
  <2> QED
    BY <1>0, <1>1, <2>4, <2>5, <2>6, <2>7, <2>8
<1>2. CASE q.pending_svcs # 0
  <2>1. dev' = [dev EXCEPT ![d] = q] /\ out' = out \o sent /\ told' = told
    BY <1>2 DEF Resolved
  <2> WITNESS sent \in Seq(Message)
  <2> QED
    BY <1>0, <1>2, <2>1 DEF TypeOK
<1> QED
  BY <1>1, <1>2

\* A callback in which a service resolves keeps the accounts: the service was
\* counted, by the load being answered or by its entry in map_svcdev.
LEMMA ResolvedInv ==
    ASSUME Inv, inn # <<>>, inn' = Tail(inn), NEW m, m = Head(inn),
           NEW sent \in Seq(Message), Idle(sent),
           Resolved(m.d, Decremented(m), sent),
           \/ m.op = "load_sub" /\ map_svcdev' = map_svcdev
           \/ /\ m.op = "event" /\ <<m.d, m.s>> \in map_svcdev
              /\ map_svcdev' = map_svcdev \ {<<m.d, m.s>>}
    PROVE  /\ \A d \in Devices : Acct(d)' /\ Once(d)'
           /\ dev' \in [Devices -> DeviceRec]
           /\ told' \in [Devices -> [sys : Byte, name : Byte]]
           /\ out' \in Seq(Message)
<1> DEFINE d == m.d
           r == dev[d]
           q == Decremented(m)
           ld == InFlight("load_dev", d)
           ds == InFlight("dep_sys", d)
           ls == InFlight("load_sub", d)
           w == Cardinality(Watched(d))
           ended == q.pending_svcs = 0 /\ q.pending
           R == IF q.pending_svcs = 0 THEN process(q) ELSE q
<1>1. TypeOK /\ m \in Message /\ d \in Devices /\ r \in DeviceRec
  BY HeadType DEF Inv, TypeOK
<1>2. RoundOK(r, ld, ds, ls, w) /\ ld \in Nat /\ ds \in Nat /\ ls \in Nat /\ w \in Nat
  BY <1>1, TotalType, WatchedType DEF Inv, Acct, InFlight
<1>3. q = [r EXCEPT !.pending_svcs = @ - 1]
  BY DEF Decremented
<1>4. ls + w > 0
  <2>1. CASE m.op = "load_sub"
    <3>1. m \in Kind("load_sub", d)
      BY <1>1, <2>1, KindMember DEF Ops
    <3>2. Num(inn, Kind("load_sub", d)) > 0
      <4>1. inn \in Seq(Message) /\ Tail(inn) \in Seq(Message)
        BY <1>1, HeadType DEF TypeOK
      <4>2. Num(inn, Kind("load_sub", d)) = Num(Tail(inn), Kind("load_sub", d)) + 1
        BY <3>1, <4>1, NumTail
      <4>3. Num(Tail(inn), Kind("load_sub", d)) \in Nat
        BY <4>1, NumType
      <4> QED
        BY <4>2, <4>3
    <3>3. Num(out, Kind("load_sub", d)) \in Nat /\ Num(inn, Kind("load_sub", d)) \in Nat
      BY <1>1, NumType DEF TypeOK
    <3>4. ls = Num(out, Kind("load_sub", d)) + Num(inn, Kind("load_sub", d))
      BY DEF InFlight, Total
    <3> QED
      BY <1>2, <3>2, <3>3, <3>4
  <2>2. CASE <<m.d, m.s>> \in map_svcdev
    <3>1. m.s \in Watched(d)
      BY <1>1, <2>2 DEF Watched, TypeOK
    <3>2. w # 0
      BY <3>1, WatchedType, FS_EmptySet
    <3> QED
      BY <1>2, <3>2
  <2> QED
    BY <2>1, <2>2
<1>5. /\ q \in DeviceRec /\ q.pending_svcs = r.pending_svcs - 1
      /\ q.processing = r.processing /\ q.device_svc = r.device_svc
      /\ q.dsvcset = r.dsvcset /\ q.psvcset = r.psvcset
  <2>1. r.pending_svcs > 0
    BY <1>1, <1>2, <1>4 DEF RoundOK, DeviceRec
  <2> HIDE DEF r, q
  <2> QED
    BY <1>1, <1>3, <2>1, DecrementType
<1>6. PICK full \in Seq(Message) : ResolvedPost(d, q, full)
  <2> HIDE DEF q, d
  <2>1. Resolved(d, q, sent)
    BY DEF q, d
  <2> QED
    BY <1>1, <1>5, <2>1, ResolvedEffect
<1> HIDE DEF q, R
<1>7. \A op \in Tracked, e \in Devices :
         /\ InFlight(op, e)' = InFlight(op, e)
                - (IF m.op = op /\ e = d THEN 1 ELSE 0)
                + (IF ended /\ op = "load_dev" /\ e = d THEN 1 ELSE 0)
         /\ InFlight(op, e) \in Nat /\ InFlight(op, e)' \in Nat
  <2> TAKE op \in Tracked, e \in Devices
  <2> DEFINE K == Kind(op, e)
  <2>1. m \in K <=> m.op = op /\ e = d
    BY <1>1, KindMember DEF Tracked, Ops
  <2>2. Num(full, K) = IF ended /\ op = "load_dev" /\ e = d THEN 1 ELSE 0
    BY <1>6 DEF ResolvedPost
  <2> HIDE DEF K, ended
  <2>3. /\ Total(K)' = Total(K) - (IF m \in K THEN 1 ELSE 0) + Num(full, K)
        /\ Total(K) \in Nat /\ Total(K)' \in Nat
    BY <1>1, <1>6, DispatchTotal DEF ResolvedPost
  <2>4. InFlight(op, e) = Total(K) /\ InFlight(op, e)' = Total(K)'
    BY DEF InFlight, K
  <2> QED
    BY <2>1, <2>2, <2>3, <2>4
<1>8. \A e \in Devices, s \in Services :
         Total(AddLoad(e, s))' \in Nat /\ Total(AddLoad(e, s)) \in Nat
         /\ Total(AddLoad(e, s))' <= Total(AddLoad(e, s))
  <2> TAKE e \in Devices, s \in Services
  <2> DEFINE K == AddLoad(e, s)
  <2>1. Num(full, K) = 0
    BY <1>6 DEF ResolvedPost
  <2> HIDE DEF K
  <2>2. /\ Total(K)' = Total(K) - (IF m \in K THEN 1 ELSE 0) + Num(full, K)
        /\ Total(K) \in Nat /\ Total(K)' \in Nat
    BY <1>1, <1>6, DispatchTotal DEF ResolvedPost
  <2>3. Total(AddLoad(e, s)) = Total(K) /\ Total(AddLoad(e, s))' = Total(K)'
    BY DEF K
  <2> QED
    BY <2>1, <2>2, <2>3
<1>9. \A e \in Devices : Once(e)'
  <2> SUFFICES ASSUME NEW e \in Devices, NEW s \in Services
               PROVE Total(AddLoad(e, s))'
                     + (IF <<e, s>> \in map_svcdev' THEN 1 ELSE 0) <= 1
    BY DEF Once
  <2>1. Total(AddLoad(e, s)) + (IF <<e, s>> \in map_svcdev THEN 1 ELSE 0) <= 1
    BY DEF Inv, Once
  <2>2. <<e, s>> \in map_svcdev' => <<e, s>> \in map_svcdev
    OBVIOUS
  <2>3. /\ Total(AddLoad(e, s))' <= Total(AddLoad(e, s))
        /\ Total(AddLoad(e, s))' \in Nat /\ Total(AddLoad(e, s)) \in Nat
    BY <1>8
  <2> QED
    BY <2>1, <2>2, <2>3
<1>10. \A e \in Devices : Acct(e)'
  <2> SUFFICES ASSUME NEW e \in Devices PROVE Acct(e)'
    OBVIOUS
  <2>1. CASE e # d
    <3>1. dev'[e] = dev[e]
      BY <1>1, <1>6, <2>1 DEF TypeOK, ResolvedPost
    <3>2. Watched(e)' = Watched(e)
      BY <2>1 DEF Watched
    <3>3. \A op \in Tracked : InFlight(op, e)' = InFlight(op, e)
      BY <1>7, <2>1
    <3>4. Acct(e)
      BY DEF Inv
    <3> QED
      BY <3>1, <3>2, <3>3, <3>4 DEF Acct, Tracked
  <2>2. CASE e = d
    <3> DEFINE ls2 == InFlight("load_sub", d)'
               w2 == Cardinality(Watched(d)')
    <3>1. /\ InFlight("load_dev", d)' = ld + (IF ended THEN 1 ELSE 0)
          /\ InFlight("dep_sys", d)' = ds
          /\ ls2 = ls - (IF m.op = "load_sub" THEN 1 ELSE 0)
          /\ ls2 \in Nat
      <4>1. m.op # "load_dev" /\ m.op # "dep_sys"
        OBVIOUS
      <4> QED
        BY <1>1, <1>2, <1>7, <4>1, SMTT(60) DEF Tracked
    <3>2. w2 = w - (IF m.op = "load_sub" THEN 0 ELSE 1) /\ w2 \in Nat
      <4>1. CASE m.op = "load_sub"
        <5>1. Watched(d)' = Watched(d)
          BY <4>1 DEF Watched
        <5> QED
          BY <1>2, <4>1, <5>1
      <4>2. CASE m.op # "load_sub"
        <5>1. Watched(d)' = Watched(d) \ {m.s} /\ m.s \in Watched(d)
          BY <1>1, <4>2 DEF Watched, TypeOK
        <5>2. w2 = w - 1
          BY <5>1, WatchedType, FS_RemoveElement, ZenonT(60)
        <5>3. w # 0
          BY <5>1, WatchedType, FS_EmptySet
        <5> QED
          BY <1>2, <4>2, <5>2, <5>3
      <4> QED
        BY <4>1, <4>2
    <3>3. dev'[d] = R
      BY <1>1, <1>6 DEF TypeOK, ResolvedPost, R
    <3> HIDE DEF ld, ds, ls, w, ls2, w2, r
    <3>4. ls2 + w2 + 1 = ls + w /\ ls2 <= ls
      BY <1>2, <3>1, <3>2
    <3>5. /\ q.pending_svcs = 0 =>
               RoundOK(process(q), ld + (IF q.pending THEN 1 ELSE 0), ds, ls2, w2)
          /\ q.pending_svcs # 0 => RoundOK(q, ld, ds, ls2, w2)
      <4>1. ls2 \in Nat /\ w2 \in Nat
        BY <3>1, <3>2
      <4> QED
        BY <1>1, <1>2, <1>5, <3>4, <4>1, ResolveOK, Zenon
    <3>6. RoundOK(R, ld + (IF ended THEN 1 ELSE 0), ds, ls2, w2)
      BY <1>2, <3>5 DEF R
    <3> QED
      BY <2>2, <3>1, <3>3, <3>6 DEF Acct, ls2, w2
  <2> QED
    BY <2>1, <2>2
<1>11. out' \in Seq(Message)
  BY <1>1, <1>6, ConcatProperties DEF TypeOK, ResolvedPost
<1> QED
  BY <1>6, <1>9, <1>10, <1>11 DEF ResolvedPost

-----------------------------------------------------------------------------
(* Steps that leave the accounts alone *)

\* Neither the objects nor the counts change.
LEMMA SameAcct ==
    ASSUME Inv, dev' = dev, map_svcdev' = map_svcdev,
           \A op \in Tracked, e \in Devices : InFlight(op, e)' = InFlight(op, e),
           \A e \in Devices, s \in Services :
              Total(AddLoad(e, s))' = Total(AddLoad(e, s))
    PROVE  \A d \in Devices : Acct(d)' /\ Once(d)'
<1> TAKE d \in Devices
<1>1. Acct(d) /\ Once(d)
  BY DEF Inv
<1>2. Watched(d)' = Watched(d)
  BY DEF Watched
<1>3. Acct(d)'
  BY <1>1, <1>2 DEF Acct, Tracked
<1>4. Once(d)'
  BY <1>1 DEF Once
<1> QED
  BY <1>3, <1>4

\* A callback for a message that drives no round, sending nothing that does.
LEMMA IdleDispatch ==
    ASSUME Inv, inn # <<>>, inn' = Tail(inn), Head(inn).op \notin Tracked,
           NEW sent \in Seq(Message), Idle(sent), out' = out \o sent,
           dev' = dev, map_svcdev' = map_svcdev
    PROVE  \A d \in Devices : Acct(d)' /\ Once(d)'
<1>1. TypeOK /\ Head(inn) \in Message
  BY HeadType DEF Inv
<1>2. \A op \in Tracked, e \in Devices : InFlight(op, e)' = InFlight(op, e)
  <2> TAKE op \in Tracked, e \in Devices
  <2> DEFINE K == Kind(op, e)
  <2>1. Head(inn) \notin K /\ Num(sent, K) = 0
    BY <1>1, KindMember DEF Tracked, Ops, Idle
  <2> HIDE DEF K
  <2>2. Total(K)' = Total(K)
    BY <1>1, <2>1, DispatchTotal, SMTT(60)
  <2> QED
    BY <2>2 DEF InFlight, K
<1>3. \A e \in Devices, s \in Services :
         Total(AddLoad(e, s))' = Total(AddLoad(e, s))
  <2> TAKE e \in Devices, s \in Services
  <2> DEFINE K == AddLoad(e, s)
  <2>1. Head(inn) \notin K /\ Num(sent, K) = 0
    BY <1>1, KindMember DEF Tracked, Idle
  <2> HIDE DEF K
  <2>2. Total(K)' = Total(K)
    BY <1>1, <2>1, DispatchTotal
  <2> QED
    BY <2>2 DEF K
<1> QED
  BY <1>2, <1>3, SameAcct

\* dinit answers a request: the message changes queues, not kind.
LEMMA AnswerTotal ==
    ASSUME TypeOK, out # <<>>, out' = Tail(out), NEW a \in Args,
           inn' = Append(inn, [Head(out) EXCEPT !.arg = a])
    PROVE  /\ inn' \in Seq(Message)
           /\ \A op \in Tracked, e \in Devices : InFlight(op, e)' = InFlight(op, e)
           /\ \A e \in Devices, s \in Services :
                 Total(AddLoad(e, s))' = Total(AddLoad(e, s))
<1> DEFINE h == Head(out)
           g == [h EXCEPT !.arg = a]
<1>1. /\ out \in Seq(Message) /\ inn \in Seq(Message)
      /\ h \in Message /\ Tail(out) \in Seq(Message)
  BY HeadTailProperties DEF TypeOK
<1>2. /\ g \in Message /\ g.op = h.op /\ g.d = h.d /\ g.s = h.s /\ g.rem = h.rem
  BY <1>1 DEF Message
<1>3. inn' \in Seq(Message)
  BY <1>1, <1>2, AppendProperties
<1> HIDE DEF g
<1>4. ASSUME NEW K, h \in K <=> g \in K PROVE Total(K)' = Total(K)
  <2>1. Num(out, K) = Num(Tail(out), K) + (IF h \in K THEN 1 ELSE 0)
    BY <1>1, NumTail
  <2>2. Num(Append(inn, g), K) = Num(inn, K) + (IF g \in K THEN 1 ELSE 0)
    BY <1>1, <1>2, NumAppend
  <2>3. Num(out, K) \in Nat /\ Num(inn, K) \in Nat /\ Num(Tail(out), K) \in Nat
    BY <1>1, NumType
  <2>4. Total(K)' = Num(Tail(out), K) + Num(Append(inn, g), K)
    BY DEF Total, g
  <2>5. Total(K) = Num(out, K) + Num(inn, K)
    BY DEF Total
  <2> QED
    BY <1>4, <2>1, <2>2, <2>3, <2>4, <2>5
<1>5. \A op \in Tracked, e \in Devices : InFlight(op, e)' = InFlight(op, e)
  <2> TAKE op \in Tracked, e \in Devices
  <2>1. h \in Kind(op, e) <=> g \in Kind(op, e)
    BY <1>1, <1>2, KindMember DEF Tracked, Ops
  <2>2. Total(Kind(op, e))' = Total(Kind(op, e))
    BY <2>1, <1>4
  <2> QED
    BY <2>2 DEF InFlight
<1>6. \A e \in Devices, s \in Services :
         Total(AddLoad(e, s))' = Total(AddLoad(e, s))
  <2> TAKE e \in Devices, s \in Services
  <2>1. h \in AddLoad(e, s) <=> g \in AddLoad(e, s)
    BY <1>1, <1>2, KindMember
  <2> QED
    BY <2>1, <1>4
<1> QED
  BY <1>3, <1>5, <1>6

\* dinit takes a wake request off the queue.
LEMMA WakeTotal ==
    ASSUME TypeOK, out # <<>>, out' = Tail(out), Head(out).op = "wake", inn' = inn
    PROVE  /\ \A op \in Tracked, e \in Devices : InFlight(op, e)' = InFlight(op, e)
           /\ \A e \in Devices, s \in Services :
                 Total(AddLoad(e, s))' = Total(AddLoad(e, s))
<1>1. out \in Seq(Message) /\ Head(out) \in Message /\ Tail(out) \in Seq(Message)
  BY HeadTailProperties DEF TypeOK
<1>2. ASSUME NEW K, Head(out) \notin K PROVE Total(K)' = Total(K)
  <2>1. Num(out, K) = Num(Tail(out), K) + (IF Head(out) \in K THEN 1 ELSE 0)
    BY <1>1, NumTail
  <2>2. Num(Tail(out), K) \in Nat
    BY <1>1, NumType
  <2>3. Num(out, K) = Num(Tail(out), K)
    BY <1>2, <2>1, <2>2
  <2> QED
    BY <2>3 DEF Total
<1>3. \A op \in Tracked, e \in Devices : InFlight(op, e)' = InFlight(op, e)
  <2> TAKE op \in Tracked, e \in Devices
  <2>1. Head(out) \notin Kind(op, e)
    BY <1>1, KindMember DEF Tracked, Ops
  <2>2. Total(Kind(op, e))' = Total(Kind(op, e))
    BY <2>1, <1>2
  <2> QED
    BY <2>2 DEF InFlight
<1>4. \A e \in Devices, s \in Services :
         Total(AddLoad(e, s))' = Total(AddLoad(e, s))
  <2> TAKE e \in Devices, s \in Services
  <2>1. Head(out) \notin AddLoad(e, s)
    BY <1>1, KindMember
  <2> QED
    BY <2>1, <1>2
<1> QED
  BY <1>3, <1>4

\* What a service finishes with, it tells.
LEMMA FinishTells ==
    ASSUME NEW s \in Services, SvcFinish(s)
    PROVE  \E what \in Args : Tell(s, what)
<1>1. "started" \in Args /\ "fail" \in Args /\ "stopped" \in Args
  BY DEF Args
<1> QED
  BY <1>1 DEF SvcFinish

\* dinit tells the open handles about a service: only events are added.
LEMMA TellSends ==
    ASSUME TypeOK, NEW s \in Services, NEW what \in Args, Tell(s, what)
    PROVE  \E ev \in Seq(Message) :
              /\ inn' = inn \o ev /\ ev \in Seq(Proper)
              /\ \A i \in DOMAIN ev : ev[i] \in Message /\ ev[i].op = "event"
<1> DEFINE hs == {h \in handles : h[2] = s}
<1>1. PICK q \in Orders(hs) :
         inn' = inn \o [i \in DOMAIN q |-> Msg("event", q[i][1], s, q[i][3], what)]
  BY DEF Tell
<1> DEFINE ev == [i \in DOMAIN q |-> Msg("event", q[i][1], s, q[i][3], what)]
<1>2. IsFiniteSet(hs)
  <2> DEFINE f == [h \in hs |-> <<h[1], h[3]>>]
  <2>1. \A h \in hs : \E d \in Devices, b \in BOOLEAN : h = <<d, s, b>>
    BY DEF TypeOK
  <2>2. f \in Injection(hs, Devices \X BOOLEAN)
    <3>1. f \in [hs -> Devices \X BOOLEAN]
      BY <2>1
    <3>2. \A h, g \in hs : f[h] = f[g] => h = g
      BY <2>1
    <3> QED
      BY <3>1, <3>2 DEF Injection, IsInjective
  <2>3. IsFiniteSet(BOOLEAN)
    <3>1. IsFiniteSet({TRUE}) /\ {TRUE} \cup {FALSE} = BOOLEAN
      BY FS_Singleton
    <3> QED
      BY <3>1, FS_AddElement, ZenonT(60)
  <2>4. IsFiniteSet(Devices \X BOOLEAN)
    BY <2>3, DeviceAssumption, FS_Product
  <2> QED
    BY <2>2, <2>4, FS_Injection
<1> HIDE DEF hs
<1>3. /\ q \in Seq(hs) /\ Len(q) \in Nat /\ DOMAIN q = 1..Len(q)
      /\ \A i \in DOMAIN q : q[i] \in hs
  <2>1. q \in Seq(hs)
    BY <1>2, OrdersType
  <2> QED
    BY <2>1, LenProperties, ElementOfSeq
<1>4. \A i \in DOMAIN q : ev[i] \in Message /\ ev[i].op = "event" /\ ev[i].s = s
  <2> TAKE i \in DOMAIN q
  <2>1. PICK d \in Devices, b \in BOOLEAN : q[i][1] = d /\ q[i][3] = b
    BY <1>3 DEF TypeOK, hs
  <2>2. ev[i] = Msg("event", d, s, b, what)
    BY <2>1
  <2>3. /\ Msg("event", d, s, b, what) \in Message
        /\ Msg("event", d, s, b, what).op = "event"
        /\ Msg("event", d, s, b, what).s = s
    BY DEF Msg, Message, Ops
  <2> HIDE DEF ev
  <2> QED
    BY <2>2, <2>3
<1>5. ev \in Seq(Message) /\ ev \in Seq(Proper) /\ DOMAIN ev = DOMAIN q
  <2>1. \A i \in DOMAIN q : ev[i] \in Proper
    BY <1>4 DEF Proper
  <2>2. ev \in [1..Len(q) -> Message] /\ ev \in [1..Len(q) -> Proper]
    BY <1>3, <1>4, <2>1
  <2>3. DOMAIN ev = DOMAIN q
    OBVIOUS
  <2> HIDE DEF ev
  <2> QED
    BY <1>3, <2>2, <2>3, IsASeq
<1> HIDE DEF ev
<1>6. inn' = inn \o ev
  BY <1>1 DEF ev
<1> QED
  BY <1>4, <1>5, <1>6

\* ... which none of the counts is about.
LEMMA TellTotal ==
    ASSUME TypeOK, NEW s \in Services, NEW what \in Args, Tell(s, what), out' = out
    PROVE  /\ inn' \in Seq(Message)
           /\ inn \in Seq(Proper) => inn' \in Seq(Proper)
           /\ \A op \in Tracked, e \in Devices : InFlight(op, e)' = InFlight(op, e)
           /\ \A e \in Devices, t \in Services :
                 Total(AddLoad(e, t))' = Total(AddLoad(e, t))
<1>1. PICK ev \in Seq(Message) :
         /\ inn' = inn \o ev /\ ev \in Seq(Proper)
         /\ \A i \in DOMAIN ev : ev[i] \in Message /\ ev[i].op = "event"
  BY TellSends
<1>2. inn' = inn \o ev /\ ev \in Seq(Proper)
  BY <1>1
<1>3. inn \in Seq(Message) /\ out \in Seq(Message) /\ inn' = inn \o ev
  BY <1>2 DEF TypeOK
<1>4. inn' \in Seq(Message) /\ (inn \in Seq(Proper) => inn' \in Seq(Proper))
  BY <1>2, <1>3, ConcatProperties
<1>5. ASSUME NEW K, \A i \in DOMAIN ev : ev[i] \notin K PROVE Total(K)' = Total(K)
  <2>1. Num(inn \o ev, K) = Num(inn, K) + Num(ev, K)
    BY <1>2, <1>3, NumConcat
  <2>2. Num(ev, K) = 0
    BY <1>5, NumNone
  <2>3. Num(inn, K) \in Nat
    BY <1>3, NumType
  <2>4. Num(inn', K) = Num(inn, K)
    BY <1>3, <2>1, <2>2, <2>3
  <2> QED
    BY <2>4 DEF Total
<1>6. \A op \in Tracked, e \in Devices : InFlight(op, e)' = InFlight(op, e)
  <2> TAKE op \in Tracked, e \in Devices
  <2>1. \A i \in DOMAIN ev : ev[i] \notin Kind(op, e)
    BY <1>1, <1>2, KindMember DEF Tracked, Ops
  <2>2. Total(Kind(op, e))' = Total(Kind(op, e))
    BY <2>1, <1>5
  <2> QED
    BY <2>2 DEF InFlight
<1>7. \A e \in Devices, t \in Services :
          Total(AddLoad(e, t))' = Total(AddLoad(e, t))
  <2> TAKE e \in Devices, t \in Services
  <2>1. \A i \in DOMAIN ev : ev[i] \notin AddLoad(e, t)
    BY <1>1, <1>2, KindMember
  <2> QED
    BY <2>1, <1>5
<1> QED
  BY <1>4, <1>6, <1>7

-----------------------------------------------------------------------------
(* The other callbacks of a round *)

Counted(m, sent) ==
    /\ \A op \in Tracked, e \in Devices :
          /\ InFlight(op, e)' = InFlight(op, e)
                - (IF m.op = op /\ m.d = e THEN 1 ELSE 0)
                + Num(sent, Kind(op, e))
          /\ m.op = op /\ m.d = e => InFlight(op, e) > 0
          /\ InFlight(op, e) \in Nat /\ Num(sent, Kind(op, e)) \in Nat
    /\ \A e \in Devices, s \in Services :
          /\ Total(AddLoad(e, s))' = Total(AddLoad(e, s))
                - (IF m.op = "load_sub" /\ m.d = e /\ m.s = s /\ ~m.rem
                   THEN 1 ELSE 0)
                + Num(sent, AddLoad(e, s))
          /\ Total(AddLoad(e, s)) \in Nat

\* The counts after any callback, by the fields of the message it consumed.
LEMMA DispatchCounts ==
    ASSUME TypeOK, inn # <<>>, inn' = Tail(inn), NEW m, m = Head(inn),
           NEW sent \in Seq(Message), out' = out \o sent
    PROVE  Counted(m, sent)
<1>1. m \in Message
  BY HeadType
<1>2. ASSUME NEW op \in Tracked, NEW e \in Devices
      PROVE  /\ InFlight(op, e)' = InFlight(op, e)
                       - (IF m.op = op /\ m.d = e THEN 1 ELSE 0)
                       + Num(sent, Kind(op, e))
             /\ m.op = op /\ m.d = e => InFlight(op, e) > 0
             /\ InFlight(op, e) \in Nat /\ Num(sent, Kind(op, e)) \in Nat
  <2> DEFINE K == Kind(op, e)
  <2>1. m \in K <=> m.op = op /\ m.d = e
    BY <1>1, KindMember DEF Tracked, Ops
  <2>2. InFlight(op, e) = Total(K) /\ InFlight(op, e)' = Total(K)'
    BY DEF InFlight
  <2> HIDE DEF K
  <2>3. /\ Total(K)' = Total(K) - (IF m \in K THEN 1 ELSE 0) + Num(sent, K)
        /\ m \in K => Total(K) > 0
        /\ Total(K) \in Nat /\ Num(sent, K) \in Nat
    BY DispatchTotal
  <2> QED
    BY <2>1, <2>2, <2>3 DEF K
<1>3. ASSUME NEW e \in Devices, NEW s \in Services
      PROVE  /\ Total(AddLoad(e, s))' = Total(AddLoad(e, s))
                       - (IF m.op = "load_sub" /\ m.d = e /\ m.s = s /\ ~m.rem
                          THEN 1 ELSE 0)
                       + Num(sent, AddLoad(e, s))
             /\ Total(AddLoad(e, s)) \in Nat
  <2> DEFINE K == AddLoad(e, s)
  <2>1. m \in K <=> m.op = "load_sub" /\ m.d = e /\ m.s = s /\ ~m.rem
    BY <1>1, KindMember
  <2>2. Total(AddLoad(e, s)) = Total(K) /\ Total(AddLoad(e, s))' = Total(K)'
    OBVIOUS
  <2> HIDE DEF K
  <2>3. /\ Total(K)' = Total(K) - (IF m \in K THEN 1 ELSE 0) + Num(sent, K)
        /\ Total(K) \in Nat
    BY DispatchTotal
  <2> QED
    BY <2>1, <2>2, <2>3 DEF K
<1> QED
  BY <1>2, <1>3 DEF Counted

\* The same, spelt out for the device the message is about.
LEMMA CountedHere ==
    ASSUME NEW m, NEW sent, Counted(m, sent), m.d \in Devices
    PROVE  /\ InFlight("load_dev", m.d)' = InFlight("load_dev", m.d)
                 - (IF m.op = "load_dev" THEN 1 ELSE 0)
                 + Num(sent, Kind("load_dev", m.d))
           /\ InFlight("dep_sys", m.d)' = InFlight("dep_sys", m.d)
                 - (IF m.op = "dep_sys" THEN 1 ELSE 0)
                 + Num(sent, Kind("dep_sys", m.d))
           /\ InFlight("load_sub", m.d)' = InFlight("load_sub", m.d)
                 - (IF m.op = "load_sub" THEN 1 ELSE 0)
                 + Num(sent, Kind("load_sub", m.d))
<1>1. ASSUME NEW op \in Tracked
      PROVE  InFlight(op, m.d)' = InFlight(op, m.d)
                - (IF m.op = op THEN 1 ELSE 0) + Num(sent, Kind(op, m.d))
  BY DEF Counted
<1>2. "load_dev" \in Tracked /\ "dep_sys" \in Tracked /\ "load_sub" \in Tracked
  BY DEF Tracked
<1> QED
  BY <1>1, <1>2

\* The accounts of a device that a callback is not about.
LEMMA OtherDevice ==
    ASSUME Inv, NEW e \in Devices, dev'[e] = dev[e],
           \A s \in Services : <<e, s>> \in map_svcdev' <=> <<e, s>> \in map_svcdev,
           \A op \in Tracked : InFlight(op, e)' = InFlight(op, e),
           \A s \in Services : Total(AddLoad(e, s))' = Total(AddLoad(e, s))
    PROVE  Acct(e)' /\ Once(e)'
<1>1. Acct(e) /\ Once(e)
  BY DEF Inv
<1>2. Watched(e)' = Watched(e)
  BY DEF Watched
<1>3. Acct(e)'
  BY <1>1, <1>2 DEF Acct, Tracked
<1>4. Once(e)'
  BY <1>1 DEF Once
<1> QED
  BY <1>3, <1>4

\* A service that has not started is watched from now on: its load was counted.
LEMMA WatchInv ==
    ASSUME Inv, inn # <<>>, inn' = Tail(inn), NEW m, m = Head(inn),
           m.op = "load_sub", ~m.rem, m.s \in Services,
           NEW sent \in Seq(Message), Idle(sent), out' = out \o sent, dev' = dev,
           map_svcdev' = map_svcdev \cup {<<m.d, m.s>>}
    PROVE  \A d \in Devices : Acct(d)' /\ Once(d)'
<1> DEFINE d == m.d
<1>1. TypeOK /\ m \in Message /\ d \in Devices
  BY HeadType DEF Inv
<1>2. /\ \A op \in Tracked, e \in Devices :
            InFlight(op, e)' = InFlight(op, e)
                - (IF op = "load_sub" /\ d = e THEN 1 ELSE 0)
      /\ \A op \in Tracked, e \in Devices : InFlight(op, e) \in Nat
      /\ InFlight("load_sub", d) > 0
      /\ \A e \in Devices, s \in Services :
            Total(AddLoad(e, s))' = Total(AddLoad(e, s))
                - (IF d = e /\ m.s = s THEN 1 ELSE 0)
      /\ \A e \in Devices, s \in Services : Total(AddLoad(e, s)) \in Nat
  <2>1. Counted(m, sent)
    BY <1>1, DispatchCounts
  <2>2. "load_sub" \in Tracked
    BY DEF Tracked
  <2> QED
    BY <1>1, <2>1, <2>2 DEF Idle, Counted
<1>3. Total(AddLoad(d, m.s)) = 1 /\ <<d, m.s>> \notin map_svcdev
  <2>1. Total(AddLoad(d, m.s)) + (IF <<d, m.s>> \in map_svcdev THEN 1 ELSE 0) <= 1
    BY <1>1 DEF Inv, Once
  <2>2. Total(AddLoad(d, m.s)) > 0
    <3> DEFINE K == AddLoad(d, m.s)
    <3>1. Head(inn) \in K
      BY <1>1, KindMember
    <3> HIDE DEF K
    <3>2. Total(K) > 0
      BY <1>1, <3>1, DispatchTotal
    <3> QED
      BY <3>2 DEF K
  <2> QED
    BY <1>1, <1>2, <2>1, <2>2
<1> TAKE e \in Devices
<1>4. CASE e # d
  <2>1. /\ \A op \in Tracked : InFlight(op, e)' = InFlight(op, e)
        /\ \A s \in Services : Total(AddLoad(e, s))' = Total(AddLoad(e, s))
    BY <1>2, <1>4
  <2>2. \A s \in Services : <<e, s>> \in map_svcdev' <=> <<e, s>> \in map_svcdev
    BY <1>4
  <2> QED
    BY <2>1, <2>2, OtherDevice
<1>5. CASE e = d
  <2>1. Watched(d)' = Watched(d) \cup {m.s} /\ m.s \notin Watched(d)
    BY <1>1, <1>3 DEF Watched
  <2>2. Cardinality(Watched(d)') = Cardinality(Watched(d)) + 1
    BY <2>1, WatchedType, FS_AddElement
  <2>3. /\ InFlight("load_dev", d)' = InFlight("load_dev", d)
        /\ InFlight("dep_sys", d)' = InFlight("dep_sys", d)
        /\ InFlight("load_sub", d)' = InFlight("load_sub", d) - 1
    BY <1>1, <1>2 DEF Tracked
  <2>4. Acct(d)'
    <3>1. /\ Acct(d) /\ dev'[d] = dev[d]
          /\ InFlight("dep_sys", d) \in Nat /\ InFlight("load_sub", d) \in Nat
          /\ Cardinality(Watched(d)) \in Nat
      BY <1>1, <1>2, WatchedType DEF Inv, Tracked
    <3>2. InFlight("load_dev", d) \in Nat /\ InFlight("load_sub", d) > 0
      BY <1>1, <1>2 DEF Tracked
    <3>3. RoundOK(dev[d], InFlight("load_dev", d), InFlight("dep_sys", d),
                  InFlight("load_sub", d) - 1, Cardinality(Watched(d)) + 1)
      BY <3>1, <3>2, WatchOK DEF Acct
    <3> QED
      BY <2>2, <2>3, <3>1, <3>3 DEF Acct
  <2>5. Once(d)'
    <3> SUFFICES ASSUME NEW s \in Services
                 PROVE Total(AddLoad(d, s))'
                       + (IF <<d, s>> \in map_svcdev' THEN 1 ELSE 0) <= 1
      BY DEF Once
    <3>1. Total(AddLoad(d, s)) + (IF <<d, s>> \in map_svcdev THEN 1 ELSE 0) <= 1
      BY <1>1 DEF Inv, Once
    <3>2. CASE s = m.s
      BY <1>1, <1>2, <1>3, <3>2
    <3>3. CASE s # m.s
      BY <1>1, <1>2, <3>1, <3>3
    <3> QED
      BY <3>2, <3>3
  <2> QED
    BY <1>5, <2>4, <2>5
<1> QED
  BY <1>4, <1>5

\* The device's service is loaded.
LEMMA DevLoadedInv ==
    ASSUME Inv, inn # <<>>, inn' = Tail(inn), NEW m, m = Head(inn), DevLoaded(m)
    PROVE  /\ \A d \in Devices : Acct(d)' /\ Once(d)'
           /\ dev' \in [Devices -> DeviceRec] /\ out' \in Seq(Message)
<1> DEFINE d == m.d
           r == dev[d]
           q == [r EXCEPT !.device_svc = TRUE]
           a == Msg("dep_sys", d, NoService, r.removal, "")
<1>1. /\ TypeOK /\ m \in Message /\ d \in Devices /\ r \in DeviceRec
      /\ dev \in [Devices -> DeviceRec] /\ out \in Seq(Message)
  BY HeadType DEF Inv, TypeOK
<1>2. a \in Message /\ a.op = "dep_sys" /\ a.d = d
  BY <1>1 DEF Msg, Message, Ops, Args, DeviceRec
<1>3. m.op = "load_dev" /\ dev' = [dev EXCEPT ![d] = q] /\ out' = Append(out, a)
      /\ map_svcdev' = map_svcdev
  BY DEF DevLoaded, Arrives
<1>4. /\ q \in DeviceRec /\ q.pending_svcs = r.pending_svcs /\ q.device_svc
      /\ q.processing = r.processing /\ q.dsvcset = r.dsvcset
      /\ q.psvcset = r.psvcset
  BY <1>1 DEF DeviceRec
<1>5. /\ <<a>> \in Seq(Message) /\ out' = out \o <<a>>
      /\ \A op \in Tracked, e \in Devices :
            Num(<<a>>, Kind(op, e)) = IF op = "dep_sys" /\ e = d THEN 1 ELSE 0
      /\ \A e \in Devices, s \in Services : Num(<<a>>, AddLoad(e, s)) = 0
  <2> HIDE DEF a
  <2>1. <<a>> \in Seq(Message) /\ out' = out \o <<a>>
    BY <1>1, <1>2, <1>3, AppendIsConcat
  <2>2. \A op \in Tracked, e \in Devices :
            a \in Kind(op, e) <=> op = "dep_sys" /\ e = d
    BY <1>2, KindMember DEF Tracked, Ops
  <2>3. \A e \in Devices, s \in Services : a \notin AddLoad(e, s)
    BY <1>2, KindMember
  <2> QED
    BY <1>2, <2>1, <2>2, <2>3, SentOne
<1> HIDE DEF a, q
<1>6. Counted(m, <<a>>)
  BY <1>1, <1>5, DispatchCounts
<1>7. /\ \A op \in Tracked, e \in Devices :
            /\ InFlight(op, e) \in Nat
            /\ InFlight(op, e)' = InFlight(op, e)
                  - (IF op = "load_dev" /\ d = e THEN 1 ELSE 0)
                  + (IF op = "dep_sys" /\ d = e THEN 1 ELSE 0)
      /\ \A e \in Devices, s \in Services :
            Total(AddLoad(e, s))' = Total(AddLoad(e, s))
  BY <1>3, <1>5, <1>6 DEF Counted
<1>8. \A e \in Devices : Acct(e)' /\ Once(e)'
  <2> TAKE e \in Devices
  <2>1. CASE e # d
    <3>1. \A op \in Tracked : InFlight(op, e)' = InFlight(op, e)
      BY <1>7, <2>1
    <3>2. dev'[e] = dev[e]
      BY <1>1, <1>3, <2>1
    <3> QED
      BY <1>3, <1>7, <3>1, <3>2, OtherDevice
  <2>2. CASE e = d
    <3> DEFINE ld == InFlight("load_dev", d)
               ds == InFlight("dep_sys", d)
               ls == InFlight("load_sub", d)
               w == Cardinality(Watched(d))
    <3>1. RoundOK(r, ld, ds, ls, w)
      BY <1>1 DEF Inv, Acct
    <3>2. ld \in Nat /\ ds \in Nat /\ ls \in Nat /\ w \in Nat /\ ld > 0
      BY <1>1, <1>3, <1>6, WatchedType DEF Counted, Tracked
    <3>3. /\ InFlight("load_dev", d)' = ld - 1
          /\ InFlight("dep_sys", d)' = ds + 1
          /\ InFlight("load_sub", d)' = ls
      BY <1>1, <1>7 DEF Tracked
    <3>4. Watched(d)' = Watched(d) /\ dev'[d] = q
      BY <1>1, <1>3 DEF Watched
    <3> HIDE DEF r, ld, ds, ls, w
    <3>5. RoundOK(q, ld - 1, ds + 1, ls, w)
      BY <1>1, <1>4, <3>1, <3>2, AttachOK, Zenon
    <3>6. Acct(d)'
      BY <3>3, <3>4, <3>5 DEF Acct, w
    <3>7. Once(d)'
      BY <1>1, <1>3, <1>7 DEF Inv, Once
    <3> QED
      BY <2>2, <3>6, <3>7
  <2> QED
    BY <2>1, <2>2
<1>9. dev' \in [Devices -> DeviceRec] /\ out' \in Seq(Message)
  BY <1>1, <1>2, <1>3, <1>4, AppendProperties
<1> QED
  BY <1>8, <1>9

\* The device's service cannot be loaded.
LEMMA DevLoadFailedInv ==
    ASSUME Inv, inn # <<>>, inn' = Tail(inn), NEW m, m = Head(inn),
           DevLoadFailed(m)
    PROVE  /\ \A d \in Devices : Acct(d)' /\ Once(d)'
           /\ dev' \in [Devices -> DeviceRec] /\ out' \in Seq(Message)
           /\ told' \in [Devices -> [sys : Byte, name : Byte]]
<1> DEFINE d == m.d
           r == dev[d]
           pr == processRequest(d, r)
<1>1. /\ TypeOK /\ m \in Message /\ d \in Devices /\ r \in DeviceRec
      /\ dev \in [Devices -> DeviceRec] /\ out \in Seq(Message)
  BY HeadType DEF Inv, TypeOK
<1>2. /\ m.op = "load_dev" /\ dev' = [dev EXCEPT ![d] = process(r)]
      /\ told' = [told EXCEPT ![d] = ready(told[d], r, processByte(r))]
      /\ out' = (out \o <<>>) \o pr /\ map_svcdev' = map_svcdev
  BY DEF DevLoadFailed, Arrives, ProcessStep
<1>3. /\ pr \in Seq(Message)
      /\ \A op \in Tracked, e \in Devices :
            Num(pr, Kind(op, e)) =
               IF r.pending /\ op = "load_dev" /\ e = d THEN 1 ELSE 0
      /\ \A e \in Devices, s \in Services : Num(pr, AddLoad(e, s)) = 0
  BY <1>1, ProcessRequestType DEF Tracked, Ops
<1> HIDE DEF pr
<1>4. out' = out \o pr
  BY <1>1, <1>2, ConcatEmptySeq
<1>5. Counted(m, pr)
  BY <1>1, <1>3, <1>4, DispatchCounts
<1>6. process(r) \in DeviceRec
  BY <1>1, ProcessType
<1>7. \A e \in Devices, s \in Services :
          Total(AddLoad(e, s))' = Total(AddLoad(e, s))
  BY <1>2, <1>3, <1>5 DEF Counted
<1>8. \A e \in Devices : Acct(e)' /\ Once(e)'
  <2> TAKE e \in Devices
  <2>1. CASE e # d
    <3>1. \A op \in Tracked : InFlight(op, e)' = InFlight(op, e)
      BY <1>3, <1>5, <2>1 DEF Counted
    <3>2. dev'[e] = dev[e]
      BY <1>1, <1>2, <2>1
    <3> QED
      BY <1>2, <1>7, <3>1, <3>2, OtherDevice
  <2>2. CASE e = d
    <3> DEFINE ld == InFlight("load_dev", d)
               ds == InFlight("dep_sys", d)
               ls == InFlight("load_sub", d)
               w == Cardinality(Watched(d))
    <3>1. RoundOK(r, ld, ds, ls, w)
      BY <1>1 DEF Inv, Acct
    <3>2. ld \in Nat /\ ds \in Nat /\ ls \in Nat /\ w \in Nat /\ ld > 0
      BY <1>1, <1>2, <1>5, WatchedType DEF Counted, Tracked
    <3>3. /\ InFlight("load_dev", d)' = (ld - 1) + (IF r.pending THEN 1 ELSE 0)
          /\ InFlight("dep_sys", d)' = ds
          /\ InFlight("load_sub", d)' = ls
      <4>1. /\ Num(pr, Kind("load_dev", d)) = IF r.pending THEN 1 ELSE 0
            /\ Num(pr, Kind("dep_sys", d)) = 0
            /\ Num(pr, Kind("load_sub", d)) = 0
        BY <1>1, <1>3 DEF Tracked
      <4>2. /\ InFlight("load_dev", d)' = ld - 1 + Num(pr, Kind("load_dev", d))
            /\ InFlight("dep_sys", d)' = ds - 0 + Num(pr, Kind("dep_sys", d))
            /\ InFlight("load_sub", d)' = ls - 0 + Num(pr, Kind("load_sub", d))
        BY <1>1, <1>2, <1>5, CountedHere
      <4> HIDE DEF r
      <4> QED
        BY <3>2, <4>1, <4>2
    <3>4. Watched(d)' = Watched(d) /\ dev'[d] = process(r)
      BY <1>1, <1>2 DEF Watched
    <3> HIDE DEF r, ld, ds, ls, w
    <3>5. RoundOK(process(r), (ld - 1) + (IF r.pending THEN 1 ELSE 0), ds, ls, w)
      BY <1>1, <3>1, <3>2, LoadFailOK, Zenon
    <3>6. Acct(d)'
      BY <3>3, <3>4, <3>5 DEF Acct, w
    <3>7. Once(d)'
      BY <1>1, <1>2, <1>7 DEF Inv, Once
    <3> QED
      BY <2>2, <3>6, <3>7
  <2> QED
    BY <2>1, <2>2
<1>9. dev' \in [Devices -> DeviceRec] /\ out' \in Seq(Message)
  BY <1>1, <1>2, <1>3, <1>4, <1>6, ConcatProperties
<1>10. told' \in [Devices -> [sys : Byte, name : Byte]]
  <2>1. processByte(r) \in Byte
    BY DEF processByte, Byte
  <2> QED
    BY <1>1, <1>2, <2>1, ReadyType
<1> QED
  BY <1>8, <1>9, <1>10

LoadsOf(B, S, d, rem) ==
    /\ B \in Seq(Message) /\ Len(B) = Cardinality(S)
    /\ Num(B, Kind("load_sub", d)) = Len(B)
    /\ \A op \in Tracked, e \in Devices :
          op # "load_sub" \/ e # d => Num(B, Kind(op, e)) = 0
    /\ \A e \in Devices, s \in Services : Num(B, AddLoad(e, s)) \in {0, 1}
    /\ \A e \in Devices, s \in Services :
          rem \/ e # d => Num(B, AddLoad(e, s)) = 0

\* The loads of a set of services, in some order: one of each.
LEMMA LoadBatch ==
    ASSUME NEW d \in Devices, NEW S \in SUBSET Services, IsFiniteSet(S),
           NEW q \in Orders(S), NEW rem \in BOOLEAN,
           NEW B, B = [i \in DOMAIN q |-> LoadSub(d, q[i], rem)]
    PROVE  LoadsOf(B, S, d, rem)
<1>1. /\ q \in Seq(S) /\ DOMAIN q = 1..Cardinality(S) /\ Cardinality(S) \in Nat
      /\ \A i, j \in DOMAIN q : q[i] = q[j] => i = j
  BY OrdersType
<1>2. \A i \in DOMAIN q : q[i] \in Services
  BY <1>1, ElementOfSeq, LenProperties
<1>3. DOMAIN B = DOMAIN q
  OBVIOUS
<1>4. \A i \in DOMAIN B :
         /\ B[i] \in Message /\ B[i].op = "load_sub" /\ B[i].d = d
         /\ B[i].s = q[i] /\ B[i].rem = rem
  <2> TAKE i \in DOMAIN B
  <2>1. PICK s \in Services : q[i] = s
    BY <1>2
  <2> DEFINE g == Msg("load_sub", d, s, rem, "")
  <2>2. g \in Message /\ g.op = "load_sub" /\ g.d = d /\ g.s = s /\ g.rem = rem
    BY DEF Msg, Message, Ops, Args
  <2>3. B[i] = g
    BY <2>1 DEF LoadSub
  <2> HIDE DEF g
  <2> QED
    BY <2>1, <2>2, <2>3
<1>5. B \in Seq(Message) /\ Len(B) = Cardinality(S)
  <2>1. B \in [1..Cardinality(S) -> Message]
    BY <1>1, <1>3, <1>4
  <2> QED
    BY <1>1, <2>1, IsASeq, LenProperties
<1>6. Num(B, Kind("load_sub", d)) = Len(B)
  <2>1. \A i \in DOMAIN B : B[i] \in Kind("load_sub", d)
    BY <1>4, KindMember DEF Ops
  <2> QED
    BY <1>5, <2>1, NumAll
<1>7. ASSUME NEW op \in Tracked, NEW e \in Devices, op # "load_sub" \/ e # d
      PROVE Num(B, Kind(op, e)) = 0
  <2>1. \A i \in DOMAIN B : B[i] \notin Kind(op, e)
    BY <1>4, <1>7, KindMember DEF Tracked, Ops
  <2> QED
    BY <2>1, NumNone
<1>8. ASSUME NEW e \in Devices, NEW s \in Services
      PROVE  /\ Num(B, AddLoad(e, s)) \in {0, 1}
             /\ rem \/ e # d => Num(B, AddLoad(e, s)) = 0
  <2>1. \A i \in DOMAIN B : B[i] \in AddLoad(e, s) <=> d = e /\ q[i] = s /\ ~rem
    BY <1>4, KindMember
  <2>2. \A i, j \in DOMAIN B :
           B[i] \in AddLoad(e, s) /\ B[j] \in AddLoad(e, s) => i = j
    BY <1>1, <1>3, <2>1
  <2>3. Num(B, AddLoad(e, s)) \in {0, 1}
    BY <2>2, NumAtMostOne
  <2>4. rem \/ e # d => Num(B, AddLoad(e, s)) = 0
    BY <2>1, NumNone
  <2> QED
    BY <2>3, <2>4
<1> QED
  BY <1>5, <1>6, <1>7, <1>8 DEF LoadsOf

\* The device's service is attached: a batch of loads, each service once.
LEMMA SysDepDoneInv ==
    ASSUME Inv, inn # <<>>, inn' = Tail(inn), NEW m, m = Head(inn), SysDepDone(m)
    PROVE  /\ \A d \in Devices : Acct(d)' /\ Once(d)'
           /\ dev' \in [Devices -> DeviceRec] /\ out' \in Seq(Message)
<1> DEFINE d == m.d
           r == dev[d]
           n == RoundSize(r)
           q == [r EXCEPT !.pending_svcs = n]
<1>1. /\ TypeOK /\ m \in Message /\ d \in Devices /\ r \in DeviceRec
      /\ dev \in [Devices -> DeviceRec] /\ out \in Seq(Message)
  BY HeadType DEF Inv, TypeOK
<1>2. PICK b \in Orders(r.dsvcset), c \in Orders(r.psvcset) :
         out' = (out \o [i \in DOMAIN b |-> LoadSub(d, b[i], TRUE)])
                     \o [i \in DOMAIN c |-> LoadSub(d, c[i], FALSE)]
  BY DEF SysDepDone
<1> DEFINE B == [i \in DOMAIN b |-> LoadSub(d, b[i], TRUE)]
           C == [i \in DOMAIN c |-> LoadSub(d, c[i], FALSE)]
<1>3. /\ IsFiniteSet(r.dsvcset) /\ IsFiniteSet(r.psvcset)
      /\ r.dsvcset \subseteq Services /\ r.psvcset \subseteq Services
  BY <1>1, DeviceAssumption, FS_Subset DEF DeviceRec
<1>4. m.op = "dep_sys" /\ dev' = [dev EXCEPT ![d] = q] /\ map_svcdev' = map_svcdev
  BY DEF SysDepDone, Arrives
<1>5. /\ B \in Seq(Message) /\ Len(B) = Cardinality(r.dsvcset)
      /\ Num(B, Kind("load_sub", d)) = Len(B)
      /\ \A op \in Tracked, e \in Devices :
            op # "load_sub" \/ e # d => Num(B, Kind(op, e)) = 0
      /\ \A e \in Devices, s \in Services : Num(B, AddLoad(e, s)) = 0
  <2>1. B = [i \in DOMAIN b |-> LoadSub(d, b[i], TRUE)]
    OBVIOUS
  <2> HIDE DEF B, r
  <2>2. LoadsOf(B, r.dsvcset, d, TRUE)
    BY <1>1, <1>3, <2>1, LoadBatch
  <2> QED
    BY <2>2 DEF LoadsOf
<1>6. /\ C \in Seq(Message) /\ Len(C) = Cardinality(r.psvcset)
      /\ Num(C, Kind("load_sub", d)) = Len(C)
      /\ \A op \in Tracked, e \in Devices :
            op # "load_sub" \/ e # d => Num(C, Kind(op, e)) = 0
      /\ \A e \in Devices, s \in Services : Num(C, AddLoad(e, s)) \in {0, 1}
      /\ \A e \in Devices, s \in Services : e # d => Num(C, AddLoad(e, s)) = 0
  <2>1. C = [i \in DOMAIN c |-> LoadSub(d, c[i], FALSE)]
    OBVIOUS
  <2> HIDE DEF C, r
  <2>2. LoadsOf(C, r.psvcset, d, FALSE)
    BY <1>1, <1>3, <2>1, LoadBatch
  <2> QED
    BY <2>2 DEF LoadsOf
<1>7. out' = (out \o B) \o C
  BY <1>2
<1> HIDE DEF B, C
<1>8. B \o C \in Seq(Message) /\ out' = out \o (B \o C)
  <2>1. B \o C \in Seq(Message) /\ (out \o B) \o C = out \o (B \o C)
    BY <1>1, <1>5, <1>6, ConcatTwo, SMTT(60)
  <2> QED
    BY <1>7, <2>1, Zenon
<1>9. /\ n \in Nat /\ n = Len(B) + Len(C)
      /\ r.dsvcset \cup r.psvcset # {} => n > 0
  <2>1. Cardinality(r.dsvcset) \in Nat /\ Cardinality(r.psvcset) \in Nat
    BY <1>3, FS_CardinalityType
  <2>2. /\ r.dsvcset # {} => Cardinality(r.dsvcset) # 0
        /\ r.psvcset # {} => Cardinality(r.psvcset) # 0
    BY <1>3, FS_EmptySet
  <2> QED
    BY <1>5, <1>6, <2>1, <2>2 DEF RoundSize
<1>10. /\ q \in DeviceRec /\ q.pending_svcs = n /\ q.device_svc = r.device_svc
       /\ q.processing = r.processing /\ q.dsvcset = r.dsvcset
       /\ q.psvcset = r.psvcset
  <2> HIDE DEF n
  <2> QED
    BY <1>1, <1>9 DEF DeviceRec
<1>11. Counted(m, B \o C)
  BY <1>1, <1>8, DispatchCounts
<1>12. \A K : Num(B \o C, K) = Num(B, K) + Num(C, K)
  <2> TAKE K
  <2> QED
    BY <1>5, <1>6, NumConcat
<1> HIDE DEF q, n
<1>13. \A e \in Devices : Acct(e)' /\ Once(e)'
  <2> TAKE e \in Devices
  <2>1. CASE e # d
    <3>1. \A op \in Tracked : InFlight(op, e)' = InFlight(op, e)
      <4> TAKE op \in Tracked
      <4>1. Num(B \o C, Kind(op, e)) = 0
        BY <1>5, <1>6, <1>12, <2>1
      <4> QED
        BY <1>11, <2>1, <4>1 DEF Counted
    <3>2. \A s \in Services : Total(AddLoad(e, s))' = Total(AddLoad(e, s))
      <4> TAKE s \in Services
      <4>1. Num(B \o C, AddLoad(e, s)) = 0
        BY <1>5, <1>6, <1>12, <2>1
      <4> QED
        BY <1>11, <2>1, <4>1 DEF Counted
    <3>3. dev'[e] = dev[e]
      BY <1>1, <1>4, <2>1
    <3> QED
      BY <1>4, <3>1, <3>2, <3>3, OtherDevice
  <2>2. CASE e = d
    <3> DEFINE ld == InFlight("load_dev", d)
               ds == InFlight("dep_sys", d)
               ls == InFlight("load_sub", d)
               w == Cardinality(Watched(d))
    <3>1. RoundOK(r, ld, ds, ls, w)
      BY <1>1 DEF Inv, Acct
    <3>2. ld \in Nat /\ ds \in Nat /\ ls \in Nat /\ w \in Nat /\ ds > 0
      BY <1>1, <1>4, <1>11, WatchedType DEF Counted, Tracked
    <3>3. /\ InFlight("load_dev", d)' = ld
          /\ InFlight("dep_sys", d)' = ds - 1
          /\ InFlight("load_sub", d)' = ls + n
      <4>1. /\ Num(B \o C, Kind("load_dev", d)) = 0
            /\ Num(B \o C, Kind("dep_sys", d)) = 0
            /\ Num(B \o C, Kind("load_sub", d)) = n
        BY <1>1, <1>5, <1>6, <1>9, <1>12 DEF Tracked
      <4>2. /\ InFlight("load_dev", d)' = ld - 0 + Num(B \o C, Kind("load_dev", d))
            /\ InFlight("dep_sys", d)' = ds - 1 + Num(B \o C, Kind("dep_sys", d))
            /\ InFlight("load_sub", d)' = ls - 0 + Num(B \o C, Kind("load_sub", d))
        BY <1>1, <1>4, <1>11, CountedHere
      <4> QED
        BY <1>9, <3>2, <4>1, <4>2
    <3>4. Watched(d)' = Watched(d) /\ dev'[d] = q
      BY <1>1, <1>4 DEF Watched
    <3>5. ls = 0 /\ w = 0 /\ RoundOK(q, ld, ds - 1, ls + n, w)
      <4> HIDE DEF r, ld, ds, ls, w
      <4> QED
        BY <1>1, <1>9, <1>10, <3>1, <3>2, SubPhaseOK, Zenon
    <3>6. Acct(d)'
      BY <3>3, <3>4, <3>5 DEF Acct
    <3>7. Once(d)'
      <4> SUFFICES ASSUME NEW s \in Services
                   PROVE Total(AddLoad(d, s))'
                         + (IF <<d, s>> \in map_svcdev' THEN 1 ELSE 0) <= 1
        BY DEF Once
      <4>1. Watched(d) = {}
        BY <3>5, WatchedType, FS_EmptySet
      <4>2. <<d, s>> \notin map_svcdev'
        BY <1>4, <4>1 DEF Watched
      <4>3. Total(AddLoad(d, s)) = 0
        <5>1. AddLoad(d, s) \subseteq Kind("load_sub", d)
          BY DEF AddLoad, Kind
        <5>2. /\ Num(out, AddLoad(d, s)) <= Num(out, Kind("load_sub", d))
              /\ Num(inn, AddLoad(d, s)) <= Num(inn, Kind("load_sub", d))
          BY <1>1, <5>1, NumSubset DEF TypeOK
        <5>3. /\ Num(out, AddLoad(d, s)) \in Nat /\ Num(inn, AddLoad(d, s)) \in Nat
              /\ Num(out, Kind("load_sub", d)) \in Nat
              /\ Num(inn, Kind("load_sub", d)) \in Nat
          BY <1>1, NumType DEF TypeOK
        <5>4. Num(out, Kind("load_sub", d)) + Num(inn, Kind("load_sub", d)) = 0
          BY <3>5 DEF InFlight, Total
        <5> QED
          BY <5>2, <5>3, <5>4 DEF Total
      <4>4. Num(B \o C, AddLoad(d, s)) \in {0, 1}
        <5>1. /\ Num(B, AddLoad(d, s)) = 0 /\ Num(C, AddLoad(d, s)) \in {0, 1}
              /\ Num(B \o C, AddLoad(d, s)) =
                    Num(B, AddLoad(d, s)) + Num(C, AddLoad(d, s))
          BY <1>1, <1>5, <1>6, <1>12
        <5> QED
          BY <5>1
      <4>5. Total(AddLoad(d, s))' = Total(AddLoad(d, s)) + Num(B \o C, AddLoad(d, s))
        BY <1>1, <1>4, <1>11, <4>3 DEF Counted
      <4> QED
        BY <4>2, <4>3, <4>4, <4>5
    <3> QED
      BY <2>2, <3>6, <3>7
  <2> QED
    BY <2>1, <2>2
<1>14. dev' \in [Devices -> DeviceRec] /\ out' \in Seq(Message)
  BY <1>1, <1>4, <1>8, <1>10, ConcatProperties
<1> QED
  BY <1>13, <1>14

-----------------------------------------------------------------------------
(* udev events *)

\* The fields of an object that the accounts are about
SameRound(q, r) ==
    /\ q.pending_svcs = r.pending_svcs /\ q.device_svc = r.device_svc
    /\ q.processing = r.processing
    /\ q.dsvcset = r.dsvcset /\ q.psvcset = r.psvcset

\* The accounts are about these fields only.
LEMMA SameRoundOK ==
    ASSUME NEW q, NEW r, SameRound(q, r), NEW ld, NEW ds, NEW ls, NEW w,
           RoundOK(r, ld, ds, ls, w)
    PROVE  RoundOK(q, ld, ds, ls, w)
  BY DEF SameRound, RoundOK, Busy

\* The counts after devmon has sent a batch outside of a callback.
LEMMA SendTotal ==
    ASSUME TypeOK, inn' = inn, NEW sent \in Seq(Message), out' = out \o sent, NEW K
    PROVE  /\ Total(K)' = Total(K) + Num(sent, K)
           /\ Total(K) \in Nat
<1>1. inn \in Seq(Message) /\ out \in Seq(Message)
  BY DEF TypeOK
<1>2. Num(out \o sent, K) = Num(out, K) + Num(sent, K)
  BY <1>1, NumConcat
<1>3. Num(out, K) \in Nat /\ Num(inn, K) \in Nat /\ Num(sent, K) \in Nat
  BY <1>1, NumType
<1>4. Total(K)' = Num(out \o sent, K) + Num(inn, K)
  BY DEF Total
<1>5. Total(K) = Num(out, K) + Num(inn, K)
  BY DEF Total
<1> QED
  BY <1>2, <1>3, <1>4, <1>5

\* An event is noted on the object, or starts a round.
LEMMA HandleType ==
    ASSUME NEW r \in DeviceRec, NEW svcs \in SUBSET Services
    PROVE  LET p == [r EXCEPT !.nsvcset = svcs, !.pending = TRUE]
           IN  /\ p \in DeviceRec /\ p.pending /\ p.pending_svcs = r.pending_svcs
               /\ handle_device_dinit(r, svcs) \in DeviceRec
               /\ r.has_tag /\ ~r.processing =>
                     handle_device_dinit(r, svcs) = process(p)
               /\ ~r.has_tag \/ r.processing =>
                     SameRound(handle_device_dinit(r, svcs), r)
<1> DEFINE p == [r EXCEPT !.nsvcset = svcs, !.pending = TRUE]
<1>1. p \in DeviceRec /\ p.pending /\ SameRound(p, r)
  BY DEF DeviceRec, SameRound
<1>2. process(p) \in DeviceRec
  BY <1>1, ProcessType
<1>3. SameRound(r, r)
  BY DEF SameRound
<1>4. handle_device_dinit(r, svcs) =
         IF ~r.has_tag THEN r ELSE IF r.processing THEN p ELSE process(p)
  BY DEF handle_device_dinit
<1> HIDE DEF p
<1>5. /\ r.has_tag /\ ~r.processing => handle_device_dinit(r, svcs) = process(p)
      /\ ~r.has_tag \/ r.processing => SameRound(handle_device_dinit(r, svcs), r)
  BY <1>1, <1>3, <1>4
<1>6. handle_device_dinit(r, svcs) \in DeviceRec
  BY <1>1, <1>2, <1>4
<1>7. p.pending_svcs = r.pending_svcs
  BY <1>1 DEF SameRound
<1> QED
  BY <1>1, <1>5, <1>6, <1>7 DEF p

\* A udev event keeps the accounts: it starts a round only over an idle device.
LEMMA UdevInv ==
    ASSUME Inv, NEW d \in Devices, NEW r \in DeviceRec,
           NEW svcs \in SUBSET Services, SameRound(r, dev[d]),
           HandleEffects(d, r, svcs),
           NEW q \in DeviceRec, SameRound(q, handle_device_dinit(r, svcs)),
           dev' = [dev EXCEPT ![d] = q], inn' = inn, map_svcdev' = map_svcdev
    PROVE  /\ \A e \in Devices : Acct(e)' /\ Once(e)'
           /\ dev' \in [Devices -> DeviceRec] /\ out' \in Seq(Message)
<1> DEFINE R == handle_device_dinit(r, svcs)
           p == [r EXCEPT !.nsvcset = svcs, !.pending = TRUE]
<1>1. /\ TypeOK /\ dev \in [Devices -> DeviceRec] /\ dev[d] \in DeviceRec
      /\ out \in Seq(Message)
  BY DEF Inv, TypeOK
<1>2. dev' \in [Devices -> DeviceRec] /\ dev'[d] = q
      /\ \A e \in Devices : e # d => dev'[e] = dev[e]
  BY <1>1
<1>3. \A e \in Devices : Watched(e)' = Watched(e)
  BY DEF Watched
<1>4. CASE ~r.has_tag \/ r.processing
  <2>1. out' = out
    BY <1>4 DEF HandleEffects
  <2>2. SameRound(q, dev[d])
    BY <1>4, HandleType, ZenonT(60) DEF SameRound
  <2>3. /\ \A op \in Tracked, e \in Devices : InFlight(op, e)' = InFlight(op, e)
        /\ \A e \in Devices, s \in Services :
              Total(AddLoad(e, s))' = Total(AddLoad(e, s))
    BY <2>1 DEF InFlight, Total
  <2>4. \A e \in Devices : Once(e)'
    BY <2>3 DEF Inv, Once
  <2>5. \A e \in Devices : Acct(e)'
    <3> TAKE e \in Devices
    <3>1. SameRound(dev'[e], dev[e])
      BY <1>2, <2>2 DEF SameRound
    <3>2. RoundOK(dev'[e], InFlight("load_dev", e), InFlight("dep_sys", e),
                  InFlight("load_sub", e), Cardinality(Watched(e)))
      BY <3>1, SameRoundOK DEF Inv, Acct
    <3>3. /\ InFlight("load_dev", e)' = InFlight("load_dev", e)
          /\ InFlight("dep_sys", e)' = InFlight("dep_sys", e)
          /\ InFlight("load_sub", e)' = InFlight("load_sub", e)
      BY <2>3 DEF Tracked
    <3> QED
      BY <1>3, <3>2, <3>3 DEF Acct
  <2> QED
    BY <1>1, <1>2, <2>1, <2>4, <2>5
<1>5. CASE r.has_tag /\ ~r.processing
  <2> DEFINE p2 == [r EXCEPT !.pending = TRUE]
             pr == processRequest(d, p2)
  <2>1. out' = out \o pr
    BY <1>5 DEF HandleEffects
  <2>2. p2 \in DeviceRec /\ p2.pending
    BY DEF DeviceRec
  <2>3. /\ pr \in Seq(Message)
        /\ \A op \in Tracked, e \in Devices :
              Num(pr, Kind(op, e)) = IF op = "load_dev" /\ e = d THEN 1 ELSE 0
        /\ \A e \in Devices, s \in Services : Num(pr, AddLoad(e, s)) = 0
    <3> HIDE DEF p2
    <3>1. \A op \in Ops, e \in Devices :
             Num(pr, Kind(op, e)) =
                IF p2.pending /\ op = "load_dev" /\ e = d THEN 1 ELSE 0
      BY <2>2, ProcessRequestType
    <3>2. /\ pr \in Seq(Message)
          /\ \A e \in Devices, s \in Services : Num(pr, AddLoad(e, s)) = 0
      BY <2>2, ProcessRequestType
    <3> QED
      BY <2>2, <3>1, <3>2 DEF Tracked, Ops
  <2> HIDE DEF pr
  <2>4. \A K : Total(K)' = Total(K) + Num(pr, K) /\ Total(K) \in Nat
    <3> TAKE K
    <3> QED
      BY <1>1, <2>1, <2>3, SendTotal
  <2>5. \A op \in Tracked, e \in Devices :
           /\ InFlight(op, e)' = InFlight(op, e)
                 + (IF op = "load_dev" /\ e = d THEN 1 ELSE 0)
           /\ InFlight(op, e) \in Nat
    BY <2>3, <2>4 DEF InFlight
  <2>6. \A e \in Devices, s \in Services :
           Total(AddLoad(e, s))' = Total(AddLoad(e, s))
    BY <2>3, <2>4
  <2>7. \A e \in Devices : Once(e)'
    BY <2>6 DEF Inv, Once
  <2>8. \A e \in Devices : e # d => Acct(e)'
    <3> SUFFICES ASSUME NEW e \in Devices, e # d PROVE Acct(e)'
      OBVIOUS
    <3>1. \A op \in Tracked : InFlight(op, e)' = InFlight(op, e)
      BY <2>5
    <3> QED
      BY <1>2, <2>6, <3>1, OtherDevice
  <2>9. Acct(d)'
    <3> DEFINE ld == InFlight("load_dev", d)
               ds == InFlight("dep_sys", d)
               ls == InFlight("load_sub", d)
               w == Cardinality(Watched(d))
    <3>1. RoundOK(dev[d], ld, ds, ls, w)
      BY DEF Inv, Acct
    <3>2. /\ InFlight("load_dev", d)' = ld + 1
          /\ InFlight("dep_sys", d)' = ds
          /\ InFlight("load_sub", d)' = ls
          /\ ld \in Nat /\ ds \in Nat /\ ls \in Nat
      BY <2>5 DEF Tracked
    <3>3. w \in Nat
      BY WatchedType
    <3>4. /\ p \in DeviceRec /\ p.pending /\ p.pending_svcs = dev[d].pending_svcs
          /\ ~dev[d].processing /\ R = process(p)
      BY <1>5, HandleType DEF SameRound
    <3> HIDE DEF p, R, ld, ds, ls, w
    <3>5. RoundOK(process(p), ld + 1, ds, ls, w)
      BY <1>1, <3>1, <3>2, <3>3, <3>4, StartOK, Zenon
    <3>6. SameRound(q, process(p))
      BY <3>4 DEF R
    <3>7. RoundOK(q, ld + 1, ds, ls, w)
      BY <3>5, <3>6, SameRoundOK
    <3> QED
      BY <1>2, <1>3, <3>2, <3>7 DEF Acct, w
  <2>10. out' \in Seq(Message)
    BY <1>1, <2>1, <2>3, ConcatProperties
  <2> QED
    BY <1>2, <2>7, <2>8, <2>9, <2>10
<1> QED
  BY <1>4, <1>5

\* What the clients and the history record of a udev event has its type.
LEMMA HandleEffectsType ==
    ASSUME TypeOK, NEW d \in Devices, NEW r \in DeviceRec,
           NEW svcs \in SUBSET Services, HandleEffects(d, r, svcs)
    PROVE  /\ told' \in [Devices -> [sys : Byte, name : Byte]]
           /\ ghost' \in [Devices -> History]
<1>1. processByte(r) \in Byte /\ (IF r.removed THEN "0" ELSE "1") \in Byte
  BY DEF processByte, Byte
<1>2. /\ told \in [Devices -> [sys : Byte, name : Byte]]
      /\ ghost \in [Devices -> History] /\ ghost[d] \in History
  BY DEF TypeOK
<1>3. CASE ~r.has_tag
  <2>1. /\ told' = [told EXCEPT ![d] =
                       ready(told[d], r, IF r.removed THEN "0" ELSE "1")]
        /\ ghost' = ghost
    BY <1>3 DEF HandleEffects
  <2> QED
    BY <1>1, <1>2, <2>1, ReadyType
<1>4. CASE r.has_tag /\ r.processing
  <2>1. told' = told /\ ghost' = [ghost EXCEPT ![d] = [ghost[d] EXCEPT !.waits = svcs]]
    BY <1>4 DEF HandleEffects
  <2>2. [ghost[d] EXCEPT !.waits = svcs] \in History
    BY <1>2 DEF History
  <2> QED
    BY <1>2, <2>1, <2>2
<1>5. CASE r.has_tag /\ ~r.processing
  <2> DEFINE h == [[ghost[d] EXCEPT !.waits = svcs] EXCEPT !.seen = {}]
  <2>1. told' = [told EXCEPT ![d] = ready(told[d], r, processByte(r))]
    BY <1>5 DEF HandleEffects
  <2>2. ghost' = [ghost EXCEPT ![d] = h]
    BY <1>2, <1>5 DEF HandleEffects
  <2>3. h \in History
    BY <1>2 DEF History
  <2> HIDE DEF h
  <2> QED
    BY <1>1, <1>2, <2>1, <2>2, <2>3, ReadyType
<1> QED
  BY <1>3, <1>4, <1>5

-----------------------------------------------------------------------------
(* Messages about a service name one *)

\* What devmon and dinit send about a service.
LEMMA SubProper ==
    ASSUME NEW op \in SubOps, NEW d \in Devices, NEW s \in Services,
           NEW rem \in BOOLEAN, NEW arg \in Args
    PROVE  Msg(op, d, s, rem, arg) \in Proper
<1>1. op \in Ops
  BY DEF SubOps, Ops
<1>2. Msg(op, d, s, rem, arg) \in Message /\ Msg(op, d, s, rem, arg).s = s
  BY <1>1, MsgType
<1> QED
  BY <1>2 DEF Proper

\* What devmon sends about the device's own service.
LEMMA DevProper ==
    ASSUME NEW op \in {"load_dev", "dep_sys"}, NEW d \in Devices,
           NEW rem \in BOOLEAN
    PROVE  Msg(op, d, NoService, rem, "") \in Proper
<1>1. op \in Ops /\ "" \in Args /\ NoService \in Services \cup {NoService}
  BY DEF Ops, Args
<1>2. /\ Msg(op, d, NoService, rem, "") \in Message
      /\ Msg(op, d, NoService, rem, "").op = op
  BY <1>1 DEF Msg, Message
<1>3. op \notin SubOps
  BY DEF SubOps
<1> QED
  BY <1>2, <1>3 DEF Proper

\* One message makes a sequence.
LEMMA OneProper ==
    ASSUME NEW g \in Proper
    PROVE  <<g>> \in Seq(Proper)
  OBVIOUS

\* The request with which process() starts a round.
LEMMA RequestProper ==
    ASSUME NEW d \in Devices, NEW r, r.removed \in BOOLEAN
    PROVE  processRequest(d, r) \in Seq(Proper)
<1>1. Msg("load_dev", d, NoService, r.removed, "") \in Proper
  BY DevProper
<1>2. <<Msg("load_dev", d, NoService, r.removed, "")>> \in Seq(Proper)
  BY <1>1, OneProper
<1>3. <<>> \in Seq(Proper)
  OBVIOUS
<1> QED
  BY <1>2, <1>3 DEF processRequest

\* The message a callback or dinit consumes.
LEMMA HeadProper ==
    ASSUME NEW q \in Seq(Proper), q # <<>>
    PROVE  /\ Head(q) \in Proper /\ Tail(q) \in Seq(Proper)
           /\ Head(q) \in Message /\ Head(q).d \in Devices
           /\ Head(q).rem \in BOOLEAN /\ Head(q).arg \in Args
           /\ Head(q).op \in SubOps => Head(q).s \in Services
<1>1. Head(q) \in Proper /\ Tail(q) \in Seq(Proper)
  BY HeadTailProperties
<1>2. Head(q) \in Message /\ (Head(q).op \in SubOps => Head(q).s \in Services)
  BY <1>1 DEF Proper
<1> QED
  BY <1>1, <1>2 DEF Message

\* The loads of a set of services.
LEMMA LoadsProper ==
    ASSUME NEW d \in Devices, NEW S \in SUBSET Services, IsFiniteSet(S),
           NEW q \in Orders(S), NEW rem \in BOOLEAN
    PROVE  [i \in DOMAIN q |-> LoadSub(d, q[i], rem)] \in Seq(Proper)
<1>1. /\ q \in Seq(S) /\ DOMAIN q = 1..Cardinality(S) /\ Cardinality(S) \in Nat
  BY OrdersType
<1>2. \A i \in DOMAIN q : q[i] \in Services
  BY <1>1, ElementOfSeq, LenProperties
<1>3. \A i \in DOMAIN q : LoadSub(d, q[i], rem) \in Proper
  <2> TAKE i \in DOMAIN q
  <2>1. "load_sub" \in SubOps /\ "" \in Args
    BY DEF SubOps, Args
  <2> QED
    BY <1>2, <2>1, SubProper DEF LoadSub
<1>4. [i \in DOMAIN q |-> LoadSub(d, q[i], rem)] \in [1..Cardinality(S) -> Proper]
  BY <1>1, <1>3
<1> QED
  BY <1>1, <1>4, IsASeq

\* Every step sends messages that name a service where one is needed.
LEMMA NamedNext ==
    ASSUME Inv, Named, Next
    PROVE  Named'
<1>1. /\ TypeOK /\ out \in Seq(Proper) /\ inn \in Seq(Proper)
      /\ dev \in [Devices -> DeviceRec]
  BY DEF Inv, Named, TypeOK
<1>2. ASSUME NEW e \in Devices PROVE dev[e].removed \in BOOLEAN /\ dev[e].removal \in BOOLEAN
  BY <1>1 DEF DeviceRec
<1>3. <<>> \in Seq(Proper)
  OBVIOUS
<1>4. CASE Dispatch
  <2> DEFINE m == Head(inn)
  <2>1. /\ m \in Proper /\ Tail(inn) \in Seq(Proper) /\ m \in Message
        /\ m.d \in Devices /\ m.rem \in BOOLEAN /\ m.arg \in Args
        /\ m.op \in SubOps => m.s \in Services
    BY <1>1, <1>4, HeadProper DEF Dispatch
  <2>2. inn' \in Seq(Proper)
    BY <1>4, <2>1 DEF Dispatch
  <2>3. Decremented(m).removed \in BOOLEAN
    BY <1>1, <1>2, <2>1 DEF Decremented, DeviceRec
  <2>4. DevLoaded(m) \/ DevLoadFailed(m) \/ SysDepDone(m)
        \/ SubLoadFailed(m) \/ SubLoadedNoWake(m) \/ SubLoadedWatch(m)
        \/ DepDoneNoWake(m) \/ DepDoneWake(m) \/ EventDone(m) \/ EventIgnored(m)
    BY <1>4 DEF Dispatch
  <2>5. /\ "nowake" \in Args /\ "wake" \in Args /\ "" \in Args /\ "closed" \in Args
        /\ "dep_sub" \in SubOps /\ "wake" \in SubOps /\ "load_sub" \in SubOps
    BY DEF Args, SubOps
  <2> HIDE DEF m
  <2>6. CASE DevLoaded(m)
    <3>1. Msg("dep_sys", m.d, NoService, dev[m.d].removal, "") \in Proper
      BY <1>2, <2>1, DevProper
    <3>2. out' = Append(out, Msg("dep_sys", m.d, NoService, dev[m.d].removal, ""))
      BY <2>6 DEF DevLoaded
    <3> QED
      BY <1>1, <2>2, <3>1, <3>2, AppendProperties DEF Named
  <2>7. CASE DevLoadFailed(m)
    <3>1. processRequest(m.d, dev[m.d]) \in Seq(Proper)
      BY <1>2, <2>1, RequestProper
    <3>2. out' = (out \o <<>>) \o processRequest(m.d, dev[m.d])
      BY <2>7 DEF DevLoadFailed, ProcessStep
    <3> QED
      BY <1>1, <1>3, <2>2, <3>1, <3>2, ConcatProperties DEF Named
  <2>8. CASE SysDepDone(m)
    <3> DEFINE r == dev[m.d]
    <3>1. PICK b \in Orders(r.dsvcset), c \in Orders(r.psvcset) :
             out' = (out \o [i \in DOMAIN b |-> LoadSub(m.d, b[i], TRUE)])
                         \o [i \in DOMAIN c |-> LoadSub(m.d, c[i], FALSE)]
      BY <2>8 DEF SysDepDone
    <3>2. /\ IsFiniteSet(r.dsvcset) /\ IsFiniteSet(r.psvcset)
          /\ r.dsvcset \in SUBSET Services /\ r.psvcset \in SUBSET Services
      BY <1>1, <2>1, DeviceAssumption, FS_Subset DEF DeviceRec
    <3>3. [i \in DOMAIN b |-> LoadSub(m.d, b[i], TRUE)] \in Seq(Proper)
      BY <2>1, <3>2, LoadsProper
    <3>4. [i \in DOMAIN c |-> LoadSub(m.d, c[i], FALSE)] \in Seq(Proper)
      BY <2>1, <3>2, LoadsProper
    <3> QED
      BY <1>1, <2>2, <3>1, <3>3, <3>4, ConcatProperties DEF Named
  <2>9. CASE SubLoadFailed(m) \/ EventDone(m)
    <3>1. Resolved(m.d, Decremented(m), <<>>)
      BY <2>9 DEF SubLoadFailed, EventDone
    <3>2. \/ out' = (out \o <<>>) \o processRequest(m.d, Decremented(m))
          \/ out' = out \o <<>>
      BY <3>1 DEF Resolved, ProcessStep
    <3>3. processRequest(m.d, Decremented(m)) \in Seq(Proper)
      BY <2>1, <2>3, RequestProper
    <3>4. out \o <<>> \in Seq(Proper)
      BY <1>1, <1>3, ConcatProperties
    <3>5. (out \o <<>>) \o processRequest(m.d, Decremented(m)) \in Seq(Proper)
      BY <3>3, <3>4, ConcatProperties
    <3> QED
      BY <2>2, <3>2, <3>4, <3>5, Zenon DEF Named
  <2>10. CASE SubLoadedNoWake(m)
    <3> DEFINE g == Msg("dep_sub", m.d, m.s, m.rem, "nowake")
    <3>1. m.s \in Services
      BY <2>1, <2>5, <2>10 DEF SubLoadedNoWake, Arrives
    <3>2. g \in Proper
      BY <2>1, <2>5, <3>1, SubProper
    <3>3. Resolved(m.d, Decremented(m), <<g>>)
      BY <2>10 DEF SubLoadedNoWake
    <3> HIDE DEF g
    <3>4. <<g>> \in Seq(Proper)
      BY <3>2
    <3>5. \/ out' = (out \o <<g>>) \o processRequest(m.d, Decremented(m))
          \/ out' = out \o <<g>>
      BY <3>3 DEF Resolved, ProcessStep
    <3>6. processRequest(m.d, Decremented(m)) \in Seq(Proper)
      BY <2>1, <2>3, RequestProper
    <3>7. out \o <<g>> \in Seq(Proper)
      BY <1>1, <3>4, ConcatProperties
    <3>8. (out \o <<g>>) \o processRequest(m.d, Decremented(m)) \in Seq(Proper)
      BY <3>6, <3>7, ConcatProperties
    <3> QED
      BY <2>2, <3>5, <3>7, <3>8, Zenon DEF Named
  <2>11. CASE SubLoadedWatch(m)
    <3>1. m.s \in Services
      BY <2>1, <2>5, <2>11 DEF SubLoadedWatch, Arrives
    <3>2. Msg("dep_sub", m.d, m.s, FALSE, "wake") \in Proper
      BY <2>1, <2>5, <3>1, SubProper
    <3>3. out' = Append(out, Msg("dep_sub", m.d, m.s, FALSE, "wake"))
      BY <2>11 DEF SubLoadedWatch
    <3> QED
      BY <1>1, <2>2, <3>2, <3>3, AppendProperties DEF Named
  <2>12. CASE DepDoneWake(m)
    <3>1. m.s \in Services
      BY <2>1, <2>5, <2>12 DEF DepDoneWake, Arrives
    <3>2. PICK a \in Args : out' = Append(out, Msg("wake", m.d, m.s, FALSE, a))
      BY <2>5, <2>12 DEF DepDoneWake
    <3>3. Msg("wake", m.d, m.s, FALSE, a) \in Proper
      BY <2>1, <2>5, <3>1, SubProper
    <3> QED
      BY <1>1, <2>2, <3>2, <3>3, AppendProperties DEF Named
  <2>13. CASE DepDoneNoWake(m) \/ EventIgnored(m)
    BY <1>1, <2>2, <2>13 DEF DepDoneNoWake, EventIgnored, Named
  <2> QED
    BY <2>4, <2>6, <2>7, <2>8, <2>9, <2>10, <2>11, <2>12, <2>13
<1>5. CASE Serve
  <2> DEFINE m == Head(out)
  <2>1. /\ m \in Proper /\ Tail(out) \in Seq(Proper) /\ m.arg \in Args
    BY <1>1, <1>5, HeadProper DEF Serve
  <2>2. out' \in Seq(Proper)
    BY <1>5, <2>1 DEF Serve
  <2>3. inn' = inn \/ \E a \in Args : inn' = Append(inn, [m EXCEPT !.arg = a])
    <3>1. \A a : Answer(m, a) => inn' = Append(inn, [m EXCEPT !.arg = a])
      BY DEF Answer
    <3>2. "ok" \in Args /\ "fail" \in Args /\ "" \in Args /\ "started" \in Args
      BY DEF Args
    <3>3. ServeLoadDev(m) \/ ServeDepSys(m) \/ ServeLoadSub(m)
             \/ ServeDepSub(m) \/ ServeWake(m)
      BY <1>5 DEF Serve
    <3> HIDE DEF m
    <3> QED
      BY <2>1, <3>1, <3>2, <3>3
         DEF ServeLoadDev, ServeDepSys, ServeLoadSub, ServeDepSub, ServeWake
  <2>4. ASSUME NEW a \in Args PROVE [m EXCEPT !.arg = a] \in Proper
    <3>1. m \in Message /\ (m.op \in SubOps => m.s \in Services)
      BY <2>1 DEF Proper
    <3> HIDE DEF m
    <3>2. /\ [m EXCEPT !.arg = a] \in Message
          /\ [m EXCEPT !.arg = a].op = m.op /\ [m EXCEPT !.arg = a].s = m.s
      BY <3>1 DEF Message
    <3> QED
      BY <3>1, <3>2 DEF Proper
  <2>5. inn' \in Seq(Proper)
    <3>1. CASE inn' = inn
      BY <1>1, <3>1
    <3>2. ASSUME NEW a \in Args, inn' = Append(inn, [m EXCEPT !.arg = a])
          PROVE  inn' \in Seq(Proper)
      <4> DEFINE g == [m EXCEPT !.arg = a]
      <4>1. g \in Proper /\ inn' = Append(inn, g)
        BY <2>4, <3>2
      <4> HIDE DEF g
      <4> QED
        BY <1>1, <4>1, AppendProperties
    <3> QED
      BY <2>3, <3>1, <3>2
  <2> QED
    BY <2>2, <2>5 DEF Named
<1>6. CASE \E s \in Services : SvcFinish(s)
  <2>1. PICK s \in Services, what \in Args :
           Tell(s, what) /\ UNCHANGED <<devmonVars, out, handles, sysdeps, deps, ghost>>
    BY <1>6, FinishTells DEF SvcFinish
  <2> QED
    BY <1>1, <2>1, TellTotal DEF Named
<1>7. CASE Input
  <2>1. CASE \E d \in Devices : Udev(d)
    <3>0. PICK d \in Devices : \E r, svcs :
             /\ HandleEffects(d, r, svcs)
             /\ r.removed \in BOOLEAN /\ inn' = inn
      <4>1. \A d \in Devices, tagged \in BOOLEAN :
               /\ [dev[d] EXCEPT !.removed = FALSE, !.named = TRUE,
                                 !.has_tag = @ \/ tagged].removed \in BOOLEAN
               /\ [dev[d] EXCEPT !.removed = TRUE,
                                 !.has_tag = @ \/ tagged].removed \in BOOLEAN
        BY <1>1 DEF DeviceRec
      <4> QED
        BY <2>1, <4>1, Zenon DEF Udev, AddDevice, RemoveDevice
    <3>1. PICK r, svcs : /\ HandleEffects(d, r, svcs)
                         /\ r.removed \in BOOLEAN /\ inn' = inn
      BY <3>0
    <3> DEFINE r2 == [r EXCEPT !.pending = TRUE]
    <3>2. out' = out \/ out' = out \o processRequest(d, r2)
      BY <3>1 DEF HandleEffects
    <3>3. r2.removed \in BOOLEAN
      BY <3>1
    <3> HIDE DEF r2
    <3>4. processRequest(d, r2) \in Seq(Proper)
      BY <3>3, RequestProper
    <3> QED
      BY <1>1, <3>1, <3>2, <3>4, ConcatProperties DEF Named
  <2>2. CASE \E s \in Services : SvcBegin(s)
    BY <1>1, <2>2 DEF SvcBegin, Named
  <2>3. CASE Restart
    BY <1>3, <2>3 DEF Restart, Named
  <2> QED
    BY <1>7, <2>1, <2>2, <2>3 DEF Input
<1> QED
  BY <1>4, <1>5, <1>6, <1>7 DEF Next, Reaction

-----------------------------------------------------------------------------
(* Every step preserves the invariant *)

\* The history of a resolved service has its type.
LEMMA NoteType ==
    ASSUME TypeOK, NEW d \in Devices, NEW r, NEW s \in Services, NEW rem,
           Note(d, r, s, rem)
    PROVE  ghost' \in [Devices -> History]
<1>1. ghost \in [Devices -> History] /\ ghost[d] \in History
  BY DEF TypeOK
<1>2. PICK S \in SUBSET Services :
         ghost' = [ghost EXCEPT ![d] = [ghost[d] EXCEPT !.seen = S]]
  <2>1. ghost[d].seen \in SUBSET Services
    BY <1>1 DEF History
  <2>2. (IF r.pending_svcs = 0 /\ r.pending THEN {}
         ELSE IF rem THEN ghost[d].seen ELSE ghost[d].seen \cup {s})
            \in SUBSET Services
    BY <2>1
  <2>3. ghost' = [ghost EXCEPT ![d] = [ghost[d] EXCEPT !.seen =
            IF r.pending_svcs = 0 /\ r.pending THEN {}
            ELSE IF rem THEN ghost[d].seen ELSE ghost[d].seen \cup {s}]]
    BY DEF Note
  <2> QED
    BY <2>2, <2>3
<1>3. [ghost[d] EXCEPT !.seen = S] \in History
  BY <1>1 DEF History
<1> QED
  BY <1>1, <1>2, <1>3

\* The part of the type invariant that only dinit's own steps change
DinitType ==
    /\ sstate \in [Services -> ServiceState]
    /\ sysdeps \subseteq Devices
    /\ deps \subseteq Devices \X Services
    /\ inputs \in 0..MaxInputs

\* A callback preserves the invariant.
LEMMA DispatchInv ==
    ASSUME IInv, Dispatch, UNCHANGED inputs
    PROVE  Inv'
<1> DEFINE m == Head(inn)
<1>1. Inv /\ TypeOK /\ Named
  BY DEF IInv, Inv
<1>2. inn # <<>> /\ inn' = Tail(inn)
  BY DEF Dispatch
<1>3. /\ m \in Message /\ m.d \in Devices /\ m.rem \in BOOLEAN
      /\ m.op \in SubOps => m.s \in Services
  BY <1>1, <1>2, HeadProper DEF Named
<1>4. inn' \in Seq(Message)
  BY <1>1, <1>2, HeadType
<1>5. DevLoaded(m) \/ DevLoadFailed(m) \/ SysDepDone(m)
      \/ SubLoadFailed(m) \/ SubLoadedNoWake(m) \/ SubLoadedWatch(m)
      \/ DepDoneNoWake(m) \/ DepDoneWake(m) \/ EventDone(m) \/ EventIgnored(m)
  BY DEF Dispatch
<1>6. /\ map_sys \subseteq Devices /\ map_svcdev \subseteq Devices \X Services
      /\ dev \in [Devices -> DeviceRec]
      /\ told \in [Devices -> [sys : Byte, name : Byte]]
      /\ handles \subseteq Devices \X Services \X BOOLEAN
      /\ ghost \in [Devices -> History] /\ out \in Seq(Message)
  BY <1>1 DEF TypeOK
<1>7. "load_sub" \in SubOps /\ "dep_sub" \in SubOps /\ "event" \in SubOps
  BY DEF SubOps
<1>8. /\ <<>> \in Seq(Message) /\ Idle(<<>>)
  BY NumEmpty DEF Idle
<1>9. m = Head(inn)
  OBVIOUS
<1> HIDE DEF m
<1>10. DinitType'
  <2>1. DinitType
    BY <1>1 DEF TypeOK, DinitType
  <2>2. UNCHANGED <<sstate, sysdeps, deps, inputs>>
    BY <1>5 DEF DevLoaded, DevLoadFailed, SysDepDone, SubLoadFailed,
       SubLoadedNoWake, SubLoadedWatch, DepDoneNoWake, DepDoneWake, EventDone,
       EventIgnored, dinitVars
  <2> QED
    BY <2>1, <2>2 DEF DinitType
<1>11. CASE DevLoaded(m)
  <2>1. /\ \A d \in Devices : Acct(d)' /\ Once(d)'
        /\ dev' \in [Devices -> DeviceRec] /\ out' \in Seq(Message)
    BY <1>1, <1>2, <1>9, <1>11, DevLoadedInv
  <2>2. [ghost[m.d] EXCEPT !.devok = TRUE] \in History
    BY <1>3, <1>6 DEF History
  <2>3. ghost' \in [Devices -> History]
    BY <1>3, <1>6, <1>11, <2>2 DEF DevLoaded
  <2>4. UNCHANGED <<map_sys, map_svcdev, told, handles>>
    BY <1>11 DEF DevLoaded
  <2> QED
    BY <1>4, <1>6, <1>10, <2>1, <2>3, <2>4 DEF Inv, TypeOK, DinitType
<1>12. CASE DevLoadFailed(m)
  <2>1. /\ \A d \in Devices : Acct(d)' /\ Once(d)'
        /\ dev' \in [Devices -> DeviceRec] /\ out' \in Seq(Message)
        /\ told' \in [Devices -> [sys : Byte, name : Byte]]
    BY <1>1, <1>2, <1>9, <1>12, DevLoadFailedInv
  <2>2. PICK S \in SUBSET Services :
           ghost' = [ghost EXCEPT ![m.d] =
                        [[ghost[m.d] EXCEPT !.devok = FALSE] EXCEPT !.seen = S]]
    <3>1. (IF dev[m.d].pending THEN {} ELSE ghost[m.d].seen) \in SUBSET Services
      BY <1>3, <1>6 DEF History
    <3>2. ghost[m.d] \in History
      BY <1>3, <1>6
    <3>3. ghost' = [ghost EXCEPT ![m.d] =
             [[ghost[m.d] EXCEPT !.devok = FALSE] EXCEPT !.seen =
                 IF dev[m.d].pending THEN {} ELSE ghost[m.d].seen]]
      BY <1>3, <1>6, <1>12, <3>2 DEF DevLoadFailed, History
    <3> QED
      BY <3>1, <3>3
  <2>3. [[ghost[m.d] EXCEPT !.devok = FALSE] EXCEPT !.seen = S] \in History
    BY <1>3, <1>6 DEF History
  <2>4. ghost' \in [Devices -> History]
    BY <1>3, <1>6, <2>2, <2>3
  <2>5. UNCHANGED <<map_sys, map_svcdev, handles>>
    BY <1>12 DEF DevLoadFailed
  <2> QED
    BY <1>4, <1>6, <1>10, <2>1, <2>4, <2>5 DEF Inv, TypeOK, DinitType
<1>13. CASE SysDepDone(m)
  <2>1. /\ \A d \in Devices : Acct(d)' /\ Once(d)'
        /\ dev' \in [Devices -> DeviceRec] /\ out' \in Seq(Message)
    BY <1>1, <1>2, <1>9, <1>13, SysDepDoneInv
  <2>2. UNCHANGED <<map_sys, map_svcdev, told, handles, ghost>>
    BY <1>13 DEF SysDepDone
  <2> QED
    BY <1>4, <1>6, <1>10, <2>1, <2>2 DEF Inv, TypeOK, DinitType
<1>14. CASE SubLoadFailed(m)
  <2>1. m.op = "load_sub" /\ m.s \in Services
    BY <1>3, <1>7, <1>14 DEF SubLoadFailed, Arrives
  <2>2. /\ Resolved(m.d, Decremented(m), <<>>)
        /\ Note(m.d, Decremented(m), m.s, m.rem)
        /\ UNCHANGED <<map_sys, map_svcdev, handles>>
    BY <1>14 DEF SubLoadFailed
  <2>3. /\ \A d \in Devices : Acct(d)' /\ Once(d)'
        /\ dev' \in [Devices -> DeviceRec]
        /\ told' \in [Devices -> [sys : Byte, name : Byte]]
        /\ out' \in Seq(Message)
    BY <1>1, <1>2, <1>8, <1>9, <2>1, <2>2, ResolvedInv
  <2>4. ghost' \in [Devices -> History]
    BY <1>1, <1>3, <2>1, <2>2, NoteType
  <2> QED
    BY <1>4, <1>6, <1>10, <2>2, <2>3, <2>4 DEF Inv, TypeOK, DinitType
<1>15. CASE SubLoadedNoWake(m)
  <2> DEFINE g == Msg("dep_sub", m.d, m.s, m.rem, "nowake")
  <2>1. m.op = "load_sub" /\ m.s \in Services
    BY <1>3, <1>7, <1>15 DEF SubLoadedNoWake, Arrives
  <2>2. /\ Resolved(m.d, Decremented(m), <<g>>)
        /\ Note(m.d, Decremented(m), m.s, m.rem)
        /\ UNCHANGED <<map_sys, map_svcdev, handles>>
    BY <1>15 DEF SubLoadedNoWake
  <2>3. <<g>> \in Seq(Message) /\ Idle(<<g>>)
    <3>1. g \in Message /\ g.op = "dep_sub"
      BY <1>3, <2>1 DEF Msg, Message, Ops, Args
    <3> HIDE DEF g
    <3> QED
      BY <3>1, Untracked DEF Tracked
  <2> HIDE DEF g
  <2>4. /\ \A d \in Devices : Acct(d)' /\ Once(d)'
        /\ dev' \in [Devices -> DeviceRec]
        /\ told' \in [Devices -> [sys : Byte, name : Byte]]
        /\ out' \in Seq(Message)
    BY <1>1, <1>2, <1>9, <2>1, <2>2, <2>3, ResolvedInv
  <2>5. ghost' \in [Devices -> History]
    BY <1>1, <1>3, <2>1, <2>2, NoteType
  <2> QED
    BY <1>4, <1>6, <1>10, <2>2, <2>4, <2>5 DEF Inv, TypeOK, DinitType
<1>16. CASE SubLoadedWatch(m)
  <2> DEFINE g == Msg("dep_sub", m.d, m.s, FALSE, "wake")
  <2>1. m.op = "load_sub" /\ m.s \in Services /\ ~m.rem
    BY <1>3, <1>7, <1>16 DEF SubLoadedWatch, Arrives
  <2>2. /\ UNCHANGED <<map_sys, dev, told, handles, ghost>>
        /\ map_svcdev' = map_svcdev \cup {<<m.d, m.s>>}
        /\ out' = Append(out, g)
    BY <1>16 DEF SubLoadedWatch
  <2>3. <<g>> \in Seq(Message) /\ Idle(<<g>>) /\ g \in Message
    <3>1. g \in Message /\ g.op = "dep_sub"
      BY <1>3, <2>1 DEF Msg, Message, Ops, Args
    <3> HIDE DEF g
    <3> QED
      BY <3>1, Untracked DEF Tracked
  <2> HIDE DEF g
  <2>4. out' = out \o <<g>>
    BY <1>6, <2>2, <2>3, AppendIsConcat
  <2>5. \A d \in Devices : Acct(d)' /\ Once(d)'
    BY <1>1, <1>2, <1>9, <2>1, <2>2, <2>3, <2>4, WatchInv
  <2>6. out' \in Seq(Message) /\ map_svcdev' \subseteq Devices \X Services
    BY <1>3, <1>6, <2>1, <2>2, <2>3, AppendProperties
  <2> QED
    BY <1>4, <1>6, <1>10, <2>2, <2>5, <2>6 DEF Inv, TypeOK, DinitType
<1>17. CASE EventDone(m)
  <2>1. m.op = "event" /\ m.s \in Services /\ <<m.d, m.s>> \in map_svcdev
    BY <1>3, <1>7, <1>17 DEF EventDone, Arrives
  <2>2. /\ Resolved(m.d, Decremented(m), <<>>)
        /\ Note(m.d, Decremented(m), m.s, FALSE)
        /\ map_svcdev' = map_svcdev \ {<<m.d, m.s>>}
        /\ handles' = handles \ {<<m.d, m.s, FALSE>>}
        /\ UNCHANGED map_sys
    BY <1>17 DEF EventDone
  <2>3. /\ \A d \in Devices : Acct(d)' /\ Once(d)'
        /\ dev' \in [Devices -> DeviceRec]
        /\ told' \in [Devices -> [sys : Byte, name : Byte]]
        /\ out' \in Seq(Message)
    BY <1>1, <1>2, <1>8, <1>9, <2>1, <2>2, ResolvedInv
  <2>4. ghost' \in [Devices -> History]
    BY <1>1, <1>3, <2>1, <2>2, NoteType
  <2>5. /\ map_svcdev' \subseteq Devices \X Services
        /\ handles' \subseteq Devices \X Services \X BOOLEAN
    BY <1>6, <2>2
  <2> QED
    BY <1>4, <1>6, <1>10, <2>2, <2>3, <2>4, <2>5 DEF Inv, TypeOK, DinitType
<1>18. CASE DepDoneWake(m)
  <2>1. m.op = "dep_sub" /\ m.s \in Services
    BY <1>3, <1>7, <1>18 DEF DepDoneWake, Arrives
  <2>2. PICK a \in Args : out' = Append(out, Msg("wake", m.d, m.s, FALSE, a))
    BY <1>18 DEF DepDoneWake, Args
  <2> DEFINE g == Msg("wake", m.d, m.s, FALSE, a)
  <2>3. <<g>> \in Seq(Message) /\ Idle(<<g>>) /\ g \in Message
    <3>1. g \in Message /\ g.op = "wake"
      BY <1>3, <2>1 DEF Msg, Message, Ops, Args
    <3> HIDE DEF g
    <3> QED
      BY <3>1, Untracked DEF Tracked
  <2>4. UNCHANGED <<map_sys, dev, map_svcdev, told, handles, ghost>>
    BY <1>18 DEF DepDoneWake, devmonVars
  <2>5. out' = Append(out, g)
    BY <2>2
  <2> HIDE DEF g
  <2>6. out' = out \o <<g>> /\ out' \in Seq(Message)
    BY <1>6, <2>3, <2>5, AppendIsConcat, AppendProperties
  <2>7. m.op \notin Tracked
    BY <2>1 DEF Tracked
  <2>8. \A d \in Devices : Acct(d)' /\ Once(d)'
    BY <1>1, <1>2, <1>9, <2>3, <2>4, <2>6, <2>7, IdleDispatch
  <2> QED
    BY <1>4, <1>6, <1>10, <2>4, <2>6, <2>8 DEF Inv, TypeOK, DinitType
<1>19. CASE DepDoneNoWake(m) \/ EventIgnored(m)
  <2>1. m.op \notin Tracked
    BY <1>19 DEF DepDoneNoWake, EventIgnored, Arrives, Tracked
  <2>2. /\ UNCHANGED <<map_sys, dev, map_svcdev, told, out, ghost>>
        /\ handles' \subseteq handles
    BY <1>19 DEF DepDoneNoWake, EventIgnored, devmonVars
  <2>3. out' = out \o <<>>
    BY <1>6, <2>2
  <2>4. \A d \in Devices : Acct(d)' /\ Once(d)'
    BY <1>1, <1>2, <1>8, <1>9, <2>1, <2>2, <2>3, IdleDispatch
  <2> QED
    BY <1>4, <1>6, <1>10, <2>2, <2>4 DEF Inv, TypeOK, DinitType
<1> QED
  BY <1>5, <1>11, <1>12, <1>13, <1>14, <1>15, <1>16, <1>17, <1>18, <1>19

\* A step of dinit preserves the invariant.
LEMMA ServeInv ==
    ASSUME IInv, Serve, UNCHANGED inputs
    PROVE  Inv'
<1> DEFINE m == Head(out)
<1>1. Inv /\ TypeOK /\ out \in Seq(Proper) /\ out # <<>>
  BY DEF IInv, Inv, Named, Serve
<1>2. /\ m \in Message /\ m.d \in Devices /\ m.rem \in BOOLEAN /\ m.arg \in Args
      /\ m.op \in SubOps => m.s \in Services
  BY <1>1, HeadProper
<1>3. /\ out' = Tail(out) /\ out' \in Seq(Message)
      /\ UNCHANGED <<map_sys, dev, map_svcdev, told, ghost, inputs>>
  <2>1. out \in Seq(Message)
    BY <1>1 DEF TypeOK
  <2> QED
    BY <1>1, <2>1, HeadTailProperties DEF Serve, devmonVars
<1>4. ServeLoadDev(m) \/ ServeDepSys(m) \/ ServeLoadSub(m)
         \/ ServeDepSub(m) \/ ServeWake(m)
  BY DEF Serve
<1>5. /\ "ok" \in Args /\ "fail" \in Args /\ "" \in Args /\ "started" \in Args
      /\ "load_sub" \in SubOps /\ "dep_sub" \in SubOps /\ "wake" \in SubOps
  BY DEF Args, SubOps
<1>6. ASSUME NEW a \in Args, Answer(m, a)
      PROVE  inn' \in Seq(Message) /\ \A d \in Devices : Acct(d)' /\ Once(d)'
  <2>1. inn' = Append(inn, [m EXCEPT !.arg = a])
    BY <1>6 DEF Answer
  <2>2. /\ inn' \in Seq(Message)
        /\ \A op \in Tracked, e \in Devices : InFlight(op, e)' = InFlight(op, e)
        /\ \A e \in Devices, s \in Services :
              Total(AddLoad(e, s))' = Total(AddLoad(e, s))
    BY <1>1, <1>3, <2>1, AnswerTotal
  <2> QED
    BY <1>1, <1>3, <2>2, SameAcct
<1>7. /\ sstate \in [Services -> ServiceState] /\ sysdeps \subseteq Devices
      /\ deps \subseteq Devices \X Services /\ inputs \in 0..MaxInputs
      /\ handles \subseteq Devices \X Services \X BOOLEAN
      /\ map_sys \subseteq Devices /\ map_svcdev \subseteq Devices \X Services
      /\ dev \in [Devices -> DeviceRec]
      /\ told \in [Devices -> [sys : Byte, name : Byte]]
      /\ ghost \in [Devices -> History] /\ inn \in Seq(Message)
  BY <1>1 DEF TypeOK
<1> HIDE DEF m
<1>8. inn' \in Seq(Message) /\ \A d \in Devices : Acct(d)' /\ Once(d)'
  <2>1. CASE ServeWake(m)
    <3>1. inn' = inn /\ Head(out).op = "wake"
      BY <2>1 DEF ServeWake, m
    <3>2. /\ \A op \in Tracked, e \in Devices : InFlight(op, e)' = InFlight(op, e)
          /\ \A e \in Devices, s \in Services :
                Total(AddLoad(e, s))' = Total(AddLoad(e, s))
      BY <1>1, <1>3, <3>1, WakeTotal
    <3> QED
      BY <1>1, <1>3, <1>7, <3>1, <3>2, SameAcct
  <2>2. CASE ~ServeWake(m)
    <3>1. \E a \in Args : Answer(m, a)
      BY <1>2, <1>4, <1>5, <2>2
         DEF ServeLoadDev, ServeDepSys, ServeLoadSub, ServeDepSub
    <3> QED
      BY <1>6, <3>1
  <2> QED
    BY <2>1, <2>2
<1>9. /\ sstate' \in [Services -> ServiceState] /\ sysdeps' \subseteq Devices
      /\ deps' \subseteq Devices \X Services
      /\ handles' \subseteq Devices \X Services \X BOOLEAN
  <2>1. CASE ServeLoadDev(m)
    BY <1>7, <2>1 DEF ServeLoadDev, dinitVars
  <2>2. CASE ServeDepSys(m)
    BY <1>2, <1>7, <2>2 DEF ServeDepSys
  <2>3. CASE ServeLoadSub(m)
    <3>1. m.s \in Services
      BY <1>2, <1>5, <2>3 DEF ServeLoadSub
    <3>2. handles' = handles \/ handles' = handles \cup {<<m.d, m.s, m.rem>>}
      BY <2>3 DEF ServeLoadSub
    <3>3. UNCHANGED <<sstate, sysdeps, deps>>
      BY <2>3 DEF ServeLoadSub, dinitVars
    <3>4. <<m.d, m.s, m.rem>> \in Devices \X Services \X BOOLEAN
      BY <1>2, <3>1
    <3> QED
      BY <1>7, <3>2, <3>3, <3>4
  <2>4. CASE ServeDepSub(m)
    <3>1. m.s \in Services
      BY <1>2, <1>5, <2>4 DEF ServeDepSub
    <3>2. sstate' = sstate \/ sstate' = [sstate EXCEPT ![m.s] = "starting"]
      BY <2>4 DEF ServeDepSub
    <3>3. sstate' \in [Services -> ServiceState]
      BY <1>7, <3>2 DEF ServiceState
    <3>4. /\ deps' = IF m.rem THEN deps \ {<<m.d, m.s>>} ELSE deps \cup {<<m.d, m.s>>}
          /\ UNCHANGED <<handles, sysdeps>>
      BY <2>4 DEF ServeDepSub
    <3>5. deps' \subseteq Devices \X Services
      BY <1>2, <1>7, <3>1, <3>4
    <3> QED
      BY <1>7, <3>3, <3>4, <3>5
  <2>5. CASE ServeWake(m)
    <3>1. sstate' = sstate \/ sstate' = [sstate EXCEPT ![m.s] = "starting"]
      BY <2>5 DEF ServeWake
    <3>2. UNCHANGED <<handles, sysdeps, deps>>
      BY <2>5 DEF ServeWake
    <3> QED
      BY <1>7, <3>1, <3>2 DEF ServiceState
  <2> QED
    BY <1>4, <2>1, <2>2, <2>3, <2>4, <2>5
<1> QED
  BY <1>3, <1>7, <1>8, <1>9 DEF Inv, TypeOK

\* A service that starts or stops preserves the invariant.
LEMMA ServiceInv ==
    ASSUME IInv, NEW s \in Services,
           \/ SvcFinish(s) /\ inputs' = inputs
           \/ SvcBegin(s) /\ inputs' = inputs + 1 /\ inputs < MaxInputs
    PROVE  Inv'
<1>1. Inv /\ TypeOK
  BY DEF IInv, Inv
<1>2. /\ sstate \in [Services -> ServiceState] /\ inputs \in 0..MaxInputs
      /\ MaxInputs \in Nat /\ inn \in Seq(Message)
  BY <1>1, DeviceAssumption DEF TypeOK
<1>3. UNCHANGED <<map_sys, dev, map_svcdev, told, out, handles, sysdeps, deps, ghost>>
  BY DEF SvcFinish, SvcBegin, devmonVars
<1>4. sstate' \in [Services -> ServiceState]
  BY <1>2 DEF SvcFinish, SvcBegin, ServiceState
<1>5. inputs' \in 0..MaxInputs
  BY <1>2
<1>6. /\ inn' \in Seq(Message)
      /\ \A op \in Tracked, e \in Devices : InFlight(op, e)' = InFlight(op, e)
      /\ \A e \in Devices, t \in Services :
            Total(AddLoad(e, t))' = Total(AddLoad(e, t))
  <2>1. CASE SvcFinish(s)
    BY <1>1, <1>3, <2>1, FinishTells, TellTotal
  <2>2. CASE SvcBegin(s)
    BY <1>2, <1>3, <2>2 DEF SvcBegin, InFlight, Total
  <2> QED
    BY <2>1, <2>2
<1>7. \A d \in Devices : Acct(d)' /\ Once(d)'
  BY <1>1, <1>3, <1>6, SameAcct
<1> QED
  BY <1>1, <1>3, <1>4, <1>5, <1>6, <1>7 DEF Inv, TypeOK

\* A udev event preserves the invariant.
LEMMA UdevStepInv ==
    ASSUME IInv, NEW d \in Devices, Udev(d), inputs < MaxInputs,
           inputs' = inputs + 1
    PROVE  Inv'
<1>1. Inv /\ TypeOK /\ dev \in [Devices -> DeviceRec] /\ dev[d] \in DeviceRec
  BY DEF IInv, Inv, TypeOK
<1>2. inputs' \in 0..MaxInputs
  BY <1>1, DeviceAssumption DEF TypeOK
<1>3. UNCHANGED <<map_svcdev, inn, handles, sstate, sysdeps, deps>>
  BY DEF Udev, AddDevice, RemoveDevice, dinitVars
<1>4. ASSUME NEW r \in DeviceRec, NEW svcs \in SUBSET Services,
             SameRound(r, dev[d]), HandleEffects(d, r, svcs),
             NEW q \in DeviceRec, SameRound(q, handle_device_dinit(r, svcs)),
             dev' = [dev EXCEPT ![d] = q], map_sys' \subseteq Devices
      PROVE  Inv'
  <2>1. /\ \A e \in Devices : Acct(e)' /\ Once(e)'
        /\ dev' \in [Devices -> DeviceRec] /\ out' \in Seq(Message)
    BY <1>1, <1>3, <1>4, UdevInv
  <2>2. /\ told' \in [Devices -> [sys : Byte, name : Byte]]
        /\ ghost' \in [Devices -> History]
    BY <1>1, <1>4, HandleEffectsType
  <2> QED
    BY <1>1, <1>2, <1>3, <1>4, <2>1, <2>2 DEF Inv, TypeOK
<1>5. ASSUME NEW tagged \in BOOLEAN, NEW svcs \in SUBSET Services,
             AddDevice(d, tagged, svcs)
      PROVE  Inv'
  <2>1. PICK b \in BOOLEAN : b = (dev[d].has_tag \/ tagged)
    BY <1>1 DEF DeviceRec
  <2> DEFINE r == [dev[d] EXCEPT !.removed = FALSE, !.named = TRUE, !.has_tag = b]
  <2>2. r \in DeviceRec /\ SameRound(r, dev[d])
    BY <1>1 DEF DeviceRec, SameRound
  <2>3. /\ dev' = [dev EXCEPT ![d] = handle_device_dinit(r, svcs)]
        /\ HandleEffects(d, r, svcs) /\ map_sys' = map_sys \cup {d}
    BY <1>5, <2>1, Zenon DEF AddDevice
  <2> HIDE DEF r
  <2>4. handle_device_dinit(r, svcs) \in DeviceRec
    BY <2>2, HandleType
  <2>5. SameRound(handle_device_dinit(r, svcs), handle_device_dinit(r, svcs))
    BY DEF SameRound
  <2>6. map_sys' \subseteq Devices
    BY <1>1, <2>3 DEF TypeOK
  <2> QED
    BY <1>4, <2>2, <2>3, <2>4, <2>5, <2>6
<1>6. ASSUME NEW tagged \in BOOLEAN, RemoveDevice(d, tagged)
      PROVE  Inv'
  <2>1. PICK b \in BOOLEAN : b = (dev[d].has_tag \/ tagged)
    BY <1>1 DEF DeviceRec
  <2> DEFINE r == [dev[d] EXCEPT !.removed = TRUE, !.has_tag = b]
  <2>2. r \in DeviceRec /\ SameRound(r, dev[d])
    BY <1>1 DEF DeviceRec, SameRound
  <2>3. /\ dev' = [dev EXCEPT ![d] =
                      [handle_device_dinit(r, {}) EXCEPT !.named = FALSE]]
        /\ HandleEffects(d, r, {}) /\ map_sys' = map_sys
    BY <1>6, <2>1, Zenon DEF RemoveDevice
  <2> HIDE DEF r
  <2>4. handle_device_dinit(r, {}) \in DeviceRec
    BY <2>2, HandleType
  <2> DEFINE h == handle_device_dinit(r, {})
             q == [h EXCEPT !.named = FALSE]
  <2>5. q \in DeviceRec /\ SameRound(q, h)
    <3> HIDE DEF h
    <3>1. h \in DeviceRec
      BY <2>4 DEF h
    <3> QED
      BY <3>1 DEF DeviceRec, SameRound
  <2>6. map_sys' \subseteq Devices
    BY <1>1, <2>3 DEF TypeOK
  <2> QED
    BY <1>4, <2>2, <2>3, <2>5, <2>6
<1> QED
  BY <1>5, <1>6 DEF Udev

\* A device object that has just been made, and empty queues.
LEMMA Fresh ==
    /\ NewDevice \in DeviceRec /\ NoGhost \in History
    /\ RoundOK(NewDevice, 0, 0, 0, 0)
    /\ [d \in Devices |-> NewDevice] \in [Devices -> DeviceRec]
    /\ [d \in Devices |-> NoGhost] \in [Devices -> History]
    /\ [d \in Devices |-> [sys |-> "none", name |-> "none"]]
          \in [Devices -> [sys : Byte, name : Byte]]
    /\ <<>> \in Seq(Message) /\ <<>> \in Seq(Proper)
    /\ \A K : Num(<<>>, K) = 0
    /\ Cardinality({}) = 0
<1>1. NewDevice \in DeviceRec /\ NoGhost \in History
  BY DEF NewDevice, DeviceRec, NoGhost, History
<1>2. RoundOK(NewDevice, 0, 0, 0, 0)
  BY DEF NewDevice, RoundOK, Busy
<1>3. [d \in Devices |-> NewDevice] \in [Devices -> DeviceRec]
      /\ [d \in Devices |-> NoGhost] \in [Devices -> History]
  BY <1>1
<1>4. [d \in Devices |-> [sys |-> "none", name |-> "none"]]
         \in [Devices -> [sys : Byte, name : Byte]]
  BY DEF Byte
<1>5. <<>> \in Seq(Message) /\ <<>> \in Seq(Proper)
  OBVIOUS
<1>6. \A K : Num(<<>>, K) = 0
  BY NumEmpty
<1>7. Cardinality({}) = 0
  BY FS_EmptySet
<1> QED
  BY <1>1, <1>2, <1>3, <1>4, <1>5, <1>6, <1>7

\* The initial states satisfy the invariant.
LEMMA InitInv ==
    ASSUME Init
    PROVE  IInv
<1>1. /\ map_sys = {} /\ dev = [d \in Devices |-> NewDevice] /\ map_svcdev = {}
      /\ told = [d \in Devices |-> [sys |-> "none", name |-> "none"]]
      /\ out = <<>> /\ inn = <<>> /\ handles = {}
      /\ ghost = [d \in Devices |-> NoGhost] /\ sysdeps = {} /\ deps = {}
      /\ inputs = 0 /\ sstate \in [Services -> ServiceState]
  BY DEF Init, FreshDevmon
<1>2. sstate \in [Services -> ServiceState] /\ inputs \in 0..MaxInputs
  BY <1>1, DeviceAssumption DEF ServiceState
<1>3. TypeOK
  BY <1>1, <1>2, Fresh DEF TypeOK
<1>4. \A K : Total(K) = 0
  BY <1>1, Fresh DEF Total
<1>5. ASSUME NEW d \in Devices PROVE Acct(d) /\ Once(d)
  <2>1. Watched(d) = {} /\ dev[d] = NewDevice
    BY <1>1 DEF Watched
  <2>2. InFlight("load_dev", d) = 0 /\ InFlight("dep_sys", d) = 0
        /\ InFlight("load_sub", d) = 0
    BY <1>4 DEF InFlight
  <2>3. Acct(d)
    BY <2>1, <2>2, Fresh DEF Acct
  <2>4. Once(d)
    BY <1>1, <1>4 DEF Once
  <2> QED
    BY <2>3, <2>4
<1>6. Named
  BY <1>1, Fresh DEF Named
<1> QED
  BY <1>3, <1>5, <1>6 DEF IInv, Inv

\* So do the states devmon is in after a restart.
LEMMA RestartInv ==
    ASSUME IInv, Restart, inputs < MaxInputs, inputs' = inputs + 1
    PROVE  Inv'
<1>1. /\ map_sys' = {} /\ dev' = [d \in Devices |-> NewDevice] /\ map_svcdev' = {}
      /\ told' = [d \in Devices |-> [sys |-> "none", name |-> "none"]]
      /\ out' = <<>> /\ inn' = <<>> /\ handles' = {}
      /\ ghost' = [d \in Devices |-> NoGhost]
      /\ UNCHANGED <<sstate, sysdeps, deps>>
  BY DEF Restart, dinitVars
<1>2. TypeOK
  BY DEF IInv, Inv
<1>3. inputs' \in 0..MaxInputs
  BY <1>2, DeviceAssumption DEF TypeOK
<1>4. TypeOK'
  BY <1>1, <1>2, <1>3, Fresh DEF TypeOK
<1>5. \A K : Total(K)' = 0
  BY <1>1, Fresh DEF Total
<1>6. ASSUME NEW d \in Devices PROVE Acct(d)' /\ Once(d)'
  <2>1. Watched(d)' = {} /\ dev'[d] = NewDevice
    BY <1>1 DEF Watched
  <2>2. InFlight("load_dev", d)' = 0 /\ InFlight("dep_sys", d)' = 0
        /\ InFlight("load_sub", d)' = 0
    BY <1>5 DEF InFlight
  <2>3. Acct(d)'
    BY <2>1, <2>2, Fresh DEF Acct
  <2>4. Once(d)'
    BY <1>1, <1>5 DEF Once
  <2> QED
    BY <2>3, <2>4
<1> QED
  BY <1>4, <1>6 DEF Inv

\* Every step, and a step that changes nothing, preserves the invariant.
LEMMA NextInv ==
    ASSUME IInv, [Next]_vars
    PROVE  IInv'
<1>1. CASE Next
  <2>1. Named'
    BY <1>1, NamedNext DEF IInv
  <2>2. Inv'
    <3>1. CASE Input
      BY <3>1, UdevStepInv, ServiceInv, RestartInv DEF Input
    <3>2. CASE Reaction
      BY <3>2, DispatchInv, ServeInv, ServiceInv DEF Reaction
    <3> QED
      BY <1>1, <3>1, <3>2 DEF Next
  <2> QED
    BY <2>1, <2>2 DEF IInv
<1>2. CASE UNCHANGED vars
  <2>1. UNCHANGED <<map_sys, dev, map_svcdev, told, out, inn, handles, sstate,
                    sysdeps, deps, ghost, inputs>>
    BY <1>2 DEF vars, devmonVars, dinitVars
  <2>2. TypeOK' /\ Named'
    BY <2>1 DEF IInv, Inv, TypeOK, Named
  <2>3. /\ \A op \in Tracked, e \in Devices : InFlight(op, e)' = InFlight(op, e)
        /\ \A e \in Devices, s \in Services :
              Total(AddLoad(e, s))' = Total(AddLoad(e, s))
    BY <2>1 DEF InFlight, Total
  <2>4. \A d \in Devices : Acct(d)' /\ Once(d)'
    BY <2>1, <2>3, SameAcct DEF IInv
  <2> QED
    BY <2>2, <2>4 DEF IInv, Inv
<1> QED
  BY <1>1, <1>2

-----------------------------------------------------------------------------
(* The theorems *)

\* The inductive invariant holds in every reachable state.
LEMMA Invariance == Spec => []IInv
<1>1. Init => IInv
  BY InitInv
<1>2. IInv /\ [Next]_vars => IInv'
  BY NextInv
<1> QED
  BY <1>1, <1>2, PTL DEF Spec

\* Every variable keeps its type; pending_svcs, an unsigned count in devmon, is
\* never decremented below zero by dinit_subsvc_load_cb_base or
\* handle_dinit_event.
THEOREM TypeCorrect == Spec => []TypeOK
<1>1. IInv => TypeOK
  BY DEF IInv, Inv
<1> QED
  BY <1>1, Invariance, PTL

\* pending_svcs is exactly the number of services of the round whose load has
\* no answer or whose event is awaited, whatever udev, dinit and the services
\* do in between: the round ends with its last service, no earlier.
THEOREM CountsExactly == Spec => []PendingCount
<1>1. IInv => PendingCount
  BY DEF IInv, Inv, Acct, RoundOK, PendingCount
<1> QED
  BY <1>1, Invariance, PTL

\* No service is awaited twice for a device, so map_svcdev never hides an
\* entry behind another and one event never settles two of them.
THEOREM AwaitsOnce == Spec => []AwaitedOnce
<1>1. IInv => AwaitedOnce
  BY DEF IInv, Inv, Once, AwaitedOnce
<1> QED
  BY <1>1, Invariance, PTL

\* The rounds of a device never overlap, an idle device has no callback
\* outstanding, and a round with services is always driven by exactly one of
\* the load of device@, its attachment to system, or unresolved services.
THEOREM RoundsNeverOverlap == Spec => []SingleRound
<1>1. IInv => SingleRound
  <2> SUFFICES ASSUME IInv, NEW d \in Devices
               PROVE  /\ Tokens(d) <= 1
                      /\ ~dev[d].processing => Tokens(d) = 0
                      /\ dev[d].processing /\ dev[d].dsvcset \cup dev[d].psvcset # {}
                            => Tokens(d) = 1
    BY DEF SingleRound
  <2>1. Tokens(d) = InFlight("load_dev", d) + InFlight("dep_sys", d) + Busy(dev[d])
    BY DEF Tokens, Busy
  <2>2. Acct(d)
    BY DEF IInv, Inv
  <2> QED
    BY <2>1, <2>2 DEF Acct, RoundOK
<1> QED
  BY <1>1, Invariance, PTL

\* dinit_subsvc_load_cb_base never hands a closed or stale device handle to
\* dinit: while the attachment or a load is unanswered, device_svc is held.
THEOREM HandleHeld == Spec => []DeviceHandleHeld
<1>1. IInv => DeviceHandleHeld
  BY DEF IInv, Inv, Acct, RoundOK, DeviceHandleHeld
<1> QED
  BY <1>1, Invariance, PTL

=============================================================================
