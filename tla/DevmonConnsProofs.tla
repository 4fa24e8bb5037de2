------------------------- MODULE DevmonConnsProofs --------------------------
(***************************************************************************)
(* The event loop and its connections, for any finite set of clients and   *)
(* any values.                                                             *)
(*                                                                         *)
(* The poll set, the connections and the kernel's descriptors are three    *)
(* views of the same clients which the loop brings up to date one by one,  *)
(* so the invariant relates them at every place of the loop.               *)
(***************************************************************************)
EXTENDS DevmonConns, FiniteSetTheorems, SequenceTheorems, WellFoundedInduction, TLAPS

N == Cardinality(Clients)

\* A client has one connection in its life.
Attachment ==
    /\ \A f, g \in Fd : sock[f] = sock[g] /\ sock[f] # None => f = g
    /\ \A i, j \in DOMAIN backlog : backlog[i] = backlog[j] => i = j
    /\ \A i \in DOMAIN backlog :
          /\ cst[backlog[i]] # "idle" /\ backlog[i] \notin clean
          /\ \A f \in Fd : sock[f] # backlog[i]
    /\ \A f \in Fd : sock[f] # None => cst[sock[f]] # "idle"
    /\ \A c \in clean : cst[c] # "idle"

\* What poll has seen and the loop has not come to
Pending(i) == pc \in {"accept", "devices"} \/ (pc = "conns" /\ i >= idx)

PollSet ==
    /\ FdsMatch
    /\ Len(fds) <= N
    /\ pc \in {"poll", "accept"} => \A i \in DOMAIN fds : fds[i].fd # 0
    /\ pc = "conns" => idx <= Len(fds) + 1
    /\ \A i \in DOMAIN fds :
          Pending(i) /\ fds[i].in /\ ~fds[i].hup =>
              Open(fds[i].fd) /\ unread[sock[fds[i].fd]] # <<>>

Table ==
    /\ ConnPerFd
    /\ \A i \in DOMAIN conns : conns[i].handshake /\ (conns[i].full => conns[i].datalen)
    /\ pc \in {"poll", "accept"} => \A i \in DOMAIN conns : conns[i].fd # 0
    /\ pc # "conns" => Len(conns) <= N
    /\ pc = "conns" => Len(conns) <= N + idx - 1

\* What is unread of a client of which nothing was read, and of one of which
\* the entry cn holds what was read
Heads == {<<"handshake", "length">>, <<"bad", "length">>}
Whole == {<<"handshake", "length", "value">>, <<"bad", "length", "value">>}
Fresh(st, u) ==
    /\ u \in {<<>>} \cup Heads \cup Whole
    /\ st = "connected" => u = <<>>
    /\ st = "head" => u \in Heads
Midway(cn, st, u, k) ==
    /\ st # "connected"
    /\ ~cn.datalen => u \in {<<"length">>, <<"length", "value">>}
    /\ ~cn.datalen /\ st = "head" => u = <<"length">>
    /\ cn.datalen /\ ~cn.full => u \in {<<>>, <<"value">>}
    /\ cn.datalen /\ ~cn.full /\ st = "head" => u = <<>>
    /\ cn.full => u = <<>> /\ st # "head" /\ cn.value = k

News(A, v) == [byte |-> IF v \in A THEN "1" ELSE "0", value |-> v]

Requests ==
    /\ \A c \in Clients : cst[c] = "idle" => unread[c] = <<>>
    /\ \A i \in DOMAIN backlog : Fresh(cst[backlog[i]], unread[backlog[i]])
    /\ \A f \in Fd : sock[f] \in clean /\ ~HasConn(f) => Fresh(cst[sock[f]], unread[sock[f]])
    /\ \A f \in Fd, i \in DOMAIN conns :
          sock[f] \in clean /\ conns[i].fd = f =>
              /\ Midway(conns[i], cst[sock[f]], unread[sock[f]], key[sock[f]])
              /\ conns[i].full => last[sock[f]] = News(avail, key[sock[f]])

ConnInv == TypeOK /\ Attachment /\ PollSet /\ Table /\ Requests

-----------------------------------------------------------------------------
(* Numbers: the least of a set, and sets in ascending order *)

\* A set of numbers that is not empty has a least element.
LEMMA Least ==
    ASSUME NEW S \in SUBSET Nat, S # {}
    PROVE  \E x \in S : \A y \in S : x <= y
<1>1. PICK x \in S : \A y \in S : <<y, x>> \notin OpToRel(<, Nat)
  BY NatLessThanWellFounded, WFMin
<1>2. \A y \in S : ~(y < x)
  BY <1>1 DEF OpToRel
<1> QED
  BY <1>2

Sorts(g, I) ==
    g \in [1..Cardinality(I) -> I] /\ \A a, b \in DOMAIN g : a < b => g[a] < g[b]

\* One more number goes in front of the others.
LEMMA SortsMore ==
    ASSUME NEW I \in SUBSET Nat, IsFiniteSet(I), NEW m \in I, \A y \in I : m <= y,
           NEW h, Sorts(h, I \ {m})
    PROVE  \E g : Sorts(g, I)
<1>1. Cardinality(I) \in Nat /\ Cardinality(I \ {m}) = Cardinality(I) - 1
  BY FS_CardinalityType, FS_RemoveElement
<1>2. PICK n \in Nat : n = Cardinality(I) - 1 /\ Cardinality(I) = n + 1
  <2>1. IsFiniteSet(I \ {m})
    BY FS_RemoveElement
  <2>2. Cardinality(I \ {m}) \in Nat
    BY <2>1, FS_CardinalityType
  <2> QED
    BY <1>1, <2>2
<1>3. h \in [1..n -> I \ {m}] /\ \A a, b \in 1..n : a < b => h[a] < h[b]
  BY <1>1, <1>2 DEF Sorts
<1>4. PICK g : g = [k \in 1..(n + 1) |-> IF k = 1 THEN m ELSE h[k - 1]]
  OBVIOUS
<1>5. \A k \in 1..(n + 1) : k # 1 => k - 1 \in 1..n
  OBVIOUS
<1>6. g \in [1..(n + 1) -> I]
  BY <1>3, <1>4, <1>5
<1>7. ASSUME NEW a \in 1..(n + 1), NEW b \in 1..(n + 1), a < b
      PROVE  g[a] < g[b]
  <2>1. b # 1 /\ b - 1 \in 1..n /\ g[b] = h[b - 1]
    BY <1>4, <1>5, <1>7
  <2>2. CASE a = 1
    <3>1. g[a] = m /\ h[b - 1] \in I /\ h[b - 1] # m
      BY <1>3, <1>4, <2>1, <2>2
    <3>2. m \in Nat /\ h[b - 1] \in Nat /\ m <= h[b - 1]
      BY <3>1
    <3> QED
      BY <2>1, <3>1, <3>2
  <2>3. CASE a # 1
    <3>1. a - 1 \in 1..n /\ g[a] = h[a - 1] /\ a - 1 < b - 1
      BY <1>4, <1>5, <1>7, <2>3
    <3> QED
      BY <1>3, <2>1, <3>1
  <2> QED
    BY <2>2, <2>3
<1> QED
  BY <1>2, <1>6, <1>7 DEF Sorts

\* Every finite set of numbers can be put in ascending order: there is no
\* smallest one that cannot.
LEMMA SortsExist ==
    ASSUME NEW I \in SUBSET Nat, IsFiniteSet(I)
    PROVE  \E g : Sorts(g, I)
<1> DEFINE Bad == {J \in FiniteSubsetsOf(Nat) : \A g : ~Sorts(g, J)}
<1> SUFFICES ASSUME Bad # {} PROVE FALSE
  BY DEF FiniteSubsetsOf
<1>1. PICK J \in Bad : \A K \in Bad : <<K, J>> \notin StrictSubsetOrdering(Nat)
  <2>1. Bad \subseteq FiniteSubsetsOf(Nat)
    OBVIOUS
  <2> QED
    BY <2>1, FS_StrictSubsetOrderingWellFounded, WFMin
<1>2. J \in SUBSET Nat /\ IsFiniteSet(J) /\ \A g : ~Sorts(g, J)
  BY DEF FiniteSubsetsOf
<1>3. J # {}
  <2>1. SUFFICES ASSUME J = {} PROVE FALSE
    OBVIOUS
  <2>2. Cardinality(J) = 0 /\ 1..0 = {}
    BY <2>1, FS_EmptySet
  <2>3. Sorts([k \in {} |-> k], J)
    BY <2>1, <2>2 DEF Sorts
  <2> QED
    BY <1>2, <2>3
<1>4. PICK m \in J : \A y \in J : m <= y
  BY <1>2, <1>3, Least
<1>5. IsFiniteSet(J \ {m}) /\ J \ {m} \in SUBSET Nat
  BY <1>2, FS_RemoveElement
<1>6. <<J \ {m}, J>> \in StrictSubsetOrdering(Nat)
  BY <1>2, <1>4, <1>5 DEF StrictSubsetOrdering
<1>7. J \ {m} \notin Bad
  BY <1>1, <1>6
<1>8. \E h : Sorts(h, J \ {m})
  BY <1>5, <1>7 DEF FiniteSubsetsOf
<1> QED
  BY <1>2, <1>4, <1>8, SortsMore

\* Ascending(I) lists I, each element once.
LEMMA AscendingSorts ==
    ASSUME NEW I \in SUBSET Nat, IsFiniteSet(I)
    PROVE  /\ Cardinality(I) \in Nat
           /\ Ascending(I) \in [1..Cardinality(I) -> I]
           /\ \A a, b \in 1..Cardinality(I) : Ascending(I)[a] = Ascending(I)[b] => a = b
           /\ \A i \in I : \E k \in 1..Cardinality(I) : Ascending(I)[k] = i
<1>1. PICK n \in Nat : n = Cardinality(I)
  BY FS_CardinalityType
<1>2. \E g \in [1..n -> I] : \A a, b \in DOMAIN g : a < b => g[a] < g[b]
  BY <1>1, SortsExist DEF Sorts
<1>3. PICK g : g = Ascending(I)
  OBVIOUS
<1>4. g \in [1..n -> I] /\ \A a, b \in 1..n : a < b => g[a] < g[b]
  BY <1>1, <1>2, <1>3 DEF Ascending
<1>5. \A a, b \in 1..n : g[a] = g[b] => a = b
  <2> SUFFICES ASSUME NEW a \in 1..n, NEW b \in 1..n, g[a] = g[b], a # b PROVE FALSE
    OBVIOUS
  <2>1. g[a] \in Nat /\ g[b] \in Nat
    BY <1>4
  <2>2. a < b \/ b < a
    OBVIOUS
  <2> QED
    BY <1>4, <2>1, <2>2
<1>6. g \in Injection(1..n, I)
  BY <1>4, <1>5 DEF Injection, IsInjective
<1>7. Cardinality(1..n) = n
  BY FS_Interval
<1>8. g \in Surjection(1..n, I)
  BY <1>1, <1>6, <1>7, FS_Injection
<1> QED
  BY <1>1, <1>3, <1>4, <1>5, <1>8 DEF Surjection

-----------------------------------------------------------------------------
(* Tables of descriptors *)

PollRec == [fd : Fd \cup {0}, in : BOOLEAN, hup : BOOLEAN]

\* There are as many descriptors as clients.
LEMMA FdCount == N \in Nat /\ Fd = 1..N /\ IsFiniteSet(Fd) /\ Cardinality(Fd) = N /\ 0 \notin Fd
<1>1. N \in Nat
  BY ConnsAssumption, FS_CardinalityType DEF N
<1>2. Fd = 1..N
  BY DEF Fd, N
<1> QED
  BY <1>1, <1>2, FS_Interval

\* A table that has each descriptor at most once is no longer than that.
LEMMA FewEntries ==
    ASSUME NEW M, NEW s \in Seq(M), \A i \in DOMAIN s : s[i].fd \in Fd,
           \A i, j \in DOMAIN s : s[i].fd = s[j].fd => i = j
    PROVE  Len(s) <= N
<1>1. PICK g : g = [i \in 1..Len(s) |-> s[i].fd]
  OBVIOUS
<1>2. Len(s) \in Nat /\ DOMAIN s = 1..Len(s)
  OBVIOUS
<1>3. g \in Injection(1..Len(s), Fd)
  BY <1>1, <1>2 DEF Injection, IsInjective
<1>4. Cardinality(1..Len(s)) <= N
  BY <1>3, FdCount, FS_Injection
<1>5. Cardinality(1..Len(s)) = Len(s)
  BY <1>2, FS_Interval
<1> QED
  BY <1>4, <1>5

\* do_compact keeps exactly the entries that are not marked.
LEMMA CompactedKeeps ==
    ASSUME NEW M, NEW s \in Seq(M)
    PROVE  /\ Compacted(s) \in Seq(M)
           /\ \A k \in DOMAIN Compacted(s) :
                 \E i \in DOMAIN s : Compacted(s)[k] = s[i] /\ s[i].fd # 0
           /\ \A i \in DOMAIN s :
                 s[i].fd # 0 => \E k \in DOMAIN Compacted(s) : Compacted(s)[k] = s[i]
           /\ (\A i, j \in DOMAIN s : s[i].fd = s[j].fd /\ s[i].fd # 0 => i = j) =>
                 \A k, l \in DOMAIN Compacted(s) :
                    Compacted(s)[k].fd = Compacted(s)[l].fd => k = l
<1>1. PICK I : I = {i \in DOMAIN s : s[i].fd # 0}
  OBVIOUS
<1>2. Len(s) \in Nat /\ DOMAIN s = 1..Len(s)
  OBVIOUS
<1>3. I \in SUBSET Nat /\ IsFiniteSet(I)
  <2>1. IsFiniteSet(1..Len(s)) /\ I \in SUBSET (1..Len(s))
    BY <1>1, <1>2, FS_Interval
  <2>2. IsFiniteSet(I)
    BY <2>1, FS_Subset
  <2> QED
    BY <1>1, <1>2, <2>2
<1>4. PICK g, n : g = Ascending(I) /\ n = Cardinality(I)
  OBVIOUS
<1>5. /\ n \in Nat /\ g \in [1..n -> I]
      /\ \A a, b \in 1..n : g[a] = g[b] => a = b
      /\ \A i \in I : \E k \in 1..n : g[k] = i
  BY <1>3, <1>4, AscendingSorts
<1>6. PICK t : t = [k \in 1..n |-> s[g[k]]]
  OBVIOUS
<1>7. Compacted(s) = t
  BY <1>1, <1>4, <1>5, <1>6 DEF Compacted
<1>8. t \in Seq(M) /\ DOMAIN t = 1..n
  <2>1. \A k \in 1..n : s[g[k]] \in M
    BY <1>1, <1>5
  <2> QED
    BY <1>5, <1>6, <2>1, IsASeq
<1>9. \A k \in 1..n : g[k] \in DOMAIN s /\ s[g[k]].fd # 0 /\ t[k] = s[g[k]]
  BY <1>1, <1>5, <1>6
<1>10. \A i \in DOMAIN s : s[i].fd # 0 => \E k \in 1..n : t[k] = s[i]
  BY <1>1, <1>5, <1>9, SMTT(60)
<1>11. (\A i, j \in DOMAIN s : s[i].fd = s[j].fd /\ s[i].fd # 0 => i = j) =>
          \A k, l \in 1..n : t[k].fd = t[l].fd => k = l
  BY <1>5, <1>9
<1> QED
  BY <1>7, <1>8, <1>9, <1>10, <1>11

\* While a client waits to be accepted there is a descriptor for it.
LEMMA FreeFd ==
    ASSUME TypeOK, Attachment, backlog # <<>>
    PROVE  \E g \in Fd : ~Open(g) /\ \A h \in Fd : h < g => Open(h)
<1>1. /\ backlog \in Seq(Clients) /\ sock \in [Fd -> Clients \cup {None}]
      /\ 1 \in DOMAIN backlog /\ backlog[1] \in Clients
  BY DEF TypeOK
<1>2. PICK c \in Clients : \A f \in Fd : sock[f] # c
  BY <1>1 DEF Attachment
<1>3. PICK F : F = {f \in Fd : ~Open(f)}
  OBVIOUS
<1>4. F # {}
  <2>1. SUFFICES ASSUME F = {} PROVE FALSE
    OBVIOUS
  <2>2. \A f \in Fd : sock[f] # None
    BY <1>3, <2>1 DEF Open
  <2>3. sock \in Injection(Fd, Clients \ {c})
    BY <1>1, <1>2, <2>2 DEF Attachment, Injection, IsInjective
  <2>4. IsFiniteSet(Clients \ {c}) /\ Cardinality(Clients \ {c}) = N - 1
    BY ConnsAssumption, FS_RemoveElement DEF N
  <2>5. Cardinality(Fd) <= N - 1
    BY <2>3, <2>4, FS_Injection
  <2> QED
    BY <2>5, FdCount
<1>5. PICK g \in F : \A h \in F : g <= h
  <2>1. F \in SUBSET Nat
    BY <1>3, FdCount
  <2> QED
    BY <1>4, <2>1, Least
<1>6. \A h \in Fd : h < g => Open(h)
  BY <1>3, <1>5, FdCount
<1> QED
  BY <1>3, <1>5, <1>6

-----------------------------------------------------------------------------
(* The initial state *)

\* A devmon that has just started, with no client.
LEMMA ConnInit == Init => ConnInv
<1> SUFFICES ASSUME Init PROVE ConnInv
  OBVIOUS
<1>1. N \in Nat /\ MaxChanges \in Nat /\ None \notin Clients \cup Values
  BY FdCount, ConnsAssumption
<1>2. \A f \in Fd : sock[f] = None
  BY DEF Init
<1>3. TypeOK
  <2>1. idx \in 1..(Cardinality(Clients) + 1) /\ changes \in 0..MaxChanges
    BY <1>1 DEF Init, N
  <2>2. conns \in Seq(ConnRec) /\ Len(conns) <= 2 * Cardinality(Fd)
    BY FdCount DEF Init
  <2>3. fds \in Seq([fd : Fd \cup {0}, in : BOOLEAN, hup : BOOLEAN]) /\ backlog \in Seq(Clients)
    BY DEF Init
  <2>4. unread \in [Clients -> Seq(Chunk)] /\ inbox \in [Clients -> Seq({"0", "1"})]
    BY DEF Init
  <2>5. last \in [Clients -> [byte : {"none", "0", "1"}, value : Values \cup {None}]]
    BY DEF Init
  <2> QED
    BY <2>1, <2>2, <2>3, <2>4, <2>5 DEF Init, TypeOK, ClientState
<1>4. Attachment
  BY <1>2 DEF Init, Attachment
<1>5. PollSet
  BY <1>1, <1>2 DEF Init, PollSet, FdsMatch, Open
<1>6. Table
  BY <1>1 DEF Init, Table, ConnPerFd
<1>7. Requests
  BY <1>1, <1>2 DEF Init, Requests
<1> QED
  BY <1>3, <1>4, <1>5, <1>6, <1>7 DEF ConnInv

-----------------------------------------------------------------------------
(* devclient *)

\* What a client's steps leave alone.
LEMMA ClientFrame ==
    ASSUME UNCHANGED clientFrame
    PROVE  UNCHANGED <<pc, idx, incoming, fds, conns, sock, avail, changes, last, clean, dropped>>
BY DEF clientFrame, server, history

\* A step of a client that is connected keeps the invariant if what it has
\* written so far remains the beginning of a request.
LEMMA ClientMoves ==
    ASSUME ConnInv, UNCHANGED clientFrame, UNCHANGED <<key, backlog>>,
           NEW c \in Clients, NEW st \in ClientState, NEW u \in Seq(Chunk),
           cst[c] # "idle", st # "idle",
           cst' = [cst EXCEPT ![c] = st], unread' = [unread EXCEPT ![c] = u],
           inbox' \in [Clients -> Seq({"0", "1"})],
           unread[c] # <<>> => u # <<>>,
           Fresh(cst[c], unread[c]) => Fresh(st, u),
           \A cn \in ConnRec : Midway(cn, cst[c], unread[c], key[c]) => Midway(cn, st, u, key[c])
    PROVE  ConnInv'
<1>1. TypeOK /\ Attachment /\ PollSet /\ Table /\ Requests
  BY DEF ConnInv
<1>2. UNCHANGED <<pc, idx, incoming, fds, conns, sock, avail, changes, last, clean, dropped>>
  BY ClientFrame
<1>3. /\ cst \in [Clients -> ClientState] /\ unread \in [Clients -> Seq(Chunk)]
      /\ sock \in [Fd -> Clients \cup {None}] /\ None \notin Clients
      /\ backlog \in Seq(Clients) /\ conns \in Seq(ConnRec) /\ clean \subseteq Clients
      /\ fds \in Seq(PollRec)
  BY <1>1, ConnsAssumption DEF TypeOK, PollRec
<1>4. /\ \A e \in Clients : cst'[e] = IF e = c THEN st ELSE cst[e]
      /\ \A e \in Clients : unread'[e] = IF e = c THEN u ELSE unread[e]
  BY <1>3
<1>5. TypeOK'
  BY <1>1, <1>2, <1>3 DEF TypeOK
<1>6. Attachment'
  BY <1>1, <1>2, <1>3, <1>4 DEF Attachment
<1>7. PollSet'
  <2>1. FdsMatch'
    BY <1>1, <1>2 DEF PollSet, FdsMatch, Open
  <2>2. ASSUME NEW i \in DOMAIN fds, Pending(i), fds[i].in, ~fds[i].hup
        PROVE  Open(fds[i].fd) /\ unread'[sock[fds[i].fd]] # <<>>
    <3>1. Open(fds[i].fd) /\ unread[sock[fds[i].fd]] # <<>>
      BY <1>1, <2>2 DEF PollSet
    <3>2. fds[i] \in PollRec
      BY <1>3
    <3>3. sock[fds[i].fd] \in Clients
      BY <1>3, <3>1, <3>2 DEF Open, PollRec
    <3> QED
      BY <1>4, <3>1, <3>3
  <2> QED
    BY <1>1, <1>2, <2>1, <2>2 DEF PollSet, Pending, Open
<1>8. Table'
  BY <1>1, <1>2 DEF Table, ConnPerFd
<1>9. Requests'
  <2>1. \A e \in Clients : cst'[e] = "idle" => unread'[e] = <<>>
    BY <1>1, <1>4 DEF Requests
  <2>2. ASSUME NEW i \in DOMAIN backlog
        PROVE  Fresh(cst'[backlog[i]], unread'[backlog[i]])
    <3>1. Fresh(cst[backlog[i]], unread[backlog[i]]) /\ backlog[i] \in Clients
      BY <1>1, <1>3 DEF Requests
    <3> QED
      BY <1>4, <3>1
  <2>3. ASSUME NEW f \in Fd, sock[f] \in clean, ~HasConn(f)
        PROVE  Fresh(cst'[sock[f]], unread'[sock[f]])
    <3>1. Fresh(cst[sock[f]], unread[sock[f]]) /\ sock[f] \in Clients
      BY <1>1, <1>3, <2>3 DEF Requests
    <3> QED
      BY <1>4, <3>1
  <2>4. ASSUME NEW f \in Fd, NEW i \in DOMAIN conns, sock[f] \in clean, conns[i].fd = f
        PROVE  /\ Midway(conns[i], cst'[sock[f]], unread'[sock[f]], key[sock[f]])
               /\ conns[i].full => last[sock[f]] = News(avail, key[sock[f]])
    <3>1. /\ Midway(conns[i], cst[sock[f]], unread[sock[f]], key[sock[f]])
          /\ conns[i].full => last[sock[f]] = News(avail, key[sock[f]])
          /\ sock[f] \in Clients /\ conns[i] \in ConnRec
      BY <1>1, <1>3, <2>4 DEF Requests
    <3> QED
      BY <1>4, <3>1
  <2> QED
    BY <1>2, <2>1, <2>2, <2>3, <2>4 DEF Requests, HasConn, News
<1> QED
  BY <1>5, <1>6, <1>7, <1>8, <1>9 DEF ConnInv

\* Appending to sequences that are written out.
LEMMA Appended ==
    ASSUME NEW a, NEW b, NEW v
    PROVE  Append(<<>>, v) = <<v>> /\ Append(<<a>>, v) = <<a, v>> /\ Append(<<a, b>>, v) = <<a, b, v>>
<1>1. PICK S : S = {a, b, v}
  OBVIOUS
<1>2. /\ v \in S /\ <<a>> \in Seq(S) /\ <<a, v>> \in Seq(S)
      /\ <<a, b>> \in Seq(S) /\ <<a, b, v>> \in Seq(S)
  BY <1>1
<1>3. Append(<<a>>, v) = <<a, v>>
  <2>1. PICK s, t : s = Append(<<a>>, v) /\ t = <<a, v>>
    OBVIOUS
  <2>2. s \in Seq(S) /\ Len(s) = 2 /\ s[1] = a /\ s[2] = v
    BY <1>2, <2>1
  <2>3. t \in Seq(S) /\ Len(t) = 2 /\ t[1] = a /\ t[2] = v
    BY <1>2, <2>1
  <2>4. \A i \in 1..2 : i = 1 \/ i = 2
    OBVIOUS
  <2>5. s = t
    BY <2>2, <2>3, <2>4, SeqEqual
  <2> QED
    BY <2>1, <2>5
<1>4. Append(<<a, b>>, v) = <<a, b, v>>
  <2>1. PICK s, t : s = Append(<<a, b>>, v) /\ t = <<a, b, v>>
    OBVIOUS
  <2>2. s \in Seq(S) /\ Len(s) = 3 /\ s[1] = a /\ s[2] = b /\ s[3] = v
    BY <1>2, <2>1
  <2>3. t \in Seq(S) /\ Len(t) = 3 /\ t[1] = a /\ t[2] = b /\ t[3] = v
    BY <1>2, <2>1
  <2>4. \A i \in 1..3 : i = 1 \/ i = 2 \/ i = 3
    OBVIOUS
  <2>5. s = t
    BY <2>2, <2>3, <2>4, SeqEqual
  <2> QED
    BY <2>1, <2>5
<1> QED
  BY <1>3, <1>4

\* The client writes its handshake and the length.
LEMMA ConnWriteHead ==
    ASSUME ConnInv, NEW c \in Clients, WriteHead(c)
    PROVE  ConnInv'
<1>1. TypeOK /\ unread[c] \in Seq(Chunk) /\ cst[c] = "connected"
  BY DEF ConnInv, TypeOK, WriteHead
<1>2. PICK h \in {"handshake", "bad"} :
          unread' = [unread EXCEPT ![c] = unread[c] \o <<h, "length">>]
  <2>1. unread \in [Clients -> Seq(Chunk)]
    BY <1>1 DEF TypeOK
  <2> QED
    BY <2>1 DEF WriteHead
<1>3. PICK u : u = unread[c] \o <<h, "length">>
  OBVIOUS
<1>4. <<h, "length">> \in Seq(Chunk)
  BY DEF Chunk
<1>5. u \in Seq(Chunk) /\ u # <<>>
  BY <1>1, <1>3, <1>4
<1>6. unread[c] = <<>> => u = <<h, "length">>
  BY <1>3
<1>7. Fresh(cst[c], unread[c]) => Fresh("head", u)
  BY <1>1, <1>6 DEF Fresh, Heads
<1>8. \A cn \in ConnRec : ~Midway(cn, cst[c], unread[c], key[c])
  BY <1>1 DEF Midway
<1>9. /\ UNCHANGED clientFrame /\ UNCHANGED <<key, backlog>> /\ inbox' = inbox
      /\ cst' = [cst EXCEPT ![c] = "head"] /\ unread' = [unread EXCEPT ![c] = u]
  BY <1>2, <1>3 DEF WriteHead
<1>10. "head" \in ClientState /\ inbox \in [Clients -> Seq({"0", "1"})]
  BY <1>1 DEF ClientState, TypeOK
<1> QED
  BY <1>1, <1>5, <1>7, <1>8, <1>9, <1>10, ClientMoves

\* The client writes the value.
LEMMA ConnWriteValue ==
    ASSUME ConnInv, NEW c \in Clients, WriteValue(c)
    PROVE  ConnInv'
<1>1. TypeOK /\ unread[c] \in Seq(Chunk) /\ cst[c] = "head"
  BY DEF ConnInv, TypeOK, WriteValue
<1>2. PICK u : u = Append(unread[c], "value")
  OBVIOUS
<1>3. u \in Seq(Chunk) /\ u # <<>>
  BY <1>1, <1>2 DEF Chunk
<1>4. Fresh(cst[c], unread[c]) => Fresh("watching", u)
  <2>1. \A h : unread[c] = <<h, "length">> => u = <<h, "length", "value">>
    BY <1>2, Appended, ZenonT(60)
  <2> QED
    BY <1>1, <2>1 DEF Fresh, Heads, Whole
<1>5. \A cn \in ConnRec :
          Midway(cn, cst[c], unread[c], key[c]) => Midway(cn, "watching", u, key[c])
  <2>1. /\ unread[c] = <<"length">> => u = <<"length", "value">>
        /\ unread[c] = <<>> => u = <<"value">>
    BY <1>2, Appended
  <2> QED
    BY <1>1, <2>1 DEF Midway
<1>6. /\ UNCHANGED clientFrame /\ UNCHANGED <<key, backlog>> /\ inbox' = inbox
      /\ cst' = [cst EXCEPT ![c] = "watching"] /\ unread' = [unread EXCEPT ![c] = u]
  <2>1. unread \in [Clients -> Seq(Chunk)]
    BY <1>1 DEF TypeOK
  <2> QED
    BY <1>2, <2>1 DEF WriteValue
<1>7. "watching" \in ClientState /\ inbox \in [Clients -> Seq({"0", "1"})]
  BY <1>1 DEF ClientState, TypeOK
<1> QED
  BY <1>1, <1>3, <1>4, <1>5, <1>6, <1>7, ClientMoves

\* The client reads, exits or is killed: it writes no more.
LEMMA ConnClientOther ==
    ASSUME ConnInv, NEW c \in Clients, ReadByte(c) \/ ClientError(c) \/ Kill(c)
    PROVE  ConnInv'
<1>1. TypeOK /\ cst[c] # "idle"
  BY DEF ConnInv, ReadByte, ClientError, Kill, Alive
<1>2. /\ cst \in [Clients -> ClientState] /\ unread \in [Clients -> Seq(Chunk)]
      /\ inbox \in [Clients -> Seq({"0", "1"})]
  BY <1>1 DEF TypeOK
<1>3. PICK st \in {"watching", "ready", "gone"} : cst' = [cst EXCEPT ![c] = st]
  <2>1. CASE ReadByte(c)
    <3>1. cst[c] \in {"watching", "ready"}
      BY <2>1 DEF ReadByte
    <3>2. PICK st : st = IF Head(inbox[c]) = "1" THEN "ready"
                         ELSE IF cst[c] = "ready" THEN "gone" ELSE cst[c]
      OBVIOUS
    <3>3. cst' = [cst EXCEPT ![c] = st]
      BY <1>2, <2>1, <3>2 DEF ReadByte
    <3>4. st \in {"watching", "ready", "gone"}
      BY <3>1, <3>2
    <3> QED
      BY <3>3, <3>4
  <2>2. CASE ClientError(c) \/ Kill(c)
    BY <2>2 DEF ClientError, Kill
  <2> QED
    BY <2>1, <2>2
<1>4. UNCHANGED clientFrame /\ UNCHANGED <<key, backlog>> /\ unread' = unread
  BY DEF ReadByte, ClientError, Kill
<1>5. inbox' \in [Clients -> Seq({"0", "1"})]
  <2>1. CASE ReadByte(c)
    <3>1. inbox[c] \in Seq({"0", "1"}) /\ inbox[c] # <<>>
      BY <1>2, <2>1 DEF ReadByte
    <3>2. Tail(inbox[c]) \in Seq({"0", "1"})
      BY <3>1
    <3> QED
      BY <1>2, <2>1, <3>2 DEF ReadByte
  <2>2. CASE ClientError(c) \/ Kill(c)
    BY <1>2, <2>2 DEF ClientError, Kill
  <2> QED
    BY <2>1, <2>2
<1>6. unread' = [unread EXCEPT ![c] = unread[c]] /\ unread[c] \in Seq(Chunk)
  BY <1>2, <1>4
<1>7. Fresh(cst[c], unread[c]) => Fresh(st, unread[c])
  BY DEF Fresh
<1>8. \A cn \in ConnRec :
          Midway(cn, cst[c], unread[c], key[c]) => Midway(cn, st, unread[c], key[c])
  BY DEF Midway
<1>9. st \in ClientState /\ st # "idle"
  BY DEF ClientState
<1> QED
  BY <1>1, <1>3, <1>4, <1>5, <1>6, <1>7, <1>8, <1>9, ClientMoves

\* The types that the proofs use most.
LEMMA Types ==
    ASSUME TypeOK
    PROVE  /\ cst \in [Clients -> ClientState] /\ unread \in [Clients -> Seq(Chunk)]
           /\ sock \in [Fd -> Clients \cup {None}] /\ None \notin Clients
           /\ backlog \in Seq(Clients) /\ conns \in Seq(ConnRec) /\ clean \subseteq Clients
           /\ fds \in Seq(PollRec) /\ key \in [Clients -> Values \cup {None}]
           /\ inbox \in [Clients -> Seq({"0", "1"})] /\ idx \in Nat
           /\ last \in [Clients -> [byte : {"none", "0", "1"}, value : Values \cup {None}]]
           /\ \A i \in DOMAIN fds : fds[i] \in PollRec
           /\ \A i \in DOMAIN conns : conns[i] \in ConnRec
<1>1. idx \in Nat
  BY ConnsAssumption, FdCount DEF TypeOK, N
<1>2. fds \in Seq(PollRec) /\ conns \in Seq(ConnRec)
  BY DEF TypeOK, PollRec
<1>3. \A i \in DOMAIN fds : fds[i] \in PollRec
  BY <1>2
<1>4. \A i \in DOMAIN conns : conns[i] \in ConnRec
  BY <1>2
<1> QED
  BY <1>1, <1>2, <1>3, <1>4, ConnsAssumption DEF TypeOK

\* A client connects.
LEMMA ConnConnect ==
    ASSUME ConnInv, NEW c \in Clients, NEW v \in Values, Connect(c, v)
    PROVE  ConnInv'
<1>1. TypeOK /\ Attachment /\ PollSet /\ Table /\ Requests
  BY DEF ConnInv
<1>2. /\ UNCHANGED <<pc, idx, incoming, fds, conns, sock, avail, changes, last, clean, dropped,
                     unread, inbox>>
      /\ cst[c] = "idle" /\ backlog' = Append(backlog, c)
  BY ClientFrame DEF Connect
<1>3. /\ cst' = [cst EXCEPT ![c] = "connected"] /\ key' = [key EXCEPT ![c] = v]
      /\ \A e \in Clients : cst'[e] = IF e = c THEN "connected" ELSE cst[e]
      /\ \A e \in Clients : e # c => key'[e] = key[e]
  BY <1>1, Types DEF Connect
<1>4. /\ Len(backlog) \in Nat /\ DOMAIN backlog = 1..Len(backlog)
      /\ backlog' \in Seq(Clients) /\ DOMAIN backlog' = 1..(Len(backlog) + 1)
      /\ backlog'[Len(backlog) + 1] = c
      /\ \A i \in DOMAIN backlog : backlog'[i] = backlog[i] /\ backlog[i] \in Clients
  BY <1>1, <1>2, Types, SMTT(60)
<1>5. \A i \in DOMAIN backlog' : i \in DOMAIN backlog \/ (i = Len(backlog) + 1 /\ backlog'[i] = c)
  BY <1>4
<1>6. /\ \A i \in DOMAIN backlog : backlog[i] # c
      /\ \A f \in Fd : sock[f] # c
      /\ c \notin clean /\ unread[c] = <<>>
  BY <1>1, <1>2, Types DEF Attachment, Requests
<1>7. TypeOK'
  BY <1>1, <1>2, <1>3, <1>4 DEF TypeOK, ClientState
<1>8. Attachment'
  <2>1. \A i, j \in DOMAIN backlog' : backlog'[i] = backlog'[j] => i = j
    BY <1>1, <1>4, <1>5, <1>6 DEF Attachment
  <2>2. ASSUME NEW i \in DOMAIN backlog'
        PROVE  /\ cst'[backlog'[i]] # "idle" /\ backlog'[i] \notin clean
               /\ \A f \in Fd : sock[f] # backlog'[i]
    <3>1. CASE i \in DOMAIN backlog
      BY <1>1, <1>3, <1>4, <1>6, <3>1 DEF Attachment
    <3>2. CASE i = Len(backlog) + 1 /\ backlog'[i] = c
      BY <1>3, <1>6, <3>2
    <3> QED
      BY <1>5, <3>1, <3>2
  <2>3. \A f \in Fd : sock[f] # None => cst'[sock[f]] # "idle"
    BY <1>1, <1>3, <1>6, Types DEF Attachment
  <2>4. \A e \in clean : cst'[e] # "idle"
    BY <1>1, <1>3, <1>6, Types DEF Attachment
  <2> QED
    BY <1>1, <1>2, <2>1, <2>2, <2>3, <2>4 DEF Attachment
<1>9. PollSet'
  BY <1>1, <1>2 DEF PollSet, FdsMatch, Open, Pending
<1>10. Table'
  BY <1>1, <1>2 DEF Table, ConnPerFd
<1>11. Requests'
  <2>1. \A e \in Clients : cst'[e] = "idle" => unread[e] = <<>>
    BY <1>1, <1>3 DEF Requests
  <2>2. ASSUME NEW i \in DOMAIN backlog'
        PROVE  Fresh(cst'[backlog'[i]], unread[backlog'[i]])
    <3>1. CASE i \in DOMAIN backlog
      BY <1>1, <1>3, <1>4, <1>6, <3>1 DEF Requests
    <3>2. CASE i = Len(backlog) + 1 /\ backlog'[i] = c
      BY <1>3, <1>6, <3>2 DEF Fresh
    <3> QED
      BY <1>5, <3>1, <3>2
  <2>3. \A f \in Fd : sock[f] \in clean =>
            sock[f] \in Clients /\ cst'[sock[f]] = cst[sock[f]] /\ key'[sock[f]] = key[sock[f]]
    BY <1>1, <1>3, <1>6, Types
  <2> QED
    BY <1>1, <1>2, <2>1, <2>2, <2>3 DEF Requests, HasConn, News
<1> QED
  BY <1>7, <1>8, <1>9, <1>10, <1>11 DEF ConnInv

-----------------------------------------------------------------------------
(* The loop: poll, accept, devices *)

\* poll reports what is ready.
LEMMA ConnPoll ==
    ASSUME ConnInv, Poll
    PROVE  ConnInv'
<1>1. TypeOK /\ Attachment /\ PollSet /\ Table /\ Requests /\ pc = "poll"
  BY DEF ConnInv, Poll
<1>2. /\ UNCHANGED <<idx, conns, sock, backlog, unread, inbox, cst, key, avail, changes, last,
                     clean, dropped>>
      /\ pc' = "accept" /\ incoming' \in BOOLEAN
  BY DEF Poll, history
<1>3. fds \in Seq(PollRec) /\ Len(fds) \in Nat /\ DOMAIN fds = 1..Len(fds)
  BY <1>1, Types
<1>4. PICK g : g = [i \in DOMAIN fds |->
                       [fds[i] EXCEPT !.in = In(fds[i].fd), !.hup = Hup(fds[i].fd)]]
  OBVIOUS
<1>5. ASSUME NEW i \in DOMAIN fds
      PROVE  /\ g[i] \in PollRec /\ g[i].fd = fds[i].fd
             /\ g[i].in /\ ~g[i].hup => Open(fds[i].fd) /\ unread[sock[fds[i].fd]] # <<>>
  <2>1. fds[i] \in PollRec
    BY <1>1, Types
  <2>2. In(fds[i].fd) \in BOOLEAN /\ Hup(fds[i].fd) \in BOOLEAN
    BY DEF In, Hup, Open
  <2>3. g[i] = [fds[i] EXCEPT !.in = In(fds[i].fd), !.hup = Hup(fds[i].fd)]
    BY <1>4
  <2>4. /\ g[i] \in PollRec /\ g[i].fd = fds[i].fd
        /\ g[i].in = In(fds[i].fd) /\ g[i].hup = Hup(fds[i].fd)
    BY <2>1, <2>2, <2>3 DEF PollRec
  <2> QED
    BY <2>4 DEF In, Hup
<1>6. g \in Seq(PollRec) /\ DOMAIN g = DOMAIN fds /\ Len(g) = Len(fds) /\ fds' = g
  <2>1. g \in [1..Len(fds) -> PollRec]
    BY <1>3, <1>4, <1>5
  <2>2. g \in Seq(PollRec)
    BY <1>3, <2>1, IsASeq
  <2>3. Len(g) = Len(fds)
    BY <1>3, <2>1, <2>2
  <2> QED
    BY <1>3, <1>4, <2>2, <2>3 DEF Poll
<1>7. TypeOK'
  BY <1>1, <1>2, <1>6 DEF TypeOK, PollRec
<1>8. Attachment'
  BY <1>1, <1>2 DEF Attachment
<1>9. PollSet'
  <2>1. {fds'[i].fd : i \in DOMAIN fds'} = {fds[i].fd : i \in DOMAIN fds}
    BY <1>5, <1>6
  <2>2. FdsMatch'
    BY <1>1, <1>2, <1>5, <1>6, <2>1 DEF PollSet, FdsMatch, Open
  <2>3. \A i \in DOMAIN fds' : fds'[i].fd # 0
    BY <1>1, <1>5, <1>6 DEF PollSet
  <2>4. (\A i \in DOMAIN fds : fds[i].in /\ ~fds[i].hup =>
             Open(fds[i].fd) /\ unread[sock[fds[i].fd]] # <<>>)'
    BY <1>2, <1>5, <1>6 DEF Open
  <2> QED
    BY <1>1, <1>2, <1>6, <2>2, <2>3, <2>4 DEF PollSet
<1>10. Table'
  BY <1>1, <1>2 DEF Table, ConnPerFd
<1>11. Requests'
  BY <1>1, <1>2 DEF Requests, HasConn, News
<1> QED
  BY <1>7, <1>8, <1>9, <1>10, <1>11 DEF ConnInv

\* The loop goes on to the devices, to the connections, or to the next of them.
LEMMA ConnSteps ==
    ASSUME ConnInv, AcceptDone \/ DevicesDone \/ Quiet
    PROVE  ConnInv'
<1>1. TypeOK /\ Attachment /\ PollSet /\ Table /\ Requests
  BY DEF ConnInv
<1>2. UNCHANGED <<incoming, fds, conns, sock, backlog, unread, inbox, cst, key, avail, changes,
                  last, clean, dropped>>
  BY DEF AcceptDone, DevicesDone, Quiet, history, loopFrame
<1>3. /\ N \in Nat /\ Len(fds) \in Nat /\ DOMAIN fds = 1..Len(fds) /\ Len(conns) \in Nat
      /\ idx \in Nat /\ Len(fds) <= N /\ Cardinality(Clients) = N
  BY <1>1, Types, FdCount DEF PollSet, N
<1>4. \/ pc = "accept" /\ pc' = "devices" /\ idx' = idx
      \/ pc = "devices" /\ pc' = "conns" /\ idx' = 1
      \/ /\ pc = "conns" /\ pc' = "conns" /\ idx' = idx + 1 /\ idx \in DOMAIN fds
         /\ ~fds[idx].in /\ ~fds[idx].hup
  BY DEF AcceptDone, DevicesDone, Quiet, Turn, loopFrame
<1>5. idx' \in 1..(Cardinality(Clients) + 1)
  BY <1>1, <1>3, <1>4 DEF TypeOK
<1>6. TypeOK'
  BY <1>1, <1>2, <1>4, <1>5 DEF TypeOK
<1>7. Attachment'
  BY <1>1, <1>2 DEF Attachment
<1>8. PollSet'
  <2>1. FdsMatch'
    BY <1>1, <1>2 DEF PollSet, FdsMatch, Open
  <2>2. pc' = "conns" => idx' <= Len(fds') + 1
    BY <1>2, <1>3, <1>4
  <2>3. \A i \in DOMAIN fds : Pending(i)' => Pending(i)
    BY <1>3, <1>4 DEF Pending
  <2> QED
    BY <1>1, <1>2, <1>4, <2>1, <2>2, <2>3 DEF PollSet, Open
<1>9. Table'
  <2>1. /\ pc' # "conns" => Len(conns) <= N
        /\ pc' = "conns" => Len(conns) <= N + idx' - 1
    BY <1>1, <1>3, <1>4 DEF Table
  <2> QED
    BY <1>1, <1>2, <1>4, <2>1 DEF Table, ConnPerFd
<1>10. Requests'
  BY <1>1, <1>2 DEF Requests, HasConn, News
<1> QED
  BY <1>6, <1>7, <1>8, <1>9, <1>10 DEF ConnInv

\* A connection is accepted: it gets the lowest free descriptor, of which no
\* entry of the poll set can know.
LEMMA ConnAccept ==
    ASSUME ConnInv, Accept
    PROVE  ConnInv'
<1>1. TypeOK /\ Attachment /\ PollSet /\ Table /\ Requests /\ pc = "accept" /\ backlog # <<>>
  BY DEF ConnInv, Accept
<1>2. PICK c, f : /\ c = Head(backlog)
                  /\ f = CHOOSE g \in Fd : ~Open(g) /\ \A h \in Fd : h < g => Open(h)
  OBVIOUS
<1>3. f \in Fd /\ ~Open(f) /\ sock[f] = None /\ f # 0
  BY <1>1, <1>2, FreeFd, FdCount DEF Open
<1>4. c \in Clients /\ c = backlog[1] /\ 1 \in DOMAIN backlog
  BY <1>1, <1>2, Types
<1>5. PICK p : p = [fd |-> f, in |-> FALSE, hup |-> FALSE]
  OBVIOUS
<1>6. /\ UNCHANGED <<pc, idx, incoming, conns, unread, inbox, cst, key, avail, changes, last,
                     dropped>>
      /\ sock' = [sock EXCEPT ![f] = c] /\ fds' = Append(fds, p) /\ backlog' = Tail(backlog)
      /\ clean' = IF HasConn(f) THEN clean ELSE clean \cup {c}
  BY <1>2, <1>5 DEF Accept, HasConn
<1>7. /\ sock' \in [Fd -> Clients \cup {None}] /\ sock'[f] = c
      /\ \A g \in Fd : g # f => sock'[g] = sock[g]
  BY <1>1, <1>3, <1>4, <1>6, Types
<1>8. /\ backlog' \in Seq(Clients)
      /\ \A i \in DOMAIN backlog' : i + 1 \in DOMAIN backlog /\ backlog'[i] = backlog[i + 1]
                                    /\ i + 1 # 1 /\ i \in Nat
  <2>1. backlog \in Seq(Clients) /\ Len(backlog) \in Nat /\ DOMAIN backlog = 1..Len(backlog)
    BY <1>1, Types
  <2>2. /\ Tail(backlog) \in Seq(Clients) /\ Len(Tail(backlog)) = Len(backlog) - 1
        /\ \A i \in 1..Len(Tail(backlog)) : Tail(backlog)[i] = backlog[i + 1]
    BY <1>1, <2>1, HeadTailProperties
  <2>3. DOMAIN Tail(backlog) = 1..(Len(backlog) - 1)
    BY <2>2
  <2>4. \A i \in 1..(Len(backlog) - 1) : i + 1 \in 1..Len(backlog) /\ i + 1 # 1 /\ i \in Nat
    BY <2>1
  <2> QED
    BY <1>6, <2>1, <2>2, <2>3, <2>4
<1>9. p \in PollRec /\ p.fd = f /\ ~p.in
  BY <1>3, <1>5 DEF PollRec
<1>10. /\ Len(fds) \in Nat /\ DOMAIN fds = 1..Len(fds)
       /\ fds' \in Seq(PollRec) /\ Len(fds') = Len(fds) + 1 /\ DOMAIN fds' = 1..(Len(fds) + 1)
       /\ fds'[Len(fds) + 1] = p
       /\ \A i \in DOMAIN fds : fds'[i] = fds[i] /\ fds[i] \in PollRec
  BY <1>1, <1>6, <1>9, Types
<1>11. \A i \in DOMAIN fds' : i \in DOMAIN fds \/ (i = Len(fds) + 1 /\ fds'[i] = p)
  BY <1>10
<1>12. \A i \in DOMAIN fds : fds[i].fd \in Fd /\ Open(fds[i].fd) /\ fds[i].fd # f
  <2>1. \A i \in DOMAIN fds : fds[i].fd # 0 /\ fds[i].fd \in Fd
    BY <1>1, <1>10 DEF PollSet, PollRec
  <2>2. {g \in Fd : Open(g)} = {fds[i].fd : i \in DOMAIN fds} \ {0}
    BY <1>1 DEF PollSet, FdsMatch
  <2>3. \A i \in DOMAIN fds : fds[i].fd \in {g \in Fd : Open(g)}
    BY <2>1, <2>2
  <2> QED
    BY <1>3, <2>3
<1>13. /\ \A i \in DOMAIN fds' : fds'[i].fd \in Fd
       /\ \A i, j \in DOMAIN fds' : fds'[i].fd = fds'[j].fd => i = j
  <2>1. \A i \in DOMAIN fds' : fds'[i].fd \in Fd
    BY <1>3, <1>9, <1>10, <1>11, <1>12
  <2>2. ASSUME NEW i \in DOMAIN fds', NEW j \in DOMAIN fds', fds'[i].fd = fds'[j].fd
        PROVE  i = j
    <3>1. CASE i \in DOMAIN fds /\ j \in DOMAIN fds
      <4>1. fds[i].fd = fds[j].fd /\ fds[i].fd # 0
        BY <1>10, <1>12, <2>2, <3>1 DEF Open
      <4> QED
        BY <1>1, <3>1, <4>1 DEF PollSet, FdsMatch
    <3>2. CASE ~(i \in DOMAIN fds /\ j \in DOMAIN fds)
      BY <1>9, <1>10, <1>11, <1>12, <2>2, <3>2
    <3> QED
      BY <3>1, <3>2
  <2> QED
    BY <2>1, <2>2
<1>14. c \notin clean /\ \A g \in Fd : sock[g] # c
  BY <1>1, <1>4 DEF Attachment
<1>15. TypeOK'
  <2>1. clean' \subseteq Clients
    BY <1>1, <1>4, <1>6, Types
  <2> QED
    BY <1>1, <1>6, <1>7, <1>8, <1>10, <2>1 DEF TypeOK, PollRec
<1>16. Attachment'
  <2>1. \A g, h \in Fd : sock'[g] = sock'[h] /\ sock'[g] # None => g = h
    BY <1>1, <1>7, <1>14 DEF Attachment
  <2>2. \A i, j \in DOMAIN backlog' : backlog'[i] = backlog'[j] => i = j
    <3> SUFFICES ASSUME NEW i \in DOMAIN backlog', NEW j \in DOMAIN backlog',
                        backlog'[i] = backlog'[j]
                 PROVE  i = j
      OBVIOUS
    <3>1. i + 1 = j + 1 /\ i \in Nat /\ j \in Nat
      BY <1>1, <1>8 DEF Attachment
    <3> QED
      BY <3>1
  <2>3. ASSUME NEW i \in DOMAIN backlog'
        PROVE  /\ cst[backlog'[i]] # "idle" /\ backlog'[i] \notin clean'
               /\ \A g \in Fd : sock'[g] # backlog'[i]
    <3>1. PICK j \in DOMAIN backlog : backlog'[i] = backlog[j] /\ j # 1
      BY <1>8
    <3>2. backlog[j] # c
      BY <1>1, <1>4, <3>1 DEF Attachment
    <3> QED
      BY <1>1, <1>6, <1>7, <3>1, <3>2 DEF Attachment
  <2>4. \A g \in Fd : sock'[g] # None => cst[sock'[g]] # "idle"
    BY <1>1, <1>4, <1>7 DEF Attachment
  <2>5. \A e \in clean' : cst[e] # "idle"
    BY <1>1, <1>4, <1>6 DEF Attachment
  <2> QED
    BY <1>6, <2>1, <2>2, <2>3, <2>4, <2>5 DEF Attachment
<1>17. PollSet'
  <2>1. \A g \in Fd : Open(g)' <=> Open(g) \/ g = f
    BY <1>3, <1>4, <1>7, <1>1, Types DEF Open
  <2>2. {g \in Fd : Open(g)}' = {fds'[i].fd : i \in DOMAIN fds'} \ {0}
    <3>1. {g \in Fd : Open(g)} = {fds[i].fd : i \in DOMAIN fds} \ {0}
      BY <1>1 DEF PollSet, FdsMatch
    <3>2. {fds'[i].fd : i \in DOMAIN fds'} = {fds[i].fd : i \in DOMAIN fds} \cup {f}
      BY <1>9, <1>10, <1>11
    <3> QED
      BY <1>3, <2>1, <3>1, <3>2
  <2>3. FdsMatch'
    BY <1>13, <2>2 DEF FdsMatch
  <2>4. Len(fds') <= N
    BY <1>10, <1>13, FewEntries
  <2>5. (\A i \in DOMAIN fds : fds[i].fd # 0)'
    BY <1>13, FdCount
  <2>6. (\A i \in DOMAIN fds : Pending(i) /\ fds[i].in /\ ~fds[i].hup =>
             Open(fds[i].fd) /\ unread[sock[fds[i].fd]] # <<>>)'
    <3> SUFFICES ASSUME NEW i \in DOMAIN fds', fds'[i].in, ~fds'[i].hup
                 PROVE  fds'[i].fd # 0 /\ sock'[fds'[i].fd] # None
                        /\ unread[sock'[fds'[i].fd]] # <<>>
      BY <1>6 DEF Open
    <3>1. i \in DOMAIN fds /\ fds'[i] = fds[i]
      BY <1>9, <1>10, <1>11
    <3>2. Open(fds[i].fd) /\ unread[sock[fds[i].fd]] # <<>>
      BY <1>1, <3>1 DEF PollSet, Pending
    <3> QED
      BY <1>7, <1>12, <3>1, <3>2 DEF Open
  <2> QED
    BY <1>1, <1>6, <2>3, <2>4, <2>5, <2>6 DEF PollSet
<1>18. Table'
  BY <1>1, <1>6 DEF Table, ConnPerFd
<1>19. Requests'
  <2>1. ASSUME NEW i \in DOMAIN backlog'
        PROVE  Fresh(cst[backlog'[i]], unread[backlog'[i]])
    BY <1>1, <1>8 DEF Requests
  <2>2. ASSUME NEW g \in Fd, sock'[g] \in clean', g # f
        PROVE  sock'[g] = sock[g] /\ sock[g] \in clean
    BY <1>6, <1>7, <1>14, <2>2
  <2>3. sock'[f] \in clean' => ~HasConn(f) /\ Fresh(cst[c], unread[c])
    BY <1>1, <1>4, <1>6, <1>7, <1>14 DEF Requests
  <2>4. ASSUME NEW g \in Fd, sock'[g] \in clean', ~HasConn(g)
        PROVE  Fresh(cst[sock'[g]], unread[sock'[g]])
    BY <1>1, <1>7, <2>2, <2>3, <2>4 DEF Requests
  <2>5. ASSUME NEW g \in Fd, NEW i \in DOMAIN conns, sock'[g] \in clean', conns[i].fd = g
        PROVE  /\ Midway(conns[i], cst[sock'[g]], unread[sock'[g]], key[sock'[g]])
               /\ conns[i].full => last[sock'[g]] = News(avail, key[sock'[g]])
    <3>1. g # f
      BY <2>3, <2>5 DEF HasConn
    <3> QED
      BY <1>1, <2>2, <2>5, <3>1 DEF Requests
  <2>6. \A e \in Clients : cst[e] = "idle" => unread[e] = <<>>
    BY <1>1 DEF Requests
  <2> QED
    BY <1>6, <2>1, <2>4, <2>5, <2>6 DEF Requests, HasConn, News
<1> QED
  BY <1>15, <1>16, <1>17, <1>18, <1>19 DEF ConnInv

\* devmon ends and is started again.
LEMMA ConnQuit ==
    ASSUME ConnInv, Quit
    PROVE  ConnInv'
<1>1. TypeOK /\ Attachment /\ Requests /\ N \in Nat /\ MaxChanges \in Nat
  BY FdCount, ConnsAssumption DEF ConnInv
<1>2. /\ UNCHANGED <<inbox, cst, key, avail, last, clean, dropped>>
      /\ pc' = "poll" /\ idx' = 1 /\ incoming' = FALSE /\ fds' = <<>> /\ conns' = <<>>
      /\ sock' = [f \in Fd |-> None] /\ backlog' = <<>>
      /\ unread' = [c \in Clients |-> <<>>]
      /\ changes < MaxChanges /\ changes' = changes + 1
  BY DEF Quit, history
<1>3. \A f \in Fd : sock'[f] = None
  BY <1>2
<1>4. TypeOK'
  <2>1. idx' \in 1..(Cardinality(Clients) + 1) /\ changes' \in 0..MaxChanges
    BY <1>1, <1>2 DEF TypeOK, N
  <2>2. conns' \in Seq(ConnRec) /\ Len(conns') <= 2 * Cardinality(Fd)
    BY <1>2, FdCount
  <2>3. /\ fds' \in Seq([fd : Fd \cup {0}, in : BOOLEAN, hup : BOOLEAN])
        /\ backlog' \in Seq(Clients) /\ unread' \in [Clients -> Seq(Chunk)]
        /\ sock' \in [Fd -> Clients \cup {None}]
    BY <1>2
  <2> QED
    BY <1>1, <1>2, <2>1, <2>2, <2>3 DEF TypeOK
<1>5. Attachment'
  BY <1>1, <1>2, <1>3 DEF Attachment
<1>6. PollSet'
  BY <1>1, <1>2, <1>3 DEF PollSet, FdsMatch, Open
<1>7. Table'
  BY <1>1, <1>2 DEF Table, ConnPerFd
<1>8. Requests'
  <2>1. None \notin clean
    BY <1>1, Types
  <2>2. \A c \in Clients : unread'[c] = <<>>
    BY <1>2
  <2> QED
    BY <1>2, <1>3, <2>1, <2>2 DEF Requests
<1> QED
  BY <1>4, <1>5, <1>6, <1>7, <1>8 DEF ConnInv

\* What write_conn does to the tables, for the entries it fails on
WriteEffect(failed, I, b, v) ==
    /\ \A i \in I \ failed : Open(conns[i].fd)
    /\ conns' \in Seq(ConnRec) /\ DOMAIN conns' = DOMAIN conns
    /\ Len(conns') = Len(conns)
    /\ \A i \in DOMAIN conns :
          IF i \in failed THEN conns'[i] = [conns[i] EXCEPT !.fd = 0]
          ELSE conns'[i] = conns[i]
    /\ fds' \in Seq(PollRec) /\ DOMAIN fds' = DOMAIN fds /\ Len(fds') = Len(fds)
    /\ \A j \in DOMAIN fds :
          IF \E i \in failed : fds[j].fd = conns[i].fd
          THEN fds'[j] = [fd |-> 0, in |-> FALSE, hup |-> FALSE]
          ELSE fds'[j] = fds[j]
    /\ sock' \in [Fd -> Clients \cup {None}]
    /\ \A f \in Fd : sock'[f] = IF \E i \in failed : f = conns[i].fd THEN None ELSE sock[f]
    /\ inbox' \in [Clients -> Seq({"0", "1"})]
    /\ last' \in [Clients -> [byte : {"none", "0", "1"}, value : Values \cup {None}]]
    /\ \A c \in Clients :
          last'[c] = IF \E i \in I \ failed : c = sock[conns[i].fd]
                     THEN [byte |-> b, value |-> v] ELSE last[c]

\* write_conn does that.
LEMMA WriteConn ==
    ASSUME TypeOK, NEW I \in SUBSET DOMAIN conns, NEW b \in {"0", "1"}, NEW v \in Values,
           write_conn(I, b, v)
    PROVE  \E failed \in SUBSET I : WriteEffect(failed, I, b, v)
<1>1. PICK failed \in SUBSET I :
          failed = {i \in I : ~(Open(conns[i].fd) /\ Alive(sock[conns[i].fd]))}
  OBVIOUS
<1>2. PICK reached, shut : /\ reached = {sock[conns[i].fd] : i \in I \ failed}
                           /\ shut = {conns[i].fd : i \in failed}
  OBVIOUS
<1>3. /\ inbox' = [c \in Clients |->
                      IF c \in reached THEN Append(inbox[c], b) ELSE inbox[c]]
      /\ last' = [c \in Clients |->
                     IF c \in reached THEN [byte |-> b, value |-> v] ELSE last[c]]
      /\ sock' = [f \in Fd |-> IF f \in shut THEN None ELSE sock[f]]
      /\ conns' = [i \in DOMAIN conns |->
                      IF i \in failed THEN [conns[i] EXCEPT !.fd = 0] ELSE conns[i]]
      /\ fds' = [j \in DOMAIN fds |->
                    IF fds[j].fd \in shut
                    THEN [fd |-> 0, in |-> FALSE, hup |-> FALSE] ELSE fds[j]]
  BY <1>1, <1>2 DEF write_conn
<1>4. \A i \in I \ failed : Open(conns[i].fd)
  BY <1>1
<1>5. conns' \in Seq(ConnRec) /\ DOMAIN conns' = DOMAIN conns /\ Len(conns') = Len(conns)
  <2>1. Len(conns) \in Nat /\ DOMAIN conns = 1..Len(conns)
    BY Types
  <2>2. \A i \in DOMAIN conns : conns'[i] \in ConnRec
    <3>1. ASSUME NEW cn \in ConnRec PROVE [cn EXCEPT !.fd = 0] \in ConnRec
      BY DEF ConnRec
    <3> QED
      BY <1>3, <3>1, Types
  <2>3. DOMAIN conns' = 1..Len(conns) /\ conns' \in [1..Len(conns) -> ConnRec]
    BY <1>3, <2>1, <2>2
  <2>4. conns' \in Seq(ConnRec)
    BY <2>1, <2>3, IsASeq
  <2> QED
    BY <2>1, <2>3, <2>4
<1>6. fds' \in Seq(PollRec) /\ DOMAIN fds' = DOMAIN fds /\ Len(fds') = Len(fds)
  <2>1. Len(fds) \in Nat /\ DOMAIN fds = 1..Len(fds)
    BY Types
  <2>2. \A i \in DOMAIN fds : fds'[i] \in PollRec
    <3>1. [fd |-> 0, in |-> FALSE, hup |-> FALSE] \in PollRec
      BY DEF PollRec
    <3> QED
      BY <1>3, <3>1, Types
  <2>3. DOMAIN fds' = 1..Len(fds) /\ fds' \in [1..Len(fds) -> PollRec]
    BY <1>3, <2>1, <2>2
  <2>4. fds' \in Seq(PollRec)
    BY <2>1, <2>3, IsASeq
  <2> QED
    BY <2>1, <2>3, <2>4
<1>7. sock' \in [Fd -> Clients \cup {None}]
  BY <1>3, Types
<1>8. inbox' \in [Clients -> Seq({"0", "1"})]
  <2>1. \A c \in Clients : inbox[c] \in Seq({"0", "1"}) /\ Append(inbox[c], b) \in Seq({"0", "1"})
    BY Types
  <2> QED
    BY <1>3, <2>1
<1>9. last' \in [Clients -> [byte : {"none", "0", "1"}, value : Values \cup {None}]]
  <2>1. [byte |-> b, value |-> v] \in [byte : {"none", "0", "1"}, value : Values \cup {None}]
    OBVIOUS
  <2> QED
    BY <1>3, <2>1, Types
<1>10. \A c \in Clients :
          last'[c] = IF \E i \in I \ failed : c = sock[conns[i].fd]
                     THEN [byte |-> b, value |-> v] ELSE last[c]
  BY <1>2, <1>3
<1>11. \A f \in Fd : sock'[f] = IF \E i \in failed : f = conns[i].fd THEN None ELSE sock[f]
  BY <1>2, <1>3
<1>12. \A j \in DOMAIN fds :
          IF \E i \in failed : fds[j].fd = conns[i].fd
          THEN fds'[j] = [fd |-> 0, in |-> FALSE, hup |-> FALSE]
          ELSE fds'[j] = fds[j]
  BY <1>2, <1>3
<1>13. \A i \in DOMAIN conns :
          IF i \in failed THEN conns'[i] = [conns[i] EXCEPT !.fd = 0] ELSE conns'[i] = conns[i]
  BY <1>3
<1> QED
  BY <1>4, <1>5, <1>6, <1>7, <1>8, <1>9, <1>10, <1>11, <1>12, <1>13 DEF WriteEffect

\* A device comes or goes, and its watchers are told.
LEMMA ConnDevice ==
    ASSUME ConnInv, NEW v \in Values, Device(v)
    PROVE  ConnInv'
<1>1. TypeOK /\ Attachment /\ PollSet /\ Table /\ Requests /\ pc = "devices"
  BY DEF ConnInv, Device
<1>2. PICK I : I = {i \in DOMAIN conns : conns[i].full /\ conns[i].value = v}
  OBVIOUS
<1>3. PICK b \in {"0", "1"} : b = IF v \in avail THEN "0" ELSE "1"
  OBVIOUS
<1>4. /\ UNCHANGED <<pc, idx, incoming, backlog, unread, cst, key, clean, dropped>>
      /\ changes < MaxChanges /\ changes' = changes + 1
      /\ avail' = IF v \in avail THEN avail \ {v} ELSE avail \cup {v}
      /\ write_conn(I, b, v)
  BY <1>2, <1>3 DEF Device
<1>5. PICK failed \in SUBSET I : WriteEffect(failed, I, b, v)
  <2>1. I \in SUBSET DOMAIN conns
    BY <1>2
  <2> QED
    BY <1>1, <1>4, <2>1, WriteConn
<1>6. PICK shut : shut = {conns[i].fd : i \in failed}
  OBVIOUS
<1>7. /\ \A f \in Fd : f \in shut => sock'[f] = None
      /\ \A f \in Fd : f \notin shut => sock'[f] = sock[f]
      /\ \A j \in DOMAIN fds : fds[j].fd \in shut =>
            fds'[j] = [fd |-> 0, in |-> FALSE, hup |-> FALSE]
      /\ \A j \in DOMAIN fds : fds[j].fd \notin shut => fds'[j] = fds[j]
  BY <1>5, <1>6 DEF WriteEffect
<1>8. /\ \A i \in DOMAIN conns : i \in failed => conns'[i] = [conns[i] EXCEPT !.fd = 0]
      /\ \A i \in DOMAIN conns : i \notin failed => conns'[i] = conns[i]
  BY <1>5 DEF WriteEffect
<1>9. \A i \in failed :
            /\ i \in DOMAIN conns /\ conns'[i].fd = 0
            /\ conns'[i].handshake = conns[i].handshake /\ conns'[i].full = conns[i].full
            /\ conns'[i].datalen = conns[i].datalen
  <2>1. ASSUME NEW cn \in ConnRec
        PROVE  /\ [cn EXCEPT !.fd = 0].fd = 0 /\ [cn EXCEPT !.fd = 0].full = cn.full
               /\ [cn EXCEPT !.fd = 0].handshake = cn.handshake
               /\ [cn EXCEPT !.fd = 0].datalen = cn.datalen
    BY DEF ConnRec
  <2>2. \A i \in failed : i \in DOMAIN conns /\ conns[i] \in ConnRec
    BY <1>1, <1>2, Types
  <2>3. \A i \in failed : conns'[i] = [conns[i] EXCEPT !.fd = 0]
    BY <1>8, <2>2
  <2> SUFFICES ASSUME NEW i \in failed
               PROVE  /\ i \in DOMAIN conns /\ conns'[i].fd = 0
                      /\ conns'[i].handshake = conns[i].handshake
                      /\ conns'[i].full = conns[i].full /\ conns'[i].datalen = conns[i].datalen
    OBVIOUS
  <2>4. PICK cn \in ConnRec : cn = conns[i] /\ conns'[i] = [cn EXCEPT !.fd = 0]
    BY <2>2, <2>3
  <2> QED
    BY <2>1, <2>2, <2>4
<1>10. TypeOK'
  <2>1. changes' \in 0..MaxChanges
    BY <1>1, <1>4, ConnsAssumption DEF TypeOK
  <2>2. avail' \subseteq Values
    BY <1>1, <1>4 DEF TypeOK
  <2>3. Len(conns') <= 2 * Cardinality(Fd)
    BY <1>1, <1>5 DEF TypeOK, WriteEffect
  <2> QED
    BY <1>1, <1>4, <1>5, <2>1, <2>2, <2>3 DEF TypeOK, PollRec, WriteEffect
<1>11. \A f \in Fd : sock'[f] # None => sock'[f] = sock[f] /\ f \notin shut
  BY <1>7
<1>12. Attachment'
  <2>1. \A f, g \in Fd : sock'[f] = sock'[g] /\ sock'[f] # None => f = g
    BY <1>1, <1>11 DEF Attachment
  <2>2. \A i \in DOMAIN backlog, f \in Fd : sock'[f] # backlog[i]
    <3>1. \A i \in DOMAIN backlog : backlog[i] # None
      BY <1>1, Types
    <3> QED
      BY <1>1, <1>11, <3>1 DEF Attachment
  <2>3. \A f \in Fd : sock'[f] # None => cst[sock'[f]] # "idle"
    BY <1>1, <1>11 DEF Attachment
  <2> QED
    BY <1>1, <1>4, <2>1, <2>2, <2>3 DEF Attachment
<1>13. PollSet'
  <2>1. \A f \in Fd : sock'[f] # None <=> sock[f] # None /\ f \notin shut
    BY <1>7
  <2>2. {f \in Fd : Open(f)}' = {f \in Fd : Open(f)} \ shut
    BY <2>1, FdCount DEF Open
  <2>3. {fds'[i].fd : i \in DOMAIN fds'} \ {0} = ({fds[i].fd : i \in DOMAIN fds} \ {0}) \ shut
    <3>1. ASSUME NEW i \in DOMAIN fds, fds'[i].fd # 0
          PROVE  fds'[i].fd = fds[i].fd /\ fds[i].fd \notin shut
      BY <1>7, <3>1
    <3>2. ASSUME NEW i \in DOMAIN fds, fds[i].fd \notin shut
          PROVE  fds'[i].fd = fds[i].fd
      BY <1>7, <3>2
    <3>3. DOMAIN fds' = DOMAIN fds
      BY <1>5 DEF WriteEffect
    <3>4. ASSUME NEW x, x \in {fds'[i].fd : i \in DOMAIN fds'} \ {0}
          PROVE  x \in ({fds[i].fd : i \in DOMAIN fds} \ {0}) \ shut
      BY <3>1, <3>3, <3>4
    <3>5. ASSUME NEW x, x \in ({fds[i].fd : i \in DOMAIN fds} \ {0}) \ shut
          PROVE  x \in {fds'[i].fd : i \in DOMAIN fds'} \ {0}
      BY <3>2, <3>3, <3>5
    <3> QED
      BY <3>4, <3>5
  <2>4. \A i, j \in DOMAIN fds' : fds'[i].fd = fds'[j].fd /\ fds'[i].fd # 0 => i = j
    <3> SUFFICES ASSUME NEW i \in DOMAIN fds, NEW j \in DOMAIN fds,
                        fds'[i].fd = fds'[j].fd, fds'[i].fd # 0
                 PROVE  i = j
      BY <1>5 DEF WriteEffect
    <3>1. fds'[i] = fds[i] /\ fds'[j] = fds[j]
      BY <1>7
    <3> QED
      BY <1>1, <3>1 DEF PollSet, FdsMatch
  <2>5. FdsMatch'
    <3>1. {f \in Fd : Open(f)} = {fds[i].fd : i \in DOMAIN fds} \ {0}
      BY <1>1 DEF PollSet, FdsMatch
    <3>2. {f \in Fd : Open(f)}' = {fds'[i].fd : i \in DOMAIN fds'} \ {0}
      BY <2>2, <2>3, <3>1
    <3> QED
      BY <2>4, <3>2 DEF FdsMatch
  <2>6. (\A i \in DOMAIN fds : Pending(i) /\ fds[i].in /\ ~fds[i].hup =>
             Open(fds[i].fd) /\ unread[sock[fds[i].fd]] # <<>>)'
    <3> SUFFICES ASSUME NEW i \in DOMAIN fds, fds'[i].in, ~fds'[i].hup
                 PROVE  fds'[i].fd # 0 /\ sock'[fds'[i].fd] # None
                        /\ unread[sock'[fds'[i].fd]] # <<>>
      BY <1>4, <1>5 DEF Open, WriteEffect
    <3>1. fds'[i] = fds[i] /\ fds[i].fd \notin shut
      BY <1>7
    <3>2. Open(fds[i].fd) /\ unread[sock[fds[i].fd]] # <<>>
      BY <1>1, <3>1 DEF PollSet, Pending
    <3>3. fds[i].fd \in Fd
      BY <1>1, <3>2, Types DEF PollRec, Open
    <3> QED
      BY <1>7, <3>1, <3>2, <3>3 DEF Open
  <2> QED
    BY <1>1, <1>4, <1>5, <2>5, <2>6 DEF PollSet, WriteEffect
<1>14. Table'
  <2>1. ConnPerFd'
    <3> SUFFICES ASSUME NEW i \in DOMAIN conns, NEW j \in DOMAIN conns,
                        conns'[i].fd = conns'[j].fd, conns'[i].fd # 0
                 PROVE  i = j
      BY <1>5 DEF ConnPerFd, WriteEffect
    <3>1. conns'[i] = conns[i] /\ conns'[j] = conns[j]
      BY <1>8, <1>9
    <3> QED
      BY <1>1, <3>1 DEF Table, ConnPerFd
  <2>2. \A i \in DOMAIN conns' : conns'[i].handshake /\ (conns'[i].full => conns'[i].datalen)
    BY <1>1, <1>5, <1>8, <1>9 DEF Table, WriteEffect
  <2> QED
    BY <1>1, <1>4, <1>5, <2>1, <2>2 DEF Table, WriteEffect
<1>15. Requests'
  <2>1. ASSUME NEW f \in Fd, sock'[f] \in clean
        PROVE  sock'[f] = sock[f] /\ f \notin shut /\ sock[f] \in Clients /\ sock[f] # None
    BY <1>1, <1>11, <2>1, Types
  <2>2. ASSUME NEW i \in DOMAIN conns, NEW f \in Fd, f \notin shut
        PROVE  /\ conns'[i].fd = f <=> conns[i].fd = f
               /\ conns[i].fd = f => conns'[i] = conns[i]
    <3>1. CASE i \in failed
      BY <1>6, <1>9, <2>2, <3>1, FdCount
    <3>2. CASE i \notin failed
      BY <1>8, <3>2
    <3> QED
      BY <3>1, <3>2
  <2>3. ASSUME NEW f \in Fd, sock'[f] \in clean, ~HasConn(f)'
        PROVE  Fresh(cst[sock'[f]], unread[sock'[f]])
    <3>1. ~HasConn(f)
      BY <1>5, <2>1, <2>2, <2>3 DEF HasConn, WriteEffect
    <3> QED
      BY <1>1, <2>1, <2>3, <3>1 DEF Requests
  <2>4. ASSUME NEW f \in Fd, NEW i \in DOMAIN conns, sock'[f] \in clean, conns'[i].fd = f
        PROVE  /\ Midway(conns'[i], cst[sock'[f]], unread[sock'[f]], key[sock'[f]])
               /\ conns'[i].full => last'[sock'[f]] = News(avail', key[sock'[f]])
    <3>1. sock'[f] = sock[f] /\ f \notin shut /\ sock[f] \in Clients /\ sock[f] # None
      BY <2>1, <2>4
    <3>2. conns'[i] = conns[i] /\ conns[i].fd = f
      BY <2>2, <2>4, <3>1
    <3>3. PICK c \in Clients : c = sock[f]
      BY <3>1
    <3>4. /\ Midway(conns[i], cst[c], unread[c], key[c])
          /\ conns[i].full => last[c] = News(avail, key[c])
      BY <1>1, <2>4, <3>1, <3>2, <3>3 DEF Requests
    <3>5. ASSUME conns[i].full PROVE last'[c] = News(avail', key[c])
      <4>1. conns[i].value = key[c]
        BY <3>4, <3>5 DEF Midway
      <4>2. i \notin failed
        BY <1>6, <3>1, <3>2
      <4>3. CASE key[c] = v
        <5>1. i \in I \ failed
          BY <1>2, <3>5, <4>1, <4>2, <4>3
        <5>2. last'[c] = [byte |-> b, value |-> v]
          BY <1>5, <3>2, <3>3, <5>1 DEF WriteEffect
        <5>3. b = (IF v \in avail' THEN "1" ELSE "0")
          BY <1>3, <1>4
        <5> QED
          BY <1>4, <4>3, <5>2, <5>3 DEF News
      <4>4. CASE key[c] # v
        <5>1. ~\E k \in I \ failed : c = sock[conns[k].fd]
          <6> SUFFICES ASSUME NEW k \in I \ failed, c = sock[conns[k].fd] PROVE FALSE
            OBVIOUS
          <6>1. Open(conns[k].fd) /\ k \in DOMAIN conns /\ conns[k].value = v
            BY <1>2, <1>5 DEF WriteEffect
          <6>2. conns[k].fd \in Fd
            BY <1>1, <6>1, Types DEF ConnRec, Open
          <6>3. conns[k].fd = f
            BY <1>1, <3>1, <3>3, <6>2 DEF Attachment
          <6>4. k = i
            BY <1>1, <3>2, <6>1, <6>3, FdCount DEF Table, ConnPerFd
          <6> QED
            BY <4>1, <4>4, <6>1, <6>4
        <5>2. last'[c] = last[c]
          BY <1>5, <5>1 DEF WriteEffect
        <5>3. key[c] \in avail <=> key[c] \in avail'
          BY <1>4, <4>4
        <5> QED
          BY <1>4, <3>4, <3>5, <5>2, <5>3 DEF News
      <4> QED
        BY <4>3, <4>4
    <3> QED
      BY <1>4, <3>1, <3>2, <3>3, <3>4, <3>5
  <2> QED
    BY <1>1, <1>4, <1>5, <2>3, <2>4, ZenonT(60) DEF Requests, WriteEffect
<1> QED
  BY <1>10, <1>12, <1>13, <1>14, <1>15 DEF ConnInv

-----------------------------------------------------------------------------
(* The loop: connections *)

\* What the others keep of the table when the connection on f is erased
Erases(t, f) ==
    /\ t \in Seq(ConnRec) /\ Len(t) <= Len(conns)
    /\ \A k \in DOMAIN t : \E i \in DOMAIN conns : t[k] = conns[i]
    /\ \A k, l \in DOMAIN t : t[k].fd = t[l].fd /\ t[k].fd # 0 => k = l
    /\ \A i \in DOMAIN conns : conns[i].fd # f => \E k \in DOMAIN t : t[k] = conns[i]

\* Closing the descriptor whose turn it is keeps the invariant, whether its
\* connection is erased (bad_msg) or not (POLLHUP).
LEMMA ConnCloses ==
    ASSUME ConnInv, Turn, CloseFd, idx' = idx + 1, UNCHANGED loopFrame,
           UNCHANGED <<unread, inbox, last>>, dropped' \subseteq Clients,
           Erases(conns', fds[idx].fd)
    PROVE  ConnInv'
<1>1. TypeOK /\ Attachment /\ PollSet /\ Table /\ Requests /\ pc = "conns" /\ idx \in DOMAIN fds
  BY DEF ConnInv, Turn
<1>2. UNCHANGED <<pc, incoming, backlog, cst, key, avail, changes, clean, unread, inbox, last>>
  BY DEF loopFrame
<1>3. PICK f \in Fd \cup {0} : f = fds[idx].fd
  BY <1>1, Types DEF PollRec
<1>4. /\ Len(fds) \in Nat /\ DOMAIN fds = 1..Len(fds) /\ N \in Nat /\ Cardinality(Clients) = N
      /\ Len(fds) <= N /\ idx \in Nat /\ Len(conns) \in Nat /\ Len(conns') \in Nat
  BY <1>1, Types, FdCount DEF PollSet, N, Erases
<1>5. PICK z : z = [fd |-> 0, in |-> FALSE, hup |-> FALSE]
  OBVIOUS
<1>6. z \in PollRec /\ z.fd = 0 /\ ~z.in
  BY <1>5 DEF PollRec
<1>7. /\ fds' \in Seq(PollRec) /\ DOMAIN fds' = DOMAIN fds /\ Len(fds') = Len(fds)
      /\ fds'[idx] = z /\ \A i \in DOMAIN fds : i # idx => fds'[i] = fds[i]
  <2>1. fds' = [fds EXCEPT ![idx] = z] /\ fds \in Seq(PollRec)
    BY <1>1, <1>5, Types DEF CloseFd
  <2> QED
    BY <1>1, <1>6, <2>1, ExceptSeq
<1>8. /\ sock' \in [Fd -> Clients \cup {None}]
      /\ \A g \in Fd : sock'[g] = IF g = f THEN None ELSE sock[g]
  <2>1. sock' = [sock EXCEPT ![f] = None]
    BY <1>3 DEF CloseFd
  <2> QED
    BY <1>1, <2>1, Types
<1>9. \A i \in DOMAIN fds : fds[i].fd = f /\ f # 0 => i = idx
  BY <1>1, <1>3 DEF PollSet, FdsMatch
<1>10. TypeOK'
  <2>1. idx' \in 1..(Cardinality(Clients) + 1)
    BY <1>1, <1>4
  <2>2. conns' \in Seq(ConnRec) /\ Len(conns') <= 2 * Cardinality(Fd)
    <3>1. Len(conns) <= 2 * Cardinality(Fd) /\ Cardinality(Fd) = N
      BY <1>1, FdCount DEF TypeOK
    <3>2. conns' \in Seq(ConnRec) /\ Len(conns') <= Len(conns)
      BY DEF Erases
    <3> QED
      BY <1>4, <3>1, <3>2
  <2> QED
    BY <1>1, <1>2, <1>7, <1>8, <2>1, <2>2 DEF TypeOK, PollRec
<1>11. Attachment'
  <2>1. \A i \in DOMAIN backlog : backlog[i] # None
    BY <1>1, Types
  <2> QED
    BY <1>1, <1>2, <1>8, <2>1 DEF Attachment
<1>12. PollSet'
  <2>1. {g \in Fd : Open(g)} = {fds[i].fd : i \in DOMAIN fds} \ {0}
    BY <1>1 DEF PollSet, FdsMatch
  <2>2. {g \in Fd : Open(g)}' = {g \in Fd : Open(g)} \ {f}
    BY <1>8, FdCount DEF Open
  <2>3. {fds'[i].fd : i \in DOMAIN fds'} \ {0} = ({fds[i].fd : i \in DOMAIN fds} \ {0}) \ {f}
    <3>1. ASSUME NEW x, x \in {fds'[i].fd : i \in DOMAIN fds'} \ {0}
          PROVE  x \in ({fds[i].fd : i \in DOMAIN fds} \ {0}) \ {f}
      <4>1. PICK i \in DOMAIN fds : x = fds'[i].fd /\ x # 0
        BY <1>7, <3>1
      <4>2. i # idx /\ x = fds[i].fd
        BY <1>6, <1>7, <4>1
      <4> QED
        BY <1>9, <4>1, <4>2
    <3>2. ASSUME NEW x, x \in ({fds[i].fd : i \in DOMAIN fds} \ {0}) \ {f}
          PROVE  x \in {fds'[i].fd : i \in DOMAIN fds'} \ {0}
      <4>1. PICK i \in DOMAIN fds : x = fds[i].fd /\ x # 0 /\ x # f
        BY <3>2
      <4>2. i # idx /\ fds'[i].fd = x
        BY <1>3, <1>7, <4>1
      <4> QED
        BY <1>7, <4>1, <4>2
    <3> QED
      BY <3>1, <3>2
  <2>4. \A i, j \in DOMAIN fds' : fds'[i].fd = fds'[j].fd /\ fds'[i].fd # 0 => i = j
    <3> SUFFICES ASSUME NEW i \in DOMAIN fds, NEW j \in DOMAIN fds,
                        fds'[i].fd = fds'[j].fd, fds'[i].fd # 0
                 PROVE  i = j
      BY <1>7
    <3>1. fds'[i] = fds[i] /\ fds'[j] = fds[j]
      BY <1>6, <1>7
    <3> QED
      BY <1>1, <3>1 DEF PollSet, FdsMatch
  <2>5. FdsMatch'
    <3>1. {g \in Fd : Open(g)}' = {fds'[i].fd : i \in DOMAIN fds'} \ {0}
      BY <2>1, <2>2, <2>3
    <3> QED
      BY <2>4, <3>1 DEF FdsMatch
  <2>6. idx' <= Len(fds') + 1
    BY <1>1, <1>4, <1>7
  <2>7. (\A i \in DOMAIN fds : Pending(i) /\ fds[i].in /\ ~fds[i].hup =>
             Open(fds[i].fd) /\ unread[sock[fds[i].fd]] # <<>>)'
    <3> SUFFICES ASSUME NEW i \in DOMAIN fds, Pending(i)', fds'[i].in, ~fds'[i].hup
                 PROVE  fds'[i].fd # 0 /\ sock'[fds'[i].fd] # None
                        /\ unread[sock'[fds'[i].fd]] # <<>>
      BY <1>2, <1>7 DEF Open
    <3>1. i # idx /\ fds'[i] = fds[i]
      BY <1>6, <1>7
    <3>2. Pending(i)
      BY <1>1, <1>2, <1>4 DEF Pending
    <3>3. Open(fds[i].fd) /\ unread[sock[fds[i].fd]] # <<>>
      BY <1>1, <3>1, <3>2 DEF PollSet
    <3>4. fds[i].fd \in Fd /\ fds[i].fd # f
      BY <1>1, <1>9, <3>1, <3>3, Types DEF PollRec, Open
    <3> QED
      BY <1>8, <3>1, <3>3, <3>4 DEF Open
  <2> QED
    BY <1>1, <1>2, <1>4, <1>7, <2>5, <2>6, <2>7 DEF PollSet
<1>13. Table'
  <2>1. ConnPerFd'
    BY DEF ConnPerFd, Erases
  <2>2. \A k \in DOMAIN conns' : conns'[k].handshake /\ (conns'[k].full => conns'[k].datalen)
    BY <1>1 DEF Table, Erases
  <2>3. Len(conns') <= N + idx' - 1
    BY <1>1, <1>4 DEF Table, Erases
  <2> QED
    BY <1>1, <1>2, <2>1, <2>2, <2>3 DEF Table
<1>14. Requests'
  <2>1. ASSUME NEW g \in Fd, sock'[g] \in clean
        PROVE  g # f /\ sock'[g] = sock[g]
    BY <1>1, <1>8, <2>1, Types
  <2>2. ASSUME NEW g \in Fd, sock'[g] \in clean, ~HasConn(g)'
        PROVE  Fresh(cst[sock'[g]], unread[sock'[g]])
    <3>1. ~HasConn(g)
      BY <1>3, <2>1, <2>2 DEF HasConn, Erases
    <3> QED
      BY <1>1, <2>1, <2>2, <3>1 DEF Requests
  <2>3. ASSUME NEW g \in Fd, NEW k \in DOMAIN conns', sock'[g] \in clean, conns'[k].fd = g
        PROVE  /\ Midway(conns'[k], cst[sock'[g]], unread[sock'[g]], key[sock'[g]])
               /\ conns'[k].full => last[sock'[g]] = News(avail, key[sock'[g]])
    <3>1. PICK i \in DOMAIN conns : conns'[k] = conns[i]
      BY DEF Erases
    <3> QED
      BY <1>1, <2>1, <2>3, <3>1 DEF Requests
  <2> QED
    BY <1>1, <1>2, <2>2, <2>3 DEF Requests
<1> QED
  BY <1>10, <1>11, <1>12, <1>13, <1>14 DEF ConnInv

\* POLLHUP: the connection stays in the table.
LEMMA ConnHangUp ==
    ASSUME ConnInv, HangUp
    PROVE  ConnInv'
<1>1. TypeOK /\ Table
  BY DEF ConnInv
<1>2. /\ Turn /\ CloseFd /\ idx' = idx + 1 /\ UNCHANGED loopFrame
      /\ UNCHANGED <<unread, inbox, last>> /\ UNCHANGED <<conns, dropped>>
  BY DEF HangUp
<1>3. dropped' \subseteq Clients
  BY <1>1, <1>2 DEF TypeOK
<1>4. Len(conns) <= Len(conns)
  BY <1>1, Types
<1>5. Erases(conns', fds[idx].fd)
  BY <1>1, <1>2, <1>4, Types DEF Erases, Table, ConnPerFd
<1> QED
  BY <1>2, <1>3, <1>5, ConnCloses

\* The sequence without its element i.
LEMMA RemovedAt ==
    ASSUME NEW M, NEW s \in Seq(M), NEW i \in DOMAIN s
    PROVE  /\ RemoveAt(s, i) \in Seq(M) /\ Len(RemoveAt(s, i)) = Len(s) - 1
           /\ \A k \in 1..(Len(s) - 1) : RemoveAt(s, i)[k] = IF k < i THEN s[k] ELSE s[k + 1]
<1>1. Len(s) \in Nat /\ DOMAIN s = 1..Len(s) /\ i \in 1..Len(s)
  OBVIOUS
<1>2. PICK a, b : a = SubSeq(s, 1, i - 1) /\ b = SubSeq(s, i + 1, Len(s))
  OBVIOUS
<1>3. /\ a \in Seq(M) /\ Len(a) = i - 1
      /\ \A k \in 1..(i - 1) : a[k] = s[k]
  BY <1>1, <1>2
<1>4. /\ b \in Seq(M) /\ Len(b) = Len(s) - i
      /\ \A k \in 1..(Len(s) - i) : b[k] = s[k + i]
  BY <1>1, <1>2
<1>5. PICK r : r = a \o b /\ r = RemoveAt(s, i)
  BY <1>2 DEF RemoveAt
<1>6. /\ r \in Seq(M) /\ Len(r) = Len(s) - 1
      /\ \A k \in 1..(Len(s) - 1) : r[k] = IF k <= i - 1 THEN a[k] ELSE b[k - (i - 1)]
  <2>1. Len(a) + Len(b) = Len(s) - 1
    BY <1>1, <1>3, <1>4
  <2>2. /\ r \in Seq(M) /\ Len(r) = Len(a) + Len(b)
        /\ \A k \in 1..(Len(a) + Len(b)) : r[k] = IF k <= Len(a) THEN a[k] ELSE b[k - Len(a)]
    <3>1. a \in Seq(M) /\ b \in Seq(M)
      BY <1>3, <1>4
    <3>2. /\ (a \o b) \in Seq(M) /\ Len(a \o b) = Len(a) + Len(b)
          /\ \A k \in 1..(Len(a) + Len(b)) :
                (a \o b)[k] = IF k <= Len(a) THEN a[k] ELSE b[k - Len(a)]
      BY <3>1, ConcatProperties
    <3> QED
      BY <1>5, <3>2
  <2> QED
    BY <1>3, <2>1, <2>2
<1>7. ASSUME NEW k \in 1..(Len(s) - 1)
      PROVE  r[k] = IF k < i THEN s[k] ELSE s[k + 1]
  <2>1. CASE k < i
    BY <1>1, <1>3, <1>6, <2>1
  <2>2. CASE ~(k < i)
    <3>1. k - (i - 1) \in 1..(Len(s) - i) /\ (k - (i - 1)) + i = k + 1
      BY <1>1, <2>2
    <3>2. r[k] = b[k - (i - 1)]
      BY <1>1, <1>6, <2>2
    <3> QED
      BY <1>4, <2>2, <3>1, <3>2
  <2> QED
    BY <2>1, <2>2
<1> QED
  BY <1>5, <1>6, <1>7

\* The entry i of the table t is the one of descriptor f, and the only one that
\* conns may lack
Located(t, i, f) ==
    /\ t \in Seq(ConnRec) /\ Len(t) <= Len(conns) + 1
    /\ i \in DOMAIN t /\ t[i].fd = f
    /\ \A j \in DOMAIN t : t[j].fd = f => j = i
    /\ \A j \in DOMAIN conns : j \in DOMAIN t /\ t[j] = conns[j]
    /\ \A j \in DOMAIN t : j # i => j \in DOMAIN conns
    /\ i \in DOMAIN conns \/ (~HasConn(f) /\ t[i] = NewConn(f))
    /\ \A j, k \in DOMAIN t : t[j].fd = t[k].fd /\ t[j].fd # 0 => j = k

\* The connection is looked up, or made.
LEMMA LookedLocated ==
    ASSUME TypeOK, Table, NEW f \in Fd
    PROVE  \E i : Located(Looked(f), i, f)
<1>1. /\ conns \in Seq(ConnRec) /\ Len(conns) \in Nat /\ DOMAIN conns = 1..Len(conns)
      /\ f # 0
      /\ \A j, k \in DOMAIN conns : conns[j].fd = conns[k].fd /\ conns[j].fd # 0 => j = k
  BY Types, FdCount DEF Table, ConnPerFd
<1>2. CASE HasConn(f)
  <2>1. PICK i \in DOMAIN conns : conns[i].fd = f
    BY <1>2 DEF HasConn
  <2>2. Len(conns) <= Len(conns) + 1
    BY <1>1
  <2>3. Located(conns, i, f)
    BY <1>1, <2>1, <2>2 DEF Located
  <2> QED
    BY <1>2, <2>3 DEF Looked
<1>3. CASE ~HasConn(f)
  <2>1. NewConn(f) \in ConnRec /\ NewConn(f).fd = f
    BY DEF NewConn, ConnRec
  <2>2. PICK t, i : t = Append(conns, NewConn(f)) /\ i = Len(conns) + 1
    OBVIOUS
  <2>3. /\ t \in Seq(ConnRec) /\ Len(t) = Len(conns) + 1 /\ DOMAIN t = 1..(Len(conns) + 1)
        /\ t[i] = NewConn(f) /\ i \in DOMAIN t
        /\ \A j \in DOMAIN conns : j \in DOMAIN t /\ t[j] = conns[j]
        /\ \A j \in DOMAIN t : j # i => j \in DOMAIN conns
    BY <1>1, <2>1, <2>2
  <2>4. \A j \in DOMAIN conns : conns[j].fd # f
    BY <1>3 DEF HasConn
  <2>5. \A j \in DOMAIN t : t[j].fd = f => j = i
    BY <2>3, <2>4
  <2>6. \A j, k \in DOMAIN t : t[j].fd = t[k].fd /\ t[j].fd # 0 => j = k
    BY <1>1, <2>1, <2>3, <2>4
  <2>7. Len(t) <= Len(conns) + 1
    BY <1>1, <2>3
  <2>8. Located(t, i, f)
    BY <1>3, <2>1, <2>3, <2>5, <2>6, <2>7 DEF Located
  <2> QED
    BY <1>3, <2>2, <2>8 DEF Looked
<1> QED
  BY <1>2, <1>3

\* A search for the descriptor comes to its entry first.
LEMMA Found ==
    ASSUME NEW t, NEW i, NEW f, Located(t, i, f)
    PROVE  {j \in 1..Len(t) : t[j].fd = f} = {i} /\ Min({i}) = i
<1>1. /\ t \in Seq(ConnRec) /\ Len(t) \in Nat /\ i \in 1..Len(t) /\ t[i].fd = f
      /\ \A j \in 1..Len(t) : t[j].fd = f => j = i
  BY DEF Located
<1>2. {j \in 1..Len(t) : t[j].fd = f} = {i}
  BY <1>1
<1>3. \E x \in {i} : \A y \in {i} : x <= y
  BY <1>1
<1>4. Min({i}) = i
  BY <1>3 DEF Min
<1> QED
  BY <1>2, <1>4

\* bad_msg erases the connection and closes the descriptor.
LEMMA ConnBadMsg ==
    ASSUME ConnInv, Turn, idx' = idx + 1, UNCHANGED loopFrame,
           fds[idx].fd \in Fd, NEW t, NEW i, Located(t, i, fds[idx].fd), BadMsg(t)
    PROVE  ConnInv'
<1>1. TypeOK /\ PollSet /\ Table /\ idx \in DOMAIN fds
  BY DEF ConnInv, Turn
<1>2. PICK f \in Fd : f = fds[idx].fd
  OBVIOUS
<1>3. CloseFd /\ UNCHANGED <<unread, inbox, last>>
  BY DEF BadMsg
<1>4. conns' = RemoveAt(t, i)
  <2>1. {j \in 1..Len(t) : t[j].fd = fds[idx].fd} = {i} /\ Min({i}) = i
    BY Found
  <2>2. \E j \in 1..Len(t) : t[j].fd = fds[idx].fd
    BY <2>1
  <2> QED
    BY <2>1, <2>2 DEF BadMsg, RemoveFirstMatch, SelectInSeq
<1>5. dropped' \subseteq Clients
  <2>1. Open(f)
    BY <1>1, <1>2, FdCount DEF PollSet, FdsMatch
  <2>2. Served \in Clients
    BY <1>1, <1>2, <2>1, Types DEF Served, Open
  <2> QED
    BY <1>1, <2>2 DEF TypeOK, BadMsg
<1>6. /\ t \in Seq(ConnRec) /\ Len(t) \in Nat /\ DOMAIN t = 1..Len(t) /\ i \in 1..Len(t)
      /\ Len(t) <= Len(conns) + 1 /\ Len(conns) \in Nat
      /\ t[i].fd = f
      /\ \A j \in DOMAIN conns : j \in DOMAIN t /\ t[j] = conns[j]
      /\ \A j \in DOMAIN t : j # i => j \in DOMAIN conns
      /\ \A j, k \in DOMAIN t : t[j].fd = t[k].fd /\ t[j].fd # 0 => j = k
  BY <1>1, <1>2, Types DEF Located
<1>7. PICK r : r = RemoveAt(t, i)
  OBVIOUS
<1>8. /\ r \in Seq(ConnRec) /\ Len(r) = Len(t) - 1 /\ DOMAIN r = 1..(Len(t) - 1)
      /\ \A k \in DOMAIN r : r[k] = IF k < i THEN t[k] ELSE t[k + 1]
  <2>1. i \in DOMAIN t
    BY <1>6, SMTT(60)
  <2>2. /\ r \in Seq(ConnRec) /\ Len(r) = Len(t) - 1
        /\ \A k \in 1..(Len(t) - 1) : r[k] = IF k < i THEN t[k] ELSE t[k + 1]
    BY <1>6, <1>7, <2>1, RemovedAt, ZenonT(60)
  <2>3. DOMAIN r = 1..Len(r)
    BY <2>2
  <2> QED
    BY <2>2, <2>3
<1>9. ASSUME NEW k \in DOMAIN r
      PROVE  \E j \in DOMAIN conns : r[k] = conns[j]
  <2>1. CASE k < i
    BY <1>6, <1>8, <2>1
  <2>2. CASE ~(k < i)
    <3>1. k + 1 \in DOMAIN t /\ k + 1 # i
      BY <1>6, <1>8, <2>2
    <3> QED
      BY <1>6, <1>8, <2>2, <3>1
  <2> QED
    BY <2>1, <2>2
<1>10. ASSUME NEW k \in DOMAIN r, NEW l \in DOMAIN r, r[k].fd = r[l].fd, r[k].fd # 0
       PROVE  k = l
  <2>1. PICK a \in DOMAIN t : r[k] = t[a] /\ a = IF k < i THEN k ELSE k + 1
    BY <1>6, <1>8
  <2>2. PICK b \in DOMAIN t : r[l] = t[b] /\ b = IF l < i THEN l ELSE l + 1
    BY <1>6, <1>8
  <2>3. a = b
    BY <1>6, <1>10, <2>1, <2>2
  <2> QED
    BY <1>6, <1>8, <2>1, <2>2, <2>3
<1>11. ASSUME NEW j \in DOMAIN conns, conns[j].fd # f
       PROVE  \E k \in DOMAIN r : r[k] = conns[j]
  <2>1. j \in DOMAIN t /\ t[j] = conns[j] /\ j # i
    BY <1>6, <1>11
  <2>2. CASE j < i
    BY <1>6, <1>8, <2>1, <2>2, SMTT(60)
  <2>3. CASE j > i
    <3>1. j - 1 \in DOMAIN r /\ ~(j - 1 < i) /\ (j - 1) + 1 = j
      BY <1>6, <1>8, <2>1, <2>3
    <3> QED
      BY <1>8, <2>1, <3>1
  <2> QED
    BY <1>6, <2>1, <2>2, <2>3
<1>12. Len(r) <= Len(conns)
  BY <1>6, <1>8
<1>13. Erases(r, f)
  BY <1>8, <1>9, <1>10, <1>11, <1>12 DEF Erases
<1> QED
  BY <1>2, <1>3, <1>4, <1>5, <1>7, <1>13, ConnCloses

\* It is the turn of client c, whose entry is t[i]; cn may replace the entry
\* when rest is what is left unread
Reads(c, t, i, cn, rest) ==
    /\ Turn /\ fds[idx].fd \in Fd
    /\ c \in Clients /\ sock[fds[idx].fd] = c /\ Located(t, i, fds[idx].fd)
    /\ cn \in ConnRec /\ cn.fd = fds[idx].fd /\ cn.handshake
    /\ cn.full => cn.datalen
    /\ rest \in Seq(Chunk)
    /\ c \in clean => Midway(cn, cst[c], rest, key[c])

Stores(c, t, i, cn, rest) ==
    conns' = [t EXCEPT ![i] = cn] /\ unread' = [unread EXCEPT ![c] = rest]

\* A watcher that cn completes has been told m, the news it asked for
Told(c, cn, m) == c \in clean /\ cn.full => m = News(avail, key[c])

\* What was read of the client whose turn it is moves from unread to its entry.
LEMMA ConnAdvance ==
    ASSUME ConnInv, idx' = idx + 1, UNCHANGED loopFrame, UNCHANGED <<sock, fds, dropped>>,
           NEW c, NEW t, NEW i, NEW cn, NEW rest, Reads(c, t, i, cn, rest),
           Stores(c, t, i, cn, rest),
           inbox' \in [Clients -> Seq({"0", "1"})],
           last' \in [Clients -> [byte : {"none", "0", "1"}, value : Values \cup {None}]],
           \A e \in Clients : e # c => last'[e] = last[e],
           NEW m, m = last'[c], Told(c, cn, m)
    PROVE  ConnInv'
<1>0. PICK f \in Fd : f = fds[idx].fd
  BY DEF Reads
<1> /\ c \in Clients /\ sock[f] = c /\ Located(t, i, f)
    /\ cn \in ConnRec /\ cn.fd = f /\ cn.handshake /\ Turn
    /\ cn.full => cn.datalen
    /\ rest \in Seq(Chunk)
    /\ c \in clean => Midway(cn, cst[c], rest, key[c])
    /\ c \in clean /\ cn.full => last'[c] = News(avail, key[c])
  BY <1>0 DEF Reads, Told
<1>1. TypeOK /\ Attachment /\ PollSet /\ Table /\ Requests /\ pc = "conns" /\ idx \in DOMAIN fds
  BY DEF ConnInv, Turn
<1>2. UNCHANGED <<pc, incoming, backlog, cst, key, avail, changes, clean>>
  BY DEF loopFrame
<1>3. /\ t \in Seq(ConnRec) /\ Len(t) \in Nat /\ Len(t) <= Len(conns) + 1 /\ Len(conns) \in Nat
      /\ i \in DOMAIN t /\ t[i].fd = f /\ f # 0
      /\ \A j \in DOMAIN t : t[j].fd = f => j = i
      /\ \A j \in DOMAIN conns : j \in DOMAIN t /\ t[j] = conns[j]
      /\ \A j \in DOMAIN t : j # i => j \in DOMAIN conns
      /\ \A j, k \in DOMAIN t : t[j].fd = t[k].fd /\ t[j].fd # 0 => j = k
  BY <1>1, Types, FdCount, SMTT(60) DEF Located
<1>4. /\ conns' \in Seq(ConnRec) /\ Len(conns') = Len(t) /\ DOMAIN conns' = DOMAIN t
      /\ conns'[i] = cn
      /\ \A j \in DOMAIN t : j # i => conns'[j] = t[j]
  BY <1>3, ExceptSeq DEF Stores
<1>5. /\ unread' \in [Clients -> Seq(Chunk)] /\ unread'[c] = rest
      /\ \A e \in Clients : e # c => unread'[e] = unread[e]
  BY <1>1, Types DEF Stores
<1>6. /\ Len(fds) \in Nat /\ DOMAIN fds = 1..Len(fds) /\ N \in Nat /\ Cardinality(Clients) = N
      /\ Len(fds) <= N /\ idx \in Nat /\ Cardinality(Fd) = N
      /\ Len(conns) <= N + idx - 1
  BY <1>1, Types, FdCount DEF PollSet, Table, N
<1>7. /\ idx' \in 1..(N + 1) /\ idx' <= Len(fds) + 1
      /\ Len(conns') <= N + idx' - 1 /\ Len(conns') <= 2 * N
  BY <1>1, <1>3, <1>4, <1>6, SMTT(60)
<1>8. \A g \in Fd : sock[g] = c => g = f
  BY <1>1, Types DEF Attachment
<1>9. TypeOK'
  BY <1>1, <1>2, <1>4, <1>5, <1>6, <1>7 DEF TypeOK
<1>10. Attachment'
  BY <1>1, <1>2 DEF Attachment
<1>11. PollSet'
  <2>1. FdsMatch'
    BY <1>1 DEF PollSet, FdsMatch, Open
  <2>2. ASSUME NEW j \in DOMAIN fds, Pending(j)', fds[j].in, ~fds[j].hup
        PROVE  Open(fds[j].fd) /\ unread'[sock[fds[j].fd]] # <<>>
    <3>1. Pending(j) /\ j # idx
      BY <1>1, <1>2, <1>6, <2>2 DEF Pending
    <3>2. Open(fds[j].fd) /\ unread[sock[fds[j].fd]] # <<>>
      BY <1>1, <2>2, <3>1 DEF PollSet
    <3>3. fds[j].fd \in Fd /\ fds[j].fd # f
      BY <1>0, <1>1, <1>3, <3>1, <3>2, Types DEF PollRec, Open, PollSet, FdsMatch
    <3>4. sock[fds[j].fd] \in Clients /\ sock[fds[j].fd] # c
      BY <1>1, <1>8, <3>2, <3>3, Types DEF Open
    <3> QED
      BY <1>5, <3>2, <3>4
  <2>3. (\A j \in DOMAIN fds : Pending(j) /\ fds[j].in /\ ~fds[j].hup =>
             Open(fds[j].fd) /\ unread[sock[fds[j].fd]] # <<>>)'
    BY <2>2 DEF Open
  <2> QED
    BY <1>1, <1>2, <1>7, <2>1, <2>3 DEF PollSet
<1>12. Table'
  <2>1. ConnPerFd'
    <3>1. \A j \in DOMAIN t : conns'[j].fd = t[j].fd
      BY <1>3, <1>4
    <3>2. \A j, k \in DOMAIN conns' :
              conns'[j].fd = conns'[k].fd /\ conns'[j].fd # 0 => j = k
      BY <1>3, <1>4, <3>1
    <3> QED
      BY <3>2 DEF ConnPerFd
  <2>2. \A j \in DOMAIN conns' : conns'[j].handshake /\ (conns'[j].full => conns'[j].datalen)
    <3> SUFFICES ASSUME NEW j \in DOMAIN t
                 PROVE  conns'[j].handshake /\ (conns'[j].full => conns'[j].datalen)
      BY <1>4
    <3>1. CASE j = i
      BY <1>4, <3>1
    <3>2. CASE j # i
      BY <1>1, <1>3, <1>4, <3>2 DEF Table
    <3> QED
      BY <3>1, <3>2
  <2> QED
    BY <1>1, <1>2, <1>7, <2>1, <2>2 DEF Table
<1>13. Requests'
  <2>1. ASSUME NEW e \in Clients, cst[e] = "idle"
        PROVE  unread'[e] = <<>>
    BY <1>1, <1>5, <2>1, Types, ZenonT(60) DEF Attachment, Requests
  <2>2. ASSUME NEW j \in DOMAIN backlog
        PROVE  Fresh(cst[backlog[j]], unread'[backlog[j]])
    <3>1. backlog[j] \in Clients /\ backlog[j] # c
      BY <1>1, Types DEF Attachment
    <3> QED
      BY <1>1, <1>5, <3>1 DEF Requests
  <2>3. ASSUME NEW g \in Fd, sock[g] \in clean, ~HasConn(g)'
        PROVE  Fresh(cst[sock[g]], unread'[sock[g]])
    <3>1. g # f
      BY <1>3, <1>4, <2>3 DEF HasConn
    <3>2. ~HasConn(g)
      BY <1>3, <1>4, <2>3, <3>1 DEF HasConn
    <3>3. sock[g] \in Clients /\ sock[g] # c
      BY <1>1, <1>8, <2>3, <3>1, Types
    <3> QED
      BY <1>1, <1>5, <2>3, <3>2, <3>3 DEF Requests
  <2>4. ASSUME NEW g \in Fd, NEW j \in DOMAIN conns', sock[g] \in clean, conns'[j].fd = g
        PROVE  /\ Midway(conns'[j], cst[sock[g]], unread'[sock[g]], key[sock[g]])
               /\ conns'[j].full => last'[sock[g]] = News(avail, key[sock[g]])
    <3>1. CASE j = i
      BY <1>4, <1>5, <2>4, <3>1
    <3>2. CASE j # i
      <4>1. j \in DOMAIN conns /\ conns'[j] = conns[j] /\ g # f
        BY <1>3, <1>4, <2>4, <3>2
      <4>2. sock[g] \in Clients /\ sock[g] # c
        BY <1>1, <1>8, <2>4, <4>1, Types
      <4> QED
        BY <1>1, <1>5, <2>4, <4>1, <4>2 DEF Requests
    <3> QED
      BY <3>1, <3>2
  <2> QED
    BY <1>1, <1>2, <2>1, <2>2, <2>3, <2>4 DEF Requests
<1> QED
  BY <1>9, <1>10, <1>11, <1>12, <1>13 DEF ConnInv

\* A reply: the byte is written, or the connection is dropped.
LEMMA ConnReply ==
    ASSUME ConnInv, idx' = idx + 1, UNCHANGED loopFrame,
           NEW c, NEW t, NEW i, NEW cn, NEW rest, Reads(c, t, i, cn, rest),
           NEW b \in {"0", "1"}, NEW v \in Values \cup {None},
           Told(c, cn, [byte |-> b, value |-> v]),
           Reply(t, i, cn, rest, b, v)
    PROVE  ConnInv'
<1>1. TypeOK
  BY DEF ConnInv
<1>2. Served = c /\ c \in Clients /\ Turn /\ fds[idx].fd \in Fd /\ Located(t, i, fds[idx].fd)
  BY DEF Served, Reads
<1>3. CASE ~Alive(Served)
  <2>1. BadMsg(t)
    BY <1>3 DEF Reply
  <2> QED
    BY <1>2, <2>1, ConnBadMsg
<1>4. CASE Alive(Served)
  <2>1. /\ conns' = [t EXCEPT ![i] = cn] /\ unread' = [unread EXCEPT ![c] = rest]
        /\ inbox' = [inbox EXCEPT ![c] = Append(@, b)]
        /\ last' = [last EXCEPT ![c] = [byte |-> b, value |-> v]]
        /\ UNCHANGED <<sock, fds, dropped>>
    BY <1>2, <1>4 DEF Reply
  <2>2. inbox' \in [Clients -> Seq({"0", "1"})]
    <3>1. inbox \in [Clients -> Seq({"0", "1"})]
      BY <1>1, Types
    <3>2. Append(inbox[c], b) \in Seq({"0", "1"})
      BY <1>2, <3>1
    <3> QED
      BY <2>1, <3>1, <3>2
  <2>3. /\ last' \in [Clients -> [byte : {"none", "0", "1"}, value : Values \cup {None}]]
        /\ last'[c] = [byte |-> b, value |-> v]
        /\ \A e \in Clients : e # c => last'[e] = last[e]
    BY <1>1, <1>2, <2>1, Types
  <2>4. PICK m : m = last'[c] /\ Told(c, cn, m)
    BY <2>3
  <2>5. Stores(c, t, i, cn, rest) /\ UNCHANGED <<sock, fds, dropped>>
    BY <2>1 DEF Stores
  <2>6. /\ last' \in [Clients -> [byte : {"none", "0", "1"}, value : Values \cup {None}]]
        /\ \A e \in Clients : e # c => last'[e] = last[e]
    BY <2>3
  <2> QED
    BY <2>2, <2>4, <2>5, <2>6, ConnAdvance
<1> QED
  BY <1>3, <1>4

\* The value is read, not there yet, or garbled.
LEMMA ConnReadValue ==
    ASSUME ConnInv, idx' = idx + 1, UNCHANGED loopFrame,
           NEW c, NEW t, NEW i, NEW cn, NEW u, Reads(c, t, i, cn, u),
           cn.datalen, ~cn.full, ReadValue(t, i, cn, u)
    PROVE  ConnInv'
<1>1. TypeOK
  BY DEF ConnInv
<1>2. /\ Served = c /\ c \in Clients /\ Turn /\ fds[idx].fd \in Fd /\ Located(t, i, fds[idx].fd)
      /\ cn \in ConnRec /\ cn.fd = fds[idx].fd /\ cn.handshake
      /\ c \in clean => Midway(cn, cst[c], u, key[c])
  BY DEF Served, Reads
<1>3. <<>> \in Seq(Chunk) /\ <<"junk">> \in Seq(Chunk)
  BY DEF Chunk
<1>4. CASE u = <<>> /\ Reply(t, i, cn, <<>>, "0", None)
  <2>1. Told(c, cn, [byte |-> "0", value |-> None])
    BY DEF Told
  <2>2. Reads(c, t, i, cn, <<>>)
    BY <1>4
  <2>3. "0" \in {"0", "1"} /\ None \in Values \cup {None}
    OBVIOUS
  <2> QED
    BY <1>4, <2>1, <2>2, <2>3, ConnReply
<1>5. CASE BadMsg(t)
  BY <1>2, <1>5, ConnBadMsg
<1>6. CASE /\ u = <<"value">>
           /\ LET v == key[Served]
              IN  Reply(t, i, [cn EXCEPT !.full = TRUE, !.value = v], <<>>,
                        IF v \in avail THEN "1" ELSE "0", v)
  <2>1. PICK v : v = key[c] /\ v \in Values \cup {None}
    BY <1>1, <1>2, Types
  <2>2. PICK b : b = (IF v \in avail THEN "1" ELSE "0") /\ b \in {"0", "1"}
    OBVIOUS
  <2>3. PICK d : d = [cn EXCEPT !.full = TRUE, !.value = v]
    OBVIOUS
  <2>4. /\ d \in ConnRec /\ d.fd = cn.fd /\ d.handshake = cn.handshake
        /\ d.datalen = cn.datalen /\ d.full /\ d.value = v
    BY <1>2, <2>1, <2>3 DEF ConnRec
  <2>5. Reply(t, i, d, <<>>, b, v)
    BY <1>2, <1>6, <2>1, <2>2, <2>3
  <2>6. c \in clean => Midway(d, cst[c], <<>>, key[c])
    BY <1>2, <1>6, <2>1, <2>4 DEF Midway
  <2>7. Reads(c, t, i, d, <<>>)
    BY <1>2, <1>3, <2>4, <2>6 DEF Reads
  <2>8. Told(c, d, [byte |-> b, value |-> v])
    BY <2>1, <2>2 DEF Told, News
  <2> QED
    BY <2>1, <2>2, <2>5, <2>7, <2>8, ConnReply
<1>7. CASE /\ u # <<>> /\ u # <<"value">>
           /\ \E full \in BOOLEAN, rest \in {<<>>, <<"junk">>} :
                 /\ ~full => rest = <<>>
                 /\ Reply(t, i, [cn EXCEPT !.full = full, !.value = Garbled], rest,
                          "0", None)
  <2>1. c \notin clean
    BY <1>2, <1>7 DEF Midway
  <2>2. PICK full \in BOOLEAN, rest \in {<<>>, <<"junk">>} :
            Reply(t, i, [cn EXCEPT !.full = full, !.value = Garbled], rest, "0", None)
    BY <1>7
  <2>3. PICK d : d = [cn EXCEPT !.full = full, !.value = Garbled]
    OBVIOUS
  <2>4. /\ d \in ConnRec /\ d.fd = cn.fd /\ d.handshake = cn.handshake
        /\ d.datalen = cn.datalen
    BY <1>2, <2>3 DEF ConnRec
  <2>5. Reply(t, i, d, rest, "0", None)
    BY <2>2, <2>3
  <2>6. Reads(c, t, i, d, rest)
    BY <1>2, <1>3, <2>1, <2>4 DEF Reads
  <2>7. Told(c, d, [byte |-> "0", value |-> None])
    BY <2>1 DEF Told
  <2>8. "0" \in {"0", "1"} /\ None \in Values \cup {None}
    OBVIOUS
  <2> QED
    BY <2>5, <2>6, <2>7, <2>8, ConnReply
<1> QED
  BY <1>4, <1>5, <1>6, <1>7 DEF ReadValue

\* What is left of a request when its first part has been read.
LEMMA Tails ==
    /\ Tail(<<"handshake", "length">>) = <<"length">>
    /\ Tail(<<"handshake", "length", "value">>) = <<"length", "value">>
    /\ Tail(<<"length">>) = <<>>
    /\ Tail(<<"length", "value">>) = <<"value">>
OBVIOUS

\* What Input does with the entry cn, at i of t, of client c with u unread
Handles(t, i, cn, u, c) ==
    \/ /\ cn.full
       /\ BadMsg(t)
    \/ /\ ~cn.full /\ ~cn.handshake
       /\ IF Head(u) = "handshake"
          THEN /\ conns' = [t EXCEPT ![i].handshake = TRUE]
               /\ unread' = [unread EXCEPT ![c] = Tail(u)]
               /\ UNCHANGED <<sock, fds, inbox, last, dropped>>
          ELSE BadMsg(t)
    \/ /\ ~cn.full /\ cn.handshake /\ ~cn.datalen
       /\ ReadValue(t, i, [cn EXCEPT !.datalen = TRUE],
                    IF Head(u) = "length" THEN Tail(u) ELSE u)
    \/ /\ ~cn.full /\ cn.handshake /\ cn.datalen
       /\ ReadValue(t, i, cn, u)

\* POLLIN: the connection is looked up or made, and its next part is read.
LEMMA ConnInput ==
    ASSUME ConnInv, Input
    PROVE  ConnInv'
<1>1. /\ TypeOK /\ Attachment /\ PollSet /\ Table /\ Requests
      /\ Turn /\ pc = "conns" /\ idx \in DOMAIN fds /\ fds[idx].in /\ ~fds[idx].hup
      /\ idx' = idx + 1 /\ UNCHANGED loopFrame
  BY DEF ConnInv, Input, Turn
<1>2. Open(fds[idx].fd) /\ unread[sock[fds[idx].fd]] # <<>>
  <2>1. Pending(idx)
    BY <1>1, Types DEF Pending
  <2> QED
    BY <1>1, <2>1 DEF PollSet
<1>3. PICK f \in Fd : f = fds[idx].fd
  BY <1>1, <1>2, Types DEF Open, PollRec
<1>4. PICK c \in Clients : c = sock[f] /\ c = Served
  BY <1>1, <1>2, <1>3, Types DEF Open, Served
<1>5. PICK t, i : t = Looked(f) /\ Located(t, i, f)
  BY <1>1, LookedLocated
<1>6. SelectInSeq(Looked(fds[idx].fd), LAMBDA cn : cn.fd = fds[idx].fd) = i
  <2>1. Located(t, i, f)
    BY <1>5
  <2>2. {j \in 1..Len(t) : t[j].fd = f} = {i} /\ Min({i}) = i
    BY <2>1, Found
  <2>3. {j \in 1..Len(Looked(fds[idx].fd)) : Looked(fds[idx].fd)[j].fd = fds[idx].fd} = {i}
    BY <1>3, <1>5, <2>2
  <2> QED
    BY <2>2, <2>3 DEF SelectInSeq
<1>7. PICK u : u = unread[c] /\ u # <<>> /\ u \in Seq(Chunk)
  BY <1>1, <1>2, <1>3, <1>4, Types
<1>8. PICK cn \in ConnRec : cn = t[i] /\ cn.fd = f
  BY <1>5 DEF Located
<1>9. /\ i \in DOMAIN conns => cn = conns[i] /\ cn.handshake
      /\ i \notin DOMAIN conns => ~HasConn(f) /\ cn = NewConn(f)
  BY <1>1, <1>5, <1>8 DEF Located, Table
<1>10. Tail(u) \in Seq(Chunk)
  BY <1>7
<1>11. CASE BadMsg(t)
  BY <1>1, <1>3, <1>5, <1>11, ConnBadMsg
<1>12. CASE ~cn.full /\ ~cn.handshake /\ Head(u) = "handshake"
            /\ conns' = [t EXCEPT ![i].handshake = TRUE]
            /\ unread' = [unread EXCEPT ![c] = Tail(u)]
            /\ UNCHANGED <<sock, fds, inbox, last, dropped>>
  <2>1. ~HasConn(f) /\ ~cn.datalen
    BY <1>9, <1>12 DEF NewConn
  <2>2. PICK d : d = [cn EXCEPT !.handshake = TRUE]
    OBVIOUS
  <2>3. /\ d \in ConnRec /\ d.fd = f /\ d.handshake /\ ~d.datalen /\ ~d.full
    BY <1>8, <1>12, <2>1, <2>2 DEF ConnRec
  <2>4. Stores(c, t, i, d, Tail(u))
    BY <1>5, <1>8, <1>12, <2>2 DEF Stores, Located
  <2>5. c \in clean => Midway(d, cst[c], Tail(u), key[c])
    <3> SUFFICES ASSUME c \in clean PROVE Midway(d, cst[c], Tail(u), key[c])
      OBVIOUS
    <3>1. Fresh(cst[c], u)
      BY <1>1, <1>4, <1>7, <2>1 DEF Requests
    <3>2. u \in {<<"handshake", "length">>, <<"handshake", "length", "value">>}
      BY <1>7, <1>12, <3>1 DEF Fresh, Heads, Whole
    <3>3. cst[c] # "connected"
      BY <1>7, <3>1 DEF Fresh
    <3>4. Tail(u) \in {<<"length">>, <<"length", "value">>}
      BY <3>2, Tails
    <3>5. cst[c] = "head" => Tail(u) = <<"length">>
      <4>1. cst[c] = "head" => u = <<"handshake", "length">>
        BY <1>12, <3>1, <3>2 DEF Fresh, Heads
      <4> QED
        BY <4>1, Tails
    <3> QED
      BY <2>3, <3>3, <3>4, <3>5 DEF Midway
  <2>6. Reads(c, t, i, d, Tail(u))
    BY <1>1, <1>3, <1>4, <1>5, <1>10, <2>3, <2>5 DEF Reads
  <2>7. PICK m : m = last'[c] /\ Told(c, d, m)
    BY <2>3 DEF Told
  <2>8. /\ inbox' \in [Clients -> Seq({"0", "1"})]
        /\ last' \in [Clients -> [byte : {"none", "0", "1"}, value : Values \cup {None}]]
        /\ \A e \in Clients : e # c => last'[e] = last[e]
        /\ UNCHANGED <<sock, fds, dropped>>
    BY <1>1, <1>12, Types
  <2> QED
    BY <1>1, <2>4, <2>6, <2>7, <2>8, ConnAdvance
<1>13. ASSUME cn.handshake, c \in clean
       PROVE  Midway(cn, cst[c], u, key[c])
  <2>1. i \in DOMAIN conns /\ cn = conns[i]
    BY <1>9, <1>13 DEF NewConn
  <2> QED
    BY <1>1, <1>4, <1>7, <1>8, <1>13, <2>1 DEF Requests
<1>14. CASE ~cn.full /\ cn.handshake /\ ~cn.datalen
            /\ ReadValue(t, i, [cn EXCEPT !.datalen = TRUE],
                         IF Head(u) = "length" THEN Tail(u) ELSE u)
  <2>1. PICK d : d = [cn EXCEPT !.datalen = TRUE]
    OBVIOUS
  <2>2. d \in ConnRec /\ d.fd = f /\ d.handshake /\ d.datalen /\ ~d.full
    BY <1>8, <1>14, <2>1 DEF ConnRec
  <2>3. PICK w : w = IF Head(u) = "length" THEN Tail(u) ELSE u
    OBVIOUS
  <2>4. w \in Seq(Chunk)
    BY <1>7, <1>10, <2>3
  <2>5. c \in clean => Midway(d, cst[c], w, key[c])
    <3> SUFFICES ASSUME c \in clean PROVE Midway(d, cst[c], w, key[c])
      OBVIOUS
    <3>1. Midway(cn, cst[c], u, key[c])
      BY <1>13, <1>14
    <3>2. /\ cst[c] # "connected" /\ u \in {<<"length">>, <<"length", "value">>}
          /\ cst[c] = "head" => u = <<"length">>
      BY <1>14, <3>1 DEF Midway
    <3>3. w = Tail(u)
      BY <2>3, <3>2
    <3>4. /\ w \in {<<>>, <<"value">>}
          /\ u = <<"length">> => w = <<>>
      BY <3>2, <3>3, Tails
    <3> QED
      BY <2>2, <3>2, <3>4 DEF Midway
  <2>6. Reads(c, t, i, d, w)
    BY <1>1, <1>3, <1>4, <1>5, <2>2, <2>4, <2>5 DEF Reads
  <2>7. ReadValue(t, i, d, w)
    BY <1>14, <2>1, <2>3
  <2> QED
    BY <1>1, <2>2, <2>6, <2>7, ConnReadValue
<1>15. CASE ~cn.full /\ cn.handshake /\ cn.datalen /\ ReadValue(t, i, cn, u)
  <2>1. Reads(c, t, i, cn, u)
    BY <1>1, <1>3, <1>4, <1>5, <1>7, <1>8, <1>13, <1>15 DEF Reads
  <2> QED
    BY <1>1, <1>15, <2>1, ConnReadValue
<1> QED
  <2>1. PICK k : k = SelectInSeq(Looked(fds[idx].fd), LAMBDA e : e.fd = fds[idx].fd)
    OBVIOUS
  <2>2. Handles(Looked(fds[idx].fd), k, Looked(fds[idx].fd)[k], unread[Served], Served)
    BY <2>1 DEF Input, Handles
  <2>3. Handles(t, i, cn, u, c)
    BY <1>3, <1>4, <1>5, <1>6, <1>7, <1>8, <2>1, <2>2
  <2> QED
    BY <1>11, <1>12, <1>14, <1>15, <2>3 DEF Handles

\* r has the entries of s that are not marked, each descriptor once
Keeps(r, s) ==
    /\ \A k \in DOMAIN r : \E i \in DOMAIN s : r[k] = s[i] /\ s[i].fd # 0
    /\ \A i \in DOMAIN s : s[i].fd # 0 => \E k \in DOMAIN r : r[k] = s[i]
    /\ \A k, l \in DOMAIN r : r[k].fd = r[l].fd => k = l

\* So it is with what do_compact leaves of a table that had each once.
LEMMA CompactedOnce ==
    ASSUME NEW M, NEW s \in Seq(M),
           \A i, j \in DOMAIN s : s[i].fd = s[j].fd /\ s[i].fd # 0 => i = j
    PROVE  Compacted(s) \in Seq(M) /\ Keeps(Compacted(s), s)
BY CompactedKeeps DEF Keeps

\* do_compact: the entries left have each descriptor once, so the tables are
\* again no longer than there are clients.
LEMMA ConnCompact ==
    ASSUME ConnInv, Compact
    PROVE  ConnInv'
<1>1. TypeOK /\ Attachment /\ PollSet /\ Table /\ Requests /\ pc = "conns"
  BY DEF ConnInv, Compact
<1>2. /\ UNCHANGED <<idx, incoming, sock, backlog, unread, inbox, cst, key, avail, changes, last,
                     clean, dropped>>
      /\ pc' = "poll"
  BY DEF Compact, history
<1>3. fds \in Seq(PollRec) /\ conns \in Seq(ConnRec) /\ N \in Nat /\ Cardinality(Fd) = N
  BY <1>1, Types, FdCount
<1>4. /\ fds' \in Seq(PollRec)
      /\ \A k \in DOMAIN fds' : \E i \in DOMAIN fds : fds'[k] = fds[i] /\ fds[i].fd # 0
      /\ \A i \in DOMAIN fds : fds[i].fd # 0 => \E k \in DOMAIN fds' : fds'[k] = fds[i]
      /\ \A k, l \in DOMAIN fds' : fds'[k].fd = fds'[l].fd => k = l
  <2>1. fds' = Compacted(fds)
    BY DEF Compact
  <2>2. \A i, j \in DOMAIN fds : fds[i].fd = fds[j].fd /\ fds[i].fd # 0 => i = j
    BY <1>1 DEF PollSet, FdsMatch
  <2>3. Compacted(fds) \in Seq(PollRec) /\ Keeps(Compacted(fds), fds)
    BY <1>3, <2>2, CompactedOnce
  <2>4. PICK r : r = fds' /\ r \in Seq(PollRec) /\ Keeps(r, fds)
    BY <2>1, <2>3
  <2> QED
    BY <2>4 DEF Keeps
<1>5. /\ conns' \in Seq(ConnRec)
      /\ \A k \in DOMAIN conns' : \E i \in DOMAIN conns : conns'[k] = conns[i] /\ conns[i].fd # 0
      /\ \A i \in DOMAIN conns : conns[i].fd # 0 => \E k \in DOMAIN conns' : conns'[k] = conns[i]
      /\ \A k, l \in DOMAIN conns' : conns'[k].fd = conns'[l].fd => k = l
  <2>1. conns' = Compacted(conns)
    BY DEF Compact
  <2>2. \A i, j \in DOMAIN conns : conns[i].fd = conns[j].fd /\ conns[i].fd # 0 => i = j
    BY <1>1 DEF Table, ConnPerFd
  <2>3. Compacted(conns) \in Seq(ConnRec) /\ Keeps(Compacted(conns), conns)
    BY <1>3, <2>2, CompactedOnce
  <2>4. PICK r : r = conns' /\ r \in Seq(ConnRec) /\ Keeps(r, conns)
    BY <2>1, <2>3
  <2> QED
    BY <2>4 DEF Keeps
<1>6. Len(fds') <= N
  <2>1. \A k \in DOMAIN fds' : fds'[k].fd \in Fd
    BY <1>1, <1>4, Types DEF PollRec
  <2> QED
    BY <1>4, <2>1, FewEntries
<1>7. Len(conns') <= N
  <2>1. \A k \in DOMAIN conns' : conns'[k].fd \in Fd
    BY <1>1, <1>5, Types DEF ConnRec
  <2> QED
    BY <1>5, <2>1, FewEntries
<1>8. TypeOK'
  <2>1. Len(conns') \in Nat
    BY <1>5
  <2>2. Len(conns') <= 2 * Cardinality(Fd)
    BY <1>3, <1>7, <2>1
  <2> QED
    BY <1>1, <1>2, <1>4, <1>5, <2>2 DEF TypeOK, PollRec
<1>9. Attachment'
  BY <1>1, <1>2 DEF Attachment
<1>10. PollSet'
  <2>1. {fds'[k].fd : k \in DOMAIN fds'} \ {0} = {fds[i].fd : i \in DOMAIN fds} \ {0}
    <3>1. ASSUME NEW x, x \in {fds'[k].fd : k \in DOMAIN fds'} \ {0}
          PROVE  x \in {fds[i].fd : i \in DOMAIN fds} \ {0}
      BY <1>4, <3>1
    <3>2. ASSUME NEW x, x \in {fds[i].fd : i \in DOMAIN fds} \ {0}
          PROVE  x \in {fds'[k].fd : k \in DOMAIN fds'} \ {0}
      BY <1>4, <3>2
    <3> QED
      BY <3>1, <3>2
  <2>2. FdsMatch'
    BY <1>1, <1>2, <1>4, <2>1 DEF PollSet, FdsMatch, Open
  <2>3. \A k \in DOMAIN fds' : fds'[k].fd # 0
    BY <1>4
  <2> QED
    BY <1>2, <1>6, <2>2, <2>3 DEF PollSet, Pending
<1>11. Table'
  <2>1. \A k \in DOMAIN conns' : conns'[k].handshake /\ (conns'[k].full => conns'[k].datalen)
    BY <1>1, <1>5 DEF Table
  <2> QED
    BY <1>2, <1>5, <1>7, <2>1 DEF Table, ConnPerFd
<1>12. Requests'
  <2>1. ASSUME NEW f \in Fd, ~HasConn(f)'
        PROVE  ~HasConn(f)
    BY <1>5, <2>1, FdCount DEF HasConn
  <2>2. ASSUME NEW f \in Fd, NEW k \in DOMAIN conns', sock[f] \in clean, conns'[k].fd = f
        PROVE  /\ Midway(conns'[k], cst[sock[f]], unread[sock[f]], key[sock[f]])
               /\ conns'[k].full => last[sock[f]] = News(avail, key[sock[f]])
    <3>1. PICK i \in DOMAIN conns : conns'[k] = conns[i]
      BY <1>5
    <3> QED
      BY <1>1, <2>2, <3>1 DEF Requests
  <2> QED
    BY <1>1, <1>2, <2>1, <2>2 DEF Requests
<1> QED
  BY <1>8, <1>9, <1>10, <1>11, <1>12 DEF ConnInv

-----------------------------------------------------------------------------
(* The specification *)

\* Every step keeps the invariant.
LEMMA ConnNext == ConnInv /\ [Next]_vars => ConnInv'
<1> SUFFICES ASSUME ConnInv, [Next]_vars PROVE ConnInv'
  OBVIOUS
<1>1. ASSUME NEW c \in Clients, NEW v \in Values, Connect(c, v)
      PROVE  ConnInv'
  BY <1>1, ConnConnect
<1>2. ASSUME NEW c \in Clients, Client(c) \/ Kill(c)
      PROVE  ConnInv'
  BY <1>2, ConnWriteHead, ConnWriteValue, ConnClientOther DEF Client
<1>3. CASE Loop
  BY <1>3, ConnPoll, ConnAccept, ConnSteps, ConnHangUp, ConnInput, ConnCompact DEF Loop
<1>4. CASE Quit
  BY <1>4, ConnQuit
<1>5. ASSUME NEW v \in Values, Device(v)
      PROVE  ConnInv'
  BY <1>5, ConnDevice
<1>6. CASE UNCHANGED vars
  BY <1>6 DEF vars, server, history, ConnInv, TypeOK, Attachment, PollSet, FdsMatch, Pending,
              Table, ConnPerFd, Requests, HasConn, Open
<1> QED
  BY <1>1, <1>2, <1>3, <1>4, <1>5, <1>6 DEF Next

\* The invariant holds of every behaviour.
LEMMA ConnInvariance == Spec => []ConnInv
BY ConnInit, ConnNext, PTL DEF Spec

\* Type correctness: in particular conns never outgrows two entries a
\* descriptor, although do_compact runs only at the end of a turn.
THEOREM ConnTypeCorrect == Spec => []TypeOK
<1>1. ConnInv => TypeOK
  BY DEF ConnInv
<1> QED
  BY <1>1, ConnInvariance, PTL

\* The poll set has exactly the open descriptors, each once, whichever of
\* write_conn, POLLHUP and bad_msg closed the others.
THEOREM PollSetExact == Spec => []FdsMatch
<1>1. ConnInv => FdsMatch
  BY DEF ConnInv, PollSet
<1> QED
  BY <1>1, ConnInvariance, PTL

\* No descriptor has two entries of conns, even one that was reused while an
\* entry of its past was left (POLLHUP), so bad_msg erases the entry it means.
THEOREM OneConnectionPerFd == Spec => []ConnPerFd
<1>1. ConnInv => ConnPerFd
  BY DEF ConnInv, Table
<1> QED
  BY <1>1, ConnInvariance, PTL

\* A watcher on a descriptor without a past has been told the present state of
\* what it watches: no change falls between lookup and broadcast.
THEOREM WatchersUpToDate == Spec => []WatcherCurrent
<1>1. ASSUME ConnInv
      PROVE  WatcherCurrent
  <2>1. TypeOK /\ Requests
    BY <1>1 DEF ConnInv
  <2> SUFFICES ASSUME NEW c \in clean, NEW i \in DOMAIN conns,
                      conns[i].full, Open(conns[i].fd), sock[conns[i].fd] = c
               PROVE  last[c] = News(avail, key[c])
    BY DEF WatcherCurrent, News
  <2>2. conns[i].fd \in Fd
    BY <2>1, Types DEF ConnRec, Open
  <2> QED
    BY <2>1, <2>2 DEF Requests
<1> QED
  BY <1>1, ConnInvariance, PTL

=============================================================================
