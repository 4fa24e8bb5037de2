---------------------------- MODULE DevmonConns -----------------------------
(***************************************************************************)
(* The event loop of devmon with its client connections (main, write_conn  *)
(* and write_gen in src/early/helpers/devmon.cc), and the clients          *)
(* (src/early/helpers/devclient.cc), one per device service.               *)
(*                                                                         *)
(* A turn of the loop polls, accepts, lets udev and dinit change what is   *)
(* available (DevmonMaps and DevmonDevice say how; each change is          *)
(* broadcast to the watchers), serves the connections in the order of fds  *)
(* by the revents that poll reported, and compacts.  Clients and the       *)
(* kernel go on meanwhile.  A file descriptor is the lowest free number.   *)
(***************************************************************************)
EXTENDS Naturals, FiniteSets, SequencesExt

CONSTANTS
    Clients,     \* the runs of devclient
    Values,      \* what they may watch
    None,        \* no client, no value
    Garbled,     \* a value put together from bytes of two clients
    DirtyStack,  \* TRUE: the unset bytes of devclient's wz may be non-zero
    MaxChanges   \* bound: broadcasts and restarts in a behaviour

ASSUME ConnsAssumption ==
    /\ IsFiniteSet(Clients)
    /\ None \notin Clients \cup Values /\ Garbled \notin Values /\ None # Garbled
    /\ DirtyStack \in BOOLEAN
    /\ MaxChanges \in Nat

VARIABLES
    pc, idx,     \* where the loop is, and at which of fds
    incoming,    \* poll saw the control socket ready
    fds,         \* the connections' part of the poll set
    conns,       \* connections being established, and established
    sock,        \* kernel: the client behind a descriptor of devmon
    backlog,     \* kernel: connections not yet accepted
    unread,      \* kernel: what each client wrote and devmon has not read
    inbox,       \* kernel: bytes on their way to each client
    cst, key,    \* devclient: how far it is, what it watches
    avail,       \* values that are available
    changes,     \* how many of the MaxChanges have happened
    last,        \* history: the last byte written to a client, and for which value
    clean,       \* history: clients whose descriptor no entry of conns had
    dropped      \* history: clients that devmon disconnected

server == <<pc, idx, incoming, fds, conns>>
history == <<last, clean, dropped>>
vars == <<server, sock, backlog, unread, inbox, cst, key, avail, changes, history>>

-----------------------------------------------------------------------------
Fd == 1..Cardinality(Clients)

\* devclient: before connect, connected, after the first write, after the
\* second, readiness signalled, exited
ClientState == {"idle", "connected", "head", "watching", "ready", "gone"}

\* What a client writes: wz holds the handshake and the length
Chunk == {"handshake", "bad", "length", "value", "junk"}

ConnRec == [fd : Fd \cup {0}, handshake : BOOLEAN, datalen : BOOLEAN,
            full : BOOLEAN, value : Values \cup {None, Garbled}]

NewConn(f) == [fd |-> f, handshake |-> FALSE, datalen |-> FALSE,
               full |-> FALSE, value |-> None]

Alive(c) == cst[c] \notin {"idle", "gone"}
Open(f) == f # 0 /\ sock[f] # None
Attached(c) == c \in Range(backlog) \/ \E f \in Fd : sock[f] = c

-----------------------------------------------------------------------------
(* devclient *)

clientFrame == <<server, sock, avail, changes, history>>

Connect(c, v) ==
    /\ cst[c] = "idle"
    /\ cst' = [cst EXCEPT ![c] = "connected"]
    /\ key' = [key EXCEPT ![c] = v]
    /\ backlog' = Append(backlog, c)
    /\ UNCHANGED <<clientFrame, unread, inbox>>

\* The first write: wz, whose bytes after the type were never set
WriteHead(c) ==
    /\ cst[c] = "connected" /\ Attached(c)
    /\ \E h \in {"handshake"} \cup (IF DirtyStack THEN {"bad"} ELSE {}) :
          unread' = [unread EXCEPT ![c] = @ \o <<h, "length">>]
    /\ cst' = [cst EXCEPT ![c] = "head"]
    /\ UNCHANGED <<clientFrame, key, backlog, inbox>>

WriteValue(c) ==
    /\ cst[c] = "head" /\ Attached(c)
    /\ unread' = [unread EXCEPT ![c] = Append(@, "value")]
    /\ cst' = [cst EXCEPT ![c] = "watching"]
    /\ UNCHANGED <<clientFrame, key, backlog, inbox>>

\* The read loop: the first 1 signals readiness, a 0 after that is the end.
\* (Mutant: the 0 is ignored.)
ReadByte_IgnoresZero(c) ==
    /\ cst[c] \in {"watching", "ready"} /\ inbox[c] # <<>>
    /\ inbox' = [inbox EXCEPT ![c] = Tail(@)]
    /\ cst' = [cst EXCEPT ![c] = IF Head(inbox[c]) = "1" THEN "ready" ELSE @]
    /\ UNCHANGED <<clientFrame, key, backlog, unread>>
ReadByte(c) ==
    /\ cst[c] \in {"watching", "ready"} /\ inbox[c] # <<>>
    /\ inbox' = [inbox EXCEPT ![c] = Tail(@)]
    /\ cst' = [cst EXCEPT ![c] =
                  IF Head(inbox[c]) = "1" THEN "ready"
                  ELSE IF @ = "ready" THEN "gone" ELSE @]
    /\ UNCHANGED <<clientFrame, key, backlog, unread>>

\* A write or a read fails, devmon having closed: exit with an error
ClientError(c) ==
    /\ Alive(c) /\ ~Attached(c)
    /\ cst[c] \in {"watching", "ready"} => inbox[c] = <<>>
    /\ cst' = [cst EXCEPT ![c] = "gone"]
    /\ UNCHANGED <<clientFrame, key, backlog, unread, inbox>>

\* dinit stops the device service
Kill(c) ==
    /\ Alive(c)
    /\ cst' = [cst EXCEPT ![c] = "gone"]
    /\ UNCHANGED <<clientFrame, key, backlog, unread, inbox>>

-----------------------------------------------------------------------------
(* The loop: poll, accept, devices *)

Hup(f) == Open(f) /\ cst[sock[f]] = "gone"
In(f) == Open(f) /\ (unread[sock[f]] # <<>> \/ Hup(f))

\* poll returns with what is ready, a udev or dinit event included
Poll ==
    /\ pc = "poll"
    /\ \/ changes < MaxChanges \/ backlog # <<>>
       \/ \E i \in DOMAIN fds : In(fds[i].fd)
    /\ fds' = [i \in DOMAIN fds |->
                  [fds[i] EXCEPT !.in = In(fds[i].fd), !.hup = Hup(fds[i].fd)]]
    /\ incoming' = (backlog # <<>>)
    /\ pc' = "accept"
    /\ UNCHANGED <<idx, conns, sock, backlog, unread, inbox, cst, key, avail,
                   changes, history>>

\* accept4, until it would block.  The kernel hands out the lowest descriptor.
Accept ==
    /\ pc = "accept" /\ incoming /\ backlog # <<>>
    /\ LET c == Head(backlog)
           f == CHOOSE g \in Fd : ~Open(g) /\ \A h \in Fd : h < g => Open(h)
       IN  /\ sock' = [sock EXCEPT ![f] = c]
           /\ fds' = Append(fds, [fd |-> f, in |-> FALSE, hup |-> FALSE])
           /\ clean' = IF \E i \in DOMAIN conns : conns[i].fd = f
                       THEN clean ELSE clean \cup {c}
    /\ backlog' = Tail(backlog)
    /\ UNCHANGED <<pc, idx, incoming, conns, unread, inbox, cst, key, avail,
                   changes, last, dropped>>

AcceptDone ==
    /\ pc = "accept" /\ (incoming => backlog = <<>>)
    /\ pc' = "devices"
    /\ UNCHANGED <<idx, incoming, fds, conns, sock, backlog, unread, inbox, cst,
                   key, avail, changes, history>>

\* write_conn on every entry of I: a byte for value v, or, when the write
\* fails, the descriptor is closed and the entries are marked.  (Mutant: the
\* entry of fds is not marked.)
write_conn_KeepsFd(I, b, v) ==
    LET failed == {i \in I : ~(Open(conns[i].fd) /\ Alive(sock[conns[i].fd]))}
        reached == {sock[conns[i].fd] : i \in I \ failed}
        shut == {conns[i].fd : i \in failed}
    IN  /\ inbox' = [c \in Clients |->
                        IF c \in reached THEN Append(inbox[c], b) ELSE inbox[c]]
        /\ last' = [c \in Clients |->
                       IF c \in reached THEN [byte |-> b, value |-> v] ELSE last[c]]
        /\ sock' = [f \in Fd |-> IF f \in shut THEN None ELSE sock[f]]
        /\ conns' = [i \in DOMAIN conns |->
                        IF i \in failed THEN [conns[i] EXCEPT !.fd = 0] ELSE conns[i]]
        /\ UNCHANGED fds
write_conn(I, b, v) ==
    LET failed == {i \in I : ~(Open(conns[i].fd) /\ Alive(sock[conns[i].fd]))}
        reached == {sock[conns[i].fd] : i \in I \ failed}
        shut == {conns[i].fd : i \in failed}
    IN  /\ inbox' = [c \in Clients |->
                        IF c \in reached THEN Append(inbox[c], b) ELSE inbox[c]]
        /\ last' = [c \in Clients |->
                       IF c \in reached THEN [byte |-> b, value |-> v] ELSE last[c]]
        /\ sock' = [f \in Fd |-> IF f \in shut THEN None ELSE sock[f]]
        /\ conns' = [i \in DOMAIN conns |->
                        IF i \in failed THEN [conns[i] EXCEPT !.fd = 0] ELSE conns[i]]
        /\ fds' = [j \in DOMAIN fds |->
                      IF fds[j].fd \in shut
                      THEN [fd |-> 0, in |-> FALSE, hup |-> FALSE] ELSE fds[j]]

\* A device comes or goes: write_gen to the connections that watch it
Device(v) ==
    /\ pc = "devices" /\ changes < MaxChanges
    /\ changes' = changes + 1
    /\ avail' = IF v \in avail THEN avail \ {v} ELSE avail \cup {v}
    /\ write_conn({i \in DOMAIN conns : conns[i].full /\ conns[i].value = v},
                  IF v \in avail THEN "0" ELSE "1", v)
    /\ UNCHANGED <<pc, idx, incoming, backlog, unread, cst, key, clean, dropped>>

DevicesDone ==
    /\ pc = "devices"
    /\ pc' = "conns" /\ idx' = 1
    /\ UNCHANGED <<incoming, fds, conns, sock, backlog, unread, inbox, cst, key,
                   avail, changes, history>>

-----------------------------------------------------------------------------
(* The loop: connections *)

Turn == pc = "conns" /\ idx \in DOMAIN fds
loopFrame == <<pc, incoming, backlog, cst, key, avail, changes, clean>>

\* Nothing reported for this descriptor
Quiet ==
    /\ Turn /\ ~fds[idx].in /\ ~fds[idx].hup
    /\ idx' = idx + 1
    /\ UNCHANGED <<loopFrame, fds, conns, sock, unread, inbox, last, dropped>>

CloseFd ==
    /\ sock' = [sock EXCEPT ![fds[idx].fd] = None]
    /\ fds' = [fds EXCEPT ![idx] = [fd |-> 0, in |-> FALSE, hup |-> FALSE]]

\* POLLHUP: `goto bad_msg` with nc not looked up yet
HangUp ==
    /\ Turn /\ fds[idx].hup
    /\ CloseFd
    /\ idx' = idx + 1
    /\ UNCHANGED <<loopFrame, conns, unread, inbox, last, dropped>>

Served == sock[fds[idx].fd]
HasConn(f) == \E i \in DOMAIN conns : conns[i].fd = f

\* The connection looked up, or made.  (Mutant: always made.)
Looked_AlwaysNew(f) == Append(conns, NewConn(f))
Looked(f) == IF HasConn(f) THEN conns ELSE Append(conns, NewConn(f))

\* bad_msg with nc set: its entry of cs is erased, the descriptor closed
BadMsg(cs) ==
    /\ conns' = RemoveFirstMatch(cs, LAMBDA cn : cn.fd = fds[idx].fd)
    /\ CloseFd
    /\ dropped' = IF Alive(Served) THEN dropped \cup {Served} ELSE dropped
    /\ UNCHANGED <<unread, inbox, last>>

\* The reply to a request that is complete, or not: if the write fails, bad_msg.
\* (Mutant: no reply until something changes.)
Reply_Silent(cs, i, cn, rest, b, v) ==
    IF Alive(Served)
    THEN /\ conns' = [cs EXCEPT ![i] = cn]
         /\ unread' = [unread EXCEPT ![Served] = rest]
         /\ UNCHANGED <<inbox, last, sock, fds, dropped>>
    ELSE BadMsg(cs)
Reply(cs, i, cn, rest, b, v) ==
    IF Alive(Served)
    THEN /\ conns' = [cs EXCEPT ![i] = cn]
         /\ unread' = [unread EXCEPT ![Served] = rest]
         /\ inbox' = [inbox EXCEPT ![Served] = Append(@, b)]
         /\ last' = [last EXCEPT ![Served] = [byte |-> b, value |-> v]]
         /\ UNCHANGED <<sock, fds, dropped>>
    ELSE BadMsg(cs)

\* datastr: nothing there yet is answered by a 0, an end of file is bad_msg,
\* the value completes it.  The bytes of another client's request garble it.
ReadValue(cs, i, cn, u) ==
    \/ /\ u = <<>> /\ Alive(Served)
       /\ Reply(cs, i, cn, <<>>, "0", None)
    \/ /\ u = <<>> /\ ~Alive(Served)
       /\ BadMsg(cs)
    \/ /\ u = <<"value">>
       /\ LET v == key[Served]
          IN  Reply(cs, i, [cn EXCEPT !.full = TRUE, !.value = v], <<>>,
                    IF v \in avail THEN "1" ELSE "0", v)
    \/ /\ u # <<>> /\ u # <<"value">>
       /\ \E full \in BOOLEAN, rest \in {<<>>, <<"junk">>} :
             /\ ~full => rest = <<>>
             /\ Reply(cs, i, [cn EXCEPT !.full = full, !.value = Garbled], rest,
                      "0", None)

\* POLLIN
Input ==
    /\ Turn /\ fds[idx].in /\ ~fds[idx].hup
    /\ idx' = idx + 1
    /\ LET f == fds[idx].fd
           cs == Looked(f)
           i == SelectInSeq(cs, LAMBDA cn : cn.fd = f)
           cn == cs[i]
           u == unread[Served]
       IN \/ /\ cn.full
             /\ BadMsg(cs)
          \/ /\ ~cn.full /\ ~cn.handshake
             /\ IF Head(u) = "handshake"
                THEN /\ conns' = [cs EXCEPT ![i].handshake = TRUE]
                     /\ unread' = [unread EXCEPT ![Served] = Tail(u)]
                     /\ UNCHANGED <<sock, fds, inbox, last, dropped>>
                ELSE BadMsg(cs)
          \/ /\ ~cn.full /\ cn.handshake /\ ~cn.datalen
             /\ ReadValue(cs, i, [cn EXCEPT !.datalen = TRUE],
                          IF Head(u) = "length" THEN Tail(u) ELSE u)
          \/ /\ ~cn.full /\ cn.handshake /\ cn.datalen
             /\ ReadValue(cs, i, cn, u)
    /\ UNCHANGED loopFrame

\* The elements of a finite set of numbers, from the least to the greatest
Ascending(I) ==
    CHOOSE g \in [1..Cardinality(I) -> I] : \A a, b \in DOMAIN g : a < b => g[a] < g[b]

\* do_compact: what is marked is erased, the rest keeps its order
Compacted(s) ==
    LET g == Ascending({i \in DOMAIN s : s[i].fd # 0})
    IN  [k \in DOMAIN g |-> s[g[k]]]
Compact ==
    /\ pc = "conns" /\ idx > Len(fds)
    /\ fds' = Compacted(fds) /\ conns' = Compacted(conns)
    /\ pc' = "poll"
    /\ UNCHANGED <<idx, incoming, sock, backlog, unread, inbox, cst, key, avail,
                   changes, history>>

\* SIGTERM, or an error of poll, udev or dinit: the process ends, and dinit
\* starts another (smooth-recovery).  What the clients had sent is lost with
\* their connections; what was sent to them is not.  (A signal is noticed just
\* before the accepts, to the same effect.)
Quit ==
    /\ pc = "devices" /\ changes < MaxChanges
    /\ changes' = changes + 1
    /\ pc' = "poll" /\ idx' = 1 /\ incoming' = FALSE
    /\ fds' = <<>> /\ conns' = <<>>
    /\ sock' = [f \in Fd |-> None] /\ backlog' = <<>>
    /\ unread' = [c \in Clients |-> <<>>]
    /\ UNCHANGED <<inbox, cst, key, avail, history>>

-----------------------------------------------------------------------------
Init ==
    /\ pc = "poll" /\ idx = 1 /\ incoming = FALSE
    /\ fds = <<>> /\ conns = <<>>
    /\ sock = [f \in Fd |-> None]
    /\ backlog = <<>>
    /\ unread = [c \in Clients |-> <<>>]
    /\ inbox = [c \in Clients |-> <<>>]
    /\ cst = [c \in Clients |-> "idle"]
    /\ key = [c \in Clients |-> None]
    /\ avail = {}
    /\ changes = 0
    /\ last = [c \in Clients |-> [byte |-> "none", value |-> None]]
    /\ clean = {} /\ dropped = {}

Client(c) == WriteHead(c) \/ WriteValue(c) \/ ReadByte(c) \/ ClientError(c)
Loop == Poll \/ Accept \/ AcceptDone \/ DevicesDone \/ Quiet \/ HangUp \/ Input
        \/ Compact

Next ==
    \/ \E c \in Clients, v \in Values : Connect(c, v)
    \/ \E c \in Clients : Client(c) \/ Kill(c)
    \/ Loop \/ Quit
    \/ \E v \in Values : Device(v)

\* The loop runs, a client that runs does its next step; nobody must connect,
\* be killed, come or go.
Fairness == WF_vars(Loop) /\ \A c \in Clients : WF_vars(Client(c))

Spec == Init /\ [][Next]_vars /\ Fairness

-----------------------------------------------------------------------------
(* Properties *)

\* Type correctness, and conns does not grow beyond two entries a descriptor.
TypeOK ==
    /\ pc \in {"poll", "accept", "devices", "conns"}
    /\ idx \in 1..(Cardinality(Clients) + 1) /\ incoming \in BOOLEAN
    /\ fds \in Seq([fd : Fd \cup {0}, in : BOOLEAN, hup : BOOLEAN])
    /\ conns \in Seq(ConnRec) /\ Len(conns) <= 2 * Cardinality(Fd)
    /\ sock \in [Fd -> Clients \cup {None}]
    /\ backlog \in Seq(Clients)
    /\ unread \in [Clients -> Seq(Chunk)] /\ inbox \in [Clients -> Seq({"0", "1"})]
    /\ cst \in [Clients -> ClientState] /\ key \in [Clients -> Values \cup {None}]
    /\ avail \subseteq Values /\ changes \in 0..MaxChanges
    /\ last \in [Clients -> [byte : {"none", "0", "1"}, value : Values \cup {None}]]
    /\ clean \subseteq Clients /\ dropped \subseteq Clients

\* The poll set has exactly the open descriptors, each once, whichever of
\* write_conn, POLLHUP and bad_msg closed the others: no connection is leaked
\* and none that was closed is polled.
FdsMatch ==
    /\ {f \in Fd : Open(f)} = {fds[i].fd : i \in DOMAIN fds} \ {0}
    /\ \A i, j \in DOMAIN fds : fds[i].fd = fds[j].fd /\ fds[i].fd # 0 => i = j

\* No descriptor has two entries of conns, even when it was reused, so bad_msg
\* erases the entry it means.
ConnPerFd ==
    \A i, j \in DOMAIN conns : conns[i].fd = conns[j].fd /\ conns[i].fd # 0 => i = j

\* A watcher on a descriptor without a past has been told the present state of
\* what it watches, whatever raced: no change falls between lookup and broadcast.
WatcherCurrent ==
    \A c \in clean, i \in DOMAIN conns :
        conns[i].full /\ Open(conns[i].fd) /\ sock[conns[i].fd] = c =>
            last[c] = [byte |-> IF key[c] \in avail THEN "1" ELSE "0",
                       value |-> key[c]]

\* A client that has written its request and is not killed is answered or
\* disconnected: it never waits for a loop that has forgotten it.  On a
\* descriptor without a past the answer is about the key it asked for, not only
\* the 0 that it gets while its value has not arrived.
RequestsAnswered ==
    \A c \in Clients :
        (cst[c] = "watching") ~>
            \/ last[c].byte # "none" /\ (c \in clean => last[c].value = key[c])
            \/ cst[c] = "gone"

\* A device service whose device stays away goes down: its client, on a
\* descriptor without a past, exits unless the device comes back.
GoneIsNoticed ==
    \A c \in Clients :
        (cst[c] = "ready" /\ c \in clean /\ key[c] \notin avail)
           ~> (cst[c] = "gone" \/ key[c] \in avail)

-----------------------------------------------------------------------------
(* What the comments say, and the code does not do *)

\* devmon.cc:12: "the server will respond at least once, provided the handshake
\* is not malformed", and never terminates an established connection.
RespondsOnce == \A c \in dropped : last[c].byte # "none"

=============================================================================
