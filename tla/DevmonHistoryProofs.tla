------------------------ MODULE DevmonHistoryProofs -------------------------
(***************************************************************************)
(* What the rounds of DevmonDevice achieve, for any devices and services:  *)
(* they implement DeviceRounds, an idle device has told its clients the    *)
(* truth and is attached to `system` as it should be, "available" waits    *)
(* for the listed services, and no service handle leaks.  All of it rests  *)
(* on the accounts of DevmonDeviceProofs: the end of a round is known from *)
(* the counts alone.                                                       *)
(***************************************************************************)
EXTENDS DevmonDeviceProofs

-----------------------------------------------------------------------------
(* Which callback may run when *)

\* What the head of the queue says about its device's round: the round is
\* running, and it is in the phase that the callback belongs to.
LEMMA Driven ==
    ASSUME IInv, inn # <<>>, NEW m, m = Head(inn)
    PROVE  /\ m \in Message /\ m.d \in Devices /\ dev[m.d] \in DeviceRec
           /\ m.rem \in BOOLEAN
           /\ m.op \in SubOps => m.s \in Services
           /\ m.op = "load_dev" =>
                /\ dev[m.d].processing /\ dev[m.d].pending_svcs = 0
                /\ InFlight("load_dev", m.d) = 1 /\ InFlight("dep_sys", m.d) = 0
           /\ m.op = "dep_sys" =>
                /\ dev[m.d].processing /\ dev[m.d].pending_svcs = 0
                /\ InFlight("load_dev", m.d) = 0 /\ InFlight("dep_sys", m.d) = 1
           /\ \/ m.op = "load_sub"
              \/ m.op = "event" /\ <<m.d, m.s>> \in map_svcdev
              => /\ dev[m.d].processing /\ dev[m.d].pending_svcs > 0
                 /\ InFlight("load_dev", m.d) = 0 /\ InFlight("dep_sys", m.d) = 0
<1>1. Inv /\ TypeOK /\ Named /\ inn \in Seq(Message)
  BY DEF IInv, Inv, TypeOK
<1>2. /\ m \in Message /\ m.d \in Devices /\ m.rem \in BOOLEAN
      /\ m.op \in SubOps => m.s \in Services
  BY <1>1, HeadProper DEF Named
<1>3. dev[m.d] \in DeviceRec
  BY <1>1, <1>2 DEF TypeOK
<1> DEFINE r == dev[m.d]
           ld == InFlight("load_dev", m.d)
           ds == InFlight("dep_sys", m.d)
           ls == InFlight("load_sub", m.d)
           w == Cardinality(Watched(m.d))
<1>4. RoundOK(r, ld, ds, ls, w)
  BY <1>1, <1>2 DEF Inv, Acct
<1>5. ld \in Nat /\ ds \in Nat /\ ls \in Nat /\ w \in Nat /\ r.pending_svcs \in Nat
  BY <1>1, <1>3, TotalType, WatchedType DEF InFlight, DeviceRec
<1>6. ASSUME NEW op \in Ops, m.op = op PROVE InFlight(op, m.d) > 0
  <2>1. m \in Kind(op, m.d)
    BY <1>2, <1>6, KindMember
  <2>2. Num(inn, Kind(op, m.d)) = Num(Tail(inn), Kind(op, m.d)) + 1
    BY <1>1, <2>1, NumTail
  <2>3. /\ Num(Tail(inn), Kind(op, m.d)) \in Nat /\ Num(out, Kind(op, m.d)) \in Nat
    BY <1>1, HeadTailProperties, NumType DEF TypeOK
  <2> QED
    BY <2>2, <2>3 DEF InFlight, Total
<1>7. m.op = "event" /\ <<m.d, m.s>> \in map_svcdev => w > 0
  <2> SUFFICES ASSUME <<m.d, m.s>> \in map_svcdev PROVE w > 0
    OBVIOUS
  <2>1. m.s \in Watched(m.d)
    BY <1>1 DEF TypeOK, Watched
  <2>2. w # 0
    BY <2>1, WatchedType, FS_EmptySet
  <2> QED
    BY <1>5, <2>2
<1>8. /\ m.op = "load_dev" => ld > 0
      /\ m.op = "dep_sys" => ds > 0
      /\ m.op = "load_sub" => ls > 0
  BY <1>6 DEF Ops
<1> HIDE DEF r, ld, ds, ls, w
<1>9. /\ ld > 0 => r.processing /\ r.pending_svcs = 0 /\ ld = 1 /\ ds = 0
      /\ ds > 0 => r.processing /\ r.pending_svcs = 0 /\ ld = 0 /\ ds = 1
      /\ ls > 0 \/ w > 0 => r.processing /\ r.pending_svcs > 0 /\ ld = 0 /\ ds = 0
  BY <1>4, <1>5 DEF RoundOK, Busy
<1> QED
  BY <1>2, <1>3, <1>7, <1>8, <1>9 DEF r, ld, ds

-----------------------------------------------------------------------------
(* The steps, as far as the flags of the objects and the clients see them *)

SameFlags(q, r) ==
    /\ q.removed = r.removed /\ q.processing = r.processing
    /\ q.removal = r.removal /\ q.pending = r.pending
    /\ q.has_tag = r.has_tag /\ q.named = r.named

\* Nothing that is about the rounds
Quiet ==
    /\ map_sys' = map_sys /\ told' = told
    /\ dev' \in [Devices -> DeviceRec]
    /\ \A e \in Devices : SameFlags(dev'[e], dev[e])

\* device::process, called by a callback at the end of a round
Ends(d) ==
    /\ dev[d].processing /\ map_sys' = map_sys
    /\ \E q \in DeviceRec :
          /\ SameFlags(q, dev[d])
          /\ dev' = [dev EXCEPT ![d] = process(q)]
          /\ told' = [told EXCEPT ![d] = ready(told[d], q, processByte(q))]

\* One service less to wait for changes no flag, and no set.
LEMMA DecrementFlags ==
    ASSUME NEW r \in DeviceRec, r.pending_svcs > 0
    PROVE  LET q == [r EXCEPT !.pending_svcs = @ - 1]
           IN  /\ q \in DeviceRec /\ SameFlags(q, r) /\ q.psvcset = r.psvcset
               /\ q.nsvcset = r.nsvcset /\ q.dsvcset = r.dsvcset
               /\ q.pending_svcs = r.pending_svcs - 1
BY DEF DeviceRec, SameFlags

\* A service resolves: the round goes on, or it ends.
LEMMA ResolvedShape ==
    ASSUME IInv, inn # <<>>, NEW m, m = Head(inn), NEW sent,
           \/ m.op = "load_sub"
           \/ m.op = "event" /\ <<m.d, m.s>> \in map_svcdev,
           Resolved(m.d, Decremented(m), sent), map_sys' = map_sys
    PROVE  Quiet \/ Ends(m.d)
<1> DEFINE q == Decremented(m)
<1>1. /\ m.d \in Devices /\ dev[m.d] \in DeviceRec
      /\ dev[m.d].processing /\ dev[m.d].pending_svcs > 0
  BY Driven
<1>2. dev \in [Devices -> DeviceRec]
  BY DEF IInv, Inv, TypeOK
<1>3. q \in DeviceRec /\ SameFlags(q, dev[m.d])
  BY <1>1, DecrementFlags DEF Decremented
<1> HIDE DEF q
<1>4. Resolved(m.d, q, sent)
  BY DEF q
<1>5. CASE q.pending_svcs = 0
  <2>1. /\ dev' = [dev EXCEPT ![m.d] = process(q)]
        /\ told' = [told EXCEPT ![m.d] = ready(told[m.d], q, processByte(q))]
    BY <1>4, <1>5 DEF Resolved, ProcessStep
  <2> QED
    BY <1>1, <1>3, <2>1 DEF Ends
<1>6. CASE q.pending_svcs # 0
  <2>1. dev' = [dev EXCEPT ![m.d] = q] /\ told' = told
    BY <1>4, <1>6 DEF Resolved
  <2>2. dev' \in [Devices -> DeviceRec]
    BY <1>1, <1>2, <1>3, <2>1
  <2>3. \A e \in Devices : SameFlags(dev'[e], dev[e])
    BY <1>1, <1>2, <1>3, <2>1 DEF SameFlags
  <2> QED
    BY <2>1, <2>2, <2>3 DEF Quiet
<1> QED
  BY <1>5, <1>6

\* The objects as they were.
LEMMA SameQuiet ==
    ASSUME IInv, map_sys' = map_sys, told' = told, dev' = dev
    PROVE  Quiet
BY DEF Quiet, SameFlags, IInv, Inv, TypeOK

\* A callback changes no flag of a device, or ends the round of one.
LEMMA DispatchShape ==
    ASSUME IInv, Dispatch
    PROVE  Quiet \/ \E d \in Devices : Ends(d)
<1> DEFINE m == Head(inn)
<1>1. inn # <<>>
  BY DEF Dispatch
<1>2. m.d \in Devices /\ dev[m.d] \in DeviceRec
  BY <1>1, Driven
<1>3. dev \in [Devices -> DeviceRec]
  BY DEF IInv, Inv, TypeOK
<1>4. DevLoaded(m) \/ DevLoadFailed(m) \/ SysDepDone(m)
      \/ SubLoadFailed(m) \/ SubLoadedNoWake(m) \/ SubLoadedWatch(m)
      \/ DepDoneNoWake(m) \/ DepDoneWake(m) \/ EventDone(m) \/ EventIgnored(m)
  BY DEF Dispatch
<1>5. m = Head(inn)
  OBVIOUS
<1> HIDE DEF m
<1>6. ASSUME NEW q \in DeviceRec, SameFlags(q, dev[m.d]),
             dev' = [dev EXCEPT ![m.d] = q], map_sys' = map_sys, told' = told
      PROVE  Quiet
  <2>1. dev' \in [Devices -> DeviceRec]
    BY <1>2, <1>3, <1>6
  <2>2. \A e \in Devices : SameFlags(dev'[e], dev[e])
    BY <1>2, <1>3, <1>6 DEF SameFlags
  <2> QED
    BY <1>6, <2>1, <2>2 DEF Quiet
<1>7. CASE DevLoaded(m)
  <2> DEFINE q == [dev[m.d] EXCEPT !.device_svc = TRUE]
  <2>1. q \in DeviceRec /\ SameFlags(q, dev[m.d])
    BY <1>2 DEF DeviceRec, SameFlags
  <2>2. dev' = [dev EXCEPT ![m.d] = q] /\ map_sys' = map_sys /\ told' = told
    BY <1>7 DEF DevLoaded
  <2> HIDE DEF q
  <2> QED
    BY <1>6, <2>1, <2>2
<1>8. CASE DevLoadFailed(m)
  <2>1. dev[m.d].processing
    BY <1>1, <1>5, <1>8, Driven DEF DevLoadFailed, Arrives
  <2>2. /\ dev' = [dev EXCEPT ![m.d] = process(dev[m.d])]
        /\ told' = [told EXCEPT ![m.d] =
                       ready(told[m.d], dev[m.d], processByte(dev[m.d]))]
        /\ map_sys' = map_sys
    BY <1>8 DEF DevLoadFailed, ProcessStep
  <2>3. SameFlags(dev[m.d], dev[m.d])
    BY DEF SameFlags
  <2>4. Ends(m.d)
    BY <1>2, <2>1, <2>2, <2>3 DEF Ends
  <2> QED
    BY <1>2, <2>4
<1>9. CASE SysDepDone(m)
  <2> DEFINE q == [dev[m.d] EXCEPT !.pending_svcs = RoundSize(dev[m.d])]
  <2>1. /\ Cardinality(dev[m.d].dsvcset) \in Nat
        /\ Cardinality(dev[m.d].psvcset) \in Nat
    <3>1. IsFiniteSet(dev[m.d].dsvcset) /\ IsFiniteSet(dev[m.d].psvcset)
      BY <1>2, DeviceAssumption, FS_Subset DEF DeviceRec
    <3> QED
      BY <3>1, FS_CardinalityType
  <2>2. RoundSize(dev[m.d]) \in Nat
    BY <2>1 DEF RoundSize
  <2>3. q \in DeviceRec /\ SameFlags(q, dev[m.d])
    BY <1>2, <2>2 DEF DeviceRec, SameFlags
  <2>4. dev' = [dev EXCEPT ![m.d] = q] /\ map_sys' = map_sys /\ told' = told
    BY <1>9 DEF SysDepDone
  <2> HIDE DEF q
  <2> QED
    BY <1>6, <2>3, <2>4
<1>10. CASE SubLoadFailed(m)
  <2>1. /\ m.op = "load_sub" /\ Resolved(m.d, Decremented(m), <<>>)
        /\ map_sys' = map_sys
    BY <1>10 DEF SubLoadFailed, Arrives
  <2> QED
    BY <1>1, <1>2, <1>5, <2>1, ResolvedShape
<1>11. CASE SubLoadedNoWake(m)
  <2>1. /\ m.op = "load_sub" /\ map_sys' = map_sys
        /\ Resolved(m.d, Decremented(m),
                    <<Msg("dep_sub", m.d, m.s, m.rem, "nowake")>>)
    BY <1>11 DEF SubLoadedNoWake, Arrives
  <2> QED
    BY <1>1, <1>2, <1>5, <2>1, ResolvedShape
<1>12. CASE EventDone(m)
  <2>1. /\ m.op = "event" /\ <<m.d, m.s>> \in map_svcdev
        /\ Resolved(m.d, Decremented(m), <<>>) /\ map_sys' = map_sys
    BY <1>12 DEF EventDone, Arrives
  <2> QED
    BY <1>1, <1>2, <1>5, <2>1, ResolvedShape
<1>13. CASE SubLoadedWatch(m) \/ DepDoneNoWake(m) \/ DepDoneWake(m)
            \/ EventIgnored(m)
  BY <1>13, SameQuiet
     DEF SubLoadedWatch, DepDoneNoWake, DepDoneWake, EventIgnored, devmonVars
<1> QED
  BY <1>4, <1>7, <1>8, <1>9, <1>10, <1>11, <1>12, <1>13

\* Every step is an event of udev, the end of a round, a restart, or of no
\* account to the rounds.
LEMMA Shape ==
    ASSUME IInv, [Next]_vars
    PROVE  \/ Quiet \/ \E d \in Devices : Ends(d)
           \/ \E d \in Devices : Udev(d)
           \/ Restart
<1>1. CASE Dispatch
  BY <1>1, DispatchShape
<1>2. CASE Serve
  BY <1>2, SameQuiet DEF Serve, devmonVars
<1>3. ASSUME NEW s \in Services, SvcFinish(s) PROVE Quiet
  BY <1>3, SameQuiet DEF SvcFinish, devmonVars
<1>4. ASSUME NEW s \in Services, SvcBegin(s) PROVE Quiet
  BY <1>4, SameQuiet DEF SvcBegin, devmonVars
<1>5. CASE UNCHANGED vars
  BY <1>5, SameQuiet DEF vars, devmonVars
<1> QED
  BY <1>1, <1>2, <1>3, <1>4, <1>5 DEF Next, Input, Reaction

-----------------------------------------------------------------------------
(* An event of udev *)

\* The object r of a device as add_device or remove_device enters it
Entered(r, o, there, tag) ==
    /\ SameRound(r, o) /\ r.removal = o.removal /\ r.pending = o.pending
    /\ r.nsvcset = o.nsvcset
    /\ r.removed = ~there
    /\ r.has_tag <=> (o.has_tag \/ tag)
    /\ r.named <=> (there \/ o.named)

\* ... and as handle_device_dinit leaves it, but for the names
Handled(q, h) ==
    /\ SameRound(q, h) /\ q.removed = h.removed /\ q.removal = h.removal
    /\ q.pending = h.pending /\ q.has_tag = h.has_tag /\ q.nsvcset = h.nsvcset

UdevPost(d, there, tag, svcs, r, q) ==
    /\ there \/ (d \in map_sys /\ ~dev[d].removed)
    /\ Entered(r, dev[d], there, tag)
    /\ HandleEffects(d, r, svcs)
    /\ Handled(q, handle_device_dinit(r, svcs)) /\ q.named = there
    /\ dev' = [dev EXCEPT ![d] = q]
    /\ map_sys' = map_sys \cup {d}
    /\ UNCHANGED <<map_svcdev, inn, handles, sstate, sysdeps, deps>>

\* Of the names, handle_device_dinit changes none.
LEMMA HandleNamed ==
    ASSUME NEW r \in DeviceRec, NEW svcs \in SUBSET Services
    PROVE  handle_device_dinit(r, svcs).named = r.named
BY DEF handle_device_dinit, process, Shuffled, DeviceRec

\* add_device and remove_device differ in what they enter and in the names.
LEMMA UdevShape ==
    ASSUME IInv, NEW d \in Devices, Udev(d)
    PROVE  \E there, tag \in BOOLEAN, svcs \in SUBSET Services, r, q \in DeviceRec :
              UdevPost(d, there, tag, svcs, r, q)
<1>1. dev \in [Devices -> DeviceRec] /\ dev[d] \in DeviceRec
  BY DEF IInv, Inv, TypeOK
<1>2. UNCHANGED <<map_svcdev, inn, handles, sstate, sysdeps, deps>>
  BY DEF Udev, AddDevice, RemoveDevice, dinitVars
<1>3. ASSUME NEW tagged \in BOOLEAN, NEW svcs \in SUBSET Services,
             AddDevice(d, tagged, svcs)
      PROVE  \E r, q \in DeviceRec : UdevPost(d, TRUE, tagged, svcs, r, q)
  <2>1. PICK b \in BOOLEAN : b = (dev[d].has_tag \/ tagged)
    BY <1>1 DEF DeviceRec
  <2> DEFINE r == [dev[d] EXCEPT !.removed = FALSE, !.named = TRUE, !.has_tag = b]
             q == handle_device_dinit(r, svcs)
  <2>2. r \in DeviceRec /\ Entered(r, dev[d], TRUE, tagged) /\ r.named
    BY <1>1, <2>1 DEF DeviceRec, SameRound, Entered
  <2>3. /\ dev' = [dev EXCEPT ![d] = q]
        /\ HandleEffects(d, r, svcs) /\ map_sys' = map_sys \cup {d}
    BY <1>3, <2>1, Zenon DEF AddDevice
  <2> HIDE DEF r
  <2>4. q \in DeviceRec /\ q.named = r.named
    BY <2>2, HandleType, HandleNamed
  <2>5. q.named = TRUE
    BY <2>2, <2>4 DEF DeviceRec
  <2>6. Handled(q, q)
    BY DEF Handled, SameRound
  <2>7. UdevPost(d, TRUE, tagged, svcs, r, q)
    BY <1>2, <2>2, <2>3, <2>5, <2>6 DEF UdevPost
  <2> QED
    BY <2>2, <2>4, <2>7
<1>4. ASSUME NEW tagged \in BOOLEAN, RemoveDevice(d, tagged)
      PROVE  \E r, q \in DeviceRec : UdevPost(d, FALSE, tagged, {}, r, q)
  <2>1. PICK b \in BOOLEAN : b = (dev[d].has_tag \/ tagged)
    BY <1>1 DEF DeviceRec
  <2> DEFINE r == [dev[d] EXCEPT !.removed = TRUE, !.has_tag = b]
             h == handle_device_dinit(r, {})
             q == [h EXCEPT !.named = FALSE]
  <2>2. r \in DeviceRec /\ Entered(r, dev[d], FALSE, tagged)
    BY <1>1, <2>1 DEF DeviceRec, SameRound, Entered
  <2>3. /\ dev' = [dev EXCEPT ![d] = q]
        /\ HandleEffects(d, r, {}) /\ map_sys' = map_sys
        /\ d \in map_sys /\ ~dev[d].removed
    BY <1>4, <2>1, Zenon DEF RemoveDevice
  <2> HIDE DEF r
  <2>4. h \in DeviceRec
    BY <2>2, HandleType
  <2> HIDE DEF h
  <2>5. q \in DeviceRec /\ Handled(q, h) /\ q.named = FALSE
    BY <2>4 DEF DeviceRec, SameRound, Handled
  <2>6. map_sys' = map_sys \cup {d}
    BY <2>3
  <2>7. UdevPost(d, FALSE, tagged, {}, r, q)
    BY <1>2, <2>2, <2>3, <2>5, <2>6 DEF UdevPost, h
  <2> QED
    BY <2>2, <2>5, <2>7
<1> QED
  BY <1>3, <1>4 DEF Udev

\* What handle_device_dinit does to the object, by the state of the round.
LEMMA HandleFlags ==
    ASSUME NEW r \in DeviceRec, NEW svcs \in SUBSET Services
    PROVE  LET h == handle_device_dinit(r, svcs)
           IN  /\ h \in DeviceRec
               /\ h.removed = r.removed /\ h.has_tag = r.has_tag
               /\ ~r.has_tag => h = r
               /\ r.has_tag /\ r.processing =>
                    /\ h.pending /\ h.processing /\ h.removal = r.removal
                    /\ h.nsvcset = svcs /\ h.psvcset = r.psvcset
               /\ r.has_tag /\ ~r.processing =>
                    /\ ~h.pending /\ h.processing /\ h.removal = r.removed
                    /\ h.psvcset = svcs
BY DEF handle_device_dinit, process, Shuffled, DeviceRec

-----------------------------------------------------------------------------
(* What is told, and what the rounds work for *)

Truth(r) == IF r.removed THEN "0" ELSE "1"

\* A round works for the latest event unless one is pending; an idle device
\* has told its clients what the last round was about, and without the tag
\* what the latest event said.
Honest(d) ==
    /\ dev[d].pending => dev[d].processing
    /\ dev[d].processing => dev[d].has_tag
    /\ dev[d].has_tag => d \in map_sys
    /\ dev[d].has_tag /\ ~dev[d].pending => dev[d].removal = dev[d].removed
    /\ dev[d].has_tag /\ ~dev[d].processing => told[d].sys = processByte(dev[d])
    /\ d \in map_sys /\ ~dev[d].has_tag =>
          told[d].sys = Truth(dev[d]) /\ told[d].name = Truth(dev[d])
    /\ d \in map_sys /\ ~dev[d].removed => dev[d].named

\* Steps that leave a device alone.
LEMMA HonestSame ==
    ASSUME NEW d \in Devices, Honest(d), SameFlags(dev'[d], dev[d]),
           told'[d] = told[d], d \in map_sys' <=> d \in map_sys
    PROVE  Honest(d)'
BY DEF Honest, SameFlags, processByte, Truth

\* The end of a round.
LEMMA HonestEnds ==
    ASSUME IInv, NEW d \in Devices, Honest(d), Ends(d)
    PROVE  Honest(d)'
<1>1. /\ dev \in [Devices -> DeviceRec] /\ told \in [Devices -> [sys : Byte, name : Byte]]
  BY DEF IInv, Inv, TypeOK
<1>2. PICK q \in DeviceRec :
          /\ SameFlags(q, dev[d])
          /\ dev' = [dev EXCEPT ![d] = process(q)]
          /\ told' = [told EXCEPT ![d] = ready(told[d], q, processByte(q))]
  BY DEF Ends
<1>3. dev'[d] = process(q) /\ told'[d].sys = processByte(q) /\ map_sys' = map_sys
  BY <1>1, <1>2 DEF ready, Ends
<1>4. /\ process(q).pending = FALSE /\ process(q).processing = q.pending
      /\ process(q).removed = q.removed /\ process(q).has_tag = q.has_tag
      /\ process(q).named = q.named
      /\ process(q).removal = IF q.pending THEN q.removed ELSE q.removal
  BY DEF process, Shuffled, DeviceRec
<1>5. q.pending \in BOOLEAN /\ q.removed \in BOOLEAN /\ q.removal \in BOOLEAN
  BY DEF DeviceRec
<1> QED
  BY <1>2, <1>3, <1>4, <1>5 DEF Honest, Ends, SameFlags, processByte, Truth

\* An event of udev.
LEMMA HonestUdev ==
    ASSUME IInv, NEW d \in Devices, Honest(d), Udev(d)
    PROVE  Honest(d)'
<1>1. /\ dev \in [Devices -> DeviceRec] /\ dev[d] \in DeviceRec
      /\ told \in [Devices -> [sys : Byte, name : Byte]]
  BY DEF IInv, Inv, TypeOK
<1>2. PICK there \in BOOLEAN, tag \in BOOLEAN, svcs \in SUBSET Services,
           r \in DeviceRec, q \in DeviceRec : UdevPost(d, there, tag, svcs, r, q)
  BY UdevShape
<1> DEFINE h == handle_device_dinit(r, svcs)
<1>3. /\ h \in DeviceRec
      /\ h.removed = r.removed /\ h.has_tag = r.has_tag
      /\ ~r.has_tag => h = r
      /\ r.has_tag /\ r.processing =>
           h.pending /\ h.processing /\ h.removal = r.removal
      /\ r.has_tag /\ ~r.processing =>
           ~h.pending /\ h.processing /\ h.removal = r.removed
  BY HandleFlags
<1>4. /\ dev'[d] = q /\ q.named = there /\ d \in map_sys' /\ Handled(q, h)
      /\ Entered(r, dev[d], there, tag)
      /\ there \/ (d \in map_sys /\ ~dev[d].removed)
  BY <1>1, <1>2 DEF UdevPost
<1>5. HandleEffects(d, r, svcs)
  BY <1>2 DEF UdevPost
<1> HIDE DEF h
<1> USE DEF Honest, Handled, Entered, SameRound
<1>6. CASE ~r.has_tag
  <2>1. told' = [told EXCEPT ![d] =
                    ready(told[d], r, IF r.removed THEN "0" ELSE "1")]
    BY <1>5, <1>6 DEF HandleEffects
  <2>2. r.named
    BY <1>1, <1>4 DEF DeviceRec
  <2>3. told'[d].sys = Truth(r) /\ told'[d].name = Truth(r)
    BY <1>1, <2>1, <2>2 DEF ready, Truth
  <2>4. /\ q.removed = r.removed /\ ~q.has_tag /\ ~q.processing /\ ~q.pending
    BY <1>1, <1>3, <1>4, <1>6 DEF DeviceRec
  <2>5. ~q.removed => q.named
    BY <1>4, <2>4
  <2> QED
    BY <1>4, <2>3, <2>4, <2>5 DEF Truth
<1>7. CASE r.has_tag
  <2>1. /\ q.has_tag /\ q.processing /\ q.removed = r.removed
        /\ ~q.pending => q.removal = q.removed
    BY <1>1, <1>3, <1>4, <1>7 DEF DeviceRec
  <2>2. ~q.removed => q.named
    BY <1>4, <2>1
  <2> QED
    BY <1>4, <2>1, <2>2
<1> QED
  BY <1>6, <1>7

\* An event touches the object of its device only.
LEMMA UdevOthers ==
    ASSUME IInv, NEW d \in Devices, Udev(d), NEW e \in Devices, e # d
    PROVE  /\ dev'[e] = dev[e] /\ told'[e] = told[e] /\ ghost'[e] = ghost[e]
           /\ e \in map_sys' <=> e \in map_sys
<1>1. /\ dev \in [Devices -> DeviceRec] /\ ghost \in [Devices -> History]
      /\ told \in [Devices -> [sys : Byte, name : Byte]]
  BY DEF IInv, Inv, TypeOK
<1>2. PICK there \in BOOLEAN, tag \in BOOLEAN, svcs \in SUBSET Services,
           r \in DeviceRec, q \in DeviceRec : UdevPost(d, there, tag, svcs, r, q)
  BY UdevShape
<1>3. dev'[e] = dev[e] /\ (e \in map_sys' <=> e \in map_sys)
  BY <1>1, <1>2 DEF UdevPost
<1>4. told'[e] = told[e] /\ ghost'[e] = ghost[e]
  BY <1>1, <1>2 DEF UdevPost, HandleEffects
<1> QED
  BY <1>3, <1>4

HonestInv == \A d \in Devices : Honest(d)

\* A device object that has just been made.
LEMMA HonestFresh ==
    ASSUME NEW d \in Devices, dev = [e \in Devices |-> NewDevice], map_sys = {}
    PROVE  Honest(d)
BY DEF Honest, NewDevice

\* The first state is honest.
LEMMA HonestInit == Init => HonestInv
BY HonestFresh DEF Init, FreshDevmon, HonestInv

\* Every step keeps the devices honest, case by case of the round.
LEMMA HonestNext == IInv /\ HonestInv /\ [Next]_vars => HonestInv'
<1> SUFFICES ASSUME IInv, HonestInv, [Next]_vars, NEW d \in Devices PROVE Honest(d)'
  BY DEF HonestInv
<1>1. Honest(d)
  BY DEF HonestInv
<1>2. CASE Quiet
  BY <1>1, <1>2, HonestSame DEF Quiet
<1>3. ASSUME NEW e \in Devices, Ends(e) PROVE Honest(d)'
  <2>1. CASE e = d
    BY <1>1, <1>3, <2>1, HonestEnds
  <2>2. CASE e # d
    <3>1. /\ dev \in [Devices -> DeviceRec]
          /\ told \in [Devices -> [sys : Byte, name : Byte]]
      BY DEF IInv, Inv, TypeOK
    <3>2. dev'[d] = dev[d] /\ told'[d] = told[d] /\ map_sys' = map_sys
      BY <1>3, <2>2, <3>1 DEF Ends
    <3>3. SameFlags(dev'[d], dev[d])
      BY <3>2 DEF SameFlags
    <3> QED
      BY <1>1, <3>2, <3>3, HonestSame
  <2> QED
    BY <2>1, <2>2
<1>4. ASSUME NEW e \in Devices, Udev(e) PROVE Honest(d)'
  <2>1. CASE e = d
    BY <1>1, <1>4, <2>1, HonestUdev
  <2>2. CASE e # d
    <3>1. /\ dev'[d] = dev[d] /\ told'[d] = told[d]
          /\ d \in map_sys' <=> d \in map_sys
      BY <1>4, <2>2, UdevOthers
    <3>2. SameFlags(dev'[d], dev[d])
      BY <3>1 DEF SameFlags
    <3> QED
      BY <1>1, <3>1, <3>2, HonestSame
  <2> QED
    BY <2>1, <2>2
<1>5. CASE Restart
  BY <1>5, HonestFresh DEF Restart, Honest, NewDevice
<1> QED
  BY <1>2, <1>3, <1>4, <1>5, Shape

\* Every device is honest at all times.
LEMMA HonestInvariance == Spec => []HonestInv
BY HonestInit, HonestNext, Invariance, PTL DEF Spec

\* The clients of an idle device have been told the truth, whatever came in
\* while its rounds were running (device::ready, device::process): those of the
\* syspath always, those of the node if the device has no tag.
THEOREM ToldTheTruth == Spec => []QuietTruth
<1>1. IInv /\ HonestInv => QuietTruth
  <2> SUFFICES ASSUME IInv, HonestInv, NEW d \in map_sys, ~dev[d].processing
               PROVE  /\ told[d].sys = Truth(dev[d])
                      /\ ~dev[d].has_tag => told[d].name = Truth(dev[d])
    BY DEF QuietTruth, Truth
  <2>1. d \in Devices /\ dev[d] \in DeviceRec
    BY DEF IInv, Inv, TypeOK
  <2>2. Honest(d)
    BY <2>1 DEF HonestInv
  <2> QED
    BY <2>1, <2>2 DEF Honest, Truth, processByte
<1> QED
  BY <1>1, Invariance, HonestInvariance, PTL

-----------------------------------------------------------------------------
(* The refinement of DeviceRounds *)

\* The abstract variables, as Rounds maps them
Present == [d \in Devices |-> ~dev[d].removed]
Tagged  == [d \in Devices |-> dev[d].has_tag]
Running == [d \in Devices |-> dev[d].processing]
Queued  == [d \in Devices |-> dev[d].pending]
Goal    == [d \in Devices |-> ~dev[d].removal]
Told    == [d \in Devices |-> told[d].sys]

AbsType ==
    /\ Present \in [Devices -> BOOLEAN] /\ Tagged \in [Devices -> BOOLEAN]
    /\ Running \in [Devices -> BOOLEAN] /\ Queued \in [Devices -> BOOLEAN]
    /\ Goal \in [Devices -> BOOLEAN] /\ Told \in [Devices -> Byte]

\* Functions that agree but in one place.
LEMMA UpdateAt ==
    ASSUME NEW D, NEW S, NEW f \in [D -> S], NEW g \in [D -> S], NEW d \in D,
           \A e \in D : e # d => g[e] = f[e]
    PROVE  g = [f EXCEPT ![d] = g[d]]
OBVIOUS

\* Functions that agree everywhere.
LEMMA SameFunction ==
    ASSUME NEW D, NEW S, NEW f \in [D -> S], NEW g \in [D -> S],
           \A e \in D : g[e] = f[e]
    PROVE  g = f
OBVIOUS

\* The abstract variables of objects of the right type.
LEMMA AbsTypeOK ==
    ASSUME NEW o \in [Devices -> DeviceRec],
           NEW t \in [Devices -> [sys : Byte, name : Byte]]
    PROVE  /\ [d \in Devices |-> ~o[d].removed] \in [Devices -> BOOLEAN]
           /\ [d \in Devices |-> o[d].has_tag] \in [Devices -> BOOLEAN]
           /\ [d \in Devices |-> o[d].processing] \in [Devices -> BOOLEAN]
           /\ [d \in Devices |-> o[d].pending] \in [Devices -> BOOLEAN]
           /\ [d \in Devices |-> ~o[d].removal] \in [Devices -> BOOLEAN]
           /\ [d \in Devices |-> t[d].sys] \in [Devices -> Byte]
<1>1. \A d \in Devices : o[d].has_tag \in BOOLEAN /\ o[d].processing \in BOOLEAN
                          /\ o[d].pending \in BOOLEAN /\ t[d].sys \in Byte
  BY DEF DeviceRec
<1> QED
  BY <1>1

\* The flags of the objects, as the abstract variables show them.
LEMMA AbsAt ==
    ASSUME NEW d \in Devices
    PROVE  /\ Present[d] = ~dev[d].removed /\ Tagged[d] = dev[d].has_tag
           /\ Running[d] = dev[d].processing /\ Queued[d] = dev[d].pending
           /\ Goal[d] = ~dev[d].removal /\ Told[d] = told[d].sys
BY DEF Present, Tagged, Running, Queued, Goal, Told

\* A step changes the abstract variables of one device.
LEMMA AbsStep ==
    ASSUME TypeOK, TypeOK', NEW d \in Devices,
           \A e \in Devices : e # d => dev'[e] = dev[e] /\ told'[e] = told[e]
    PROVE  /\ Present' = [Present EXCEPT ![d] = ~dev'[d].removed]
           /\ Tagged' = [Tagged EXCEPT ![d] = dev'[d].has_tag]
           /\ Running' = [Running EXCEPT ![d] = dev'[d].processing]
           /\ Queued' = [Queued EXCEPT ![d] = dev'[d].pending]
           /\ Goal' = [Goal EXCEPT ![d] = ~dev'[d].removal]
           /\ Told' = [Told EXCEPT ![d] = told'[d].sys]
<1>1. AbsType /\ AbsType'
  BY AbsTypeOK DEF TypeOK, AbsType, Present, Tagged, Running, Queued, Goal, Told
<1>2. ASSUME NEW e \in Devices
      PROVE  /\ Present'[e] = ~dev'[e].removed /\ Tagged'[e] = dev'[e].has_tag
             /\ Running'[e] = dev'[e].processing /\ Queued'[e] = dev'[e].pending
             /\ Goal'[e] = ~dev'[e].removal /\ Told'[e] = told'[e].sys
  BY DEF Present, Tagged, Running, Queued, Goal, Told
<1>3. \A e \in Devices : e # d =>
         /\ Present'[e] = Present[e] /\ Tagged'[e] = Tagged[e]
         /\ Running'[e] = Running[e] /\ Queued'[e] = Queued[e]
         /\ Goal'[e] = Goal[e] /\ Told'[e] = Told[e]
  BY <1>2, AbsAt
<1>4. Present' = [Present EXCEPT ![d] = Present'[d]]
  BY <1>1, <1>3, UpdateAt DEF AbsType
<1>5. Tagged' = [Tagged EXCEPT ![d] = Tagged'[d]]
  BY <1>1, <1>3, UpdateAt DEF AbsType
<1>6. Running' = [Running EXCEPT ![d] = Running'[d]]
  BY <1>1, <1>3, UpdateAt DEF AbsType
<1>7. Queued' = [Queued EXCEPT ![d] = Queued'[d]]
  BY <1>1, <1>3, UpdateAt DEF AbsType
<1>8. Goal' = [Goal EXCEPT ![d] = Goal'[d]]
  BY <1>1, <1>3, UpdateAt DEF AbsType
<1>9. Told' = [Told EXCEPT ![d] = Told'[d]]
  BY <1>1, <1>3, UpdateAt DEF AbsType
<1> QED
  BY <1>2, <1>4, <1>5, <1>6, <1>7, <1>8, <1>9

\* Steps that leave the flags alone stutter.
LEMMA QuietStutters ==
    ASSUME TypeOK, TypeOK', Quiet
    PROVE  UNCHANGED Rounds!vars
<1>1. AbsType /\ AbsType'
  BY AbsTypeOK DEF TypeOK, AbsType, Present, Tagged, Running, Queued, Goal, Told
<1>2. \A e \in Devices :
         /\ Present'[e] = Present[e] /\ Tagged'[e] = Tagged[e]
         /\ Running'[e] = Running[e] /\ Queued'[e] = Queued[e]
         /\ Goal'[e] = Goal[e] /\ Told'[e] = Told[e]
  BY DEF Quiet, SameFlags, Present, Tagged, Running, Queued, Goal, Told
<1>3. /\ Present' = Present /\ Tagged' = Tagged /\ Running' = Running
      /\ Queued' = Queued /\ Goal' = Goal
  BY <1>1, <1>2, SameFunction DEF AbsType
<1>4. Told' = Told /\ map_sys' = map_sys
  BY <1>1, <1>2, SameFunction DEF AbsType, Quiet
<1> QED
  BY <1>3, <1>4 DEF Rounds!vars, Present, Tagged, Running, Queued, Goal, Told

\* The end of a round is one.
LEMMA EndsRefines ==
    ASSUME TypeOK, TypeOK', NEW d \in Devices, Ends(d)
    PROVE  Rounds!EndRound(d)
<1>1. /\ dev \in [Devices -> DeviceRec]
      /\ told \in [Devices -> [sys : Byte, name : Byte]]
  BY DEF TypeOK
<1>2. PICK q \in DeviceRec :
          /\ SameFlags(q, dev[d])
          /\ dev' = [dev EXCEPT ![d] = process(q)]
          /\ told' = [told EXCEPT ![d] = ready(told[d], q, processByte(q))]
  BY DEF Ends
<1>3. dev'[d] = process(q) /\ told'[d].sys = processByte(q)
  BY <1>1, <1>2 DEF ready
<1>4. \A e \in Devices : e # d => dev'[e] = dev[e] /\ told'[e] = told[e]
  BY <1>1, <1>2
<1>5. /\ process(q).pending = FALSE /\ process(q).processing = q.pending
      /\ process(q).removed = q.removed /\ process(q).has_tag = q.has_tag
      /\ process(q).removal = IF q.pending THEN q.removed ELSE q.removal
  BY DEF process, Shuffled, DeviceRec
<1>6. /\ q.removed = dev[d].removed /\ q.removal = dev[d].removal
      /\ q.pending = dev[d].pending /\ q.has_tag = dev[d].has_tag
  BY <1>2 DEF SameFlags
<1>7. /\ dev[d].pending \in BOOLEAN /\ dev[d].removed \in BOOLEAN
      /\ dev[d].removal \in BOOLEAN /\ dev[d].has_tag \in BOOLEAN
  BY <1>1 DEF DeviceRec
<1>8. /\ Present' = [Present EXCEPT ![d] = ~dev[d].removed]
      /\ Tagged' = [Tagged EXCEPT ![d] = dev[d].has_tag]
      /\ Running' = [Running EXCEPT ![d] = dev[d].pending]
      /\ Queued' = [Queued EXCEPT ![d] = FALSE]
      /\ Goal' = [Goal EXCEPT ![d] = ~(IF dev[d].pending THEN dev[d].removed
                                       ELSE dev[d].removal)]
      /\ Told' = [Told EXCEPT ![d] = processByte(q)]
  BY <1>3, <1>4, <1>5, <1>6, AbsStep
<1>9. AbsType
  BY AbsTypeOK DEF TypeOK, AbsType, Present, Tagged, Running, Queued, Goal, Told
<1>10. /\ Present[d] = ~dev[d].removed /\ Tagged[d] = dev[d].has_tag
       /\ Running[d] = dev[d].processing /\ Queued[d] = dev[d].pending
       /\ Goal[d] = ~dev[d].removal /\ Told[d] = told[d].sys
  BY AbsAt
<1>11. Present' = Present /\ Tagged' = Tagged /\ map_sys' = map_sys
  BY <1>8, <1>9, <1>10 DEF AbsType, Ends
<1>12. Running[d]
  BY <1>10 DEF Ends
<1>13. Told' = [Told EXCEPT ![d] = Rounds!ByteOf(Goal[d])]
  BY <1>6, <1>7, <1>8, <1>10 DEF processByte, Rounds!ByteOf
<1>14. Goal' = [Goal EXCEPT ![d] = IF Queued[d] THEN Present[d] ELSE Goal[d]]
  BY <1>7, <1>8, <1>10
<1>15. Running' = [Running EXCEPT ![d] = Queued[d]]
  BY <1>8, <1>10
<1>16. Queued' = [Queued EXCEPT ![d] = FALSE]
  BY <1>8
<1> QED
  BY <1>11, <1>12, <1>13, <1>14, <1>15, <1>16
     DEF Rounds!EndRound, Present, Tagged, Running, Queued, Goal, Told

\* An event of udev is passed on, begins a round or is queued.
LEMMA UdevRefines ==
    ASSUME IInv, TypeOK', HonestInv, NEW d \in Devices, Udev(d)
    PROVE  \E there, tag \in BOOLEAN :
              \/ Rounds!Forward(d, there, tag) \/ Rounds!Begin(d, there, tag)
              \/ Rounds!Queue(d, there, tag)
<1>1. /\ TypeOK /\ dev \in [Devices -> DeviceRec] /\ dev[d] \in DeviceRec
      /\ told \in [Devices -> [sys : Byte, name : Byte]]
  BY DEF IInv, Inv, TypeOK
<1>2. PICK there \in BOOLEAN, tag \in BOOLEAN, svcs \in SUBSET Services,
           r \in DeviceRec, q \in DeviceRec : UdevPost(d, there, tag, svcs, r, q)
  BY UdevShape
<1> DEFINE h == handle_device_dinit(r, svcs)
           o == dev[d]
<1>3. /\ h \in DeviceRec
      /\ h.removed = r.removed /\ h.has_tag = r.has_tag
      /\ ~r.has_tag => h = r
      /\ r.has_tag /\ r.processing =>
           h.pending /\ h.processing /\ h.removal = r.removal
      /\ r.has_tag /\ ~r.processing =>
           ~h.pending /\ h.processing /\ h.removal = r.removed
  BY HandleFlags
<1>4. /\ dev'[d] = q /\ map_sys' = map_sys \cup {d}
      /\ q.removed = h.removed /\ q.has_tag = h.has_tag /\ q.removal = h.removal
      /\ q.pending = h.pending /\ q.processing = h.processing
      /\ r.removed = ~there /\ r.has_tag = (o.has_tag \/ tag)
      /\ r.processing = o.processing /\ r.removal = o.removal
      /\ r.pending = o.pending
      /\ there \/ (d \in map_sys /\ ~o.removed)
  BY <1>1, <1>2 DEF UdevPost, Handled, Entered, SameRound, DeviceRec
<1>5. \A e \in Devices : e # d => dev'[e] = dev[e] /\ told'[e] = told[e]
  BY UdevOthers
<1>6. HandleEffects(d, r, svcs)
  BY <1>2 DEF UdevPost
<1> HIDE DEF h
<1>7. /\ r.has_tag \in BOOLEAN /\ r.removed \in BOOLEAN /\ r.processing \in BOOLEAN
      /\ r.removal \in BOOLEAN /\ r.pending \in BOOLEAN
      /\ q.has_tag \in BOOLEAN /\ q.removed \in BOOLEAN /\ q.processing \in BOOLEAN
      /\ q.removal \in BOOLEAN /\ q.pending \in BOOLEAN
  BY DEF DeviceRec
<1>8. /\ Present' = [Present EXCEPT ![d] = ~q.removed]
      /\ Tagged' = [Tagged EXCEPT ![d] = q.has_tag]
      /\ Running' = [Running EXCEPT ![d] = q.processing]
      /\ Queued' = [Queued EXCEPT ![d] = q.pending]
      /\ Goal' = [Goal EXCEPT ![d] = ~q.removal]
      /\ Told' = [Told EXCEPT ![d] = told'[d].sys]
  BY <1>1, <1>4, <1>5, AbsStep
<1>9. AbsType
  BY <1>1, AbsTypeOK DEF AbsType, Present, Tagged, Running, Queued, Goal, Told
<1>10. /\ Present[d] = ~o.removed /\ Tagged[d] = o.has_tag
       /\ Running[d] = o.processing /\ Queued[d] = o.pending
       /\ Goal[d] = ~o.removal /\ Told[d] = told[d].sys
  BY AbsAt
<1>11. o.pending => o.processing
  BY DEF HonestInv, Honest
<1> HIDE DEF o
<1>12. Rounds!Seen(d, there, tag)
  <2>1. Present' = [Present EXCEPT ![d] = there]
    BY <1>3, <1>4, <1>7, <1>8
  <2>2. Tagged' = [Tagged EXCEPT ![d] = Tagged[d] \/ tag]
    BY <1>3, <1>4, <1>7, <1>8, <1>10
  <2>3. there \/ (d \in map_sys /\ Present[d])
    BY <1>4, <1>10
  <2> QED
    BY <1>4, <2>1, <2>2, <2>3 DEF Rounds!Seen, Present, Tagged
<1>13. Tagged'[d] = r.has_tag
  BY <1>3, <1>4, <1>7, <1>8, <1>9 DEF AbsType
<1>14. CASE ~r.has_tag
  <2>1. told'[d].sys = IF r.removed THEN "0" ELSE "1"
    BY <1>1, <1>6, <1>14 DEF HandleEffects, ready
  <2>2. Told' = [Told EXCEPT ![d] = Rounds!ByteOf(there)]
    BY <1>4, <1>7, <1>8, <2>1 DEF Rounds!ByteOf
  <2>3. Running' = Running /\ Queued' = Queued /\ Goal' = Goal
    BY <1>3, <1>4, <1>7, <1>8, <1>9, <1>10, <1>14 DEF AbsType
  <2>4. Rounds!Forward(d, there, tag)
    BY <1>12, <1>13, <1>14, <2>2, <2>3
       DEF Rounds!Forward, Tagged, Running, Queued, Goal, Told
  <2> QED
    BY <2>4
<1>15. CASE r.has_tag /\ r.processing
  <2>1. told' = told
    BY <1>6, <1>15 DEF HandleEffects
  <2>2. Told' = Told
    BY <1>8, <1>9, <1>10, <2>1 DEF AbsType
  <2>3. Running' = Running /\ Goal' = Goal
    BY <1>3, <1>4, <1>7, <1>8, <1>9, <1>10, <1>15 DEF AbsType
  <2>4. Queued' = [Queued EXCEPT ![d] = TRUE] /\ Running[d]
    BY <1>3, <1>4, <1>7, <1>8, <1>10, <1>15
  <2>5. Rounds!Queue(d, there, tag)
    BY <1>12, <1>13, <1>15, <2>2, <2>3, <2>4
       DEF Rounds!Queue, Tagged, Running, Queued, Goal, Told
  <2> QED
    BY <2>5
<1>16. CASE r.has_tag /\ ~r.processing
  <2>1. told'[d].sys = processByte(r)
    BY <1>1, <1>6, <1>16 DEF HandleEffects, ready
  <2>2. Told' = [Told EXCEPT ![d] = Rounds!ByteOf(Goal[d])]
    BY <1>4, <1>7, <1>8, <1>10, <2>1 DEF Rounds!ByteOf, processByte
  <2>3. Running' = [Running EXCEPT ![d] = TRUE] /\ ~Running[d]
    BY <1>3, <1>4, <1>7, <1>8, <1>10, <1>16
  <2>4. Goal' = [Goal EXCEPT ![d] = there]
    BY <1>3, <1>4, <1>7, <1>8, <1>16
  <2>5. Queued' = Queued
    BY <1>3, <1>4, <1>7, <1>8, <1>9, <1>10, <1>11, <1>16 DEF AbsType
  <2>6. Rounds!Begin(d, there, tag)
    BY <1>12, <1>13, <1>16, <2>2, <2>3, <2>4, <2>5
       DEF Rounds!Begin, Tagged, Running, Queued, Goal, Told
  <2> QED
    BY <2>6
<1> QED
  BY <1>14, <1>15, <1>16

\* devmon anew is the abstract specification anew.
LEMMA FreshRefines ==
    /\ Init => Rounds!Init
    /\ Restart => Rounds!Forget
<1>1. ASSUME Init PROVE Rounds!Init
  BY <1>1 DEF Init, FreshDevmon, NewDevice, Rounds!Init
<1>2. ASSUME Restart PROVE Rounds!Forget
  BY <1>2 DEF Restart, NewDevice, Rounds!Forget
<1> QED
  BY <1>1, <1>2

\* devmon implements DeviceRounds: whatever dinit answers and whenever udev
\* speaks, the rounds of a device do not overlap, no event is lost and the
\* last one decides (handle_device_dinit, device::process and the callbacks
\* that end a round).
THEOREM RoundsCoalesce == Spec => Coalesces
<1>1. IInv /\ IInv' /\ HonestInv /\ [Next]_vars => [Rounds!Next]_Rounds!vars
  <2> SUFFICES ASSUME IInv, IInv', HonestInv, [Next]_vars
               PROVE  Rounds!Next \/ UNCHANGED Rounds!vars
    OBVIOUS
  <2>1. TypeOK /\ TypeOK'
    BY DEF IInv, Inv
  <2>2. CASE Quiet
    BY <2>1, <2>2, QuietStutters
  <2>3. ASSUME NEW d \in Devices, Ends(d) PROVE Rounds!Next
    BY <2>1, <2>3, EndsRefines DEF Rounds!Next
  <2>4. ASSUME NEW d \in Devices, Udev(d) PROVE Rounds!Next
    BY <2>1, <2>4, UdevRefines DEF Rounds!Next
  <2>5. CASE Restart
    BY <2>5, FreshRefines DEF Rounds!Next
  <2> QED
    BY <2>2, <2>3, <2>4, <2>5, Shape
<1> QED
  BY <1>1, FreshRefines, Invariance, HonestInvariance, PTL
     DEF Spec, Coalesces, Rounds!Spec

-----------------------------------------------------------------------------
(* The messages that matter to the rounds of one device *)

\* Loads, the attachment to `system`, and requests whose reply closes a handle
Lane(e) == {m \in Message :
               /\ m.d = e
               /\ m.op \in Tracked \/ (m.op = "dep_sub" /\ m.arg = "nowake")}

\* A step that is of no account to device e
Untouched(e) ==
    /\ dev'[e] = dev[e] /\ ghost'[e] = ghost[e]
    /\ e \in sysdeps' <=> e \in sysdeps
    /\ \A s \in Services : <<e, s>> \in map_svcdev' <=> <<e, s>> \in map_svcdev
    /\ \A s \in Services, b \in BOOLEAN : <<e, s, b>> \in handles' <=> <<e, s, b>> \in handles
    /\ \A K \in SUBSET Lane(e) : Num(out', K) = Num(out, K) /\ Num(inn', K) = Num(inn, K)

\* The counts of the two queues after a callback.
LEMMA DispatchNum ==
    ASSUME TypeOK, inn # <<>>, inn' = Tail(inn),
           NEW sent \in Seq(Message), out' = out \o sent, NEW K
    PROVE  /\ Num(inn, K) = Num(inn', K) + (IF Head(inn) \in K THEN 1 ELSE 0)
           /\ Num(out', K) = Num(out, K) + Num(sent, K)
           /\ Num(inn, K) \in Nat /\ Num(inn', K) \in Nat
           /\ Num(out, K) \in Nat /\ Num(sent, K) \in Nat
<1>1. inn \in Seq(Message) /\ out \in Seq(Message) /\ Tail(inn) \in Seq(Message)
  BY HeadTailProperties DEF TypeOK
<1>2. Num(inn, K) = Num(Tail(inn), K) + (IF Head(inn) \in K THEN 1 ELSE 0)
  BY <1>1, NumTail
<1>3. Num(out \o sent, K) = Num(out, K) + Num(sent, K)
  BY <1>1, NumConcat
<1>4. /\ Num(inn, K) \in Nat /\ Num(Tail(inn), K) \in Nat
      /\ Num(out, K) \in Nat /\ Num(sent, K) \in Nat
  BY <1>1, NumType
<1> QED
  BY <1>2, <1>3, <1>4

\* ... and after an answer of dinit.
LEMMA AnswerNum ==
    ASSUME TypeOK, out # <<>>, out' = Tail(out), NEW g \in Message,
           inn' = Append(inn, g), NEW K
    PROVE  /\ Num(out, K) = Num(out', K) + (IF Head(out) \in K THEN 1 ELSE 0)
           /\ Num(inn', K) = Num(inn, K) + (IF g \in K THEN 1 ELSE 0)
           /\ Num(inn, K) \in Nat /\ Num(out', K) \in Nat /\ Num(out, K) \in Nat
<1>1. inn \in Seq(Message) /\ out \in Seq(Message) /\ Tail(out) \in Seq(Message)
  BY HeadTailProperties DEF TypeOK
<1>2. Num(out, K) = Num(Tail(out), K) + (IF Head(out) \in K THEN 1 ELSE 0)
  BY <1>1, NumTail
<1>3. Num(Append(inn, g), K) = Num(inn, K) + (IF g \in K THEN 1 ELSE 0)
  BY <1>1, NumAppend
<1>4. Num(inn, K) \in Nat /\ Num(Tail(out), K) \in Nat /\ Num(out, K) \in Nat
  BY <1>1, NumType
<1> QED
  BY <1>2, <1>3, <1>4

\* What Resolved() sends: what it is given, and the load that starts the next
\* round if this one ends with an event pending.
LEMMA ResolvedSends ==
    ASSUME TypeOK, NEW d \in Devices, NEW q \in DeviceRec,
           NEW sent \in Seq(Message), Resolved(d, q, sent)
    PROVE  \E full \in Seq(Message) :
              /\ out' = out \o full
              /\ full = IF q.pending_svcs = 0 THEN sent \o processRequest(d, q)
                        ELSE sent
<1>1. out \in Seq(Message) /\ processRequest(d, q) \in Seq(Message)
  BY ProcessRequestType DEF TypeOK
<1>2. CASE q.pending_svcs = 0
  <2> DEFINE pr == processRequest(d, q)
  <2>1. out' = (out \o sent) \o pr
    BY <1>2 DEF Resolved, ProcessStep
  <2> HIDE DEF pr
  <2>2. sent \o pr \in Seq(Message) /\ (out \o sent) \o pr = out \o (sent \o pr)
    BY <1>1, ConcatTwo DEF pr
  <2>3. out' = out \o (sent \o pr)
    BY <2>1, <2>2, Zenon
  <2> QED
    BY <1>2, <2>2, <2>3, Zenon DEF pr
<1>3. CASE q.pending_svcs # 0
  BY <1>3 DEF Resolved
<1> QED
  BY <1>2, <1>3

\* The one message of processRequest.
LEMMA RequestOnly ==
    ASSUME NEW r \in DeviceRec, NEW d \in Devices
    PROVE  /\ processRequest(d, r) \in Seq(Message)
           /\ \A i \in DOMAIN processRequest(d, r) :
                 /\ r.pending /\ processRequest(d, r)[i].d = d
                 /\ processRequest(d, r)[i].op = "load_dev"
<1>1. processRequest(d, r) \in Seq(Message)
  BY ProcessRequestType
<1>2. CASE r.pending
  <2> DEFINE g == Msg("load_dev", d, NoService, r.removed, "")
  <2>1. processRequest(d, r) = <<g>>
    BY <1>2 DEF processRequest
  <2>2. g.d = d /\ g.op = "load_dev"
    BY DEF Msg
  <2> HIDE DEF g
  <2> QED
    BY <1>1, <1>2, <2>1, <2>2
<1>3. CASE ~r.pending
  <2>1. processRequest(d, r) = <<>>
    BY <1>3 DEF processRequest
  <2> QED
    BY <1>1, <2>1
<1> QED
  BY <1>2, <1>3

\* Where the messages of two batches come from.
LEMMA ConcatMembers ==
    ASSUME NEW M, NEW q \in Seq(M), NEW r \in Seq(M), NEW i \in DOMAIN (q \o r)
    PROVE  \/ \E j \in DOMAIN q : (q \o r)[i] = q[j]
           \/ \E j \in DOMAIN r : (q \o r)[i] = r[j]
<1>1. /\ Len(q) \in Nat /\ DOMAIN q = 1..Len(q)
      /\ Len(r) \in Nat /\ DOMAIN r = 1..Len(r)
      /\ DOMAIN (q \o r) = 1..(Len(q) + Len(r))
  BY LenProperties, ConcatProperties
<1>2. CASE i <= Len(q)
  BY <1>1, <1>2
<1>3. CASE i > Len(q)
  <2>1. i - Len(q) \in DOMAIN r /\ (q \o r)[i] = r[i - Len(q)]
    BY <1>1, <1>3
  <2> QED
    BY <2>1
<1> QED
  BY <1>1, <1>2, <1>3

\* A callback sends only about the device of the message it consumed.
LEMMA DispatchSends ==
    ASSUME IInv, Dispatch, NEW m, m = Head(inn)
    PROVE  \E sent \in Seq(Message) :
              /\ out' = out \o sent
              /\ \A i \in DOMAIN sent : sent[i].d = m.d
<1>1. inn # <<>> /\ TypeOK
  BY DEF Dispatch, IInv, Inv
<1>2. /\ m \in Message /\ m.d \in Devices /\ dev[m.d] \in DeviceRec
      /\ m.rem \in BOOLEAN
      /\ m.op \in SubOps => m.s \in Services
  BY <1>1, Driven
<1>3. DevLoaded(m) \/ DevLoadFailed(m) \/ SysDepDone(m)
      \/ SubLoadFailed(m) \/ SubLoadedNoWake(m) \/ SubLoadedWatch(m)
      \/ DepDoneNoWake(m) \/ DepDoneWake(m) \/ EventDone(m) \/ EventIgnored(m)
  BY DEF Dispatch
<1>4. /\ <<>> \in Seq(Message) /\ \A i \in DOMAIN <<>> : <<>>[i].d = m.d
      /\ out \in Seq(Message) /\ out = out \o <<>>
  <2>1. DOMAIN <<>> = {}
    OBVIOUS
  <2>2. out \in Seq(Message) /\ out = out \o <<>>
    BY <1>1, ConcatSimplifications DEF TypeOK
  <2> QED
    BY <2>1, <2>2
<1>5. ASSUME NEW op \in Ops, NEW s \in Services \cup {NoService},
             NEW rem \in BOOLEAN, NEW a \in Args,
             out' = Append(out, Msg(op, m.d, s, rem, a))
      PROVE  \E sent \in Seq(Message) :
                /\ out' = out \o sent
                /\ \A i \in DOMAIN sent : sent[i].d = m.d
  <2> DEFINE g == Msg(op, m.d, s, rem, a)
  <2>1. g \in Message /\ g.d = m.d
    BY <1>2, MsgType
  <2> HIDE DEF g
  <2>2. out' = out \o <<g>> /\ <<g>> \in Seq(Message)
    BY <1>4, <1>5, <2>1, AppendIsConcat DEF g
  <2>3. \A i \in DOMAIN <<g>> : <<g>>[i].d = m.d
    BY <2>1
  <2> QED
    BY <2>2, <2>3, Zenon
<1>6. ASSUME NEW q \in DeviceRec, NEW sent \in Seq(Message),
             \A i \in DOMAIN sent : sent[i].d = m.d,
             Resolved(m.d, q, sent)
      PROVE  \E full \in Seq(Message) :
                /\ out' = out \o full
                /\ \A i \in DOMAIN full : full[i].d = m.d
  <2>1. PICK full \in Seq(Message) :
              /\ out' = out \o full
              /\ full = IF q.pending_svcs = 0 THEN sent \o processRequest(m.d, q)
                        ELSE sent
    BY <1>1, <1>2, <1>6, ResolvedSends
  <2>2. \A i \in DOMAIN full : full[i].d = m.d
    <3>1. CASE q.pending_svcs # 0
      BY <1>6, <2>1, <3>1
    <3>2. CASE q.pending_svcs = 0
      <4> TAKE i \in DOMAIN full
      <4> DEFINE pr == processRequest(m.d, q)
      <4>1. full = sent \o pr
        BY <2>1, <3>2
      <4>2. pr \in Seq(Message) /\ \A j \in DOMAIN pr : pr[j].d = m.d
        BY <1>2, RequestOnly
      <4> HIDE DEF pr
      <4>3. \/ \E j \in DOMAIN sent : full[i] = sent[j]
            \/ \E j \in DOMAIN pr : full[i] = pr[j]
        BY <4>1, <4>2, ConcatMembers, SMTT(60)
      <4> QED
        BY <1>6, <4>2, <4>3
    <3> QED
      BY <3>1, <3>2
  <2> QED
    BY <2>1, <2>2
<1>7. CASE DevLoaded(m)
  <2>1. dev[m.d].removal \in BOOLEAN /\ "dep_sys" \in Ops /\ "" \in Args
    BY <1>2 DEF DeviceRec, Ops, Args
  <2>2. out' = Append(out, Msg("dep_sys", m.d, NoService, dev[m.d].removal, ""))
    BY <1>7 DEF DevLoaded
  <2> QED
    BY <1>5, <2>1, <2>2
<1>8. CASE DevLoadFailed(m)
  <2> DEFINE pr == processRequest(m.d, dev[m.d])
  <2>1. out' = (out \o <<>>) \o pr
    BY <1>8 DEF DevLoadFailed, ProcessStep
  <2>2. pr \in Seq(Message) /\ \A j \in DOMAIN pr : pr[j].d = m.d
    BY <1>2, RequestOnly
  <2> HIDE DEF pr
  <2>3. out' = out \o pr
    BY <1>4, <2>1
  <2> QED
    BY <2>2, <2>3
<1>9. CASE SysDepDone(m)
  <2> DEFINE r == dev[m.d]
  <2>1. PICK b \in Orders(r.dsvcset), c \in Orders(r.psvcset) :
           out' = (out \o [i \in DOMAIN b |-> LoadSub(m.d, b[i], TRUE)])
                       \o [i \in DOMAIN c |-> LoadSub(m.d, c[i], FALSE)]
    BY <1>9 DEF SysDepDone
  <2> DEFINE B == [i \in DOMAIN b |-> LoadSub(m.d, b[i], TRUE)]
             C == [i \in DOMAIN c |-> LoadSub(m.d, c[i], FALSE)]
  <2>2. /\ IsFiniteSet(r.dsvcset) /\ IsFiniteSet(r.psvcset)
        /\ r.dsvcset \in SUBSET Services /\ r.psvcset \in SUBSET Services
    BY <1>2, DeviceAssumption, FS_Subset DEF DeviceRec
  <2>3. B \in Seq(Message) /\ C \in Seq(Message)
    <3>1. B \in Seq(Proper) /\ C \in Seq(Proper)
      BY <1>2, <2>2, LoadsProper
    <3>2. LoadsOf(B, r.dsvcset, m.d, TRUE) /\ LoadsOf(C, r.psvcset, m.d, FALSE)
      BY <1>2, <2>2, LoadBatch
    <3> QED
      BY <3>2 DEF LoadsOf
  <2>4. /\ \A i \in DOMAIN B : B[i].d = m.d
        /\ \A i \in DOMAIN C : C[i].d = m.d
    BY DEF LoadSub, Msg
  <2>5. out' = (out \o B) \o C
    BY <2>1
  <2> HIDE DEF B, C
  <2>6. B \o C \in Seq(Message) /\ (out \o B) \o C = out \o (B \o C)
    BY <1>4, <2>3, ConcatTwo, SMTT(60)
  <2>7. out' = out \o (B \o C)
    BY <2>5, <2>6, Zenon
  <2>8. \A i \in DOMAIN (B \o C) : (B \o C)[i].d = m.d
    <3> TAKE i \in DOMAIN (B \o C)
    <3>1. \/ \E j \in DOMAIN B : (B \o C)[i] = B[j]
          \/ \E j \in DOMAIN C : (B \o C)[i] = C[j]
      BY <2>3, ConcatMembers
    <3> QED
      BY <2>4, <3>1
  <2> QED
    BY <2>6, <2>7, <2>8
<1>10. CASE SubLoadFailed(m) \/ EventDone(m)
  <2>1. Resolved(m.d, Decremented(m), <<>>)
    BY <1>10 DEF SubLoadFailed, EventDone
  <2>2. Decremented(m) \in DeviceRec
    BY <1>1, <1>2, <1>10, Driven, DecrementFlags
       DEF Decremented, SubLoadFailed, EventDone, Arrives
  <2> QED
    BY <1>4, <1>6, <2>1, <2>2
<1>11. CASE SubLoadedNoWake(m)
  <2> DEFINE g == Msg("dep_sub", m.d, m.s, m.rem, "nowake")
  <2>1. Resolved(m.d, Decremented(m), <<g>>) /\ m.op = "load_sub"
    BY <1>11 DEF SubLoadedNoWake, Arrives
  <2>2. Decremented(m) \in DeviceRec
    BY <1>1, <1>2, <2>1, Driven, DecrementFlags DEF Decremented
  <2>3. g \in Message /\ g.d = m.d
    <3>1. m.s \in Services /\ "dep_sub" \in Ops /\ "nowake" \in Args
      BY <1>2, <2>1 DEF SubOps, Ops, Args
    <3> QED
      BY <1>2, <3>1, MsgType
  <2> HIDE DEF g
  <2>4. <<g>> \in Seq(Message) /\ \A i \in DOMAIN <<g>> : <<g>>[i].d = m.d
    BY <2>3
  <2> QED
    BY <1>6, <2>1, <2>2, <2>4
<1>12. CASE SubLoadedWatch(m)
  <2>1. m.s \in Services
    BY <1>2, <1>12 DEF SubLoadedWatch, Arrives, SubOps
  <2>2. "dep_sub" \in Ops /\ "wake" \in Args /\ FALSE \in BOOLEAN
    BY DEF Ops, Args
  <2>3. out' = Append(out, Msg("dep_sub", m.d, m.s, FALSE, "wake"))
    BY <1>12 DEF SubLoadedWatch
  <2> QED
    BY <1>5, <2>1, <2>2, <2>3
<1>13. CASE DepDoneWake(m)
  <2>1. m.s \in Services
    BY <1>2, <1>13 DEF DepDoneWake, Arrives, SubOps
  <2> QED
    BY <1>5, <1>13, <2>1 DEF DepDoneWake, Ops, Args
<1>14. CASE DepDoneNoWake(m) \/ EventIgnored(m)
  <2>1. out' = out \o <<>>
    BY <1>4, <1>14 DEF DepDoneNoWake, EventIgnored
  <2> QED
    BY <1>4, <2>1, Zenon
<1> QED
  BY <1>3, <1>7, <1>8, <1>9, <1>10, <1>11, <1>12, <1>13, <1>14

\* A callback is of no account to the other devices.
LEMMA DispatchOthers ==
    ASSUME IInv, Dispatch, NEW e \in Devices, e # Head(inn).d
    PROVE  Untouched(e)
<1> DEFINE m == Head(inn)
<1>1. /\ TypeOK /\ inn # <<>> /\ inn' = Tail(inn) /\ dev \in [Devices -> DeviceRec]
      /\ ghost \in [Devices -> History]
  BY DEF IInv, Inv, TypeOK, Dispatch
<1>2. m.d \in Devices /\ m.d # e
  BY <1>1, Driven
<1>3. PICK sent \in Seq(Message) :
         out' = out \o sent /\ \A i \in DOMAIN sent : sent[i].d = m.d
  BY DispatchSends
<1>4. DevLoaded(m) \/ DevLoadFailed(m) \/ SysDepDone(m)
      \/ SubLoadFailed(m) \/ SubLoadedNoWake(m) \/ SubLoadedWatch(m)
      \/ DepDoneNoWake(m) \/ DepDoneWake(m) \/ EventDone(m) \/ EventIgnored(m)
  BY DEF Dispatch
<1>5. m = Head(inn)
  OBVIOUS
<1> HIDE DEF m
<1>6. ASSUME NEW K \in SUBSET Lane(e)
      PROVE  Num(out', K) = Num(out, K) /\ Num(inn', K) = Num(inn, K)
  <2>1. Num(sent, K) = 0
    <3>1. \A i \in DOMAIN sent : sent[i] \notin K
      BY <1>2, <1>3 DEF Lane
    <3> QED
      BY <3>1, NumNone
  <2>2. m \notin K
    BY <1>2 DEF Lane
  <2>3. /\ Num(inn, K) = Num(inn', K) + (IF m \in K THEN 1 ELSE 0)
        /\ Num(out', K) = Num(out, K) + Num(sent, K)
        /\ Num(inn, K) \in Nat /\ Num(inn', K) \in Nat /\ Num(out, K) \in Nat
    BY <1>1, <1>3, <1>5, DispatchNum
  <2> QED
    BY <2>1, <2>2, <2>3
<1>7. sysdeps' = sysdeps
  BY <1>4 DEF DevLoaded, DevLoadFailed, SysDepDone, SubLoadFailed,
     SubLoadedNoWake, SubLoadedWatch, DepDoneNoWake, DepDoneWake, EventDone,
     EventIgnored, dinitVars
<1>8. dev'[e] = dev[e]
  BY <1>1, <1>2, <1>4 DEF DevLoaded, DevLoadFailed, SysDepDone, SubLoadFailed,
     SubLoadedNoWake, SubLoadedWatch, DepDoneNoWake, DepDoneWake, EventDone,
     EventIgnored, devmonVars, Resolved, ProcessStep
<1>9. ghost'[e] = ghost[e]
  BY <1>1, <1>2, <1>4 DEF DevLoaded, DevLoadFailed, SysDepDone, SubLoadFailed,
     SubLoadedNoWake, SubLoadedWatch, DepDoneNoWake, DepDoneWake, EventDone,
     EventIgnored, Note
<1>10. \A s \in Services : <<e, s>> \in map_svcdev' <=> <<e, s>> \in map_svcdev
  <2>1. \/ map_svcdev' = map_svcdev
        \/ map_svcdev' = map_svcdev \cup {<<m.d, m.s>>}
        \/ map_svcdev' = map_svcdev \ {<<m.d, m.s>>}
    BY <1>4, Zenon DEF DevLoaded, DevLoadFailed, SysDepDone, SubLoadFailed,
       SubLoadedNoWake, SubLoadedWatch, DepDoneNoWake, DepDoneWake, EventDone,
       EventIgnored, devmonVars
  <2> QED
    BY <1>2, <2>1
<1>11. \A s \in Services, b \in BOOLEAN :
          <<e, s, b>> \in handles' <=> <<e, s, b>> \in handles
  BY <1>2, <1>4 DEF DevLoaded, DevLoadFailed, SysDepDone, SubLoadFailed,
     SubLoadedNoWake, SubLoadedWatch, DepDoneNoWake, DepDoneWake, EventDone,
     EventIgnored
<1> QED
  BY <1>6, <1>7, <1>8, <1>9, <1>10, <1>11 DEF Untouched

\* A callback without effect on its own device either: the reply to a
\* dependency request before the wake, and an event nobody awaits.
LEMMA DispatchNothing ==
    ASSUME IInv, Dispatch, NEW e \in Devices,
           DepDoneWake(Head(inn)) \/ EventIgnored(Head(inn))
    PROVE  Untouched(e)
<1> DEFINE m == Head(inn)
<1>1. TypeOK /\ inn # <<>> /\ inn' = Tail(inn) /\ out \in Seq(Message)
  BY DEF IInv, Inv, Dispatch, TypeOK
<1>2. /\ m \in Message /\ m.d \in Devices
      /\ m.op \in SubOps => m.s \in Services
  BY <1>1, Driven
<1>3. DepDoneWake(m) \/ EventIgnored(m)
  OBVIOUS
<1>4. m = Head(inn)
  OBVIOUS
<1> HIDE DEF m
<1>5. PICK sent \in Seq(Message) :
         out' = out \o sent /\ \A i \in DOMAIN sent : sent[i].op = "wake"
  <2>1. CASE DepDoneWake(m)
    <3> DEFINE a == IF <<m.d, m.s, FALSE>> \in handles THEN "" ELSE "closed"
               g == Msg("wake", m.d, m.s, FALSE, a)
    <3>1. m.s \in Services /\ "wake" \in Ops /\ a \in Args
      BY <1>2, <2>1 DEF DepDoneWake, Arrives, SubOps, Ops, Args
    <3>2. out' = Append(out, g)
      BY <2>1 DEF DepDoneWake
    <3> HIDE DEF a
    <3>3. g \in Message /\ g.op = "wake"
      BY <1>2, <3>1 DEF Msg, Message
    <3> HIDE DEF g
    <3>4. out' = out \o <<g>> /\ <<g>> \in Seq(Message)
      BY <1>1, <3>2, <3>3, AppendIsConcat
    <3>5. \A i \in DOMAIN <<g>> : <<g>>[i].op = "wake"
      BY <3>3
    <3> QED
      BY <3>4, <3>5, Zenon
  <2>2. CASE EventIgnored(m)
    <3>1. out' = out \o <<>> /\ <<>> \in Seq(Message)
      BY <1>1, <2>2, ConcatSimplifications DEF EventIgnored
    <3>2. DOMAIN <<>> = {}
      OBVIOUS
    <3> QED
      BY <3>1, <3>2, Zenon
  <2> QED
    BY <1>3, <2>1, <2>2
<1>6. ASSUME NEW K \in SUBSET Lane(e)
      PROVE  Num(out', K) = Num(out, K) /\ Num(inn', K) = Num(inn, K)
  <2>1. Num(sent, K) = 0
    <3>1. \A i \in DOMAIN sent : sent[i] \notin K
      BY <1>5 DEF Lane, Tracked
    <3> QED
      BY <3>1, NumNone
  <2>2. m \notin K
    BY <1>3 DEF Lane, Tracked, DepDoneWake, EventIgnored, Arrives
  <2>3. /\ Num(inn, K) = Num(inn', K) + (IF m \in K THEN 1 ELSE 0)
        /\ Num(out', K) = Num(out, K) + Num(sent, K)
        /\ Num(inn, K) \in Nat /\ Num(inn', K) \in Nat /\ Num(out, K) \in Nat
    BY <1>1, <1>4, <1>5, DispatchNum
  <2> QED
    BY <2>1, <2>2, <2>3
<1> QED
  BY <1>3, <1>6 DEF Untouched, DepDoneWake, EventIgnored, devmonVars, dinitVars

\* dinit serves a request: nothing to the other devices, and nothing at all
\* when it wakes a service or adds a dependency before a wake.
LEMMA ServeOthers ==
    ASSUME IInv, Serve, NEW e \in Devices,
           \/ e # Head(out).d \/ Head(out).op = "wake"
           \/ Head(out).op = "dep_sub" /\ Head(out).arg # "nowake"
    PROVE  Untouched(e)
<1> DEFINE m == Head(out)
<1>1. /\ TypeOK /\ out # <<>> /\ out' = Tail(out) /\ out \in Seq(Proper)
      /\ UNCHANGED <<dev, map_svcdev, ghost>> /\ out \in Seq(Message)
  BY DEF IInv, Inv, Named, Serve, devmonVars, TypeOK
<1>2. /\ m \in Message /\ m.d \in Devices /\ m.arg \in Args
  BY <1>1, HeadProper
<1>3. ServeLoadDev(m) \/ ServeDepSys(m) \/ ServeLoadSub(m)
         \/ ServeDepSub(m) \/ ServeWake(m)
  BY DEF Serve
<1>4. /\ m = Head(out)
      /\ e # m.d \/ m.op = "wake" \/ (m.op = "dep_sub" /\ m.arg # "nowake")
  OBVIOUS
<1> HIDE DEF m
<1>5. e \in sysdeps' <=> e \in sysdeps
  BY <1>3, <1>4 DEF ServeLoadDev, ServeDepSys, ServeLoadSub, ServeDepSub,
     ServeWake, dinitVars
<1>6. \A s \in Services, b \in BOOLEAN :
         <<e, s, b>> \in handles' <=> <<e, s, b>> \in handles
  <2>1. \/ handles' = handles
        \/ e # m.d /\ handles' = handles \cup {<<m.d, m.s, m.rem>>}
    BY <1>3, <1>4 DEF ServeLoadDev, ServeDepSys, ServeLoadSub, ServeDepSub, ServeWake
  <2> QED
    BY <2>1
<1>7. m \notin Lane(e)
  BY <1>4 DEF Lane, Tracked
<1>8. ASSUME NEW K \in SUBSET Lane(e)
      PROVE  Num(out', K) = Num(out, K) /\ Num(inn', K) = Num(inn, K)
  <2>1. CASE inn' = inn
    <3>1. Num(out, K) = Num(Tail(out), K) + (IF m \in K THEN 1 ELSE 0)
      BY <1>1, <1>4, NumTail
    <3>2. Num(Tail(out), K) \in Nat
      BY <1>1, HeadTailProperties, NumType
    <3> QED
      BY <1>1, <1>7, <2>1, <3>1, <3>2
  <2>2. ASSUME NEW a \in Args, Answer(m, a), e # m.d \/ a = m.arg
        PROVE  Num(out', K) = Num(out, K) /\ Num(inn', K) = Num(inn, K)
    <3> DEFINE g == [m EXCEPT !.arg = a]
    <3>1. /\ g \in Message /\ g.op = m.op /\ g.d = m.d /\ g.arg = a
      BY <1>2 DEF Message
    <3>2. inn' = Append(inn, g)
      BY <2>2 DEF Answer
    <3> HIDE DEF g
    <3>3. g \notin Lane(e)
      BY <1>4, <2>2, <3>1 DEF Lane, Tracked
    <3>4. /\ Num(out, K) = Num(out', K) + (IF m \in K THEN 1 ELSE 0)
          /\ Num(inn', K) = Num(inn, K) + (IF g \in K THEN 1 ELSE 0)
          /\ Num(inn, K) \in Nat /\ Num(out', K) \in Nat /\ Num(out, K) \in Nat
      BY <1>1, <1>4, <3>1, <3>2, AnswerNum, ZenonT(60)
    <3> QED
      BY <1>7, <3>3, <3>4
  <2>3. inn' = inn \/ \E a \in Args : Answer(m, a) /\ (e # m.d \/ a = m.arg)
    BY <1>2, <1>3, <1>4
       DEF ServeLoadDev, ServeDepSys, ServeLoadSub, ServeDepSub, ServeWake, Args
  <2> QED
    BY <2>1, <2>2, <2>3
<1> QED
  BY <1>1, <1>5, <1>6, <1>8 DEF Untouched

\* The lives of the services are of no account to the rounds.
LEMMA ServiceNothing ==
    ASSUME IInv, NEW s \in Services, SvcFinish(s) \/ SvcBegin(s), NEW e \in Devices
    PROVE  Untouched(e)
<1>1. /\ TypeOK /\ inn \in Seq(Message)
      /\ UNCHANGED <<dev, map_svcdev, out, handles, sysdeps, ghost>>
  BY DEF IInv, Inv, TypeOK, SvcFinish, SvcBegin, devmonVars
<1>2. ASSUME NEW K \in SUBSET Lane(e) PROVE Num(inn', K) = Num(inn, K)
  <2>1. CASE inn' = inn
    BY <2>1
  <2>2. ASSUME NEW what \in Args, Tell(s, what) PROVE Num(inn', K) = Num(inn, K)
    <3>1. PICK ev \in Seq(Message) :
             /\ inn' = inn \o ev /\ ev \in Seq(Proper)
             /\ \A i \in DOMAIN ev : ev[i] \in Message /\ ev[i].op = "event"
      BY <1>1, <2>2, TellSends
    <3>2. \A i \in DOMAIN ev : ev[i] \notin K
      BY <3>1 DEF Lane, Tracked
    <3>3. Num(ev, K) = 0 /\ Num(inn, K) \in Nat
      BY <1>1, <3>2, NumNone, NumType
    <3>4. Num(inn \o ev, K) = Num(inn, K) + Num(ev, K)
      BY <1>1, NumConcat
    <3> QED
      BY <3>1, <3>3, <3>4
  <2> QED
    BY <2>1, <2>2, FinishTells DEF SvcBegin
<1> QED
  BY <1>1, <1>2 DEF Untouched

\* An event of udev is of no account to the other devices.
LEMMA UdevUntouched ==
    ASSUME IInv, NEW d \in Devices, Udev(d), NEW e \in Devices, e # d
    PROVE  Untouched(e)
<1>1. TypeOK /\ out \in Seq(Message) /\ dev[d] \in DeviceRec
  BY DEF IInv, Inv, TypeOK
<1>2. PICK there \in BOOLEAN, tag \in BOOLEAN, svcs \in SUBSET Services,
           r \in DeviceRec, q \in DeviceRec : UdevPost(d, there, tag, svcs, r, q)
  BY UdevShape
<1>3. dev'[e] = dev[e] /\ ghost'[e] = ghost[e]
  BY UdevOthers
<1>4. UNCHANGED <<map_svcdev, inn, handles, sysdeps>> /\ HandleEffects(d, r, svcs)
  BY <1>2 DEF UdevPost
<1>5. ASSUME NEW K \in SUBSET Lane(e) PROVE Num(out', K) = Num(out, K)
  <2>1. CASE out' = out
    BY <2>1
  <2>2. CASE out' = out \o processRequest(d, [r EXCEPT !.pending = TRUE])
    <3> DEFINE p == [r EXCEPT !.pending = TRUE]
               pr == processRequest(d, p)
    <3>1. p \in DeviceRec
      BY DEF DeviceRec
    <3> HIDE DEF p
    <3>2. pr \in Seq(Message) /\ \A i \in DOMAIN pr : pr[i].d = d
      BY <3>1, RequestOnly
    <3>3. out' = out \o pr
      BY <2>2 DEF p
    <3> HIDE DEF pr
    <3>4. \A i \in DOMAIN pr : pr[i] \notin K
      BY <3>2 DEF Lane
    <3>5. Num(pr, K) = 0 /\ Num(out, K) \in Nat
      BY <1>1, <3>4, NumNone, NumType
    <3>6. Num(out \o pr, K) = Num(out, K) + Num(pr, K)
      BY <1>1, <3>2, NumConcat
    <3> QED
      BY <3>3, <3>5, <3>6
  <2> QED
    BY <1>4, <2>1, <2>2 DEF HandleEffects
<1> QED
  BY <1>3, <1>4, <1>5 DEF Untouched

-----------------------------------------------------------------------------
(* `system` waits for a device, and a device for its services *)

\* The requests that attach d to `system`, or detach it
SysDep(d, b) == [op : {"dep_sys"}, d : {d}, s : Services \cup {NoService},
                 rem : {b}, arg : Args]

\* What `system` depends on follows what the last round worked for: a request
\* asks for that, and once it is answered, and until the next round starts,
\* dinit has it so.
Attached(d) ==
    /\ \A b \in BOOLEAN : Num(out, SysDep(d, b)) > 0 => b = dev[d].removal
    /\ Num(inn, Kind("dep_sys", d)) > 0 => (d \in sysdeps <=> ~dev[d].removal)
    /\ InFlight("load_dev", d) + InFlight("dep_sys", d) = 0 /\ ghost[d].devok
          => (d \in sysdeps <=> ~dev[d].removal)

\* A service of the round has resolved or is awaited
Awaited(d, s) ==
    \/ s \in ghost[d].seen
    \/ Total(AddLoad(d, s)) > 0
    \/ s \in Watched(d)

\* A round is about the services of the latest event unless one is pending, and
\* drops none of them before it has resolved.
Served(d) ==
    /\ dev[d].processing /\ ~dev[d].pending => dev[d].psvcset = ghost[d].waits
    /\ dev[d].pending => dev[d].nsvcset = ghost[d].waits
    /\ dev[d].processing
       /\ InFlight("load_dev", d) + InFlight("dep_sys", d) = 0
          => \A s \in dev[d].psvcset : Awaited(d, s)
    /\ ~dev[d].processing /\ dev[d].has_tag /\ ghost[d].devok
          => ghost[d].waits \subseteq ghost[d].seen

\* The kinds of messages the invariants count belong to a device's lane.
LEMMA LaneKinds ==
    ASSUME NEW d \in Devices
    PROVE  /\ \A op \in Tracked : Kind(op, d) \subseteq Lane(d)
           /\ \A s \in Services : AddLoad(d, s) \subseteq Lane(d)
           /\ \A b \in BOOLEAN : SysDep(d, b) \subseteq Lane(d)
<1>1. ASSUME NEW op \in Tracked PROVE Kind(op, d) \subseteq Lane(d)
  BY DEF Kind, Lane, Message, Tracked, Ops
<1>2. ASSUME NEW s \in Services PROVE AddLoad(d, s) \subseteq Lane(d)
  BY DEF AddLoad, Lane, Message, Tracked, Ops
<1>3. ASSUME NEW b \in BOOLEAN PROVE SysDep(d, b) \subseteq Lane(d)
  BY DEF SysDep, Lane, Message, Tracked, Ops
<1> QED
  BY <1>1, <1>2, <1>3

\* A step of no account to a device keeps what is said of it.
LEMMA KeptUntouched ==
    ASSUME NEW d \in Devices, dev[d] \in DeviceRec, Untouched(d), Attached(d), Served(d)
    PROVE  Attached(d)' /\ Served(d)'
<1>1. /\ dev'[d] = dev[d] /\ ghost'[d] = ghost[d] /\ (d \in sysdeps' <=> d \in sysdeps)
      /\ \A K \in SUBSET Lane(d) : Num(out', K) = Num(out, K) /\ Num(inn', K) = Num(inn, K)
  BY DEF Untouched
<1>2. /\ \A op \in Tracked : InFlight(op, d)' = InFlight(op, d)
      /\ \A s \in Services : Total(AddLoad(d, s))' = Total(AddLoad(d, s))
  BY <1>1, LaneKinds DEF InFlight, Total
<1>3. /\ \A b \in BOOLEAN : Num(out, SysDep(d, b))' = Num(out, SysDep(d, b))
      /\ Num(inn, Kind("dep_sys", d))' = Num(inn, Kind("dep_sys", d))
  BY <1>1, LaneKinds DEF Tracked
<1>4. Watched(d)' = Watched(d)
  BY DEF Untouched, Watched
<1>5. Attached(d)'
  BY <1>1, <1>2, <1>3 DEF Attached, Tracked
<1>6. ASSUME NEW s \in Services PROVE Awaited(d, s)' <=> Awaited(d, s)
  BY <1>1, <1>2, <1>4 DEF Awaited
<1>7. Served(d)'
  <2>1. /\ InFlight("load_dev", d)' = InFlight("load_dev", d)
        /\ InFlight("dep_sys", d)' = InFlight("dep_sys", d)
    BY <1>2 DEF Tracked
  <2>2. \A s \in dev[d].psvcset : Awaited(d, s) => Awaited(d, s)'
    BY <1>6 DEF DeviceRec
  <2> QED
    BY <1>1, <2>1, <2>2 DEF Served
<1> QED
  BY <1>5, <1>7

\* Counts of a queue: of requests to attach and of loads, by their kind.
LEMMA Within ==
    ASSUME NEW q \in Seq(Message), NEW d \in Devices
    PROVE  /\ \A b \in BOOLEAN : /\ Num(q, SysDep(d, b)) \in Nat
                                  /\ Num(q, SysDep(d, b)) <= Num(q, Kind("dep_sys", d))
           /\ \A s \in Services : /\ Num(q, AddLoad(d, s)) \in Nat
                                   /\ Num(q, AddLoad(d, s)) <= Num(q, Kind("load_sub", d))
           /\ \A op \in Tracked : Num(q, Kind(op, d)) \in Nat
<1>1. ASSUME NEW b \in BOOLEAN PROVE SysDep(d, b) \subseteq Kind("dep_sys", d)
  BY DEF SysDep, Kind
<1>2. ASSUME NEW s \in Services PROVE AddLoad(d, s) \subseteq Kind("load_sub", d)
  BY DEF AddLoad, Kind
<1> QED
  BY <1>1, <1>2, NumSubset, NumType

\* With no request to attach under way, Attached is about the last round alone.
LEMMA AttachedQuiet ==
    ASSUME TypeOK', NEW d \in Devices, InFlight("dep_sys", d)' = 0,
           InFlight("load_dev", d)' = 0 /\ ghost'[d].devok
              => (d \in sysdeps' <=> ~dev'[d].removal)
    PROVE  Attached(d)'
<1>1. out' \in Seq(Message) /\ inn' \in Seq(Message)
  BY DEF TypeOK
<1>2. /\ Num(out', Kind("dep_sys", d)) \in Nat /\ Num(inn', Kind("dep_sys", d)) \in Nat
      /\ Num(out', Kind("load_dev", d)) \in Nat /\ Num(inn', Kind("load_dev", d)) \in Nat
      /\ \A b \in BOOLEAN : /\ Num(out', SysDep(d, b)) \in Nat
                             /\ Num(out', SysDep(d, b)) <= Num(out', Kind("dep_sys", d))
  BY <1>1, Within DEF Tracked
<1>3. Num(out', Kind("dep_sys", d)) + Num(inn', Kind("dep_sys", d)) = 0
  BY DEF InFlight, Total
<1>4. /\ \A b \in BOOLEAN : Num(out', SysDep(d, b)) = 0
      /\ Num(inn', Kind("dep_sys", d)) = 0
  BY <1>2, <1>3
<1>5. InFlight("load_dev", d)' \in Nat
  BY <1>2 DEF InFlight, Total
<1>6. InFlight("load_dev", d)' + InFlight("dep_sys", d)' = 0
        => InFlight("load_dev", d)' = 0
  BY <1>5
<1> QED
  BY <1>4, <1>6 DEF Attached

\* A service of the round resolves.
LEMMA ResolvedKeeps ==
    ASSUME IInv, IInv', inn # <<>>, inn' = Tail(inn), NEW m, m = Head(inn),
           NEW sent \in Seq(Message), Idle(sent),
           Resolved(m.d, Decremented(m), sent), sysdeps' = sysdeps,
           NEW rem \in BOOLEAN, Note(m.d, Decremented(m), m.s, rem),
           \/ m.op = "load_sub" /\ rem = m.rem /\ map_svcdev' = map_svcdev
           \/ /\ m.op = "event" /\ ~rem /\ <<m.d, m.s>> \in map_svcdev
              /\ map_svcdev' = map_svcdev \ {<<m.d, m.s>>},
           Attached(m.d), Served(m.d)
    PROVE  Attached(m.d)' /\ Served(m.d)'
<1> DEFINE d == m.d
           r == dev[d]
           q == Decremented(m)
<1>1. /\ TypeOK /\ TypeOK' /\ Acct(d)' /\ dev \in [Devices -> DeviceRec]
      /\ ghost \in [Devices -> History]
  BY Driven DEF IInv, Inv, TypeOK
<1>2. /\ m \in Message /\ d \in Devices /\ r \in DeviceRec /\ m.rem \in BOOLEAN
      /\ m.s \in Services /\ r.processing /\ r.pending_svcs > 0
      /\ InFlight("load_dev", d) = 0 /\ InFlight("dep_sys", d) = 0
  BY Driven DEF SubOps
<1>3. /\ q \in DeviceRec /\ SameFlags(q, r) /\ q.psvcset = r.psvcset
      /\ q.nsvcset = r.nsvcset
  BY <1>2, DecrementFlags DEF Decremented
<1> HIDE DEF q
<1>4. PICK full \in Seq(Message) : ResolvedPost(d, q, full)
  BY <1>1, <1>2, <1>3, ResolvedEffect DEF q
<1>5. Counted(m, full)
  BY <1>1, <1>4, DispatchCounts DEF ResolvedPost
<1>6. /\ InFlight("dep_sys", d)' = 0
      /\ InFlight("load_dev", d)' =
            IF q.pending_svcs = 0 /\ q.pending THEN 1 ELSE 0
  <2>1. /\ InFlight("load_dev", d)' = InFlight("load_dev", d) - 0
              + Num(full, Kind("load_dev", d))
        /\ InFlight("dep_sys", d)' = InFlight("dep_sys", d) - 0
              + Num(full, Kind("dep_sys", d))
    BY <1>2, <1>5, CountedHere
  <2>2. /\ Num(full, Kind("dep_sys", d)) = 0
        /\ Num(full, Kind("load_dev", d)) =
              IF q.pending_svcs = 0 /\ q.pending THEN 1 ELSE 0
    BY <1>2, <1>4 DEF ResolvedPost, Tracked
  <2> QED
    BY <1>2, <2>1, <2>2
<1>7. dev'[d] = IF q.pending_svcs = 0 THEN process(q) ELSE q
  BY <1>1, <1>2, <1>4 DEF ResolvedPost
<1>8. ghost'[d] = [ghost[d] EXCEPT !.seen =
                     IF q.pending_svcs = 0 /\ q.pending THEN {}
                     ELSE IF rem THEN ghost[d].seen ELSE ghost[d].seen \cup {m.s}]
  BY <1>1, <1>2 DEF Note, q
<1>9. /\ ghost'[d].devok = ghost[d].devok /\ ghost'[d].waits = ghost[d].waits
      /\ ~(q.pending_svcs = 0 /\ q.pending) =>
            ghost'[d].seen = IF rem THEN ghost[d].seen ELSE ghost[d].seen \cup {m.s}
  <2>1. ghost[d] \in History
    BY <1>1, <1>2
  <2> QED
    BY <1>8, <2>1 DEF History
<1>10. /\ process(q).psvcset = q.nsvcset /\ process(q).removed = q.removed
       /\ process(q).pending = FALSE /\ process(q).processing = q.pending
       /\ process(q).pending_svcs = q.pending_svcs
       /\ process(q).has_tag = q.has_tag
       /\ ~q.pending => process(q).removal = q.removal
  BY <1>3 DEF process, Shuffled, DeviceRec
<1>11. Attached(d)'
  <2>1. ~(q.pending_svcs = 0 /\ q.pending) => dev'[d].removal = r.removal
    BY <1>3, <1>7, <1>10 DEF SameFlags
  <2>2. ghost[d].devok => (d \in sysdeps <=> ~r.removal)
    BY <1>2 DEF Attached
  <2> QED
    BY <1>1, <1>2, <1>6, <1>9, <2>1, <2>2, AttachedQuiet
<1>12. CASE q.pending_svcs = 0 /\ q.pending
  <2>1. /\ dev'[d].processing /\ ~dev'[d].pending
        /\ dev'[d].psvcset = r.nsvcset /\ r.pending
    BY <1>3, <1>7, <1>10, <1>12 DEF SameFlags
  <2>2. dev'[d].psvcset = ghost'[d].waits
    BY <1>9, <2>1 DEF Served
  <2>3. InFlight("load_dev", d)' + InFlight("dep_sys", d)' # 0
    BY <1>6, <1>12
  <2>4. Served(d)'
    BY <2>1, <2>2, <2>3 DEF Served
  <2> QED
    BY <1>11, <2>4
<1>13. CASE ~(q.pending_svcs = 0 /\ q.pending)
  <2>1. \A s \in r.psvcset : Awaited(d, s)'
    <3> SUFFICES ASSUME NEW s \in r.psvcset PROVE Awaited(d, s)'
      OBVIOUS
    <3>1. s \in Services
      BY <1>2 DEF DeviceRec
    <3>2. Awaited(d, s)
      BY <1>2 DEF Served
    <3>3. CASE s = m.s /\ ~rem
      BY <1>9, <1>13, <3>3 DEF Awaited
    <3>4. CASE s # m.s \/ rem
      <4>1. Total(AddLoad(d, s))' = Total(AddLoad(d, s))
        <5>1. Num(full, AddLoad(d, s)) = 0
          BY <1>2, <1>4, <3>1 DEF ResolvedPost
        <5>2. ~(m.op = "load_sub" /\ m.s = s /\ ~m.rem)
          BY <3>4
        <5>3. /\ Total(AddLoad(d, s))' = Total(AddLoad(d, s))
                    - (IF m.op = "load_sub" /\ m.d = d /\ m.s = s /\ ~m.rem
                       THEN 1 ELSE 0)
                    + Num(full, AddLoad(d, s))
              /\ Total(AddLoad(d, s)) \in Nat
          BY <1>2, <1>5, <3>1 DEF Counted
        <5> QED
          BY <5>1, <5>2, <5>3
      <4>2. s \in Watched(d) => s \in Watched(d)'
        <5>1. CASE map_svcdev' = map_svcdev
          BY <5>1 DEF Watched
        <5>2. CASE ~rem /\ map_svcdev' = map_svcdev \ {<<d, m.s>>}
          BY <3>4, <5>2 DEF Watched
        <5> QED
          BY <5>1, <5>2
      <4>3. s \in ghost[d].seen => s \in ghost'[d].seen
        BY <1>9, <1>13
      <4> QED
        BY <3>2, <4>1, <4>2, <4>3 DEF Awaited
    <3> QED
      BY <3>3, <3>4
  <2>2. CASE q.pending_svcs # 0
    <3>1. /\ dev'[d].processing /\ dev'[d].pending = r.pending
          /\ dev'[d].psvcset = r.psvcset /\ dev'[d].nsvcset = r.nsvcset
      BY <1>2, <1>3, <1>7, <2>2 DEF SameFlags
    <3>2. Served(d)'
      BY <1>2, <1>9, <2>1, <3>1 DEF Served
    <3> QED
      BY <1>11, <3>2
  <2>3. CASE q.pending_svcs = 0
    <3>1. /\ ~q.pending /\ ~r.pending /\ ~dev'[d].processing /\ ~dev'[d].pending
          /\ dev'[d].pending_svcs = 0
      BY <1>3, <1>7, <1>10, <1>13, <2>3 DEF SameFlags
    <3>2. r.psvcset = ghost'[d].waits
      BY <1>2, <1>9, <3>1 DEF Served
    <3>3. InFlight("load_sub", d)' = 0 /\ Cardinality(Watched(d)') = 0
      <4>1. dev'[d].pending_svcs = InFlight("load_sub", d)' + Cardinality(Watched(d)')
        BY <1>1 DEF Acct, RoundOK
      <4>2. IsFiniteSet(Watched(d)') /\ Cardinality(Watched(d)') \in Nat
        <5>1. IsFiniteSet(Watched(d)')
          BY DeviceAssumption, FS_Subset DEF Watched
        <5> QED
          BY <5>1, FS_CardinalityType
      <4>3. InFlight("load_sub", d)' \in Nat
        <5>1. out' \in Seq(Message) /\ inn' \in Seq(Message)
          BY <1>1 DEF TypeOK
        <5>2. /\ Num(out', Kind("load_sub", d)) \in Nat
              /\ Num(inn', Kind("load_sub", d)) \in Nat
          BY <5>1, NumType
        <5> QED
          BY <5>2 DEF InFlight, Total
      <4> QED
        BY <3>1, <4>1, <4>2, <4>3
    <3>4. Watched(d)' = {}
      <4>1. IsFiniteSet(Watched(d)')
        BY DeviceAssumption, FS_Subset DEF Watched
      <4> QED
        BY <3>3, <4>1, FS_EmptySet
    <3>5. \A s \in Services : Total(AddLoad(d, s))' = 0
      <4> TAKE s \in Services
      <4>1. out' \in Seq(Message) /\ inn' \in Seq(Message)
        BY <1>1 DEF TypeOK
      <4>2. /\ Num(out', AddLoad(d, s)) \in Nat /\ Num(inn', AddLoad(d, s)) \in Nat
            /\ Num(out', AddLoad(d, s)) <= Num(out', Kind("load_sub", d))
            /\ Num(inn', AddLoad(d, s)) <= Num(inn', Kind("load_sub", d))
            /\ Num(out', Kind("load_sub", d)) \in Nat
            /\ Num(inn', Kind("load_sub", d)) \in Nat
        BY <1>2, <4>1, Within DEF Tracked
      <4>3. Num(out', Kind("load_sub", d)) + Num(inn', Kind("load_sub", d)) = 0
        BY <3>3 DEF InFlight, Total
      <4> QED
        BY <4>2, <4>3 DEF Total
    <3>6. ghost'[d].waits \subseteq ghost'[d].seen
      <4> SUFFICES ASSUME NEW s \in r.psvcset PROVE s \in ghost'[d].seen
        BY <3>2
      <4>1. s \in Services
        BY <1>2 DEF DeviceRec
      <4>2. Awaited(d, s)'
        BY <2>1
      <4> QED
        BY <3>4, <3>5, <4>1, <4>2 DEF Awaited
    <3>7. Served(d)'
      BY <3>1, <3>6 DEF Served
    <3> QED
      BY <1>11, <3>7
  <2> QED
    BY <2>2, <2>3
<1> QED
  BY <1>12, <1>13

\* The device's service is loaded: the request to attach it goes out.
LEMMA DevLoadedKeeps ==
    ASSUME IInv, inn # <<>>, inn' = Tail(inn), NEW m, m = Head(inn), DevLoaded(m),
           Attached(m.d), Served(m.d)
    PROVE  Attached(m.d)' /\ Served(m.d)'
<1> DEFINE d == m.d
           r == dev[d]
           g == Msg("dep_sys", d, NoService, r.removal, "")
<1>1. /\ TypeOK /\ dev \in [Devices -> DeviceRec] /\ ghost \in [Devices -> History]
      /\ out \in Seq(Message) /\ inn \in Seq(Message)
  BY DEF IInv, Inv, TypeOK
<1>2. /\ m \in Message /\ d \in Devices /\ r \in DeviceRec /\ m.op = "load_dev"
      /\ r.processing /\ InFlight("load_dev", d) = 1 /\ InFlight("dep_sys", d) = 0
  BY Driven DEF DevLoaded, Arrives
<1>3. r.removal \in BOOLEAN
  BY <1>2 DEF DeviceRec
<1>4. /\ g \in Message /\ g.op = "dep_sys" /\ g.d = d
      /\ \A b \in BOOLEAN : g \in SysDep(d, b) => b = r.removal
  BY <1>2, <1>3 DEF Msg, Message, Ops, Args, SysDep
<1>5. /\ dev'[d] = [r EXCEPT !.device_svc = TRUE]
      /\ ghost'[d] = [ghost[d] EXCEPT !.devok = TRUE]
      /\ sysdeps' = sysdeps /\ out' = Append(out, g)
  BY <1>1, <1>2 DEF DevLoaded, dinitVars
<1>6. /\ dev'[d].removal = r.removal /\ dev'[d].processing = r.processing
      /\ dev'[d].pending = r.pending /\ dev'[d].psvcset = r.psvcset
      /\ dev'[d].nsvcset = r.nsvcset
  BY <1>2, <1>5 DEF DeviceRec
<1>7. ghost'[d].waits = ghost[d].waits
  <2>1. ghost[d] \in History
    BY <1>1, <1>2
  <2> QED
    BY <1>5, <2>1 DEF History
<1> HIDE DEF g
<1>8. <<g>> \in Seq(Message) /\ out' = out \o <<g>>
  BY <1>1, <1>4, <1>5, AppendIsConcat
<1>9. ASSUME NEW K
      PROVE  /\ Num(inn, K) = Num(inn', K) + (IF m \in K THEN 1 ELSE 0)
             /\ Num(out', K) = Num(out, K) + (IF g \in K THEN 1 ELSE 0)
             /\ Num(inn, K) \in Nat /\ Num(inn', K) \in Nat /\ Num(out, K) \in Nat
  <2>1. /\ Num(inn, K) = Num(inn', K) + (IF m \in K THEN 1 ELSE 0)
        /\ Num(out', K) = Num(out, K) + Num(<<g>>, K)
        /\ Num(inn, K) \in Nat /\ Num(inn', K) \in Nat /\ Num(out, K) \in Nat
    BY <1>1, <1>8, DispatchNum
  <2>2. Num(<<g>>, K) = IF g \in K THEN 1 ELSE 0
    BY NumOne
  <2> QED
    BY <2>1, <2>2
<1>10. /\ m \notin Kind("dep_sys", d) /\ g \in Kind("dep_sys", d)
  BY <1>2, <1>4, KindMember DEF Ops
<1>11. /\ Num(out, Kind("dep_sys", d)) = 0 /\ Num(inn', Kind("dep_sys", d)) = 0
       /\ Num(out', Kind("dep_sys", d)) = 1
  <2>1. Num(out, Kind("dep_sys", d)) + Num(inn, Kind("dep_sys", d)) = 0
    BY <1>2 DEF InFlight, Total
  <2> QED
    BY <1>9, <1>10, <2>1
<1>12. InFlight("dep_sys", d)' = 1 /\ InFlight("load_dev", d)' \in Nat
  <2>1. InFlight("dep_sys", d)' = 1
    BY <1>11 DEF InFlight, Total
  <2>2. /\ Num(out', Kind("load_dev", d)) \in Nat
        /\ Num(inn', Kind("load_dev", d)) \in Nat
    BY <1>9
  <2> QED
    BY <2>1, <2>2 DEF InFlight, Total
<1>13. \A b \in BOOLEAN : Num(out', SysDep(d, b)) > 0 => b = dev'[d].removal
  <2> SUFFICES ASSUME NEW b \in BOOLEAN, Num(out', SysDep(d, b)) > 0
               PROVE  b = r.removal
    BY <1>6
  <2>1. /\ Num(out, SysDep(d, b)) \in Nat
        /\ Num(out, SysDep(d, b)) <= Num(out, Kind("dep_sys", d))
    BY <1>1, <1>2, Within
  <2>2. Num(out, SysDep(d, b)) = 0
    BY <1>11, <2>1
  <2>3. Num(out', SysDep(d, b)) =
           Num(out, SysDep(d, b)) + (IF g \in SysDep(d, b) THEN 1 ELSE 0)
    BY <1>9
  <2>4. g \in SysDep(d, b)
    BY <2>2, <2>3
  <2> QED
    BY <1>4, <2>4
<1>14. InFlight("load_dev", d)' + InFlight("dep_sys", d)' # 0
  BY <1>12
<1>15. Attached(d)'
  BY <1>11, <1>13, <1>14 DEF Attached
<1>16. Served(d)'
  BY <1>2, <1>6, <1>7, <1>14 DEF Served
<1> QED
  BY <1>15, <1>16

\* The device's service cannot be loaded: the round ends there.
LEMMA DevLoadFailedKeeps ==
    ASSUME IInv, TypeOK', inn # <<>>, inn' = Tail(inn), NEW m, m = Head(inn),
           DevLoadFailed(m), Attached(m.d), Served(m.d)
    PROVE  Attached(m.d)' /\ Served(m.d)'
<1> DEFINE d == m.d
           r == dev[d]
           pr == processRequest(d, r)
<1>1. /\ TypeOK /\ dev \in [Devices -> DeviceRec] /\ ghost \in [Devices -> History]
      /\ out \in Seq(Message) /\ inn \in Seq(Message)
  BY DEF IInv, Inv, TypeOK
<1>2. /\ m \in Message /\ d \in Devices /\ r \in DeviceRec /\ m.op = "load_dev"
      /\ r.processing /\ InFlight("load_dev", d) = 1 /\ InFlight("dep_sys", d) = 0
  BY Driven DEF DevLoadFailed, Arrives
<1>3. /\ dev'[d] = process(r) /\ out' = (out \o <<>>) \o pr
      /\ ghost'[d] = [[ghost[d] EXCEPT !.devok = FALSE]
                          EXCEPT !.seen = IF r.pending THEN {} ELSE ghost[d].seen]
  BY <1>1, <1>2 DEF DevLoadFailed, ProcessStep, History
<1>4. ~ghost'[d].devok /\ ghost'[d].waits = ghost[d].waits
  <2>1. ghost[d] \in History
    BY <1>1, <1>2
  <2> QED
    BY <1>3, <2>1 DEF History
<1>5. /\ pr \in Seq(Message)
      /\ Num(pr, Kind("load_dev", d)) = IF r.pending THEN 1 ELSE 0
      /\ Num(pr, Kind("dep_sys", d)) = 0
  BY <1>2, ProcessRequestType DEF Ops
<1> HIDE DEF pr
<1>6. out' = out \o pr
  BY <1>1, <1>3, ConcatSimplifications
<1>7. Counted(m, pr)
  BY <1>1, <1>5, <1>6, DispatchCounts
<1>8. /\ InFlight("load_dev", d)' = IF r.pending THEN 1 ELSE 0
      /\ InFlight("dep_sys", d)' = 0
  BY <1>2, <1>5, <1>7, CountedHere
<1>9. Attached(d)'
  BY <1>2, <1>4, <1>8, AttachedQuiet
<1>10. /\ dev'[d].pending = FALSE /\ dev'[d].processing = r.pending
       /\ dev'[d].psvcset = r.nsvcset
  <2>1. r \in DeviceRec /\ r.pending \in BOOLEAN
    BY <1>2 DEF DeviceRec
  <2>2. CASE r.pending = TRUE
    <3>1. dev'[d] = [Shuffled(r) EXCEPT !.pending = FALSE, !.removal = r.removed, !.processing = TRUE]
      BY <1>3, <2>2 DEF process
    <3>2. dev'[d].pending = FALSE /\ dev'[d].processing = TRUE /\ dev'[d].psvcset = r.nsvcset
      BY <2>1, <3>1 DEF Shuffled, DeviceRec
    <3> QED
      BY <2>2, <3>2
  <2>3. CASE r.pending = FALSE
    <3>1. dev'[d] = [Shuffled(r) EXCEPT !.processing = FALSE]
      BY <1>3, <2>3 DEF process
    <3>2. dev'[d].pending = r.pending /\ dev'[d].processing = FALSE /\ dev'[d].psvcset = r.nsvcset
      BY <2>1, <3>1 DEF Shuffled, DeviceRec
    <3> QED
      BY <2>3, <3>2
  <2> QED
    BY <2>1, <2>2, <2>3
<1>11. CASE r.pending
  <2>1. InFlight("load_dev", d)' + InFlight("dep_sys", d)' # 0
    BY <1>8, <1>11
  <2>2. dev'[d].psvcset = ghost'[d].waits
    BY <1>4, <1>10, <1>11 DEF Served
  <2>3. Served(d)'
    BY <1>10, <1>11, <2>1, <2>2 DEF Served
  <2> QED
    BY <1>9, <2>3
<1>12. CASE ~r.pending
  <2>1. Served(d)'
    BY <1>4, <1>10, <1>12 DEF Served
  <2> QED
    BY <1>9, <2>1
<1> QED
  BY <1>11, <1>12

\* Every service of a set is loaded.
LEMMA LoadsEach ==
    ASSUME NEW d \in Devices, NEW S \in SUBSET Services, IsFiniteSet(S),
           NEW q \in Orders(S), NEW s \in S,
           NEW B, B = [i \in DOMAIN q |-> LoadSub(d, q[i], FALSE)], B \in Seq(Message)
    PROVE  Num(B, AddLoad(d, s)) > 0
<1>1. PICK i \in DOMAIN q : q[i] = s
  BY DEF Orders, Bijection, Surjection
<1>2. B[i] = Msg("load_sub", d, s, FALSE, "") /\ i \in DOMAIN B
  BY <1>1 DEF LoadSub
<1>3. Msg("load_sub", d, s, FALSE, "") \in AddLoad(d, s)
  BY DEF Msg, AddLoad, Args
<1>4. i \in {j \in DOMAIN B : B[j] \in AddLoad(d, s)}
  BY <1>2, <1>3
<1>5. IsFiniteSet({j \in DOMAIN B : B[j] \in AddLoad(d, s)}) /\ Num(B, AddLoad(d, s)) \in Nat
  BY NumType
<1>6. Num(B, AddLoad(d, s)) # 0
  BY <1>4, <1>5, FS_EmptySet DEF Num
<1> QED
  BY <1>5, <1>6

\* `system` has been changed: the services of the round are loaded.
LEMMA SysDepDoneKeeps ==
    ASSUME IInv, TypeOK', inn # <<>>, inn' = Tail(inn), NEW m, m = Head(inn),
           SysDepDone(m), Attached(m.d), Served(m.d)
    PROVE  Attached(m.d)' /\ Served(m.d)'
<1> DEFINE d == m.d
           r == dev[d]
<1>1. /\ TypeOK /\ dev \in [Devices -> DeviceRec]
      /\ out \in Seq(Message) /\ inn \in Seq(Message)
  BY DEF IInv, Inv, TypeOK
<1>2. /\ m \in Message /\ d \in Devices /\ r \in DeviceRec /\ m.op = "dep_sys"
      /\ r.processing /\ InFlight("load_dev", d) = 0 /\ InFlight("dep_sys", d) = 1
  BY Driven DEF SysDepDone, Arrives
<1>3. PICK b \in Orders(r.dsvcset), c \in Orders(r.psvcset) :
         out' = (out \o [i \in DOMAIN b |-> LoadSub(d, b[i], TRUE)])
                     \o [i \in DOMAIN c |-> LoadSub(d, c[i], FALSE)]
  BY DEF SysDepDone
<1> DEFINE B == [i \in DOMAIN b |-> LoadSub(d, b[i], TRUE)]
           C == [i \in DOMAIN c |-> LoadSub(d, c[i], FALSE)]
<1>4. /\ IsFiniteSet(r.dsvcset) /\ IsFiniteSet(r.psvcset)
      /\ r.dsvcset \in SUBSET Services /\ r.psvcset \in SUBSET Services
  BY <1>2, DeviceAssumption, FS_Subset DEF DeviceRec
<1>5. /\ dev'[d] = [r EXCEPT !.pending_svcs = RoundSize(r)]
      /\ ghost' = ghost /\ sysdeps' = sysdeps
  BY <1>1, <1>2 DEF SysDepDone, dinitVars
<1>6. LoadsOf(B, r.dsvcset, d, TRUE) /\ LoadsOf(C, r.psvcset, d, FALSE)
  BY <1>2, <1>4, LoadBatch
<1>7. \A s \in r.psvcset : Num(C, AddLoad(d, s)) > 0
  <2> SUFFICES ASSUME NEW s \in r.psvcset PROVE Num(C, AddLoad(d, s)) > 0
    OBVIOUS
  <2>1. C \in Seq(Message) /\ C = [i \in DOMAIN c |-> LoadSub(d, c[i], FALSE)]
    BY <1>6 DEF LoadsOf
  <2> HIDE DEF C
  <2> QED
    BY <1>2, <1>4, <2>1, LoadsEach
<1>8. out' = (out \o B) \o C
  BY <1>3
<1> HIDE DEF B, C
<1>9. B \in Seq(Message) /\ C \in Seq(Message)
  BY <1>6 DEF LoadsOf
<1>10. B \o C \in Seq(Message) /\ out' = out \o (B \o C)
  <2>1. B \o C \in Seq(Message) /\ (out \o B) \o C = out \o (B \o C)
    BY <1>1, <1>9, ConcatTwo, SMTT(60)
  <2> QED
    BY <1>8, <2>1, Zenon
<1>11. \A K : /\ Num(B \o C, K) = Num(B, K) + Num(C, K)
              /\ Num(B, K) \in Nat /\ Num(C, K) \in Nat
  <2> TAKE K
  <2> QED
    BY <1>9, NumConcat, NumType
<1>12. Counted(m, B \o C)
  BY <1>1, <1>10, DispatchCounts
<1>13. InFlight("load_dev", d)' = 0 /\ InFlight("dep_sys", d)' = 0
  <2>1. /\ Num(B, Kind("load_dev", d)) = 0 /\ Num(C, Kind("load_dev", d)) = 0
        /\ Num(B, Kind("dep_sys", d)) = 0 /\ Num(C, Kind("dep_sys", d)) = 0
    BY <1>2, <1>6 DEF LoadsOf, Tracked
  <2>2. /\ Num(B \o C, Kind("load_dev", d)) = 0 /\ Num(B \o C, Kind("dep_sys", d)) = 0
    BY <1>11, <2>1
  <2> QED
    BY <1>2, <1>12, <2>2, CountedHere
<1>14. /\ dev'[d].removal = r.removal /\ dev'[d].processing = r.processing
       /\ dev'[d].pending = r.pending /\ dev'[d].psvcset = r.psvcset
       /\ dev'[d].nsvcset = r.nsvcset
  BY <1>2, <1>5 DEF DeviceRec
<1>15. d \in sysdeps <=> ~r.removal
  <2>1. m \in Kind("dep_sys", d)
    BY <1>2, KindMember DEF Ops
  <2>2. Num(inn, Kind("dep_sys", d)) = Num(Tail(inn), Kind("dep_sys", d)) + 1
    BY <1>1, <2>1, NumTail
  <2>3. Num(Tail(inn), Kind("dep_sys", d)) \in Nat
    BY <1>1, HeadTailProperties, NumType
  <2>4. Num(inn, Kind("dep_sys", d)) > 0
    BY <2>2, <2>3
  <2> QED
    BY <2>4 DEF Attached
<1>16. Attached(d)'
  BY <1>2, <1>5, <1>13, <1>14, <1>15, AttachedQuiet
<1>17. \A s \in r.psvcset : Awaited(d, s)'
  <2> SUFFICES ASSUME NEW s \in r.psvcset PROVE Total(AddLoad(d, s))' > 0
    BY DEF Awaited
  <2>1. s \in Services
    BY <1>4
  <2>2. /\ Total(AddLoad(d, s))' = Total(AddLoad(d, s))
              - (IF m.op = "load_sub" /\ m.d = d /\ m.s = s /\ ~m.rem THEN 1 ELSE 0)
              + Num(B \o C, AddLoad(d, s))
        /\ Total(AddLoad(d, s)) \in Nat
    BY <1>2, <1>12, <2>1 DEF Counted
  <2>3. Num(B \o C, AddLoad(d, s)) > 0 /\ Num(B \o C, AddLoad(d, s)) \in Nat
    BY <1>7, <1>11
  <2> QED
    BY <1>2, <2>2, <2>3
<1>18. Served(d)'
  BY <1>2, <1>5, <1>14, <1>17 DEF Served
<1> QED
  BY <1>16, <1>18

\* A step that changes neither the object nor what the round waits for.
LEMMA KeptSame ==
    ASSUME NEW d \in Devices, dev'[d] = dev[d], ghost'[d] = ghost[d],
           d \in sysdeps' <=> d \in sysdeps,
           \A b \in BOOLEAN : Num(out', SysDep(d, b)) = Num(out, SysDep(d, b)),
           Num(inn', Kind("dep_sys", d)) = Num(inn, Kind("dep_sys", d)),
           InFlight("load_dev", d)' = InFlight("load_dev", d),
           InFlight("dep_sys", d)' = InFlight("dep_sys", d),
           \A s \in dev[d].psvcset : Awaited(d, s) => Awaited(d, s)',
           Attached(d), Served(d)
    PROVE  Attached(d)' /\ Served(d)'
<1>1. Attached(d)'
  BY DEF Attached
<1>2. Served(d)'
  BY DEF Served
<1> QED
  BY <1>1, <1>2

\* A message is none of the kinds counted for the attachment.
LEMMA NotSysDep ==
    ASSUME NEW g \in Message, g.op # "dep_sys", NEW d \in Devices
    PROVE  /\ \A b \in BOOLEAN : g \notin SysDep(d, b)
           /\ g \notin Kind("dep_sys", d)
BY DEF SysDep, Kind

\* A service is not started yet: it is watched.
LEMMA WatchKeeps ==
    ASSUME IInv, inn # <<>>, inn' = Tail(inn), NEW m, m = Head(inn),
           SubLoadedWatch(m), Attached(m.d), Served(m.d)
    PROVE  Attached(m.d)' /\ Served(m.d)'
<1> DEFINE d == m.d
           g == Msg("dep_sub", d, m.s, FALSE, "wake")
<1>1. TypeOK /\ out \in Seq(Message) /\ inn \in Seq(Message)
  BY DEF IInv, Inv, TypeOK
<1>2. /\ m \in Message /\ d \in Devices /\ dev[d] \in DeviceRec /\ m.op = "load_sub"
      /\ m.s \in Services
  BY Driven DEF SubLoadedWatch, Arrives, SubOps
<1>3. /\ UNCHANGED <<dev, ghost, sysdeps>> /\ ~m.rem
      /\ map_svcdev' = map_svcdev \cup {<<d, m.s>>}
      /\ out' = Append(out, g)
  BY DEF SubLoadedWatch, dinitVars
<1>4. g \in Message /\ g.op = "dep_sub"
  BY <1>2 DEF Msg, Message, Ops, Args
<1> HIDE DEF g
<1>5. <<g>> \in Seq(Message) /\ out' = out \o <<g>> /\ Idle(<<g>>)
  BY <1>1, <1>3, <1>4, AppendIsConcat, Untracked DEF Tracked
<1>6. Counted(m, <<g>>)
  BY <1>1, <1>5, DispatchCounts
<1>7. ASSUME NEW K, m \notin K, g \notin K
      PROVE  Num(out', K) = Num(out, K) /\ Num(inn', K) = Num(inn, K)
  <2>1. /\ Num(inn, K) = Num(inn', K) + (IF m \in K THEN 1 ELSE 0)
        /\ Num(out', K) = Num(out, K) + Num(<<g>>, K)
        /\ Num(inn, K) \in Nat /\ Num(inn', K) \in Nat /\ Num(out, K) \in Nat
    BY <1>1, <1>5, DispatchNum
  <2>2. Num(<<g>>, K) = 0
    BY <1>7, NumOne
  <2> QED
    BY <1>7, <2>1, <2>2
<1>8. /\ \A b \in BOOLEAN : Num(out', SysDep(d, b)) = Num(out, SysDep(d, b))
      /\ Num(inn', Kind("dep_sys", d)) = Num(inn, Kind("dep_sys", d))
  BY <1>2, <1>4, <1>7, NotSysDep
<1>9. /\ InFlight("load_dev", d)' = InFlight("load_dev", d)
      /\ InFlight("dep_sys", d)' = InFlight("dep_sys", d)
  <2>1. /\ Num(<<g>>, Kind("load_dev", d)) = 0 /\ Num(<<g>>, Kind("dep_sys", d)) = 0
    BY <1>2, <1>5 DEF Idle, Tracked
  <2>2. InFlight("load_dev", d) = 0 /\ InFlight("dep_sys", d) = 0
    BY <1>2, Driven
  <2> QED
    BY <1>2, <1>6, <2>1, <2>2, CountedHere
<1>10. \A s \in dev[d].psvcset : Awaited(d, s) => Awaited(d, s)'
  <2> SUFFICES ASSUME NEW s \in dev[d].psvcset, Awaited(d, s) PROVE Awaited(d, s)'
    OBVIOUS
  <2>1. s \in Services
    BY <1>2 DEF DeviceRec
  <2>2. CASE s = m.s
    BY <1>3, <2>1, <2>2 DEF Awaited, Watched
  <2>3. CASE s # m.s
    <3>1. /\ Total(AddLoad(d, s))' = Total(AddLoad(d, s))
                - (IF m.op = "load_sub" /\ m.d = d /\ m.s = s /\ ~m.rem THEN 1 ELSE 0)
                + Num(<<g>>, AddLoad(d, s))
          /\ Total(AddLoad(d, s)) \in Nat
      BY <1>2, <1>6, <2>1 DEF Counted
    <3>2. Num(<<g>>, AddLoad(d, s)) = 0
      BY <1>2, <1>5, <2>1 DEF Idle
    <3>3. Total(AddLoad(d, s))' = Total(AddLoad(d, s))
      BY <2>3, <3>1, <3>2
    <3>4. s \in Watched(d) => s \in Watched(d)'
      BY <1>3 DEF Watched
    <3> QED
      BY <1>3, <3>3, <3>4 DEF Awaited
  <2> QED
    BY <2>2, <2>3
<1> QED
  BY <1>2, <1>3, <1>8, <1>9, <1>10, KeptSame

\* The reply to a dependency request closes a handle, no more.
LEMMA NoWakeKeeps ==
    ASSUME IInv, inn # <<>>, inn' = Tail(inn), NEW m, m = Head(inn),
           DepDoneNoWake(m), Attached(m.d), Served(m.d)
    PROVE  Attached(m.d)' /\ Served(m.d)'
<1> DEFINE d == m.d
<1>1. TypeOK /\ out \in Seq(Message) /\ inn \in Seq(Message)
  BY DEF IInv, Inv, TypeOK
<1>2. /\ m \in Message /\ d \in Devices /\ dev[d] \in DeviceRec /\ m.op = "dep_sub"
  BY Driven DEF DepDoneNoWake, Arrives
<1>3. UNCHANGED <<dev, ghost, sysdeps, map_svcdev, out>>
  BY DEF DepDoneNoWake, dinitVars, devmonVars
<1>4. ASSUME NEW K, m \notin K PROVE Num(inn', K) = Num(inn, K)
  <2>1. /\ Num(inn, K) = Num(Tail(inn), K) + (IF m \in K THEN 1 ELSE 0)
        /\ Num(Tail(inn), K) \in Nat
    BY <1>1, NumTail, NumType, HeadTailProperties
  <2> QED
    BY <1>4, <2>1
<1>5. /\ m \notin Kind("dep_sys", d) /\ m \notin Kind("load_dev", d)
      /\ \A s \in Services : m \notin AddLoad(d, s)
  BY <1>2, KindMember DEF Ops
<1>6. /\ InFlight("load_dev", d)' = InFlight("load_dev", d)
      /\ InFlight("dep_sys", d)' = InFlight("dep_sys", d)
      /\ \A s \in Services : Total(AddLoad(d, s))' = Total(AddLoad(d, s))
  BY <1>3, <1>4, <1>5 DEF InFlight, Total
<1>7. \A s \in dev[d].psvcset : Awaited(d, s) => Awaited(d, s)'
  BY <1>2, <1>3, <1>6 DEF DeviceRec, Awaited, Watched
<1> QED
  BY <1>2, <1>3, <1>4, <1>5, <1>6, <1>7, KeptSame

\* dinit answers a request of the device itself.
LEMMA ServeKeeps ==
    ASSUME IInv, TypeOK', Serve, NEW d \in Devices, d = Head(out).d,
           Attached(d), Served(d)
    PROVE  Attached(d)' /\ Served(d)'
<1> DEFINE m == Head(out)
<1>1. /\ TypeOK /\ out # <<>> /\ out' = Tail(out) /\ out \in Seq(Proper)
      /\ UNCHANGED <<dev, map_svcdev, ghost>>
      /\ out \in Seq(Message) /\ inn \in Seq(Message)
  BY DEF IInv, Inv, Named, Serve, devmonVars, TypeOK
<1>2. /\ m \in Message /\ m.d = d /\ m.arg \in Args /\ m.rem \in BOOLEAN
      /\ dev[d] \in DeviceRec
  BY <1>1, HeadProper DEF TypeOK
<1>3. ServeLoadDev(m) \/ ServeDepSys(m) \/ ServeLoadSub(m)
         \/ ServeDepSub(m) \/ ServeWake(m)
  BY DEF Serve
<1>4. m = Head(out)
  OBVIOUS
<1> HIDE DEF m
<1>5. CASE m.op = "wake"
  BY <1>1, <1>2, <1>4, <1>5, ServeOthers, KeptUntouched
<1>6. CASE m.op # "wake"
  <2>1. PICK a \in Args : Answer(m, a)
    BY <1>2, <1>3, <1>6
       DEF ServeLoadDev, ServeDepSys, ServeLoadSub, ServeDepSub, ServeWake, Args
  <2> DEFINE g == [m EXCEPT !.arg = a]
  <2>2. g \in Message /\ g.op = m.op /\ g.d = d
    BY <1>2 DEF Message
  <2>3. inn' = Append(inn, g)
    BY <2>1 DEF Answer
  <2>4. /\ \A op \in Tracked : InFlight(op, d)' = InFlight(op, d)
        /\ \A s \in Services : Total(AddLoad(d, s))' = Total(AddLoad(d, s))
    BY <1>1, <1>4, <2>3, AnswerTotal
  <2> HIDE DEF g
  <2>5. ASSUME NEW K
        PROVE  /\ Num(out, K) = Num(out', K) + (IF m \in K THEN 1 ELSE 0)
               /\ Num(inn', K) = Num(inn, K) + (IF g \in K THEN 1 ELSE 0)
               /\ Num(inn, K) \in Nat /\ Num(out', K) \in Nat /\ Num(out, K) \in Nat
    BY <1>1, <1>4, <2>2, <2>3, AnswerNum
  <2>6. /\ InFlight("load_dev", d)' = InFlight("load_dev", d)
        /\ InFlight("dep_sys", d)' = InFlight("dep_sys", d)
    BY <2>4 DEF Tracked
  <2>7. \A s \in dev[d].psvcset : Awaited(d, s) => Awaited(d, s)'
    BY <1>1, <1>2, <2>4 DEF Awaited, Watched, DeviceRec
  <2>8. CASE m.op # "dep_sys"
    <3>1. /\ \A b \in BOOLEAN : m \notin SysDep(d, b)
          /\ g \notin Kind("dep_sys", d)
      BY <1>2, <2>2, <2>8, NotSysDep
    <3>2. \A b \in BOOLEAN : Num(out', SysDep(d, b)) = Num(out, SysDep(d, b))
      BY <2>5, <3>1
    <3>3. Num(inn', Kind("dep_sys", d)) = Num(inn, Kind("dep_sys", d))
      BY <2>5, <3>1
    <3>4. sysdeps' = sysdeps
      BY <1>3, <2>8 DEF ServeLoadDev, ServeDepSys, ServeLoadSub, ServeDepSub,
         ServeWake, dinitVars
    <3> QED
      BY <1>1, <2>6, <2>7, <3>2, <3>3, <3>4, KeptSame
  <2>9. CASE m.op = "dep_sys"
    <3>1. m \in SysDep(d, m.rem) /\ g \in Kind("dep_sys", d)
      BY <1>2, <2>2, <2>9, KindMember DEF SysDep, Message, Ops
    <3>2. m.rem = dev[d].removal
      <4>1. Num(out, SysDep(d, m.rem)) > 0
        BY <2>5, <3>1
      <4> QED
        BY <1>2, <4>1 DEF Attached
    <3>3. d \in sysdeps' <=> ~m.rem
      BY <1>2, <1>3, <2>9
         DEF ServeLoadDev, ServeDepSys, ServeLoadSub, ServeDepSub, ServeWake
    <3>4. \A b \in BOOLEAN : Num(out', SysDep(d, b)) > 0 => b = dev[d].removal
      <4> TAKE b \in BOOLEAN
      <4>1. Num(out', SysDep(d, b)) > 0 => Num(out, SysDep(d, b)) > 0
        BY <2>5
      <4> QED
        BY <4>1 DEF Attached
    <3>5. InFlight("load_dev", d)' + InFlight("dep_sys", d)' # 0
      <4>1. /\ Num(inn', Kind("dep_sys", d)) > 0 /\ Num(inn', Kind("dep_sys", d)) \in Nat
        BY <2>5, <3>1
      <4>2. out' \in Seq(Message) /\ inn' \in Seq(Message)
        BY DEF TypeOK
      <4>3. /\ Num(out', Kind("dep_sys", d)) \in Nat
            /\ Num(out', Kind("load_dev", d)) \in Nat
            /\ Num(inn', Kind("load_dev", d)) \in Nat
        BY <4>2, Within DEF Tracked
      <4> QED
        BY <4>1, <4>3 DEF InFlight, Total
    <3>6. Attached(d)'
      BY <1>1, <3>2, <3>3, <3>4, <3>5 DEF Attached
    <3>7. Served(d)'
      BY <1>1, <3>5 DEF Served
    <3> QED
      BY <3>6, <3>7
  <2> QED
    BY <2>8, <2>9
<1> QED
  BY <1>5, <1>6

\* An event of udev for the device: forwarded, left pending, or the start of a
\* round that has everything before it.
LEMMA UdevKeeps ==
    ASSUME IInv, TypeOK', NEW d \in Devices, Udev(d), Honest(d), Attached(d), Served(d)
    PROVE  Attached(d)' /\ Served(d)'
<1>1. /\ TypeOK /\ dev \in [Devices -> DeviceRec] /\ dev[d] \in DeviceRec
      /\ ghost \in [Devices -> History] /\ ghost[d] \in History
      /\ out \in Seq(Message) /\ inn \in Seq(Message) /\ Acct(d)
  BY DEF IInv, Inv, TypeOK
<1>2. PICK there \in BOOLEAN, tag \in BOOLEAN, svcs \in SUBSET Services,
           r \in DeviceRec, q \in DeviceRec : UdevPost(d, there, tag, svcs, r, q)
  BY UdevShape
<1>3. /\ Entered(r, dev[d], there, tag) /\ HandleEffects(d, r, svcs)
      /\ Handled(q, handle_device_dinit(r, svcs)) /\ dev'[d] = q
      /\ UNCHANGED <<map_svcdev, inn, sysdeps>>
  BY <1>1, <1>2 DEF UdevPost
<1>4. /\ r.processing = dev[d].processing /\ r.pending = dev[d].pending
      /\ r.removal = dev[d].removal /\ r.psvcset = dev[d].psvcset
      /\ r.has_tag <=> (dev[d].has_tag \/ tag)
  BY <1>3 DEF Entered, SameRound
<1> DEFINE h == handle_device_dinit(r, svcs)
<1>5. /\ ~r.has_tag => h = r
      /\ r.has_tag /\ r.processing =>
           /\ h.pending /\ h.processing /\ h.removal = r.removal
           /\ h.nsvcset = svcs /\ h.psvcset = r.psvcset
      /\ r.has_tag /\ ~r.processing =>
           /\ ~h.pending /\ h.processing /\ h.removal = r.removed
           /\ h.psvcset = svcs
      /\ h.has_tag = r.has_tag
  BY HandleFlags
<1>6. /\ q.processing = h.processing /\ q.pending = h.pending /\ q.has_tag = h.has_tag
      /\ q.removal = h.removal /\ q.psvcset = h.psvcset /\ q.nsvcset = h.nsvcset
  BY <1>3 DEF Handled, SameRound
<1> HIDE DEF h
<1>7. CASE ~r.has_tag
  <2>1. UNCHANGED <<out, ghost>>
    BY <1>3, <1>7 DEF HandleEffects
  <2>2. ~dev[d].processing /\ ~dev[d].pending
    BY <1>4, <1>7 DEF Honest
  <2>3. /\ ~q.processing /\ ~q.pending /\ ~q.has_tag /\ q.removal = dev[d].removal
    BY <1>4, <1>5, <1>6, <1>7, <2>2
  <2>4. Served(d)'
    BY <1>3, <2>3 DEF Served
  <2>5. Attached(d)'
    BY <1>3, <2>1, <2>3 DEF Attached, InFlight, Total
  <2> QED
    BY <2>4, <2>5
<1>8. CASE r.has_tag /\ r.processing
  <2>1. out' = out /\ ghost' = [ghost EXCEPT ![d].waits = svcs]
    BY <1>3, <1>8 DEF HandleEffects
  <2>2. /\ ghost'[d].waits = svcs /\ ghost'[d].seen = ghost[d].seen
        /\ ghost'[d].devok = ghost[d].devok
    <3>1. ghost'[d] = [ghost[d] EXCEPT !.waits = svcs]
      BY <1>1, <2>1
    <3> QED
      BY <1>1, <3>1 DEF History
  <2>3. /\ q.processing /\ q.pending /\ q.nsvcset = svcs
        /\ q.psvcset = dev[d].psvcset /\ q.removal = dev[d].removal
        /\ dev[d].processing
    BY <1>4, <1>5, <1>6, <1>8
  <2>4. Attached(d)'
    BY <1>3, <2>1, <2>2, <2>3 DEF Attached, InFlight, Total
  <2>5. \A s \in dev[d].psvcset : Awaited(d, s) => Awaited(d, s)'
    BY <1>3, <2>1, <2>2 DEF Awaited, Total, Watched
  <2>6. /\ InFlight("load_dev", d)' = InFlight("load_dev", d)
        /\ InFlight("dep_sys", d)' = InFlight("dep_sys", d)
    BY <1>3, <2>1 DEF InFlight, Total
  <2>7. Served(d)'
    BY <1>3, <2>2, <2>3, <2>5, <2>6 DEF Served
  <2> QED
    BY <2>4, <2>7
<1>9. CASE r.has_tag /\ ~r.processing
  <2> DEFINE p == [r EXCEPT !.pending = TRUE]
             pr == processRequest(d, p)
  <2>1. /\ out' = out \o pr
        /\ ghost' = [ghost EXCEPT ![d].waits = svcs, ![d].seen = {}]
    BY <1>3, <1>9 DEF HandleEffects
  <2>2. ghost'[d].waits = svcs
    <3>1. ghost'[d] = [[ghost[d] EXCEPT !.waits = svcs] EXCEPT !.seen = {}]
      BY <1>1, <2>1
    <3> QED
      BY <1>1, <3>1 DEF History
  <2>3. p \in DeviceRec /\ p.pending
    BY DEF DeviceRec
  <2> HIDE DEF p
  <2>4. /\ pr \in Seq(Message) /\ Num(pr, Kind("load_dev", d)) = 1
        /\ Num(pr, Kind("dep_sys", d)) = 0
    BY <2>3, ProcessRequestType DEF Ops
  <2> HIDE DEF pr
  <2>5. InFlight("load_dev", d) = 0 /\ InFlight("dep_sys", d) = 0
    <3>1. InFlight("load_dev", d) \in Nat /\ InFlight("dep_sys", d) \in Nat
      BY <1>1, TotalType DEF InFlight
    <3>2. InFlight("load_dev", d) + InFlight("dep_sys", d) + Busy(dev[d]) = 0
      BY <1>1, <1>4, <1>9 DEF Acct, RoundOK
    <3> QED
      BY <3>1, <3>2 DEF Busy
  <2>6. /\ InFlight("load_dev", d)' = 1 /\ InFlight("dep_sys", d)' = 0
    <3>1. /\ Total(Kind("load_dev", d))' = Total(Kind("load_dev", d)) + 1
          /\ Total(Kind("dep_sys", d))' = Total(Kind("dep_sys", d)) + 0
      BY <1>1, <1>3, <2>1, <2>4, SendTotal
    <3> QED
      BY <2>5, <3>1 DEF InFlight
  <2>7. Attached(d)'
    BY <2>6, AttachedQuiet
  <2>8. q.processing /\ ~q.pending /\ q.psvcset = svcs
    BY <1>5, <1>6, <1>9
  <2>9. InFlight("load_dev", d)' + InFlight("dep_sys", d)' # 0
    BY <2>6
  <2>10. Served(d)'
    BY <1>3, <2>2, <2>8, <2>9 DEF Served
  <2> QED
    BY <2>7, <2>10
<1> QED
  BY <1>7, <1>8, <1>9

KeptInv == \A d \in Devices : Attached(d) /\ Served(d)

\* A devmon that has just started has nothing under way and knows of nothing.
LEMMA KeptFresh ==
    ASSUME NEW d \in Devices, dev = [e \in Devices |-> NewDevice],
           ghost = [e \in Devices |-> NoGhost], out = <<>>, inn = <<>>
    PROVE  Attached(d) /\ Served(d)
<1>1. \A K : Num(<<>>, K) = 0
  BY Fresh
<1>2. /\ ~dev[d].processing /\ ~dev[d].pending /\ ~dev[d].has_tag /\ ~ghost[d].devok
  BY DEF NewDevice, NoGhost
<1>3. Attached(d)
  BY <1>1, <1>2 DEF Attached
<1>4. Served(d)
  BY <1>2 DEF Served
<1> QED
  BY <1>3, <1>4

\* Every callback keeps what is said of the device it is about.
LEMMA DispatchKeeps ==
    ASSUME IInv, IInv', Dispatch, NEW d \in Devices, d = Head(inn).d,
           Attached(d), Served(d)
    PROVE  Attached(d)' /\ Served(d)'
<1> DEFINE m == Head(inn)
<1>1. /\ inn # <<>> /\ inn' = Tail(inn) /\ TypeOK' /\ TypeOK
      /\ dev[d] \in DeviceRec
  BY DEF IInv, Inv, Dispatch, TypeOK
<1>2. /\ m \in Message /\ m.d \in Devices /\ m.rem \in BOOLEAN
      /\ m.op \in SubOps => m.s \in Services
  BY <1>1, Driven
<1>3. DevLoaded(m) \/ DevLoadFailed(m) \/ SysDepDone(m)
      \/ SubLoadFailed(m) \/ SubLoadedNoWake(m) \/ SubLoadedWatch(m)
      \/ DepDoneNoWake(m) \/ DepDoneWake(m) \/ EventDone(m) \/ EventIgnored(m)
  BY DEF Dispatch
<1>4. m = Head(inn) /\ m.d = d
  OBVIOUS
<1> HIDE DEF m
<1>5. <<>> \in Seq(Message) /\ Idle(<<>>)
  BY NumEmpty DEF Idle
<1>6. CASE DevLoaded(m)
  BY <1>1, <1>4, <1>6, DevLoadedKeeps
<1>7. CASE DevLoadFailed(m)
  BY <1>1, <1>4, <1>7, DevLoadFailedKeeps
<1>8. CASE SysDepDone(m)
  BY <1>1, <1>4, <1>8, SysDepDoneKeeps
<1>9. CASE SubLoadFailed(m)
  <2>1. /\ m.op = "load_sub" /\ Resolved(m.d, Decremented(m), <<>>)
        /\ Note(m.d, Decremented(m), m.s, m.rem)
        /\ sysdeps' = sysdeps /\ map_svcdev' = map_svcdev
    BY <1>9 DEF SubLoadFailed, Arrives, dinitVars
  <2> QED
    BY <1>1, <1>2, <1>4, <1>5, <2>1, ResolvedKeeps
<1>10. CASE SubLoadedNoWake(m)
  <2> DEFINE g == Msg("dep_sub", m.d, m.s, m.rem, "nowake")
  <2>1. /\ m.op = "load_sub" /\ Resolved(m.d, Decremented(m), <<g>>)
        /\ Note(m.d, Decremented(m), m.s, m.rem)
        /\ sysdeps' = sysdeps /\ map_svcdev' = map_svcdev
    BY <1>10 DEF SubLoadedNoWake, Arrives, dinitVars
  <2>2. m.s \in Services
    BY <1>2, <2>1 DEF SubOps
  <2>3. g \in Message /\ g.op = "dep_sub"
    BY <1>2, <2>2 DEF Msg, Message, Ops, Args
  <2> HIDE DEF g
  <2>4. <<g>> \in Seq(Message) /\ Idle(<<g>>)
    BY <2>3, Untracked DEF Tracked
  <2> QED
    BY <1>1, <1>2, <1>4, <2>1, <2>4, ResolvedKeeps
<1>11. CASE SubLoadedWatch(m)
  BY <1>1, <1>4, <1>11, WatchKeeps
<1>12. CASE DepDoneNoWake(m)
  BY <1>1, <1>4, <1>12, NoWakeKeeps
<1>13. CASE DepDoneWake(m) \/ EventIgnored(m)
  <2>1. Untouched(d)
    BY <1>4, <1>13, DispatchNothing
  <2> QED
    BY <1>1, <2>1, KeptUntouched
<1>14. CASE EventDone(m)
  <2>1. /\ m.op = "event" /\ <<m.d, m.s>> \in map_svcdev
        /\ Resolved(m.d, Decremented(m), <<>>)
        /\ Note(m.d, Decremented(m), m.s, FALSE) /\ sysdeps' = sysdeps
        /\ map_svcdev' = map_svcdev \ {<<m.d, m.s>>}
    BY <1>14 DEF EventDone, Arrives, dinitVars
  <2> QED
    BY <1>1, <1>2, <1>4, <1>5, <2>1, ResolvedKeeps
<1> QED
  BY <1>3, <1>6, <1>7, <1>8, <1>9, <1>10, <1>11, <1>12, <1>13, <1>14

\* Every step keeps what is said of every device.
LEMMA KeptNext ==
    ASSUME IInv, IInv', HonestInv, KeptInv, [Next]_vars
    PROVE  KeptInv'
<1> SUFFICES ASSUME NEW d \in Devices PROVE Attached(d)' /\ Served(d)'
  BY DEF KeptInv
<1>1. /\ Attached(d) /\ Served(d) /\ Honest(d) /\ TypeOK /\ TypeOK'
      /\ dev[d] \in DeviceRec
  BY DEF KeptInv, HonestInv, IInv, Inv, TypeOK
<1>2. CASE Dispatch
  BY <1>1, <1>2, DispatchKeeps, DispatchOthers, KeptUntouched
<1>3. CASE Serve
  BY <1>1, <1>3, ServeKeeps, ServeOthers, KeptUntouched
<1>4. ASSUME NEW s \in Services, SvcFinish(s) \/ SvcBegin(s)
      PROVE  Attached(d)' /\ Served(d)'
  BY <1>1, <1>4, ServiceNothing, KeptUntouched
<1>5. ASSUME NEW e \in Devices, Udev(e) PROVE Attached(d)' /\ Served(d)'
  BY <1>1, <1>5, UdevKeeps, UdevUntouched, KeptUntouched
<1>6. CASE Restart
  <2>1. /\ dev' = [e \in Devices |-> NewDevice] /\ ghost' = [e \in Devices |-> NoGhost]
        /\ out' = <<>> /\ inn' = <<>>
    BY <1>6 DEF Restart
  <2>2. \A K : Num(<<>>, K) = 0
    BY Fresh
  <2>3. /\ ~dev'[d].processing /\ ~dev'[d].pending /\ ~dev'[d].has_tag
        /\ ~ghost'[d].devok
    BY <2>1 DEF NewDevice, NoGhost
  <2>4. Attached(d)'
    BY <2>1, <2>2, <2>3 DEF Attached
  <2> QED
    BY <2>3, <2>4 DEF Served
<1>7. CASE UNCHANGED vars
  <2>1. Untouched(d)
    BY <1>7 DEF vars, devmonVars, dinitVars, Untouched
  <2> QED
    BY <1>1, <2>1, KeptUntouched
<1> QED
  BY <1>2, <1>3, <1>4, <1>5, <1>6, <1>7 DEF Next, Input, Reaction

\* What is said of every device holds throughout.
LEMMA KeptInvariance == Spec => []KeptInv
<1>1. Init => KeptInv
  BY KeptFresh DEF Init, FreshDevmon, KeptInv
<1>2. IInv /\ IInv' /\ HonestInv /\ KeptInv /\ [Next]_vars => KeptInv'
  BY KeptNext
<1> QED
  BY <1>1, <1>2, Invariance, HonestInvariance, PTL DEF Spec

\* However events and rounds interleave, `system` waits for the service of an
\* idle device exactly when the device is there.
THEOREM AttachedAsPresent == Spec => []SysDepMatches
<1>1. IInv /\ HonestInv /\ KeptInv => SysDepMatches
  <2> SUFFICES ASSUME IInv, HonestInv, KeptInv, NEW d \in map_sys,
                      ~dev[d].processing, dev[d].has_tag, ghost[d].devok
               PROVE  d \in sysdeps <=> ~dev[d].removed
    BY DEF SysDepMatches
  <2>1. /\ d \in Devices /\ TypeOK /\ Acct(d)
    BY DEF IInv, Inv, TypeOK
  <2>2. InFlight("load_dev", d) + InFlight("dep_sys", d) = 0
    <3>1. InFlight("load_dev", d) \in Nat /\ InFlight("dep_sys", d) \in Nat
      BY <2>1, TotalType DEF InFlight
    <3>2. InFlight("load_dev", d) + InFlight("dep_sys", d) + Busy(dev[d]) = 0
      BY <2>1 DEF Acct, RoundOK
    <3> QED
      BY <3>1, <3>2 DEF Busy
  <2>3. Attached(d) /\ Honest(d)
    BY <2>1 DEF KeptInv, HonestInv
  <2> QED
    BY <2>2, <2>3 DEF Attached, Honest
<1> QED
  BY <1>1, Invariance, HonestInvariance, KeptInvariance, PTL

\* "Available" is never answered for a device whose device@ service could be
\* loaded before every service listed by the latest event was dealt with in the
\* round of that event: not loaded, started already, or an event of it came.
THEOREM AvailableAfterServices == Spec => []WaitsForHonoured
<1>1. KeptInv => WaitsForHonoured
  BY DEF KeptInv, Served, WaitsForHonoured, Status
<1> QED
  BY <1>1, KeptInvariance, PTL

-----------------------------------------------------------------------------
(* No handle leaks *)

\* The requests that close a handle of d when they are answered, and the
\* messages with which a round starts
Closes(d) == [op : {"dep_sub"}, d : {d}, s : Services, rem : BOOLEAN, arg : {"nowake"}]
Starts(d) == Kind("load_dev", d) \cup Kind("dep_sys", d)

\* The handles of one round are closed before the services of the next are
\* loaded: on the way to dinit and back, what closes them goes in front.
Ordered(o, n, d) ==
    /\ Before(o, Closes(d), Starts(d)) /\ Before(n, Closes(d), Starts(d))
    /\ Num(n, Starts(d)) > 0 => Num(o, Closes(d)) = 0

\* Messages behind the requests, as a callback or an event of udev sends them.
LEMMA OrderedSend ==
    ASSUME NEW o \in Seq(Message), NEW n \in Seq(Message), NEW d \in Devices,
           Ordered(o, n, d), NEW s \in Seq(Message),
           Before(s, Closes(d), Starts(d)),
           \/ Num(s, Closes(d)) = 0
           \/ Num(o, Starts(d)) = 0 /\ Num(n, Starts(d)) = 0
    PROVE  Ordered(o \o s, n, d)
<1>1. Before(o \o s, Closes(d), Starts(d))
  BY BeforeConcat DEF Ordered
<1>2. /\ Num(o \o s, Closes(d)) = Num(o, Closes(d)) + Num(s, Closes(d))
      /\ Num(o, Closes(d)) \in Nat
  BY NumConcat, NumType, ZenonT(60)
<1> QED
  BY <1>1, <1>2 DEF Ordered

\* A reply is taken.
LEMMA OrderedTake ==
    ASSUME NEW o \in Seq(Message), NEW n \in Seq(Message), NEW d \in Devices,
           Ordered(o, n, d), n # <<>>
    PROVE  Ordered(o, Tail(n), d)
<1>1. Before(Tail(n), Closes(d), Starts(d))
  BY BeforeTail DEF Ordered
<1>2. /\ Num(n, Starts(d)) = Num(Tail(n), Starts(d))
            + (IF Head(n) \in Starts(d) THEN 1 ELSE 0)
      /\ Num(Tail(n), Starts(d)) \in Nat
  BY NumTail, NumType, HeadTailProperties
<1> QED
  BY <1>1, <1>2 DEF Ordered

\* Replies and events that neither close nor start anything.
LEMMA OrderedTell ==
    ASSUME NEW o \in Seq(Message), NEW n \in Seq(Message), NEW d \in Devices,
           Ordered(o, n, d), NEW s \in Seq(Message),
           Num(s, Closes(d)) = 0, Num(s, Starts(d)) = 0
    PROVE  Ordered(o, n \o s, d)
<1>1. Before(s, Closes(d), Starts(d))
  BY NumZero DEF Before
<1>2. Before(n \o s, Closes(d), Starts(d))
  BY <1>1, BeforeConcat DEF Ordered
<1>3. Num(n \o s, Starts(d)) = Num(n, Starts(d)) + Num(s, Starts(d))
      /\ Num(n, Starts(d)) \in Nat
  BY NumConcat, NumType, ZenonT(60)
<1> QED
  BY <1>2, <1>3 DEF Ordered

\* dinit takes a request and answers it, or not.
LEMMA OrderedServe ==
    ASSUME NEW o \in Seq(Message), NEW n \in Seq(Message), NEW d \in Devices,
           Ordered(o, n, d), o # <<>>
    PROVE  /\ Ordered(Tail(o), n, d)
           /\ \A g \in Message :
                 /\ g \in Starts(d) <=> Head(o) \in Starts(d)
                 /\ g \in Closes(d) <=> Head(o) \in Closes(d)
                 => Ordered(Tail(o), Append(n, g), d)
<1> DEFINE A == Closes(d)
           B == Starts(d)
<1>1. Before(o, A, B) /\ Before(n, A, B) /\ (Num(n, B) > 0 => Num(o, A) = 0)
  BY DEF Ordered
<1> HIDE DEF A, B
<1>2. Before(Tail(o), A, B)
  BY <1>1, BeforeTail
<1>3. Tail(o) \in Seq(Message)
  BY HeadTailProperties
<1>4. /\ Num(o, A) = Num(Tail(o), A) + (IF Head(o) \in A THEN 1 ELSE 0)
      /\ Num(Tail(o), A) \in Nat /\ Num(n, B) \in Nat
  BY <1>3, NumTail, NumType
<1>5. ASSUME NEW g \in Message, g \in B <=> Head(o) \in B, g \in A <=> Head(o) \in A
      PROVE  /\ Before(Append(n, g), A, B)
             /\ Num(Append(n, g), B) > 0 => Num(Tail(o), A) = 0
  <2>1. Num(Append(n, g), B) = Num(n, B) + (IF g \in B THEN 1 ELSE 0)
    BY NumAppend
  <2>2. <<g>> \in Seq(Message) /\ Append(n, g) = n \o <<g>>
    BY AppendIsConcat
  <2>3. Num(n, B) = 0 \/ Num(<<g>>, A) = 0
    <3>1. Num(<<g>>, A) = IF g \in A THEN 1 ELSE 0
      BY NumOne
    <3> QED
      BY <1>1, <1>4, <1>5, <3>1
  <2>4. Before(<<g>>, A, B)
    <3>1. CASE g \in B
      <4>1. Num(o, A) = 0
        BY <1>1, <1>5, <3>1, BeforeHead
      <4>2. g \notin A
        BY <1>4, <1>5, <4>1
      <4> QED
        BY <4>2 DEF Before
    <3>2. CASE g \notin B
      BY <3>2 DEF Before
    <3> QED
      BY <3>1, <3>2
  <2>5. Before(Append(n, g), A, B)
    BY <1>1, <2>2, <2>3, <2>4, BeforeConcat
  <2>6. Num(Append(n, g), B) > 0 => Num(Tail(o), A) = 0
    <3>1. CASE g \in B
      <4>1. Num(o, A) = 0
        BY <1>1, <1>5, <3>1, BeforeHead
      <4> QED
        BY <1>4, <4>1
    <3>2. CASE g \notin B
      BY <1>1, <1>4, <2>1, <3>2
    <3> QED
      BY <3>1, <3>2
  <2> QED
    BY <2>5, <2>6
<1>6. Num(n, B) > 0 => Num(Tail(o), A) = 0
  BY <1>1, <1>4
<1>7. Ordered(Tail(o), n, d)
  BY <1>1, <1>2, <1>6 DEF Ordered, A, B
<1>8. \A g \in Message :
         /\ g \in Starts(d) <=> Head(o) \in Starts(d)
         /\ g \in Closes(d) <=> Head(o) \in Closes(d)
         => Ordered(Tail(o), Append(n, g), d)
  BY <1>2, <1>5 DEF Ordered, A, B
<1> QED
  BY <1>7, <1>8

\* The messages about the handle of service s, opened to add or to drop the
\* dependency of d on it: its load, the loads that have opened it, and the
\* request whose reply closes it
LoadKind(d, s, b) == [op : {"load_sub"}, d : {d}, s : {s}, rem : {b}, arg : Args]
OpenKind(d, s, b) == [op : {"load_sub"}, d : {d}, s : {s}, rem : {b}, arg : Args \ {"fail"}]
CloseKind(d, s, b) == [op : {"dep_sub"}, d : {d}, s : {s}, rem : {b}, arg : {"nowake"}]

\* Membership of these kinds by the fields of a message.
LEMMA HandleKinds ==
    ASSUME NEW m \in Message, NEW d \in Devices
    PROVE  /\ \A s \in Services, b \in BOOLEAN :
                 /\ m \in LoadKind(d, s, b) <=>
                       m.op = "load_sub" /\ m.d = d /\ m.s = s /\ m.rem = b
                 /\ m \in OpenKind(d, s, b) <=>
                       m \in LoadKind(d, s, b) /\ m.arg # "fail"
                 /\ m \in CloseKind(d, s, b) <=>
                       /\ m.op = "dep_sub" /\ m.d = d /\ m.s = s /\ m.rem = b
                       /\ m.arg = "nowake"
           /\ m \in Starts(d) <=> m.op \in {"load_dev", "dep_sys"} /\ m.d = d
           /\ m \in Closes(d) <=>
                 /\ m.op = "dep_sub" /\ m.d = d /\ m.s \in Services
                 /\ m.arg = "nowake"
<1>1. \A s \in Services, b \in BOOLEAN :
         m \in LoadKind(d, s, b) <=>
            m.op = "load_sub" /\ m.d = d /\ m.s = s /\ m.rem = b
  BY DEF Message, LoadKind
<1>2. \A s \in Services, b \in BOOLEAN :
         m \in OpenKind(d, s, b) <=> m \in LoadKind(d, s, b) /\ m.arg # "fail"
  BY DEF Message, LoadKind, OpenKind
<1>3. \A s \in Services, b \in BOOLEAN :
         m \in CloseKind(d, s, b) <=>
            /\ m.op = "dep_sub" /\ m.d = d /\ m.s = s /\ m.rem = b
            /\ m.arg = "nowake"
  BY DEF Message, CloseKind
<1>4. m \in Starts(d) <=> m.op \in {"load_dev", "dep_sys"} /\ m.d = d
  BY KindMember DEF Starts, Ops
<1>5. m \in Closes(d) <=>
         /\ m.op = "dep_sub" /\ m.d = d /\ m.s \in Services
         /\ m.arg = "nowake"
  BY DEF Message, Closes
<1> QED
  BY <1>1, <1>2, <1>3, <1>4, <1>5

\* Neither loads nor requests that close a handle
Plain(sent) ==
    \A i \in DOMAIN sent : sent[i].op # "load_sub" /\ sent[i].arg # "nowake"

\* Such messages are none of the kinds.
LEMMA PlainNone ==
    ASSUME NEW sent \in Seq(Message), Plain(sent), NEW d \in Devices
    PROVE  /\ \A s \in Services, b \in BOOLEAN :
                 /\ Num(sent, LoadKind(d, s, b)) = 0 /\ Num(sent, CloseKind(d, s, b)) = 0
           /\ Num(sent, Closes(d)) = 0 /\ Before(sent, Closes(d), Starts(d))
<1>1. \A i \in DOMAIN sent : sent[i] \in Message
  BY ElementOfSeq, LenProperties
<1>2. ASSUME NEW s \in Services, NEW b \in BOOLEAN
      PROVE  Num(sent, LoadKind(d, s, b)) = 0 /\ Num(sent, CloseKind(d, s, b)) = 0
  <2>1. \A i \in DOMAIN sent : sent[i] \notin LoadKind(d, s, b)
                               /\ sent[i] \notin CloseKind(d, s, b)
    BY <1>1, HandleKinds DEF Plain
  <2> QED
    BY <2>1, NumNone
<1>3. \A i \in DOMAIN sent : sent[i] \notin Closes(d)
  BY <1>1, HandleKinds DEF Plain
<1>4. Num(sent, Closes(d)) = 0 /\ Before(sent, Closes(d), Starts(d))
  BY <1>3, NumNone DEF Before
<1> QED
  BY <1>2, <1>4

\* A message that is neither.
LEMMA PlainOne ==
    ASSUME NEW g, g.op # "load_sub", g.arg # "nowake"
    PROVE  Plain(<<g>>)
BY DEF Plain

\* What process() sends is plain.
LEMMA RequestPlain ==
    ASSUME NEW r \in DeviceRec, NEW d \in Devices
    PROVE  processRequest(d, r) \in Seq(Message) /\ Plain(processRequest(d, r))
<1>1. processRequest(d, r) \in Seq(Message)
  BY ProcessRequestType
<1>2. CASE r.pending
  <2> DEFINE g == Msg("load_dev", d, NoService, r.removed, "")
  <2>1. processRequest(d, r) = <<g>>
    BY <1>2 DEF processRequest
  <2>2. g.op = "load_dev" /\ g.arg = ""
    BY DEF Msg
  <2> HIDE DEF g
  <2>3. Plain(<<g>>)
    BY <2>2, PlainOne
  <2> QED
    BY <1>1, <2>1, <2>3
<1>3. CASE ~r.pending
  <2>1. processRequest(d, r) = <<>>
    BY <1>3 DEF processRequest
  <2> QED
    BY <1>1, <2>1 DEF Plain
<1> QED
  BY <1>2, <1>3

\* What most callbacks send is.
LEMMA PlainSends ==
    ASSUME IInv, inn # <<>>, NEW m, m = Head(inn),
           \/ DevLoaded(m) \/ DevLoadFailed(m) \/ SubLoadFailed(m)
           \/ SubLoadedWatch(m) \/ DepDoneNoWake(m) \/ EventDone(m)
    PROVE  \E sent \in Seq(Message) : out' = out \o sent /\ Plain(sent)
<1>1. /\ TypeOK /\ m \in Message /\ m.d \in Devices /\ dev[m.d] \in DeviceRec
      /\ m.rem \in BOOLEAN
      /\ m.op \in SubOps => m.s \in Services
  BY Driven DEF IInv, Inv
<1>2. /\ <<>> \in Seq(Message) /\ Plain(<<>>)
      /\ out \in Seq(Message) /\ out = out \o <<>>
  BY <1>1, ConcatSimplifications DEF Plain, TypeOK
<1>3. ASSUME NEW g \in Message, g.op # "load_sub", g.arg # "nowake", out' = Append(out, g)
      PROVE  \E sent \in Seq(Message) : out' = out \o sent /\ Plain(sent)
  <2>1. <<g>> \in Seq(Message) /\ out' = out \o <<g>>
    BY <1>2, <1>3, AppendIsConcat
  <2>2. Plain(<<g>>)
    BY <1>3 DEF Plain
  <2> QED
    BY <2>1, <2>2, Zenon
<1>4. CASE DevLoaded(m)
  <2> DEFINE g == Msg("dep_sys", m.d, NoService, dev[m.d].removal, "")
  <2>1. dev[m.d].removal \in BOOLEAN
    BY <1>1 DEF DeviceRec
  <2>2. g \in Message /\ g.op # "load_sub" /\ g.arg # "nowake"
    BY <1>1, <2>1 DEF Msg, Message, Ops, Args
  <2>3. out' = Append(out, g)
    BY <1>4 DEF DevLoaded
  <2> HIDE DEF g
  <2> QED
    BY <1>3, <2>2, <2>3
<1>5. CASE DevLoadFailed(m)
  <2> DEFINE pr == processRequest(m.d, dev[m.d])
  <2>1. out' = (out \o <<>>) \o pr
    BY <1>5 DEF DevLoadFailed, ProcessStep
  <2>2. pr \in Seq(Message) /\ Plain(pr)
    BY <1>1, RequestPlain
  <2> HIDE DEF pr
  <2> QED
    BY <1>2, <2>1, <2>2
<1>6. CASE SubLoadFailed(m) \/ EventDone(m)
  <2> DEFINE q == Decremented(m)
             pr == processRequest(m.d, q)
  <2>1. Resolved(m.d, q, <<>>)
    BY <1>6 DEF SubLoadFailed, EventDone
  <2>2. q \in DeviceRec
    BY <1>1, <1>6, Driven, DecrementFlags
       DEF Decremented, SubLoadFailed, EventDone, Arrives
  <2>3. pr \in Seq(Message) /\ Plain(pr)
    BY <1>1, <2>2, RequestPlain
  <2>4. out' = (out \o <<>>) \o pr \/ out' = out \o <<>>
    BY <2>1 DEF Resolved, ProcessStep
  <2> HIDE DEF pr
  <2> QED
    BY <1>2, <2>3, <2>4
<1>7. CASE SubLoadedWatch(m)
  <2> DEFINE g == Msg("dep_sub", m.d, m.s, FALSE, "wake")
  <2>1. m.s \in Services
    BY <1>1, <1>7 DEF SubLoadedWatch, Arrives, SubOps
  <2>2. g \in Message /\ g.op # "load_sub" /\ g.arg # "nowake"
    BY <1>1, <2>1 DEF Msg, Message, Ops, Args
  <2>3. out' = Append(out, g)
    BY <1>7 DEF SubLoadedWatch
  <2> HIDE DEF g
  <2> QED
    BY <1>3, <2>2, <2>3
<1>8. CASE DepDoneNoWake(m)
  <2>1. out' = out \o <<>>
    BY <1>2, <1>8 DEF DepDoneNoWake
  <2> QED
    BY <1>2, <2>1, Zenon
<1> QED
  BY <1>4, <1>5, <1>6, <1>7, <1>8

\* A service that is dropped or has started: the request that will close its
\* handle, and what follows if the round ends.
LEMMA NoWakeSends ==
    ASSUME IInv, inn # <<>>, NEW m, m = Head(inn), SubLoadedNoWake(m),
           NEW g, g = Msg("dep_sub", m.d, m.s, m.rem, "nowake")
    PROVE  /\ g \in Message
           /\ \E rest \in Seq(Message) :
                 /\ Plain(rest) /\ <<g>> \o rest \in Seq(Message)
                 /\ out' = out \o (<<g>> \o rest)
<1> DEFINE q == Decremented(m)
           pr == processRequest(m.d, q)
<1>1. /\ TypeOK /\ m \in Message /\ m.d \in Devices /\ dev[m.d] \in DeviceRec
      /\ m.rem \in BOOLEAN /\ m.op = "load_sub" /\ m.s \in Services
      /\ dev[m.d].pending_svcs > 0 /\ out \in Seq(Message)
  BY Driven DEF IInv, Inv, SubLoadedNoWake, Arrives, SubOps, TypeOK
<1>2. q \in DeviceRec
  BY <1>1, DecrementFlags DEF Decremented
<1>3. pr \in Seq(Message) /\ Plain(pr)
  BY <1>1, <1>2, RequestPlain
<1>4. g \in Message
  BY <1>1 DEF Msg, Message, Ops, Args
<1>5. out' = (out \o <<g>>) \o pr \/ out' = out \o <<g>>
  BY DEF SubLoadedNoWake, Resolved, ProcessStep
<1> HIDE DEF pr
<1>6. /\ <<g>> \in Seq(Message) /\ <<g>> \o pr \in Seq(Message)
      /\ (out \o <<g>>) \o pr = out \o (<<g>> \o pr)
  BY <1>1, <1>3, <1>4, ConcatTwo, SMTT(60)
<1>7. /\ <<>> \in Seq(Message) /\ Plain(<<>>) /\ <<g>> \o <<>> = <<g>>
  BY <1>6, ConcatSimplifications DEF Plain
<1>8. CASE out' = (out \o <<g>>) \o pr
  <2>1. out' = out \o (<<g>> \o pr)
    BY <1>6, <1>8, Zenon
  <2> QED
    BY <1>3, <1>4, <1>6, <2>1, Zenon
<1>9. CASE out' = out \o <<g>>
  <2>1. out' = out \o (<<g>> \o <<>>) /\ <<g>> \o <<>> \in Seq(Message)
    BY <1>6, <1>7, <1>9, Zenon
  <2> QED
    BY <1>4, <1>7, <2>1, Zenon
<1> QED
  BY <1>5, <1>8, <1>9

\* A batch of loads of d, each service at most once, to drop it or to add it
Apart(P, d, k) ==
    /\ \A i \in DOMAIN P : P[i].op = "load_sub"
    /\ \A s \in Services, a \in BOOLEAN :
          /\ Num(P, LoadKind(d, s, a)) \in {0, 1}
          /\ ~(a <=> k) => Num(P, LoadKind(d, s, a)) = 0

\* The loads of a set of services, in some order, are such a batch.
LEMMA LoadsApart ==
    ASSUME NEW d, NEW S, IsFiniteSet(S), NEW p \in Orders(S), NEW k \in BOOLEAN,
           NEW P, P = [i \in DOMAIN p |-> LoadSub(d, p[i], k)]
    PROVE  Apart(P, d, k)
<1>1. /\ DOMAIN P = DOMAIN p
      /\ \A i \in DOMAIN P : P[i].op = "load_sub" /\ P[i].s = p[i] /\ P[i].rem = k
  BY DEF LoadSub, Msg
<1>2. \A i, j \in DOMAIN p : p[i] = p[j] => i = j
  BY OrdersType
<1>3. ASSUME NEW s \in Services, NEW a \in BOOLEAN
      PROVE  /\ Num(P, LoadKind(d, s, a)) \in {0, 1}
             /\ ~(a <=> k) => Num(P, LoadKind(d, s, a)) = 0
  <2>1. \A x \in LoadKind(d, s, a) : x.s = s /\ x.rem = a
    BY DEF LoadKind
  <2>2. \A i, j \in DOMAIN P :
           P[i] \in LoadKind(d, s, a) /\ P[j] \in LoadKind(d, s, a) => i = j
    BY <1>1, <1>2, <2>1
  <2>3. ~(a <=> k) => \A i \in DOMAIN P : P[i] \notin LoadKind(d, s, a)
    BY <1>1, <2>1
  <2> QED
    BY <2>2, <2>3, NumAtMostOne, NumNone
<1> QED
  BY <1>1, <1>3 DEF Apart

\* The loads of a round: one for every service to drop and for every one to add.
LEMMA LoadSends ==
    ASSUME IInv, inn # <<>>, NEW m, m = Head(inn), SysDepDone(m)
    PROVE  \E sent \in Seq(Message) :
              /\ out' = out \o sent
              /\ \A i \in DOMAIN sent : sent[i].op = "load_sub"
              /\ \A s \in Services, b \in BOOLEAN : Num(sent, LoadKind(m.d, s, b)) \in {0, 1}
<1> DEFINE d == m.d
           r == dev[d]
<1>1. TypeOK /\ d \in Devices /\ r \in DeviceRec /\ out \in Seq(Message)
  BY Driven DEF IInv, Inv, TypeOK
<1>2. PICK b \in Orders(r.dsvcset), c \in Orders(r.psvcset) :
         out' = (out \o [i \in DOMAIN b |-> LoadSub(d, b[i], TRUE)])
                     \o [i \in DOMAIN c |-> LoadSub(d, c[i], FALSE)]
  BY DEF SysDepDone
<1> DEFINE B == [i \in DOMAIN b |-> LoadSub(d, b[i], TRUE)]
           C == [i \in DOMAIN c |-> LoadSub(d, c[i], FALSE)]
<1>3. /\ IsFiniteSet(r.dsvcset) /\ IsFiniteSet(r.psvcset)
      /\ r.dsvcset \in SUBSET Services /\ r.psvcset \in SUBSET Services
  BY <1>1, DeviceAssumption, FS_Subset DEF DeviceRec
<1>4. B \in Seq(Message) /\ C \in Seq(Message)
  BY <1>1, <1>3, LoadBatch, ZenonT(60) DEF LoadsOf
<1>5. Apart(B, d, TRUE) /\ Apart(C, d, FALSE)
  <2>1. /\ B = [i \in DOMAIN b |-> LoadSub(d, b[i], TRUE)]
        /\ C = [i \in DOMAIN c |-> LoadSub(d, c[i], FALSE)]
    OBVIOUS
  <2> HIDE DEF B, C
  <2>2. Apart(B, d, TRUE)
    BY <1>3, <2>1, LoadsApart
  <2>3. Apart(C, d, FALSE)
    BY <1>3, <2>1, LoadsApart
  <2> QED
    BY <2>2, <2>3
<1>6. /\ \A s \in Services, a \in BOOLEAN :
            /\ Num(B, LoadKind(d, s, a)) \in {0, 1} /\ Num(C, LoadKind(d, s, a)) \in {0, 1}
            /\ a => Num(C, LoadKind(d, s, a)) = 0
            /\ ~a => Num(B, LoadKind(d, s, a)) = 0
      /\ \A i \in DOMAIN B : B[i].op = "load_sub"
      /\ \A i \in DOMAIN C : C[i].op = "load_sub"
  <2> HIDE DEF B, C
  <2> QED
    BY <1>5 DEF Apart
<1>7. out' = (out \o B) \o C
  BY <1>2
<1> HIDE DEF B, C
<1>8. B \o C \in Seq(Message) /\ out' = out \o (B \o C)
  <2>1. B \o C \in Seq(Message) /\ (out \o B) \o C = out \o (B \o C)
    BY <1>1, <1>4, ConcatTwo, SMTT(60)
  <2> QED
    BY <1>7, <2>1, Zenon
<1>9. \A i \in DOMAIN (B \o C) : (B \o C)[i].op = "load_sub"
  <2> TAKE i \in DOMAIN (B \o C)
  <2>1. \/ \E j \in DOMAIN B : (B \o C)[i] = B[j]
        \/ \E j \in DOMAIN C : (B \o C)[i] = C[j]
    BY <1>4, ConcatMembers
  <2> QED
    BY <1>6, <2>1
<1>10. ASSUME NEW s \in Services, NEW a \in BOOLEAN
       PROVE  Num(B \o C, LoadKind(d, s, a)) \in {0, 1}
  <2>1. Num(B \o C, LoadKind(d, s, a)) = Num(B, LoadKind(d, s, a)) + Num(C, LoadKind(d, s, a))
    BY <1>4, NumConcat
  <2> QED
    BY <1>6, <2>1
<1> QED
  BY <1>8, <1>9, <1>10

\* The handle of a service: `ld` loads, `op` of them replies with a handle, `cl`
\* requests that will close it, w if an event is awaited on it, h if it is open.
\* It has at most one owner, it is open only if somebody will close it, and
\* whoever uses it has it open.
HandleFits(ld, cl, op, w, h) ==
    /\ ld + cl + w <= 1
    /\ h => op + cl + w > 0
    /\ op + w > 0 => h

Awaits(d, s, b) == IF ~b /\ <<d, s>> \in map_svcdev THEN 1 ELSE 0

HandleOK(d, s, b) ==
    HandleFits(Total(LoadKind(d, s, b)), Total(CloseKind(d, s, b)),
               Num(inn, OpenKind(d, s, b)), Awaits(d, s, b),
               <<d, s, b>> \in handles)

HandlesOK(d) ==
    /\ Ordered(out, inn, d)
    /\ \A s \in Services, b \in BOOLEAN : HandleOK(d, s, b)

\* The counts are natural numbers, and the loads that opened a handle are loads.
LEMMA HandleCounts ==
    ASSUME NEW n \in Seq(Message), NEW d \in Devices, NEW s \in Services, NEW b \in BOOLEAN
    PROVE  /\ Num(n, LoadKind(d, s, b)) \in Nat /\ Num(n, CloseKind(d, s, b)) \in Nat
           /\ Num(n, OpenKind(d, s, b)) \in Nat
           /\ Num(n, OpenKind(d, s, b)) <= Num(n, LoadKind(d, s, b))
           /\ Num(n, CloseKind(d, s, b)) <= Num(n, Closes(d)) /\ Num(n, Closes(d)) \in Nat
           /\ Num(n, LoadKind(d, s, b)) <= Num(n, Kind("load_sub", d))
           /\ Num(n, Kind("load_sub", d)) \in Nat
<1>1. OpenKind(d, s, b) \subseteq LoadKind(d, s, b)
  BY DEF OpenKind, LoadKind
<1>2. CloseKind(d, s, b) \subseteq Closes(d)
  BY DEF CloseKind, Closes
<1>3. LoadKind(d, s, b) \subseteq Kind("load_sub", d)
  BY DEF LoadKind, Kind
<1> QED
  BY <1>1, <1>2, <1>3, NumType, NumSubset

\* The counts for one handle when a callback consumes m and sends `sent`
HandleMoves(m, sent, d, s, b) ==
    /\ Total(LoadKind(d, s, b))' = Total(LoadKind(d, s, b))
          - (IF m \in LoadKind(d, s, b) THEN 1 ELSE 0) + Num(sent, LoadKind(d, s, b))
    /\ Total(CloseKind(d, s, b))' = Total(CloseKind(d, s, b))
          - (IF m \in CloseKind(d, s, b) THEN 1 ELSE 0) + Num(sent, CloseKind(d, s, b))
    /\ Num(inn, OpenKind(d, s, b)) = Num(inn', OpenKind(d, s, b))
          + (IF m \in OpenKind(d, s, b) THEN 1 ELSE 0)
    /\ Num(inn', OpenKind(d, s, b)) \in Nat
    /\ Num(inn', OpenKind(d, s, b)) <= Total(LoadKind(d, s, b))
    /\ m \in LoadKind(d, s, b) =>
          Num(inn', OpenKind(d, s, b)) < Total(LoadKind(d, s, b))
    /\ Total(LoadKind(d, s, b)) \in Nat /\ Total(CloseKind(d, s, b)) \in Nat
    /\ Total(LoadKind(d, s, b))' \in Nat /\ Total(CloseKind(d, s, b))' \in Nat

\* So they move at every callback.
LEMMA HandleCounted ==
    ASSUME TypeOK, inn # <<>>, inn' = Tail(inn), NEW m, m = Head(inn),
           NEW sent \in Seq(Message), out' = out \o sent,
           NEW d \in Devices, NEW s \in Services, NEW b \in BOOLEAN
    PROVE  HandleMoves(m, sent, d, s, b)
<1> DEFINE A == LoadKind(d, s, b)
           B == CloseKind(d, s, b)
           C == OpenKind(d, s, b)
<1>1. out \in Seq(Message) /\ inn \in Seq(Message) /\ inn' \in Seq(Message)
  BY HeadTailProperties DEF TypeOK
<1>2. /\ Num(inn', C) <= Num(inn', A) /\ Num(inn', C) \in Nat /\ Num(inn', A) \in Nat
      /\ Num(out, A) \in Nat
  BY <1>1, HandleCounts
<1> HIDE DEF A, B, C
<1>3. /\ Total(A)' = Total(A) - (IF m \in A THEN 1 ELSE 0) + Num(sent, A)
      /\ Total(A) \in Nat /\ Total(A)' \in Nat
  BY DispatchTotal
<1>4. /\ Total(B)' = Total(B) - (IF m \in B THEN 1 ELSE 0) + Num(sent, B)
      /\ Total(B) \in Nat /\ Total(B)' \in Nat
  BY DispatchTotal
<1>5. /\ Num(inn, C) = Num(inn', C) + (IF m \in C THEN 1 ELSE 0)
      /\ Num(inn, A) = Num(inn', A) + (IF m \in A THEN 1 ELSE 0)
  BY DispatchNum
<1>6. Total(A) = Num(out, A) + Num(inn, A)
  BY DEF Total
<1>7. /\ Num(inn', C) <= Total(A)
      /\ m \in A => Num(inn', C) < Total(A)
  BY <1>2, <1>5, <1>6
<1> QED
  BY <1>2, <1>3, <1>4, <1>5, <1>7 DEF A, B, C, HandleMoves

\* A callback that sends neither loads nor requests that close a handle.
LEMMA PlainHandles ==
    ASSUME IInv, inn # <<>>, inn' = Tail(inn), NEW m, m = Head(inn),
           NEW d \in Devices, d = m.d, HandlesOK(d),
           \/ DevLoaded(m) \/ DevLoadFailed(m) \/ SubLoadFailed(m)
           \/ SubLoadedWatch(m) \/ DepDoneNoWake(m) \/ EventDone(m)
    PROVE  HandlesOK(d)'
<1>1. TypeOK /\ out \in Seq(Message) /\ inn \in Seq(Message)
  BY DEF IInv, Inv, TypeOK
<1>2. /\ m \in Message /\ m.rem \in BOOLEAN
      /\ m.op \in SubOps => m.s \in Services
  BY Driven
<1>3. PICK sent \in Seq(Message) : out' = out \o sent /\ Plain(sent)
  BY PlainSends
<1>4. Ordered(out', inn', d)
  <2>1. Ordered(out, Tail(inn), d) /\ Tail(inn) \in Seq(Message)
    BY <1>1, OrderedTake, HeadTailProperties DEF HandlesOK
  <2>2. Num(sent, Closes(d)) = 0 /\ Before(sent, Closes(d), Starts(d))
    BY <1>3, PlainNone
  <2>3. Ordered(out \o sent, Tail(inn), d)
    BY <1>1, <2>1, <2>2, OrderedSend
  <2> QED
    BY <1>3, <2>3
<1>5. ASSUME NEW s \in Services, NEW b \in BOOLEAN PROVE HandleOK(d, s, b)'
  <2> DEFINE ld == Total(LoadKind(d, s, b))
             cl == Total(CloseKind(d, s, b))
             op == Num(inn, OpenKind(d, s, b))
             inL == m \in LoadKind(d, s, b)
             inC == m \in CloseKind(d, s, b)
             inO == m \in OpenKind(d, s, b)
             ld2 == Total(LoadKind(d, s, b))'
             cl2 == Total(CloseKind(d, s, b))'
             op2 == Num(inn', OpenKind(d, s, b))
             w == Awaits(d, s, b)
             w2 == Awaits(d, s, b)'
             h == <<d, s, b>> \in handles
             h2 == <<d, s, b>> \in handles'
  <2>1. HandleFits(ld, cl, op, w, h)
    BY DEF HandlesOK, HandleOK
  <2>2. Num(sent, LoadKind(d, s, b)) = 0 /\ Num(sent, CloseKind(d, s, b)) = 0
    BY <1>3, PlainNone
  <2>3. /\ ld2 = ld - (IF inL THEN 1 ELSE 0) /\ cl2 = cl - (IF inC THEN 1 ELSE 0)
        /\ op = op2 + (IF inO THEN 1 ELSE 0)
        /\ ld \in Nat /\ cl \in Nat /\ op2 \in Nat /\ ld2 \in Nat /\ cl2 \in Nat
        /\ op2 <= ld /\ (inL => op2 < ld)
    <3>1. HandleMoves(m, sent, d, s, b)
      BY <1>1, <1>3, HandleCounted
    <3>2. /\ ld2 = ld - (IF inL THEN 1 ELSE 0) + Num(sent, LoadKind(d, s, b))
          /\ cl2 = cl - (IF inC THEN 1 ELSE 0) + Num(sent, CloseKind(d, s, b))
          /\ op = op2 + (IF inO THEN 1 ELSE 0)
          /\ ld \in Nat /\ cl \in Nat /\ op2 \in Nat /\ ld2 \in Nat /\ cl2 \in Nat
          /\ op2 <= ld /\ (inL => op2 < ld)
      BY <3>1 DEF HandleMoves
    <3> HIDE DEF ld, cl, op, ld2, cl2, op2, inL, inC, inO
    <3> QED
      BY <2>2, <3>2
  <2>4. /\ inL <=> m.op = "load_sub" /\ m.s = s /\ m.rem = b
        /\ inO <=> inL /\ m.arg # "fail"
        /\ inC <=> m.op = "dep_sub" /\ m.s = s /\ m.rem = b /\ m.arg = "nowake"
    BY <1>2, HandleKinds
  <2>5. w \in {0, 1} /\ w2 \in {0, 1}
    BY DEF Awaits
  <2>6. HandleFits(ld2, cl2, op2, w2, h2) => HandleOK(d, s, b)'
    BY DEF HandleOK
  <2> HIDE DEF ld, cl, op, ld2, cl2, op2, inL, inC, inO
  <2>7. CASE DevLoaded(m) \/ DevLoadFailed(m)
    <3>1. ~inL /\ ~inC /\ ~inO
      BY <2>4, <2>7 DEF DevLoaded, DevLoadFailed, Arrives
    <3>2. w2 = w /\ h2 = h
      BY <2>7 DEF DevLoaded, DevLoadFailed, Awaits
    <3> HIDE DEF w, w2, h, h2
    <3> QED
      BY <2>1, <2>3, <2>5, <2>6, <3>1, <3>2 DEF HandleFits
  <2>8. CASE SubLoadFailed(m)
    <3>1. ~inC /\ ~inO
      BY <2>4, <2>8 DEF SubLoadFailed, Arrives
    <3>2. w2 = w /\ h2 = h
      BY <2>8 DEF SubLoadFailed, Awaits
    <3> HIDE DEF w, w2, h, h2
    <3> QED
      BY <2>1, <2>3, <2>5, <2>6, <3>1, <3>2 DEF HandleFits
  <2>9. CASE SubLoadedWatch(m)
    <3>1. ~inC /\ (inO <=> inL) /\ h2 = h /\ ~m.rem /\ m.op = "load_sub"
      BY <2>4, <2>9 DEF SubLoadedWatch, Arrives
    <3>2. CASE inL
      <4>1. w2 = 1
        BY <2>4, <2>9, <3>1, <3>2 DEF SubLoadedWatch, Awaits
      <4> HIDE DEF w, w2, h, h2
      <4> QED
        BY <2>1, <2>3, <2>5, <2>6, <3>1, <3>2, <4>1 DEF HandleFits
    <3>3. CASE ~inL
      <4>1. w2 = w
        <5>1. b \/ s # m.s
          <6>1. m.rem = FALSE
            BY <1>2, <3>1
          <6> QED
            BY <2>4, <3>1, <3>3, <6>1, Zenon
        <5>2. map_svcdev' = map_svcdev \cup {<<d, m.s>>}
          BY <2>9 DEF SubLoadedWatch
        <5>3. ~b => (<<d, s>> \in map_svcdev' <=> <<d, s>> \in map_svcdev)
          BY <5>1, <5>2
        <5> QED
          BY <5>3 DEF Awaits
      <4> HIDE DEF w, w2, h, h2
      <4> QED
        BY <2>1, <2>3, <2>5, <2>6, <3>1, <3>3, <4>1 DEF HandleFits
    <3> QED
      BY <3>2, <3>3
  <2>10. CASE DepDoneNoWake(m)
    <3>1. ~inL /\ ~inO /\ m.op = "dep_sub" /\ m.arg = "nowake"
      BY <2>4, <2>10 DEF DepDoneNoWake, Arrives
    <3>2. w2 = w
      BY <2>10 DEF DepDoneNoWake, devmonVars, Awaits
    <3>3. CASE inC
      <4>1. ~h2
        BY <2>4, <2>10, <3>3 DEF DepDoneNoWake
      <4> HIDE DEF w, w2, h, h2
      <4> QED
        BY <2>1, <2>3, <2>5, <2>6, <3>1, <3>2, <3>3, <4>1 DEF HandleFits
    <3>4. CASE ~inC
      <4>1. h2 = h
        BY <2>4, <2>10, <3>1, <3>4 DEF DepDoneNoWake
      <4> HIDE DEF w, w2, h, h2
      <4> QED
        BY <2>1, <2>3, <2>5, <2>6, <3>1, <3>2, <3>4, <4>1 DEF HandleFits
    <3> QED
      BY <3>3, <3>4
  <2>11. CASE EventDone(m)
    <3>1. ~inL /\ ~inO /\ ~inC /\ m.op = "event"
      BY <2>4, <2>11 DEF EventDone, Arrives
    <3>2. CASE s = m.s /\ ~b
      <4>1. w = 1 /\ w2 = 0 /\ ~h2
        BY <2>11, <3>2 DEF EventDone, Awaits
      <4> HIDE DEF w, w2, h, h2
      <4> QED
        BY <2>1, <2>3, <2>5, <2>6, <3>1, <4>1 DEF HandleFits
    <3>3. CASE s # m.s \/ b
      <4>1. /\ map_svcdev' = map_svcdev \ {<<d, m.s>>}
            /\ handles' = handles \ {<<d, m.s, FALSE>>}
        BY <2>11 DEF EventDone
      <4>2. ~b => (<<d, s>> \in map_svcdev' <=> <<d, s>> \in map_svcdev)
        BY <3>3, <4>1
      <4>3. <<d, s, b>> # <<d, m.s, FALSE>>
        BY <3>3
      <4>4. w2 = w /\ (h2 <=> h)
        BY <4>1, <4>2, <4>3 DEF Awaits
      <4> HIDE DEF w, w2, h, h2
      <4> QED
        BY <2>1, <2>3, <2>5, <2>6, <3>1, <4>4 DEF HandleFits
    <3> QED
      BY <3>2, <3>3
  <2> QED
    BY <2>7, <2>8, <2>9, <2>10, <2>11
<1> QED
  BY <1>4, <1>5 DEF HandlesOK

\* A service that is dropped or has started: its handle passes from the load to
\* the request that will close it.
LEMMA NoWakeHandles ==
    ASSUME IInv, inn # <<>>, inn' = Tail(inn), NEW m, m = Head(inn),
           NEW d \in Devices, d = m.d, HandlesOK(d), SubLoadedNoWake(m)
    PROVE  HandlesOK(d)'
<1> DEFINE g == Msg("dep_sub", m.d, m.s, m.rem, "nowake")
<1>1. TypeOK /\ out \in Seq(Message) /\ inn \in Seq(Message)
  BY DEF IInv, Inv, TypeOK
<1>2. /\ m \in Message /\ m.rem \in BOOLEAN /\ m.op = "load_sub" /\ m.s \in Services
      /\ InFlight("load_dev", d) = 0 /\ InFlight("dep_sys", d) = 0 /\ m.arg # "fail"
      /\ map_svcdev' = map_svcdev /\ handles' = handles
  BY Driven DEF SubLoadedNoWake, Arrives, SubOps
<1>3. g \in Message /\ \E rest \in Seq(Message) :
         Plain(rest) /\ <<g>> \o rest \in Seq(Message) /\ out' = out \o (<<g>> \o rest)
  BY NoWakeSends
<1>4. /\ g.op = "dep_sub" /\ g.d = d /\ g.s = m.s /\ g.rem = m.rem /\ g.arg = "nowake"
  BY DEF Msg
<1> HIDE DEF g
<1>5. PICK rest \in Seq(Message) :
         Plain(rest) /\ <<g>> \o rest \in Seq(Message) /\ out' = out \o (<<g>> \o rest)
  BY <1>3
<1>6. <<g>> \in Seq(Message)
  BY <1>3
<1>7. \A K : Num(<<g>> \o rest, K) = (IF g \in K THEN 1 ELSE 0) + Num(rest, K)
  <2> TAKE K
  <2>1. Num(<<g>> \o rest, K) = Num(<<g>>, K) + Num(rest, K)
    BY <1>6, NumConcat
  <2> QED
    BY <2>1, NumOne
<1>8. Ordered(out', inn', d)
  <2>1. Ordered(out, Tail(inn), d) /\ Tail(inn) \in Seq(Message)
    BY <1>1, OrderedTake, HeadTailProperties DEF HandlesOK
  <2>2. Num(rest, Closes(d)) = 0 /\ Before(rest, Closes(d), Starts(d))
    BY <1>5, PlainNone
  <2>3. g \notin Starts(d)
    BY <1>3, <1>4, HandleKinds
  <2>4. Before(<<g>>, Closes(d), Starts(d))
    BY <2>3 DEF Before
  <2>5. Before(<<g>> \o rest, Closes(d), Starts(d))
    BY <1>6, <2>2, <2>4, BeforeConcat
  <2>6. Num(out, Starts(d)) = 0 /\ Num(Tail(inn), Starts(d)) = 0
    <3>1. ASSUME NEW q \in Seq(Message), Num(q, Kind("load_dev", d)) = 0,
                 Num(q, Kind("dep_sys", d)) = 0
          PROVE  Num(q, Starts(d)) = 0
      <4>1. \A i \in DOMAIN q : q[i] \notin Kind("load_dev", d) /\ q[i] \notin Kind("dep_sys", d)
        BY <3>1, NumZero
      <4>2. \A i \in DOMAIN q : q[i] \notin Starts(d)
        BY <4>1 DEF Starts
      <4> QED
        BY <4>2, NumNone
    <3>2. ASSUME NEW op \in {"load_dev", "dep_sys"}
          PROVE  Num(out, Kind(op, d)) = 0 /\ Num(Tail(inn), Kind(op, d)) = 0
      <4> DEFINE K == Kind(op, d)
      <4>1. Num(out, K) + Num(inn, K) = 0
        BY <1>2 DEF InFlight, Total
      <4> HIDE DEF K
      <4>2. /\ Num(inn, K) = Num(Tail(inn), K) + (IF m \in K THEN 1 ELSE 0)
            /\ Num(out, K) \in Nat /\ Num(Tail(inn), K) \in Nat
        BY <1>1, <2>1, NumTail, NumType
      <4> QED
        BY <4>1, <4>2 DEF K
    <3> QED
      BY <1>1, <2>1, <3>1, <3>2
  <2> HIDE DEF Ordered
  <2>7. Ordered(out \o (<<g>> \o rest), Tail(inn), d)
    BY <1>1, <1>5, <2>1, <2>5, <2>6, OrderedSend
  <2> QED
    BY <1>5, <2>7
<1>9. ASSUME NEW s \in Services, NEW b \in BOOLEAN PROVE HandleOK(d, s, b)'
  <2> DEFINE ld == Total(LoadKind(d, s, b))
             cl == Total(CloseKind(d, s, b))
             op == Num(inn, OpenKind(d, s, b))
             ld2 == Total(LoadKind(d, s, b))'
             cl2 == Total(CloseKind(d, s, b))'
             op2 == Num(inn', OpenKind(d, s, b))
             x == IF m.s = s /\ m.rem = b THEN 1 ELSE 0
             w == Awaits(d, s, b)
             h == <<d, s, b>> \in handles
  <2>1. HandleFits(ld, cl, op, w, h)
    BY DEF HandlesOK, HandleOK
  <2>2. Num(rest, LoadKind(d, s, b)) = 0 /\ Num(rest, CloseKind(d, s, b)) = 0
    BY <1>5, PlainNone
  <2>3. /\ m \in LoadKind(d, s, b) <=> x = 1
        /\ m \in OpenKind(d, s, b) <=> x = 1
        /\ m \notin CloseKind(d, s, b)
        /\ g \notin LoadKind(d, s, b)
        /\ g \in CloseKind(d, s, b) <=> x = 1
    BY <1>2, <1>3, <1>4, HandleKinds
  <2>4. x \in {0, 1}
    OBVIOUS
  <2>5. /\ Num(<<g>> \o rest, LoadKind(d, s, b)) = 0
        /\ Num(<<g>> \o rest, CloseKind(d, s, b)) = x
    BY <1>7, <2>2, <2>3, <2>4
  <2> HIDE DEF x
  <2>6. /\ ld2 = ld - x /\ cl2 = cl + x /\ op = op2 + x
        /\ ld \in Nat /\ cl \in Nat /\ op2 \in Nat /\ ld2 \in Nat /\ cl2 \in Nat
        /\ op2 <= ld /\ (x = 1 => op2 < ld)
    <3>1. /\ ld2 = ld - (IF m \in LoadKind(d, s, b) THEN 1 ELSE 0)
                + Num(<<g>> \o rest, LoadKind(d, s, b))
          /\ cl2 = cl - (IF m \in CloseKind(d, s, b) THEN 1 ELSE 0)
                + Num(<<g>> \o rest, CloseKind(d, s, b))
          /\ op = op2 + (IF m \in OpenKind(d, s, b) THEN 1 ELSE 0)
          /\ op2 \in Nat /\ op2 <= ld
          /\ m \in LoadKind(d, s, b) => op2 < ld
          /\ ld \in Nat /\ cl \in Nat /\ ld2 \in Nat /\ cl2 \in Nat
      <4>1. HandleMoves(m, <<g>> \o rest, d, s, b)
        BY <1>1, <1>5, HandleCounted
      <4> QED
        BY <4>1 DEF HandleMoves
    <3> HIDE DEF ld, cl, op, ld2, cl2, op2
    <3> QED
      BY <2>3, <2>4, <2>5, <3>1
  <2>7. w \in {0, 1}
    BY DEF Awaits
  <2>8. HandleFits(ld2, cl2, op2, w, h) => HandleOK(d, s, b)'
    BY <1>2 DEF HandleOK, Awaits
  <2> HIDE DEF ld, cl, op, ld2, cl2, op2, w, h
  <2> QED
    BY <2>1, <2>4, <2>6, <2>7, <2>8 DEF HandleFits
<1> QED
  BY <1>8, <1>9 DEF HandlesOK

\* `system` has been changed and the services are loaded: the handles of the
\* round before are all closed, for what closes them came back first.
LEMMA LoadHandles ==
    ASSUME IInv, inn # <<>>, inn' = Tail(inn), NEW m, m = Head(inn),
           NEW d \in Devices, d = m.d, HandlesOK(d), SysDepDone(m)
    PROVE  HandlesOK(d)'
<1>1. /\ TypeOK /\ out \in Seq(Message) /\ inn \in Seq(Message) /\ Acct(d)
  BY DEF IInv, Inv, TypeOK
<1>2. /\ m \in Message /\ m.rem \in BOOLEAN /\ m.op = "dep_sys"
      /\ dev[d] \in DeviceRec /\ dev[d].pending_svcs = 0
      /\ map_svcdev' = map_svcdev /\ handles' = handles
  BY Driven DEF SysDepDone, Arrives
<1>3. PICK sent \in Seq(Message) :
         /\ out' = out \o sent
         /\ \A i \in DOMAIN sent : sent[i].op = "load_sub"
         /\ \A s \in Services, b \in BOOLEAN : Num(sent, LoadKind(m.d, s, b)) \in {0, 1}
  BY LoadSends
<1>4. \A i \in DOMAIN sent : sent[i] \notin Closes(d)
  BY <1>3 DEF Closes
<1>5. Ordered(out', inn', d)
  <2>1. Ordered(out, Tail(inn), d) /\ Tail(inn) \in Seq(Message)
    BY <1>1, OrderedTake, HeadTailProperties DEF HandlesOK
  <2>2. Num(sent, Closes(d)) = 0 /\ Before(sent, Closes(d), Starts(d))
    BY <1>4, NumNone DEF Before
  <2>3. Ordered(out \o sent, Tail(inn), d)
    BY <1>1, <2>1, <2>2, OrderedSend
  <2> QED
    BY <1>3, <2>3
<1>6. Num(out, Closes(d)) = 0 /\ Num(inn, Closes(d)) = 0
  <2>1. m \in Starts(d)
    BY <1>2, HandleKinds
  <2>2. /\ Before(inn, Closes(d), Starts(d))
        /\ Num(inn, Starts(d)) > 0 => Num(out, Closes(d)) = 0
    BY DEF HandlesOK, Ordered
  <2>3. Num(inn, Closes(d)) = 0
    BY <1>1, <2>1, <2>2, BeforeHead
  <2>4. /\ Num(inn, Starts(d)) = Num(Tail(inn), Starts(d)) + 1
        /\ Num(Tail(inn), Starts(d)) \in Nat
    BY <1>1, <2>1, NumTail, NumType, HeadTailProperties
  <2> QED
    BY <2>2, <2>3, <2>4
<1>7. Watched(d) = {} /\ Num(out, Kind("load_sub", d)) = 0
      /\ Num(inn, Kind("load_sub", d)) = 0
  <2>1. /\ Cardinality(Watched(d)) \in Nat /\ IsFiniteSet(Watched(d))
        /\ Num(out, Kind("load_sub", d)) \in Nat /\ Num(inn, Kind("load_sub", d)) \in Nat
    BY <1>1, WatchedType, NumType
  <2>2. InFlight("load_sub", d) + Cardinality(Watched(d)) = 0
    BY <1>1, <1>2 DEF Acct, RoundOK
  <2>3. Num(out, Kind("load_sub", d)) + Num(inn, Kind("load_sub", d))
           + Cardinality(Watched(d)) = 0
    BY <2>2 DEF InFlight, Total
  <2>4. Cardinality(Watched(d)) = 0
    BY <2>1, <2>3
  <2> QED
    BY <2>1, <2>3, <2>4, FS_EmptySet
<1>8. ASSUME NEW s \in Services, NEW b \in BOOLEAN PROVE HandleOK(d, s, b)'
  <2> DEFINE ld == Total(LoadKind(d, s, b))
             cl == Total(CloseKind(d, s, b))
             op == Num(inn, OpenKind(d, s, b))
             ld2 == Total(LoadKind(d, s, b))'
             cl2 == Total(CloseKind(d, s, b))'
             op2 == Num(inn', OpenKind(d, s, b))
             w == Awaits(d, s, b)
             h == <<d, s, b>> \in handles
  <2>1. HandleFits(ld, cl, op, w, h)
    BY DEF HandlesOK, HandleOK
  <2>2. ld = 0 /\ cl = 0
    <3>1. /\ Num(out, LoadKind(d, s, b)) = 0 /\ Num(inn, LoadKind(d, s, b)) = 0
      <4>1. /\ Num(out, LoadKind(d, s, b)) \in Nat
            /\ Num(out, LoadKind(d, s, b)) <= Num(out, Kind("load_sub", d))
        BY <1>1, HandleCounts
      <4>2. /\ Num(inn, LoadKind(d, s, b)) \in Nat
            /\ Num(inn, LoadKind(d, s, b)) <= Num(inn, Kind("load_sub", d))
        BY <1>1, HandleCounts
      <4> QED
        BY <1>7, <4>1, <4>2
    <3>2. Num(out, CloseKind(d, s, b)) = 0 /\ Num(inn, CloseKind(d, s, b)) = 0
      <4>1. /\ Num(out, CloseKind(d, s, b)) \in Nat
            /\ Num(out, CloseKind(d, s, b)) <= Num(out, Closes(d))
        BY <1>1, HandleCounts
      <4>2. /\ Num(inn, CloseKind(d, s, b)) \in Nat
            /\ Num(inn, CloseKind(d, s, b)) <= Num(inn, Closes(d))
        BY <1>1, HandleCounts
      <4> QED
        BY <1>6, <4>1, <4>2
    <3> QED
      BY <3>1, <3>2 DEF Total
  <2>3. w = 0
    BY <1>7 DEF Awaits, Watched
  <2>4. m \notin LoadKind(d, s, b) /\ m \notin CloseKind(d, s, b) /\ m \notin OpenKind(d, s, b)
    BY <1>2, HandleKinds
  <2>5. Num(sent, LoadKind(d, s, b)) \in {0, 1} /\ Num(sent, CloseKind(d, s, b)) = 0
    <3>1. \A i \in DOMAIN sent : sent[i] \notin CloseKind(d, s, b)
      BY <1>3 DEF CloseKind
    <3> QED
      BY <1>3, <3>1, NumNone
  <2>6. /\ ld2 = ld + Num(sent, LoadKind(d, s, b)) /\ cl2 = cl + 0 /\ op = op2
        /\ op2 \in Nat /\ op2 <= ld /\ ld \in Nat /\ cl \in Nat
    <3>1. /\ ld2 = ld - (IF m \in LoadKind(d, s, b) THEN 1 ELSE 0)
                + Num(sent, LoadKind(d, s, b))
          /\ cl2 = cl - (IF m \in CloseKind(d, s, b) THEN 1 ELSE 0)
                + Num(sent, CloseKind(d, s, b))
          /\ op = op2 + (IF m \in OpenKind(d, s, b) THEN 1 ELSE 0)
          /\ op2 \in Nat /\ op2 <= ld /\ ld \in Nat /\ cl \in Nat
      <4>1. HandleMoves(m, sent, d, s, b)
        BY <1>1, <1>3, HandleCounted
      <4> QED
        BY <4>1 DEF HandleMoves
    <3> HIDE DEF ld, cl, op, ld2, cl2, op2
    <3> QED
      BY <2>4, <2>5, <3>1
  <2>7. HandleFits(ld2, cl2, op2, w, h) => HandleOK(d, s, b)'
    BY <1>2 DEF HandleOK, Awaits
  <2> HIDE DEF ld, cl, op, ld2, cl2, op2, w, h
  <2> QED
    BY <2>1, <2>2, <2>3, <2>5, <2>6, <2>7 DEF HandleFits
<1> QED
  BY <1>5, <1>8 DEF HandlesOK

\* A step of no account to a device leaves its handles as they are.
LEMMA HandlesUntouched ==
    ASSUME NEW d \in Devices, Untouched(d), HandlesOK(d), Ordered(out', inn', d)
    PROVE  HandlesOK(d)'
<1>1. ASSUME NEW s \in Services, NEW b \in BOOLEAN PROVE HandleOK(d, s, b)'
  <2>1. /\ LoadKind(d, s, b) \in SUBSET Lane(d) /\ CloseKind(d, s, b) \in SUBSET Lane(d)
        /\ OpenKind(d, s, b) \in SUBSET Lane(d)
    BY DEF LoadKind, CloseKind, OpenKind, Lane, Tracked, Message, Ops, Args
  <2>2. /\ Total(LoadKind(d, s, b))' = Total(LoadKind(d, s, b))
        /\ Total(CloseKind(d, s, b))' = Total(CloseKind(d, s, b))
        /\ Num(inn', OpenKind(d, s, b)) = Num(inn, OpenKind(d, s, b))
    BY <2>1 DEF Untouched, Total
  <2>3. /\ Awaits(d, s, b)' = Awaits(d, s, b)
        /\ <<d, s, b>> \in handles' <=> <<d, s, b>> \in handles
    BY DEF Untouched, Awaits
  <2>4. HandleFits(Total(LoadKind(d, s, b)), Total(CloseKind(d, s, b)),
                   Num(inn, OpenKind(d, s, b)), Awaits(d, s, b), <<d, s, b>> \in handles)
    BY DEF HandlesOK, HandleOK
  <2> QED
    BY <2>2, <2>3, <2>4 DEF HandleOK, HandleFits
<1> QED
  BY <1>1 DEF HandlesOK

\* A callback keeps the order of the messages about other devices, and so does
\* one that sends nothing that closes a handle.
LEMMA OrderedOthers ==
    ASSUME IInv, Dispatch, NEW d \in Devices, Ordered(out, inn, d),
           \/ d # Head(inn).d
           \/ DepDoneWake(Head(inn)) \/ EventIgnored(Head(inn))
    PROVE  Ordered(out', inn', d)
<1> DEFINE m == Head(inn)
<1>1. /\ TypeOK /\ inn # <<>> /\ inn' = Tail(inn)
      /\ out \in Seq(Message) /\ inn \in Seq(Message)
  BY DEF IInv, Inv, Dispatch, TypeOK
<1>2. Ordered(out, Tail(inn), d) /\ Tail(inn) \in Seq(Message)
  BY <1>1, OrderedTake, HeadTailProperties
<1>3. \E sent \in Seq(Message) :
         /\ out' = out \o sent
         /\ \A i \in DOMAIN sent : sent[i] \notin Closes(d)
  <2>1. CASE d # m.d
    <3>1. PICK sent \in Seq(Message) :
             out' = out \o sent /\ \A i \in DOMAIN sent : sent[i].d = m.d
      BY DispatchSends
    <3>2. \A i \in DOMAIN sent : sent[i] \notin Closes(d)
      BY <2>1, <3>1 DEF Closes
    <3> QED
      BY <3>1, <3>2
  <2>2. CASE DepDoneWake(m)
    <3> DEFINE a == IF <<m.d, m.s, FALSE>> \in handles THEN "" ELSE "closed"
               g == Msg("wake", m.d, m.s, FALSE, a)
    <3>1. m.s \in Services /\ "wake" \in Ops /\ a \in Args /\ m.d \in Devices
      BY <1>1, <2>2, Driven DEF DepDoneWake, Arrives, SubOps, Ops, Args
    <3>2. out' = Append(out, g)
      BY <2>2 DEF DepDoneWake
    <3> HIDE DEF a
    <3>3. g \in Message /\ g.op = "wake"
      BY <3>1 DEF Msg, Message
    <3> HIDE DEF g
    <3>4. out' = out \o <<g>> /\ <<g>> \in Seq(Message)
      BY <1>1, <3>2, <3>3, AppendIsConcat
    <3>5. \A i \in DOMAIN <<g>> : <<g>>[i] \notin Closes(d)
      BY <3>3 DEF Closes
    <3> QED
      BY <3>4, <3>5, Zenon
  <2>3. CASE EventIgnored(m)
    <3>1. out' = out \o <<>> /\ <<>> \in Seq(Message)
      BY <1>1, <2>3, ConcatSimplifications DEF EventIgnored
    <3>2. DOMAIN <<>> = {}
      OBVIOUS
    <3> QED
      BY <3>1, <3>2, Zenon
  <2> QED
    BY <2>1, <2>2, <2>3
<1>4. PICK sent \in Seq(Message) :
         /\ out' = out \o sent
         /\ \A i \in DOMAIN sent : sent[i] \notin Closes(d)
  BY <1>3
<1>5. Num(sent, Closes(d)) = 0 /\ Before(sent, Closes(d), Starts(d))
  BY <1>4, NumNone DEF Before
<1>6. Ordered(out \o sent, Tail(inn), d)
  BY <1>1, <1>2, <1>5, OrderedSend
<1> QED
  BY <1>1, <1>4, <1>6

\* What a callback does to the handles of a device.
LEMMA DispatchHandles ==
    ASSUME IInv, Dispatch, NEW d \in Devices, HandlesOK(d)
    PROVE  HandlesOK(d)'
<1> DEFINE m == Head(inn)
<1>1. inn # <<>> /\ inn' = Tail(inn)
  BY DEF Dispatch
<1>2. DevLoaded(m) \/ DevLoadFailed(m) \/ SysDepDone(m)
      \/ SubLoadFailed(m) \/ SubLoadedNoWake(m) \/ SubLoadedWatch(m)
      \/ DepDoneNoWake(m) \/ DepDoneWake(m) \/ EventDone(m) \/ EventIgnored(m)
  BY DEF Dispatch
<1>3. Ordered(out, inn, d)
  BY DEF HandlesOK
<1>4. CASE d # m.d \/ DepDoneWake(m) \/ EventIgnored(m)
  <2>1. Untouched(d)
    BY <1>4, DispatchOthers, DispatchNothing
  <2>2. Ordered(out', inn', d)
    BY <1>3, <1>4, OrderedOthers
  <2> QED
    BY <2>1, <2>2, HandlesUntouched
<1>5. CASE d = m.d /\ SysDepDone(m)
  BY <1>1, <1>5, LoadHandles
<1>6. CASE d = m.d /\ SubLoadedNoWake(m)
  BY <1>1, <1>6, NoWakeHandles
<1>7. CASE d = m.d /\ (DevLoaded(m) \/ DevLoadFailed(m) \/ SubLoadFailed(m)
                          \/ SubLoadedWatch(m) \/ DepDoneNoWake(m) \/ EventDone(m))
  BY <1>1, <1>7, PlainHandles
<1> QED
  BY <1>2, <1>4, <1>5, <1>6, <1>7

\* dinit serves a request: a load opens the handle it answers with.
LEMMA ServeHandles ==
    ASSUME IInv, Serve, NEW d \in Devices, HandlesOK(d)
    PROVE  HandlesOK(d)'
<1> DEFINE m == Head(out)
<1>1. /\ TypeOK /\ out # <<>> /\ out' = Tail(out) /\ out \in Seq(Proper)
      /\ map_svcdev' = map_svcdev /\ out \in Seq(Message) /\ inn \in Seq(Message)
  BY DEF IInv, Inv, Named, Serve, devmonVars, TypeOK
<1>2. /\ m \in Message /\ m.d \in Devices /\ m.arg \in Args /\ m.rem \in BOOLEAN
      /\ m.op \in SubOps => m.s \in Services
  BY <1>1, HeadProper
<1>3. ServeLoadDev(m) \/ ServeDepSys(m) \/ ServeLoadSub(m)
         \/ ServeDepSub(m) \/ ServeWake(m)
  BY DEF Serve
<1>4. m = Head(out) /\ Ordered(out, inn, d)
  BY DEF HandlesOK
<1> HIDE DEF m
<1>5. Ordered(Tail(out), inn, d)
      /\ \A g \in Message :
            /\ g \in Starts(d) <=> m \in Starts(d)
            /\ g \in Closes(d) <=> m \in Closes(d)
            => Ordered(Tail(out), Append(inn, g), d)
  BY <1>1, <1>4, OrderedServe
<1>6. CASE m.op = "wake"
  <2>1. inn' = inn
    BY <1>3, <1>6 DEF ServeLoadDev, ServeDepSys, ServeLoadSub, ServeDepSub, ServeWake
  <2>2. Untouched(d)
    BY <1>4, <1>6, ServeOthers
  <2>3. Ordered(out', inn', d)
    BY <1>1, <1>5, <2>1
  <2> QED
    BY <2>2, <2>3, HandlesUntouched
<1>7. CASE m.op # "wake"
  <2>1. PICK a \in Args :
           /\ Answer(m, a) /\ (m.op = "dep_sub" => a = m.arg)
           /\ m.op # "load_sub" => handles' = handles
           /\ m.op = "load_sub" =>
                 \/ a = "fail" /\ handles' = handles
                 \/ a # "fail" /\ handles' = handles \cup {<<m.d, m.s, m.rem>>}
    BY <1>2, <1>3, <1>7
       DEF ServeLoadDev, ServeDepSys, ServeLoadSub, ServeDepSub, ServeWake, Args
  <2> DEFINE g == [m EXCEPT !.arg = a]
  <2>2. /\ g \in Message /\ g.op = m.op /\ g.d = m.d /\ g.s = m.s /\ g.rem = m.rem
        /\ g.arg = a
    BY <1>2 DEF Message
  <2>3. inn' = Append(inn, g)
    BY <2>1 DEF Answer
  <2> HIDE DEF g
  <2>4. Ordered(out', inn', d)
    <3>1. /\ g \in Starts(d) <=> m \in Starts(d)
          /\ g \in Closes(d) <=> m \in Closes(d)
      BY <1>2, <2>1, <2>2, HandleKinds
    <3> QED
      BY <1>1, <1>5, <2>2, <2>3, <3>1
  <2>5. ASSUME NEW s \in Services, NEW b \in BOOLEAN PROVE HandleOK(d, s, b)'
    <3> DEFINE ld == Total(LoadKind(d, s, b))
               cl == Total(CloseKind(d, s, b))
               op == Num(inn, OpenKind(d, s, b))
               ld2 == Total(LoadKind(d, s, b))'
               cl2 == Total(CloseKind(d, s, b))'
               op2 == Num(inn', OpenKind(d, s, b))
               w == Awaits(d, s, b)
               h == <<d, s, b>> \in handles
               h2 == <<d, s, b>> \in handles'
    <3>1. HandleFits(ld, cl, op, w, h)
      BY DEF HandlesOK, HandleOK
    <3>2. \A K : /\ Num(out, K) = Num(out', K) + (IF m \in K THEN 1 ELSE 0)
                 /\ Num(inn', K) = Num(inn, K) + (IF g \in K THEN 1 ELSE 0)
                 /\ Num(inn, K) \in Nat /\ Num(out', K) \in Nat
      BY <1>1, <1>4, <2>2, <2>3, AnswerNum
    <3>3. /\ m \in LoadKind(d, s, b) <=>
                m.op = "load_sub" /\ m.d = d /\ m.s = s /\ m.rem = b
          /\ g \in LoadKind(d, s, b) <=> m \in LoadKind(d, s, b)
          /\ g \in CloseKind(d, s, b) <=> m \in CloseKind(d, s, b)
          /\ g \in OpenKind(d, s, b) <=> m \in LoadKind(d, s, b) /\ a # "fail"
      BY <1>2, <2>1, <2>2, HandleKinds
    <3>4. ld2 = ld /\ cl2 = cl /\ ld \in Nat /\ cl \in Nat
      <4>1. ASSUME NEW K, g \in K <=> m \in K
            PROVE  Total(K)' = Total(K) /\ Total(K) \in Nat
        BY <3>2, <4>1 DEF Total
      <4> QED
        BY <3>3, <4>1
    <3>5. /\ op2 = op + (IF g \in OpenKind(d, s, b) THEN 1 ELSE 0)
          /\ op \in Nat /\ op2 \in Nat
      BY <3>2
    <3>6. m \in LoadKind(d, s, b) => op < ld
      <4> SUFFICES ASSUME m \in LoadKind(d, s, b) PROVE op < ld
        OBVIOUS
      <4>1. /\ Num(out, LoadKind(d, s, b)) = Num(out', LoadKind(d, s, b)) + 1
            /\ Num(out', LoadKind(d, s, b)) \in Nat
        BY <3>2
      <4>2. /\ Num(inn, OpenKind(d, s, b)) <= Num(inn, LoadKind(d, s, b))
            /\ Num(inn, LoadKind(d, s, b)) \in Nat
            /\ Num(inn, OpenKind(d, s, b)) \in Nat
        BY <1>1, HandleCounts
      <4> QED
        BY <4>1, <4>2 DEF Total
    <3>7. w \in {0, 1}
      BY DEF Awaits
    <3>8. HandleFits(ld2, cl2, op2, w, h2) => HandleOK(d, s, b)'
      BY <1>1 DEF HandleOK, Awaits
    <3> HIDE DEF ld, cl, op, ld2, cl2, op2, w
    <3>9. CASE g \in OpenKind(d, s, b)
      <4>1. h2
        BY <2>1, <3>3, <3>9
      <4> HIDE DEF h, h2
      <4> QED
        BY <3>1, <3>4, <3>5, <3>6, <3>7, <3>8, <3>9, <4>1 DEF HandleFits
    <3>10. CASE g \notin OpenKind(d, s, b)
      <4>1. h2 = h
        BY <2>1, <3>3, <3>10
      <4> HIDE DEF h, h2
      <4> QED
        BY <3>1, <3>4, <3>5, <3>7, <3>8, <3>10, <4>1 DEF HandleFits
    <3> QED
      BY <3>9, <3>10
  <2> QED
    BY <2>4, <2>5 DEF HandlesOK
<1> QED
  BY <1>6, <1>7

\* The lives of the services and the events of udev open and close no handle.
LEMMA InputHandles ==
    ASSUME IInv, NEW d \in Devices, HandlesOK(d),
           \/ \E s \in Services : SvcFinish(s) \/ SvcBegin(s)
           \/ \E e \in Devices : Udev(e)
    PROVE  HandlesOK(d)'
<1>1. /\ TypeOK /\ out \in Seq(Message) /\ inn \in Seq(Message) /\ Ordered(out, inn, d)
  BY DEF IInv, Inv, TypeOK, HandlesOK
<1>2. ASSUME NEW s \in Services, SvcFinish(s) \/ SvcBegin(s) PROVE HandlesOK(d)'
  <2>1. out' = out
    BY <1>2 DEF SvcFinish, SvcBegin
  <2>2. Ordered(out', inn', d)
    <3>1. CASE SvcBegin(s)
      BY <1>1, <2>1, <3>1 DEF SvcBegin
    <3>2. CASE SvcFinish(s)
      <4>1. PICK what \in Args : Tell(s, what)
        BY <3>2, FinishTells
      <4>2. PICK ev \in Seq(Message) :
               /\ inn' = inn \o ev /\ ev \in Seq(Proper)
               /\ \A i \in DOMAIN ev : ev[i] \in Message /\ ev[i].op = "event"
        BY <1>1, <4>1, TellSends
      <4>3. \A i \in DOMAIN ev : ev[i] \notin Closes(d) /\ ev[i] \notin Starts(d)
        BY <4>2, HandleKinds
      <4>4. Num(ev, Closes(d)) = 0 /\ Num(ev, Starts(d)) = 0
        BY <4>3, NumNone
      <4>5. Ordered(out, inn \o ev, d)
        BY <1>1, <4>4, OrderedTell
      <4> QED
        BY <2>1, <4>2, <4>5
    <3> QED
      BY <1>2, <3>1, <3>2
  <2>3. Untouched(d)
    BY <1>2, ServiceNothing
  <2> QED
    BY <2>2, <2>3, HandlesUntouched
<1>3. ASSUME NEW e \in Devices, Udev(e) PROVE HandlesOK(d)'
  <2>1. PICK there \in BOOLEAN, tag \in BOOLEAN, svcs \in SUBSET Services,
             r \in DeviceRec, q \in DeviceRec : UdevPost(e, there, tag, svcs, r, q)
    BY <1>3, UdevShape
  <2>2. HandleEffects(e, r, svcs) /\ UNCHANGED <<map_svcdev, inn, handles>>
    BY <2>1 DEF UdevPost
  <2>3. PICK sent \in Seq(Message) : out' = out \o sent /\ Plain(sent)
    <3>1. CASE out' = out
      <4>1. out' = out \o <<>> /\ <<>> \in Seq(Message) /\ Plain(<<>>)
        BY <1>1, <3>1, ConcatSimplifications DEF Plain
      <4> QED
        BY <4>1, Zenon
    <3>2. CASE out' = out \o processRequest(e, [r EXCEPT !.pending = TRUE])
      <4> DEFINE p == [r EXCEPT !.pending = TRUE]
      <4>1. p \in DeviceRec
        BY DEF DeviceRec
      <4> HIDE DEF p
      <4>2. processRequest(e, p) \in Seq(Message) /\ Plain(processRequest(e, p))
        BY <4>1, RequestPlain
      <4> QED
        BY <3>2, <4>2 DEF p
    <3> QED
      BY <2>2, <3>1, <3>2 DEF HandleEffects
  <2>4. /\ Num(sent, Closes(d)) = 0 /\ Before(sent, Closes(d), Starts(d))
        /\ \A s \in Services, b \in BOOLEAN :
              Num(sent, LoadKind(d, s, b)) = 0 /\ Num(sent, CloseKind(d, s, b)) = 0
    BY <2>3, PlainNone
  <2>5. Ordered(out', inn', d)
    <3>1. Ordered(out \o sent, inn, d)
      BY <1>1, <2>4, OrderedSend
    <3> QED
      BY <2>2, <2>3, <3>1
  <2>6. ASSUME NEW s \in Services, NEW b \in BOOLEAN PROVE HandleOK(d, s, b)'
    <3>1. ASSUME NEW K, Num(sent, K) = 0 PROVE Total(K)' = Total(K)
      <4>1. Total(K)' = Total(K) + Num(sent, K) /\ Total(K) \in Nat
        BY <1>1, <2>2, <2>3, SendTotal
      <4> QED
        BY <3>1, <4>1
    <3>2. /\ Total(LoadKind(d, s, b))' = Total(LoadKind(d, s, b))
          /\ Total(CloseKind(d, s, b))' = Total(CloseKind(d, s, b))
      BY <2>4, <3>1
    <3>3. HandleFits(Total(LoadKind(d, s, b)), Total(CloseKind(d, s, b)),
                     Num(inn, OpenKind(d, s, b)), Awaits(d, s, b), <<d, s, b>> \in handles)
      BY DEF HandlesOK, HandleOK
    <3> QED
      BY <2>2, <3>2, <3>3 DEF HandleOK, Awaits
  <2> QED
    BY <2>5, <2>6 DEF HandlesOK
<1> QED
  BY <1>2, <1>3

HandlesInv == \A d \in Devices : HandlesOK(d)

\* The handles are accounted for at every step.
LEMMA HandlesNext ==
    ASSUME IInv, HandlesInv, [Next]_vars
    PROVE  HandlesInv'
<1> SUFFICES ASSUME NEW d \in Devices PROVE HandlesOK(d)'
  BY DEF HandlesInv
<1>1. HandlesOK(d)
  BY DEF HandlesInv
<1>2. CASE Dispatch
  BY <1>1, <1>2, DispatchHandles
<1>3. CASE Serve
  BY <1>1, <1>3, ServeHandles
<1>4. CASE \/ \E s \in Services : SvcFinish(s) \/ SvcBegin(s)
           \/ \E e \in Devices : Udev(e)
  BY <1>1, <1>4, InputHandles
<1>5. CASE Restart
  <2>1. /\ out' = <<>> /\ inn' = <<>> /\ map_svcdev' = {} /\ handles' = {}
    BY <1>5 DEF Restart
  <2>2. Before(<<>>, Closes(d), Starts(d)) /\ \A K : Num(<<>>, K) = 0
    BY Fresh DEF Before
  <2>3. Ordered(out', inn', d)
    BY <2>1, <2>2 DEF Ordered
  <2>4. ASSUME NEW s \in Services, NEW b \in BOOLEAN PROVE HandleOK(d, s, b)'
    <3>1. /\ Total(LoadKind(d, s, b))' = 0 /\ Total(CloseKind(d, s, b))' = 0
          /\ Num(inn', OpenKind(d, s, b)) = 0
      BY <2>1, <2>2 DEF Total
    <3>2. Awaits(d, s, b)' = 0 /\ ~(<<d, s, b>> \in handles')
      BY <2>1 DEF Awaits
    <3> QED
      BY <3>1, <3>2 DEF HandleOK, HandleFits
  <2> QED
    BY <2>3, <2>4 DEF HandlesOK
<1>6. CASE UNCHANGED vars
  <2>1. UNCHANGED <<out, inn, map_svcdev, handles>>
    BY <1>6 DEF vars, devmonVars
  <2>2. Ordered(out', inn', d)
    BY <1>1, <2>1 DEF HandlesOK
  <2>3. Untouched(d)
    BY <1>6 DEF vars, devmonVars, dinitVars, Untouched
  <2> QED
    BY <1>1, <2>2, <2>3, HandlesUntouched
<1> QED
  BY <1>2, <1>3, <1>4, <1>5, <1>6 DEF Next, Input, Reaction

\* They are accounted for throughout.
LEMMA HandlesInvariance == Spec => []HandlesInv
<1>1. Init => HandlesInv
  <2> SUFFICES ASSUME Init, NEW d \in Devices PROVE HandlesOK(d)
    BY DEF HandlesInv
  <2>1. out = <<>> /\ inn = <<>> /\ map_svcdev = {} /\ handles = {}
    BY DEF Init, FreshDevmon
  <2>2. Before(<<>>, Closes(d), Starts(d)) /\ \A K : Num(<<>>, K) = 0
    BY Fresh DEF Before
  <2>3. Ordered(out, inn, d)
    BY <2>1, <2>2 DEF Ordered
  <2>4. ASSUME NEW s \in Services, NEW b \in BOOLEAN PROVE HandleOK(d, s, b)
    <3>1. /\ Total(LoadKind(d, s, b)) = 0 /\ Total(CloseKind(d, s, b)) = 0
          /\ Num(inn, OpenKind(d, s, b)) = 0
      BY <2>1, <2>2 DEF Total
    <3>2. Awaits(d, s, b) = 0 /\ ~(<<d, s, b>> \in handles)
      BY <2>1 DEF Awaits
    <3> QED
      BY <3>1, <3>2 DEF HandleOK, HandleFits
  <2> QED
    BY <2>3, <2>4 DEF HandlesOK
<1>2. IInv /\ HandlesInv /\ [Next]_vars => HandlesInv'
  BY HandlesNext
<1> QED
  BY <1>1, <1>2, Invariance, PTL DEF Spec

\* No service handle leaks: an open one is watched or a reply that will close
\* it is on its way, and what is watched has its handle open.
THEOREM NoHandleLeaks == Spec => []HandlesAccounted
<1>1. IInv /\ HandlesInv => HandlesAccounted
  <2> SUFFICES ASSUME IInv, HandlesInv PROVE HandlesAccounted
    OBVIOUS
  <2>1. /\ handles \subseteq Devices \X Services \X BOOLEAN
        /\ map_svcdev \subseteq Devices \X Services
        /\ out \in Seq(Message) /\ inn \in Seq(Message)
    BY DEF IInv, Inv, TypeOK
  <2>2. \A d \in Devices, s \in Services, b \in BOOLEAN : HandleOK(d, s, b)
    BY DEF HandlesInv, HandlesOK
  <2>3. ASSUME NEW h \in handles
        PROVE  \/ ~h[3] /\ <<h[1], h[2]>> \in map_svcdev
               \/ \E i \in DOMAIN inn : /\ inn[i].op = "load_sub"
                                        /\ <<inn[i].d, inn[i].s, inn[i].rem>> = h
               \/ \E q \in {out, inn} : \E i \in DOMAIN q :
                     /\ q[i].op = "dep_sub" /\ q[i].arg = "nowake"
                     /\ <<q[i].d, q[i].s, q[i].rem>> = h
    <3>1. PICK d \in Devices, s \in Services, b \in BOOLEAN : h = <<d, s, b>>
      BY <2>1
    <3>2. Num(inn, OpenKind(d, s, b)) + Total(CloseKind(d, s, b)) + Awaits(d, s, b) > 0
      BY <2>2, <3>1 DEF HandleOK, HandleFits
    <3>3. /\ Num(inn, OpenKind(d, s, b)) \in Nat /\ Num(inn, CloseKind(d, s, b)) \in Nat
          /\ Num(out, CloseKind(d, s, b)) \in Nat /\ Awaits(d, s, b) \in {0, 1}
      BY <2>1, NumType DEF Awaits
    <3>4. \/ Awaits(d, s, b) = 1 \/ Num(inn, OpenKind(d, s, b)) # 0
          \/ Num(out, CloseKind(d, s, b)) # 0 \/ Num(inn, CloseKind(d, s, b)) # 0
      BY <3>2, <3>3 DEF Total
    <3>5. CASE Awaits(d, s, b) = 1
      BY <3>1, <3>5 DEF Awaits
    <3>6. CASE Num(inn, OpenKind(d, s, b)) # 0
      <4>1. PICK i \in DOMAIN inn : inn[i] \in OpenKind(d, s, b)
        BY <3>6, NumSome
      <4>2. inn[i].op = "load_sub" /\ inn[i].d = d /\ inn[i].s = s /\ inn[i].rem = b
        BY <4>1 DEF OpenKind
      <4> QED
        BY <3>1, <4>2
    <3>7. CASE Num(out, CloseKind(d, s, b)) # 0 \/ Num(inn, CloseKind(d, s, b)) # 0
      <4>1. PICK q \in {out, inn} : Num(q, CloseKind(d, s, b)) # 0
        BY <3>7
      <4>2. PICK i \in DOMAIN q : q[i] \in CloseKind(d, s, b)
        BY <4>1, NumSome
      <4>3. /\ q[i].op = "dep_sub" /\ q[i].d = d /\ q[i].s = s /\ q[i].rem = b
            /\ q[i].arg = "nowake"
        BY <4>2 DEF CloseKind
      <4> QED
        BY <3>1, <4>3
    <3> QED
      BY <3>4, <3>5, <3>6, <3>7
  <2>4. ASSUME NEW w \in map_svcdev PROVE <<w[1], w[2], FALSE>> \in handles
    <3>1. PICK d \in Devices, s \in Services : w = <<d, s>>
      BY <2>1
    <3>2. Num(inn, OpenKind(d, s, FALSE)) \in Nat /\ Awaits(d, s, FALSE) = 1
      BY <2>1, <3>1, NumType DEF Awaits
    <3>3. Num(inn, OpenKind(d, s, FALSE)) + Awaits(d, s, FALSE) > 0
             => <<d, s, FALSE>> \in handles
      BY <2>2 DEF HandleOK, HandleFits
    <3>4. Num(inn, OpenKind(d, s, FALSE)) + Awaits(d, s, FALSE) > 0
      <4> DEFINE n == Num(inn, OpenKind(d, s, FALSE))
                 x == Awaits(d, s, FALSE)
      <4>1. n \in Nat /\ x = 1
        BY <3>2
      <4> HIDE DEF n, x
      <4>2. n + x > 0
        BY <4>1
      <4> QED
        BY <4>2 DEF n, x
    <3>5. w[1] = d /\ w[2] = s
      BY <3>1
    <3> QED
      BY <3>3, <3>4, <3>5, Zenon
  <2> QED
    BY <2>3, <2>4 DEF HandlesAccounted
<1> QED
  BY <1>1, Invariance, HandlesInvariance, PTL

-----------------------------------------------------------------------------
(* The abstract specification by itself: coalescing events loses no news *)

VARIABLES aKnown, aPresent, aTagged, aBusy, aQueued, aGoal, aTold

Abs == INSTANCE DeviceRounds WITH
           known <- aKnown, present <- aPresent, tagged <- aTagged, busy <- aBusy,
           queued <- aQueued, goal <- aGoal, told <- aTold

\* What is not yet told is on its way: a round works for the latest event
\* unless one is queued, and an idle device has told what the last round, or
\* the latest event if it never had one, was about.
Pledged(d) ==
    /\ aQueued[d] => aBusy[d]
    /\ aBusy[d] => aTagged[d]
    /\ aTagged[d] /\ ~aQueued[d] => aGoal[d] = aPresent[d]
    /\ aTagged[d] /\ ~aBusy[d] => aTold[d] = Abs!ByteOf(aGoal[d])
    /\ ~aTagged[d] => aTold[d] = Abs!ByteOf(aPresent[d])

AbsTypeInv ==
    /\ aKnown \subseteq Devices
    /\ aPresent \in [Devices -> BOOLEAN] /\ aTagged \in [Devices -> BOOLEAN]
    /\ aBusy \in [Devices -> BOOLEAN] /\ aQueued \in [Devices -> BOOLEAN]
    /\ aGoal \in [Devices -> BOOLEAN]
    /\ aTold \in [Devices -> {"none", "0", "1"}]

AbsInv ==
    /\ AbsTypeInv
    /\ \A d \in aKnown : Pledged(d)
    /\ \A d \in Devices \ aKnown : ~aBusy[d] /\ ~aQueued[d]

\* What an event does to the flags it sets
LEMMA SeenType ==
    ASSUME AbsTypeInv, NEW d \in Devices, NEW there \in BOOLEAN, NEW tag \in BOOLEAN,
           Abs!Seen(d, there, tag)
    PROVE  /\ aKnown' \subseteq Devices /\ d \in aKnown'
           /\ \A e \in aKnown' : e # d => e \in aKnown
           /\ aPresent' \in [Devices -> BOOLEAN] /\ aTagged' \in [Devices -> BOOLEAN]
           /\ aPresent'[d] = there
           /\ \A e \in Devices : e # d => aPresent'[e] = aPresent[e] /\ aTagged'[e] = aTagged[e]
           /\ aTagged[d] => aTagged'[d]
BY DEF AbsTypeInv, Abs!Seen

\* Nothing is known at first.
LEMMA AbsInvStart == Abs!Init => AbsInv
BY DEF Abs!Init, AbsInv, AbsTypeInv

\* Every step of the abstract specification keeps the invariant.
LEMMA AbsInvStep == AbsInv /\ [Abs!Next]_Abs!vars => AbsInv'
<1> SUFFICES ASSUME AbsInv, [Abs!Next]_Abs!vars PROVE AbsInv'
  OBVIOUS
<1> USE DEF AbsInv
<1>1. ASSUME NEW d \in Devices, NEW there \in BOOLEAN, NEW tag \in BOOLEAN,
             Abs!Forward(d, there, tag)
      PROVE  AbsInv'
  <2>1. Abs!Seen(d, there, tag)
    BY <1>1 DEF Abs!Forward
  <2>2. AbsTypeInv'
    BY <1>1, <2>1, SeenType DEF Abs!Forward, AbsTypeInv, Abs!ByteOf
  <2>3. Pledged(d)'
    BY <1>1, <2>1, SeenType DEF Abs!Forward, AbsTypeInv, Pledged, Abs!ByteOf
  <2>4. ASSUME NEW e \in aKnown', e # d PROVE Pledged(e)'
    BY <1>1, <2>1, <2>4, SeenType DEF Abs!Forward, AbsTypeInv, Pledged, Abs!ByteOf
  <2>5. \A e \in Devices \ aKnown' : ~aBusy'[e] /\ ~aQueued'[e]
    BY <1>1, <2>1 DEF Abs!Forward, Abs!Seen
  <2> QED
    BY <2>2, <2>3, <2>4, <2>5
<1>2. ASSUME NEW d \in Devices, NEW there \in BOOLEAN, NEW tag \in BOOLEAN,
             Abs!Begin(d, there, tag)
      PROVE  AbsInv'
  <2>1. Abs!Seen(d, there, tag)
    BY <1>2 DEF Abs!Begin
  <2>2. AbsTypeInv'
    BY <1>2, <2>1, SeenType DEF Abs!Begin, AbsTypeInv, Abs!ByteOf
  <2>3. Pledged(d)'
    BY <1>2, <2>1, SeenType DEF Abs!Begin, AbsTypeInv, Pledged, Abs!ByteOf
  <2>4. ASSUME NEW e \in aKnown', e # d PROVE Pledged(e)'
    BY <1>2, <2>1, <2>4, SeenType DEF Abs!Begin, AbsTypeInv, Pledged, Abs!ByteOf
  <2>5. \A e \in Devices \ aKnown' : ~aBusy'[e] /\ ~aQueued'[e]
    BY <1>2, <2>1, SeenType DEF Abs!Begin, Abs!Seen, AbsTypeInv
  <2> QED
    BY <2>2, <2>3, <2>4, <2>5
<1>3. ASSUME NEW d \in Devices, NEW there \in BOOLEAN, NEW tag \in BOOLEAN,
             Abs!Queue(d, there, tag)
      PROVE  AbsInv'
  <2>1. Abs!Seen(d, there, tag)
    BY <1>3 DEF Abs!Queue
  <2>2. AbsTypeInv'
    BY <1>3, <2>1, SeenType DEF Abs!Queue, AbsTypeInv
  <2>3. Pledged(d)'
    BY <1>3, <2>1, SeenType DEF Abs!Queue, AbsTypeInv, Pledged, Abs!ByteOf
  <2>4. ASSUME NEW e \in aKnown', e # d PROVE Pledged(e)'
    BY <1>3, <2>1, <2>4, SeenType DEF Abs!Queue, AbsTypeInv, Pledged, Abs!ByteOf
  <2>5. \A e \in Devices \ aKnown' : ~aBusy'[e] /\ ~aQueued'[e]
    BY <1>3, <2>1, SeenType DEF Abs!Queue, Abs!Seen, AbsTypeInv
  <2> QED
    BY <2>2, <2>3, <2>4, <2>5
<1>4. ASSUME NEW d \in Devices, Abs!EndRound(d) PROVE AbsInv'
  <2>1. d \in aKnown
    BY <1>4 DEF Abs!EndRound
  <2>2. AbsTypeInv'
    BY <1>4 DEF Abs!EndRound, AbsTypeInv, Abs!ByteOf
  <2>3. Pledged(d)'
    BY <1>4, <2>1 DEF Abs!EndRound, AbsTypeInv, Pledged, Abs!ByteOf
  <2>4. ASSUME NEW e \in aKnown', e # d PROVE Pledged(e)'
    BY <1>4, <2>4 DEF Abs!EndRound, AbsTypeInv, Pledged, Abs!ByteOf
  <2>5. \A e \in Devices \ aKnown' : ~aBusy'[e] /\ ~aQueued'[e]
    BY <1>4, <2>1 DEF Abs!EndRound, AbsTypeInv
  <2> QED
    BY <2>2, <2>3, <2>4, <2>5
<1>5. CASE Abs!Forget
  BY <1>5 DEF Abs!Forget, AbsTypeInv
<1>6. CASE UNCHANGED Abs!vars
  BY <1>6 DEF Abs!vars, AbsTypeInv, Pledged
<1> QED
  BY <1>1, <1>2, <1>3, <1>4, <1>5, <1>6 DEF Abs!Next

\* An idle device has told its clients the truth, however many events its
\* rounds swallowed (handle_device_dinit, device::process).
THEOREM NoNewsLost == Abs!Spec => []Abs!Truthful
<1>1. AbsInv => Abs!Truthful
  BY DEF AbsInv, AbsTypeInv, Pledged, Abs!Truthful
<1> QED
  BY AbsInvStart, AbsInvStep, <1>1, PTL DEF Abs!Spec

=============================================================================
