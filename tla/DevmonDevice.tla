---------------------------- MODULE DevmonDevice ----------------------------
(***************************************************************************)
(* The core of devmon (src/early/helpers/devmon.cc): one `struct device`   *)
(* per syspath, and the asynchronous rounds that keep dinit in step with   *)
(* udev.  A udev event for a tagged device starts a round, or is left      *)
(* pending when a round is running.  A round                               *)
(*   1. loads the service device@<syspath>            (device::process)    *)
(*   2. adds it to / removes it from `system`         (dinit_devsvc_load_cb)*)
(*   3. loads each service of the two sets            (dinit_devsvc_add_cb)*)
(*   4. adds or removes a waits-for dependency on it, and wakes a service  *)
(*      that has not started               (dinit_subsvc_load_cb_base)     *)
(*   5. ends when each of them has resolved           (handle_dinit_event) *)
(* and its end broadcasts the readiness byte to the watching clients.      *)
(*                                                                         *)
(* devmon is one thread, so an action is one udev event or one callback.   *)
(* dinit is external: the control connection is a pair of FIFO sequences,  *)
(* dinit answers requests in order and interleaves service events.         *)
(***************************************************************************)
EXTENDS Naturals, Sequences, FiniteSets, Queues

CONSTANTS
    Devices,     \* syspaths
    Services,    \* names that DINIT_WAITS_FOR may list
    NoService,   \* the service field of a message that is about no service
    WakeMayFail, \* TRUE: dinit may refuse to wake a service
    MayRestart,  \* TRUE: devmon may exit and be restarted
    MaxInputs    \* bound: udev events, spontaneous starts and stops of
                 \* services and restarts of devmon in a behaviour

ASSUME DeviceAssumption ==
    /\ NoService \notin Services
    /\ IsFiniteSet(Devices) /\ IsFiniteSet(Services)
    /\ WakeMayFail \in BOOLEAN /\ MayRestart \in BOOLEAN
    /\ MaxInputs \in Nat

VARIABLES
    map_sys,     \* syspaths with a `device` object (never erased)
    dev,         \* the device objects
    map_svcdev,  \* <<d, s>>: an event of service s is awaited for device d
    told,        \* the last byte broadcast to the clients of a device
    out, inn,    \* requests to dinit, replies and events from dinit
    handles,     \* <<d, s, rem>>: service handles devmon has open
    sstate,      \* dinit: the state of each service
    sysdeps,     \* dinit: devices `system` waits for
    deps,        \* dinit: <<d, s>>, device@d waits for s
    ghost,       \* history, used by the properties only
    inputs       \* how many of the MaxInputs inputs have happened

devmonVars == <<map_sys, dev, map_svcdev, told>>
dinitVars  == <<sstate, sysdeps, deps>>
vars == <<devmonVars, out, inn, handles, dinitVars, ghost, inputs>>

-----------------------------------------------------------------------------
(* Data *)

Byte == {"none", "0", "1"}
ServiceState == {"stopped", "starting", "started", "stopping"}

DeviceRec ==
    [dsvcset : SUBSET Services,  \* dependencies being dropped
     psvcset : SUBSET Services,  \* dependencies being added
     nsvcset : SUBSET Services,  \* the sets of the pending event
     device_svc : BOOLEAN,       \* the handle of device@<syspath> is held
     pending_svcs : Nat,         \* services of the round not yet resolved
     removed : BOOLEAN, processing : BOOLEAN, removal : BOOLEAN,
     pending : BOOLEAN, has_tag : BOOLEAN,
     named : BOOLEAN]            \* name (and MAC) not empty

NewDevice ==
    [dsvcset |-> {}, psvcset |-> {}, nsvcset |-> {}, device_svc |-> FALSE,
     pending_svcs |-> 0, removed |-> FALSE, processing |-> FALSE,
     removal |-> FALSE, pending |-> FALSE, has_tag |-> FALSE, named |-> FALSE]

\* For the properties: the services listed by the latest event, those resolved
\* in the present round, and whether device@<syspath> could be loaded
History == [waits : SUBSET Services, seen : SUBSET Services, devok : BOOLEAN]

\* Messages of the dinit control connection.  rem: the request drops a
\* dependency.  arg: a reply's result, how a dependency request continues, or
\* what an event is about (started, failed to start, stopped).
Ops == {"load_dev", "dep_sys", "load_sub", "dep_sub", "wake", "event"}
Args == {"", "ok", "fail", "started", "stopped", "wake", "nowake", "closed"}
Message == [op : Ops, d : Devices, s : Services \cup {NoService},
            rem : BOOLEAN, arg : Args]

Msg(op, d, s, rem, arg) ==
    [op |-> op, d |-> d, s |-> s, rem |-> rem, arg |-> arg]

LoadSub(d, s, rem) == Msg("load_sub", d, s, rem, "")

-----------------------------------------------------------------------------
(* struct device *)

\* device::ready: the syspath's clients, and those of the name if there is one
ready(t, r, status) ==
    [sys |-> status, name |-> IF r.named THEN status ELSE t.name]

\* device::process closes the device's handle and shuffles the sets
Shuffled(r) ==
    [r EXCEPT !.device_svc = FALSE, !.dsvcset = r.psvcset,
              !.psvcset = r.nsvcset, !.nsvcset = {}]

\* device::process, what it does to the object: the next round starts iff an
\* event is pending.  (Mutant: the removal flag of the last round is kept.)
process_StaleRemoval(r) ==
    [Shuffled(r) EXCEPT !.pending = FALSE, !.processing = r.pending]
process(r) ==
    IF r.pending
    THEN [Shuffled(r) EXCEPT !.pending = FALSE, !.removal = r.removed,
                             !.processing = TRUE]
    ELSE [Shuffled(r) EXCEPT !.processing = FALSE]

\* ... the byte it broadcasts first, by the removal flag of the last round
processByte(r) == IF r.removal THEN "0" ELSE "1"

\* ... and the request with which it starts the next round
processRequest(d, r) ==
    IF r.pending THEN <<Msg("load_dev", d, NoService, r.removed, "")>>
                 ELSE <<>>

\* The whole of process() as a callback runs it on object r of device d after
\* it has sent the requests `sent`
ProcessStep(d, r, sent) ==
    /\ dev' = [dev EXCEPT ![d] = process(r)]
    /\ told' = [told EXCEPT ![d] = ready(told[d], r, processByte(r))]
    /\ out' = out \o sent \o processRequest(d, r)

\* One service of the round has resolved: `!--pending_svcs && !process(ctl)`.
\* r is the object with the count already decremented.
Resolved(d, r, sent) ==
    IF r.pending_svcs = 0
    THEN ProcessStep(d, r, sent)
    ELSE /\ dev' = [dev EXCEPT ![d] = r]
         /\ out' = out \o sent
         /\ UNCHANGED told

\* History: the services resolved since the round started.  A service that is
\* being dropped does not count; a round that ends with an event pending makes
\* way for the next one.
Note(d, r, s, rem) ==
    ghost' = [ghost EXCEPT ![d].seen =
                 IF r.pending_svcs = 0 /\ r.pending THEN {}
                 ELSE IF rem THEN @ ELSE @ \cup {s}]

-----------------------------------------------------------------------------
(* udev events *)

\* handle_device_dinit on object r (removed and has_tag already updated) with
\* the services listed by the event: the object afterwards.  (Mutants: an event
\* during a round is lost; a round is started over a running one.)
handle_device_dinit_LosesEvent(r, svcs) ==
    LET p == [r EXCEPT !.nsvcset = svcs, !.pending = TRUE]
    IN  IF ~r.has_tag \/ r.processing THEN r ELSE process(p)
handle_device_dinit_NoGuard(r, svcs) ==
    IF r.has_tag THEN process([r EXCEPT !.nsvcset = svcs, !.pending = TRUE])
    ELSE r
handle_device_dinit(r, svcs) ==
    LET p == [r EXCEPT !.nsvcset = svcs, !.pending = TRUE]
    IN  IF ~r.has_tag THEN r
        ELSE IF r.processing THEN p ELSE process(p)

\* ... and what it sends: readiness at once without a tag, nothing while a
\* round is running, else the effects of process().
HandleEffects(d, r, svcs) ==
    \/ /\ ~r.has_tag
       /\ told' = [told EXCEPT ![d] =
                      ready(told[d], r, IF r.removed THEN "0" ELSE "1")]
       /\ UNCHANGED <<out, ghost>>
    \/ /\ r.has_tag /\ r.processing
       /\ ghost' = [ghost EXCEPT ![d].waits = svcs]
       /\ UNCHANGED <<told, out>>
    \/ /\ r.has_tag /\ ~r.processing
       /\ told' = [told EXCEPT ![d] = ready(told[d], r, processByte(r))]
       /\ out' = out \o processRequest(d, [r EXCEPT !.pending = TRUE])
       /\ ghost' = [ghost EXCEPT ![d].waits = svcs, ![d].seen = {}]

\* add_device: an add or change event, or the initial enumeration.  A device
\* seen before keeps its object; `removed` is cleared by init() and set().
AddDevice(d, tagged, svcs) ==
    LET r == [dev[d] EXCEPT !.removed = FALSE, !.named = TRUE,
                            !.has_tag = @ \/ tagged]
    IN  /\ map_sys' = map_sys \cup {d}
        /\ dev' = [dev EXCEPT ![d] = handle_device_dinit(r, svcs)]
        /\ HandleEffects(d, r, svcs)
        /\ UNCHANGED <<map_svcdev, inn, handles, dinitVars>>

\* remove_device; remove() clears the names after the event was handled, and
\* the services of a removal are not read.
RemoveDevice(d, tagged) ==
    LET r == [dev[d] EXCEPT !.removed = TRUE, !.has_tag = @ \/ tagged]
    IN  /\ d \in map_sys /\ ~dev[d].removed
        /\ dev' = [dev EXCEPT ![d] =
                      [handle_device_dinit(r, {}) EXCEPT !.named = FALSE]]
        /\ HandleEffects(d, r, {})
        /\ UNCHANGED <<map_sys, map_svcdev, inn, handles, dinitVars>>

Udev(d) ==
    \/ \E tagged \in BOOLEAN, svcs \in SUBSET Services : AddDevice(d, tagged, svcs)
    \/ \E tagged \in BOOLEAN : RemoveDevice(d, tagged)

-----------------------------------------------------------------------------
(* Callbacks run by dinitctl_dispatch, by the message they consume *)

Arrives(m, op) == inn # <<>> /\ m = Head(inn) /\ m.op = op

\* dinit_devsvc_load_cb, the device service was loaded
DevLoaded(m) ==
    /\ Arrives(m, "load_dev") /\ m.arg = "ok"
    /\ dev' = [dev EXCEPT ![m.d].device_svc = TRUE]
    /\ out' = Append(out, Msg("dep_sys", m.d, NoService, dev[m.d].removal, ""))
    /\ ghost' = [ghost EXCEPT ![m.d].devok = TRUE]
    /\ UNCHANGED <<map_sys, map_svcdev, told, handles, dinitVars>>

\* dinit_devsvc_load_cb, it could not be loaded: the round is over.  The
\* callback stores a handle before it looks at the result; process() closes and
\* nulls what is there before the callback returns.
DevLoadFailed(m) ==
    /\ Arrives(m, "load_dev") /\ m.arg = "fail"
    /\ ProcessStep(m.d, dev[m.d], <<>>)
    /\ ghost' = [ghost EXCEPT ![m.d].devok = FALSE,
                              ![m.d].seen = IF dev[m.d].pending THEN {} ELSE @]
    /\ UNCHANGED <<map_sys, map_svcdev, handles, dinitVars>>

\* dinit_devsvc_add_cb, how many services the round waits for.  (Mutant: those
\* being dropped are not counted.)
RoundSize_AddsOnly(r) == Cardinality(r.psvcset)
RoundSize(r) == Cardinality(r.dsvcset) + Cardinality(r.psvcset)

\* dinit_devsvc_add_cb: load the services to drop, then those to add.  With
\* none of either it does nothing more.
SysDepDone(m) ==
    /\ Arrives(m, "dep_sys")
    /\ LET r == dev[m.d] IN
        /\ dev' = [dev EXCEPT ![m.d].pending_svcs = RoundSize(r)]
        /\ \E q \in Orders(r.dsvcset), p \in Orders(r.psvcset) :
               out' = out \o [i \in DOMAIN q |-> LoadSub(m.d, q[i], TRUE)]
                          \o [i \in DOMAIN p |-> LoadSub(m.d, p[i], FALSE)]
    /\ UNCHANGED <<map_sys, map_svcdev, told, handles, dinitVars, ghost>>

\* The object of m.d with one service less to wait for
Decremented(m) == [dev[m.d] EXCEPT !.pending_svcs = @ - 1]

\* dinit_subsvc_load_cb_base: not loaded, counts as resolved.  (Mutant: it does
\* not count.)
SubLoadFailed_NotCounted(m) ==
    /\ Arrives(m, "load_sub") /\ m.arg = "fail"
    /\ UNCHANGED <<devmonVars, out, handles, dinitVars, ghost>>
SubLoadFailed(m) ==
    /\ Arrives(m, "load_sub") /\ m.arg = "fail"
    /\ Resolved(m.d, Decremented(m), <<>>)
    /\ Note(m.d, Decremented(m), m.s, m.rem)
    /\ UNCHANGED <<map_sys, map_svcdev, handles, dinitVars>>

\* ... being dropped, or started already: change the dependency, resolved
SubLoadedNoWake(m) ==
    /\ Arrives(m, "load_sub") /\ m.arg # "fail"
    /\ m.rem \/ m.arg = "started"
    /\ Resolved(m.d, Decremented(m),
                <<Msg("dep_sub", m.d, m.s, m.rem, "nowake")>>)
    /\ Note(m.d, Decremented(m), m.s, m.rem)
    /\ UNCHANGED <<map_sys, map_svcdev, handles, dinitVars>>

\* ... not started yet: add the dependency and watch for an event
SubLoadedWatch(m) ==
    /\ Arrives(m, "load_sub") /\ m.arg = "ok" /\ ~m.rem
    /\ map_svcdev' = map_svcdev \cup {<<m.d, m.s>>}
    /\ out' = Append(out, Msg("dep_sub", m.d, m.s, FALSE, "wake"))
    /\ UNCHANGED <<map_sys, dev, told, handles, dinitVars, ghost>>

\* dep_nowake_cb: close the handle.  (Mutant: the handle stays open.)
DepDoneNoWake_Leaks(m) ==
    /\ Arrives(m, "dep_sub") /\ m.arg = "nowake"
    /\ UNCHANGED <<devmonVars, out, handles, dinitVars, ghost>>
DepDoneNoWake(m) ==
    /\ Arrives(m, "dep_sub") /\ m.arg = "nowake"
    /\ handles' = handles \ {<<m.d, m.s, m.rem>>}
    /\ UNCHANGED <<devmonVars, out, dinitVars, ghost>>

\* dep_cb: wake the service through its handle, whether it is still open or not
DepDoneWake(m) ==
    /\ Arrives(m, "dep_sub") /\ m.arg = "wake"
    /\ out' = Append(out, Msg("wake", m.d, m.s, FALSE,
                  IF <<m.d, m.s, FALSE>> \in handles THEN "" ELSE "closed"))
    /\ UNCHANGED <<devmonVars, handles, dinitVars, ghost>>

\* handle_dinit_event on a handle in map_svcdev: whatever the event says, the
\* service counts as resolved; the handle is closed.  (Mutant: the entry of
\* map_svcdev is not erased.)
EventDone_KeepsEntry(m) ==
    /\ Arrives(m, "event")
    /\ ~m.rem /\ <<m.d, m.s>> \in map_svcdev
    /\ Resolved(m.d, Decremented(m), <<>>)
    /\ Note(m.d, Decremented(m), m.s, FALSE)
    /\ handles' = handles \ {<<m.d, m.s, FALSE>>}
    /\ UNCHANGED <<map_sys, map_svcdev, dinitVars>>
EventDone(m) ==
    /\ Arrives(m, "event")
    /\ ~m.rem /\ <<m.d, m.s>> \in map_svcdev
    /\ Resolved(m.d, Decremented(m), <<>>)
    /\ Note(m.d, Decremented(m), m.s, FALSE)
    /\ map_svcdev' = map_svcdev \ {<<m.d, m.s>>}
    /\ handles' = handles \ {<<m.d, m.s, FALSE>>}
    /\ UNCHANGED <<map_sys, dinitVars>>

\* handle_dinit_event on any other handle
EventIgnored(m) ==
    /\ Arrives(m, "event")
    /\ m.rem \/ <<m.d, m.s>> \notin map_svcdev
    /\ UNCHANGED <<devmonVars, out, handles, dinitVars, ghost>>

Dispatch ==
    /\ inn # <<>>
    /\ inn' = Tail(inn)
    /\ LET m == Head(inn) IN
        \/ DevLoaded(m) \/ DevLoadFailed(m) \/ SysDepDone(m)
        \/ SubLoadFailed(m) \/ SubLoadedNoWake(m) \/ SubLoadedWatch(m)
        \/ DepDoneNoWake(m) \/ DepDoneWake(m)
        \/ EventDone(m) \/ EventIgnored(m)

-----------------------------------------------------------------------------
(* dinit, external: its control protocol and the services' lives *)

Answer(m, arg) == inn' = Append(inn, [m EXCEPT !.arg = arg])

\* A service that something depends on is loaded, so loading it cannot fail.
ServeLoadDev(m) ==
    /\ m.op = "load_dev"
    /\ \/ Answer(m, "ok")
       \/ m.d \notin sysdeps /\ Answer(m, "fail")
    /\ UNCHANGED <<handles, dinitVars>>

ServeDepSys(m) ==
    /\ m.op = "dep_sys"
    /\ sysdeps' = IF m.rem THEN sysdeps \ {m.d} ELSE sysdeps \cup {m.d}
    /\ Answer(m, "")
    /\ UNCHANGED <<handles, sstate, deps>>

\* A load opens a handle and reports the state of the service, or fails.
ServeLoadSub(m) ==
    /\ m.op = "load_sub"
    /\ \/ /\ sstate[m.s] = "stopped" /\ \A d \in Devices : <<d, m.s>> \notin deps
          /\ Answer(m, "fail")
          /\ UNCHANGED handles
       \/ /\ Answer(m, IF sstate[m.s] = "started" THEN "started" ELSE "ok")
          /\ handles' = handles \cup {<<m.d, m.s, m.rem>>}
    /\ UNCHANGED dinitVars

\* A dependency added with `enable` may start the service.
ServeDepSub(m) ==
    /\ m.op = "dep_sub"
    /\ deps' = IF m.rem THEN deps \ {<<m.d, m.s>>} ELSE deps \cup {<<m.d, m.s>>}
    /\ \/ UNCHANGED sstate
       \/ /\ ~m.rem /\ sstate[m.s] = "stopped"
          /\ sstate' = [sstate EXCEPT ![m.s] = "starting"]
    /\ Answer(m, m.arg)
    /\ UNCHANGED <<handles, sysdeps>>

\* A wake starts a stopped service unless dinit refuses, as it does when no
\* active service depends on it.  Its reply is dropped by devmon (wake_cb).
ServeWake(m) ==
    /\ m.op = "wake"
    /\ \/ /\ m.arg = "" /\ sstate[m.s] = "stopped"
          /\ sstate' = [sstate EXCEPT ![m.s] = "starting"]
       \/ /\ m.arg = "closed" \/ sstate[m.s] # "stopped" \/ WakeMayFail
          /\ UNCHANGED sstate
    /\ UNCHANGED <<inn, handles, sysdeps, deps>>

Serve ==
    /\ out # <<>>
    /\ out' = Tail(out)
    /\ LET m == Head(out) IN
        ServeLoadDev(m) \/ ServeDepSys(m) \/ ServeLoadSub(m)
        \/ ServeDepSub(m) \/ ServeWake(m)
    /\ UNCHANGED <<devmonVars, ghost>>

\* dinit tells every open handle of a service what has become of it.
Tell(s, what) ==
    LET hs == {h \in handles : h[2] = s}
    IN  \E q \in Orders(hs) :
           inn' = inn \o [i \in DOMAIN q |->
                             Msg("event", q[i][1], s, q[i][3], what)]

\* The service finishes starting (started, or failed to) or stopping.
SvcFinish(s) ==
    /\ \/ /\ sstate[s] = "starting" /\ Tell(s, "started")
          /\ sstate' = [sstate EXCEPT ![s] = "started"]
       \/ /\ sstate[s] = "starting" /\ Tell(s, "fail")
          /\ sstate' = [sstate EXCEPT ![s] = "stopped"]
       \/ /\ sstate[s] = "stopping" /\ Tell(s, "stopped")
          /\ sstate' = [sstate EXCEPT ![s] = "stopped"]
    /\ UNCHANGED <<devmonVars, out, handles, sysdeps, deps, ghost>>

\* It starts or stops for reasons of its own.
SvcBegin(s) ==
    /\ \/ /\ sstate[s] = "stopped"
          /\ sstate' = [sstate EXCEPT ![s] = "starting"]
       \/ /\ sstate[s] = "started"
          /\ sstate' = [sstate EXCEPT ![s] = "stopping"]
    /\ UNCHANGED <<devmonVars, out, inn, handles, sysdeps, deps, ghost>>

-----------------------------------------------------------------------------
(* devmon exits on any error of the control connection (dinitctl_abort, main *)
(* loop) and dinit restarts it (smooth-recovery): its objects and its        *)
(* connection are new, dinit's state is what it was.  main sets up the       *)
(* connection and the monitors and enters what udev enumerates, which is    *)
(* further udev events here; if any of that fails it exits once more.       *)

NoGhost == [waits |-> {}, seen |-> {}, devok |-> FALSE]

FreshDevmon ==
    /\ map_sys = {}
    /\ dev = [d \in Devices |-> NewDevice]
    /\ map_svcdev = {}
    /\ told = [d \in Devices |-> [sys |-> "none", name |-> "none"]]
    /\ out = <<>> /\ inn = <<>> /\ handles = {}
    /\ ghost = [d \in Devices |-> NoGhost]

Restart ==
    /\ MayRestart /\ map_sys # {}
    /\ map_sys' = {}
    /\ dev' = [d \in Devices |-> NewDevice]
    /\ map_svcdev' = {}
    /\ told' = [d \in Devices |-> [sys |-> "none", name |-> "none"]]
    /\ out' = <<>> /\ inn' = <<>> /\ handles' = {}
    /\ ghost' = [d \in Devices |-> NoGhost]
    /\ UNCHANGED dinitVars

\* Services may be in any state, also on their way up or down, when devmon starts.
Init ==
    /\ FreshDevmon
    /\ sstate \in [Services -> ServiceState]
    /\ sysdeps = {} /\ deps = {}
    /\ inputs = 0

Input ==
    /\ inputs < MaxInputs
    /\ inputs' = inputs + 1
    /\ \/ \E d \in Devices : Udev(d)
       \/ \E s \in Services : SvcBegin(s)
       \/ Restart

Reaction ==
    /\ Dispatch \/ Serve \/ \E s \in Services : SvcFinish(s)
    /\ UNCHANGED inputs

Next == Input \/ Reaction

\* The event loop dispatches what has arrived, dinit answers, and a service
\* that is starting or stopping finishes: nothing is assumed of udev.
Fairness ==
    /\ WF_vars(Dispatch /\ UNCHANGED inputs)
    /\ WF_vars(Serve /\ UNCHANGED inputs)
    /\ \A s \in Services : WF_vars(SvcFinish(s) /\ UNCHANGED inputs)

Spec == Init /\ [][Next]_vars /\ Fairness

-----------------------------------------------------------------------------
(* Properties *)

\* Type correctness: in particular pending_svcs, a size_t, is never decremented
\* below zero.
TypeOK ==
    /\ map_sys \subseteq Devices
    /\ dev \in [Devices -> DeviceRec]
    /\ map_svcdev \subseteq Devices \X Services
    /\ told \in [Devices -> [sys : Byte, name : Byte]]
    /\ out \in Seq(Message) /\ inn \in Seq(Message)
    /\ handles \subseteq Devices \X Services \X BOOLEAN
    /\ sstate \in [Services -> ServiceState]
    /\ sysdeps \subseteq Devices
    /\ deps \subseteq Devices \X Services
    /\ ghost \in [Devices -> History]
    /\ inputs \in 0..MaxInputs

\* The answer to a client that asks about d (main loop): 1 only for a device
\* that is there and whose events have been dealt with.  (Mutant: without the
\* look at `processing`.)
Status_IgnoresRound(d) == IF d \in map_sys /\ ~dev[d].removed THEN 1 ELSE 0
Status(d) ==
    IF d \in map_sys /\ ~dev[d].removed /\ ~dev[d].processing THEN 1 ELSE 0

\* How many messages of the set K are under way
Total(K) == Num(out, K) + Num(inn, K)

\* The messages of one operation for d, and the loads of s to be added to d
Kind(op, d) == [op : {op}, d : {d}, s : Services \cup {NoService},
                rem : BOOLEAN, arg : Args]
AddLoad(d, s) == [op : {"load_sub"}, d : {d}, s : {s}, rem : {FALSE}, arg : Args]

InFlight(op, d) == Total(Kind(op, d))
Watched(d) == {s \in Services : <<d, s>> \in map_svcdev}

\* What drives the round of d on: a request to load or attach the device
\* service, or services that have not resolved
Tokens(d) ==
    InFlight("load_dev", d) + InFlight("dep_sys", d)
    + (IF dev[d].pending_svcs > 0 THEN 1 ELSE 0)

\* pending_svcs counts exactly the loads without an answer and the services an
\* event is awaited for; a miscount ends the round early or never.
PendingCount ==
    \A d \in Devices :
        dev[d].pending_svcs = InFlight("load_sub", d) + Cardinality(Watched(d))

\* A service is awaited at most once for a device: by one load without an
\* answer, or by one entry of map_svcdev.
AwaitedOnce ==
    \A d \in Devices, s \in Services :
        Total(AddLoad(d, s)) + (IF <<d, s>> \in map_svcdev THEN 1 ELSE 0) <= 1

\* Rounds of one device never overlap, an idle device has no callback
\* outstanding, and a round that has services never loses what drives it.
SingleRound ==
    \A d \in Devices :
        /\ Tokens(d) <= 1
        /\ ~dev[d].processing => Tokens(d) = 0
        /\ dev[d].processing /\ dev[d].dsvcset \cup dev[d].psvcset # {}
              => Tokens(d) = 1

\* dinit_subsvc_load_cb_base passes device_svc to dinit: the handle is held
\* whenever such a callback can run.
DeviceHandleHeld ==
    \A d \in Devices :
        InFlight("dep_sys", d) + InFlight("load_sub", d) > 0 => dev[d].device_svc

\* Once the events of a device are dealt with, its clients have been told the
\* truth: those of the syspath always, those of the name when it has no tag.
QuietTruth ==
    \A d \in map_sys :
        LET truth == IF dev[d].removed THEN "0" ELSE "1"
        IN  ~dev[d].processing =>
               /\ told[d].sys = truth
               /\ ~dev[d].has_tag => told[d].name = truth

\* A client is answered "available" only when every service listed by the
\* latest event has been dealt with in the round of that very event: it could
\* not be loaded, was started already, or an event of it arrived, whatever the
\* event said (handle_dinit_event does not look).  If device@<syspath> itself
\* could not be loaded the device is available without any of this.
WaitsForHonoured ==
    \A d \in Devices :
        Status(d) = 1 /\ dev[d].has_tag /\ ghost[d].devok
           => ghost[d].waits \subseteq ghost[d].seen

\* Once the events of a device are dealt with, `system` waits for its service
\* exactly when it is there, however events and rounds interleaved.
SysDepMatches ==
    \A d \in map_sys :
        ~dev[d].processing /\ dev[d].has_tag /\ ghost[d].devok
           => (d \in sysdeps <=> ~dev[d].removed)

\* No handle leaks: an open handle is watched, or a reply that closes it is on
\* its way; and what is watched has an open handle.
HandlesAccounted ==
    /\ \A h \in handles :
          \/ ~h[3] /\ <<h[1], h[2]>> \in map_svcdev
          \/ \E i \in DOMAIN inn : /\ inn[i].op = "load_sub"
                                   /\ <<inn[i].d, inn[i].s, inn[i].rem>> = h
          \/ \E q \in {out, inn} : \E i \in DOMAIN q :
                /\ q[i].op = "dep_sub" /\ q[i].arg = "nowake"
                /\ <<q[i].d, q[i].s, q[i].rem>> = h
    /\ \A w \in map_svcdev : <<w[1], w[2], FALSE>> \in handles

\* A round with services comes to its end: the device falls idle or the load
\* of the next round is issued (unless dinit refuses a wake).
RoundEnds ==
    \A d \in Devices :
        (dev[d].processing /\ dev[d].dsvcset \cup dev[d].psvcset # {})
           ~> (~dev[d].processing \/ Num(out, Kind("load_dev", d)) = 1)

-----------------------------------------------------------------------------
(* What all this implements *)

\* The device objects seen as coalesced rounds
Rounds == INSTANCE DeviceRounds WITH
    known   <- map_sys,
    present <- [d \in Devices |-> ~dev[d].removed],
    tagged  <- [d \in Devices |-> dev[d].has_tag],
    busy    <- [d \in Devices |-> dev[d].processing],
    queued  <- [d \in Devices |-> dev[d].pending],
    goal    <- [d \in Devices |-> ~dev[d].removal],
    told    <- [d \in Devices |-> told[d].sys]

\* devmon is a DeviceRounds: whatever dinit answers, in whatever order, and
\* whenever udev speaks, the rounds of a device do not overlap, no event is
\* lost, and the last event decides.
Coalesces == Rounds!Spec

-----------------------------------------------------------------------------
(* What a comment says, and the code does not do *)

\* devmon.cc:733 "otherwise it will be triggered by the previous operation at
\* its end": every round has an end to come.
RoundDriven == \A d \in Devices : dev[d].processing => Tokens(d) = 1

\* src/README.md:231-232 "will be held back until the specified services have
\* started or failed to start": the event of a listed service that makes the
\* device available is one of these.
HeldBack ==
    [][\A d \in Devices :
          /\ Status(d) = 0 /\ Status(d)' = 1
          /\ inn # <<>> /\ inn' = Tail(inn)
          /\ Head(inn).op = "event" /\ Head(inn).s \in ghost[d].waits
          => Head(inn).arg \in {"started", "fail"}]_vars

=============================================================================
