------------------------- MODULE EarlyMountsProofs --------------------------
(***************************************************************************)
(* The mounts and the machine's id over any number of boots, whatever      *)
(* fails: what is mounted is mounted once, but for an id that done.sh may  *)
(* bind again; an id on the disk stays, and a boot without failures        *)
(* commits one; what prepare promises is mounted, and the remounts of /    *)
(* change what was asked for and nothing else.                             *)
(*                                                                         *)
(* An id is only ever put over contents that are no id.  What decides that *)
(* (env.sh, machine-id.sh) is long past when the file is written (done.sh), *)
(* so the invariant carries it along the script: as long as an id may be   *)
(* written, the disk may still come up without one.                        *)
(*                                                                         *)
(* parse_mntopts is a loop over a list of any length.  The second half of  *)
(* the module follows its turns to what they amount to (OptionsAsAsked),   *)
(* then shows that the options /proc/self/mounts gives of a mount parse to *)
(* its flags, and carries that through the remounts of /.                  *)
(***************************************************************************)
EXTENDS EarlyMounts, FiniteSetTheorems, SequenceTheorems, WellFoundedInduction, TLAPS

HistOK == hist \in [want : {hist.want}, remounted : BOOLEAN, faulty : BOOLEAN,
                    busy : BOOLEAN, bound : BOOLEAN, left : {hist.left}]

\* The steps from the start of `mnt prepare` to the generation of the id
Early == {"/proc", "/", "/sys", "/dev", "/dev/pts", "/dev/shm", "links",
          "/sys/kernel/security", "/sys/firmware/efi/efivars", "/run", "/run/user",
          "first", "root-rw", "generate", "prepare failed", "tmpfs failed"}

\* What is mounted at which step
Stages ==
    /\ pc \in Prepare => procsys # <<>>
    /\ pc \notin {"off", "env", "/proc", "prepare failed", "sync"} => tab["/proc"] # <<>>
    /\ pc # "off" => boots \in Ids

\* What is mounted once, and how often the id is bound
OthersOnce == \A t \in Targets : t # IdFile => Len(tab[t]) <= 1
IdBound ==
    /\ pc \notin {"done", "umnt", "commit", "cat", "rebind", "up", "sync"} => tab[IdFile] = <<>>
    /\ pc \notin {"up", "sync"} => Len(tab[IdFile]) <= 1
    /\ pc \in {"commit", "rebind"} /\ tab[IdFile] # <<>> => hist.busy
    /\ pc = "rebind" /\ tab[IdFile] # <<>> => hist.faulty
    /\ Len(tab[IdFile]) <= 2
    /\ Len(tab[IdFile]) <= 1 \/ (hist.busy /\ hist.faulty)

\* A crash may leave something that is no id
Unsettled == \E x \in disk : x \notin Ids

\* An id is written only while that is so.
Settling ==
    /\ first => Unsettled
    /\ runId # Absent => Unsettled
    /\ pc \in {"echo", "umnt", "commit", "cat"} => Unsettled
    /\ pc \in {"off", "env"} \cup Early => runId = Absent
    /\ pc \in {"root-rw", "generate"} => first = FirstBoot

\* How far a boot in which nothing failed has come with the id
Committing ==
    ~hist.faulty /\ ~hist.busy =>
        /\ pc \in {"touch", "bind"} /\ runId = Absent => etc \in Ids
        /\ pc \in {"touch", "bind"} /\ runId # Absent => runId \in Ids
        /\ pc = "echo" => runId \in Ids /\ Writable
        /\ pc = "bind" /\ etc = Absent => ~Writable
        /\ pc = "done" /\ tab[IdFile] = <<>> => etc \in Ids \/ (etc = Absent /\ ~Writable)
        /\ pc = "done" /\ tab[IdFile] # <<>> => runId \in Ids
        /\ pc \in {"umnt", "commit", "cat", "rebind"} => runId \in Ids
        /\ pc \in {"commit", "cat", "rebind"} => tab[IdFile] = <<>>
        /\ pc = "rebind" => ~Writable

MountInv ==
    /\ TypeOK /\ HistOK /\ OthersOnce /\ IdBound /\ Stages /\ Settling
    /\ Committing /\ IdCommitted

-----------------------------------------------------------------------------
(* The operators *)

\* The order of the steps.
LEMMA AfterSteps ==
    /\ After("/proc") = "/" /\ After("/") = "/sys" /\ After("/sys") = "/dev"
    /\ After("/dev") = "/dev/pts" /\ After("/dev/pts") = "/dev/shm"
    /\ After("/dev/shm") = "links" /\ After("links") = "/sys/kernel/security"
    /\ After("/sys/kernel/security") = "/sys/firmware/efi/efivars"
    /\ After("/sys/firmware/efi/efivars") = "/run" /\ After("/run") = "/run/user"
    /\ After("/run/user") = "first" /\ After("first") = "root-rw"
    /\ After("root-rw") = "generate"
<1>1. DOMAIN Order = 1..14
  BY DEF Order
<1>2. /\ Order[1] = "/proc" /\ Order[2] = "/" /\ Order[3] = "/sys" /\ Order[4] = "/dev"
      /\ Order[5] = "/dev/pts" /\ Order[6] = "/dev/shm" /\ Order[7] = "links"
      /\ Order[8] = "/sys/kernel/security" /\ Order[9] = "/sys/firmware/efi/efivars"
      /\ Order[10] = "/run" /\ Order[11] = "/run/user" /\ Order[12] = "first"
      /\ Order[13] = "root-rw" /\ Order[14] = "generate"
  BY DEF Order
<1>3. \A i, j \in 1..14 : Order[i] = Order[j] => i = j
  BY <1>2
<1>4. ASSUME NEW i \in 1..14 PROVE Place(Order[i]) = i
  BY <1>1, <1>3 DEF Place
<1>5. ASSUME NEW i \in 1..13 PROVE After(Order[i]) = Order[i + 1]
  BY <1>4 DEF After
<1> QED
  BY <1>2, <1>5

\* The steps of `mnt prepare`, and all of them.
LEMMA OrderSets ==
    /\ Prepare = {"/proc", "/", "/sys", "/dev", "/dev/pts", "/dev/shm", "links",
                  "/sys/kernel/security", "/sys/firmware/efi/efivars"}
    /\ Early \subseteq Places
    /\ Early = Range(Order) \cup {"prepare failed", "tmpfs failed"}
<1>1. DOMAIN Order = 1..14
  BY DEF Order
<1>2. /\ Order[1] = "/proc" /\ Order[2] = "/" /\ Order[3] = "/sys" /\ Order[4] = "/dev"
      /\ Order[5] = "/dev/pts" /\ Order[6] = "/dev/shm" /\ Order[7] = "links"
      /\ Order[8] = "/sys/kernel/security" /\ Order[9] = "/sys/firmware/efi/efivars"
      /\ Order[10] = "/run" /\ Order[11] = "/run/user" /\ Order[12] = "first"
      /\ Order[13] = "root-rw" /\ Order[14] = "generate"
  BY DEF Order
<1>3. Prepare = {"/proc", "/", "/sys", "/dev", "/dev/pts", "/dev/shm", "links",
                 "/sys/kernel/security", "/sys/firmware/efi/efivars"}
  BY <1>2 DEF Prepare
<1>4. Early = Range(Order) \cup {"prepare failed", "tmpfs failed"}
  <2>1. Range(Order) = {Order[i] : i \in 1..14}
    BY <1>1 DEF Range
  <2>2. {Order[i] : i \in 1..14} =
            {"/proc", "/", "/sys", "/dev", "/dev/pts", "/dev/shm", "links",
             "/sys/kernel/security", "/sys/firmware/efi/efivars", "/run", "/run/user",
             "first", "root-rw", "generate"}
    BY <1>2
  <2> QED
    BY <2>1, <2>2 DEF Early
<1> QED
  BY <1>3, <1>4 DEF Places

\* mount(2) leaves a mount, and without a helper a status of 0 means that it
\* was done.
LEMMA RawOutcome ==
    ASSUME NEW old \in Mount, NEW p, NEW helper \in BOOLEAN,
           NEW o \in do_mount_raw(old, p, helper)
    PROVE  /\ o.mnt \in Mount /\ o.applied \in BOOLEAN /\ o.fault \in BOOLEAN
           /\ o.ret \in {0, 1}
           /\ ~helper /\ o.ret = 0 => o.applied
<1>1. PICK new \in Mount : new = Applied(old, p.flags)
  BY DEF Applied, Mount, MountFlags, Atime
<1>3. PICK ok \in BOOLEAN : ok = FsAccepts(p.eopts)
  BY DEF FsAccepts
<1>2. PICK sh \in Mount : sh = [new EXCEPT !.shared = @ \/ "shared" \in p.flags]
  BY <1>1 DEF Mount
<1>4. PICK bad \in BOOLEAN : bad = (ok \/ helper)
  BY <1>3
<1>5. \/ o = Outcome(sh, TRUE, 0, FALSE) \/ o = Outcome(new, TRUE, 1, TRUE)
      \/ o = Outcome(old, FALSE, 1, bad)
      \/ helper /\ (o = Outcome(new, TRUE, 0, ok) \/ o = Outcome(old, FALSE, 0, TRUE))
  BY <1>1, <1>2, <1>3, <1>4 DEF do_mount_raw
<1>7. CASE o = Outcome(sh, TRUE, 0, FALSE)
  <2>1. o.mnt = sh /\ o.applied = TRUE /\ o.ret = 0 /\ o.fault = FALSE
    BY <1>7 DEF Outcome
  <2> QED
    BY <1>2, <1>7, <2>1
<1>8. CASE o = Outcome(new, TRUE, 1, TRUE)
  <2>1. o.mnt = new /\ o.applied = TRUE /\ o.ret = 1 /\ o.fault = TRUE
    BY <1>8 DEF Outcome
  <2> QED
    BY <1>1, <1>8, <2>1
<1>9. CASE o = Outcome(old, FALSE, 1, bad)
  <2>1. o.mnt = old /\ o.applied = FALSE /\ o.ret = 1
    BY <1>9 DEF Outcome
  <2>2. o.fault \in BOOLEAN
    BY <1>4, <1>9 DEF Outcome
  <2>3. o.mnt \in Mount /\ o.applied \in BOOLEAN
    BY <2>1
  <2>4. o.ret \in {0, 1}
    BY <2>1
  <2>5. o.ret # 0
    BY <2>1
  <2> QED
    BY <2>2, <2>3, <2>4, <2>5
<1>10. CASE helper /\ o = Outcome(new, TRUE, 0, ok)
  <2>1. o.mnt = new /\ o.applied = TRUE /\ o.ret = 0 /\ o.fault = ok
    BY <1>10 DEF Outcome
  <2> QED
    BY <1>1, <1>3, <1>10, <2>1
<1>11. CASE helper /\ o = Outcome(old, FALSE, 0, TRUE)
  <2>1. o.mnt = old /\ o.applied = FALSE /\ o.ret = 0 /\ o.fault = TRUE
    BY <1>11 DEF Outcome
  <2> QED
    BY <1>11, <2>1
<1> QED
  BY <1>5, <1>7, <1>8, <1>9, <1>10, <1>11

\* The types that the proofs use most.
LEMMA MountTypes ==
    ASSUME TypeOK
    PROVE  /\ tab \in [Targets -> Seq(Mount)] /\ root \in Mount
           /\ "/proc" \in Targets /\ IdFile \in Targets /\ "/proc" # IdFile
           /\ conf.helper \in BOOLEAN
           /\ MaxFaults \in Nat /\ faults \in Nat /\ faults <= MaxFaults
BY MountAssumption DEF TypeOK, Targets, Pseudo, Aux, IdFile

-----------------------------------------------------------------------------
(* The specification keeps the invariant: boots and crashes *)

\* Initially the machine is off.
LEMMA MountInit == Init => MountInv
<1> SUFFICES ASSUME Init PROVE MountInv
  OBVIOUS
<1>1. NoMount \in Mount
  BY DEF NoMount, Mount
<1>2. /\ tab \in [Targets -> Seq(Mount)] /\ \A t \in Targets : tab[t] = <<>>
      /\ Len(<<>>) <= 1 /\ Len(<<>>) <= 2
  BY DEF Init
<1>3. pc = "off" /\ "off" \in Places /\ "off" \notin Prepare
  BY OrderSets DEF Init, Places
<1>4. TypeOK
  <2>1. conf.helper \in BOOLEAN /\ conf.dirs \in BOOLEAN
    BY DEF Init
  <2>2. boots \in 0..MaxBoots /\ faults \in 0..MaxFaults
    BY MountAssumption DEF Init
  <2>3. /\ runId \in Content /\ etc \in Content /\ disk \subseteq Content /\ etc \in disk
        /\ root \in Mount /\ procsys = <<>> /\ first \in BOOLEAN
    BY <1>1 DEF Init, Content
  <2> QED
    BY <1>2, <1>3, <2>1, <2>2, <2>3 DEF TypeOK
<1>5. HistOK /\ ~hist.faulty
  BY DEF Init, HistOK, NewHist
<1>6. OthersOnce
  BY <1>2 DEF OthersOnce
<1>7. Stages /\ IdBound
  BY <1>2, <1>3, <1>4, MountTypes DEF Stages, IdBound
<1>8. Settling
  BY <1>3 DEF Settling, Init
<1>9. Committing /\ IdCommitted
  BY <1>3 DEF Committing, IdCommitted
<1> QED
  BY <1>4, <1>5, <1>6, <1>7, <1>8, <1>9 DEF MountInv

\* The kernel hands over to init.
LEMMA MountBoot ==
    ASSUME MountInv, Boot
    PROVE  MountInv'
<1>1. TypeOK /\ Settling /\ Stages /\ pc = "off"
  BY DEF MountInv, Boot
<1>2. PICK fl \in RootFlags, left \in Initramfs :
        /\ root' = [flags |-> fl, shared |-> FALSE]
        /\ tab' = [t \in Targets |-> IF t \in DOMAIN left
                                     THEN <<[flags |-> left[t], shared |-> FALSE]>>
                                     ELSE <<>>]
        /\ hist' = NewHist(fl, DOMAIN left)
  BY DEF Boot
<1>3. UNCHANGED <<conf, procsys, first, runId, etc, disk, faults>> /\ pc' = "env" /\ boots' = boots + 1
  BY DEF Boot, ids, Goto
<1>4. root' \in Mount
  BY <1>2, MountAssumption DEF Mount, MountFlags, Atime
<1>6. /\ tab' \in [Targets -> Seq(Mount)] /\ tab'[IdFile] = <<>>
      /\ \A t \in Targets : Len(tab'[t]) <= 1
  <2>1. ASSUME NEW t \in Targets PROVE tab'[t] \in Seq(Mount) /\ Len(tab'[t]) <= 1
    <3>1. CASE t \in DOMAIN left
      <4>1. PICK m : m = [flags |-> left[t], shared |-> FALSE]
        OBVIOUS
      <4>2. m \in Mount
        BY <3>1, <4>1, MountAssumption DEF Mount, MountFlags, Atime
      <4>3. tab'[t] = <<m>>
        BY <1>2, <3>1, <4>1
      <4> QED
        BY <4>2, <4>3
    <3>2. CASE t \notin DOMAIN left
      BY <1>2, <3>2
    <3> QED
      BY <3>1, <3>2
  <2>2. IdFile \in Targets /\ IdFile \notin DOMAIN left
    BY <1>2, MountAssumption DEF IdFile, Targets
  <2>3. tab'[IdFile] = <<>>
    BY <1>2, <2>2
  <2>4. tab' = [t \in Targets |-> tab'[t]]
    BY <1>2
  <2> QED
    BY <2>1, <2>3, <2>4
<1>7. boots' \in Ids /\ boots' \in 0..MaxBoots
  BY <1>1, <1>3, MountAssumption DEF Boot, TypeOK, Ids
<1>8. "env" \in Places /\ "env" \notin Prepare
  BY OrderSets DEF Places
<1>9. TypeOK'
  BY <1>1, <1>3, <1>4, <1>6, <1>7, <1>8 DEF TypeOK
<1>10. HistOK'
  BY <1>2 DEF HistOK, NewHist
<1>11. OthersOnce'
  BY <1>6 DEF OthersOnce
<1>12. Stages' /\ IdBound'
  <2>1. Len(<<>>) <= 1 /\ Len(<<>>) <= 2
    OBVIOUS
  <2> QED
    BY <1>3, <1>6, <1>7, <1>8, <2>1 DEF Stages, IdBound
<1>13. Settling'
  BY <1>1, <1>3 DEF Settling, Unsettled, Early
<1>14. Committing' /\ IdCommitted'
  BY <1>3 DEF Committing, IdCommitted
<1> QED
  BY <1>9, <1>10, <1>11, <1>12, <1>13, <1>14 DEF MountInv

\* The machine goes off, with its file or with what the disk has of it.
LEMMA MountOff ==
    ASSUME MountInv, Off, etc' \in disk, disk' = {etc'}
    PROVE  MountInv'
<1>1. TypeOK /\ pc' = "off"
  BY DEF MountInv, Off, Goto
<1>2. NoMount \in Mount
  BY DEF NoMount, Mount
<1>3. /\ tab' \in [Targets -> Seq(Mount)] /\ \A t \in Targets : tab'[t] = <<>>
      /\ Len(<<>>) <= 1 /\ Len(<<>>) <= 2
  BY DEF Off
<1>4. "off" \in Places /\ "off" \notin Prepare
  BY OrderSets DEF Places
<1>5. TypeOK'
  BY <1>1, <1>2, <1>3, <1>4 DEF TypeOK, Off, Content
<1>6. HistOK'
  BY DEF Off, HistOK, NewHist
<1>7. OthersOnce'
  BY <1>3 DEF OthersOnce
<1>8. Stages' /\ IdBound'
  BY <1>1, <1>3, <1>4 DEF Stages, IdBound, IdFile, Targets
<1>9. Settling'
  BY <1>1 DEF Settling, Off
<1>10. Committing' /\ IdCommitted'
  BY <1>1 DEF Committing, IdCommitted
<1> QED
  BY <1>5, <1>6, <1>7, <1>8, <1>9, <1>10 DEF MountInv

-----------------------------------------------------------------------------
(* The specification keeps the invariant: the services up to machine-id *)

\* History is kept in its form.
LEMMA HistKept ==
    ASSUME HistOK, NEW w, NEW r \in BOOLEAN, NEW b \in BOOLEAN
    PROVE  /\ hist' = [hist EXCEPT !.faulty = @ \/ b] => HistOK'
           /\ hist' = [hist EXCEPT !.faulty = TRUE] => HistOK' /\ hist'.faulty
           /\ hist' = [hist EXCEPT !.busy = TRUE] => HistOK' /\ hist'.busy /\ hist'.faulty = hist.faulty
           /\ hist' = [hist EXCEPT !.bound = TRUE] =>
                 HistOK' /\ hist'.faulty = hist.faulty /\ hist'.busy = hist.busy
           /\ hist' = [hist EXCEPT !.faulty = @ \/ b, !.remounted = r, !.want = w] => HistOK'
           /\ hist' = hist => HistOK'
BY DEF HistOK

\* A step among those up to the generation of the id changes mounts only.
LEMMA EarlyStep ==
    ASSUME MountInv, pc \in Early \cup {"env"}, pc' \in Early,
           UNCHANGED <<conf, runId, etc, disk, boots>>, first' \in BOOLEAN,
           tab' \in [Targets -> Seq(Mount)], tab'[IdFile] = tab[IdFile],
           OthersOnce', HistOK', root' \in Mount,
           faults' \in 0..MaxFaults,
           procsys' \in {<<>>, <<"nosuid">>, <<"nosuid", "noexec", "nodev">>},
           pc' \in Prepare => procsys' # <<>>,
           pc' \notin {"/proc", "prepare failed"} => tab'["/proc"] # <<>>,
           first' => Unsettled,
           pc' \in {"root-rw", "generate"} => first' = FirstBoot
    PROVE  MountInv'
<1>1. /\ TypeOK /\ Stages /\ IdBound /\ Settling
      /\ pc \notin {"off", "done", "umnt", "commit", "cat", "rebind", "up", "sync"}
  BY DEF MountInv, Early
<1>2. pc' \notin {"off", "env", "touch", "echo", "bind", "done", "umnt", "commit", "cat", "rebind",
                  "up", "sync"}
  BY DEF Early
<1>3. TypeOK'
  BY <1>1, OrderSets DEF TypeOK
<1>4. Stages' /\ IdBound'
  <2>1. tab'[IdFile] = <<>> /\ Len(<<>>) <= 1 /\ Len(<<>>) <= 2
    BY <1>1 DEF IdBound
  <2> QED
    BY <1>1, <1>2, <2>1 DEF Stages, IdBound
<1>5. Settling'
  <2>1. runId = Absent
    BY <1>1 DEF Settling
  <2>2. Unsettled' = Unsettled
    BY DEF Unsettled
  <2> QED
    BY <1>1, <1>2, <2>1, <2>2 DEF Settling, FirstBoot
<1>6. Committing' /\ IdCommitted'
  BY <1>2 DEF Committing, IdCommitted
<1> QED
  BY <1>3, <1>4, <1>5, <1>6 DEF MountInv

\* A fault is counted.
LEMMA Counted ==
    ASSUME TypeOK, NEW o, o.fault \in BOOLEAN, Count(o)
    PROVE  faults' \in 0..MaxFaults
<1>1. MaxFaults \in Nat /\ faults \in 0..MaxFaults
  BY MountAssumption DEF TypeOK
<1>2. CASE o.fault
  BY <1>1, <1>2 DEF Count
<1>3. CASE ~o.fault
  BY <1>1, <1>3 DEF Count
<1> QED
  BY <1>2, <1>3

\* do_try mounts what is not mounted, or fails.
LEMMA Tried ==
    ASSUME MountInv, NEW t \in Targets \ {IdFile}, NEW opts, do_try(t, opts)
    PROVE  /\ tab' \in [Targets -> Seq(Mount)] /\ tab'[IdFile] = tab[IdFile]
           /\ OthersOnce' /\ HistOK' /\ faults' \in 0..MaxFaults
           /\ tab["/proc"] # <<>> => tab'["/proc"] # <<>>
           /\ Fails \/ (Goto(After(pc)) /\ tab'[t] # <<>>)
<1>1. TypeOK /\ HistOK /\ OthersOnce
  BY DEF MountInv
<1>2. CASE do_is(t) /\ Goto(After(pc)) /\ UNCHANGED <<tab, faults, hist>>
  <2>1. tab[t] # <<>>
    BY <1>2 DEF do_is
  <2> QED
    BY <1>1, <1>2, <2>1, MountTypes, HistKept DEF OthersOnce, TypeOK
<1>3. CASE ~do_is(t) /\ do_mount(t, opts, Goto(After(pc)), Fails)
  <2>1. tab[t] = <<>>
    BY <1>3 DEF do_is
  <2>2. PICK o \in do_mount_raw(NoMount, parse_mntopts(opts, Given({"silent"})), FALSE) :
            /\ Count(o) /\ Faulty(o) /\ Push(t, o)
            /\ IF o.ret = 0 THEN Goto(After(pc)) ELSE Fails
    BY <1>3 DEF do_mount
  <2>3. /\ o.mnt \in Mount /\ o.applied \in BOOLEAN /\ o.fault \in BOOLEAN
        /\ o.ret = 0 => o.applied
    <3>1. NoMount \in Mount
      BY DEF NoMount, Mount
    <3> QED
      BY <2>2, <3>1, RawOutcome
  <2>4. faults' \in 0..MaxFaults
    BY <1>1, <2>2, <2>3, Counted
  <2>5. HistOK'
    BY <1>1, <2>2, <2>3, HistKept DEF Faulty
  <2>6. PICK one : one = <<o.mnt>> /\ one \in Seq(Mount) /\ Len(one) = 1 /\ one # <<>>
    <3>1. PICK m \in Mount : m = o.mnt
      BY <2>3
    <3>2. <<m>> \in Seq(Mount) /\ Len(<<m>>) = 1 /\ <<m>> # <<>>
      OBVIOUS
    <3> QED
      BY <3>1, <3>2
  <2>7. Append(<<>>, o.mnt) = one
    BY <2>3, <2>6
  <2>8. tab' = [tab EXCEPT ![t] = IF o.applied THEN one ELSE <<>>]
    BY <1>1, <2>1, <2>2, <2>7, MountTypes DEF Push
  <2>9. /\ tab' \in [Targets -> Seq(Mount)]
        /\ \A u \in Targets : u # t => tab'[u] = tab[u]
        /\ o.applied => tab'[t] = one
        /\ ~o.applied => tab'[t] = <<>>
    <3>1. tab \in [Targets -> Seq(Mount)] /\ <<>> \in Seq(Mount)
      BY <1>1, MountTypes
    <3>2. CASE o.applied
      BY <2>6, <2>8, <3>1, <3>2
    <3>3. CASE ~o.applied
      BY <2>8, <3>1, <3>3
    <3> QED
      BY <3>2, <3>3
  <2>10. OthersOnce'
    <3>1. Len(<<>>) <= 1 /\ Len(one) <= 1
      BY <2>6
    <3> QED
      BY <1>1, <2>3, <2>9, <3>1 DEF OthersOnce
  <2>11. Fails \/ (Goto(After(pc)) /\ tab'[t] # <<>>)
    BY <2>2, <2>3, <2>6, <2>9
  <2>12. tab["/proc"] # <<>> => tab'["/proc"] # <<>>
    BY <1>1, <2>1, <2>9, MountTypes
  <2>13. tab'[IdFile] = tab[IdFile]
    BY <1>1, <2>9, MountTypes
  <2> QED
    BY <2>4, <2>5, <2>9, <2>10, <2>11, <2>12, <2>13
<1> QED
  BY <1>2, <1>3 DEF do_try

\* A remount of / leaves a mount.
LEMMA RootRemounted ==
    ASSUME TypeOK, HistOK, NEW p, NEW wanted, NEW ok, NEW fails,
           RemountRoot(p, wanted, ok, fails)
    PROVE  /\ root' \in Mount /\ HistOK' /\ faults' \in 0..MaxFaults /\ (ok \/ fails)
           /\ hist'.busy = hist.busy /\ (hist.faulty => hist'.faulty)
<1>1. PICK o \in do_mount_raw(root, p, conf.helper) :
        /\ Count(o)
        /\ root' = o.mnt
        /\ hist' = [hist EXCEPT !.faulty = @ \/ o.fault, !.remounted = (o.ret = 0 /\ o.applied),
                                !.want = IF o.applied THEN wanted \ {"ro"} ELSE @]
        /\ IF o.ret = 0 THEN ok ELSE fails
  BY DEF RemountRoot
<1>2. o.mnt \in Mount /\ o.applied \in BOOLEAN /\ o.fault \in BOOLEAN
  BY MountTypes, <1>1, RawOutcome
<1>3. PICK w, r : r \in BOOLEAN /\ r = (o.ret = 0 /\ o.applied)
                  /\ w = IF o.applied THEN wanted \ {"ro"} ELSE hist.want
  BY <1>2
<1>4. hist' = [hist EXCEPT !.faulty = @ \/ o.fault, !.remounted = r, !.want = w]
  BY <1>1, <1>3
<1>5. HistOK' /\ hist'.busy = hist.busy /\ (hist.faulty => hist'.faulty)
  <2>1. hist'.busy = hist.busy /\ (hist.faulty => hist'.faulty)
    BY <1>4 DEF HistOK
  <2> QED
    BY <1>2, <1>3, <1>4, <2>1, HistKept
<1>6. faults' \in 0..MaxFaults
  BY <1>1, <1>2, Counted
<1> QED
  BY <1>1, <1>2, <1>5, <1>6

\* env.sh, and a service that is started again.
LEMMA MountEnvRetry ==
    ASSUME MountInv, Env \/ Retry
    PROVE  MountInv'
<1>1. TypeOK /\ HistOK /\ OthersOnce /\ Stages /\ Settling
  BY DEF MountInv
<1>2. /\ UNCHANGED <<conf, tab, root, first, runId, etc, disk, boots, faults, hist>>
      /\ pc \in Early \cup {"env"}
      /\ \/ pc' = "/proc" /\ procsys' = <<"nosuid", "noexec", "nodev">>
         \/ pc = "tmpfs failed" /\ pc' = "/run" /\ UNCHANGED procsys
  BY DEF Env, Retry, Goto, mounts, ids, Early
<1>3. pc' \in Early /\ "/run" \notin Prepare
  BY <1>2, OrderSets DEF Early
<1>4. pc' \notin {"/proc", "prepare failed"} => tab'["/proc"] # <<>>
  BY <1>1, <1>2 DEF Stages
<1>5. /\ procsys' \in {<<>>, <<"nosuid">>, <<"nosuid", "noexec", "nodev">>}
      /\ pc' \in Prepare => procsys' # <<>>
  <2>1. <<"nosuid", "noexec", "nodev">> # <<>>
    OBVIOUS
  <2>2. CASE pc' = "/proc" /\ procsys' = <<"nosuid", "noexec", "nodev">>
    BY <2>1, <2>2
  <2>3. CASE pc' = "/run" /\ UNCHANGED procsys
    BY <1>1, <1>3, <2>3 DEF TypeOK
  <2> QED
    BY <1>2, <2>2, <2>3
<1>6. first' => Unsettled
  BY <1>1, <1>2 DEF Settling
<1>7. HistOK' /\ OthersOnce'
  BY <1>1, <1>2, HistKept DEF OthersOnce
<1>8. /\ tab' \in [Targets -> Seq(Mount)] /\ tab'[IdFile] = tab[IdFile] /\ root' \in Mount
      /\ first' \in BOOLEAN /\ faults' \in 0..MaxFaults
  BY <1>1, <1>2 DEF TypeOK
<1> QED
  BY <1>2, <1>3, <1>4, <1>5, <1>6, <1>7, <1>8, EarlyStep

\* A pseudo-filesystem, or /run.
LEMMA MountFilesystems ==
    ASSUME MountInv, PrepareMount \/ Tmpfs
    PROVE  MountInv'
<1>1. TypeOK /\ HistOK /\ OthersOnce /\ Stages /\ Settling
  BY DEF MountInv
<1>2. /\ pc \in Pseudo \cup Aux \cup {"/run", "/run/user"}
      /\ UNCHANGED <<conf, root, first, runId, etc, disk, boots>>
  BY DEF PrepareMount, Tmpfs, ids
<1>3. pc \in Early /\ pc \in Targets \ {IdFile}
  BY <1>2 DEF Pseudo, Aux, Early, Targets, IdFile
<1>4. /\ After(pc) \in Early \ {"/proc", "prepare failed", "root-rw", "generate"}
      /\ pc \in {"/run", "/run/user"} => After(pc) \notin Prepare
  BY <1>2, AfterSteps, OrderSets DEF Pseudo, Aux, Early
<1>5. /\ tab' \in [Targets -> Seq(Mount)] /\ tab'[IdFile] = tab[IdFile]
      /\ OthersOnce' /\ HistOK' /\ faults' \in 0..MaxFaults
      /\ tab["/proc"] # <<>> => tab'["/proc"] # <<>>
      /\ Fails \/ (Goto(After(pc)) /\ (pc = "/proc" => tab'["/proc"] # <<>>))
  <2>1. CASE Goto(After(pc)) /\ UNCHANGED <<tab, faults, hist>> /\ pc \in Aux
    BY <1>1, <2>1, HistKept DEF TypeOK, OthersOnce, Aux
  <2>2. CASE do_try(pc, Opts(pc))
    BY <1>3, <2>2, Tried
  <2> QED
    BY <2>1, <2>2 DEF PrepareMount, Tmpfs
<1>6. pc' \in Early /\ pc' \notin {"/proc", "root-rw", "generate"}
  BY <1>4, <1>5 DEF Fails, Goto, Early
<1>7. pc' # "prepare failed" => tab'["/proc"] # <<>>
  <2>1. pc # "/proc" => tab["/proc"] # <<>>
    BY <1>1, <1>2 DEF Stages, Pseudo, Aux
  <2>2. CASE Fails
    BY <1>5, <2>1, <2>2, OrderSets DEF Fails, Goto
  <2>3. CASE Goto(After(pc)) /\ (pc = "/proc" => tab'["/proc"] # <<>>)
    BY <1>5, <2>1, <2>3
  <2> QED
    BY <1>5, <2>2, <2>3
<1>8. /\ procsys' \in {<<>>, <<"nosuid">>, <<"nosuid", "noexec", "nodev">>}
      /\ pc' \in Prepare => procsys' # <<>>
  <2>1. CASE PrepareMount
    <3>1. pc \in Prepare
      BY <2>1, OrderSets DEF PrepareMount, Pseudo, Aux
    <3>2. procsys \in {<<"nosuid">>, <<"nosuid", "noexec", "nodev">>}
      BY <1>1, <3>1 DEF TypeOK, Stages
    <3>3. Parsed(procsys) = <<"nosuid">>
      BY <3>2 DEF Parsed
    <3>4. procsys' = procsys \/ procsys' = Parsed(procsys)
      BY <2>1 DEF PrepareMount
    <3> QED
      BY <3>2, <3>3, <3>4
  <2>2. CASE Tmpfs
    <3>1. procsys' = procsys /\ pc \in {"/run", "/run/user"}
      BY <2>2 DEF Tmpfs
    <3>2. pc' \notin Prepare
      BY <1>4, <1>5, <3>1, OrderSets DEF Fails, Goto
    <3> QED
      BY <1>1, <3>1, <3>2 DEF TypeOK
  <2> QED
    BY <2>1, <2>2
<1>9. first' \in BOOLEAN /\ (first' => Unsettled) /\ root' \in Mount
  BY <1>1, <1>2 DEF TypeOK, Settling
<1> QED
  BY <1>2, <1>3, <1>5, <1>6, <1>7, <1>8, <1>9, EarlyStep

\* The remounts of /, the links in /dev, and the mark of a first boot.
LEMMA MountOthers ==
    ASSUME MountInv, PrepareRoot \/ PrepareLinks \/ TmpfsFirstBoot \/ RootRw
    PROVE  MountInv'
<1>1. TypeOK /\ HistOK /\ OthersOnce /\ Stages /\ Settling
  BY DEF MountInv
<1>2. /\ UNCHANGED <<conf, tab, procsys, runId, etc, disk, boots>>
      /\ pc \in {"/", "links", "first", "root-rw"}
  BY DEF PrepareRoot, PrepareLinks, TmpfsFirstBoot, RootRw, ids, mounts
<1>3. root' \in Mount /\ HistOK' /\ faults' \in 0..MaxFaults
  <2>1. CASE PrepareRoot
    BY <1>1, <2>1, RootRemounted DEF PrepareRoot
  <2>2. CASE RootRw
    BY <1>1, <2>2, RootRemounted DEF RootRw
  <2>3. CASE TmpfsFirstBoot
    BY <1>1, <2>3, HistKept DEF TmpfsFirstBoot, TypeOK, mounts
  <2>4. CASE PrepareLinks
    <3>1. root' = root
      BY <2>4 DEF PrepareLinks, mounts
    <3>2. CASE UNCHANGED <<faults, hist>>
      BY <1>1, <3>1, <3>2, HistKept DEF TypeOK
    <3>3. CASE faults < MaxFaults /\ faults' = faults + 1 /\ hist' = [hist EXCEPT !.faulty = TRUE]
      <4>1. HistOK'
        BY <1>1, <3>3, HistKept
      <4>2. faults' \in 0..MaxFaults
        BY <1>1, <3>3, MountTypes
      <4> QED
        BY <1>1, <3>1, <4>1, <4>2, MountTypes
    <3> QED
      BY <2>4, <3>2, <3>3 DEF PrepareLinks
  <2> QED
    BY <2>1, <2>2, <2>3, <2>4
<1>4. \/ pc' = After(pc)
      \/ pc \in {"/", "links"} /\ pc' = "prepare failed"
  <2>1. CASE PrepareRoot
    <3>1. Goto(After(pc)) \/ Fails
      BY <1>1, <2>1, RootRemounted DEF PrepareRoot
    <3> QED
      BY <2>1, <3>1, OrderSets DEF PrepareRoot, Fails, Goto
  <2>2. CASE RootRw \/ TmpfsFirstBoot
    BY <2>2 DEF RootRw, TmpfsFirstBoot, Goto
  <2>3. CASE PrepareLinks
    BY <2>3, OrderSets DEF PrepareLinks, Fails, Goto
  <2> QED
    BY <2>1, <2>2, <2>3
<1>5. /\ pc' \in {"/sys", "/sys/kernel/security", "root-rw", "generate", "prepare failed"}
      /\ pc = "first" => pc' = "root-rw"
      /\ pc' = "generate" => pc = "root-rw"
      /\ pc' \in {"root-rw", "generate"} => pc \in {"first", "root-rw"}
      /\ pc' \in Prepare => pc \in Prepare
  BY <1>2, <1>4, AfterSteps, OrderSets
<1>6. first' \in BOOLEAN /\ (first' => Unsettled)
  <2>1. CASE TmpfsFirstBoot
    <3>1. etc \in disk /\ etc \in Content
      BY <1>1 DEF TypeOK
    <3>2. FirstBoot => etc \notin Ids
      BY MountAssumption DEF FirstBoot, Ids
    <3>3. first' = FirstBoot
      BY <2>1 DEF TmpfsFirstBoot
    <3>4. FirstBoot \in BOOLEAN
      BY DEF FirstBoot
    <3> QED
      BY <3>1, <3>2, <3>3, <3>4 DEF Unsettled
  <2>2. CASE first' = first
    BY <1>1, <2>2 DEF TypeOK, Settling
  <2> QED
    BY <2>1, <2>2 DEF PrepareRoot, PrepareLinks, RootRw, ids
<1>7. pc' \in {"root-rw", "generate"} => first' = FirstBoot
  <2>1. CASE TmpfsFirstBoot
    BY <2>1 DEF TmpfsFirstBoot
  <2>2. CASE RootRw
    BY <1>1, <2>2 DEF RootRw, ids, Settling
  <2>3. CASE PrepareRoot \/ PrepareLinks
    <3>1. pc \in {"/", "links"}
      BY <2>3 DEF PrepareRoot, PrepareLinks
    <3> QED
      BY <1>5, <3>1
  <2> QED
    BY <2>1, <2>2, <2>3
<1>8. tab'["/proc"] # <<>> /\ tab' \in [Targets -> Seq(Mount)] /\ tab'[IdFile] = tab[IdFile]
  BY <1>1, <1>2, MountTypes DEF Stages
<1>9. /\ procsys' \in {<<>>, <<"nosuid">>, <<"nosuid", "noexec", "nodev">>}
      /\ pc' \in Prepare => procsys' # <<>>
  BY <1>1, <1>2, <1>5 DEF TypeOK, Stages
<1>10. pc \in Early \cup {"env"} /\ pc' \in Early /\ OthersOnce'
  BY <1>1, <1>2, <1>5 DEF Early, OthersOnce
<1> QED
  BY <1>2, <1>3, <1>6, <1>7, <1>8, <1>9, <1>10, EarlyStep

-----------------------------------------------------------------------------
(* The specification keeps the invariant: machine-id.sh, done.sh *)

\* Steps that may fail.
LEMMA Faults ==
    ASSUME TypeOK, HistOK, Fault \/ NoFault
    PROVE  /\ HistOK' /\ faults' \in 0..MaxFaults
           /\ Fault => hist'.faulty
           /\ hist'.faulty \/ hist' = hist
<1>1. CASE Fault
  <2>1. HistOK' /\ hist'.faulty
    BY <1>1, HistKept DEF Fault
  <2>2. faults' \in 0..MaxFaults
    BY <1>1, MountTypes DEF Fault
  <2> QED
    BY <2>1, <2>2
<1>2. CASE NoFault
  <2>1. HistOK' /\ hist' = hist
    BY <1>2, HistKept DEF NoFault
  <2>2. faults' \in 0..MaxFaults
    BY <1>2 DEF NoFault, TypeOK
  <2>3. Fault => hist'.faulty
    BY HistKept DEF Fault
  <2> QED
    BY <2>1, <2>2, <2>3
<1> QED
  BY <1>1, <1>2

\* Contents that are no id, and all contents.
LEMMA Contents ==
    /\ Absent \notin Ids /\ Empty \notin Ids /\ Uninitialized \notin Ids
    /\ Absent # Empty /\ Absent # Uninitialized
    /\ {Absent, Empty, Uninitialized} \subseteq Content /\ Ids \subseteq Content
    /\ \A x \in Content : x \notin {Absent, Empty, Uninitialized} => x \in Ids
BY MountAssumption DEF Ids, Content

Late == {"touch", "echo", "bind", "done", "umnt", "commit", "cat", "rebind", "up"}

\* Only the id's file, its mount and the copy in /run change.
LEMMA LateStep ==
    ASSUME MountInv, pc \in {"generate"} \cup Late, pc' \in Late,
           UNCHANGED <<conf, root, procsys, first, boots>>,
           faults' \in 0..MaxFaults, HistOK',
           tab' \in [Targets -> Seq(Mount)],
           \A t \in Targets : t # IdFile => tab'[t] = tab[t],
           IdBound',
           runId' \in Content, etc' \in Content, disk' = disk \cup {etc'},
           runId' # Absent \/ pc' \in {"echo", "umnt", "commit", "cat"} => Unsettled,
           Committing', IdCommitted'
    PROVE  MountInv'
<1>1. TypeOK /\ OthersOnce /\ Stages /\ Settling
  BY DEF MountInv
<1>2. pc' \in Places /\ pc' \notin Prepare \cup {"off", "env", "sync"} \cup Early
  BY OrderSets DEF Late, Places, Early
<1>3. TypeOK'
  BY <1>1, <1>2 DEF TypeOK
<1>4. OthersOnce'
  BY <1>1 DEF OthersOnce
<1>5. Stages'
  <2>1. tab'["/proc"] # <<>> /\ boots \in Ids
    BY <1>1, MountTypes DEF Stages, Late
  <2> QED
    BY <1>2, <2>1 DEF Stages, Late
<1>6. Settling'
  <2>1. Unsettled => Unsettled'
    BY DEF Unsettled
  <2> QED
    BY <1>1, <1>2, <2>1 DEF Settling, Early
<1> QED
  BY <1>3, <1>4, <1>5, <1>6 DEF MountInv

\* Nothing is bound before the id is.
LEMMA Unbound ==
    ASSUME MountInv, pc \in {"generate", "touch", "echo", "bind"}
    PROVE  tab[IdFile] = <<>> /\ Visible = etc /\ etc \in disk
<1>1. tab[IdFile] = <<>> /\ etc \in disk
  BY DEF MountInv, IdBound, TypeOK
<1> QED
  BY <1>1 DEF Visible

\* An id that is bound once, or not at all.
LEMMA BoundOnce ==
    ASSUME Len(tab'[IdFile]) \in Nat, Len(tab'[IdFile]) <= 1,
           \/ pc' \in {"done", "umnt", "cat", "up"}
           \/ tab'[IdFile] = <<>>
           \/ hist'.busy /\ pc' = "commit"
           \/ hist'.busy /\ hist'.faulty /\ pc' = "rebind"
    PROVE  IdBound'
<1>1. Len(tab'[IdFile]) <= 2
  OBVIOUS
<1> QED
  BY <1>1 DEF IdBound

\* What a step leaves alone is still of its type.
LEMMA LateKept ==
    ASSUME MountInv
    PROVE  /\ tab \in [Targets -> Seq(Mount)] /\ Len(tab[IdFile]) \in Nat
           /\ pc \notin {"up", "sync"} => Len(tab[IdFile]) <= 1
           /\ runId \in Content /\ etc \in Content /\ disk = disk \cup {etc}
           /\ runId # Absent => Unsettled
           /\ pc \in {"echo", "umnt", "commit", "cat"} => Unsettled
           /\ TypeOK /\ HistOK /\ Committing /\ Stages /\ Settling /\ IdBound
BY MountTypes DEF MountInv, TypeOK, IdBound, Settling

\* An id is wanted only if the disk may have none.
LEMMA MountGenerate ==
    ASSUME MountInv, Generate
    PROVE  MountInv'
<1>1. /\ pc = "generate" /\ UNCHANGED <<conf, tab, root, procsys, first, etc, disk, boots>>
  BY DEF Generate, mounts
<1>2. tab[IdFile] = <<>> /\ Visible = etc /\ etc \in disk
  BY <1>1, Unbound
<1>3. runId = Absent /\ first = FirstBoot /\ boots \in Ids /\ (first => Unsettled)
  BY <1>1, LateKept DEF Settling, Stages, Early
<1>4. Wanted => Unsettled
  BY <1>2, <1>3, Contents DEF Wanted, Unsettled
<1>5. ~Wanted => etc \in Ids
  <2>1. etc \in Content
    BY LateKept
  <2> QED
    BY <1>2, <1>3, <2>1, Contents DEF Wanted, FirstBoot
<1>6. Fault \/ NoFault
  BY DEF Generate
<1>7. /\ HistOK' /\ faults' \in 0..MaxFaults /\ (Fault => hist'.faulty)
  BY <1>6, LateKept, Faults
<1>8. pc' \in {"touch", "done"}
  BY DEF Generate, Goto
<1>9. /\ runId' \in Content
      /\ runId' # Absent => Unsettled
      /\ \/ Fault
         \/ pc' = "touch" /\ runId' = IF Wanted THEN boots ELSE Absent
  <2>1. CASE runId' = (IF Wanted THEN boots ELSE runId) /\ Goto("touch") /\ NoFault
    BY <1>3, <1>4, <2>1, Contents DEF Goto
  <2>2. CASE Wanted /\ runId' = Empty /\ Fault
    BY <1>4, <2>2, Contents
  <2>3. CASE Fault /\ UNCHANGED runId
    BY <1>3, <2>3, Contents
  <2> QED
    BY <2>1, <2>2, <2>3 DEF Generate
<1>10. Committing' /\ IdCommitted'
  <2>1. CASE Fault
    BY <1>7, <2>1 DEF Committing, IdCommitted
  <2>2. CASE pc' = "touch" /\ runId' = IF Wanted THEN boots ELSE Absent
    <3>1. runId' = Absent => etc' \in Ids
      BY <1>1, <1>3, <1>5, <2>2, Contents
    <3>2. runId' # Absent => runId' \in Ids
      BY <1>3, <2>2
    <3> QED
      BY <2>2, <3>1, <3>2 DEF Committing, IdCommitted
  <2> QED
    BY <1>9, <2>1, <2>2
<1>11. /\ tab' \in [Targets -> Seq(Mount)] /\ IdBound'
       /\ \A t \in Targets : t # IdFile => tab'[t] = tab[t]
       /\ etc' \in Content /\ disk' = disk \cup {etc'}
  BY <1>1, <1>2, LateKept, BoundOnce
<1>12. pc \in {"generate"} \cup Late /\ pc' \in Late /\ pc' \notin {"echo", "umnt", "commit", "cat"}
  BY <1>1, <1>8 DEF Late
<1> QED
  BY <1>1, <1>7, <1>9, <1>10, <1>11, <1>12, LateStep

\* The file is made, and marked.
LEMMA MountTouchEcho ==
    ASSUME MountInv, Touch \/ Echo
    PROVE  MountInv'
<1>1. /\ pc \in {"touch", "echo"} /\ UNCHANGED <<conf, tab, root, procsys, first, runId, boots>>
      /\ Fault \/ NoFault
  BY DEF Touch, Echo, mounts
<1>2. tab[IdFile] = <<>> /\ Visible = etc /\ etc \in disk
  BY <1>1, Unbound
<1>3. HistOK' /\ faults' \in 0..MaxFaults /\ (Fault => hist'.faulty)
  BY <1>1, LateKept, Faults
<1>4. /\ etc' \in Content /\ disk' = disk \cup {etc'} /\ pc' \in {"echo", "bind", "done"}
      /\ pc' = "echo" => Unsettled
      /\ Fault \/ (hist' = hist /\ Committing')
  <2>1. CASE Fault /\ UNCHANGED <<etc, disk>> /\ pc' \in {"bind", "done"}
    BY <2>1, LateKept
  <2>2. CASE pc = "touch" /\ Visible = Absent /\ Writable /\ SetEtc(Empty) /\ Goto("echo") /\ NoFault
    <3>1. etc = Absent /\ Unsettled
      BY <1>2, <2>2, Contents DEF Unsettled
    <3>2. etc' = Empty /\ disk' = disk \cup {etc'} /\ pc' = "echo" /\ hist' = hist
      BY <2>2 DEF SetEtc, Goto, NoFault
    <3>3. ~hist.faulty /\ ~hist.busy => runId \in Ids
      BY <2>2, <3>1, LateKept, Contents DEF Committing
    <3>4. Committing'
      BY <1>1, <2>2, <3>2, <3>3 DEF Committing, Writable
    <3> QED
      BY <3>1, <3>2, <3>4, Contents
  <2>3. CASE pc = "touch" /\ (Visible = Absent => ~Writable) /\ Goto("bind") /\ NoFault
             /\ UNCHANGED <<etc, disk>>
    <3>1. pc' = "bind" /\ hist' = hist
      BY <2>3 DEF Goto, NoFault
    <3>2. Committing'
      BY <1>1, <1>2, <2>3, <3>1, LateKept DEF Committing, Writable
    <3> QED
      BY <2>3, <3>1, <3>2, LateKept
  <2>4. CASE pc = "echo" /\ SetEtc(Uninitialized) /\ Goto("bind") /\ NoFault
    <3>1. etc' = Uninitialized /\ disk' = disk \cup {etc'} /\ pc' = "bind" /\ hist' = hist
      BY <2>4 DEF SetEtc, Goto, NoFault
    <3>2. ~hist.faulty /\ ~hist.busy => runId \in Ids /\ runId # Absent
      BY <2>4, LateKept, Contents DEF Committing
    <3>3. Committing'
      BY <1>1, <3>1, <3>2, Contents DEF Committing
    <3> QED
      BY <3>1, <3>3, Contents
  <2> QED
    BY <2>1, <2>2, <2>3, <2>4 DEF Touch, Echo, Goto
<1>5. Committing' /\ IdCommitted'
  <2>1. CASE Fault
    BY <1>3, <2>1 DEF Committing, IdCommitted
  <2>2. CASE Committing'
    BY <1>4, <2>2 DEF IdCommitted
  <2> QED
    BY <1>4, <2>1, <2>2
<1>6. /\ tab' \in [Targets -> Seq(Mount)] /\ IdBound'
      /\ \A t \in Targets : t # IdFile => tab'[t] = tab[t]
      /\ runId' \in Content
      /\ runId' # Absent \/ pc' \in {"echo", "umnt", "commit", "cat"} => Unsettled
  BY <1>1, <1>2, <1>4, LateKept, BoundOnce
<1>7. pc \in {"generate"} \cup Late /\ pc' \in Late
  BY <1>1, <1>4 DEF Late
<1> QED
  BY <1>1, <1>3, <1>4, <1>5, <1>6, <1>7, LateStep

\* The file in /run is bound once more.
LEMMA Bound ==
    ASSUME MountInv, NEW next, BindId(next)
    PROVE  /\ tab' \in [Targets -> Seq(Mount)]
           /\ \A t \in Targets : t # IdFile => tab'[t] = tab[t]
           /\ HistOK' /\ faults' \in 0..MaxFaults /\ pc' = next
           /\ hist'.busy = hist.busy /\ (hist.faulty => hist'.faulty)
           /\ \/ hist'.faulty /\ tab' = tab
              \/ /\ hist'.faulty = hist.faulty /\ tab'[IdFile] # <<>>
                 /\ Len(tab'[IdFile]) = Len(tab[IdFile]) + 1
<1>1. CASE Fault /\ Goto(next) /\ UNCHANGED tab
  <2>1. hist'.busy = hist.busy
    BY <1>1, LateKept DEF Fault, HistOK
  <2> QED
    BY <1>1, <2>1, LateKept, Faults DEF Goto
<1>2. CASE /\ tab' = [tab EXCEPT ![IdFile] = Append(@, [flags |-> {"relatime"}, shared |-> FALSE])]
           /\ faults' = faults /\ hist' = [hist EXCEPT !.bound = TRUE]
           /\ Goto(next)
  <2>1. PICK m \in Mount : m = [flags |-> {"relatime"}, shared |-> FALSE]
    BY DEF Mount, Atime
  <2>2. PICK s \in Seq(Mount) : s = tab[IdFile]
    BY LateKept, MountTypes
  <2>3. PICK more : /\ more = Append(s, m) /\ more \in Seq(Mount) /\ Len(more) = Len(s) + 1
                    /\ more # <<>>
    <3>1. Append(s, m) \in Seq(Mount) /\ Len(Append(s, m)) = Len(s) + 1 /\ Append(s, m) # <<>>
      BY <2>1, <2>2
    <3> QED
      BY <3>1
  <2>4. tab \in [Targets -> Seq(Mount)] /\ IdFile \in Targets
    BY LateKept, MountTypes
  <2>5. tab' = [tab EXCEPT ![IdFile] = more]
    BY <1>2, <2>1, <2>2, <2>3, <2>4
  <2>6. HistOK' /\ hist'.faulty = hist.faulty /\ hist'.busy = hist.busy
    BY <1>2, LateKept, HistKept
  <2>7. faults' \in 0..MaxFaults
    BY <1>2, LateKept DEF TypeOK
  <2> QED
    BY <1>2, <2>2, <2>3, <2>4, <2>5, <2>6, <2>7 DEF Goto
<1> QED
  BY <1>1, <1>2 DEF BindId

\* The id is bound over the file, now or, after a failed commit, again.
LEMMA MountBind ==
    ASSUME MountInv, Bind \/ Rebind
    PROVE  MountInv'
<1>1. /\ pc \in {"bind", "rebind"} /\ UNCHANGED <<conf, root, procsys, first, runId, etc, disk, boots>>
  BY DEF Bind, Rebind, ids
<1>2. PICK n \in Nat : n = Len(tab[IdFile]) /\ n <= 1 /\ (tab[IdFile] = <<>> <=> n = 0)
  <2>1. PICK s \in Seq(Mount) : s = tab[IdFile]
    BY LateKept, MountTypes
  <2>2. Len(s) \in Nat /\ (s = <<>> <=> Len(s) = 0)
    BY <2>1
  <2> QED
    BY <1>1, <2>1, <2>2, LateKept
<1>3. /\ runId' \in Content /\ etc' \in Content /\ disk' = disk \cup {etc'}
      /\ runId' # Absent => Unsettled
  BY <1>1, LateKept
<1>4. CASE pc = "bind" /\ BindId("done") /\ runId # Absent
  <2>1. /\ tab' \in [Targets -> Seq(Mount)]
        /\ \A t \in Targets : t # IdFile => tab'[t] = tab[t]
        /\ HistOK' /\ faults' \in 0..MaxFaults /\ pc' = "done"
        /\ hist'.busy = hist.busy
        /\ \/ hist'.faulty /\ tab' = tab
           \/ /\ hist'.faulty = hist.faulty /\ tab'[IdFile] # <<>>
              /\ Len(tab'[IdFile]) = Len(tab[IdFile]) + 1
    BY <1>4, Bound
  <2>2. Committing' /\ IdCommitted'
    BY <1>1, <1>4, <2>1, LateKept DEF Committing, IdCommitted
  <2>3. n = 0
    BY <1>2, <1>4, Unbound
  <2>4. Len(tab'[IdFile]) \in Nat /\ Len(tab'[IdFile]) <= 1
    <3>1. CASE tab' = tab
      BY <1>2, <3>1
    <3>2. CASE Len(tab'[IdFile]) = Len(tab[IdFile]) + 1
      BY <1>2, <2>3, <3>2
    <3> QED
      BY <2>1, <3>1, <3>2
  <2>5. IdBound'
    BY <2>1, <2>4, BoundOnce
  <2> QED
    BY <1>1, <1>3, <2>1, <2>2, <2>5, LateStep DEF Late
<1>5. CASE pc = "bind" /\ ~(runId # Absent /\ Visible # Absent) /\ Goto("done") /\ NoFault
           /\ UNCHANGED tab
  <2>1. HistOK' /\ faults' \in 0..MaxFaults /\ hist' = hist /\ pc' = "done"
    BY <1>5, LateKept, Faults DEF NoFault, Goto
  <2>2. tab[IdFile] = <<>> /\ Visible = etc
    BY <1>5, Unbound
  <2>3. Committing' /\ IdCommitted'
    BY <1>1, <1>5, <2>1, <2>2, LateKept DEF Committing, IdCommitted, Writable
  <2>4. /\ tab' \in [Targets -> Seq(Mount)] /\ Len(tab'[IdFile]) \in Nat /\ Len(tab'[IdFile]) <= 1
        /\ \A t \in Targets : t # IdFile => tab'[t] = tab[t]
    BY <1>2, <1>5, LateKept
  <2>5. IdBound'
    BY <2>1, <2>4, BoundOnce
  <2> QED
    BY <1>1, <1>3, <2>1, <2>3, <2>4, <2>5, LateStep DEF Late
<1>6. CASE pc = "rebind" /\ BindId("up")
  <2>1. /\ tab' \in [Targets -> Seq(Mount)]
        /\ \A t \in Targets : t # IdFile => tab'[t] = tab[t]
        /\ HistOK' /\ faults' \in 0..MaxFaults /\ pc' = "up"
        /\ hist'.busy = hist.busy /\ (hist.faulty => hist'.faulty)
        /\ \/ hist'.faulty /\ tab' = tab
           \/ /\ hist'.faulty = hist.faulty /\ tab'[IdFile] # <<>>
              /\ Len(tab'[IdFile]) = Len(tab[IdFile]) + 1
    BY <1>6, Bound
  <2>2. Committing'
    BY <2>1 DEF Committing
  <2>3. IdCommitted'
    BY <1>1, <1>6, <2>1, LateKept DEF Committing, IdCommitted, Visible, Writable
  <2>4. Len(tab'[IdFile]) \in Nat /\ Len(tab'[IdFile]) <= n + 1
    BY <1>2, <2>1
  <2>5. n = 0 \/ (hist.busy /\ hist.faulty)
    BY <1>2, <1>6, LateKept DEF IdBound
  <2>6. CASE n = 0
    <3>1. Len(tab'[IdFile]) <= 1
      BY <2>4, <2>6
    <3>2. IdBound'
      BY <2>1, <2>4, <3>1, BoundOnce
    <3> QED
      BY <1>1, <1>3, <2>1, <2>2, <2>3, <3>2, LateStep DEF Late
  <2>7. CASE hist.busy /\ hist.faulty
    <3>1. Len(tab'[IdFile]) <= 2
      BY <1>2, <2>4
    <3>2. IdBound'
      BY <2>1, <2>7, <3>1 DEF IdBound
    <3> QED
      BY <1>1, <1>3, <2>1, <2>2, <2>3, <3>2, LateStep DEF Late
  <2> QED
    BY <2>5, <2>6, <2>7
<1> QED
  BY <1>4, <1>5, <1>6 DEF Bind, Rebind

\* done.sh looks whether there is something to commit.
LEMMA MountDone ==
    ASSUME MountInv, Done
    PROVE  MountInv'
<1>1. /\ pc = "done"
      /\ UNCHANGED <<conf, tab, root, procsys, first, runId, etc, disk, boots, faults, hist>>
      /\ pc' = IF do_is(IdFile) /\ runId # Absent THEN "umnt" ELSE "up"
  BY DEF Done, mounts, ids, Goto
<1>2. do_is(IdFile) <=> tab[IdFile] # <<>>
  BY <1>1, LateKept DEF do_is, Stages
<1>3. /\ runId' \in Content /\ etc' \in Content /\ disk' = disk \cup {etc'}
      /\ runId' # Absent => Unsettled
      /\ tab' \in [Targets -> Seq(Mount)] /\ IdBound'
      /\ \A t \in Targets : t # IdFile => tab'[t] = tab[t]
  BY <1>1, LateKept, BoundOnce
<1>4. HistOK' /\ faults' \in 0..MaxFaults
  BY <1>1, LateKept, HistKept DEF TypeOK
<1>5. CASE tab[IdFile] # <<>> /\ runId # Absent
  <2>1. pc' = "umnt"
    BY <1>1, <1>2, <1>5
  <2>2. Committing' /\ IdCommitted'
    BY <1>1, <1>5, <2>1, LateKept DEF Committing, IdCommitted
  <2> QED
    BY <1>1, <1>3, <1>4, <1>5, <2>1, <2>2, LateStep DEF Late
<1>6. CASE ~(tab[IdFile] # <<>> /\ runId # Absent)
  <2>1. pc' = "up"
    BY <1>1, <1>2, <1>6
  <2>2. Committing'
    BY <2>1 DEF Committing
  <2>3. IdCommitted'
    <3> SUFFICES ASSUME ~hist.faulty, ~hist.busy
                 PROVE  /\ Visible' \in Ids \/ (etc = Absent /\ ~Writable)
                        /\ Writable => etc = Visible'
      BY <1>1 DEF IdCommitted, Writable
    <3>1. tab[IdFile] = <<>> /\ (etc \in Ids \/ (etc = Absent /\ ~Writable))
      BY <1>1, <1>6, LateKept, Contents DEF Committing
    <3> QED
      BY <1>1, <3>1 DEF Visible
  <2> QED
    BY <1>1, <1>3, <1>4, <2>1, <2>2, <2>3, LateStep DEF Late
<1> QED
  BY <1>5, <1>6

\* The file is unbound, unless it is busy.
LEMMA MountUmnt ==
    ASSUME MountInv, Umnt
    PROVE  MountInv'
<1>1. pc = "umnt" /\ pc' = "commit" /\ UNCHANGED <<conf, root, procsys, first, runId, etc, disk, boots, faults>>
  BY DEF Umnt, Goto, ids
<1>2. /\ runId' \in Content /\ etc' \in Content /\ disk' = disk \cup {etc'}
      /\ Unsettled
  BY <1>1, LateKept
<1>3. faults' \in 0..MaxFaults
  BY <1>1, LateKept DEF TypeOK
<1>4. CASE tab' = [tab EXCEPT ![IdFile] = Front(@)] /\ UNCHANGED hist
  <2>1. PICK s \in Seq(Mount) : s = tab[IdFile] /\ Len(s) <= 1
    BY <1>1, LateKept, MountTypes
  <2>2. Front(s) = <<>>
    <3>1. Len(s) = 0 \/ Len(s) = 1
      <4>1. PICK n \in Nat : n = Len(s) /\ n <= 1
        BY <2>1
      <4>2. n = 0 \/ n = 1
        BY <4>1
      <4> QED
        BY <4>1, <4>2
    <3>2. CASE Len(s) = 0
      BY <3>2 DEF Front
    <3>3. CASE Len(s) = 1
      BY <3>3 DEF Front
    <3> QED
      BY <3>1, <3>2, <3>3
  <2>3. tab \in [Targets -> Seq(Mount)] /\ IdFile \in Targets /\ <<>> \in Seq(Mount) /\ Len(<<>>) <= 1
    BY LateKept, MountTypes
  <2>4. /\ tab' \in [Targets -> Seq(Mount)] /\ tab'[IdFile] = <<>>
        /\ Len(tab'[IdFile]) \in Nat /\ Len(tab'[IdFile]) <= 1
        /\ \A t \in Targets : t # IdFile => tab'[t] = tab[t]
    BY <1>4, <2>1, <2>2, <2>3
  <2>5. HistOK'
    BY <1>4, LateKept, HistKept
  <2>6. Committing' /\ IdCommitted'
    BY <1>1, <1>4, <2>4, LateKept DEF Committing, IdCommitted
  <2>7. IdBound'
    BY <2>4, BoundOnce
  <2> QED
    BY <1>1, <1>2, <1>3, <2>4, <2>5, <2>6, <2>7, LateStep DEF Late
<1>5. CASE hist' = [hist EXCEPT !.busy = TRUE] /\ UNCHANGED tab
  <2>1. HistOK' /\ hist'.busy
    BY <1>5, LateKept, HistKept
  <2>2. Committing' /\ IdCommitted'
    BY <2>1 DEF Committing, IdCommitted
  <2>3. /\ tab' \in [Targets -> Seq(Mount)] /\ IdBound'
        /\ \A t \in Targets : t # IdFile => tab'[t] = tab[t]
    BY <1>1, <1>5, <2>1, LateKept, BoundOnce
  <2> QED
    BY <1>1, <1>2, <1>3, <2>1, <2>2, <2>3, LateStep DEF Late
<1> QED
  BY <1>4, <1>5 DEF Umnt

\* The file is emptied and written.
LEMMA MountCommit ==
    ASSUME MountInv, Commit \/ Cat
    PROVE  MountInv'
<1>1. /\ pc \in {"commit", "cat"} /\ UNCHANGED <<conf, tab, root, procsys, first, boots>>
      /\ Fault \/ NoFault
  BY DEF Commit, Cat, mounts
<1>2. HistOK' /\ faults' \in 0..MaxFaults /\ (Fault => hist'.faulty)
  BY <1>1, LateKept, Faults
<1>3. /\ Unsettled /\ runId \in Content /\ etc \in Content
      /\ tab' \in [Targets -> Seq(Mount)] /\ Len(tab'[IdFile]) \in Nat /\ Len(tab'[IdFile]) <= 1
      /\ \A t \in Targets : t # IdFile => tab'[t] = tab[t]
  BY <1>1, LateKept
<1>4. /\ etc' \in Content /\ runId' \in Content /\ disk' = disk \cup {etc'}
  BY <1>3, LateKept, Contents DEF Commit, Cat, SetEtc
<1>5. pc' \in {"cat", "rebind", "up"} /\ IdBound'
  <2>1. pc' \in {"cat", "rebind", "up"}
    BY DEF Commit, Cat, Goto
  <2>2. ASSUME pc' = "rebind", tab[IdFile] # <<>> PROVE hist'.busy /\ hist'.faulty
    <3>1. pc = "commit" /\ Fault
      BY <2>2 DEF Commit, Cat, Goto
    <3>2. hist.busy
      BY <2>2, <3>1, LateKept DEF IdBound
    <3>3. hist'.busy = hist.busy
      BY <3>1, LateKept DEF Fault, HistOK
    <3> QED
      BY <1>2, <3>1, <3>2, <3>3
  <2> QED
    BY <1>1, <1>3, <2>1, <2>2, BoundOnce
<1>6. Committing' /\ IdCommitted'
  <2>1. CASE hist'.faulty
    BY <2>1 DEF Committing, IdCommitted
  <2>2. CASE ~hist'.faulty /\ Commit
    <3>1. ~Fault /\ NoFault /\ hist' = hist
      BY <1>1, <1>2, <2>2 DEF NoFault
    <3> SUFFICES ASSUME ~hist.faulty, ~hist.busy PROVE Committing' /\ IdCommitted'
      BY <3>1 DEF Committing, IdCommitted
    <3>2. pc = "commit" /\ runId \in Ids /\ tab[IdFile] = <<>>
      BY <2>2, LateKept DEF Commit, Committing
    <3>3. runId' = runId /\ (pc' = "cat" \/ (pc' = "rebind" /\ ~Writable))
      BY <2>2, <3>1, <3>2 DEF Commit, Goto
    <3> QED
      BY <1>1, <3>2, <3>3 DEF Committing, IdCommitted, Writable
  <2>3. CASE ~hist'.faulty /\ Cat
    <3>1. ~Fault /\ hist' = hist
      BY <1>1, <1>2, <2>3 DEF NoFault
    <3> SUFFICES ASSUME ~hist.faulty, ~hist.busy PROVE Committing' /\ IdCommitted'
      BY <3>1 DEF Committing, IdCommitted
    <3>2. pc = "cat" /\ pc' = "up" /\ runId \in Ids /\ tab[IdFile] = <<>>
      BY <2>3, LateKept DEF Cat, Committing, Goto
    <3>3. etc' = runId
      BY <2>3, <3>1, <3>2 DEF Cat, SetEtc
    <3>4. Visible' = etc' /\ etc' \in Ids
      BY <1>1, <3>2, <3>3 DEF Visible
    <3> QED
      BY <3>2, <3>4 DEF Committing, IdCommitted
  <2> QED
    BY <2>1, <2>2, <2>3
<1>7. pc \in {"generate"} \cup Late /\ pc' \in Late /\ pc' \notin {"touch", "echo", "bind"}
  BY <1>1, <1>5 DEF Late
<1> QED
  BY <1>1, <1>2, <1>3, <1>4, <1>5, <1>6, <1>7, LateStep

\* shutdown-hook remounts / read-only.
LEMMA MountShutdown ==
    ASSUME MountInv, Shutdown
    PROVE  MountInv'
<1>1. /\ TypeOK /\ HistOK /\ OthersOnce /\ IdBound /\ Stages /\ Settling
      /\ pc' = "sync" /\ pc \in {"up", "prepare failed", "tmpfs failed"}
      /\ UNCHANGED <<conf, tab, procsys, first, runId, etc, disk, boots>>
  BY DEF MountInv, Shutdown, Goto, ids
<1>2. /\ root' \in Mount /\ HistOK' /\ faults' \in 0..MaxFaults
      /\ hist'.busy = hist.busy /\ (hist.faulty => hist'.faulty)
  <2>1. CASE RemountRoot(Remounted(<<"ro">>), Asked(<<"ro">>, root.flags), TRUE, TRUE)
    BY <1>1, <2>1, RootRemounted
  <2>2. CASE UNCHANGED <<root, faults, hist>>
    BY <1>1, <2>2, HistKept DEF TypeOK
  <2> QED
    BY <2>1, <2>2 DEF Shutdown
<1>3. "sync" \in Places /\ "sync" \notin Prepare \cup Early
  BY OrderSets DEF Places, Early
<1>4. TypeOK'
  BY <1>1, <1>2, <1>3 DEF TypeOK
<1>5. OthersOnce' /\ Stages' /\ IdBound'
  BY <1>1, <1>2, <1>3 DEF OthersOnce, Stages, IdBound
<1>6. Settling'
  BY <1>1, <1>3 DEF Settling, Unsettled
<1>7. Committing' /\ IdCommitted'
  BY <1>1 DEF Committing, IdCommitted
<1> QED
  BY <1>2, <1>4, <1>5, <1>6, <1>7 DEF MountInv

-----------------------------------------------------------------------------
(* The specification *)

\* Every step keeps the invariant.
LEMMA MountNext == MountInv /\ [Next]_vars => MountInv'
<1> SUFFICES ASSUME MountInv, [Next]_vars PROVE MountInv'
  OBVIOUS
<1>1. CASE Boot
  BY <1>1, MountBoot
<1>2. CASE Crash \/ Sync
  <2>1. etc \in disk
    BY DEF MountInv, TypeOK
  <2> QED
    BY <1>2, <2>1, MountOff DEF Crash, Sync
<1>3. CASE Env \/ Retry
  BY <1>3, MountEnvRetry
<1>4. CASE PrepareMount \/ Tmpfs
  BY <1>4, MountFilesystems
<1>5. CASE PrepareRoot \/ PrepareLinks \/ TmpfsFirstBoot \/ RootRw
  BY <1>5, MountOthers
<1>6. CASE Generate \/ Touch \/ Echo \/ Bind \/ Rebind
  BY <1>6, MountGenerate, MountTouchEcho, MountBind
<1>7. CASE Done \/ Umnt \/ Commit \/ Cat \/ Shutdown
  BY <1>7, MountDone, MountUmnt, MountCommit, MountShutdown
<1>8. CASE UNCHANGED vars
  <2>1. UNCHANGED <<conf, pc, tab, root, procsys, first, runId, etc, disk, boots, faults, hist>>
    BY <1>8 DEF vars, mounts, ids
  <2>2. /\ TypeOK /\ HistOK /\ OthersOnce /\ IdBound /\ Stages /\ Settling
        /\ Committing /\ IdCommitted
    BY DEF MountInv
  <2>3. TypeOK'
    BY <2>1, <2>2 DEF TypeOK
  <2>4. HistOK'
    BY <2>1, <2>2, HistKept
  <2>5. OthersOnce' /\ Stages' /\ IdBound'
    BY <2>1, <2>2 DEF OthersOnce, Stages, IdBound
  <2>6. Settling' /\ Committing' /\ IdCommitted'
    BY <2>1, <2>2 DEF Settling, Unsettled, FirstBoot, Committing, IdCommitted, Visible, Writable
  <2> QED
    BY <2>3, <2>4, <2>5, <2>6 DEF MountInv
<1> QED
  BY <1>1, <1>2, <1>3, <1>4, <1>5, <1>6, <1>7, <1>8 DEF Next

\* The invariant holds of every behaviour.
LEMMA MountInvariance == Spec => []MountInv
BY MountInit, MountNext, PTL DEF Spec

\* For any targets, flags and number of boots the stacks of mounts, the root's
\* flags and the files keep their types (do_mount, machine-id.sh, done.sh).
THEOREM MountTypeCorrect == Spec => []TypeOK
<1>1. MountInv => TypeOK
  BY DEF MountInv
<1> QED
  BY <1>1, MountInvariance, PTL

\* Nothing is mounted over itself, not over what the initramfs left and not by
\* prepare or tmpfs.sh when they are started again (do_try); only done.sh may
\* bind the id over itself, once, when both its umount and its touch failed.
\* (A second run of machine-id.sh is no part of the specification.)
THEOREM NothingMountedTwice == Spec => []MountedOnce
<1>1. MountInv => MountedOnce
  <2> SUFFICES ASSUME MountInv, NEW t \in Targets
               PROVE  Len(tab[t]) <= IF t = IdFile /\ hist.busy /\ hist.faulty THEN 2 ELSE 1
    BY DEF MountedOnce
  <2>1. CASE t # IdFile
    BY <2>1 DEF MountInv, OthersOnce
  <2>2. CASE t = IdFile /\ hist.busy /\ hist.faulty
    BY <2>2 DEF MountInv, IdBound
  <2>3. CASE t = IdFile /\ ~(hist.busy /\ hist.faulty)
    BY <2>3 DEF MountInv, IdBound
  <2> QED
    BY <2>1, <2>2, <2>3
<1> QED
  BY <1>1, MountInvariance, PTL

\* A boot in which nothing failed ends with an id in /etc/machine-id, and with
\* the same id on the disk if / is writable.
THEOREM BootCommitsId == Spec => []IdCommitted
<1>1. MountInv => IdCommitted
  BY DEF MountInv
<1> QED
  BY <1>1, MountInvariance, PTL

\* An id that is safe on the disk is never replaced, whatever fails or crashes
\* in later boots: machine-id.sh and done.sh write the file only while the disk
\* may come up without an id.
THEOREM IdNeverReplaced == Spec => IdStable
<1>1. ASSUME MountInv, [Next]_vars, NEW i \in Ids, disk = {i}
      PROVE  disk' = {i}
  <2>1. etc = i /\ ~Unsettled
    BY <1>1 DEF MountInv, TypeOK, Unsettled
  <2>2. pc \notin {"echo", "commit", "cat"}
    BY <1>1, <2>1 DEF MountInv, Settling
  <2>3. CASE Touch
    <3>1. Visible = etc
      BY <1>1, <2>3, Unbound DEF Touch
    <3>2. Visible # Absent
      BY <2>1, <3>1, Contents
    <3> QED
      BY <1>1, <2>3, <3>2 DEF Touch
  <2>4. CASE Crash \/ Sync
    BY <1>1, <2>1, <2>4 DEF Crash, Sync
  <2>5. CASE Echo \/ Commit \/ Cat
    BY <2>2, <2>5 DEF Echo, Commit, Cat
  <2>6. CASE UNCHANGED vars
    BY <1>1, <2>6 DEF vars, ids
  <2>7. CASE Boot \/ Env \/ PrepareMount \/ PrepareRoot \/ PrepareLinks \/ Retry \/ Tmpfs
             \/ TmpfsFirstBoot \/ RootRw \/ Generate \/ Bind \/ Done \/ Umnt \/ Rebind \/ Shutdown
    BY <1>1, <2>7 DEF Boot, Env, PrepareMount, PrepareRoot, PrepareLinks, Retry, Tmpfs,
             TmpfsFirstBoot, RootRw, Generate, Bind, Done, Umnt, Rebind, Shutdown, ids
  <2> QED
    BY <1>1, <2>3, <2>4, <2>5, <2>6, <2>7 DEF Next
<1>2. MountInv /\ [Next]_vars => [\A i \in Ids : disk = {i} => disk' = {i}]_vars
  BY <1>1
<1> QED
  BY <1>2, MountInvariance, PTL DEF Spec, IdStable

-----------------------------------------------------------------------------
(* One option *)

OptNames == {"async", "atime", "bind", "defaults", "dev", "diratime", "dirsync", "errors", "exec",
             "iversion", "lazytime", "loud", "mand", "mode", "move", "noatime", "nodev",
             "nodiratime", "noexec", "noiversion", "nolazytime", "nomand", "norelatime",
             "nostrictatime", "nosuid", "nosymfollow", "private", "rbind", "relatime",
             "remount", "ro", "rprivate", "rshared", "rslave", "runbindable", "rw",
             "shared", "silent", "size", "slave", "strictatime", "suid", "symfollow",
             "sync", "unbindable"}

\* Every flag of mount(2) that the table knows
Flags == {"sync", "noatime", "relatime", "bind", "move", "remount", "nodev", "nodiratime",
          "dirsync", "noexec", "iversion", "lazytime", "silent", "mand", "strictatime",
          "nosuid", "nosymfollow", "private", "ro", "shared", "slave", "unbindable",
          "rec"}
ParseRec == [flags : SUBSET Flags, eopts : Seq(OptNames)]

\* The names, in the order of strcmp.
LEMMA Letters ==
    /\ DOMAIN Alphabet = 1..45
    /\ Alphabet[1] = "async" /\ Alphabet[2] = "atime" /\ Alphabet[3] = "bind"
    /\ Alphabet[4] = "defaults" /\ Alphabet[5] = "dev" /\ Alphabet[6] = "diratime"
    /\ Alphabet[7] = "dirsync" /\ Alphabet[8] = "errors" /\ Alphabet[9] = "exec"
    /\ Alphabet[10] = "iversion" /\ Alphabet[11] = "lazytime" /\ Alphabet[12] = "loud"
    /\ Alphabet[13] = "mand" /\ Alphabet[14] = "mode" /\ Alphabet[15] = "move"
    /\ Alphabet[16] = "noatime" /\ Alphabet[17] = "nodev" /\ Alphabet[18] = "nodiratime"
    /\ Alphabet[19] = "noexec" /\ Alphabet[20] = "noiversion"
    /\ Alphabet[21] = "nolazytime" /\ Alphabet[22] = "nomand"
    /\ Alphabet[23] = "norelatime" /\ Alphabet[24] = "nostrictatime"
    /\ Alphabet[25] = "nosuid" /\ Alphabet[26] = "nosymfollow"
    /\ Alphabet[27] = "private" /\ Alphabet[28] = "rbind" /\ Alphabet[29] = "relatime"
    /\ Alphabet[30] = "remount" /\ Alphabet[31] = "ro" /\ Alphabet[32] = "rprivate"
    /\ Alphabet[33] = "rshared" /\ Alphabet[34] = "rslave"
    /\ Alphabet[35] = "runbindable" /\ Alphabet[36] = "rw" /\ Alphabet[37] = "shared"
    /\ Alphabet[38] = "silent" /\ Alphabet[39] = "size" /\ Alphabet[40] = "slave"
    /\ Alphabet[41] = "strictatime" /\ Alphabet[42] = "suid"
    /\ Alphabet[43] = "symfollow" /\ Alphabet[44] = "sync"
    /\ Alphabet[45] = "unbindable"
BY DEF Alphabet

\* The place of each name in that order.
LEMMA Ranks ==
    /\ Range(Alphabet) = OptNames
    /\ \A i \in 1..45 : Rank[Alphabet[i]] = i
<1>1. \A i, j \in 1..45 : Alphabet[i] = Alphabet[j] => i = j
  BY Letters, SMTT(60)
<1>2. Range(Alphabet) = {Alphabet[i] : i \in 1..45}
  BY Letters DEF Range
<1>3. ASSUME NEW i \in 1..45 PROVE Rank[Alphabet[i]] = i
  <2>1. DOMAIN Alphabet = 1..45
    BY Letters
  <2>2. Alphabet[i] \in Range(Alphabet)
    BY <1>2
  <2> QED
    BY <1>1, <2>1, <2>2 DEF Rank
<1>4. \A i \in 1..45 : Alphabet[i] \in OptNames
  BY Letters, SMTT(60) DEF OptNames
<1>5. \A o \in OptNames : \E i \in 1..45 : Alphabet[i] = o
  BY Letters, SMTT(60) DEF OptNames
<1>6. Range(Alphabet) = OptNames
  BY <1>2, <1>4, <1>5
<1> QED
  BY <1>3, <1>6

\* The rows of the table.
LEMMA Rows ==
    /\ DOMAIN known_opts = 1..41
    /\ known_opts[1] = Resets("async", "sync")
    /\ known_opts[2] = Row("atime", Atime, {"noatime"}, TRUE)
    /\ known_opts[3] = Row("bind", TMask, {"bind"}, FALSE)
    /\ known_opts[4] = Resets("dev", "nodev")
    /\ known_opts[5] = Resets("diratime", "nodiratime")
    /\ known_opts[6] = Sets("dirsync") /\ known_opts[7] = Resets("exec", "noexec")
    /\ known_opts[8] = Sets("iversion") /\ known_opts[9] = Sets("lazytime")
    /\ known_opts[10] = Resets("loud", "silent") /\ known_opts[11] = Sets("mand")
    /\ known_opts[12] = Row("move", TMask, {"move"}, FALSE)
    /\ known_opts[13] = Row("noatime", Atime, {"noatime"}, FALSE)
    /\ known_opts[14] = Sets("nodev") /\ known_opts[15] = Sets("nodiratime")
    /\ known_opts[16] = Sets("noexec")
    /\ known_opts[17] = Resets("noiversion", "iversion")
    /\ known_opts[18] = Resets("nolazytime", "lazytime")
    /\ known_opts[19] = Resets("nomand", "mand")
    /\ known_opts[20] = Row("norelatime", Atime, {"relatime"}, TRUE)
    /\ known_opts[21] = Resets("nostrictatime", "strictatime")
    /\ known_opts[22] = Sets("nosuid") /\ known_opts[23] = Sets("nosymfollow")
    /\ known_opts[24] = Sets("private")
    /\ known_opts[25] = Row("rbind", TMask, {"bind", "rec"}, FALSE)
    /\ known_opts[26] = Row("relatime", Atime, {"relatime"}, FALSE)
    /\ known_opts[27] = Row("remount", TMask, {"remount"}, FALSE)
    /\ known_opts[28] = Sets("ro") /\ known_opts[29] = SetsRec("rprivate", "private")
    /\ known_opts[30] = SetsRec("rshared", "shared")
    /\ known_opts[31] = SetsRec("rslave", "slave")
    /\ known_opts[32] = SetsRec("runbindable", "unbindable")
    /\ known_opts[33] = Resets("rw", "ro") /\ known_opts[34] = Sets("silent")
    /\ known_opts[35] = Sets("shared") /\ known_opts[36] = Sets("slave")
    /\ known_opts[37] = Sets("strictatime") /\ known_opts[38] = Resets("suid", "nosuid")
    /\ known_opts[39] = Resets("symfollow", "nosymfollow")
    /\ known_opts[40] = Sets("sync") /\ known_opts[41] = Sets("unbindable")
<1>1. /\ known_opts[1] = Resets("async", "sync")
      /\ known_opts[2] = Row("atime", Atime, {"noatime"}, TRUE)
      /\ known_opts[3] = Row("bind", TMask, {"bind"}, FALSE)
      /\ known_opts[4] = Resets("dev", "nodev")
      /\ known_opts[5] = Resets("diratime", "nodiratime")
      /\ known_opts[6] = Sets("dirsync") /\ known_opts[7] = Resets("exec", "noexec")
      /\ known_opts[8] = Sets("iversion") /\ known_opts[9] = Sets("lazytime")
      /\ known_opts[10] = Resets("loud", "silent")
  BY DEF known_opts
<1>2. /\ known_opts[11] = Sets("mand")
      /\ known_opts[12] = Row("move", TMask, {"move"}, FALSE)
      /\ known_opts[13] = Row("noatime", Atime, {"noatime"}, FALSE)
      /\ known_opts[14] = Sets("nodev") /\ known_opts[15] = Sets("nodiratime")
      /\ known_opts[16] = Sets("noexec")
      /\ known_opts[17] = Resets("noiversion", "iversion")
      /\ known_opts[18] = Resets("nolazytime", "lazytime")
      /\ known_opts[19] = Resets("nomand", "mand")
      /\ known_opts[20] = Row("norelatime", Atime, {"relatime"}, TRUE)
  BY DEF known_opts
<1>3. /\ known_opts[21] = Resets("nostrictatime", "strictatime")
      /\ known_opts[22] = Sets("nosuid") /\ known_opts[23] = Sets("nosymfollow")
      /\ known_opts[24] = Sets("private")
      /\ known_opts[25] = Row("rbind", TMask, {"bind", "rec"}, FALSE)
      /\ known_opts[26] = Row("relatime", Atime, {"relatime"}, FALSE)
      /\ known_opts[27] = Row("remount", TMask, {"remount"}, FALSE)
      /\ known_opts[28] = Sets("ro") /\ known_opts[29] = SetsRec("rprivate", "private")
      /\ known_opts[30] = SetsRec("rshared", "shared")
  BY DEF known_opts
<1>4. /\ known_opts[31] = SetsRec("rslave", "slave")
      /\ known_opts[32] = SetsRec("runbindable", "unbindable")
      /\ known_opts[33] = Resets("rw", "ro") /\ known_opts[34] = Sets("silent")
      /\ known_opts[35] = Sets("shared") /\ known_opts[36] = Sets("slave")
      /\ known_opts[37] = Sets("strictatime")
      /\ known_opts[38] = Resets("suid", "nosuid")
      /\ known_opts[39] = Resets("symfollow", "nosymfollow")
      /\ known_opts[40] = Sets("sync")
  BY DEF known_opts
<1>5. /\ known_opts[41] = Sets("unbindable")
  BY DEF known_opts
<1>6. DOMAIN known_opts = 1..41
  BY DEF known_opts
<1> QED
  BY <1>1, <1>2, <1>3, <1>4, <1>5, <1>6

\* What is in a row
RowIs(i, name, mask, set, invert) ==
    /\ known_opts[i].name = name /\ known_opts[i].mask = mask
    /\ known_opts[i].set = set /\ known_opts[i].invert = invert

\* The rows, written out.
LEMMA RowFields ==
    /\ RowIs(1, "async", {"sync"}, {"sync"}, TRUE)
    /\ RowIs(2, "atime", Atime, {"noatime"}, TRUE)
    /\ RowIs(3, "bind", TMask, {"bind"}, FALSE)
    /\ RowIs(4, "dev", {"nodev"}, {"nodev"}, TRUE)
    /\ RowIs(5, "diratime", {"nodiratime"}, {"nodiratime"}, TRUE)
    /\ RowIs(6, "dirsync", {"dirsync"}, {"dirsync"}, FALSE)
    /\ RowIs(7, "exec", {"noexec"}, {"noexec"}, TRUE)
    /\ RowIs(8, "iversion", {"iversion"}, {"iversion"}, FALSE)
    /\ RowIs(9, "lazytime", {"lazytime"}, {"lazytime"}, FALSE)
    /\ RowIs(10, "loud", {"silent"}, {"silent"}, TRUE)
    /\ RowIs(11, "mand", {"mand"}, {"mand"}, FALSE)
    /\ RowIs(12, "move", TMask, {"move"}, FALSE)
    /\ RowIs(13, "noatime", Atime, {"noatime"}, FALSE)
    /\ RowIs(14, "nodev", {"nodev"}, {"nodev"}, FALSE)
    /\ RowIs(15, "nodiratime", {"nodiratime"}, {"nodiratime"}, FALSE)
    /\ RowIs(16, "noexec", {"noexec"}, {"noexec"}, FALSE)
    /\ RowIs(17, "noiversion", {"iversion"}, {"iversion"}, TRUE)
    /\ RowIs(18, "nolazytime", {"lazytime"}, {"lazytime"}, TRUE)
    /\ RowIs(19, "nomand", {"mand"}, {"mand"}, TRUE)
    /\ RowIs(20, "norelatime", Atime, {"relatime"}, TRUE)
    /\ RowIs(21, "nostrictatime", {"strictatime"}, {"strictatime"}, TRUE)
    /\ RowIs(22, "nosuid", {"nosuid"}, {"nosuid"}, FALSE)
    /\ RowIs(23, "nosymfollow", {"nosymfollow"}, {"nosymfollow"}, FALSE)
    /\ RowIs(24, "private", {"private"}, {"private"}, FALSE)
    /\ RowIs(25, "rbind", TMask, {"bind", "rec"}, FALSE)
    /\ RowIs(26, "relatime", Atime, {"relatime"}, FALSE)
    /\ RowIs(27, "remount", TMask, {"remount"}, FALSE)
    /\ RowIs(28, "ro", {"ro"}, {"ro"}, FALSE)
    /\ RowIs(29, "rprivate", {"private"}, {"private", "rec"}, FALSE)
    /\ RowIs(30, "rshared", {"shared"}, {"shared", "rec"}, FALSE)
    /\ RowIs(31, "rslave", {"slave"}, {"slave", "rec"}, FALSE)
    /\ RowIs(32, "runbindable", {"unbindable"}, {"unbindable", "rec"}, FALSE)
    /\ RowIs(33, "rw", {"ro"}, {"ro"}, TRUE)
    /\ RowIs(34, "silent", {"silent"}, {"silent"}, FALSE)
    /\ RowIs(35, "shared", {"shared"}, {"shared"}, FALSE)
    /\ RowIs(36, "slave", {"slave"}, {"slave"}, FALSE)
    /\ RowIs(37, "strictatime", {"strictatime"}, {"strictatime"}, FALSE)
    /\ RowIs(38, "suid", {"nosuid"}, {"nosuid"}, TRUE)
    /\ RowIs(39, "symfollow", {"nosymfollow"}, {"nosymfollow"}, TRUE)
    /\ RowIs(40, "sync", {"sync"}, {"sync"}, FALSE)
    /\ RowIs(41, "unbindable", {"unbindable"}, {"unbindable"}, FALSE)
BY Rows, SMTT(60) DEF RowIs, Sets, SetsRec, Resets, Row

\* The places of the rows' names.
LEMMA RowRanks ==
    /\ \A i \in 1..41 : known_opts[i].name \in OptNames
    /\ Rank[known_opts[1].name] = 1 /\ Rank[known_opts[2].name] = 2
    /\ Rank[known_opts[3].name] = 3 /\ Rank[known_opts[4].name] = 5
    /\ Rank[known_opts[5].name] = 6 /\ Rank[known_opts[6].name] = 7
    /\ Rank[known_opts[7].name] = 9 /\ Rank[known_opts[8].name] = 10
    /\ Rank[known_opts[9].name] = 11 /\ Rank[known_opts[10].name] = 12
    /\ Rank[known_opts[11].name] = 13 /\ Rank[known_opts[12].name] = 15
    /\ Rank[known_opts[13].name] = 16 /\ Rank[known_opts[14].name] = 17
    /\ Rank[known_opts[15].name] = 18 /\ Rank[known_opts[16].name] = 19
    /\ Rank[known_opts[17].name] = 20 /\ Rank[known_opts[18].name] = 21
    /\ Rank[known_opts[19].name] = 22 /\ Rank[known_opts[20].name] = 23
    /\ Rank[known_opts[21].name] = 24 /\ Rank[known_opts[22].name] = 25
    /\ Rank[known_opts[23].name] = 26 /\ Rank[known_opts[24].name] = 27
    /\ Rank[known_opts[25].name] = 28 /\ Rank[known_opts[26].name] = 29
    /\ Rank[known_opts[27].name] = 30 /\ Rank[known_opts[28].name] = 31
    /\ Rank[known_opts[29].name] = 32 /\ Rank[known_opts[30].name] = 33
    /\ Rank[known_opts[31].name] = 34 /\ Rank[known_opts[32].name] = 35
    /\ Rank[known_opts[33].name] = 36 /\ Rank[known_opts[34].name] = 38
    /\ Rank[known_opts[35].name] = 37 /\ Rank[known_opts[36].name] = 40
    /\ Rank[known_opts[37].name] = 41 /\ Rank[known_opts[38].name] = 42
    /\ Rank[known_opts[39].name] = 43 /\ Rank[known_opts[40].name] = 44
    /\ Rank[known_opts[41].name] = 45
<1>1. \A i \in 1..41 : known_opts[i].name \in OptNames
  BY RowFields, SMTT(60) DEF RowIs, OptNames
<1>2. /\ \A i \in 1..45 : Rank[Alphabet[i]] = i
      /\ known_opts[1].name = Alphabet[1] /\ known_opts[2].name = Alphabet[2]
      /\ known_opts[3].name = Alphabet[3] /\ known_opts[4].name = Alphabet[5]
      /\ known_opts[5].name = Alphabet[6] /\ known_opts[6].name = Alphabet[7]
      /\ known_opts[7].name = Alphabet[9] /\ known_opts[8].name = Alphabet[10]
      /\ known_opts[9].name = Alphabet[11] /\ known_opts[10].name = Alphabet[12]
      /\ known_opts[11].name = Alphabet[13] /\ known_opts[12].name = Alphabet[15]
      /\ known_opts[13].name = Alphabet[16] /\ known_opts[14].name = Alphabet[17]
      /\ known_opts[15].name = Alphabet[18] /\ known_opts[16].name = Alphabet[19]
      /\ known_opts[17].name = Alphabet[20] /\ known_opts[18].name = Alphabet[21]
      /\ known_opts[19].name = Alphabet[22] /\ known_opts[20].name = Alphabet[23]
      /\ known_opts[21].name = Alphabet[24] /\ known_opts[22].name = Alphabet[25]
      /\ known_opts[23].name = Alphabet[26] /\ known_opts[24].name = Alphabet[27]
      /\ known_opts[25].name = Alphabet[28] /\ known_opts[26].name = Alphabet[29]
      /\ known_opts[27].name = Alphabet[30] /\ known_opts[28].name = Alphabet[31]
      /\ known_opts[29].name = Alphabet[32] /\ known_opts[30].name = Alphabet[33]
      /\ known_opts[31].name = Alphabet[34] /\ known_opts[32].name = Alphabet[35]
      /\ known_opts[33].name = Alphabet[36] /\ known_opts[34].name = Alphabet[38]
      /\ known_opts[35].name = Alphabet[37] /\ known_opts[36].name = Alphabet[40]
      /\ known_opts[37].name = Alphabet[41] /\ known_opts[38].name = Alphabet[42]
      /\ known_opts[39].name = Alphabet[43] /\ known_opts[40].name = Alphabet[44]
      /\ known_opts[41].name = Alphabet[45]
  BY RowFields, Letters, Ranks, SMTT(60) DEF RowIs
<1> QED
  BY <1>1, <1>2, SMTT(60)

\* The names of the rows: the search reaches all of them but the one that is out
\* of order.
LEMMA Search ==
    /\ \A i \in 1..41 : i # 35 => Matching[known_opts[i].name] = {i}
    /\ \A o \in OptNames : (\A i \in 1..41 : known_opts[i].name # o) => Matching[o] = {}
    /\ Matching["shared"] = {}
<1>1. PICK nm : nm = [i \in 1..41 |-> known_opts[i].name]
  OBVIOUS
<1>2. PICK rk : rk = [i \in 1..41 |-> Rank[known_opts[i].name]]
  OBVIOUS
<1>3. /\ rk[1] = 1 /\ rk[2] = 2 /\ rk[3] = 3 /\ rk[4] = 5 /\ rk[5] = 6 /\ rk[6] = 7
      /\ rk[7] = 9 /\ rk[8] = 10 /\ rk[9] = 11 /\ rk[10] = 12 /\ rk[11] = 13
      /\ rk[12] = 15 /\ rk[13] = 16 /\ rk[14] = 17 /\ rk[15] = 18 /\ rk[16] = 19
      /\ rk[17] = 20 /\ rk[18] = 21 /\ rk[19] = 22 /\ rk[20] = 23 /\ rk[21] = 24
      /\ rk[22] = 25 /\ rk[23] = 26 /\ rk[24] = 27 /\ rk[25] = 28 /\ rk[26] = 29
      /\ rk[27] = 30 /\ rk[28] = 31 /\ rk[29] = 32 /\ rk[30] = 33 /\ rk[31] = 34
      /\ rk[32] = 35 /\ rk[33] = 36 /\ rk[34] = 38 /\ rk[35] = 37 /\ rk[36] = 40
      /\ rk[37] = 41 /\ rk[38] = 42 /\ rk[39] = 43 /\ rk[40] = 44 /\ rk[41] = 45
  BY <1>2, RowRanks, SMTT(60)
<1>4. \A i, j \in 1..41 : i # 35 /\ j < i => rk[j] < rk[i]
  BY <1>3, SMTT(60)
<1>5. \A i, j \in 1..41 : nm[i] = nm[j] => i = j
  <2>1. \A i, j \in 1..41 : rk[i] = rk[j] => i = j
    BY <1>3, SMTT(60)
  <2>2. \A i, j \in 1..41 : nm[i] = nm[j] => rk[i] = rk[j]
    BY <1>1, <1>2
  <2> QED
    BY <2>1, <2>2
<1>6. \A o \in OptNames : \A i : i \in Matching[o] <=>
                  i \in 1..41 /\ nm[i] = o /\ \A j \in 1..(i - 1) : rk[j] < Rank[o]
  <2>1. \A o \in OptNames : \A i : i \in Matching[o] <=>
            /\ i \in 1..41 /\ known_opts[i].name = o
            /\ \A j \in 1..(i - 1) : Rank[known_opts[j].name] < Rank[o]
    <3>1. DOMAIN known_opts = 1..41 /\ Range(Alphabet) = OptNames
      BY Rows, Ranks
    <3> QED
      BY <3>1 DEF Matching
  <2>2. \A i \in 1..41 : \A j \in 1..(i - 1) : j \in 1..41
    OBVIOUS
  <2>3. \A i \in 1..41 : nm[i] = known_opts[i].name /\ rk[i] = Rank[known_opts[i].name]
    BY <1>1, <1>2
  <2> SUFFICES ASSUME NEW o \in OptNames, NEW i \in 1..41
               PROVE  i \in Matching[o] <=>
                        nm[i] = o /\ \A j \in 1..(i - 1) : rk[j] < Rank[o]
    BY <2>1
  <2>4. \A j \in 1..(i - 1) : rk[j] = Rank[known_opts[j].name]
    BY <2>2, <2>3
  <2>5. PICK r : r = Rank[o]
    OBVIOUS
  <2>6. i \in Matching[o] <=> /\ known_opts[i].name = o
                             /\ \A j \in 1..(i - 1) : Rank[known_opts[j].name] < r
    BY <2>1, <2>5
  <2>7. (\A j \in 1..(i - 1) : Rank[known_opts[j].name] < r) <=> \A j \in 1..(i - 1) : rk[j] < r
    BY <2>4
  <2> QED
    BY <2>3, <2>5, <2>6, <2>7
<1>7. ASSUME NEW i \in 1..41, i # 35 PROVE Matching[known_opts[i].name] = {i}
  <2>1. PICK o \in OptNames : o = nm[i]
    BY <1>1, RowRanks
  <2>2. Rank[o] = rk[i] /\ o = known_opts[i].name
    BY <1>1, <1>2, <2>1
  <2>3. \A j \in 1..(i - 1) : rk[j] < Rank[o]
    BY <1>4, <1>7, <2>2
  <2>4. i \in Matching[o]
    BY <1>6, <2>1, <2>3
  <2>5. \A k \in Matching[o] : k = i
    BY <1>5, <1>6, <2>1
  <2>6. Matching[o] = {i}
    BY <2>4, <2>5
  <2> QED
    BY <2>2, <2>6
<1>8. ASSUME NEW o \in OptNames, \A i \in 1..41 : known_opts[i].name # o PROVE Matching[o] = {}
  <2>1. ASSUME NEW k \in Matching[o] PROVE FALSE
    BY <1>1, <1>6, <1>8
  <2> QED
    BY <2>1
<1>9. Matching["shared"] = {}
  <2>1. nm[35] = "shared" /\ "shared" \in OptNames /\ Rank["shared"] = rk[35]
    BY <1>1, <1>2, RowFields DEF RowIs, OptNames
  <2>2. ASSUME NEW k \in Matching["shared"] PROVE FALSE
    <3>1. k \in 1..41 /\ nm[k] = "shared" /\ \A j \in 1..(k - 1) : rk[j] < Rank["shared"]
      BY <1>6, <2>1
    <3>2. k = 35
      BY <1>5, <2>1, <3>1
    <3>3. rk[34] < rk[35]
      BY <2>1, <3>1, <3>2
    <3> QED
      BY <1>3, <3>3
  <2> QED
    BY <2>2
<1> QED
  BY <1>7, <1>8, <1>9

\* acc with other flags
With(acc, g) == [flags |-> g, eopts |-> acc.eopts]

\* What comes of an option of the table.
LEMMA ParseRow ==
    ASSUME NEW acc \in ParseRec, NEW i \in 1..41, i # 35, NEW o, o = known_opts[i].name
    PROVE  LET r == known_opts[i]
               kept == acc.flags \ r.mask
           IN  ParseOpt(acc, o) = With(acc, IF r.invert THEN kept \ r.set ELSE kept \cup r.set)
<1>1. Matching[o] = {i}
  BY Search
<1>2. (CHOOSE k \in Matching[o] : TRUE) = i /\ Matching[o] # {}
  BY <1>1
<1>3. PICK r, g : r = known_opts[i] /\ g = IF r.invert THEN (acc.flags \ r.mask) \ r.set
                                                     ELSE (acc.flags \ r.mask) \cup r.set
  OBVIOUS
<1>4. ParseOpt(acc, o) = [acc EXCEPT !.flags = g]
  BY <1>2, <1>3 DEF ParseOpt
<1>5. ParseOpt(acc, o) = With(acc, g)
  BY <1>4 DEF ParseRec, With
<1> QED
  BY <1>3, <1>5

\* What comes of the others.
LEMMA ParseOther ==
    ASSUME NEW acc \in ParseRec
    PROVE  /\ ParseOpt(acc, "defaults") = With(acc, acc.flags \ (MountFlags \cup {"sync"}))
           /\ \A o \in {"errors", "mode", "shared", "size"} :
                 ParseOpt(acc, o) = [flags |-> acc.flags, eopts |-> Append(acc.eopts, o)]
<1>1. \A o \in {"defaults", "errors", "mode", "shared", "size"} : Matching[o] = {}
  <2>1. ASSUME NEW o \in {"defaults", "errors", "mode", "size"}, NEW i \in 1..41
        PROVE  known_opts[i].name # o
    BY RowFields, SMTT(60) DEF RowIs
  <2>2. \A o \in {"defaults", "errors", "mode", "size"} : o \in OptNames
    BY DEF OptNames
  <2> QED
    BY <2>1, <2>2, Search
<1>2. ParseOpt(acc, "defaults") = With(acc, acc.flags \ (MountFlags \cup {"sync"}))
  BY <1>1 DEF ParseOpt, ParseRec, With
<1>3. \A o \in {"errors", "mode", "shared", "size"} :
         ParseOpt(acc, o) = [flags |-> acc.flags, eopts |-> Append(acc.eopts, o)]
  BY <1>1 DEF ParseOpt, ParseRec
<1> QED
  BY <1>2, <1>3

\* The options that speak of each flag.
LEMMA Speaks ==
    /\ Asks("sync") = {"sync"} /\ Asks("noatime") = {"noatime"}
    /\ Asks("relatime") = {"relatime"} /\ Asks("bind") = {"bind", "rbind"}
    /\ Asks("move") = {"move"} /\ Asks("remount") = {"remount"}
    /\ Asks("nodev") = {"nodev"} /\ Asks("nodiratime") = {"nodiratime"}
    /\ Asks("dirsync") = {"dirsync"} /\ Asks("noexec") = {"noexec"}
    /\ Asks("iversion") = {"iversion"} /\ Asks("lazytime") = {"lazytime"}
    /\ Asks("silent") = {"silent"} /\ Asks("mand") = {"mand"}
    /\ Asks("strictatime") = {"strictatime"} /\ Asks("nosuid") = {"nosuid"}
    /\ Asks("nosymfollow") = {"nosymfollow"}
    /\ Asks("private") = {"private", "rprivate"} /\ Asks("ro") = {"ro"}
    /\ Asks("shared") = {"rshared"} /\ Asks("slave") = {"slave", "rslave"}
    /\ Asks("unbindable") = {"unbindable", "runbindable"}
    /\ Asks("rec") = {"rbind", "rprivate", "rshared", "rslave", "runbindable"}
    /\ Clears("sync") = {"defaults", "async"}
    /\ Clears("noatime") = {"atime", "norelatime", "relatime"}
    /\ Clears("relatime") = {"atime", "norelatime", "noatime"}
    /\ Clears("bind") = {"move", "remount"}
    /\ Clears("move") = {"bind", "rbind", "remount"}
    /\ Clears("remount") = {"bind", "rbind", "move"}
    /\ Clears("nodev") = {"defaults", "dev"} /\ Clears("nodiratime") = {"diratime"}
    /\ Clears("dirsync") = {} /\ Clears("noexec") = {"defaults", "exec"}
    /\ Clears("iversion") = {"noiversion"} /\ Clears("lazytime") = {"nolazytime"}
    /\ Clears("silent") = {"loud"} /\ Clears("mand") = {"nomand"}
    /\ Clears("strictatime") = {"nostrictatime"}
    /\ Clears("nosuid") = {"defaults", "suid"} /\ Clears("nosymfollow") = {"symfollow"}
    /\ Clears("private") = {} /\ Clears("ro") = {"defaults", "rw"}
    /\ Clears("shared") = {} /\ Clears("slave") = {} /\ Clears("unbindable") = {}
    /\ Clears("rec") = {}
<1>1. /\ Asks("sync") = {"sync"} /\ Asks("noatime") = {"noatime"}
      /\ Asks("relatime") = {"relatime"} /\ Asks("bind") = {"bind", "rbind"}
      /\ Asks("move") = {"move"} /\ Asks("remount") = {"remount"}
      /\ Asks("nodev") = {"nodev"} /\ Asks("nodiratime") = {"nodiratime"}
      /\ Asks("dirsync") = {"dirsync"} /\ Asks("noexec") = {"noexec"}
      /\ Asks("iversion") = {"iversion"} /\ Asks("lazytime") = {"lazytime"}
      /\ Asks("silent") = {"silent"} /\ Asks("mand") = {"mand"}
      /\ Asks("strictatime") = {"strictatime"} /\ Asks("nosuid") = {"nosuid"}
      /\ Asks("nosymfollow") = {"nosymfollow"}
      /\ Asks("private") = {"private", "rprivate"} /\ Asks("ro") = {"ro"}
      /\ Asks("shared") = {"rshared"} /\ Asks("slave") = {"slave", "rslave"}
      /\ Asks("unbindable") = {"unbindable", "runbindable"}
      /\ Asks("rec") = {"rbind", "rprivate", "rshared", "rslave", "runbindable"}
  BY DEF Asks
<1>2. /\ Clears("sync") = {"defaults", "async"}
      /\ Clears("noatime") = {"atime", "norelatime", "relatime"}
      /\ Clears("relatime") = {"atime", "norelatime", "noatime"}
      /\ Clears("bind") = {"move", "remount"}
      /\ Clears("move") = {"bind", "rbind", "remount"}
      /\ Clears("remount") = {"bind", "rbind", "move"}
      /\ Clears("nodev") = {"defaults", "dev"} /\ Clears("nodiratime") = {"diratime"}
      /\ Clears("dirsync") = {} /\ Clears("noexec") = {"defaults", "exec"}
      /\ Clears("iversion") = {"noiversion"} /\ Clears("lazytime") = {"nolazytime"}
      /\ Clears("silent") = {"loud"} /\ Clears("mand") = {"nomand"}
      /\ Clears("strictatime") = {"nostrictatime"}
      /\ Clears("nosuid") = {"defaults", "suid"}
      /\ Clears("nosymfollow") = {"symfollow"} /\ Clears("private") = {}
      /\ Clears("ro") = {"defaults", "rw"} /\ Clears("shared") = {}
      /\ Clears("slave") = {} /\ Clears("unbindable") = {} /\ Clears("rec") = {}
  BY DEF Clears
<1> QED
  BY <1>1, <1>2

\* A row sets the flags that its name asks for, and clears those of which it
\* asks for the opposite.
LEMMA RowSpeaks ==
    ASSUME NEW i \in 1..41, i # 35, NEW f \in Flags
    PROVE  /\ known_opts[i].name \in Asks(f) <=> ~known_opts[i].invert /\ f \in known_opts[i].set
           /\ known_opts[i].name \in Clears(f) <=>
                 \/ known_opts[i].invert /\ f \in known_opts[i].mask \cup known_opts[i].set
                 \/ ~known_opts[i].invert /\ f \in known_opts[i].mask \ known_opts[i].set
BY RowFields, Speaks, SMTT(120) DEF RowIs, Flags, Atime, TMask

\* Every option but five is one of the table.
LEMMA InTable ==
    ASSUME NEW o \in OptNames, o \notin {"defaults", "errors", "mode", "shared", "size"}
    PROVE  \E i \in 1..41 : i # 35 /\ known_opts[i].name = o
BY RowFields, SMTT(60) DEF RowIs, OptNames

\* Nothing else is in the table.
LEMMA RowTypes ==
    ASSUME NEW i \in 1..41
    PROVE  /\ known_opts[i].mask \subseteq Flags /\ known_opts[i].set \subseteq Flags
           /\ known_opts[i].invert \in BOOLEAN
<1>1. known_opts[i].mask \subseteq Flags
  BY RowFields, SMTT(60) DEF RowIs, Flags, Atime, TMask
<1>2. known_opts[i].set \subseteq Flags
  BY RowFields, SMTT(60) DEF RowIs, Flags
<1>3. known_opts[i].invert \in BOOLEAN
  <2>1. known_opts[i].invert = TRUE \/ known_opts[i].invert = FALSE
    BY RowFields, SMTT(60) DEF RowIs
  <2> QED
    BY <2>1
<1> QED
  BY <1>1, <1>2, <1>3

\* An option sets a flag, clears it, or says nothing of it.
LEMMA ParseOne ==
    ASSUME NEW acc \in ParseRec, NEW o \in OptNames
    PROVE  /\ ParseOpt(acc, o) \in ParseRec
           /\ \A f \in Flags : f \in ParseOpt(acc, o).flags <=>
                                  o \in Asks(f) \/ (o \notin Clears(f) /\ f \in acc.flags)
<1>1. PICK fl \in SUBSET Flags : fl = acc.flags
  BY DEF ParseRec
<1>2. acc.eopts \in Seq(OptNames) /\ Append(acc.eopts, o) \in Seq(OptNames)
  BY DEF ParseRec
<1>3. CASE o \notin {"defaults", "errors", "mode", "shared", "size"}
  <2>1. PICK i \in 1..41 : i # 35 /\ known_opts[i].name = o
    BY <1>3, InTable
  <2>2. PICK mask \in SUBSET Flags, set \in SUBSET Flags, inv \in BOOLEAN :
            mask = known_opts[i].mask /\ set = known_opts[i].set /\ inv = known_opts[i].invert
    BY RowTypes
  <2>3. PICK g : g = IF inv THEN (fl \ mask) \ set ELSE (fl \ mask) \cup set
    OBVIOUS
  <2>4. ParseOpt(acc, o) = With(acc, g)
    BY <1>1, <2>1, <2>2, <2>3, ParseRow
  <2>5. g \in SUBSET Flags
    BY <2>2, <2>3
  <2>6. ParseOpt(acc, o) \in ParseRec /\ ParseOpt(acc, o).flags = g
    BY <1>2, <2>4, <2>5 DEF With, ParseRec
  <2>7. \A f \in Flags :
            /\ o \in Asks(f) <=> ~inv /\ f \in set
            /\ o \in Clears(f) <=> (inv /\ f \in mask \cup set) \/ (~inv /\ f \in mask \ set)
    BY <2>1, <2>2, RowSpeaks
  <2>8. \A f \in Flags : f \in g <=> o \in Asks(f) \/ (o \notin Clears(f) /\ f \in fl)
    <3>1. CASE inv
      BY <2>3, <2>7, <3>1
    <3>2. CASE ~inv
      BY <2>3, <2>7, <3>2
    <3> QED
      BY <3>1, <3>2
  <2> QED
    BY <1>1, <2>6, <2>8
<1>4. CASE o = "defaults"
  <2>1. PICK g : g = fl \ (MountFlags \cup {"sync"})
    OBVIOUS
  <2>2. ParseOpt(acc, o) = With(acc, g)
    BY <1>1, <1>4, <2>1, ParseOther
  <2>3. g \in SUBSET Flags
    BY <2>1
  <2>4. ParseOpt(acc, o) \in ParseRec /\ ParseOpt(acc, o).flags = g
    BY <1>2, <2>2, <2>3 DEF With, ParseRec
  <2>5. \A f \in Flags : /\ "defaults" \notin Asks(f)
                         /\ "defaults" \in Clears(f) <=> f \in MountFlags \cup {"sync"}
    BY Speaks, SMTT(60) DEF Flags, MountFlags
  <2> QED
    BY <1>1, <1>4, <2>1, <2>4, <2>5
<1>5. CASE o \in {"errors", "mode", "shared", "size"}
  <2>1. ParseOpt(acc, o) = [flags |-> fl, eopts |-> Append(acc.eopts, o)]
    BY <1>1, <1>5, ParseOther
  <2>2. ParseOpt(acc, o) \in ParseRec /\ ParseOpt(acc, o).flags = fl
    BY <1>1, <1>2, <2>1 DEF ParseRec
  <2>3. \A f \in Flags : o \notin Asks(f) /\ o \notin Clears(f)
    BY <1>5, Speaks, SMTT(60) DEF Flags
  <2> QED
    BY <1>1, <2>2, <2>3
<1> QED
  BY <1>3, <1>4, <1>5

-----------------------------------------------------------------------------
(* The loop of parse_mntopts *)

\* A set of numbers that is not empty has a least element.
LEMMA Least ==
    ASSUME NEW I \in SUBSET Nat, I # {}
    PROVE  \E m \in I : \A y \in I : m <= y
<1>1. PICK m \in I : \A y \in I : <<y, m>> \notin OpToRel(<, Nat)
  BY NatLessThanWellFounded, WFMin
<1>2. \A y \in I : ~(y < m)
  BY <1>1 DEF OpToRel
<1> QED
  BY <1>2

\* g holds what the first turns of the loop make of acc.
Turns(g, opts, acc, n) == g = [i \in 0..n |-> IF i = 0 THEN acc ELSE ParseOpt(g[i - 1], opts[i])]

\* Another turn can follow.
LEMMA TurnMore ==
    ASSUME NEW opts, NEW acc, NEW n \in Nat, NEW f, Turns(f, opts, acc, n)
    PROVE  \E g : Turns(g, opts, acc, n + 1)
<1>1. PICK last : last = ParseOpt(f[n], opts[n + 1])
  OBVIOUS
<1>2. PICK g : g = [i \in 0..(n + 1) |-> IF i = n + 1 THEN last ELSE f[i]]
  OBVIOUS
<1>3. DOMAIN f = 0..n /\ \A i \in 0..n : f[i] = IF i = 0 THEN acc ELSE ParseOpt(f[i - 1], opts[i])
  BY DEF Turns
<1>4. ASSUME NEW i \in 0..(n + 1)
      PROVE  g[i] = IF i = 0 THEN acc ELSE ParseOpt(g[i - 1], opts[i])
  <2>1. CASE i = n + 1
    <3>1. i # 0 /\ i - 1 = n /\ n \in 0..(n + 1) /\ n # n + 1
      BY <2>1
    <3>2. g[i] = last /\ g[i - 1] = f[n]
      BY <1>2, <2>1, <3>1
    <3> QED
      BY <1>1, <2>1, <3>1, <3>2
  <2>2. CASE i \in 0..n /\ i = 0
    <3>1. g[i] = f[i]
      BY <1>2, <2>2
    <3> QED
      BY <1>3, <2>2, <3>1
  <2>3. CASE i \in 0..n /\ i # 0
    <3>1. i - 1 \in 0..n /\ i - 1 \in 0..(n + 1) /\ i - 1 # n + 1 /\ i # n + 1
      BY <2>3
    <3>2. g[i] = f[i] /\ g[i - 1] = f[i - 1]
      BY <1>2, <2>3, <3>1
    <3> QED
      BY <1>3, <2>3, <3>2
  <2> QED
    BY <2>1, <2>2, <2>3
<1>5. g = [i \in 0..(n + 1) |-> IF i = 0 THEN acc ELSE ParseOpt(g[i - 1], opts[i])]
  <2>1. PICK h : h = [i \in 0..(n + 1) |-> IF i = 0 THEN acc ELSE ParseOpt(g[i - 1], opts[i])]
    OBVIOUS
  <2>2. \A i \in 0..(n + 1) : g[i] = h[i]
    BY <1>4, <2>1
  <2>3. g = [i \in 0..(n + 1) |-> g[i]] /\ h = [i \in 0..(n + 1) |-> h[i]]
    BY <1>2, <2>1
  <2>4. g = h
    BY <2>2, <2>3
  <2> QED
    BY <2>1, <2>4
<1> QED
  BY <1>5 DEF Turns

\* The loop can make any number of turns.
LEMMA TurnsExist ==
    ASSUME NEW opts, NEW acc, NEW n \in Nat
    PROVE  \E g : Turns(g, opts, acc, n)
<1>1. SUFFICES ASSUME ~\E g : Turns(g, opts, acc, n) PROVE FALSE
  OBVIOUS
<1>2. PICK Bad : Bad = {k \in Nat : ~\E g : Turns(g, opts, acc, k)}
  OBVIOUS
<1>3. Bad \in SUBSET Nat /\ n \in Bad
  BY <1>1, <1>2
<1>4. PICK k \in Bad : \A y \in Bad : k <= y
  BY <1>3, Least
<1>5. k \in Nat /\ ~\E g : Turns(g, opts, acc, k)
  BY <1>2, <1>4
<1>6. CASE k = 0
  <2>1. PICK f : f = [i \in 0..0 |-> acc]
    OBVIOUS
  <2>2. f = [i \in 0..0 |-> IF i = 0 THEN acc ELSE ParseOpt(f[i - 1], opts[i])]
    BY <2>1
  <2> QED
    BY <1>5, <1>6, <2>2 DEF Turns
<1>7. CASE k # 0
  <2>1. PICK j \in Nat : k = j + 1
    BY <1>5, <1>7
  <2>2. j \notin Bad
    BY <1>4, <2>1
  <2>3. PICK g : Turns(g, opts, acc, j)
    BY <1>2, <2>2
  <2>4. \E h : Turns(h, opts, acc, j + 1)
    BY <2>3, TurnMore
  <2> QED
    BY <1>5, <2>1, <2>4
<1> QED
  BY <1>6, <1>7

\* parse_mntopts makes one turn for each option.
LEMMA ParseTurns ==
    ASSUME NEW opts, Len(opts) \in Nat, NEW acc
    PROVE  \E g : Turns(g, opts, acc, Len(opts)) /\ parse_mntopts(opts, acc) = g[Len(opts)]
<1>1. PICK g : g = CHOOSE h : Turns(h, opts, acc, Len(opts))
  OBVIOUS
<1>2. Turns(g, opts, acc, Len(opts))
  BY <1>1, TurnsExist
<1>3. parse_mntopts(opts, acc) = g[Len(opts)]
  BY <1>1 DEF parse_mntopts, Turns
<1> QED
  BY <1>2, <1>3

\* Numbers up to n that are not none have a greatest one.
LEMMA Greatest ==
    ASSUME NEW n \in Nat, NEW S \in SUBSET (1..n), S # {}
    PROVE  \E m \in S : \A i \in S : i <= m
<1>1. PICK I : I = {n - i : i \in S}
  OBVIOUS
<1>2. I \in SUBSET Nat /\ I # {}
  <2>1. ASSUME NEW i \in S PROVE n - i \in Nat
    OBVIOUS
  <2>2. I \in SUBSET Nat
    BY <1>1, <2>1
  <2>3. PICK i : i \in S
    OBVIOUS
  <2>4. n - i \in I
    BY <1>1, <2>3
  <2> QED
    BY <2>2, <2>4
<1>3. PICK d \in I : \A y \in I : d <= y
  BY <1>2, Least
<1>4. PICK m \in S : d = n - m
  BY <1>1, <1>3
<1>5. ASSUME NEW i \in S PROVE i <= m
  <2>1. n - i \in I
    BY <1>1
  <2>2. n - m <= n - i
    BY <1>3, <1>4, <2>1
  <2> QED
    BY <2>2
<1> QED
  BY <1>5

\* What no later turn changes stays.
LEMMA TurnKept ==
    ASSUME NEW n \in Nat, NEW H, NEW x, NEW m \in 0..n,
           \A i \in 1..n : m < i => (x \in H[i] <=> x \in H[i - 1])
    PROVE  x \in H[n] <=> x \in H[m]
<1>1. SUFFICES ASSUME ~(x \in H[n] <=> x \in H[m]) PROVE FALSE
  OBVIOUS
<1>2. PICK Bad : Bad = {k \in m..n : ~(x \in H[k] <=> x \in H[m])}
  OBVIOUS
<1>3. Bad \in SUBSET Nat /\ n \in Bad
  BY <1>1, <1>2
<1>4. PICK k \in Bad : \A y \in Bad : k <= y
  BY <1>3, Least
<1>5. k \in m..n /\ k # m /\ ~(x \in H[k] <=> x \in H[m])
  BY <1>2, <1>4
<1>6. k - 1 \in m..n /\ k \in 1..n /\ m < k /\ ~(k <= k - 1)
  BY <1>5
<1>7. k - 1 \notin Bad
  BY <1>4, <1>6
<1>8. x \in H[k - 1] <=> x \in H[m]
  BY <1>2, <1>6, <1>7
<1> QED
  BY <1>5, <1>6, <1>8

\* The turns of the loop, by what they do to the flags.
FlagTurns(H, opts, n) ==
    \A i \in 1..n : \A f \in Flags :
        f \in H[i] <=> opts[i] \in Asks(f) \/ (opts[i] \notin Clears(f) /\ f \in H[i - 1])

\* The loop is made of such turns.
LEMMA LoopFlags ==
    ASSUME NEW opts \in Seq(OptNames), NEW acc \in ParseRec, NEW n \in Nat, n = Len(opts)
    PROVE  /\ parse_mntopts(opts, acc) \in ParseRec
           /\ \E H : /\ H[0] = acc.flags /\ H[n] = parse_mntopts(opts, acc).flags
                     /\ FlagTurns(H, opts, n)
<1>1. PICK g : Turns(g, opts, acc, n) /\ parse_mntopts(opts, acc) = g[n]
  BY ParseTurns
<1>2. g[0] = acc /\ \A i \in 1..n : g[i] = ParseOpt(g[i - 1], opts[i])
  BY <1>1 DEF Turns
<1>3. \A i \in 1..n : opts[i] \in OptNames
  OBVIOUS
<1>4. ASSUME NEW j \in 0..n PROVE g[j] \in ParseRec
  <2>1. SUFFICES ASSUME g[j] \notin ParseRec PROVE FALSE
    OBVIOUS
  <2>2. PICK Bad : Bad = {k \in 0..n : g[k] \notin ParseRec}
    OBVIOUS
  <2>3. Bad \in SUBSET Nat /\ j \in Bad
    BY <2>1, <2>2
  <2>4. PICK k \in Bad : \A y \in Bad : k <= y
    BY <2>3, Least
  <2>5. k \in 0..n /\ g[k] \notin ParseRec /\ k # 0
    BY <1>2, <2>2, <2>4
  <2>6. k - 1 \in 0..n /\ k \in 1..n /\ ~(k <= k - 1)
    BY <2>5
  <2>7. g[k - 1] \in ParseRec
    BY <2>2, <2>4, <2>6
  <2>8. ParseOpt(g[k - 1], opts[k]) \in ParseRec
    BY <1>3, <2>6, <2>7, ParseOne
  <2> QED
    BY <1>2, <2>5, <2>6, <2>8
<1>5. PICK H : H = [i \in 0..n |-> g[i].flags]
  OBVIOUS
<1>6. H[0] = acc.flags /\ H[n] = g[n].flags
  BY <1>2, <1>5
<1>7. ASSUME NEW i \in 1..n, NEW f \in Flags
      PROVE  f \in H[i] <=> opts[i] \in Asks(f) \/ (opts[i] \notin Clears(f) /\ f \in H[i - 1])
  <2>1. i - 1 \in 0..n /\ i \in 0..n
    OBVIOUS
  <2>2. H[i] = g[i].flags /\ H[i - 1] = g[i - 1].flags
    BY <1>5, <2>1
  <2>3. PICK a \in ParseRec : a = g[i - 1]
    BY <1>4, <2>1
  <2>4. PICK o \in OptNames : o = opts[i]
    BY <1>3
  <2>5. H[i] = ParseOpt(a, o).flags /\ H[i - 1] = a.flags
    BY <1>2, <2>2, <2>3, <2>4
  <2>6. f \in H[i] <=> o \in Asks(f) \/ (o \notin Clears(f) /\ f \in H[i - 1])
    BY <2>5, ParseOne
  <2> QED
    BY <2>4, <2>6
<1>8. FlagTurns(H, opts, n)
  BY <1>7 DEF FlagTurns
<1> QED
  BY <1>1, <1>4, <1>6, <1>8

\* m is the last of the options that is in D.
Latest(m, opts, D) ==
    /\ m \in 1..Len(opts) /\ opts[m] \in D
    /\ \A i \in 1..Len(opts) : m < i => opts[i] \notin D
Silent(opts, D) == \A i \in 1..Len(opts) : opts[i] \notin D

\* Options that are spoken of have a last one.
LEMMA LastExists ==
    ASSUME NEW opts \in Seq(OptNames), NEW D
    PROVE  Silent(opts, D) \/ \E m : Latest(m, opts, D)
<1>1. PICK n \in Nat : n = Len(opts)
  OBVIOUS
<1>2. PICK S \in SUBSET (1..n) : S = {i \in 1..n : opts[i] \in D}
  OBVIOUS
<1>3. CASE S = {}
  BY <1>1, <1>2, <1>3 DEF Silent
<1>4. CASE S # {}
  <2>1. PICK m \in S : \A i \in S : i <= m
    BY <1>4, Greatest
  <2>2. m \in 1..n /\ opts[m] \in D
    BY <1>2
  <2>3. ASSUME NEW i \in 1..n, m < i PROVE opts[i] \notin D
    <3>1. ~(i <= m)
      BY <2>2, <2>3
    <3> QED
      BY <1>2, <2>1, <3>1
  <2> QED
    BY <1>1, <2>2, <2>3 DEF Latest
<1> QED
  BY <1>3, <1>4

\* The options that are in D
Where(opts, D) == {i \in DOMAIN opts : opts[i] \in D}

\* The greatest of some numbers is the only one.
LEMMA ChosenLast ==
    ASSUME NEW opts \in Seq(OptNames), NEW D, NEW m, Latest(m, opts, D),
           NEW S, S = Where(opts, D)
    PROVE  /\ m \in S /\ \A j \in S : j <= m
           /\ \A i \in S : (\A j \in S : j <= i) => i = m
<1>1. PICK n \in Nat : n = Len(opts) /\ DOMAIN opts = 1..n
  OBVIOUS
<1>2. m \in 1..n /\ opts[m] \in D /\ \A i \in 1..n : m < i => opts[i] \notin D
  BY <1>1 DEF Latest
<1>3. m \in S
  BY <1>1, <1>2 DEF Where
<1>4. ASSUME NEW j \in S PROVE j <= m /\ j \in 1..n
  <2>1. j \in 1..n /\ opts[j] \in D
    BY <1>1 DEF Where
  <2>2. ~(m < j)
    BY <1>2, <2>1
  <2> QED
    BY <1>2, <2>1, <2>2
<1>5. \A i \in S : (\A j \in S : j <= i) => i = m
  BY <1>2, <1>3, <1>4
<1> QED
  BY <1>3, <1>4, <1>5

\* The last option that speaks of a flag decides.
LEMMA DecidedLast ==
    ASSUME NEW opts \in Seq(OptNames), NEW f, NEW before
    PROVE  /\ Silent(opts, Asks(f) \cup Clears(f)) =>
                 (Decides(opts, f, f \in before) <=> f \in before)
           /\ \A m : Latest(m, opts, Asks(f) \cup Clears(f)) =>
                 (Decides(opts, f, f \in before) <=> opts[m] \in Asks(f))
<1>1. PICK n \in Nat : n = Len(opts) /\ DOMAIN opts = 1..n
  OBVIOUS
<1>2. PICK S : S = {i \in DOMAIN opts : opts[i] \in Asks(f) \cup Clears(f)}
  OBVIOUS
<1>3. Decides(opts, f, f \in before) <=>
        IF S = {} THEN f \in before ELSE opts[CHOOSE i \in S : \A j \in S : j <= i] \in Asks(f)
  BY <1>2 DEF Decides
<1>4. Silent(opts, Asks(f) \cup Clears(f)) => S = {}
  BY <1>1, <1>2 DEF Silent
<1>5. ASSUME NEW m, Latest(m, opts, Asks(f) \cup Clears(f))
      PROVE  Decides(opts, f, f \in before) <=> opts[m] \in Asks(f)
  <2>1. PICK D : D = Asks(f) \cup Clears(f)
    OBVIOUS
  <2>2. Latest(m, opts, D) /\ S = Where(opts, D)
    BY <1>2, <1>5, <2>1 DEF Where
  <2>3. /\ m \in S /\ \A j \in S : j <= m
        /\ \A i \in S : (\A j \in S : j <= i) => i = m
    BY <2>2, ChosenLast
  <2>4. S # {} /\ (CHOOSE i \in S : \A j \in S : j <= i) = m
    BY <2>3
  <2> QED
    BY <1>3, <2>4
<1> QED
  BY <1>3, <1>4, <1>5

\* parse_mntopts, for every list of the names in Alphabet (those of all the rows
\* of known_opts, "defaults" and three that are for the filesystem) and whatever
\* flags are set before: of each flag, the last option that speaks of it decides,
\* and what no option speaks of stays as it was.  "shared" asks for nothing: the
\* search ends before its row.
THEOREM OptionsAsAsked ==
    ASSUME NEW opts \in Seq(OptNames), NEW acc \in ParseRec,
           NEW p, p = parse_mntopts(opts, acc)
    PROVE  /\ p \in ParseRec
           /\ \A f \in Flags : f \in p.flags <=> Decides(opts, f, f \in acc.flags)
<1>1. PICK n \in Nat : n = Len(opts) /\ DOMAIN opts = 1..n
  OBVIOUS
<1>2. PICK H : H[0] = acc.flags /\ H[n] = p.flags /\ FlagTurns(H, opts, n)
  BY <1>1, LoopFlags
<1>3. p \in ParseRec
  BY <1>1, LoopFlags
<1>4. ASSUME NEW f \in Flags PROVE f \in H[n] <=> Decides(opts, f, f \in H[0])
  <2>1. PICK D : D = Asks(f) \cup Clears(f)
    OBVIOUS
  <2>2. \A i \in 1..n :
            f \in H[i] <=> opts[i] \in Asks(f) \/ (opts[i] \notin Clears(f) /\ f \in H[i - 1])
    BY <1>2 DEF FlagTurns
  <2>3. \A i \in 1..n : opts[i] \notin D => (f \in H[i] <=> f \in H[i - 1])
    BY <2>1, <2>2
  <2>4. CASE Silent(opts, D)
    <3>1. \A i \in 1..n : 0 < i => (f \in H[i] <=> f \in H[i - 1])
      BY <1>1, <2>3, <2>4 DEF Silent
    <3>2. f \in H[n] <=> f \in H[0]
      BY <3>1, TurnKept
    <3>3. Silent(opts, Asks(f) \cup Clears(f))
      BY <2>1, <2>4
    <3>4. Decides(opts, f, f \in H[0]) <=> f \in H[0]
      BY <3>3, DecidedLast
    <3> QED
      BY <3>2, <3>4
  <2>5. CASE \E m : Latest(m, opts, D)
    <3>1. PICK m : Latest(m, opts, D)
      BY <2>5
    <3>2. m \in 1..n /\ m \in 0..n /\ opts[m] \in D /\ \A i \in 1..n : m < i => opts[i] \notin D
      BY <1>1, <3>1 DEF Latest
    <3>3. \A i \in 1..n : m < i => (f \in H[i] <=> f \in H[i - 1])
      BY <2>3, <3>2
    <3>4. f \in H[n] <=> f \in H[m]
      BY <3>2, <3>3, TurnKept
    <3>5. f \in H[m] <=> opts[m] \in Asks(f)
      BY <2>1, <2>2, <3>2
    <3>6. Decides(opts, f, f \in H[0]) <=> opts[m] \in Asks(f)
      <4>1. \A k : Latest(k, opts, Asks(f) \cup Clears(f)) =>
                      (Decides(opts, f, f \in H[0]) <=> opts[k] \in Asks(f))
        BY DecidedLast
      <4>2. Latest(m, opts, Asks(f) \cup Clears(f))
        BY <2>1, <3>1
      <4> QED
        BY <4>1, <4>2
    <3> QED
      BY <3>4, <3>5, <3>6
  <2> QED
    BY <2>4, <2>5, LastExists
<1> QED
  BY <1>2, <1>3, <1>4

-----------------------------------------------------------------------------
(* Options of / *)

RootNames == OptNames \ OtherUses

\* They are options.
LEMMA RootSeq ==
    ASSUME NEW s \in Seq(RootNames)
    PROVE  s \in Seq(OptNames) /\ Range(s) \subseteq RootNames
<1>1. RootNames \subseteq OptNames
  BY DEF RootNames
<1>2. s \in Seq(OptNames)
  BY <1>1
<1> QED
  BY <1>2 DEF Range

\* The flags that a mount has are asked for by their names.
LEMMA OwnNames ==
    /\ MountFlags \cup Atime \subseteq Flags
    /\ \A f \in MountFlags \cup Atime : Asks(f) = {f}
<1>1. MountFlags \cup Atime \subseteq Flags
  BY DEF MountFlags, Atime, Flags
<1>2. \A f \in MountFlags \cup Atime : Asks(f) = {f}
  BY Speaks DEF MountFlags, Atime
<1> QED
  BY <1>1, <1>2

\* What was asked for, by the last option that speaks of it.
LEMMA AskedLast ==
    ASSUME NEW opts \in Seq(OptNames), NEW before
    PROVE  /\ Asked(opts, before) \subseteq MountFlags \cup Atime
           /\ \A f \in MountFlags \cup Atime :
                 /\ Silent(opts, {f} \cup Clears(f)) => (f \in Asked(opts, before) <=> f \in before)
                 /\ \A m : Latest(m, opts, {f} \cup Clears(f)) => (f \in Asked(opts, before) <=> opts[m] = f)
<1>1. \A f \in MountFlags \cup Atime : f \in Asked(opts, before) <=> Decides(opts, f, f \in before)
  BY DEF Asked
<1>2. Asked(opts, before) \subseteq MountFlags \cup Atime
  BY DEF Asked
<1>3. ASSUME NEW f \in MountFlags \cup Atime
      PROVE  /\ Silent(opts, {f} \cup Clears(f)) => (f \in Asked(opts, before) <=> f \in before)
             /\ \A m : Latest(m, opts, {f} \cup Clears(f)) => (f \in Asked(opts, before) <=> opts[m] = f)
  <2>1. PICK A : A = Asks(f) /\ A = {f}
    BY OwnNames
  <2>2. /\ Silent(opts, Asks(f) \cup Clears(f)) => (Decides(opts, f, f \in before) <=> f \in before)
        /\ \A m : Latest(m, opts, Asks(f) \cup Clears(f)) =>
              (Decides(opts, f, f \in before) <=> opts[m] \in Asks(f))
    BY DecidedLast
  <2>3. /\ Silent(opts, {f} \cup Clears(f)) => (Decides(opts, f, f \in before) <=> f \in before)
        /\ \A m : Latest(m, opts, {f} \cup Clears(f)) =>
              (Decides(opts, f, f \in before) <=> opts[m] = f)
    BY <2>1, <2>2
  <2> QED
    BY <1>1, <2>3
<1> QED
  BY <1>2, <1>3

\* parse_mntopts, for the options of /: the flags of a mount are those that were
\* asked for; it propagates if an option of it, or an earlier one, says rshared.
LEMMA RootOptions ==
    ASSUME NEW opts \in Seq(RootNames), NEW acc \in ParseRec,
           NEW p, p = parse_mntopts(opts, acc)
    PROVE  /\ p \in ParseRec
           /\ \A f \in MountFlags \cup Atime : f \in p.flags <=> f \in Asked(opts, acc.flags)
           /\ "shared" \in p.flags <=> "shared" \in acc.flags \/ "rshared" \in Range(opts)
           /\ "remount" \in acc.flags => "remount" \in p.flags
<1>1. opts \in Seq(OptNames) /\ Range(opts) \subseteq RootNames
  BY RootSeq
<1>2. p \in ParseRec /\ \A f \in Flags : f \in p.flags <=> Decides(opts, f, f \in acc.flags)
  BY <1>1, OptionsAsAsked
<1>3. \A f \in MountFlags \cup Atime : f \in p.flags <=> f \in Asked(opts, acc.flags)
  BY <1>2, OwnNames DEF Asked
<1>4. PICK n \in Nat : n = Len(opts) /\ DOMAIN opts = 1..n
  OBVIOUS
<1>5. \A x : x \in Range(opts) <=> \E i \in 1..n : opts[i] = x
  BY <1>4 DEF Range
<1>6. "shared" \in p.flags <=> "shared" \in acc.flags \/ "rshared" \in Range(opts)
  <2>1. Asks("shared") = {"rshared"} /\ Clears("shared") = {} /\ "shared" \in Flags
    BY Speaks DEF Flags
  <2>2. PICK D : D = Asks("shared") \cup Clears("shared") /\ D = {"rshared"}
    BY <2>1
  <2>3. /\ Silent(opts, D) => (Decides(opts, "shared", "shared" \in acc.flags) <=> "shared" \in acc.flags)
        /\ \A m : Latest(m, opts, D) =>
              (Decides(opts, "shared", "shared" \in acc.flags) <=> opts[m] \in Asks("shared"))
    BY <1>1, <2>2, DecidedLast
  <2>4. CASE Silent(opts, D)
    <3>1. "rshared" \notin Range(opts)
      BY <1>4, <1>5, <2>2, <2>4 DEF Silent
    <3> QED
      BY <1>2, <2>1, <2>3, <2>4, <3>1
  <2>5. CASE \E m : Latest(m, opts, D)
    <3>1. PICK m : Latest(m, opts, D)
      BY <2>5
    <3>2. m \in 1..n /\ opts[m] = "rshared"
      BY <1>4, <2>2, <3>1 DEF Latest
    <3> QED
      BY <1>2, <1>5, <2>1, <2>3, <3>1, <3>2
  <2> QED
    BY <1>1, <2>4, <2>5, LastExists
<1>7. ASSUME "remount" \in acc.flags PROVE "remount" \in p.flags
  <2>1. /\ Asks("remount") = {"remount"} /\ Clears("remount") = {"bind", "rbind", "move"}
        /\ "remount" \in Flags
    BY Speaks DEF Flags
  <2>2. PICK D : D = Asks("remount") \cup Clears("remount")
    OBVIOUS
  <2>3. /\ Silent(opts, D) => (Decides(opts, "remount", "remount" \in acc.flags) <=> "remount" \in acc.flags)
        /\ \A m : Latest(m, opts, D) =>
              (Decides(opts, "remount", "remount" \in acc.flags) <=> opts[m] \in Asks("remount"))
    BY <1>1, <2>2, DecidedLast
  <2>4. CASE Silent(opts, D)
    BY <1>2, <1>7, <2>1, <2>3, <2>4
  <2>5. CASE \E m : Latest(m, opts, D)
    <3>1. PICK m : Latest(m, opts, D)
      BY <2>5
    <3>2. m \in 1..n /\ opts[m] \in D
      BY <1>4, <3>1 DEF Latest
    <3>3. opts[m] \in RootNames
      BY <1>1, <1>5, <3>2
    <3>4. opts[m] \notin {"bind", "rbind", "move"}
      BY <3>3 DEF RootNames, OtherUses
    <3>5. opts[m] \in Asks("remount")
      BY <2>1, <2>2, <3>2, <3>4
    <3> QED
      BY <1>2, <2>1, <2>3, <3>1, <3>5
  <2> QED
    BY <1>1, <2>4, <2>5, LastExists
<1> QED
  BY <1>2, <1>3, <1>6, <1>7

\* SetToSeq lists all of a finite set.
LEMMA ListsAll ==
    ASSUME NEW S, IsFiniteSet(S)
    PROVE  SetToSeq(S) \in Seq(S) /\ \A x \in S : \E i \in DOMAIN SetToSeq(S) : SetToSeq(S)[i] = x
<1>1. PICK n \in Nat : n = Cardinality(S)
  BY FS_CardinalityType
<1>2. \E f \in [1..n -> S] : IsInjective(f)
  <2>1. PICK f : f \in Bijection(1..n, S)
    BY <1>1, FS_CardinalityType DEF ExistsBijection
  <2> QED
    BY <2>1 DEF Bijection, Injection, IsInjective
<1>3. PICK f : f = SetToSeq(S)
  OBVIOUS
<1>4. f \in [1..n -> S] /\ IsInjective(f)
  BY <1>1, <1>2, <1>3 DEF SetToSeq
<1>5. f \in Injection(1..n, S)
  BY <1>4 DEF Injection
<1>6. Cardinality(1..n) = n
  BY FS_Interval
<1>7. f \in Surjection(1..n, S)
  BY <1>1, <1>5, <1>6, FS_Injection
<1>8. f \in Seq(S)
  BY <1>4, SeqDef
<1> QED
  BY <1>3, <1>4, <1>7, <1>8 DEF Surjection

\* What was asked for, by the options that occur at all.
LEMMA AskedRange ==
    ASSUME NEW opts \in Seq(OptNames), NEW before, NEW f \in MountFlags \cup Atime
    PROVE  /\ f \in Range(opts) /\ Range(opts) \cap Clears(f) = {} => f \in Asked(opts, before)
           /\ f \notin Range(opts) /\ f \notin before => f \notin Asked(opts, before)
           /\ Range(opts) \cap ({f} \cup Clears(f)) = {} =>
                 (f \in Asked(opts, before) <=> f \in before)
<1>1. PICK n \in Nat : n = Len(opts) /\ DOMAIN opts = 1..n
  OBVIOUS
<1>2. \A x : x \in Range(opts) <=> \E i \in 1..n : opts[i] = x
  BY <1>1 DEF Range
<1>3. PICK D : D = {f} \cup Clears(f)
  OBVIOUS
<1>4. Silent(opts, D) \/ \E m : Latest(m, opts, D)
  BY LastExists
<1>5. Silent(opts, D) => (f \in Asked(opts, before) <=> f \in before)
  BY <1>3, AskedLast
<1>6. \A m : Latest(m, opts, D) => (f \in Asked(opts, before) <=> opts[m] = f)
  <2>1. \A k : Latest(k, opts, {f} \cup Clears(f)) => (f \in Asked(opts, before) <=> opts[k] = f)
    BY AskedLast
  <2> QED
    BY <1>3, <2>1
<1>7. \A m : Latest(m, opts, D) => opts[m] \in D /\ opts[m] \in Range(opts)
  BY <1>1, <1>2 DEF Latest
<1>8. ASSUME f \in Range(opts), Range(opts) \cap Clears(f) = {} PROVE f \in Asked(opts, before)
  <2>1. ~Silent(opts, D)
    BY <1>1, <1>2, <1>3, <1>8 DEF Silent
  <2>2. PICK m : Latest(m, opts, D)
    BY <1>4, <2>1
  <2>3. opts[m] = f
    BY <1>3, <1>7, <1>8, <2>2
  <2> QED
    BY <1>6, <2>2, <2>3
<1>9. ASSUME f \notin Range(opts), f \notin before PROVE f \notin Asked(opts, before)
  <2>1. \A m : Latest(m, opts, D) => opts[m] # f
    BY <1>7, <1>9
  <2> QED
    BY <1>4, <1>5, <1>6, <1>9, <2>1
<1>10. ASSUME Range(opts) \cap D = {} PROVE f \in Asked(opts, before) <=> f \in before
  <2>1. Silent(opts, D)
    BY <1>1, <1>2, <1>10 DEF Silent
  <2> QED
    BY <1>5, <2>1
<1> QED
  BY <1>3, <1>8, <1>9, <1>10

\* What two lists hold together.
LEMMA RangeConcat ==
    ASSUME NEW S, NEW s \in Seq(S), NEW t \in Seq(S)
    PROVE  s \o t \in Seq(S) /\ \A x : x \in Range(s \o t) <=> x \in Range(s) \/ x \in Range(t)
<1>1. PICK m \in Nat, n \in Nat : m = Len(s) /\ n = Len(t)
  OBVIOUS
<1>2. PICK u : u = s \o t
  OBVIOUS
<1>3. u \in Seq(S) /\ Len(u) = m + n
  BY <1>1, <1>2
<1>4. \A i \in 1..(m + n) : u[i] = IF i <= m THEN s[i] ELSE t[i - m]
  BY <1>1, <1>2
<1>5. /\ \A x : x \in Range(u) <=> \E i \in 1..(m + n) : u[i] = x
      /\ \A x : x \in Range(s) <=> \E i \in 1..m : s[i] = x
      /\ \A x : x \in Range(t) <=> \E i \in 1..n : t[i] = x
  <2>1. DOMAIN u = 1..(m + n) /\ DOMAIN s = 1..m /\ DOMAIN t = 1..n
    BY <1>1, <1>3
  <2> QED
    BY <2>1 DEF Range
<1>6. ASSUME NEW x \in Range(u) PROVE x \in Range(s) \/ x \in Range(t)
  <2>1. PICK i \in 1..(m + n) : u[i] = x
    BY <1>5
  <2>2. CASE i <= m
    <3>1. i \in 1..m
      BY <2>2
    <3> QED
      BY <1>4, <1>5, <2>1, <2>2, <3>1
  <2>3. CASE ~(i <= m)
    <3>1. i - m \in 1..n
      BY <2>3
    <3> QED
      BY <1>4, <1>5, <2>1, <2>3, <3>1
  <2> QED
    BY <2>2, <2>3
<1>7. ASSUME NEW x \in Range(s) PROVE x \in Range(u)
  <2>1. PICK i \in 1..m : s[i] = x
    BY <1>5
  <2>2. i \in 1..(m + n) /\ i <= m
    BY <2>1
  <2> QED
    BY <1>4, <1>5, <2>1, <2>2
<1>8. ASSUME NEW x \in Range(t) PROVE x \in Range(u)
  <2>1. PICK i \in 1..n : t[i] = x
    BY <1>5
  <2>2. i + m \in 1..(m + n) /\ ~(i + m <= m) /\ (i + m) - m = i
    BY <2>1
  <2> QED
    BY <1>4, <1>5, <2>1, <2>2
<1> QED
  BY <1>2, <1>3, <1>6, <1>7, <1>8

\* How a mount is shown: its flags, and rw unless it is read-only.
LEMMA ShownOpts ==
    ASSUME NEW m \in Mount
    PROVE  /\ Shown(m) \in Seq(RootNames)
           /\ \A x : x \in Range(Shown(m)) <=> x \in m.flags \/ (x = "rw" /\ "ro" \notin m.flags)
<1>1. m.flags \subseteq MountFlags \cup Atime
  BY DEF Mount
<1>2. m.flags \subseteq RootNames
  BY <1>1 DEF MountFlags, Atime, RootNames, OtherUses, OptNames
<1>3. IsFiniteSet(m.flags)
  <2>1. \A x, y : IsFiniteSet({x} \cup {y})
    <3>1. \A x : IsFiniteSet({x})
      BY FS_Singleton
    <3> QED
      BY <3>1, FS_Union
  <2>2. PICK A, B, C : /\ A = {"ro"} \cup {"nosuid"} /\ B = {"nodev"} \cup {"noexec"}
                       /\ C = {"noatime"} \cup {"relatime"}
    OBVIOUS
  <2>3. IsFiniteSet(A) /\ IsFiniteSet(B) /\ IsFiniteSet(C)
    BY <2>1, <2>2
  <2>4. IsFiniteSet(A \cup B)
    BY <2>3, FS_Union
  <2>5. IsFiniteSet((A \cup B) \cup C)
    BY <2>3, <2>4, FS_Union
  <2>6. m.flags \subseteq (A \cup B) \cup C
    BY <1>1, <2>2 DEF MountFlags, Atime
  <2> QED
    BY <2>5, <2>6, FS_Subset
<1>4. PICK s : s = SetToSeq(m.flags)
  OBVIOUS
<1>5. s \in Seq(m.flags) /\ \A x \in m.flags : \E i \in DOMAIN s : s[i] = x
  BY <1>3, <1>4, ListsAll
<1>6. s \in Seq(RootNames)
  BY <1>2, <1>5
<1>7. \A x : x \in Range(s) <=> x \in m.flags
  BY <1>5 DEF Range
<1>8. PICK t : t = IF "ro" \in m.flags THEN <<>> ELSE <<"rw">>
  OBVIOUS
<1>9. t \in Seq(RootNames)
  <2>1. "rw" \in RootNames
    BY DEF RootNames, OtherUses, OptNames
  <2> QED
    BY <1>8, <2>1
<1>10. \A x : x \in Range(t) <=> (x = "rw" /\ "ro" \notin m.flags)
  BY <1>8 DEF Range
<1>11. Shown(m) = s \o t
  BY <1>4, <1>8 DEF Shown
<1> QED
  BY <1>6, <1>7, <1>9, <1>10, <1>11, RangeConcat

\* Parsing what is shown of a mount yields its flags.
LEMMA ParseShown ==
    ASSUME NEW m \in Mount, ~(Atime \subseteq m.flags),
           NEW p, p = parse_mntopts(Shown(m), Given({"silent", "remount"}))
    PROVE  /\ p \in ParseRec
           /\ \A f \in MountFlags \cup Atime : f \in p.flags <=> f \in m.flags
           /\ "shared" \notin p.flags /\ "remount" \in p.flags
<1>1. PICK opts \in Seq(RootNames) : opts = Shown(m)
  BY ShownOpts
<1>2. \A x : x \in Range(opts) <=> x \in m.flags \/ (x = "rw" /\ "ro" \notin m.flags)
  BY <1>1, ShownOpts
<1>3. m.flags \subseteq MountFlags \cup Atime
  BY DEF Mount
<1>4. PICK acc \in ParseRec : acc = Given({"silent", "remount"})
  <2>1. {"silent", "remount"} \in SUBSET Flags
    BY DEF Flags
  <2>2. <<>> \in Seq(OptNames)
    OBVIOUS
  <2> QED
    BY <2>1, <2>2 DEF Given, ParseRec
<1>5. acc.flags = {"silent", "remount"}
  BY <1>4 DEF Given
<1>6. /\ p \in ParseRec
      /\ \A f \in MountFlags \cup Atime : f \in p.flags <=> f \in Asked(opts, acc.flags)
      /\ "shared" \in p.flags <=> "shared" \in acc.flags \/ "rshared" \in Range(opts)
      /\ "remount" \in acc.flags => "remount" \in p.flags
  BY <1>1, <1>4, RootOptions
<1>7. \A f \in MountFlags \cup Atime : f \in m.flags => Range(opts) \cap Clears(f) = {}
  <2>1. Range(opts) \subseteq MountFlags \cup Atime \cup {"rw"}
    BY <1>2, <1>3
  <2>2. "ro" \in m.flags => "rw" \notin Range(opts)
    BY <1>2, <1>3 DEF MountFlags, Atime
  <2>3. /\ Clears("ro") = {"defaults", "rw"} /\ Clears("nosuid") = {"defaults", "suid"}
        /\ Clears("nodev") = {"defaults", "dev"} /\ Clears("noexec") = {"defaults", "exec"}
        /\ Clears("noatime") = {"atime", "norelatime", "relatime"}
        /\ Clears("relatime") = {"atime", "norelatime", "noatime"}
    BY Speaks
  <2>4. ASSUME NEW f \in MountFlags, f \in m.flags PROVE Range(opts) \cap Clears(f) = {}
    BY <2>1, <2>2, <2>3, <2>4 DEF MountFlags, Atime
  <2>5. ASSUME NEW f \in Atime, f \in m.flags PROVE Range(opts) \cap Clears(f) = {}
    <3>1. \A g \in Atime : g # f => g \notin Range(opts)
      BY <1>2, <2>5 DEF Atime
    <3> QED
      BY <2>1, <2>3, <2>5, <3>1 DEF MountFlags, Atime
  <2> QED
    BY <2>4, <2>5
<1>8. ASSUME NEW f \in MountFlags \cup Atime PROVE f \in Asked(opts, acc.flags) <=> f \in m.flags
  <2>1. f # "rw" /\ f \notin acc.flags
    BY <1>5 DEF MountFlags, Atime
  <2>2. opts \in Seq(OptNames)
    BY RootSeq
  <2>3. CASE f \in m.flags
    BY <1>2, <1>7, <2>2, <2>3, AskedRange
  <2>4. CASE f \notin m.flags
    BY <1>2, <2>1, <2>2, <2>4, AskedRange
  <2> QED
    BY <2>3, <2>4
<1>10. "shared" \notin acc.flags /\ "remount" \in acc.flags /\ "rshared" \notin Range(opts)
  BY <1>2, <1>3, <1>5 DEF MountFlags, Atime
<1> QED
  BY <1>6, <1>8, <1>10

\* Only what was there before matters to what is asked for; options of / leave
\* at most one of the flags about atime.
LEMMA AskedSame ==
    ASSUME NEW opts \in Seq(RootNames), NEW a, NEW b
    PROVE  /\ \A f \in MountFlags \cup Atime : (f \in a <=> f \in b) =>
                 (f \in Asked(opts, a) <=> f \in Asked(opts, b))
           /\ ~(Atime \subseteq a) => ~(Atime \subseteq Asked(opts, a))
           /\ Asked(opts, a) \cap Atime = {} => a \cap Atime = {}
           /\ \/ \A f \in Atime : f \in Asked(opts, a) <=> f \in a
              \/ Asked(opts, a) \cap Atime # {} /\ Asked(opts, a) \cap Atime = Asked(opts, b) \cap Atime
<1>1. opts \in Seq(OptNames) /\ Range(opts) \subseteq RootNames
  BY RootSeq
<1>2. ASSUME NEW f \in MountFlags \cup Atime, f \in a <=> f \in b
      PROVE  f \in Asked(opts, a) <=> f \in Asked(opts, b)
  <2>1. PICK D : D = {f} \cup Clears(f)
    OBVIOUS
  <2>2. /\ \A k : Latest(k, opts, {f} \cup Clears(f)) => (f \in Asked(opts, a) <=> opts[k] = f)
        /\ \A k : Latest(k, opts, {f} \cup Clears(f)) => (f \in Asked(opts, b) <=> opts[k] = f)
        /\ Silent(opts, {f} \cup Clears(f)) => (f \in Asked(opts, a) <=> f \in a)
        /\ Silent(opts, {f} \cup Clears(f)) => (f \in Asked(opts, b) <=> f \in b)
    BY <1>1, AskedLast
  <2>3. Silent(opts, D) \/ \E m : Latest(m, opts, D)
    BY <1>1, LastExists
  <2>4. CASE Silent(opts, D)
    BY <1>2, <2>1, <2>2, <2>4
  <2>5. CASE \E m : Latest(m, opts, D)
    <3>1. PICK m : Latest(m, opts, {f} \cup Clears(f))
      BY <2>1, <2>5
    <3> QED
      BY <2>2, <3>1
  <2> QED
    BY <2>3, <2>4, <2>5
<1>3. PICK D : D = {"noatime", "relatime", "atime", "norelatime"}
  OBVIOUS
<1>4. \A f \in Atime : {f} \cup Clears(f) = D
  BY <1>3, Speaks DEF Atime
<1>5. /\ \A f \in Atime : Silent(opts, D) =>
              (f \in Asked(opts, a) <=> f \in a) /\ (f \in Asked(opts, b) <=> f \in b)
      /\ \A f \in Atime : \A m : Latest(m, opts, D) =>
              (f \in Asked(opts, a) <=> opts[m] = f) /\ (f \in Asked(opts, b) <=> opts[m] = f)
  <2>1. ASSUME NEW f \in Atime
        PROVE  /\ Silent(opts, {f} \cup Clears(f)) =>
                    (f \in Asked(opts, a) <=> f \in a) /\ (f \in Asked(opts, b) <=> f \in b)
               /\ \A m : Latest(m, opts, {f} \cup Clears(f)) =>
                    (f \in Asked(opts, a) <=> opts[m] = f) /\ (f \in Asked(opts, b) <=> opts[m] = f)
    BY <1>1, AskedLast
  <2> QED
    BY <1>4, <2>1
<1>6. CASE Silent(opts, D)
  <2>1. \A f \in Atime : (f \in Asked(opts, a) <=> f \in a) /\ (f \in Asked(opts, b) <=> f \in b)
    BY <1>5, <1>6
  <2>2. ~(Atime \subseteq a) => ~(Atime \subseteq Asked(opts, a))
    BY <2>1
  <2>3. Asked(opts, a) \cap Atime = {} => a \cap Atime = {}
    BY <2>1
  <2> QED
    BY <1>2, <2>1, <2>2, <2>3
<1>7. CASE \E m : Latest(m, opts, D)
  <2>1. PICK m : Latest(m, opts, D)
    BY <1>7
  <2>2. opts[m] \in D /\ opts[m] \in Range(opts)
    BY <1>1, <2>1 DEF Latest, Range
  <2>3. opts[m] \in Atime
    BY <1>1, <1>3, <2>2 DEF RootNames, OtherUses, Atime
  <2>4. PICK x \in Atime : x = opts[m]
    BY <2>3
  <2>5. \A f \in Atime : (f \in Asked(opts, a) <=> x = f) /\ (f \in Asked(opts, b) <=> x = f)
    BY <1>5, <2>1, <2>4
  <2>6. ~(Atime \subseteq Asked(opts, a))
    BY <2>5 DEF Atime
  <2>7. Asked(opts, a) \cap Atime # {} /\ Asked(opts, a) \cap Atime = Asked(opts, b) \cap Atime
    BY <2>5
  <2> QED
    BY <1>2, <2>6, <2>7
<1> QED
  BY <1>1, <1>6, <1>7, LastExists

\* do_remount: the flags a mount has, changed by what is asked for.
LEMMA Reparsed ==
    ASSUME NEW m \in Mount, ~(Atime \subseteq m.flags), NEW opts \in Seq(RootNames),
           NEW p, p = parse_mntopts(opts, parse_mntopts(Shown(m), Given({"silent", "remount"})))
    PROVE  /\ p \in ParseRec /\ "remount" \in p.flags
           /\ "shared" \in p.flags <=> "rshared" \in Range(opts)
           /\ \A f \in MountFlags \cup Atime : f \in p.flags <=> f \in Asked(opts, m.flags)
<1>1. PICK q : q = parse_mntopts(Shown(m), Given({"silent", "remount"}))
  OBVIOUS
<1>2. /\ q \in ParseRec
      /\ \A f \in MountFlags \cup Atime : f \in q.flags <=> f \in m.flags
      /\ "shared" \notin q.flags /\ "remount" \in q.flags
  BY <1>1, ParseShown
<1>3. /\ p \in ParseRec
      /\ \A f \in MountFlags \cup Atime : f \in p.flags <=> f \in Asked(opts, q.flags)
      /\ "shared" \in p.flags <=> "shared" \in q.flags \/ "rshared" \in Range(opts)
      /\ "remount" \in q.flags => "remount" \in p.flags
  BY <1>1, <1>2, RootOptions
<1>4. \A f \in MountFlags \cup Atime : f \in Asked(opts, q.flags) <=> f \in Asked(opts, m.flags)
  BY <1>2, AskedSame
<1> QED
  BY <1>2, <1>3, <1>4

\* A remount applies the flags that are asked for; one that says nothing of
\* atime keeps what there was.
LEMMA AppliedFlags ==
    ASSUME NEW m \in Mount, NEW fl, "remount" \in fl
    PROVE  /\ Applied(m, fl) \in Mount /\ Applied(m, fl).shared = m.shared
           /\ \A f \in MountFlags : f \in Applied(m, fl).flags <=> f \in fl
           /\ fl \cap Atime # {} => \A f \in Atime : f \in Applied(m, fl).flags <=> f \in fl
           /\ fl \cap Atime = {} => \A f \in Atime : f \in Applied(m, fl).flags <=> f \in m.flags
<1>1. PICK at : at = IF fl \cap Atime # {} THEN fl \cap Atime ELSE m.flags \cap Atime
  OBVIOUS
<1>2. Applied(m, fl) = [m EXCEPT !.flags = (fl \cap MountFlags) \cup at]
  BY <1>1 DEF Applied
<1>3. /\ Applied(m, fl) \in Mount /\ Applied(m, fl).shared = m.shared
      /\ Applied(m, fl).flags = (fl \cap MountFlags) \cup at
  BY <1>1, <1>2 DEF Mount
<1>4. MountFlags \cap Atime = {}
  BY DEF MountFlags, Atime
<1> QED
  BY <1>1, <1>3, <1>4

\* All that may come of mount(2).
LEMMA RawResult ==
    ASSUME NEW old \in Mount, NEW p, NEW helper \in BOOLEAN,
           NEW o \in do_mount_raw(old, p, helper)
    PROVE  /\ o.applied => o.mnt.flags = Applied(old, p.flags).flags
           /\ ~o.applied => o.mnt = old
           /\ old.shared => o.mnt.shared
           /\ ~helper /\ o.ret = 0 /\ "shared" \in p.flags => o.mnt.shared
<1>1. PICK new \in Mount : new = Applied(old, p.flags)
  BY DEF Applied, Mount, MountFlags, Atime
<1>2. new.shared = old.shared
  BY <1>1 DEF Applied, Mount
<1>3. PICK sh \in Mount : sh = [new EXCEPT !.shared = @ \/ "shared" \in p.flags]
  BY <1>1 DEF Mount
<1>4. sh.flags = new.flags /\ (new.shared => sh.shared) /\ ("shared" \in p.flags => sh.shared)
  BY <1>1, <1>3 DEF Mount
<1>5. \/ o = Outcome(sh, TRUE, 0, FALSE) \/ o = Outcome(new, TRUE, 1, TRUE)
      \/ \E b : o = Outcome(old, FALSE, 1, b)
      \/ helper /\ ((\E b : o = Outcome(new, TRUE, 0, b)) \/ o = Outcome(old, FALSE, 0, TRUE))
  BY <1>1, <1>3 DEF do_mount_raw
<1>6. CASE o = Outcome(sh, TRUE, 0, FALSE)
  <2>1. o.mnt = sh /\ o.applied = TRUE
    BY <1>6 DEF Outcome
  <2> QED
    BY <1>1, <1>2, <1>4, <2>1
<1>7. CASE o = Outcome(new, TRUE, 1, TRUE)
  <2>1. o.mnt = new /\ o.applied = TRUE /\ o.ret = 1
    BY <1>7 DEF Outcome
  <2>2. o.ret # 0
    BY <2>1
  <2> QED
    BY <1>1, <1>2, <2>1, <2>2
<1>8. CASE \E b : o = Outcome(old, FALSE, 1, b)
  <2>1. o.mnt = old /\ o.applied = FALSE /\ o.ret = 1
    BY <1>8 DEF Outcome
  <2>2. o.ret # 0
    BY <2>1
  <2> QED
    BY <2>1, <2>2
<1>9. CASE helper /\ \E b : o = Outcome(new, TRUE, 0, b)
  <2>1. o.mnt = new /\ o.applied = TRUE
    BY <1>9 DEF Outcome
  <2> QED
    BY <1>1, <1>2, <1>9, <2>1
<1>10. CASE helper /\ o = Outcome(old, FALSE, 0, TRUE)
  <2>1. o.mnt = old /\ o.applied = FALSE
    BY <1>10 DEF Outcome
  <2> QED
    BY <1>10, <2>1
<1> QED
  BY <1>5, <1>6, <1>7, <1>8, <1>9, <1>10

-----------------------------------------------------------------------------
(* The inductive invariant of the mounts *)

\* The steps of `mnt prepare` up to the one for t
Todo(t) == {Order[i] : i \in 1..Place(t)}
PastAt(t, p) == p \notin {"off", "env", "prepare failed", "sync"} \cup Todo(t)
Past(t) == PastAt(t, pc)

\* What prepare has done so far
Mounting ==
    /\ \A t \in Pseudo : t \notin hist.left /\ tab[t] # <<>> => "nosuid" \in tab[t][1].flags
    /\ \A t \in Pseudo : Past(t) => tab[t] # <<>>
    /\ conf.dirs => \A t \in Aux : Past(t) => tab[t] # <<>>
    /\ Past("/") /\ "rshared" \in Range(conf.opts) /\ ~conf.helper => root.shared

ConfOK == conf \in [fstab : FstabRoot, opts : RootOpts, helper : BOOLEAN, dirs : BOOLEAN]
OneAtime == ~(Atime \subseteq root.flags)

RootInv == MountInv /\ ConfOK /\ OneAtime /\ RootKept /\ Mounting

-----------------------------------------------------------------------------
(* The remounts of / *)

\* The options are those of the table, or are for the filesystem.
LEMMA Options ==
    ASSUME ConfOK
    PROVE  /\ conf.opts \in Seq(RootNames) /\ conf.helper \in BOOLEAN /\ conf.dirs \in BOOLEAN
           /\ conf.fstab # NoEntry => conf.fstab \in Seq(RootNames)
<1>1. /\ conf.opts \in RootOpts /\ conf.fstab \in FstabRoot
      /\ conf.helper \in BOOLEAN /\ conf.dirs \in BOOLEAN
  BY DEF ConfOK
<1>2. Range(Alphabet) \ OtherUses = RootNames
  BY Ranks DEF RootNames
<1> QED
  BY <1>1, <1>2, OptionAssumption

\* do_remount("/", opts) changes what opts say.
LEMMA RemountFlags ==
    ASSUME TypeOK, OneAtime, NEW opts \in Seq(RootNames)
    PROVE  /\ Applied(root, Remounted(opts).flags).flags = Asked(opts, root.flags)
           /\ "shared" \in Remounted(opts).flags <=> "rshared" \in Range(opts)
<1>1. PICK p : p = Remounted(opts)
  OBVIOUS
<1>2. root \in Mount /\ ~(Atime \subseteq root.flags)
  BY DEF TypeOK, OneAtime
<1>3. /\ "remount" \in p.flags
      /\ "shared" \in p.flags <=> "rshared" \in Range(opts)
      /\ \A f \in MountFlags \cup Atime : f \in p.flags <=> f \in Asked(opts, root.flags)
  BY <1>1, <1>2, Reparsed DEF Remounted
<1>4. PICK new \in Mount : new = Applied(root, p.flags)
  BY <1>2, <1>3, AppliedFlags
<1>5. /\ \A f \in MountFlags : f \in new.flags <=> f \in p.flags
      /\ p.flags \cap Atime # {} => \A f \in Atime : f \in new.flags <=> f \in p.flags
      /\ p.flags \cap Atime = {} => \A f \in Atime : f \in new.flags <=> f \in root.flags
  BY <1>2, <1>3, <1>4, AppliedFlags
<1>6. new.flags \subseteq MountFlags \cup Atime /\ Asked(opts, root.flags) \subseteq MountFlags \cup Atime
  BY DEF Mount, Asked
<1>7. ASSUME p.flags \cap Atime = {}
      PROVE  \A f \in Atime : f \notin root.flags /\ f \notin Asked(opts, root.flags)
  <2>1. Asked(opts, root.flags) \cap Atime = {}
    BY <1>3, <1>7
  <2>2. root.flags \cap Atime = {}
    BY <2>1, AskedSame
  <2> QED
    BY <2>1, <2>2
<1>8. \A f \in MountFlags \cup Atime : f \in new.flags <=> f \in Asked(opts, root.flags)
  BY <1>3, <1>5, <1>7
<1>9. new.flags = Asked(opts, root.flags)
  BY <1>6, <1>8
<1> QED
  BY <1>1, <1>3, <1>4, <1>9

\* root-rw with an entry in fstab: what the entry says, and the atime there was.
LEMMA FstabFlags ==
    ASSUME TypeOK, NEW opts \in Seq(RootNames),
           NEW p, p = parse_mntopts(opts, Given({"silent", "remount"}))
    PROVE  /\ Applied(root, p.flags).flags = Asked(opts, root.flags \cap Atime)
           /\ "ro" \in Applied(root, p.flags).flags <=> "ro" \in Asked(opts, {})
<1>1. root \in Mount
  BY DEF TypeOK
<1>2. PICK a, b : a = {"silent", "remount"} /\ b = root.flags \cap Atime
  OBVIOUS
<1>3. PICK acc \in ParseRec : acc = Given(a)
  <2>1. a \in SUBSET Flags
    BY <1>2 DEF Flags
  <2>2. <<>> \in Seq(OptNames)
    OBVIOUS
  <2> QED
    BY <2>1, <2>2 DEF Given, ParseRec
<1>4. acc.flags = a /\ p = parse_mntopts(opts, acc) /\ "remount" \in a
  BY <1>2, <1>3 DEF Given
<1>5. /\ \A f \in MountFlags \cup Atime : f \in p.flags <=> f \in Asked(opts, a)
      /\ "remount" \in p.flags
  BY <1>4, RootOptions
<1>6. PICK new \in Mount : new = Applied(root, p.flags)
  BY <1>1, <1>5, AppliedFlags
<1>7. /\ \A f \in MountFlags : f \in new.flags <=> f \in p.flags
      /\ p.flags \cap Atime # {} => \A f \in Atime : f \in new.flags <=> f \in p.flags
      /\ p.flags \cap Atime = {} => \A f \in Atime : f \in new.flags <=> f \in root.flags
  BY <1>1, <1>5, <1>6, AppliedFlags
<1>8. /\ \A f \in MountFlags : f \notin a /\ f \notin b /\ f \notin {}
      /\ \A f \in Atime : f \notin a /\ (f \in b <=> f \in root.flags)
  BY <1>2 DEF MountFlags, Atime
<1>9. \A f \in MountFlags : (f \in Asked(opts, a) <=> f \in Asked(opts, b))
                            /\ (f \in Asked(opts, a) <=> f \in Asked(opts, {}))
  BY <1>8, AskedSame
<1>10. \A f \in Atime : f \in new.flags <=> f \in Asked(opts, b)
  <2>1. CASE Asked(opts, a) \cap Atime = {}
    <3>1. p.flags \cap Atime = {}
      BY <1>5, <2>1
    <3>2. \/ \A f \in Atime : f \in Asked(opts, b) <=> f \in b
          \/ Asked(opts, b) \cap Atime # {} /\ Asked(opts, b) \cap Atime = Asked(opts, a) \cap Atime
      BY AskedSame
    <3> QED
      BY <1>7, <1>8, <2>1, <3>1, <3>2
  <2>2. CASE Asked(opts, a) \cap Atime # {}
    <3>1. p.flags \cap Atime # {}
      BY <1>5, <2>2
    <3>2. \/ \A f \in Atime : f \in Asked(opts, a) <=> f \in a
          \/ Asked(opts, a) \cap Atime = Asked(opts, b) \cap Atime
      BY AskedSame
    <3>3. Asked(opts, a) \cap Atime = Asked(opts, b) \cap Atime
      BY <1>8, <2>2, <3>2
    <3> QED
      BY <1>5, <1>7, <3>1, <3>3
  <2> QED
    BY <2>1, <2>2
<1>11. new.flags \subseteq MountFlags \cup Atime /\ Asked(opts, b) \subseteq MountFlags \cup Atime
  BY DEF Mount, Asked
<1>12. new.flags = Asked(opts, b)
  BY <1>5, <1>7, <1>9, <1>10, <1>11
<1>13. "ro" \in new.flags <=> "ro" \in Asked(opts, {})
  BY <1>5, <1>7, <1>9 DEF MountFlags
<1> QED
  BY <1>2, <1>6, <1>12, <1>13

\* root-rw without an entry: the flags / has, but writable.
LEMMA NoEntryFlags ==
    ASSUME TypeOK, OneAtime, NEW p, p = [Remounted(<<>>) EXCEPT !.flags = @ \ {"ro"}]
    PROVE  Applied(root, p.flags).flags = root.flags \ {"ro"}
<1>1. root \in Mount /\ ~(Atime \subseteq root.flags)
  BY DEF TypeOK, OneAtime
<1>2. PICK opts \in Seq(RootNames) : opts = <<>>
  <2>1. <<>> \in Seq(RootNames)
    OBVIOUS
  <2> QED
    BY <2>1
<1>3. PICK q \in ParseRec : q = Remounted(opts)
  BY <1>1, Reparsed DEF Remounted
<1>4. /\ "remount" \in q.flags
      /\ \A f \in MountFlags \cup Atime : f \in q.flags <=> f \in Asked(opts, root.flags)
  BY <1>1, <1>3, Reparsed DEF Remounted
<1>5. Range(opts) = {}
  BY <1>2 DEF Range
<1>6. \A f \in MountFlags \cup Atime : f \in Asked(opts, root.flags) <=> f \in root.flags
  <2>1. opts \in Seq(OptNames)
    BY RootSeq
  <2>2. ASSUME NEW f \in MountFlags \cup Atime
        PROVE  f \in Asked(opts, root.flags) <=> f \in root.flags
    <3>1. Range(opts) \cap ({f} \cup Clears(f)) = {}
      BY <1>5
    <3> QED
      BY <2>1, <3>1, AskedRange
  <2> QED
    BY <2>2
<1>7. p.flags = q.flags \ {"ro"}
  BY <1>2, <1>3 DEF ParseRec
<1>8. "remount" \in p.flags
  BY <1>4, <1>7
<1>9. PICK new \in Mount : new = Applied(root, p.flags)
  BY <1>1, <1>8, AppliedFlags
<1>10. /\ \A f \in MountFlags : f \in new.flags <=> f \in p.flags
       /\ p.flags \cap Atime # {} => \A f \in Atime : f \in new.flags <=> f \in p.flags
       /\ p.flags \cap Atime = {} => \A f \in Atime : f \in new.flags <=> f \in root.flags
  BY <1>1, <1>8, <1>9, AppliedFlags
<1>11. \A f \in MountFlags : f \in new.flags <=> f \in root.flags \ {"ro"}
  BY <1>4, <1>6, <1>7, <1>10
<1>12. \A f \in Atime : f # "ro" /\ (f \in p.flags <=> f \in root.flags)
  BY <1>4, <1>6, <1>7 DEF Atime
<1>13. \A f \in Atime : f \in new.flags <=> f \in root.flags \ {"ro"}
  BY <1>10, <1>12
<1>14. new.flags \subseteq MountFlags \cup Atime /\ root.flags \subseteq MountFlags \cup Atime
  BY <1>1 DEF Mount
<1>15. new.flags = root.flags \ {"ro"}
  BY <1>11, <1>13, <1>14
<1> QED
  BY <1>9, <1>15

-----------------------------------------------------------------------------
(* What is done by which step *)

\* The steps for which `mnt prepare` is asked
Stops == Pseudo \cup Aux \cup {"/"}

\* The steps up to each mount.
LEMMA TodoSets ==
    /\ Todo("/proc") = {"/proc"} /\ Todo("/") = {"/proc", "/"}
    /\ Todo("/sys") = {"/proc", "/", "/sys"} /\ Todo("/dev") = {"/proc", "/", "/sys", "/dev"}
    /\ Todo("/dev/pts") = {"/proc", "/", "/sys", "/dev", "/dev/pts"}
    /\ Todo("/dev/shm") = {"/proc", "/", "/sys", "/dev", "/dev/pts", "/dev/shm"}
    /\ Todo("/sys/kernel/security") = {"/proc", "/", "/sys", "/dev", "/dev/pts", "/dev/shm", "links",
                                       "/sys/kernel/security"}
    /\ Todo("/sys/firmware/efi/efivars") = Prepare
<1>1. DOMAIN Order = 1..14
  BY DEF Order
<1>2. /\ Order[1] = "/proc" /\ Order[2] = "/" /\ Order[3] = "/sys" /\ Order[4] = "/dev"
      /\ Order[5] = "/dev/pts" /\ Order[6] = "/dev/shm" /\ Order[7] = "links"
      /\ Order[8] = "/sys/kernel/security" /\ Order[9] = "/sys/firmware/efi/efivars"
      /\ Order[10] = "/run" /\ Order[11] = "/run/user" /\ Order[12] = "first"
      /\ Order[13] = "root-rw" /\ Order[14] = "generate"
  BY DEF Order
<1>3. \A i, j \in 1..14 : Order[i] = Order[j] => i = j
  BY <1>2
<1>4. ASSUME NEW i \in 1..14 PROVE Place(Order[i]) = i
  BY <1>1, <1>3 DEF Place
<1>5. /\ Place("/proc") = 1 /\ Place("/") = 2 /\ Place("/sys") = 3 /\ Place("/dev") = 4
      /\ Place("/dev/pts") = 5 /\ Place("/dev/shm") = 6 /\ Place("/sys/kernel/security") = 8
      /\ Place("/sys/firmware/efi/efivars") = 9
  BY <1>2, <1>4
<1>6. Todo("/proc") = {"/proc"} /\ Todo("/") = {"/proc", "/"}
  BY <1>2, <1>5 DEF Todo
<1>7. Todo("/sys") = {"/proc", "/", "/sys"} /\ Todo("/dev") = {"/proc", "/", "/sys", "/dev"}
  BY <1>2, <1>5 DEF Todo
<1>8. Todo("/dev/pts") = {"/proc", "/", "/sys", "/dev", "/dev/pts"}
  BY <1>2, <1>5 DEF Todo
<1>9. Todo("/dev/shm") = {"/proc", "/", "/sys", "/dev", "/dev/pts", "/dev/shm"}
  BY <1>2, <1>5 DEF Todo
<1>10. Todo("/sys/kernel/security") = {"/proc", "/", "/sys", "/dev", "/dev/pts", "/dev/shm", "links",
                                       "/sys/kernel/security"}
  BY <1>2, <1>5 DEF Todo
<1>11. Todo("/sys/firmware/efi/efivars") = Prepare
  BY <1>5 DEF Todo, Prepare
<1> QED
  BY <1>6, <1>7, <1>8, <1>9, <1>10, <1>11

Beyond == {"tmpfs failed", "/run", "/run/user", "first", "root-rw"} \cup AfterRootRw

\* Which steps are past which mounts.
LEMMA PastPlaces ==
    /\ \A t \in Stops : \A p \in Beyond : PastAt(t, p)
    /\ \A t \in Stops : \A p \in {"off", "env", "/proc", "prepare failed", "sync"} : ~PastAt(t, p)
    /\ \A t \in Stops : \A p \in Stops \cup {"links"} : PastAt(t, After(p)) => t = p \/ PastAt(t, p)
<1>1. ASSUME NEW t \in Stops PROVE "/proc" \in Todo(t) /\ Todo(t) \subseteq Prepare
  BY TodoSets, OrderSets DEF Stops, Pseudo, Aux
<1>2. ASSUME NEW t \in Stops, NEW p \in Beyond PROVE PastAt(t, p)
  <2>1. p \notin Prepare /\ p \notin {"off", "env", "prepare failed", "sync"}
    BY OrderSets DEF Beyond, AfterRootRw
  <2> QED
    BY <1>1, <2>1 DEF PastAt
<1>3. ASSUME NEW t \in Stops, NEW p \in {"off", "env", "/proc", "prepare failed", "sync"}
      PROVE  ~PastAt(t, p)
  BY <1>1 DEF PastAt
<1>4. ASSUME NEW t \in Stops, NEW p \in Stops \cup {"links"}, PastAt(t, After(p)), t # p
      PROVE  PastAt(t, p)
  <2>1. p \notin {"off", "env", "prepare failed", "sync"}
    BY DEF Stops, Pseudo, Aux
  <2>2. p \in Todo(t) => After(p) \in Todo(t)
    <3>1. CASE t \in {"/proc", "/", "/sys", "/dev"}
      BY <1>4, <3>1, TodoSets, AfterSteps
    <3>2. CASE t \in {"/dev/pts", "/dev/shm"}
      BY <1>4, <3>2, TodoSets, AfterSteps
    <3>3. CASE t = "/sys/kernel/security"
      BY <1>4, <3>3, TodoSets, AfterSteps
    <3>4. CASE t = "/sys/firmware/efi/efivars"
      BY <1>4, <3>4, TodoSets, AfterSteps, OrderSets
    <3> QED
      BY <3>1, <3>2, <3>3, <3>4 DEF Stops, Pseudo, Aux
  <2> QED
    BY <1>4, <2>1, <2>2 DEF PastAt
<1> QED
  BY <1>2, <1>3, <1>4

\* A step that gets past no mount, and unmounts none.
LEMMA MountingKept ==
    ASSUME Mounting, conf' = conf, root.shared => root'.shared, hist'.left = hist.left,
           \A t \in Pseudo \cup Aux : tab'[t] = tab[t],
           \A t \in Stops : PastAt(t, pc') => PastAt(t, pc)
    PROVE  Mounting'
<1>1. \A t \in Pseudo : t \notin hist'.left /\ tab'[t] # <<>> => "nosuid" \in tab'[t][1].flags
  BY DEF Mounting
<1>2. \A t \in Pseudo : PastAt(t, pc') => tab'[t] # <<>>
  BY DEF Mounting, Stops, Past
<1>3. conf.dirs => \A t \in Aux : PastAt(t, pc') => tab'[t] # <<>>
  BY DEF Mounting, Stops, Past
<1>4. PastAt("/", pc') /\ "rshared" \in Range(conf.opts) /\ ~conf.helper => root'.shared
  BY DEF Mounting, Stops, Past
<1> QED
  BY <1>1, <1>2, <1>3, <1>4 DEF Mounting, Past

\* A step that leaves / alone.
LEMMA RootAlone ==
    ASSUME ConfOK, OneAtime, RootKept, conf' = conf, root' = root,
           hist'.want = hist.want, hist'.remounted = hist.remounted,
           pc' \in AfterRootRw => pc \in AfterRootRw
    PROVE  ConfOK' /\ OneAtime' /\ RootKept'
<1>1. ConfOK'
  BY DEF ConfOK
<1>2. OneAtime'
  BY DEF OneAtime
<1>3. root'.flags \ {"ro"} = hist'.want
  BY DEF RootKept
<1>4. pc' \in AfterRootRw /\ hist'.remounted =>
        ("ro" \notin root'.flags <=> conf'.fstab = NoEntry \/ "ro" \notin Asked(conf'.fstab, {}))
  BY DEF RootKept, Writable
<1> QED
  BY <1>1, <1>2, <1>3, <1>4 DEF RootKept, Writable

\* What a step may write down besides the remounts.
LEMMA HistSame ==
    ASSUME HistOK, NEW b,
           \/ hist' = hist \/ hist' = [hist EXCEPT !.faulty = @ \/ b]
           \/ hist' = [hist EXCEPT !.faulty = TRUE]
           \/ hist' = [hist EXCEPT !.busy = TRUE] \/ hist' = [hist EXCEPT !.bound = TRUE]
    PROVE  hist'.want = hist.want /\ hist'.remounted = hist.remounted /\ hist'.left = hist.left
BY DEF HistOK

-----------------------------------------------------------------------------
(* The specification keeps the invariant *)

\* Initially nothing is mounted.
LEMMA RootInit == Init => RootInv
<1> SUFFICES ASSUME Init PROVE RootInv
  OBVIOUS
<1>1. MountInv
  BY MountInit
<1>2. ConfOK /\ pc = "off"
  BY DEF Init, ConfOK
<1>3. root.flags = {} /\ hist.want = {}
  BY DEF Init, NoMount, NewHist
<1>4. OneAtime
  BY <1>3 DEF OneAtime, Atime
<1>5. RootKept
  <2>1. pc \notin AfterRootRw
    BY <1>2 DEF AfterRootRw
  <2> QED
    BY <1>3, <2>1 DEF RootKept
<1>6. Mounting
  <2>1. \A t \in Pseudo : tab[t] = <<>>
    BY DEF Init, Targets
  <2>2. \A t \in Stops : ~Past(t)
    BY <1>2, PastPlaces DEF Past
  <2> QED
    BY <2>1, <2>2 DEF Mounting, Stops
<1> QED
  BY <1>1, <1>2, <1>4, <1>5, <1>6 DEF RootInv

\* The machine is started, crashes or goes off.
LEMMA RootBoots ==
    ASSUME RootInv, Boot \/ Off
    PROVE  ConfOK' /\ OneAtime' /\ RootKept' /\ Mounting'
<1>1. ConfOK
  BY DEF RootInv
<1>2. /\ conf' = conf /\ pc' \in {"off", "env"}
      /\ root'.flags \in RootFlags \cup {{}} /\ hist'.want = root'.flags \ {"ro"}
      /\ \A t \in Pseudo : t \in hist'.left \/ tab'[t] = <<>>
  <2>1. Pseudo \subseteq Targets
    BY DEF Targets
  <2>2. CASE Boot
    <3>1. PICK fl \in RootFlags, left \in Initramfs :
            /\ root' = [flags |-> fl, shared |-> FALSE]
            /\ tab' = [t \in Targets |-> IF t \in DOMAIN left
                                         THEN <<[flags |-> left[t], shared |-> FALSE]>>
                                         ELSE <<>>]
            /\ hist' = NewHist(fl, DOMAIN left)
      BY <2>2 DEF Boot
    <3>2. hist'.want = fl \ {"ro"} /\ hist'.left = DOMAIN left /\ root'.flags = fl
      BY <3>1 DEF NewHist
    <3>3. conf' = conf /\ pc' = "env"
      BY <2>2 DEF Boot, Goto
    <3>4. \A t \in Pseudo : t \in DOMAIN left \/ tab'[t] = <<>>
      BY <2>1, <3>1
    <3> QED
      BY <3>2, <3>3, <3>4
  <2>3. CASE Off
    <3>1. hist'.want = {} /\ root'.flags = {}
      BY <2>3 DEF Off, NewHist, NoMount
    <3>2. conf' = conf /\ pc' = "off" /\ \A t \in Pseudo : tab'[t] = <<>>
      BY <2>1, <2>3 DEF Off, Goto
    <3> QED
      BY <3>1, <3>2
  <2> QED
    BY <2>2, <2>3
<1>3. ConfOK'
  BY <1>1, <1>2 DEF ConfOK
<1>4. OneAtime'
  <2>1. ~(Atime \subseteq root'.flags)
    BY <1>2, MountAssumption DEF Atime
  <2> QED
    BY <2>1 DEF OneAtime
<1>5. RootKept'
  <2>1. pc' \notin AfterRootRw
    BY <1>2 DEF AfterRootRw
  <2> QED
    BY <1>2, <2>1 DEF RootKept
<1>6. Mounting'
  <2>1. \A t \in Pseudo : t \notin hist'.left /\ tab'[t] # <<>> => "nosuid" \in tab'[t][1].flags
    BY <1>2
  <2>2. \A t \in Stops : ~PastAt(t, pc')
    BY <1>2, PastPlaces
  <2> QED
    BY <2>1, <2>2 DEF Mounting, Stops, Past
<1> QED
  BY <1>3, <1>4, <1>5, <1>6

\* Steps that leave / and the filesystems alone: env.sh, a service started
\* again, the links, the mark of a first boot, machine-id.sh and done.sh.
LEMMA RootOthers ==
    ASSUME RootInv, \/ Env \/ Retry \/ PrepareLinks \/ TmpfsFirstBoot
                    \/ Generate \/ Touch \/ Echo \/ Bind
                    \/ Done \/ Umnt \/ Commit \/ Cat \/ Rebind
    PROVE  ConfOK' /\ OneAtime' /\ RootKept' /\ Mounting'
<1>1. ConfOK /\ OneAtime /\ RootKept /\ Mounting /\ HistOK /\ TypeOK
  BY DEF RootInv, MountInv
<1>2. conf' = conf /\ root' = root
  BY DEF Env, Retry, PrepareLinks, TmpfsFirstBoot, Generate, Touch, Echo, Bind, Done, Umnt,
         Commit, Cat, Rebind, mounts
<1>3. \A t \in Pseudo \cup Aux : tab'[t] = tab[t]
  <2>1. IdFile \notin Pseudo \cup Aux /\ Pseudo \cup Aux \subseteq Targets
    BY DEF IdFile, Pseudo, Aux, Targets
  <2>2. tab \in [Targets -> Seq(Mount)]
    BY <1>1, MountTypes
  <2>3. tab' = tab \/ \E s : tab' = [tab EXCEPT ![IdFile] = s]
    <3>1. CASE Bind \/ Rebind
      BY <3>1 DEF Bind, Rebind, BindId
    <3>2. CASE Umnt
      BY <3>2 DEF Umnt
    <3> QED
      BY <3>1, <3>2 DEF Env, Retry, PrepareLinks, TmpfsFirstBoot, Generate, Touch, Echo, Done,
                        Commit, Cat, mounts
  <2> QED
    BY <2>1, <2>2, <2>3
<1>4. hist'.want = hist.want /\ hist'.remounted = hist.remounted /\ hist'.left = hist.left
  <2>1. \/ hist' = hist \/ hist' = [hist EXCEPT !.faulty = TRUE]
        \/ hist' = [hist EXCEPT !.busy = TRUE] \/ hist' = [hist EXCEPT !.bound = TRUE]
    <3>1. CASE Env \/ Retry \/ PrepareLinks \/ TmpfsFirstBoot \/ Done \/ Umnt
      BY <3>1 DEF Env, Retry, PrepareLinks, TmpfsFirstBoot, Done, Umnt
    <3>2. CASE Generate \/ Touch \/ Echo \/ Commit \/ Cat
      BY <3>2 DEF Generate, Touch, Echo, Commit, Cat, Fault, NoFault
    <3>3. CASE Bind \/ Rebind
      BY <3>3 DEF Bind, Rebind, BindId, Fault, NoFault
    <3> QED
      BY <3>1, <3>2, <3>3
  <2> QED
    BY <1>1, <2>1, HistSame
<1>5. \/ pc' \in {"/proc", "prepare failed"}
      \/ pc = "links" /\ pc' = After(pc)
      \/ pc \in Beyond \ AfterRootRw /\ pc' \in Beyond \ AfterRootRw
      \/ pc \in AfterRootRw /\ pc' \in AfterRootRw
  <2>1. CASE Env \/ Retry
    BY <2>1 DEF Env, Retry, Goto, Beyond, AfterRootRw
  <2>2. CASE PrepareLinks
    BY <2>2, OrderSets DEF PrepareLinks, Goto, Fails
  <2>3. CASE TmpfsFirstBoot
    BY <2>3, AfterSteps DEF TmpfsFirstBoot, Goto, Beyond, AfterRootRw
  <2>4. CASE Generate \/ Touch \/ Echo \/ Commit \/ Cat
    BY <2>4 DEF Generate, Touch, Echo, Commit, Cat, Goto, AfterRootRw
  <2>5. CASE Bind \/ Rebind \/ Done \/ Umnt
    BY <2>5 DEF Bind, Rebind, Done, Umnt, BindId, Goto, AfterRootRw
  <2> QED
    BY <2>1, <2>2, <2>3, <2>4, <2>5
<1>6. pc' \in AfterRootRw => pc \in AfterRootRw
  BY <1>5, AfterSteps DEF AfterRootRw
<1>7. \A t \in Stops : PastAt(t, pc') => PastAt(t, pc)
  <2>1. CASE pc' \in {"/proc", "prepare failed"}
    <3>1. pc' \in {"off", "env", "/proc", "prepare failed", "sync"}
      BY <2>1
    <3> QED
      BY <3>1, PastPlaces
  <2>2. CASE pc = "links" /\ pc' = After(pc)
    BY <2>2, PastPlaces DEF Stops, Pseudo, Aux
  <2>3. CASE pc \in Beyond
    BY <2>3, PastPlaces
  <2> QED
    BY <1>5, <2>1, <2>2, <2>3 DEF Beyond
<1>8. ConfOK' /\ OneAtime' /\ RootKept'
  BY <1>1, <1>2, <1>4, <1>6, RootAlone
<1>9. Mounting'
  BY <1>1, <1>2, <1>3, <1>4, <1>7, MountingKept
<1> QED
  BY <1>8, <1>9

\* do_try leaves other mounts alone, and what it mounts with nosuid has it.
LEMMA TriedFlags ==
    ASSUME MountInv, NEW t \in Targets \ {IdFile}, NEW opts, do_try(t, opts)
    PROVE  /\ \A u \in Targets : u # t \/ tab[u] # <<>> => tab'[u] = tab[u]
           /\ hist'.want = hist.want /\ hist'.remounted = hist.remounted /\ hist'.left = hist.left
           /\ /\ opts \in Seq(OptNames) /\ "nosuid" \in Range(opts)
              /\ Range(opts) \cap Clears("nosuid") = {}
              /\ tab[t] = <<>> /\ tab'[t] # <<>>
              => "nosuid" \in tab'[t][1].flags
<1>1. TypeOK /\ HistOK
  BY DEF MountInv
<1>2. CASE do_is(t) /\ Goto(After(pc)) /\ UNCHANGED <<tab, faults, hist>>
  BY <1>1, <1>2, HistSame
<1>3. CASE ~do_is(t) /\ do_mount(t, opts, Goto(After(pc)), Fails)
  <2>1. tab[t] = <<>>
    BY <1>3 DEF do_is
  <2>2. PICK o \in do_mount_raw(NoMount, parse_mntopts(opts, Given({"silent"})), FALSE) :
            Faulty(o) /\ Push(t, o)
    BY <1>3 DEF do_mount
  <2>3. NoMount \in Mount
    BY DEF NoMount, Mount
  <2>4. o.mnt \in Mount /\ o.applied \in BOOLEAN /\ o.fault \in BOOLEAN
    BY <2>2, <2>3, RawOutcome
  <2>5. hist'.want = hist.want /\ hist'.remounted = hist.remounted /\ hist'.left = hist.left
    BY <1>1, <2>2, HistSame DEF Faulty
  <2>6. PICK m \in Mount : m = o.mnt
    BY <2>4
  <2>7. Append(<<>>, m) = <<m>>
    OBVIOUS
  <2>8. tab' = [tab EXCEPT ![t] = IF o.applied THEN <<m>> ELSE <<>>]
    BY <1>1, <2>1, <2>2, <2>6, <2>7, MountTypes DEF Push
  <2>9. /\ \A u \in Targets : u # t => tab'[u] = tab[u]
        /\ o.applied => tab'[t] = <<m>>
        /\ ~o.applied => tab'[t] = <<>>
    <3>1. tab \in [Targets -> Seq(Mount)]
      BY <1>1, MountTypes
    <3>2. CASE o.applied
      BY <2>8, <3>1, <3>2
    <3>3. CASE ~o.applied
      BY <2>8, <3>1, <3>3
    <3> QED
      BY <3>2, <3>3
  <2>10. ASSUME opts \in Seq(OptNames), "nosuid" \in Range(opts),
                Range(opts) \cap Clears("nosuid") = {}, tab'[t] # <<>>
         PROVE  "nosuid" \in tab'[t][1].flags
    <3>1. o.applied
      BY <2>4, <2>9, <2>10
    <3>2. PICK p : p = parse_mntopts(opts, Given({"silent"}))
      OBVIOUS
    <3>3. PICK acc \in ParseRec : acc = Given({"silent"})
      <4>1. {"silent"} \in SUBSET Flags
        BY DEF Flags
      <4>2. <<>> \in Seq(OptNames)
        OBVIOUS
      <4> QED
        BY <4>1, <4>2 DEF Given, ParseRec
    <3>4. "nosuid" \in MountFlags
      BY DEF MountFlags
    <3>5. "nosuid" \in Asked(opts, acc.flags)
      BY <2>10, <3>4, AskedRange
    <3>6. \A f \in MountFlags : f \in p.flags <=> f \in Asked(opts, acc.flags)
      <4>1. \A f \in Flags : f \in p.flags <=> Decides(opts, f, f \in acc.flags)
        BY <2>10, <3>2, <3>3, OptionsAsAsked
      <4> QED
        BY <4>1, OwnNames DEF Asked
    <3>7. "nosuid" \in p.flags
      BY <3>4, <3>5, <3>6
    <3>8. "nosuid" \in Applied(NoMount, p.flags).flags
      BY <3>4, <3>7 DEF Applied, NoMount
    <3>9. m.flags = Applied(NoMount, p.flags).flags
      <4>1. PICK h \in BOOLEAN : h = FALSE
        OBVIOUS
      <4>2. o \in do_mount_raw(NoMount, p, h)
        BY <2>2, <3>2, <4>1
      <4>3. o.applied => o.mnt.flags = Applied(NoMount, p.flags).flags
        BY <2>3, <4>2, RawResult
      <4> QED
        BY <2>6, <3>1, <4>3
    <3>10. tab'[t][1] = m
      BY <2>9, <3>1
    <3> QED
      BY <3>8, <3>9, <3>10
  <2> QED
    BY <2>1, <2>5, <2>9, <2>10
<1> QED
  BY <1>2, <1>3 DEF do_try

\* The pseudo-filesystems are mounted with nosuid, the options of /proc and
\* /sys may be cut short.
LEMMA PseudoOpts ==
    ASSUME MountInv, pc \in Pseudo
    PROVE  /\ Opts(pc) \in Seq(OptNames) /\ "nosuid" \in Range(Opts(pc))
           /\ Range(Opts(pc)) \cap Clears("nosuid") = {}
<1>1. procsys \in {<<"nosuid">>, <<"nosuid", "noexec", "nodev">>}
  <2>1. pc \in Prepare
    BY OrderSets DEF Pseudo
  <2> QED
    BY <2>1 DEF MountInv, TypeOK, Stages
<1>2. Opts(pc) \in {<<"nosuid">>, <<"nosuid", "noexec", "nodev">>, <<"mode", "nosuid">>,
                    <<"mode", "nosuid", "noexec">>, <<"mode", "nosuid", "nodev">>}
  BY <1>1 DEF Opts, Pseudo, ProcSys
<1>3. "nosuid" \in OptNames /\ "noexec" \in OptNames /\ "nodev" \in OptNames /\ "mode" \in OptNames
  BY DEF OptNames
<1>4. Clears("nosuid") = {"defaults", "suid"}
  BY Speaks
<1>5. ASSUME NEW s \in {<<"nosuid">>, <<"nosuid", "noexec", "nodev">>, <<"mode", "nosuid">>,
                        <<"mode", "nosuid", "noexec">>, <<"mode", "nosuid", "nodev">>}
      PROVE  s \in Seq(OptNames) /\ "nosuid" \in Range(s) /\ Range(s) \cap {"defaults", "suid"} = {}
  <2>1. CASE s = <<"nosuid">>
    BY <1>3, <2>1 DEF Range
  <2>2. CASE s = <<"nosuid", "noexec", "nodev">>
    BY <1>3, <2>2 DEF Range
  <2>3. CASE s = <<"mode", "nosuid">>
    BY <1>3, <2>3 DEF Range
  <2>4. CASE s = <<"mode", "nosuid", "noexec">>
    BY <1>3, <2>4 DEF Range
  <2>5. CASE s = <<"mode", "nosuid", "nodev">>
    BY <1>3, <2>5 DEF Range
  <2> QED
    BY <2>1, <2>2, <2>3, <2>4, <2>5
<1> QED
  BY <1>2, <1>4, <1>5

\* A pseudo-filesystem, or /run.
LEMMA RootFilesystems ==
    ASSUME RootInv, PrepareMount \/ Tmpfs
    PROVE  ConfOK' /\ OneAtime' /\ RootKept' /\ Mounting'
<1>1. ConfOK /\ OneAtime /\ RootKept /\ Mounting /\ HistOK /\ TypeOK /\ MountInv
  BY DEF RootInv, MountInv
<1>2. conf' = conf /\ root' = root /\ pc \in Pseudo \cup Aux \cup {"/run", "/run/user"}
  BY DEF PrepareMount, Tmpfs
<1>3. pc \in Targets \ {IdFile} /\ Pseudo \cup Aux \subseteq Targets
  BY <1>2 DEF Pseudo, Aux, Targets, IdFile
<1>4. /\ hist'.want = hist.want /\ hist'.remounted = hist.remounted /\ hist'.left = hist.left
      /\ \A u \in Targets : u # pc \/ tab[u] # <<>> => tab'[u] = tab[u]
      /\ pc \in Pseudo /\ tab[pc] = <<>> /\ tab'[pc] # <<>> => "nosuid" \in tab'[pc][1].flags
      /\ Fails \/ (Goto(After(pc)) /\ (tab'[pc] # <<>> \/ (pc \in Aux /\ ~conf.dirs)))
  <2>1. CASE pc \in Aux /\ ~conf.dirs /\ Goto(After(pc)) /\ UNCHANGED <<tab, faults, hist>>
    BY <1>1, <2>1, HistSame DEF Pseudo, Aux
  <2>2. CASE do_try(pc, Opts(pc))
    <3>1. /\ \A u \in Targets : u # pc \/ tab[u] # <<>> => tab'[u] = tab[u]
          /\ hist'.want = hist.want /\ hist'.remounted = hist.remounted /\ hist'.left = hist.left
          /\ /\ Opts(pc) \in Seq(OptNames) /\ "nosuid" \in Range(Opts(pc))
             /\ Range(Opts(pc)) \cap Clears("nosuid") = {}
             /\ tab[pc] = <<>> /\ tab'[pc] # <<>>
             => "nosuid" \in tab'[pc][1].flags
      BY <1>1, <1>3, <2>2, TriedFlags
    <3>2. Fails \/ (Goto(After(pc)) /\ tab'[pc] # <<>>)
      BY <1>1, <1>3, <2>2, Tried
    <3> QED
      BY <1>1, <3>1, <3>2, PseudoOpts
  <2> QED
    BY <2>1, <2>2 DEF PrepareMount, Tmpfs
<1>5. pc' \notin AfterRootRw
  BY <1>2, <1>4, AfterSteps DEF Fails, Goto, Pseudo, Aux, AfterRootRw
<1>6. ConfOK' /\ OneAtime' /\ RootKept'
  BY <1>1, <1>2, <1>4, <1>5, RootAlone
<1>7. ASSUME NEW t \in Stops, PastAt(t, pc')
      PROVE  PastAt(t, pc) \/ (t = pc /\ (tab'[pc] # <<>> \/ (pc \in Aux /\ ~conf.dirs)))
  <2>1. CASE pc \in {"/run", "/run/user"}
    BY <2>1, PastPlaces DEF Beyond
  <2>2. CASE pc \in Pseudo \cup Aux
    <3>1. pc \in Prepare
      BY <2>2, OrderSets DEF Pseudo, Aux
    <3>2. CASE Fails
      BY <1>7, <3>1, <3>2, PastPlaces DEF Fails, Goto
    <3>3. CASE Goto(After(pc)) /\ (tab'[pc] # <<>> \/ (pc \in Aux /\ ~conf.dirs))
      BY <1>7, <2>2, <3>3, PastPlaces DEF Goto, Stops
    <3> QED
      BY <1>4, <3>2, <3>3
  <2> QED
    BY <1>2, <2>1, <2>2
<1>8. \A t \in Pseudo \cup Aux : tab[t] # <<>> => tab'[t] = tab[t]
  BY <1>3, <1>4
<1>9. \A t \in Pseudo : t \notin hist'.left /\ tab'[t] # <<>> => "nosuid" \in tab'[t][1].flags
  <2>1. ASSUME NEW t \in Pseudo, t \notin hist'.left, tab'[t] # <<>> PROVE "nosuid" \in tab'[t][1].flags
    <3>1. CASE tab[t] # <<>> \/ t # pc
      <4>1. tab'[t] = tab[t]
        BY <1>3, <1>4, <3>1
      <4> QED
        BY <1>1, <1>4, <2>1, <4>1 DEF Mounting
    <3>2. CASE tab[t] = <<>> /\ t = pc
      BY <1>4, <2>1, <3>2
    <3> QED
      BY <3>1, <3>2
  <2> QED
    BY <2>1
<1>10. \A t \in Pseudo : PastAt(t, pc') => tab'[t] # <<>>
  <2>1. ASSUME NEW t \in Pseudo, PastAt(t, pc') PROVE tab'[t] # <<>>
    <3>1. t \in Stops /\ t \notin Aux
      BY DEF Stops, Pseudo, Aux
    <3>2. CASE PastAt(t, pc)
      BY <1>1, <1>8, <3>2 DEF Mounting, Past
    <3>3. CASE t = pc /\ tab'[pc] # <<>>
      BY <3>3
    <3> QED
      BY <1>7, <2>1, <3>1, <3>2, <3>3
  <2> QED
    BY <2>1
<1>11. conf.dirs => \A t \in Aux : PastAt(t, pc') => tab'[t] # <<>>
  <2>1. ASSUME conf.dirs, NEW t \in Aux, PastAt(t, pc') PROVE tab'[t] # <<>>
    <3>1. t \in Stops
      BY DEF Stops
    <3>2. CASE PastAt(t, pc)
      BY <1>1, <1>8, <2>1, <3>2 DEF Mounting, Past
    <3>3. CASE t = pc /\ tab'[pc] # <<>>
      BY <3>3
    <3> QED
      BY <1>7, <2>1, <3>1, <3>2, <3>3
  <2> QED
    BY <2>1
<1>12. PastAt("/", pc') /\ "rshared" \in Range(conf.opts) /\ ~conf.helper => root.shared
  <2>1. "/" \in Stops /\ "/" # pc
    BY <1>2 DEF Stops, Pseudo, Aux
  <2>2. PastAt("/", pc') => PastAt("/", pc)
    BY <1>7, <2>1
  <2> QED
    BY <1>1, <2>2 DEF Mounting, Past
<1>13. Mounting'
  BY <1>2, <1>9, <1>10, <1>11, <1>12 DEF Mounting, Past
<1> QED
  BY <1>6, <1>13

\* A remount of / that keeps what it should: it is done, or / is left alone.
LEMMA Remounting ==
    ASSUME TypeOK, HistOK, RootKept, OneAtime, NEW p, NEW wanted, NEW ok, NEW fails,
           RemountRoot(p, wanted, ok, fails),
           Applied(root, p.flags).flags \ {"ro"} = wanted \ {"ro"},
           ~(Atime \subseteq Applied(root, p.flags).flags)
    PROVE  /\ root'.flags \ {"ro"} = hist'.want /\ ~(Atime \subseteq root'.flags)
           /\ hist'.remounted => root'.flags = Applied(root, p.flags).flags
           /\ root.shared => root'.shared
           /\ hist'.left = hist.left
           /\ ~conf.helper /\ "shared" \in p.flags => root'.shared \/ fails
<1>1. PICK o \in do_mount_raw(root, p, conf.helper) :
        /\ root' = o.mnt
        /\ hist' = [hist EXCEPT !.faulty = @ \/ o.fault, !.remounted = (o.ret = 0 /\ o.applied),
                                !.want = IF o.applied THEN wanted \ {"ro"} ELSE @]
        /\ IF o.ret = 0 THEN ok ELSE fails
  BY DEF RemountRoot
<1>2. root \in Mount /\ conf.helper \in BOOLEAN
  BY MountTypes
<1>3. o.applied \in BOOLEAN
  BY <1>1, <1>2, RawOutcome
<1>4. /\ o.applied => o.mnt.flags = Applied(root, p.flags).flags
      /\ ~o.applied => o.mnt = root
      /\ root.shared => o.mnt.shared
      /\ ~conf.helper /\ o.ret = 0 /\ "shared" \in p.flags => o.mnt.shared
  BY <1>1, <1>2, RawResult
<1>5. /\ hist'.want = (IF o.applied THEN wanted \ {"ro"} ELSE hist.want)
      /\ hist'.remounted = (o.ret = 0 /\ o.applied) /\ hist'.left = hist.left
  BY <1>1 DEF HistOK
<1>6. root.flags \ {"ro"} = hist.want /\ ~(Atime \subseteq root.flags)
  BY DEF RootKept, OneAtime
<1>7. root'.flags \ {"ro"} = hist'.want /\ ~(Atime \subseteq root'.flags)
  BY <1>1, <1>3, <1>4, <1>5, <1>6
<1>8. hist'.remounted => root'.flags = Applied(root, p.flags).flags
  BY <1>1, <1>4, <1>5
<1>9. ~conf.helper /\ "shared" \in p.flags => root'.shared \/ fails
  BY <1>1, <1>4
<1> QED
  BY <1>1, <1>4, <1>5, <1>7, <1>8, <1>9

\* The remount by `mnt prepare`.
LEMMA RootPrepared ==
    ASSUME RootInv, PrepareRoot
    PROVE  ConfOK' /\ OneAtime' /\ RootKept' /\ Mounting'
<1>1. ConfOK /\ OneAtime /\ RootKept /\ Mounting /\ HistOK /\ TypeOK
  BY DEF RootInv, MountInv
<1>2. PICK opts \in Seq(RootNames) : opts = conf.opts
  BY <1>1, Options
<1>3. /\ pc = "/" /\ conf' = conf /\ tab' = tab
      /\ RemountRoot(Remounted(opts), Asked(opts, root.flags), Goto(After(pc)), Fails)
  BY <1>2 DEF PrepareRoot
<1>4. /\ Applied(root, Remounted(opts).flags).flags = Asked(opts, root.flags)
      /\ "shared" \in Remounted(opts).flags <=> "rshared" \in Range(opts)
  BY <1>1, RemountFlags
<1>5. ~(Atime \subseteq Asked(opts, root.flags))
  BY <1>1, AskedSame DEF OneAtime
<1>6. /\ root'.flags \ {"ro"} = hist'.want /\ ~(Atime \subseteq root'.flags)
      /\ root.shared => root'.shared
      /\ hist'.left = hist.left
      /\ ~conf.helper /\ "rshared" \in Range(opts) => root'.shared \/ Fails
  BY <1>1, <1>3, <1>4, <1>5, Remounting
<1>7. Goto(After(pc)) \/ Fails
  BY <1>1, <1>3, RootRemounted
<1>8. pc' = "/sys" \/ pc' = "prepare failed"
  BY <1>3, <1>7, AfterSteps, OrderSets DEF Fails, Goto
<1>9. ConfOK' /\ OneAtime'
  BY <1>1, <1>3, <1>6 DEF ConfOK, OneAtime
<1>10. RootKept'
  <2>1. pc' \notin AfterRootRw
    BY <1>8 DEF AfterRootRw
  <2> QED
    BY <1>6, <2>1 DEF RootKept
<1>11. CASE Fails
  <2>1. pc' = "prepare failed"
    BY <1>3, <1>11, OrderSets DEF Fails, Goto
  <2>2. \A t \in Stops : ~PastAt(t, pc')
    BY <2>1, PastPlaces
  <2>3. Mounting'
    BY <1>1, <1>3, <1>6, <2>2, MountingKept
  <2> QED
    BY <1>9, <1>10, <2>3
<1>12. CASE ~Fails
  <2>1. pc' = After(pc) /\ "/" \in Stops
    BY <1>7, <1>12 DEF Goto, Stops
  <2>2. \A t \in Stops : PastAt(t, pc') => t = "/" \/ PastAt(t, pc)
    BY <1>3, <2>1, PastPlaces
  <2>3. "/" \notin Pseudo /\ "/" \notin Aux
    BY DEF Pseudo, Aux
  <2>4. \A t \in Pseudo : t \notin hist'.left /\ tab'[t] # <<>> => "nosuid" \in tab'[t][1].flags
    BY <1>1, <1>3, <1>6 DEF Mounting
  <2>5. \A t \in Pseudo : PastAt(t, pc') => tab'[t] # <<>>
    BY <1>1, <1>3, <2>2, <2>3 DEF Mounting, Past, Stops
  <2>6. conf.dirs => \A t \in Aux : PastAt(t, pc') => tab'[t] # <<>>
    BY <1>1, <1>3, <2>2, <2>3 DEF Mounting, Past, Stops
  <2>7. "rshared" \in Range(conf.opts) /\ ~conf.helper => root'.shared
    BY <1>2, <1>6, <1>12
  <2>8. Mounting'
    BY <1>3, <2>4, <2>5, <2>6, <2>7 DEF Mounting, Past
  <2> QED
    BY <1>9, <1>10, <2>8
<1> QED
  BY <1>11, <1>12

\* root-rw.
LEMMA RootWritable ==
    ASSUME RootInv, RootRw
    PROVE  ConfOK' /\ OneAtime' /\ RootKept' /\ Mounting'
<1>1. ConfOK /\ OneAtime /\ RootKept /\ Mounting /\ HistOK /\ TypeOK
  BY DEF RootInv, MountInv
<1>2. /\ pc = "root-rw" /\ pc' = "generate" /\ conf' = conf /\ tab' = tab
      /\ RemountRoot(RootRwFlags, RootRwWanted, TRUE, TRUE)
  BY AfterSteps DEF RootRw, Goto
<1>3. PICK p : p = RootRwFlags
  OBVIOUS
<1>4. /\ Applied(root, p.flags).flags \ {"ro"} = RootRwWanted \ {"ro"}
      /\ ~(Atime \subseteq Applied(root, p.flags).flags)
      /\ "ro" \notin Applied(root, p.flags).flags <=>
             conf.fstab = NoEntry \/ "ro" \notin Asked(conf.fstab, {})
  <2>1. CASE conf.fstab = NoEntry
    <3>1. p = [Remounted(<<>>) EXCEPT !.flags = @ \ {"ro"}] /\ RootRwWanted = root.flags
      BY <1>3, <2>1 DEF RootRwFlags, RootRwWanted
    <3>2. Applied(root, p.flags).flags = root.flags \ {"ro"}
      BY <1>1, <3>1, NoEntryFlags
    <3>3. ~(Atime \subseteq root.flags \ {"ro"})
      BY <1>1 DEF OneAtime
    <3> QED
      BY <2>1, <3>1, <3>2, <3>3
  <2>2. CASE conf.fstab # NoEntry
    <3>1. PICK opts \in Seq(RootNames) : opts = conf.fstab
      BY <1>1, <2>2, Options
    <3>2. /\ p = parse_mntopts(opts, Given({"silent", "remount"}))
          /\ RootRwWanted = Asked(opts, root.flags \cap Atime)
      BY <1>3, <2>2, <3>1 DEF RootRwFlags, RootRwWanted
    <3>3. /\ Applied(root, p.flags).flags = Asked(opts, root.flags \cap Atime)
          /\ "ro" \in Applied(root, p.flags).flags <=> "ro" \in Asked(opts, {})
      BY <1>1, <3>2, FstabFlags
    <3>4. ~(Atime \subseteq root.flags \cap Atime)
      BY <1>1 DEF OneAtime
    <3>5. ~(Atime \subseteq Asked(opts, root.flags \cap Atime))
      BY <3>4, AskedSame
    <3> QED
      BY <2>2, <3>1, <3>2, <3>3, <3>5
  <2> QED
    BY <2>1, <2>2
<1>5. /\ root'.flags \ {"ro"} = hist'.want /\ ~(Atime \subseteq root'.flags)
      /\ hist'.remounted => root'.flags = Applied(root, p.flags).flags
      /\ root.shared => root'.shared
      /\ hist'.left = hist.left
  BY <1>1, <1>2, <1>3, <1>4, Remounting
<1>6. ConfOK' /\ OneAtime'
  BY <1>1, <1>2, <1>5 DEF ConfOK, OneAtime
<1>7. RootKept'
  BY <1>2, <1>4, <1>5 DEF RootKept, Writable
<1>8. \A t \in Stops : PastAt(t, pc)
  BY <1>2, PastPlaces DEF Beyond
<1>9. Mounting'
  BY <1>1, <1>2, <1>5, <1>8, MountingKept
<1> QED
  BY <1>6, <1>7, <1>9

\* The remount at shutdown.
LEMMA RootShutdown ==
    ASSUME RootInv, Shutdown
    PROVE  ConfOK' /\ OneAtime' /\ RootKept' /\ Mounting'
<1>1. ConfOK /\ OneAtime /\ RootKept /\ Mounting /\ HistOK /\ TypeOK
  BY DEF RootInv, MountInv
<1>2. pc' = "sync" /\ conf' = conf /\ tab' = tab
  BY DEF Shutdown, Goto
<1>3. pc' \notin AfterRootRw /\ \A t \in Stops : ~PastAt(t, pc')
  BY <1>2, PastPlaces DEF AfterRootRw
<1>4. PICK opts \in Seq(RootNames) : opts = <<"ro">>
  <2>1. "ro" \in RootNames
    BY DEF RootNames, OtherUses, OptNames
  <2>2. <<"ro">> \in Seq(RootNames)
    BY <2>1
  <2> QED
    BY <2>2
<1>5. /\ root'.flags \ {"ro"} = hist'.want /\ ~(Atime \subseteq root'.flags)
      /\ root.shared => root'.shared
      /\ hist'.left = hist.left
  <2>1. CASE UNCHANGED <<root, faults, hist>>
    BY <1>1, <2>1 DEF RootKept, OneAtime
  <2>2. CASE RemountRoot(Remounted(opts), Asked(opts, root.flags), TRUE, TRUE)
    <3>1. Applied(root, Remounted(opts).flags).flags = Asked(opts, root.flags)
      BY <1>1, RemountFlags
    <3>2. ~(Atime \subseteq Asked(opts, root.flags))
      BY <1>1, AskedSame DEF OneAtime
    <3> QED
      BY <1>1, <2>2, <3>1, <3>2, Remounting
  <2> QED
    BY <1>4, <2>1, <2>2 DEF Shutdown
<1>6. ConfOK' /\ OneAtime'
  BY <1>1, <1>2, <1>5 DEF ConfOK, OneAtime
<1>7. RootKept'
  BY <1>3, <1>5 DEF RootKept
<1>8. Mounting'
  BY <1>1, <1>2, <1>3, <1>5, MountingKept
<1> QED
  BY <1>6, <1>7, <1>8

\* Every step keeps the invariant.
LEMMA RootNext == RootInv /\ [Next]_vars => RootInv'
<1> SUFFICES ASSUME RootInv, [Next]_vars PROVE RootInv'
  OBVIOUS
<1>1. MountInv'
  BY MountNext DEF RootInv
<1>2. ConfOK' /\ OneAtime' /\ RootKept' /\ Mounting'
  <2>1. CASE Boot \/ Crash \/ Sync
    BY <2>1, RootBoots DEF Crash, Sync
  <2>2. CASE PrepareMount \/ Tmpfs
    BY <2>2, RootFilesystems
  <2>3. CASE PrepareRoot
    BY <2>3, RootPrepared
  <2>4. CASE RootRw
    BY <2>4, RootWritable
  <2>5. CASE Shutdown
    BY <2>5, RootShutdown
  <2>6. CASE \/ Env \/ Retry \/ PrepareLinks \/ TmpfsFirstBoot
             \/ Generate \/ Touch \/ Echo \/ Bind
             \/ Done \/ Umnt \/ Commit \/ Cat \/ Rebind
    BY <2>6, RootOthers
  <2>7. CASE UNCHANGED vars
    <3>1. UNCHANGED <<conf, pc, tab, root, hist>>
      BY <2>7 DEF vars, mounts
    <3>2. ConfOK /\ OneAtime /\ RootKept /\ Mounting
      BY DEF RootInv
    <3>3. ConfOK' /\ OneAtime' /\ RootKept'
      BY <3>1, <3>2, RootAlone
    <3>4. Mounting'
      BY <3>1, <3>2, MountingKept
    <3> QED
      BY <3>3, <3>4
  <2> QED
    BY <2>1, <2>2, <2>3, <2>4, <2>5, <2>6, <2>7 DEF Next
<1> QED
  BY <1>1, <1>2 DEF RootInv

\* The invariant holds in every state.
LEMMA RootInvariance == Spec => []RootInv
BY RootInit, RootNext, PTL DEF Spec

\* The remounts of / change what they are asked to and keep the rest, and once
\* root-rw has succeeded / is writable unless fstab says otherwise: do_remount,
\* parse_mntopts and do_root_rw, for any options of fstab and of the kernel's
\* command line but those of OtherUses, over any number of boots, failures and
\* restarts.
THEOREM RootFlagsKept == Spec => []RootKept
<1>1. RootInv => RootKept
  BY DEF RootInv
<1> QED
  BY <1>1, RootInvariance, PTL

\* When do_prepare has ended well, and not before, the boot goes on: all
\* pseudo-filesystems are mounted, those of its first part that it mounted itself
\* without set-uid bits (do_try takes what the initramfs left as it is), and /
\* propagates if that was asked for, whatever failed or was started again.
THEOREM PreparedIsMounted == Spec => []PreparedMeansMounted
<1>1. RootInv => PreparedMeansMounted
  <2> SUFFICES ASSUME RootInv, Prepared
               PROVE  /\ \A t \in Pseudo : tab[t] # <<>>
                      /\ \A t \in Pseudo \ hist.left : "nosuid" \in tab[t][1].flags
                      /\ conf.dirs => \A t \in Aux : tab[t] # <<>>
                      /\ "rshared" \in Range(conf.opts) /\ ~conf.helper => root.shared
    BY DEF PreparedMeansMounted
  <2>1. \A t \in Stops : Todo(t) \subseteq Prepare
    BY TodoSets, OrderSets DEF Stops, Pseudo, Aux
  <2>2. \A t \in Stops : Past(t)
    BY <2>1 DEF Prepared, Past, PastAt
  <2> QED
    BY <2>2 DEF RootInv, Mounting, Stops
<1> QED
  BY <1>1, RootInvariance, PTL
=============================================================================
