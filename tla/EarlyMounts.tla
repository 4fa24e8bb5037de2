---------------------------- MODULE EarlyMounts -----------------------------
(***************************************************************************)
(* What mnt (src/early/helpers/mnt.cc) and the scripts that call it make   *)
(* of the mounts and of /etc/machine-id, over several boots:               *)
(*                                                                         *)
(*   env.sh         is this the first boot?                                *)
(*   pseudofs.sh    mnt prepare: /proc, the remount of /, /sys, /dev, ...  *)
(*   tmpfs.sh       /run, /run/user                                        *)
(*   root-rw.sh     mnt root-rw                                            *)
(*   machine-id.sh  an id in /run, bound over /etc/machine-id              *)
(*   done.sh        the id is committed to the disk                        *)
(*   shutdown-hook  / is remounted read-only, sync                         *)
(*                                                                         *)
(* The dependencies of the services make them run one after the other; a   *)
(* step is a system call, or a mount with all its fallbacks.  Any of them  *)
(* may fail, and the machine may crash between two of them: it then comes  *)
(* up with one of the contents the file had since the last sync.  The id   *)
(* that a boot generates is the number of the boot.                        *)
(***************************************************************************)
EXTENDS Naturals, Sequences, SequencesExt

CONSTANTS
    FstabRoot,  \* options of / in /etc/fstab; NoEntry: not listed
    NoEntry,
    RootOpts,   \* values of dinit_early_root_remount: sequences of options
    RootFlags,  \* flags / may have when init starts
    Initramfs,  \* what the initramfs may have left mounted: functions from
                \* targets to the flags of their mounts
    Absent, Empty, Uninitialized,  \* contents of the files that are no id
    MaxBoots,   \* bound: boots
    MaxFaults   \* bound: system calls and helpers that fail

ASSUME MountAssumption ==
    /\ MaxBoots \in Nat /\ MaxFaults \in Nat
    /\ Absent \notin 1..MaxBoots /\ Empty \notin 1..MaxBoots
    /\ Uninitialized \notin 1..MaxBoots
    /\ Absent # Empty /\ Absent # Uninitialized /\ Empty # Uninitialized
    /\ RootFlags \subseteq SUBSET {"ro", "nosuid", "nodev", "noexec", "noatime", "relatime"}
    /\ \A fl \in RootFlags : ~({"noatime", "relatime"} \subseteq fl)
    /\ \A left \in Initramfs :
        /\ "/etc/machine-id" \notin DOMAIN left
        /\ \A t \in DOMAIN left :
            left[t] \subseteq {"ro", "nosuid", "nodev", "noexec", "noatime", "relatime"}

VARIABLES
    conf,     \* the machine: [fstab, opts, helper, dirs]
    pc,       \* the step that is next
    tab,      \* /proc/self/mounts: the mounts stacked on each target
    root,     \* the mount of /
    procsys,  \* do_prepare's buffer procsys_opts
    first,    \* /run/dinit/first-boot exists
    runId,    \* /run/dinit/machine-id
    etc,      \* /etc/machine-id, as the root filesystem has it
    disk,     \* what a crash may leave of it
    boots, faults,
    hist      \* history of this boot, used by the properties only

ids == <<first, runId, etc, disk>>
mounts == <<tab, root>>
vars == <<conf, pc, mounts, procsys, ids, boots, faults, hist>>

-----------------------------------------------------------------------------
(* Data *)

Pseudo == {"/proc", "/sys", "/dev", "/dev/pts", "/dev/shm"}
\* (/sys/fs/selinux, which comes last, is like the first of these)
Aux == {"/sys/kernel/security", "/sys/firmware/efi/efivars"}
IdFile == "/etc/machine-id"
Targets == Pseudo \cup Aux \cup {"/run", "/run/user", IdFile}

\* The steps of do_prepare, tmpfs.sh and root-rw.sh
Order == <<"/proc", "/", "/sys", "/dev", "/dev/pts", "/dev/shm", "links",
           "/sys/kernel/security", "/sys/firmware/efi/efivars", "/run",
           "/run/user", "first", "root-rw", "generate">>
Place(p) == CHOOSE i \in DOMAIN Order : Order[i] = p
After(p) == Order[Place(p) + 1]
Prepare == {Order[i] : i \in 1..9}

Ids == 1..MaxBoots
Content == {Absent, Empty, Uninitialized} \cup Ids
Places == {"off", "env", "prepare failed", "tmpfs failed", "touch", "echo",
           "bind", "done", "umnt", "commit", "cat", "rebind", "up", "sync"}
              \cup Range(Order)

MountFlags == {"ro", "nosuid", "nodev", "noexec"}
Atime == {"noatime", "relatime"}
Mount == [flags : SUBSET (MountFlags \cup Atime), shared : BOOLEAN]
NoMount == [flags |-> {}, shared |-> FALSE]

-----------------------------------------------------------------------------
(* Mount options.  A flag MS_X is "x".                                     *)

TMask == {"bind", "move", "remount"}
Row(name, mask, set, invert) ==
    [name |-> name, mask |-> mask, set |-> set, invert |-> invert]
Sets(x) == Row(x, {x}, {x}, FALSE)
SetsRec(x, flag) == Row(x, {flag}, {flag, "rec"}, FALSE)
Resets(x, flag) == Row(x, {flag}, {flag}, TRUE)
known_opts ==
    <<Resets("async", "sync"), Row("atime", Atime, {"noatime"}, TRUE),
      Row("bind", TMask, {"bind"}, FALSE), Resets("dev", "nodev"),
      Resets("diratime", "nodiratime"), Sets("dirsync"), Resets("exec", "noexec"),
      Sets("iversion"), Sets("lazytime"), Resets("loud", "silent"), Sets("mand"),
      Row("move", TMask, {"move"}, FALSE), Row("noatime", Atime, {"noatime"}, FALSE),
      Sets("nodev"), Sets("nodiratime"), Sets("noexec"), Resets("noiversion", "iversion"),
      Resets("nolazytime", "lazytime"), Resets("nomand", "mand"),
      Row("norelatime", Atime, {"relatime"}, TRUE), Resets("nostrictatime", "strictatime"),
      Sets("nosuid"), Sets("nosymfollow"), Sets("private"),
      Row("rbind", TMask, {"bind", "rec"}, FALSE), Row("relatime", Atime, {"relatime"}, FALSE),
      Row("remount", TMask, {"remount"}, FALSE), Sets("ro"), SetsRec("rprivate", "private"),
      SetsRec("rshared", "shared"), SetsRec("rslave", "slave"),
      SetsRec("runbindable", "unbindable"), Resets("rw", "ro"), Sets("silent"),
      Sets("shared"), Sets("slave"), Sets("strictatime"), Resets("suid", "nosuid"),
      Resets("symfollow", "nosymfollow"), Sets("sync"), Sets("unbindable")>>

\* The names that occur, in the order of strcmp: those of the table (which is
\* in this order but for "shared"), "defaults", and three for the filesystems
Alphabet ==
    <<"async", "atime", "bind", "defaults", "dev", "diratime", "dirsync", "errors",
      "exec", "iversion", "lazytime", "loud", "mand", "mode", "move", "noatime",
      "nodev", "nodiratime", "noexec", "noiversion", "nolazytime", "nomand",
      "norelatime", "nostrictatime", "nosuid", "nosymfollow", "private", "rbind",
      "relatime", "remount", "ro", "rprivate", "rshared", "rslave", "runbindable",
      "rw", "shared", "silent", "size", "slave", "strictatime", "suid", "symfollow",
      "sync", "unbindable">>

\* Options of / that are left out: those that make something else of a remount,
\* those that propagate in another way, and those on whose flags the kernel
\* changes its mind about atime
OtherUses == {"bind", "move", "rbind", "private", "rprivate", "slave", "rslave",
              "unbindable", "runbindable", "atime", "norelatime", "strictatime",
              "nostrictatime", "diratime", "nodiratime"}
ASSUME OptionAssumption ==
    /\ RootOpts \subseteq Seq(Range(Alphabet) \ OtherUses)
    /\ FstabRoot \subseteq Seq(Range(Alphabet) \ OtherUses) \cup {NoEntry}
Rank == [o \in Range(Alphabet) |-> CHOOSE i \in DOMAIN Alphabet : Alphabet[i] = o]

\* The search goes down the table and ends at the first name that is greater.
Matching ==
    [o \in Range(Alphabet) |->
        {i \in DOMAIN known_opts :
            /\ known_opts[i].name = o
            /\ \A j \in 1..(i - 1) : Rank[known_opts[j].name] < Rank[o]}]

\* One turn of parse_mntopts' loop: the flags, and what is for the filesystem
ParseOpt(acc, o) ==
    IF Matching[o] # {}
    THEN LET r == known_opts[CHOOSE i \in Matching[o] : TRUE]
             kept == acc.flags \ r.mask
         IN  [acc EXCEPT !.flags = IF r.invert THEN kept \ r.set ELSE kept \cup r.set]
    ELSE IF o = "defaults"
    THEN [acc EXCEPT !.flags = @ \ (MountFlags \cup {"sync"})]
    ELSE [acc EXCEPT !.eopts = Append(@, o)]

parse_mntopts(opts, acc) ==
    LET parsed[i \in 0..Len(opts)] ==
            IF i = 0 THEN acc ELSE ParseOpt(parsed[i - 1], opts[i])
    IN  parsed[Len(opts)]
Given(flags) == [flags |-> flags, eopts |-> <<>>]

\* How /proc/self/mounts shows a mount
Shown(m) == SetToSeq(m.flags) \o (IF "ro" \in m.flags THEN <<>> ELSE <<"rw">>)

-----------------------------------------------------------------------------
(* mount(2) and do_mount_raw *)

\* Options that are not the kernel's: what filesystems accept
FsAccepts(eopts) == Range(eopts) \subseteq {"errors", "mode", "size"}

\* The mount after mount(2): a remount that says nothing of atime keeps it.
Applied(old, flags) ==
    [old EXCEPT !.flags =
        (flags \cap MountFlags) \cup
        (IF flags \cap Atime # {} THEN flags \cap Atime
         ELSE IF "remount" \in flags THEN old.flags \cap Atime ELSE {"relatime"})]

\* What has come of it: the mount, whether it is new, the status returned (a
\* helper's exit status is not), whether something failed
Outcome(m, applied, ret, fault) ==
    [mnt |-> m, applied |-> applied, ret |-> ret, fault |-> fault]

\* All that may come of do_mount_raw: the propagation is a second mount(2),
\* after the first; a filesystem's helper is tried when mount(2) fails, and
\* counts as a success however it ends.
do_mount_raw(old, p, helper) ==
    LET new == Applied(old, p.flags)
        propagate == "shared" \in p.flags
        ok == FsAccepts(p.eopts)
        mounted == {Outcome([new EXCEPT !.shared = @ \/ propagate], TRUE, 0, FALSE)}
        unshared == {Outcome(new, TRUE, 1, TRUE)}
        refused == {Outcome(old, FALSE, 1, ok \/ helper)}
        helped == {Outcome(new, TRUE, 0, ok), Outcome(old, FALSE, 0, TRUE)}
    IN  (IF ok THEN mounted ELSE {}) \cup (IF ok /\ propagate THEN unshared ELSE {})
        \cup refused \cup (IF helper THEN helped ELSE {})

\* A fault counts against the bound.
Count(o) ==
    /\ o.fault => faults < MaxFaults
    /\ faults' = IF o.fault THEN faults + 1 ELSE faults

-----------------------------------------------------------------------------
(* do_is, do_try, do_try_maybe *)

\* Without /proc, from the device and the inode of the directory; a file
\* that is bound over cannot be told.
do_is(t) == tab[t] # <<>> /\ (tab["/proc"] # <<>> \/ t # IdFile)

Goto(p) == pc' = p

\* (Mutant: a failed mount does not end the helper.)
Fails_GoesOn == Goto(After(pc))
Fails == Goto(IF pc \in Prepare THEN "prepare failed" ELSE "tmpfs failed")

Push(t, o) == tab' = [tab EXCEPT ![t] = IF o.applied THEN Append(@, o.mnt) ELSE @]
Faulty(o) == hist' = [hist EXCEPT !.faulty = @ \/ o.fault]

do_mount(t, opts, ok, fails) ==
    \E o \in do_mount_raw(NoMount, parse_mntopts(opts, Given({"silent"})), FALSE) :
        /\ Count(o) /\ Faulty(o)
        /\ Push(t, o)
        /\ IF o.ret = 0 THEN ok ELSE fails

\* (Mutant: it is mounted without a look.)
do_try_Blind(t, opts) == do_mount(t, opts, Goto(After(pc)), Fails)
do_try(t, opts) ==
    \/ /\ do_is(t)
       /\ Goto(After(pc))
       /\ UNCHANGED <<tab, faults, hist>>
    \/ ~do_is(t) /\ do_mount(t, opts, Goto(After(pc)), Fails)

\* What strsep leaves of a buffer that parse_mntopts went through: its first
\* option.  procsys_opts is parsed up to three times.
\* (Mutant: the options that follow the first.)
Parsed_Rest(opts) == Tail(opts)
Parsed(opts) == <<Head(opts)>>
ProcSys == {"/proc", "/sys", "/sys/firmware/efi/efivars"}
Opts(t) == CASE t \in ProcSys -> procsys
             [] t = "/sys/kernel/security" -> <<>>
             [] t = "/dev" -> <<"mode", "nosuid">>
             [] t = "/dev/pts" -> <<"mode", "nosuid", "noexec">>
             [] t = "/dev/shm" -> <<"mode", "nosuid", "nodev">>
             [] t = "/run" -> <<"nodev", "noexec", "nosuid", "size", "mode">>
             [] t = "/run/user" -> <<"nodev", "nosuid", "size", "mode">>

-----------------------------------------------------------------------------
(* Properties are stated against what was asked for, read independently of *)
(* parse_mntopts: the last option that speaks of a flag decides.           *)

\* The options that ask for a flag ("shared" is not found in the table), and
\* those that ask for its opposite
Asks(f) == CASE f = "bind" -> {"bind", "rbind"}
             [] f = "private" -> {"private", "rprivate"}
             [] f = "shared" -> {"rshared"}
             [] f = "slave" -> {"slave", "rslave"}
             [] f = "unbindable" -> {"unbindable", "runbindable"}
             [] f = "rec" -> {"rbind", "rprivate", "rshared", "rslave", "runbindable"}
             [] OTHER -> {f}
Clears(f) == CASE f = "ro" -> {"defaults", "rw"}
               [] f = "nosuid" -> {"defaults", "suid"}
               [] f = "nodev" -> {"defaults", "dev"}
               [] f = "noexec" -> {"defaults", "exec"}
               [] f = "sync" -> {"defaults", "async"}
               [] f = "noatime" -> {"atime", "norelatime", "relatime"}
               [] f = "relatime" -> {"atime", "norelatime", "noatime"}
               [] f = "bind" -> {"move", "remount"}
               [] f = "move" -> {"bind", "rbind", "remount"}
               [] f = "remount" -> {"bind", "rbind", "move"}
               [] f = "nodiratime" -> {"diratime"}
               [] f = "iversion" -> {"noiversion"}
               [] f = "lazytime" -> {"nolazytime"}
               [] f = "silent" -> {"loud"}
               [] f = "mand" -> {"nomand"}
               [] f = "strictatime" -> {"nostrictatime"}
               [] f = "nosymfollow" -> {"symfollow"}
               [] OTHER -> {}
Decides(opts, f, before) ==
    LET speak == {i \in DOMAIN opts : opts[i] \in Asks(f) \cup Clears(f)}
    IN  IF speak = {} THEN before
        ELSE opts[CHOOSE i \in speak : \A j \in speak : j <= i] \in Asks(f)
Asked(opts, before) ==
    {f \in MountFlags \cup Atime : Decides(opts, f, f \in before)}

-----------------------------------------------------------------------------
(* Boots *)

\* History of a boot: the flags / ought to have besides "ro"; whether the last
\* remount of / succeeded, and not only said so; whether a system call failed;
\* whether a reader kept the id's file busy; whether an id was bound; what the
\* initramfs had left mounted
NewHist(flags, left) ==
    [want |-> flags \ {"ro"}, remounted |-> FALSE, faulty |-> FALSE,
     busy |-> FALSE, bound |-> FALSE, left |-> left]

Init ==
    /\ conf \in [fstab : FstabRoot, opts : RootOpts, helper : BOOLEAN, dirs : BOOLEAN]
    /\ pc = "off"
    /\ tab = [t \in Targets |-> <<>>]
    /\ root = NoMount
    /\ procsys = <<>>
    /\ first = FALSE /\ runId = Absent
    /\ etc \in {Absent, Empty, Uninitialized} /\ disk = {etc}
    /\ boots = 0 /\ faults = 0
    /\ hist = NewHist({}, {})

\* The kernel and the initramfs hand over to init.
Boot ==
    /\ pc = "off" /\ boots < MaxBoots
    /\ \E fl \in RootFlags, left \in Initramfs :
        /\ root' = [flags |-> fl, shared |-> FALSE]
        /\ tab' = [t \in Targets |-> IF t \in DOMAIN left
                                     THEN <<[flags |-> left[t], shared |-> FALSE]>>
                                     ELSE <<>>]
        /\ hist' = NewHist(fl, DOMAIN left)
    /\ boots' = boots + 1
    /\ Goto("env")
    /\ UNCHANGED <<conf, procsys, ids, faults>>

\* The state of a machine that is off; /run is gone.
Off ==
    /\ Goto("off")
    /\ tab' = [t \in Targets |-> <<>>] /\ root' = NoMount
    /\ procsys' = <<>>
    /\ first' = FALSE /\ runId' = Absent
    /\ hist' = NewHist({}, {})
    /\ UNCHANGED <<conf, boots, faults>>

Crash == /\ pc # "off"
         /\ Off
         /\ etc' \in disk /\ disk' = {etc'}

\* The file changes in memory and, at some time, on the disk.
SetEtc(c) == etc' = c /\ disk' = disk \cup {c}

-----------------------------------------------------------------------------
(* env.sh; its DINIT_FIRST_BOOT becomes /run/dinit/first-boot in tmpfs.sh,
   and nothing changes /etc/machine-id in between *)

FirstBoot == etc \in {Absent, Uninitialized}

Env ==
    /\ pc = "env"
    /\ Goto("/proc") /\ procsys' = <<"nosuid", "noexec", "nodev">>
    /\ UNCHANGED <<conf, mounts, ids, boots, faults, hist>>

-----------------------------------------------------------------------------
(* mnt prepare *)

\* One of the pseudo-filesystems; an auxiliary one only if it has a directory
PrepareMount ==
    /\ pc \in Pseudo \cup Aux
    /\ \/ /\ pc \in Aux /\ ~conf.dirs
          /\ Goto(After(pc))
          /\ UNCHANGED <<tab, procsys, faults, hist>>
       \/ /\ pc \in Pseudo \/ conf.dirs
          /\ do_try(pc, Opts(pc))
          /\ procsys' = IF pc \in ProcSys /\ ~do_is(pc) THEN Parsed(procsys) ELSE procsys
    /\ UNCHANGED <<conf, root, ids, boots>>

\* do_remount("/", opts): the mount's present flags, then the ones given
\* (Mutant: the present flags are not looked up.)
Remounted_Afresh(opts) == parse_mntopts(opts, Given({"silent", "remount"}))
Remounted(opts) ==
    parse_mntopts(opts, parse_mntopts(Shown(root), Given({"silent", "remount"})))

\* A remount of /; wanted are the flags it should then have.
RemountRoot(p, wanted, ok, fails) ==
    \E o \in do_mount_raw(root, p, conf.helper) :
        /\ Count(o)
        /\ root' = o.mnt
        /\ hist' = [hist EXCEPT !.faulty = @ \/ o.fault, !.remounted = (o.ret = 0 /\ o.applied),
                                !.want = IF o.applied THEN wanted \ {"ro"} ELSE @]
        /\ IF o.ret = 0 THEN ok ELSE fails

PrepareRoot ==
    /\ pc = "/"
    /\ RemountRoot(Remounted(conf.opts), Asked(conf.opts, root.flags), Goto(After(pc)), Fails)
    /\ UNCHANGED <<conf, tab, procsys, ids, boots>>

\* The links /dev/fd, /dev/stdin, ...
PrepareLinks ==
    /\ pc = "links"
    /\ \/ Goto(After(pc)) /\ UNCHANGED <<faults, hist>>
       \/ /\ faults < MaxFaults /\ faults' = faults + 1
          /\ hist' = [hist EXCEPT !.faulty = TRUE]
          /\ Fails
    /\ UNCHANGED <<conf, mounts, procsys, ids, boots>>

\* Everything else depends on these services: the boot stops.  They may be
\* started again, and then begin from their first step.
Retry ==
    /\ pc \in {"prepare failed", "tmpfs failed"}
    /\ IF pc = "prepare failed"
       THEN Goto("/proc") /\ procsys' = <<"nosuid", "noexec", "nodev">>
       ELSE Goto("/run") /\ UNCHANGED procsys
    /\ UNCHANGED <<conf, mounts, ids, boots, faults, hist>>

-----------------------------------------------------------------------------
(* tmpfs.sh *)

Tmpfs ==
    /\ pc \in {"/run", "/run/user"}
    /\ do_try(pc, Opts(pc))
    /\ UNCHANGED <<conf, root, procsys, ids, boots>>

TmpfsFirstBoot ==
    /\ pc = "first"
    /\ first' = FirstBoot
    /\ Goto(After(pc))
    /\ UNCHANGED <<conf, mounts, procsys, runId, etc, disk, boots, faults, hist>>

-----------------------------------------------------------------------------
(* root-rw.sh; its failure stops nothing *)

\* do_root_rw: what fstab says of /, else the flags it has without "ro"
RootRwFlags ==
    IF conf.fstab = NoEntry
    THEN [Remounted(<<>>) EXCEPT !.flags = @ \ {"ro"}]
    ELSE parse_mntopts(conf.fstab, Given({"silent", "remount"}))
RootRwWanted ==
    IF conf.fstab = NoEntry THEN root.flags
    ELSE Asked(conf.fstab, root.flags \cap Atime)

RootRw ==
    /\ pc = "root-rw"
    /\ RemountRoot(RootRwFlags, RootRwWanted, TRUE, TRUE)
    /\ Goto(After(pc))
    /\ UNCHANGED <<conf, tab, procsys, ids, boots>>

-----------------------------------------------------------------------------
(* machine-id.sh; set -e ends it at the first failure, and done.sh follows *)

Visible == IF tab[IdFile] # <<>> THEN runId ELSE etc
Writable == "ro" \notin root.flags

Fault == faults < MaxFaults /\ faults' = faults + 1 /\ hist' = [hist EXCEPT !.faulty = TRUE]
NoFault == UNCHANGED <<faults, hist>>

\* An id is wanted on the first boot, or when there is none.
\* (Mutants: it is always generated; an empty file is taken for an id.)
Wanted_Always == TRUE
Wanted_FirstBoot == first
Wanted == first \/ Visible \in {Absent, Empty}

\* gen_machineid > /run/dinit/machine-id: a failing dbus-uuidgen ends the
\* script, a failing od does not; the redirection has made the file.  The
\* service does not run at all if early-rng or early-swclock failed.
Generate ==
    /\ pc = "generate"
    /\ \/ /\ runId' = IF Wanted THEN boots ELSE runId
          /\ Goto("touch") /\ NoFault
       \/ /\ Wanted /\ runId' = Empty
          /\ Goto("touch") \/ Goto("done")
          /\ Fault
       \/ Goto("done") /\ Fault /\ UNCHANGED runId
    /\ UNCHANGED <<conf, mounts, procsys, first, etc, disk, boots>>

\* touch creates a missing file, if it can; then it is marked.
Touch ==
    /\ pc = "touch"
    /\ \/ /\ Visible = Absent /\ Writable
          /\ SetEtc(Empty) /\ Goto("echo") /\ NoFault
       \/ /\ Visible = Absent /\ Writable
          /\ Goto("bind") /\ Fault /\ UNCHANGED <<etc, disk>>
       \/ /\ Visible = Absent => ~Writable
          /\ Goto("bind") /\ NoFault /\ UNCHANGED <<etc, disk>>
    /\ UNCHANGED <<conf, mounts, procsys, first, runId, boots>>

Echo ==
    /\ pc = "echo"
    /\ \/ SetEtc(Uninitialized) /\ Goto("bind") /\ NoFault
       \/ Goto("done") /\ Fault /\ UNCHANGED <<etc, disk>>
    /\ UNCHANGED <<conf, mounts, procsys, first, runId, boots>>

\* mnt mnt /etc/machine-id /run/dinit/machine-id none bind
BindId(next) ==
    \/ /\ tab' = [tab EXCEPT ![IdFile] = Append(@, [flags |-> {"relatime"}, shared |-> FALSE])]
       /\ faults' = faults /\ hist' = [hist EXCEPT !.bound = TRUE]
       /\ Goto(next)
    \/ Fault /\ Goto(next) /\ UNCHANGED tab

Bind ==
    /\ pc = "bind"
    /\ IF runId # Absent /\ Visible # Absent THEN BindId("done")
       ELSE Goto("done") /\ NoFault /\ UNCHANGED tab
    /\ UNCHANGED <<conf, root, procsys, ids, boots>>

-----------------------------------------------------------------------------
(* done.sh; it goes on whatever fails *)

Done ==
    /\ pc = "done"
    /\ Goto(IF do_is(IdFile) /\ runId # Absent THEN "umnt" ELSE "up")
    /\ UNCHANGED <<conf, mounts, procsys, ids, boots, faults, hist>>

\* umount2 refuses while some process has the file open.
Umnt ==
    /\ pc = "umnt"
    /\ \/ tab' = [tab EXCEPT ![IdFile] = Front(@)] /\ UNCHANGED hist
       \/ hist' = [hist EXCEPT !.busy = TRUE] /\ UNCHANGED tab
    /\ Goto("commit")
    /\ UNCHANGED <<conf, root, procsys, ids, boots, faults>>

\* touch, and the redirection that empties the file: the one on the disk or,
\* if it is still bound, the very file that cat is going to read.  When touch
\* fails the id is bound again, also over a bind that is still there.
Commit ==
    /\ pc = "commit"
    /\ \/ /\ tab[IdFile] # <<>>
          /\ runId' = Empty /\ Goto("cat") /\ NoFault /\ UNCHANGED <<etc, disk>>
       \/ /\ tab[IdFile] = <<>> /\ Writable
          /\ SetEtc(Empty) /\ Goto("cat") /\ NoFault /\ UNCHANGED runId
       \/ /\ IF tab[IdFile] # <<>> \/ Writable THEN Fault ELSE NoFault
          /\ Goto("rebind") /\ UNCHANGED <<etc, disk, runId>>
    /\ UNCHANGED <<conf, mounts, procsys, first, boots>>

Cat ==
    /\ pc = "cat"
    /\ \/ /\ IF tab[IdFile] = <<>> THEN SetEtc(runId) ELSE UNCHANGED <<etc, disk>>
          /\ NoFault
       \/ Fault /\ UNCHANGED <<etc, disk>>
    /\ Goto("up")
    /\ UNCHANGED <<conf, mounts, procsys, first, runId, boots>>

Rebind ==
    /\ pc = "rebind"
    /\ BindId("up")
    /\ UNCHANGED <<conf, root, procsys, ids, boots>>

-----------------------------------------------------------------------------
(* shutdown-hook: mnt rmnt / ro, and sync whether that succeeds or not *)

Shutdown ==
    /\ pc \in {"up", "prepare failed", "tmpfs failed"}
    /\ \/ /\ tab["/proc"] # <<>>
          /\ RemountRoot(Remounted(<<"ro">>), Asked(<<"ro">>, root.flags), TRUE, TRUE)
       \/ tab["/proc"] = <<>> /\ UNCHANGED <<root, faults, hist>>
    /\ Goto("sync")
    /\ UNCHANGED <<conf, tab, procsys, ids, boots>>

Sync == pc = "sync" /\ Off /\ disk' = {etc} /\ UNCHANGED etc

-----------------------------------------------------------------------------
Next ==
    \/ Boot \/ Crash
    \/ Env
    \/ PrepareMount \/ PrepareRoot \/ PrepareLinks \/ Retry
    \/ Tmpfs \/ TmpfsFirstBoot
    \/ RootRw
    \/ Generate \/ Touch \/ Echo \/ Bind
    \/ Done \/ Umnt \/ Commit \/ Cat \/ Rebind
    \/ Shutdown \/ Sync

Spec == Init /\ [][Next]_vars

-----------------------------------------------------------------------------
(* Properties *)

\* The type of the state
TypeOK ==
    /\ conf.helper \in BOOLEAN /\ conf.dirs \in BOOLEAN
    /\ pc \in Places
    /\ tab \in [Targets -> Seq(Mount)]
    /\ root \in Mount
    /\ procsys \in {<<>>, <<"nosuid">>, <<"nosuid", "noexec", "nodev">>}
    /\ first \in BOOLEAN
    /\ runId \in Content /\ etc \in Content /\ disk \subseteq Content /\ etc \in disk
    /\ boots \in 0..MaxBoots /\ faults \in 0..MaxFaults

\* Nothing is mounted over itself: not over what the initramfs left, and not
\* when prepare or tmpfs.sh stopped half-way and are started again (do_try).
\* Only done.sh may bind the id over itself, and only once: when the umount
\* failed, whose status it does not look at, and then touch failed as well.
MountedOnce ==
    \A t \in Targets :
        Len(tab[t]) <= IF t = IdFile /\ hist.busy /\ hist.faulty THEN 2 ELSE 1

AfterRootRw == {"generate", "touch", "echo", "bind", "done", "umnt", "commit", "cat",
                "rebind", "up"}
Prepared == pc \notin {"off", "env", "prepare failed", "sync"} \cup Prepare

\* When `mnt prepare` ends well, and not before, the boot goes on with all
\* pseudo-filesystems; those of the first part that prepare mounted itself do
\* not honour set-uid bits, although the options of /sys may be cut short (one
\* that the initramfs left is taken as it is, do_try, and the auxiliary ones
\* are mounted as the kernel likes); and with a root whose mounts propagate if
\* that was asked for; only a root mounted by a helper is left private.
PreparedMeansMounted ==
    Prepared => /\ \A t \in Pseudo : tab[t] # <<>>
                /\ \A t \in Pseudo \ hist.left : "nosuid" \in tab[t][1].flags
                /\ conf.dirs => \A t \in Aux : tab[t] # <<>>
                /\ "rshared" \in Range(conf.opts) /\ ~conf.helper => root.shared

\* The remounts of / (by prepare, by root-rw and at shutdown) change what they
\* are asked to and keep the rest: without an entry in fstab the flags the
\* boot loader gave survive them all, with one they are the entry's, and only
\* the atime behaviour is kept.  When root-rw ended well / is writable unless
\* the entry says otherwise, but for a helper that failed: its exit status is
\* not looked at.
RootKept ==
    /\ root.flags \ {"ro"} = hist.want
    /\ pc \in AfterRootRw /\ hist.remounted =>
        (Writable <=> conf.fstab = NoEntry \/ "ro" \notin Asked(conf.fstab, {}))

\* An id that is safe on the disk is never replaced, whatever fails or
\* crashes in later boots.
IdStable == [][\A i \in Ids : disk = {i} => disk' = {i}]_vars

\* A boot in which nothing failed ends with an id in /etc/machine-id, and with
\* the same id on the disk if / is writable; only with a read-only / that
\* lacks the file there is none.
IdCommitted ==
    pc = "up" /\ ~hist.faulty /\ ~hist.busy =>
        /\ Visible \in Ids \/ (etc = Absent /\ ~Writable)
        /\ Writable => etc = Visible

-----------------------------------------------------------------------------
(* What the comments say *)

\* machine-id.sh: "prepares a valid machine-id until it can be written to disk
\* (maybe never)".  An id that was bound stays visible, or is on the disk.
IdAvailable == pc = "up" /\ ~hist.faulty /\ hist.bound => Visible \in Ids
=============================================================================
