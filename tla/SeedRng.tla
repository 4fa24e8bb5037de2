------------------------------ MODULE SeedRng -------------------------------
(***************************************************************************)
(* seedrng (src/early/helpers/seedrng.cc), run by the service early-rng at *)
(* boot and at shutdown: it feeds the saved seeds to the kernel's random   *)
(* number generator, draws a new seed and saves it for the next boot.      *)
(*                                                                         *)
(* A step is a system call.  Any of them may fail, a run may be killed     *)
(* between two of them, and the machine may crash: it then comes up with   *)
(* one of the states the seed directory has had since its last fsync, and  *)
(* with a file's content at its last fsync or anything written since.      *)
(* What BLAKE2s computes is left out: the seed a run saves is named after  *)
(* the run.                                                                *)
(***************************************************************************)
EXTENDS Naturals

CONSTANTS
    Procs,       \* processes that run seedrng
    None,        \* no process
    MaxRuns,     \* bound: runs that draw a seed
    MaxCrashes   \* bound: crashes of the machine

ASSUME SeedAssumption == None \notin Procs /\ MaxRuns \in Nat /\ MaxCrashes \in Nat

VARIABLES
    pc,        \* where each run is
    name,      \* the seed file a run is reading
    buf,       \* the content it has read
    new,       \* the number of the seed it has drawn, 0: none
    creditable,\* new_seed_creditable
    failed,    \* program_ret is not 0
    lock,      \* who holds the flock on the seed directory
    dir,       \* the seed directory: the inode behind a name, 0: none
    file,      \* the content of an inode
    diskDir,   \* the directories a crash may leave
    diskFile,  \* the contents a crash may leave in an inode
    skip,      \* seed.skip-credit exists
    getrandom, \* the kernel has the system call getrandom
    ready,     \* the kernel's generator is initialised
    runs, crashes,
    drawn,     \* history: the creditable seeds and what they were made from
    uses,      \* history: how often each seed was fed to the kernel
    credited   \* history: the contents that were credited

proc == <<pc, name, buf, new, creditable, failed>>
given == <<skip, getrandom>>
disk == <<dir, file, diskDir, diskFile>>
history == <<drawn, uses, credited>>
vars == <<proc, lock, disk, given, ready, runs, crashes, history>>

-----------------------------------------------------------------------------
Seeds == 1..MaxRuns
Names == {"seed.no-credit", "seed.credit"}
Places == {"idle", "open", "unlink", "fsync_dir", "seed", "draw", "create",
           "write", "fsync", "rename", "out"}
Content == [seed : {0} \cup Seeds, data : {"none", "part", "full"}]
Empty == [seed |-> 0, data |-> "none"]
Origins == {"ready", "early", "failure"}
Directory == [Names -> {0} \cup Seeds]

Goto(p, l) == pc' = [pc EXCEPT ![p] = l]
Fail(p) == failed' = [failed EXCEPT ![p] = TRUE]

\* The directory, or an inode, changes in memory and at some time on the disk
SetDir(d) == dir' = d /\ diskDir' = diskDir \cup {d}
SetFile(i, cs, c) ==
    /\ file' = [file EXCEPT ![i] = c]
    /\ diskFile' = [diskFile EXCEPT ![i] = @ \cup cs]

-----------------------------------------------------------------------------
(* main, until the seed directory is locked; if that fails nothing is done *)

\* (Mutant: without the lock.)
Start_NoLock(p) ==
    /\ pc[p] = "idle" /\ runs < MaxRuns
    /\ lock' = p
    /\ Goto(p, "open")
    /\ UNCHANGED <<name, buf, new, creditable, failed, disk, given, ready, runs,
                   crashes, history>>
Start(p) ==
    /\ pc[p] = "idle" /\ runs < MaxRuns
    /\ lock = None /\ lock' = p
    /\ Goto(p, "open")
    /\ UNCHANGED <<name, buf, new, creditable, failed, disk, given, ready, runs,
                   crashes, history>>

-----------------------------------------------------------------------------
(* seed_from_file_if_exists, for the one file and then for the other *)

\* What follows the file
NextFile(p) ==
    IF name[p] = "seed.no-credit"
    THEN /\ name' = [name EXCEPT ![p] = "seed.credit"]
         /\ Goto(p, "open")
    ELSE /\ Goto(p, "draw")
         /\ UNCHANGED name

fileFrame == <<new, creditable, lock, given, runs, crashes, drawn>>

Open(p) ==
    /\ pc[p] = "open"
    /\ \/ /\ dir[name[p]] # 0
          /\ buf' = [buf EXCEPT ![p] = file[dir[name[p]]]]
          /\ Goto(p, "unlink")
          /\ UNCHANGED <<name, failed>>
       \/ /\ dir[name[p]] = 0
          /\ NextFile(p)
          /\ UNCHANGED <<buf, failed>>
       \/ Fail(p) /\ NextFile(p) /\ UNCHANGED buf
    /\ UNCHANGED <<fileFrame, disk, ready, uses, credited>>

\* A seed that cannot be removed is not used.
Unlink(p) ==
    /\ pc[p] = "unlink"
    /\ \/ /\ SetDir([dir EXCEPT ![name[p]] = 0])
          /\ Goto(p, "fsync_dir")
          /\ UNCHANGED <<name, failed>>
       \/ /\ NextFile(p)
          /\ IF buf[p].data # "none" THEN Fail(p) ELSE UNCHANGED failed
          /\ UNCHANGED <<dir, diskDir>>
    /\ UNCHANGED <<buf, fileFrame, file, diskFile, ready, uses, credited>>

\* (Mutant: the removal is not made durable.)
FsyncDir_Skipped(p) ==
    /\ pc[p] = "fsync_dir"
    /\ IF buf[p].data # "none" THEN Goto(p, "seed") /\ UNCHANGED name
       ELSE NextFile(p)
    /\ UNCHANGED <<failed, diskDir, buf, fileFrame, dir, file, diskFile, ready,
                   uses, credited>>
FsyncDir(p) ==
    /\ pc[p] = "fsync_dir"
    /\ \/ /\ diskDir' = {dir}
          /\ IF buf[p].data # "none" THEN Goto(p, "seed") /\ UNCHANGED name
             ELSE NextFile(p)
          /\ UNCHANGED failed
       \/ /\ NextFile(p)
          /\ IF buf[p].data # "none" THEN Fail(p) ELSE UNCHANGED failed
          /\ UNCHANGED diskDir
    /\ UNCHANGED <<buf, fileFrame, dir, file, diskFile, ready, uses, credited>>

\* The seed counts as entropy, unless the administrator says otherwise.
Credit(p) == name[p] = "seed.credit" /\ ~skip

\* seed_rng: a credited seed initialises the generator
Seed(p) ==
    /\ pc[p] = "seed"
    /\ NextFile(p)
    /\ \/ /\ uses' = [uses EXCEPT ![buf[p].seed] = IF @ < 2 THEN @ + 1 ELSE @]
          /\ credited' = IF Credit(p) THEN credited \cup {buf[p]} ELSE credited
          /\ ready' = (ready \/ Credit(p))
          /\ UNCHANGED failed
       \/ Fail(p) /\ UNCHANGED <<uses, credited, ready>>
    /\ UNCHANGED <<buf, fileFrame, disk>>

-----------------------------------------------------------------------------
(* main, the new seed *)

newFrame == <<name, buf, lock, given, ready, crashes, uses, credited>>

\* What a new seed is made from (history)
Origin(read) == IF ~read THEN "failure" ELSE IF ready THEN "ready" ELSE "early"

\* read_new_seed: from getrandom when the generator is ready, else from
\* GRND_INSECURE or /dev/urandom.  Without getrandom, new_seed_creditable is the
\* answer of poll, and stays so when /dev/urandom cannot be read afterwards.  If
\* nothing can be read, the seed is seedrng_failure and the hash.
Draw(p) ==
    /\ pc[p] = "draw"
    /\ \E cr \in {FALSE, ready}, read \in BOOLEAN :
          /\ cr => read \/ ~getrandom
          /\ creditable' = [creditable EXCEPT ![p] = cr]
          /\ IF read THEN UNCHANGED failed ELSE Fail(p)
          /\ drawn' = IF ~cr THEN drawn
                      ELSE drawn \cup {[seed |-> runs + 1, from |-> Origin(read)]}
    /\ runs' = runs + 1
    /\ new' = [new EXCEPT ![p] = runs + 1]
    /\ Goto(p, "create")
    /\ UNCHANGED <<newFrame, disk>>

saveFrame == <<newFrame, new, creditable, runs, drawn>>

\* openat with O_CREAT | O_TRUNC: a new inode, or the old one emptied
Create(p) ==
    /\ pc[p] = "create"
    /\ LET old == dir["seed.no-credit"]
           i == IF old = 0 THEN new[p] ELSE old
       IN  \/ /\ SetFile(i, {Empty}, Empty)
              /\ IF old = 0 THEN SetDir([dir EXCEPT !["seed.no-credit"] = i])
                 ELSE UNCHANGED <<dir, diskDir>>
              /\ Goto(p, "write")
              /\ UNCHANGED failed
           \/ Fail(p) /\ Goto(p, "out") /\ UNCHANGED disk
    /\ UNCHANGED saveFrame

\* write_full, cut short by an error.  (Mutant: the error is not reported.)
Write_Unchecked(p) ==
    /\ pc[p] = "write"
    /\ LET Part(d) == [seed |-> new[p], data |-> d]
           i == dir["seed.no-credit"]
       IN  \E d \in {"full", "part", "none"} :
              IF d = "none" THEN UNCHANGED <<file, diskFile>>
              ELSE SetFile(i, {Part("part"), Part(d)}, Part(d))
    /\ Goto(p, "fsync")
    /\ UNCHANGED <<failed, dir, diskDir, saveFrame>>
Write(p) ==
    /\ pc[p] = "write"
    /\ LET Part(d) == [seed |-> new[p], data |-> d]
           i == dir["seed.no-credit"]
       IN  \/ /\ SetFile(i, {Part("part"), Part("full")}, Part("full"))
              /\ Goto(p, "fsync") /\ UNCHANGED failed
           \/ /\ SetFile(i, {Part("part")}, Part("part"))
              /\ Goto(p, "out") /\ Fail(p)
           \/ /\ Goto(p, "out") /\ Fail(p)
              /\ UNCHANGED <<file, diskFile>>
    /\ UNCHANGED <<dir, diskDir, saveFrame>>

\* (Mutant: the new seed is not synced before it is renamed.)
Fsync_Skipped(p) ==
    /\ pc[p] = "fsync"
    /\ Goto(p, IF creditable[p] THEN "rename" ELSE "out")
    /\ UNCHANGED <<failed, disk, saveFrame>>
Fsync(p) ==
    /\ pc[p] = "fsync"
    /\ LET i == dir["seed.no-credit"]
       IN  \/ /\ diskFile' = [diskFile EXCEPT ![i] = {file[i]}]
              /\ Goto(p, IF creditable[p] THEN "rename" ELSE "out")
              /\ UNCHANGED failed
           \/ Fail(p) /\ Goto(p, "out") /\ UNCHANGED diskFile
    /\ UNCHANGED <<dir, file, diskDir, saveFrame>>

Rename(p) ==
    /\ pc[p] = "rename"
    /\ \/ /\ SetDir([n \in Names |-> IF n = "seed.credit" THEN dir["seed.no-credit"]
                                     ELSE 0])
          /\ UNCHANGED failed
       \/ Fail(p) /\ UNCHANGED <<dir, diskDir>>
    /\ Goto(p, "out")
    /\ UNCHANGED <<file, diskFile, saveFrame>>

\* The process ends and its lock goes with it, when it is done or killed
Leave(p) ==
    /\ Goto(p, "idle")
    /\ lock' = None
    /\ name' = [name EXCEPT ![p] = "seed.no-credit"]
    /\ buf' = [buf EXCEPT ![p] = Empty]
    /\ new' = [new EXCEPT ![p] = 0]
    /\ creditable' = [creditable EXCEPT ![p] = FALSE]
    /\ failed' = [failed EXCEPT ![p] = FALSE]
    /\ UNCHANGED <<disk, given, ready, runs, crashes, history>>
Out(p) == pc[p] = "out" /\ Leave(p)
Kill(p) == pc[p] \notin {"idle", "out"} /\ Leave(p)

-----------------------------------------------------------------------------
(* The machine *)

Crash ==
    /\ crashes < MaxCrashes
    /\ crashes' = crashes + 1
    /\ pc' = [p \in Procs |-> "idle"]
    /\ name' = [p \in Procs |-> "seed.no-credit"]
    /\ buf' = [p \in Procs |-> Empty]
    /\ new' = [p \in Procs |-> 0]
    /\ creditable' = [p \in Procs |-> FALSE]
    /\ failed' = [p \in Procs |-> FALSE]
    /\ lock' = None
    /\ dir' \in diskDir
    /\ diskDir' = {dir'}
    /\ file' \in {f \in [Seeds -> UNION {diskFile[i] : i \in Seeds}] :
                     \A i \in Seeds : f[i] \in diskFile[i]}
    /\ diskFile' = [i \in Seeds |-> {file'[i]}]
    /\ ready' = FALSE
    /\ UNCHANGED <<given, runs, history>>

\* Interrupts and the like initialise the generator
GetReady ==
    /\ ~ready /\ ready' = TRUE
    /\ UNCHANGED <<proc, lock, disk, given, runs, crashes, history>>

Init ==
    /\ pc = [p \in Procs |-> "idle"]
    /\ name = [p \in Procs |-> "seed.no-credit"]
    /\ buf = [p \in Procs |-> Empty]
    /\ new = [p \in Procs |-> 0]
    /\ creditable = [p \in Procs |-> FALSE]
    /\ failed = [p \in Procs |-> FALSE]
    /\ lock = None
    /\ dir = [n \in Names |-> 0] /\ diskDir = {dir}
    /\ file = [i \in Seeds |-> Empty] /\ diskFile = [i \in Seeds |-> {Empty}]
    /\ skip \in BOOLEAN /\ getrandom \in BOOLEAN
    /\ ready = FALSE
    /\ runs = 0 /\ crashes = 0
    /\ drawn = {} /\ uses = [s \in Seeds |-> 0] /\ credited = {}

Run(p) ==
    \/ Start(p) \/ Open(p) \/ Unlink(p) \/ FsyncDir(p) \/ Seed(p) \/ Draw(p)
    \/ Create(p) \/ Write(p) \/ Fsync(p) \/ Rename(p) \/ Out(p) \/ Kill(p)

Next == (\E p \in Procs : Run(p)) \/ Crash \/ GetReady

Spec == Init /\ [][Next]_vars

-----------------------------------------------------------------------------
(* Properties *)

\* Type correctness, and only the process that holds the flock is at work.
TypeOK ==
    /\ pc \in [Procs -> Places] /\ name \in [Procs -> Names]
    /\ buf \in [Procs -> Content] /\ new \in [Procs -> {0} \cup Seeds]
    /\ creditable \in [Procs -> BOOLEAN] /\ failed \in [Procs -> BOOLEAN]
    /\ lock \in Procs \cup {None} /\ \A p \in Procs : pc[p] = "idle" \/ lock = p
    /\ dir \in Directory /\ diskDir \subseteq Directory
    /\ file \in [Seeds -> Content] /\ diskFile \in [Seeds -> SUBSET Content]
    /\ skip \in BOOLEAN /\ getrandom \in BOOLEAN /\ ready \in BOOLEAN
    /\ runs \in 0..MaxRuns /\ crashes \in 0..MaxCrashes
    /\ drawn \subseteq [seed : Seeds, from : Origins] /\ uses \in [Seeds -> 0..2]
    /\ credited \subseteq Content

\* No seed is fed to the kernel twice, whatever fails, is killed or crashes
\* between reading, removing, syncing and using it.
UsedOnce == \A s \in Seeds : uses[s] <= 1

\* What was credited was a whole seed, and one that was read while the kernel's
\* generator was initialised: neither a failed write nor a crash before the rename
\* is durable leaves anything else under the name seed.credit.  One exception is
\* in the code: on a kernel without getrandom, a run that polled the generator
\* ready and then could not read it saves seedrng_failure and the hash, and under
\* seed.credit (its exit status tells).
CreditedSound ==
    \A c \in credited :
        /\ c.data = "full"
        /\ \/ [seed |-> c.seed, from |-> "ready"] \in drawn
           \/ ~getrandom /\ [seed |-> c.seed, from |-> "failure"] \in drawn

\* When a run reports success, the seed directory as it then is leads to its
\* seed, whole, under the name that says whether it may be credited, and the
\* content is synced.  The name is not: main does not sync the directory after
\* creating or renaming the file, so a crash may still lose it.
SuccessSaves ==
    \A p \in Procs : pc[p] = "out" /\ ~failed[p] =>
        LET i == dir[IF creditable[p] THEN "seed.credit" ELSE "seed.no-credit"]
        IN  i # 0 /\ diskFile[i] = {[seed |-> new[p], data |-> "full"]}

=============================================================================
