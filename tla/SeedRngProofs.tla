--------------------------- MODULE SeedRngProofs ----------------------------
(***************************************************************************)
(* What seedrng keeps through failed system calls, kills and crashes, for  *)
(* any number of processes, runs and crashes.                              *)
(*                                                                         *)
(* The invariant speaks of every directory and every content that a crash  *)
(* may bring back, and not only of those in memory: a seed that was used   *)
(* is in none of the directories a crash may leave, what is under          *)
(* seed.credit in any of them is whole and drawn from an initialised       *)
(* generator, and no two inodes ever hold the same seed.                   *)
(***************************************************************************)
EXTENDS SeedRng, TLAPS

NC == "seed.no-credit"
CR == "seed.credit"

Whole(s) == [seed |-> s, data |-> "full"]

\* A content without data has no seed, and one with data has one
Sane(c) == c.data = "none" <=> c.seed = 0

\* The two names never share an inode, nor do two crashes swap it between them,
\* and no seed is in two inodes
DiskOK ==
    /\ dir \in diskDir
    /\ \A i \in Seeds : file[i] \in diskFile[i]
    /\ \A i \in Seeds : \A c \in diskFile[i] : Sane(c)
    /\ \A D \in diskDir : D[NC] # 0 => D[NC] # D[CR]
    /\ \A D \in diskDir : D[CR] # 0 => D[CR] # dir[NC]
    /\ \A i, j \in Seeds : i # j =>
          \A c \in diskFile[i], e \in diskFile[j] : c.seed # 0 => c.seed # e.seed

\* A seed that was never written nor used, and an inode never allocated
NoSeed(s) == uses[s] = 0 /\ \A i \in Seeds : \A c \in diskFile[i] : c.seed # s
NoInode(i) == diskFile[i] = {Empty} /\ \A D \in diskDir : \A n \in Names : D[n] # i

Unborn == \A s \in Seeds : s > runs => NoSeed(s) /\ NoInode(s)

\* No name of directory D leads to the seed, whatever a crash leaves in the file
Gone(D, s) == \A n \in Names : D[n] # 0 => \A c \in diskFile[D[n]] : c.seed # s

Spent == \A s \in Seeds : uses[s] # 0 => \A D \in diskDir : Gone(D, s)

\* A content that may be credited
Sound(s) ==
    \/ [seed |-> s, from |-> "ready"] \in drawn
    \/ ~getrandom /\ [seed |-> s, from |-> "failure"] \in drawn

Worthy(c) == c.data = "full" /\ Sound(c.seed)

CreditOK ==
    /\ \A D \in diskDir : D[CR] # 0 => \A c \in diskFile[D[CR]] : Worthy(c)
    /\ \A c \in credited : Worthy(c)

Early == {"open", "unlink", "fsync_dir", "seed", "draw"}
Late == {"create", "write", "fsync", "rename", "out"}

\* What a run has read is a seed nobody has used
Held(p) ==
    /\ Sane(buf[p])
    /\ buf[p].data # "none" => uses[buf[p].seed] = 0 /\ buf[p].seed <= runs
    /\ name[p] = CR => Worthy(buf[p])

\* The seed a run draws
Drawn(p) ==
    /\ new[p] \in Seeds
    /\ new[p] <= runs
    /\ creditable[p] => Sound(new[p])

Saved(p) ==
    LET i == dir[IF creditable[p] THEN CR ELSE NC]
    IN  i # 0 /\ diskFile[i] = {Whole(new[p])}

\* What holds of a run at each of its system calls
ProcOK(p) ==
    /\ pc[p] \in Early => runs < MaxRuns
    /\ pc[p] \in Late => Drawn(p)
    /\ pc[p] \in {"unlink", "fsync_dir", "seed"} => Held(p)
    /\ pc[p] = "unlink" => dir[name[p]] # 0 /\ buf[p] = file[dir[name[p]]]
    /\ pc[p] = "fsync_dir" => (buf[p].data # "none" => Gone(dir, buf[p].seed))
    /\ pc[p] = "seed" =>
          buf[p].data # "none" /\ \A D \in diskDir : Gone(D, buf[p].seed)
    /\ pc[p] = "create" => NoSeed(new[p]) /\ NoInode(new[p])
    /\ pc[p] = "write" => NoSeed(new[p])
    /\ pc[p] \in {"write", "fsync", "rename"} => dir[NC] # 0
    /\ pc[p] = "fsync" => file[dir[NC]] = Whole(new[p])
    /\ pc[p] = "rename" => creditable[p] /\ diskFile[dir[NC]] = {Whole(new[p])}
    /\ pc[p] = "out" => (~failed[p] => Saved(p))

SeedInv ==
    /\ TypeOK
    /\ DiskOK
    /\ Unborn
    /\ Spent
    /\ CreditOK
    /\ UsedOnce
    /\ \A p \in Procs : ProcOK(p)

-----------------------------------------------------------------------------
(* Facts that every action needs *)

\* A process that is not at work has nothing to keep.
LEMMA IdleOK ==
    ASSUME NEW p, pc[p] = "idle"
    PROVE  ProcOK(p)
BY DEF ProcOK, Early, Late

\* Only the holder of the flock has something to keep.
LEMMA HolderOK ==
    ASSUME TypeOK', NEW p \in Procs, lock' = p, ProcOK(p)'
    PROVE  \A q \in Procs : ProcOK(q)'
<1> SUFFICES ASSUME NEW q \in Procs, q # p
             PROVE  ProcOK(q)'
  OBVIOUS
<1>1. pc'[q] = "idle"
  BY DEF TypeOK
<1> QED
  BY <1>1 DEF ProcOK, Early, Late

\* A run that is not idle holds the flock.
LEMMA AtWork ==
    ASSUME TypeOK, NEW p \in Procs, pc[p] # "idle"
    PROVE  lock = p /\ \A q \in Procs : q # p => pc[q] = "idle"
BY SeedAssumption DEF TypeOK

\* Going on to the next file, or to the new seed.
LEMMA NextFileDoes ==
    ASSUME TypeOK, NEW p \in Procs, NextFile(p)
    PROVE  /\ pc' \in [Procs -> Places]
           /\ name' \in [Procs -> Names]
           /\ pc'[p] \in {"open", "draw"}
           /\ \A q \in Procs : q # p => pc'[q] = pc[q]
BY DEF TypeOK, NextFile, Goto, Places, Names

\* At these two places a run has nothing to keep but its seed to draw.
LEMMA NextFileOK ==
    ASSUME NEW p, pc'[p] \in {"open", "draw"}, runs' < MaxRuns
    PROVE  ProcOK(p)'
BY DEF ProcOK, Late

\* The disk forgets directories and contents, by an fsync or a crash.
LEMMA Forgotten ==
    ASSUME DiskOK, Unborn, Spent, CreditOK,
           dir' \in diskDir', diskDir' \subseteq diskDir,
           \A i \in Seeds : file'[i] \in diskFile'[i] /\ diskFile'[i] \subseteq diskFile[i],
           diskDir \subseteq Directory,
           \A D \in diskDir' : D[CR] # 0 => D[CR] # dir'[NC],
           UNCHANGED <<runs, uses, drawn, getrandom, credited>>
    PROVE  DiskOK' /\ Unborn' /\ Spent' /\ CreditOK'
<1>1. DiskOK'
  BY DEF DiskOK, Sane
<1>2. Unborn'
  <2> SUFFICES ASSUME NEW s \in Seeds, s > runs
               PROVE  (NoSeed(s) /\ NoInode(s))'
    BY DEF Unborn
  <2>1. NoSeed(s) /\ NoInode(s)
    BY DEF Unborn
  <2>2. NoSeed(s)'
    BY <2>1 DEF NoSeed
  <2>3. diskFile'[s] = {Empty}
    BY <2>1 DEF NoInode
  <2> QED
    BY <2>1, <2>2, <2>3 DEF NoInode, Empty
<1>3. \A D \in diskDir : \A n \in Names : D[n] # 0 => D[n] \in Seeds
  BY DEF Directory
<1>4. Spent'
  BY <1>3 DEF Spent, Gone
<1>5. CreditOK'
  BY <1>3 DEF CreditOK, Worthy, Sound, given, CR, Names
<1> QED
  BY <1>1, <1>2, <1>4, <1>5

\* A file that is under the name seed.no-credit gets a content, empty or with a
\* seed that was never used nor written.
LEMMA Written ==
    ASSUME DiskOK, Unborn, Spent, CreditOK, TypeOK,
           NEW i \in Seeds, dir[NC] = i,
           NEW cs \in SUBSET Content, NEW c \in cs, SetFile(i, cs, c),
           \A e \in cs : Sane(e) /\ (e.seed # 0 => NoSeed(e.seed) /\ e.seed <= runs),
           \A e, g \in cs : e.seed = g.seed,
           UNCHANGED <<dir, diskDir, runs, uses, drawn, getrandom, credited>>
    PROVE  /\ DiskOK' /\ Unborn' /\ Spent' /\ CreditOK'
           /\ file' \in [Seeds -> Content] /\ diskFile' \in [Seeds -> SUBSET Content]
           /\ file'[i] = c
<1>1. /\ file' = [file EXCEPT ![i] = c]
      /\ diskFile' = [diskFile EXCEPT ![i] = diskFile[i] \cup cs]
  BY DEF SetFile
<1>2. /\ file' \in [Seeds -> Content] /\ diskFile' \in [Seeds -> SUBSET Content]
      /\ file'[i] = c /\ diskFile'[i] = diskFile[i] \cup cs
      /\ \A j \in Seeds : j # i => file'[j] = file[j] /\ diskFile'[j] = diskFile[j]
  BY <1>1 DEF TypeOK
<1>3. \A e \in cs : \A j \in Seeds : \A g \in diskFile[j] : e.seed # 0 => g.seed # e.seed
  BY DEF NoSeed
<1>4. DiskOK'
  <2>1. \A j \in Seeds : file'[j] \in diskFile'[j] /\ \A g \in diskFile'[j] : Sane(g)
    BY <1>2 DEF DiskOK
  <2>2. ASSUME NEW j \in Seeds, NEW k \in Seeds, j # k,
               NEW e \in diskFile'[j], NEW g \in diskFile'[k], e.seed # 0
        PROVE  e.seed # g.seed
    <3>1. CASE j # i /\ k # i
      BY <1>2, <2>2, <3>1 DEF DiskOK
    <3>2. CASE j = i
      BY <1>2, <1>3, <2>2, <3>2 DEF DiskOK
    <3>3. CASE k = i
      BY <1>2, <1>3, <2>2, <3>3 DEF DiskOK
    <3> QED
      BY <3>1, <3>2, <3>3
  <2> QED
    BY <2>1, <2>2 DEF DiskOK, Sane
<1>5. Unborn'
  <2> SUFFICES ASSUME NEW s \in Seeds, s > runs
               PROVE  (NoSeed(s) /\ NoInode(s))'
    BY DEF Unborn
  <2>1. NoSeed(s) /\ NoInode(s)
    BY DEF Unborn
  <2>2. s # i
    BY <2>1 DEF NoInode, DiskOK, Names, NC
  <2>3. \A e \in cs : e.seed # s
    <3> SUFFICES ASSUME NEW e \in cs, e.seed = s PROVE FALSE
      OBVIOUS
    <3>1. e.seed # 0 /\ s \in Nat /\ runs \in Nat
      BY DEF Seeds, TypeOK
    <3> QED
      BY <3>1
  <2> QED
    BY <1>2, <2>1, <2>2, <2>3 DEF NoSeed, NoInode, Empty
<1>6. Spent'
  <2> SUFFICES ASSUME NEW s \in Seeds, uses[s] # 0, NEW D \in diskDir, NEW n \in Names,
                      D[n] # 0, NEW e \in diskFile'[D[n]]
               PROVE  e.seed # s
    BY DEF Spent, Gone
  <2>1. D[n] \in Seeds
    BY DEF TypeOK, Directory
  <2>2. CASE e \in diskFile[D[n]]
    BY <2>2 DEF Spent, Gone
  <2>3. CASE e \in cs
    BY <2>3 DEF NoSeed, Seeds
  <2> QED
    BY <1>2, <2>1, <2>2, <2>3
<1>7. CreditOK'
  <2>1. \A D \in diskDir : D[CR] # 0 => D[CR] \in Seeds /\ D[CR] # i
    BY DEF DiskOK, TypeOK, Directory, Names, CR
  <2> QED
    BY <1>2, <2>1 DEF CreditOK, Worthy, Sound, given
<1> QED
  BY <1>2, <1>4, <1>5, <1>6, <1>7

\* The initial state.
LEMMA SeedInvInit == Init => SeedInv
<1> SUFFICES ASSUME Init PROVE SeedInv
  OBVIOUS
<1>1. TypeOK
  <2>1. 0 \in 0..MaxRuns /\ 0 \in 0..MaxCrashes
    BY SeedAssumption
  <2>2. Empty \in Content
    BY DEF Empty, Content
  <2>3. dir \in Directory /\ diskDir \subseteq Directory
    BY DEF Init, Directory
  <2>4. file \in [Seeds -> Content] /\ diskFile \in [Seeds -> SUBSET Content]
    BY <2>2 DEF Init
  <2>5. uses \in [Seeds -> 0..2] /\ drawn \subseteq [seed : Seeds, from : Origins] /\ credited \subseteq Content
    BY DEF Init
  <2>6. /\ pc \in [Procs -> Places] /\ name \in [Procs -> Names]
        /\ buf \in [Procs -> Content] /\ new \in [Procs -> {0} \cup Seeds]
        /\ creditable \in [Procs -> BOOLEAN] /\ failed \in [Procs -> BOOLEAN]
        /\ lock \in Procs \cup {None} /\ \A p \in Procs : pc[p] = "idle"
    BY <2>2 DEF Init, Places, Names
  <2> QED
    BY <2>1, <2>3, <2>4, <2>5, <2>6 DEF Init, TypeOK
<1>2. DiskOK
  BY DEF Init, DiskOK, Sane, Empty, NC, CR, Names
<1>3. Unborn
  BY DEF Init, Unborn, NoSeed, NoInode, Empty, Seeds, Names
<1>4. Spent /\ UsedOnce /\ CreditOK
  BY DEF Init, Spent, UsedOnce, CreditOK, Names, CR
<1>5. \A p \in Procs : ProcOK(p)
  BY IdleOK DEF Init
<1> QED
  BY <1>1, <1>2, <1>3, <1>4, <1>5 DEF SeedInv

\* main locks the seed directory.
LEMMA SeedInvStart ==
    ASSUME SeedInv, NEW p \in Procs, Start(p)
    PROVE  SeedInv'
<1>1. TypeOK'
  BY SeedAssumption DEF given, SeedInv, TypeOK, Start, Goto, Places, disk, history
<1>2. DiskOK' /\ Unborn' /\ Spent' /\ CreditOK' /\ UsedOnce'
  BY DEF SeedInv, Start, disk, history, DiskOK, Unborn, Spent, CreditOK, UsedOnce,
         NoSeed, NoInode, Gone, Worthy, Sound, given
<1>3. pc'[p] = "open" /\ runs' < MaxRuns /\ lock' = p
  BY DEF SeedInv, TypeOK, Start, Goto
<1>4. \A q \in Procs : ProcOK(q)'
  BY <1>1, <1>3, NextFileOK, HolderOK
<1> QED
  BY <1>1, <1>2, <1>4 DEF SeedInv

\* seed_from_file_if_exists opens and reads the file.
LEMMA SeedInvOpen ==
    ASSUME SeedInv, NEW p \in Procs, Open(p)
    PROVE  SeedInv'
<1>1. /\ TypeOK /\ DiskOK /\ Unborn /\ Spent /\ CreditOK /\ UsedOnce /\ ProcOK(p)
      /\ pc[p] = "open" /\ lock = p /\ runs < MaxRuns
  BY AtWork DEF SeedInv, Open, ProcOK, Early
<1>2. UNCHANGED <<fileFrame, disk, ready, uses, credited>>
  BY DEF Open
<1>3. DiskOK' /\ Unborn' /\ Spent' /\ CreditOK' /\ UsedOnce'
  BY <1>1, <1>2 DEF fileFrame, disk, DiskOK, Unborn, Spent, CreditOK, UsedOnce,
         NoSeed, NoInode, Gone, Worthy, Sound, given
<1>4. runs' < MaxRuns /\ lock' = p
  BY <1>1, <1>2 DEF fileFrame
<1>5. CASE /\ dir[name[p]] # 0
           /\ buf' = [buf EXCEPT ![p] = file[dir[name[p]]]]
           /\ Goto(p, "unlink")
           /\ UNCHANGED <<name, failed>>
  <2> DEFINE i == dir[name[p]]
  <2>1. i \in Seeds /\ name[p] \in Names
    BY <1>1, <1>5 DEF TypeOK, Directory
  <2>2. file[i] \in Content /\ file[i] \in diskFile[i] /\ dir \in diskDir
    BY <1>1, <2>1 DEF TypeOK, DiskOK
  <2>3. pc' = [pc EXCEPT ![p] = "unlink"] /\ pc'[p] = "unlink" /\ buf'[p] = file[i]
    BY <1>1, <1>5 DEF TypeOK, Goto
  <2>4. pc' \in [Procs -> Places] /\ buf' \in [Procs -> Content]
    BY <1>1, <1>5, <2>2, <2>3 DEF TypeOK, Places
  <2>5. \A q \in Procs : pc'[q] = "idle" \/ lock' = q
    BY <1>1, <1>4, <2>3 DEF TypeOK
  <2>6. TypeOK'
    BY <1>1, <1>2, <1>5, <2>4, <2>5 DEF given, TypeOK, fileFrame, disk
  <2>7. Sane(file[i])
    BY <1>1, <2>1, <2>2 DEF DiskOK
  <2>8. file[i].data # "none" => uses[file[i].seed] = 0 /\ file[i].seed <= runs
    <3> SUFFICES ASSUME file[i].data # "none"
                 PROVE  uses[file[i].seed] = 0 /\ file[i].seed <= runs
      OBVIOUS
    <3>1. file[i].seed \in Seeds
      BY <2>2, <2>7 DEF Sane, Content
    <3>2. uses[file[i].seed] = 0
      BY <1>1, <1>5, <2>1, <2>2, <3>1 DEF Spent, Gone
    <3>3. ~(file[i].seed > runs)
      BY <1>1, <2>1, <2>2, <3>1 DEF Unborn, NoSeed
    <3> QED
      BY <1>1, <3>1, <3>2, <3>3 DEF TypeOK, Seeds
  <2>9. name[p] = CR => Worthy(file[i])
    BY <1>1, <1>5, <2>2 DEF CreditOK
  <2>10. ProcOK(p)'
    BY <1>2, <1>4, <1>5, <2>3, <2>7, <2>8, <2>9
    DEF ProcOK, Held, Early, Late, Sane, Worthy, Sound, given, fileFrame, disk
  <2> QED
    BY <1>3, <1>4, <2>6, <2>10, HolderOK DEF SeedInv
<1>6. CASE NextFile(p) /\ UNCHANGED buf /\ (UNCHANGED failed \/ Fail(p))
  <2>1. failed' \in [Procs -> BOOLEAN]
    BY <1>1, <1>6 DEF TypeOK, Fail
  <2>2. TypeOK'
    BY <1>1, <1>2, <1>4, <1>6, <2>1, NextFileDoes DEF given, TypeOK, fileFrame, disk
  <2>3. ProcOK(p)'
    BY <1>1, <1>4, <1>6, NextFileDoes, NextFileOK
  <2> QED
    BY <1>3, <1>4, <2>2, <2>3, HolderOK DEF SeedInv
<1> QED
  BY <1>5, <1>6 DEF Open

\* seed_from_file_if_exists removes the file it has read.
LEMMA SeedInvUnlink ==
    ASSUME SeedInv, NEW p \in Procs, Unlink(p)
    PROVE  SeedInv'
<1>1. /\ TypeOK /\ DiskOK /\ Unborn /\ Spent /\ CreditOK /\ UsedOnce /\ ProcOK(p)
      /\ pc[p] = "unlink" /\ lock = p /\ runs < MaxRuns
  BY AtWork DEF SeedInv, Unlink, ProcOK, Early
<1>2. UNCHANGED <<buf, fileFrame, file, diskFile, ready, uses, credited>>
  BY DEF Unlink
<1>3. runs' < MaxRuns /\ lock' = p
  BY <1>1, <1>2 DEF fileFrame
<1>4. CASE /\ SetDir([dir EXCEPT ![name[p]] = 0])
           /\ Goto(p, "fsync_dir")
           /\ UNCHANGED <<name, failed>>
  <2> DEFINE d == [dir EXCEPT ![name[p]] = 0]
  <2>1. /\ d \in Directory /\ d[name[p]] = 0
        /\ \A n \in Names : d[n] = 0 \/ (n # name[p] /\ d[n] = dir[n])
    BY <1>1 DEF TypeOK, Directory
  <2>2. dir' = d /\ diskDir' = diskDir \cup {d} /\ dir \in diskDir
    BY <1>1, <1>4 DEF SetDir, DiskOK
  <2>3. NC \in Names /\ CR \in Names
    BY DEF NC, CR, Names
  <2>4. pc' = [pc EXCEPT ![p] = "fsync_dir"] /\ pc'[p] = "fsync_dir"
    BY <1>1, <1>4 DEF TypeOK, Goto
  <2>5. pc' \in [Procs -> Places] /\ \A q \in Procs : pc'[q] = "idle" \/ lock' = q
    BY <1>1, <1>3, <2>4 DEF TypeOK, Places
  <2> HIDE DEF d
  <2>6. TypeOK'
    BY <1>1, <1>2, <1>4, <2>1, <2>2, <2>5 DEF given, TypeOK, fileFrame
  <2>7. DiskOK'
    BY <1>1, <1>2, <2>1, <2>2, <2>3 DEF DiskOK, Sane
  <2>8. Unborn'
    <3> SUFFICES ASSUME NEW s \in Seeds, s > runs
                 PROVE  (NoSeed(s) /\ NoInode(s))'
      BY <1>2 DEF Unborn, fileFrame
    <3>1. NoSeed(s) /\ NoInode(s) /\ s # 0
      BY <1>1 DEF Unborn, Seeds
    <3> QED
      BY <1>2, <2>1, <2>2, <3>1 DEF NoSeed, NoInode
  <2>9. \A s : Gone(dir, s) => Gone(d, s)
    BY <2>1 DEF Gone
  <2>10. Spent' /\ CreditOK' /\ UsedOnce'
    BY <1>1, <1>2, <2>1, <2>2, <2>3, <2>9
    DEF Spent, CreditOK, UsedOnce, Gone, Worthy, Sound, given, fileFrame
  <2>11. buf[p].data # "none" => Gone(d, buf[p].seed)
    <3> SUFFICES ASSUME buf[p].data # "none", NEW n \in Names, d[n] # 0,
                        NEW c \in diskFile[d[n]]
                 PROVE  c.seed # buf[p].seed
      BY DEF Gone
    <3>1. dir[name[p]] # 0 /\ buf[p] = file[dir[name[p]]] /\ buf[p].seed # 0
      BY <1>1 DEF ProcOK, Held, Sane
    <3>2. n # name[p] /\ d[n] = dir[n] /\ name[p] \in Names
      BY <1>1, <2>1 DEF TypeOK
    <3>3. dir[n] # dir[name[p]] /\ dir[n] \in Seeds /\ dir[name[p]] \in Seeds
      BY <1>1, <2>2, <3>1, <3>2 DEF DiskOK, Names, NC, CR, TypeOK, Directory
    <3>4. buf[p] \in diskFile[dir[name[p]]]
      BY <1>1, <3>1, <3>3 DEF DiskOK
    <3> QED
      BY <1>1, <3>1, <3>2, <3>3, <3>4 DEF DiskOK
  <2>12. ProcOK(p)'
    BY <1>1, <1>2, <1>3, <1>4, <2>2, <2>4, <2>11
    DEF ProcOK, Held, Gone, Early, Late, Sane, Worthy, Sound, given, fileFrame
  <2> QED
    BY <1>3, <2>6, <2>7, <2>8, <2>10, <2>12, HolderOK DEF SeedInv
<1>5. CASE /\ NextFile(p)
           /\ IF buf[p].data # "none" THEN Fail(p) ELSE UNCHANGED failed
           /\ UNCHANGED <<dir, diskDir>>
  <2>1. failed' \in [Procs -> BOOLEAN]
    BY <1>1, <1>5 DEF TypeOK, Fail
  <2>2. TypeOK'
    BY <1>1, <1>2, <1>3, <1>5, <2>1, NextFileDoes DEF given, TypeOK, fileFrame
  <2>3. DiskOK' /\ Unborn' /\ Spent' /\ CreditOK' /\ UsedOnce'
    BY <1>1, <1>2, <1>5 DEF fileFrame, DiskOK, Unborn, Spent, CreditOK, UsedOnce,
           NoSeed, NoInode, Gone, Worthy, Sound, given
  <2>4. ProcOK(p)'
    BY <1>1, <1>3, <1>5, NextFileDoes, NextFileOK
  <2> QED
    BY <1>3, <2>2, <2>3, <2>4, HolderOK DEF SeedInv
<1> QED
  BY <1>4, <1>5 DEF Unlink

\* seed_from_file_if_exists makes the removal durable.
LEMMA SeedInvFsyncDir ==
    ASSUME SeedInv, NEW p \in Procs, FsyncDir(p)
    PROVE  SeedInv'
<1>1. /\ TypeOK /\ DiskOK /\ Unborn /\ Spent /\ CreditOK /\ UsedOnce /\ ProcOK(p)
      /\ pc[p] = "fsync_dir" /\ lock = p /\ runs < MaxRuns
  BY AtWork DEF SeedInv, FsyncDir, ProcOK, Early
<1>2. UNCHANGED <<buf, fileFrame, dir, file, diskFile, ready, uses, credited>>
  BY DEF FsyncDir
<1>3. runs' < MaxRuns /\ lock' = p
  BY <1>1, <1>2 DEF fileFrame
<1>4. failed' \in [Procs -> BOOLEAN]
  BY <1>1 DEF TypeOK, Fail, FsyncDir
<1>5. diskDir' = {dir} \/ diskDir' = diskDir
  BY DEF FsyncDir
<1>6. diskDir' \subseteq diskDir /\ dir' \in diskDir' /\ diskDir \subseteq Directory
  BY <1>1, <1>2, <1>5 DEF DiskOK, TypeOK
<1>7. \A D \in diskDir' : D[CR] # 0 => D[CR] # dir'[NC]
  BY <1>1, <1>2, <1>6 DEF DiskOK
<1>8. UNCHANGED <<runs, uses, drawn, getrandom, credited, file, diskFile>>
  BY <1>2 DEF given, fileFrame
<1>9. DiskOK' /\ Unborn' /\ Spent' /\ CreditOK'
  <2>1. \A i \in Seeds : file'[i] \in diskFile'[i] /\ diskFile'[i] \subseteq diskFile[i]
    BY <1>1, <1>8 DEF DiskOK
  <2> QED
    BY <1>1, <1>6, <1>7, <1>8, <2>1, Forgotten
<1>10. UsedOnce'
  BY <1>1, <1>8 DEF UsedOnce
<1>11. CASE NextFile(p)
  <2>1. TypeOK'
    BY <1>1, <1>2, <1>3, <1>4, <1>6, <1>11, NextFileDoes DEF given, TypeOK, fileFrame
  <2>2. ProcOK(p)'
    BY <1>1, <1>3, <1>11, NextFileDoes, NextFileOK
  <2> QED
    BY <1>3, <1>9, <1>10, <2>1, <2>2, HolderOK DEF SeedInv
<1>12. CASE /\ buf[p].data # "none"
            /\ Goto(p, "seed")
            /\ UNCHANGED name
            /\ diskDir' = {dir}
  <2>1. pc' = [pc EXCEPT ![p] = "seed"] /\ pc'[p] = "seed"
    BY <1>1, <1>12 DEF TypeOK, Goto
  <2>2. pc' \in [Procs -> Places] /\ \A q \in Procs : pc'[q] = "idle" \/ lock' = q
    BY <1>1, <1>3, <2>1 DEF TypeOK, Places
  <2>3. TypeOK'
    BY <1>1, <1>2, <1>4, <1>6, <1>12, <2>2 DEF given, TypeOK, fileFrame
  <2>4. Gone(dir, buf[p].seed)
    BY <1>1, <1>12 DEF ProcOK
  <2>5. ProcOK(p)'
    BY <1>1, <1>2, <1>3, <1>8, <1>12, <2>1, <2>4
    DEF ProcOK, Held, Gone, Early, Late, Sane, Worthy, Sound, given
  <2> QED
    BY <1>3, <1>9, <1>10, <2>3, <2>5, HolderOK DEF SeedInv
<1> QED
  BY <1>11, <1>12 DEF FsyncDir

\* seed_rng feeds the seed to the kernel.
LEMMA SeedInvSeed ==
    ASSUME SeedInv, NEW p \in Procs, Seed(p)
    PROVE  SeedInv'
<1>1. /\ TypeOK /\ DiskOK /\ Unborn /\ Spent /\ CreditOK /\ UsedOnce /\ ProcOK(p)
      /\ pc[p] = "seed" /\ lock = p /\ runs < MaxRuns /\ Held(p)
  BY AtWork DEF SeedInv, Seed, ProcOK, Early
<1>2. UNCHANGED <<buf, fileFrame, disk>> /\ NextFile(p)
  BY DEF Seed
<1>3. runs' < MaxRuns /\ lock' = p
  BY <1>1, <1>2 DEF fileFrame
<1>4. failed' \in [Procs -> BOOLEAN]
  BY <1>1 DEF TypeOK, Fail, Seed
<1>5. ProcOK(p)'
  BY <1>1, <1>2, <1>3, NextFileDoes, NextFileOK
<1>6. DiskOK'
  BY <1>1, <1>2 DEF DiskOK, Sane, disk
<1>7. CASE UNCHANGED <<uses, credited, ready>>
  <2>1. TypeOK'
    BY <1>1, <1>2, <1>3, <1>4, <1>7, NextFileDoes DEF given, TypeOK, fileFrame, disk
  <2>2. Unborn' /\ Spent' /\ CreditOK' /\ UsedOnce'
    BY <1>1, <1>2, <1>7 DEF fileFrame, disk, Unborn, Spent, CreditOK, UsedOnce,
           NoSeed, NoInode, Gone, Worthy, Sound, given
  <2> QED
    BY <1>3, <1>5, <1>6, <2>1, <2>2, HolderOK DEF SeedInv
<1>8. CASE /\ uses' = [uses EXCEPT ![buf[p].seed] = IF @ < 2 THEN @ + 1 ELSE @]
           /\ credited' = IF Credit(p) THEN credited \cup {buf[p]} ELSE credited
           /\ ready' = (ready \/ Credit(p))
  <2> DEFINE s == buf[p].seed
  <2>1. s \in Seeds /\ buf[p] \in Content /\ uses[s] = 0 /\ s <= runs
    BY <1>1 DEF ProcOK, Held, Sane, TypeOK, Content
  <2>2. \A D \in diskDir : Gone(D, s)
    BY <1>1 DEF ProcOK
  <2>3. /\ uses' \in [Seeds -> 0..2] /\ uses'[s] = 1
        /\ \A r \in Seeds : r # s => uses'[r] = uses[r]
    BY <1>1, <1>8, <2>1 DEF TypeOK
  <2>4. credited' \subseteq Content /\ ready' \in BOOLEAN
    BY <1>1, <1>8, <2>1 DEF TypeOK, Credit
  <2>5. TypeOK'
    BY <1>1, <1>2, <1>3, <1>4, <2>3, <2>4, NextFileDoes DEF given, TypeOK, fileFrame, disk
  <2>6. runs \in Nat /\ s \in Nat
    BY <1>1, <2>1 DEF TypeOK, Seeds
  <2> HIDE DEF s
  <2>7. Unborn'
    <3> SUFFICES ASSUME NEW r \in Seeds, r > runs
                 PROVE  (NoSeed(r) /\ NoInode(r))'
      BY <1>2 DEF Unborn, fileFrame
    <3>1. NoSeed(r) /\ NoInode(r)
      BY <1>1 DEF Unborn
    <3>2. r # s
      BY <2>1, <2>6
    <3> QED
      BY <1>2, <2>3, <3>1, <3>2 DEF NoSeed, NoInode, disk
  <2>8. Spent'
    BY <1>1, <1>2, <2>1, <2>2, <2>3 DEF Spent, Gone, disk
  <2>9. UsedOnce'
    BY <1>1, <2>3 DEF UsedOnce
  <2>10. \A c \in credited' : Worthy(c)
    BY <1>1, <1>8 DEF CreditOK, Credit, Held, CR
  <2>11. CreditOK'
    BY <1>1, <1>2, <2>10 DEF CreditOK, Worthy, Sound, given, disk, fileFrame
  <2> QED
    BY <1>3, <1>5, <1>6, <2>5, <2>7, <2>8, <2>9, <2>11, HolderOK DEF SeedInv
<1> QED
  BY <1>7, <1>8 DEF Seed

\* read_new_seed draws the new seed.
LEMMA SeedInvDraw ==
    ASSUME SeedInv, NEW p \in Procs, Draw(p)
    PROVE  SeedInv'
<1>1. /\ TypeOK /\ DiskOK /\ Unborn /\ Spent /\ CreditOK /\ UsedOnce /\ ProcOK(p)
      /\ pc[p] = "draw" /\ lock = p /\ runs < MaxRuns
  BY AtWork DEF SeedInv, Draw, ProcOK, Early
<1>2. UNCHANGED <<newFrame, disk>> /\ lock' = p
  BY <1>1 DEF Draw, newFrame
<1>3. PICK s \in Seeds : s = runs + 1 /\ s \in 0..MaxRuns /\ s > runs /\ runs \in Nat
  BY <1>1, SeedAssumption DEF TypeOK, Seeds
<1>4. runs' = s /\ new' = [new EXCEPT ![p] = s] /\ new'[p] = s
  BY <1>1, <1>3 DEF Draw, TypeOK
<1>5. pc' = [pc EXCEPT ![p] = "create"] /\ pc'[p] = "create"
  BY <1>1 DEF Draw, TypeOK, Goto
<1>6. PICK cr \in {FALSE, ready}, read \in BOOLEAN :
         /\ cr => read \/ ~getrandom
         /\ creditable' = [creditable EXCEPT ![p] = cr]
         /\ IF read THEN UNCHANGED failed ELSE Fail(p)
         /\ drawn' = IF ~cr THEN drawn ELSE drawn \cup {[seed |-> s, from |-> Origin(read)]}
  BY <1>3, Zenon DEF Draw
<1>7. /\ creditable' \in [Procs -> BOOLEAN] /\ failed' \in [Procs -> BOOLEAN]
      /\ creditable'[p] = cr /\ cr \in BOOLEAN /\ (cr => ready)
  <2>1. cr \in BOOLEAN /\ ready \in BOOLEAN /\ creditable \in [Procs -> BOOLEAN]
    BY <1>1, <1>6 DEF TypeOK
  <2>2. creditable'[p] = cr /\ creditable' \in [Procs -> BOOLEAN]
    BY <1>6, <2>1
  <2>3. cr => ready
    BY <1>6, Zenon
  <2>4. failed' \in [Procs -> BOOLEAN]
    BY <1>1, <1>6 DEF TypeOK, Fail
  <2> QED
    BY <2>1, <2>2, <2>3, <2>4
<1>7a. /\ drawn \subseteq drawn' /\ drawn' \subseteq [seed : Seeds, from : Origins]
       /\ creditable'[p] => Sound(s)'
  <2>1. Origin(read) \in Origins
    BY DEF Origin, Origins
  <2>2. [seed |-> s, from |-> Origin(read)] \in [seed : Seeds, from : Origins]
    BY <1>3, <2>1
  <2>3. drawn \subseteq drawn' /\ drawn' \subseteq [seed : Seeds, from : Origins]
    BY <1>1, <1>6, <2>2 DEF TypeOK
  <2>4. ASSUME cr PROVE Sound(s)'
    <3>1. [seed |-> s, from |-> Origin(read)] \in drawn' /\ ready /\ (read \/ ~getrandom)
      BY <1>6, <1>7, <2>4
    <3>2. CASE read
      <4>1. Origin(read) = "ready"
        BY <3>1, <3>2 DEF Origin
      <4> QED
        BY <3>1, <4>1 DEF Sound
    <3>3. CASE ~read
      <4>1. Origin(read) = "failure"
        BY <3>3 DEF Origin
      <4>2. ~getrandom'
        BY <1>2, <3>1, <3>3 DEF newFrame, given
      <4> QED
        BY <3>1, <4>1, <4>2 DEF Sound
    <3> QED
      BY <3>2, <3>3
  <2> QED
    BY <1>7, <2>3, <2>4
<1>8. TypeOK'
  <2>1. pc' \in [Procs -> Places] /\ \A q \in Procs : pc'[q] = "idle" \/ lock' = q
    BY <1>1, <1>2, <1>5 DEF TypeOK, Places
  <2>2. new' \in [Procs -> {0} \cup Seeds]
    BY <1>1, <1>3, <1>4 DEF TypeOK
  <2> QED
    BY <1>1, <1>2, <1>3, <1>4, <1>7, <1>7a, <2>1, <2>2 DEF TypeOK, newFrame, disk, given
<1>9. DiskOK' /\ Spent' /\ UsedOnce'
  BY <1>1, <1>2 DEF newFrame, disk, DiskOK, Sane, Spent, Gone, UsedOnce
<1>10. Unborn'
  <2> SUFFICES ASSUME NEW r \in Seeds, r > s
               PROVE  (NoSeed(r) /\ NoInode(r))'
    BY <1>4 DEF Unborn
  <2>1. r > runs
    BY <1>3 DEF Seeds
  <2> QED
    BY <1>1, <1>2, <2>1 DEF Unborn, NoSeed, NoInode, newFrame, disk
<1>11. CreditOK'
  BY <1>1, <1>2, <1>7a DEF CreditOK, Worthy, Sound, given, newFrame, disk
<1>12. (NoSeed(new[p]) /\ NoInode(new[p]))'
  BY <1>1, <1>2, <1>3, <1>4 DEF Unborn, NoSeed, NoInode, newFrame, disk
<1>13. Drawn(p)'
  BY <1>3, <1>4, <1>7, <1>7a DEF Drawn, Seeds
<1>14. ProcOK(p)'
  BY <1>5, <1>12, <1>13 DEF ProcOK, Early, Late
<1> QED
  BY <1>2, <1>8, <1>9, <1>10, <1>11, <1>14, HolderOK DEF SeedInv

\* main ends after an error: it has nothing to keep but the seed it drew.
LEMMA FailedOK ==
    ASSUME NEW p, pc'[p] = "out", failed'[p] = TRUE, Drawn(p)'
    PROVE  ProcOK(p)'
BY DEF ProcOK, Early

\* What the steps that save the seed leave alone.
LEMMA SaveFrame ==
    ASSUME TypeOK, NEW p \in Procs, pc[p] # "idle", UNCHANGED saveFrame, Drawn(p), UsedOnce,
           NEW l \in Places, Goto(p, l),
           file' \in [Seeds -> Content], diskFile' \in [Seeds -> SUBSET Content],
           dir' \in Directory, diskDir' \subseteq Directory,
           UNCHANGED failed \/ Fail(p)
    PROVE  /\ TypeOK' /\ Drawn(p)' /\ UsedOnce'
           /\ lock' = p /\ pc'[p] = l
           /\ Fail(p) => failed'[p] = TRUE
<1>1. lock = p
  BY AtWork
<1>2. pc' = [pc EXCEPT ![p] = l]
  BY DEF Goto
<1>3. /\ pc' \in [Procs -> Places] /\ pc'[p] = l /\ lock' = p
      /\ \A q \in Procs : pc'[q] = "idle" \/ lock' = q
  BY <1>1, <1>2 DEF TypeOK, saveFrame, newFrame, given
<1>4. failed' \in [Procs -> BOOLEAN] /\ (Fail(p) => failed'[p] = TRUE)
  BY DEF TypeOK, Fail
<1>5. TypeOK'
  BY <1>3, <1>4 DEF TypeOK, saveFrame, newFrame, given
<1> QED
  BY <1>3, <1>4, <1>5 DEF Drawn, Sound, UsedOnce, saveFrame, newFrame, given

\* main creates seed.no-credit, or empties it.
LEMMA SeedInvCreate ==
    ASSUME SeedInv, NEW p \in Procs, Create(p)
    PROVE  SeedInv'
<1>1. /\ TypeOK /\ DiskOK /\ Unborn /\ Spent /\ CreditOK /\ UsedOnce
      /\ pc[p] = "create" /\ Drawn(p) /\ NoSeed(new[p]) /\ NoInode(new[p])
  BY DEF SeedInv, Create, ProcOK, Late
<1> DEFINE old == dir[NC]
           i == IF old = 0 THEN new[p] ELSE old
<1>2. UNCHANGED saveFrame
  BY DEF Create
<1>3. UNCHANGED <<runs, uses, drawn, getrandom, credited, new>>
  BY <1>2 DEF saveFrame, newFrame, given
<1>4. i \in Seeds /\ NC \in Names /\ CR \in Names /\ new[p] \in Seeds /\ Empty \in Content
  BY <1>1 DEF TypeOK, Drawn, Directory, NC, CR, Names, Empty, Content
<1>5. CASE Fail(p) /\ Goto(p, "out") /\ UNCHANGED disk
  <2>1. TypeOK' /\ Drawn(p)' /\ UsedOnce' /\ lock' = p /\ pc'[p] = "out" /\ failed'[p] = TRUE
    BY <1>1, <1>2, <1>5, SaveFrame DEF TypeOK, Places, disk
  <2>2. DiskOK' /\ Unborn' /\ Spent' /\ CreditOK'
    BY <1>1, <1>3, <1>5 DEF disk, DiskOK, Unborn, Spent, CreditOK,
           NoSeed, NoInode, Gone, Worthy, Sound, given
  <2> QED
    BY <2>1, <2>2, FailedOK, HolderOK DEF SeedInv
<1>6. CASE /\ SetFile(i, {Empty}, Empty)
           /\ IF old = 0 THEN SetDir([dir EXCEPT ![NC] = i]) ELSE UNCHANGED <<dir, diskDir>>
           /\ Goto(p, "write")
           /\ UNCHANGED failed
  <2>1. CASE old # 0
    <3>1. i = old /\ UNCHANGED <<dir, diskDir>>
      BY <1>6, <2>1
    <3>2. Sane(Empty) /\ Empty.seed = 0
      BY DEF Sane, Empty
    <3>3. /\ DiskOK' /\ Unborn' /\ Spent' /\ CreditOK'
          /\ file' \in [Seeds -> Content] /\ diskFile' \in [Seeds -> SUBSET Content]
      <4>1. UNCHANGED <<dir, diskDir, runs, uses, drawn, getrandom, credited>>
        BY <1>3, <3>1
      <4>2. SetFile(old, {Empty}, Empty) /\ old \in Seeds
        BY <1>4, <1>6, <3>1
      <4>3. {Empty} \in SUBSET Content
        BY <1>4
      <4> QED
        BY <1>1, <3>2, <4>1, <4>2, <4>3, Written
    <3>4. /\ TypeOK' /\ Drawn(p)' /\ UsedOnce' /\ lock' = p /\ pc'[p] = "write"
      BY <1>1, <1>2, <1>6, <3>1, <3>3, SaveFrame DEF TypeOK, Places
    <3>5. NoSeed(new[p])'
      BY <1>1, <1>3, <1>4, <1>6, <3>1, <3>2 DEF NoSeed, SetFile, Seeds, TypeOK
    <3>6. ProcOK(p)'
      BY <2>1, <3>1, <3>4, <3>5 DEF ProcOK, Early, Late
    <3> QED
      BY <3>3, <3>4, <3>6, HolderOK DEF SeedInv
  <2>2. CASE old = 0
    <3> DEFINE d == [dir EXCEPT ![NC] = i]
    <3>1. i = new[p] /\ dir' = d /\ diskDir' = diskDir \cup {d}
      BY <1>6, <2>2 DEF SetDir
    <3>2. diskFile[i] = {Empty} /\ file[i] = Empty
      BY <1>1, <1>4, <3>1 DEF NoInode, DiskOK
    <3>3. file' = file /\ diskFile' = diskFile
      BY <1>1, <1>4, <1>6, <3>2 DEF SetFile, TypeOK
    <3>4. /\ d \in Directory /\ d[NC] = i /\ d[CR] = dir[CR] /\ i # 0
          /\ \A n \in Names : n = NC \/ n = CR
      BY <1>1, <1>4 DEF TypeOK, Directory, Names, NC, CR, Seeds
    <3> HIDE DEF d, i
    <3>5. /\ TypeOK' /\ Drawn(p)' /\ UsedOnce' /\ lock' = p /\ pc'[p] = "write"
      BY <1>1, <1>2, <1>6, <3>1, <3>3, <3>4, SaveFrame DEF TypeOK, Places
    <3>6. DiskOK'
      BY <1>1, <1>4, <2>2, <3>1, <3>3, <3>4 DEF DiskOK, Sane, NoInode
    <3>7. Unborn'
      <4> SUFFICES ASSUME NEW s \in Seeds, s > runs
                   PROVE  (NoSeed(s) /\ NoInode(s))'
        BY <1>3 DEF Unborn
      <4>1. NoSeed(s) /\ NoInode(s)
        BY <1>1 DEF Unborn
      <4>2. s # i
        BY <1>1, <3>1 DEF Drawn, Seeds, TypeOK
      <4> QED
        BY <1>1, <1>3, <3>1, <3>3, <3>4, <4>1, <4>2 DEF NoSeed, NoInode, DiskOK
    <3>8. Spent'
      <4> SUFFICES ASSUME NEW s \in Seeds, uses[s] # 0, NEW n \in Names, d[n] # 0,
                          NEW c \in diskFile[d[n]]
                   PROVE  c.seed # s
        BY <1>1, <1>3, <3>1, <3>3 DEF Spent, Gone
      <4>1. CASE n = NC
        BY <3>2, <3>4, <4>1 DEF Empty, Seeds
      <4>2. CASE n = CR
        BY <1>1, <3>4, <4>2 DEF Spent, Gone, DiskOK
      <4> QED
        BY <3>4, <4>1, <4>2
    <3>9. CreditOK'
      BY <1>1, <1>3, <3>1, <3>3, <3>4 DEF CreditOK, Worthy, Sound, given, DiskOK
    <3>10. ProcOK(p)'
      BY <1>1, <1>3, <3>1, <3>3, <3>4, <3>5 DEF ProcOK, Early, Late, NoSeed
    <3> QED
      BY <3>5, <3>6, <3>7, <3>8, <3>9, <3>10, HolderOK DEF SeedInv
  <2> QED
    BY <2>1, <2>2
<1> QED
  BY <1>5, <1>6 DEF Create, NC

\* main writes the new seed.
LEMMA SeedInvWrite ==
    ASSUME SeedInv, NEW p \in Procs, Write(p)
    PROVE  SeedInv'
<1> DEFINE Part(d) == [seed |-> new[p], data |-> d]
           i == dir[NC]
<1>1. /\ TypeOK /\ DiskOK /\ Unborn /\ Spent /\ CreditOK /\ UsedOnce
      /\ pc[p] = "write" /\ Drawn(p) /\ NoSeed(new[p]) /\ i # 0
  BY DEF SeedInv, Write, ProcOK, Late
<1>2. UNCHANGED <<dir, diskDir, saveFrame>>
  BY DEF Write
<1>3. UNCHANGED <<dir, diskDir, runs, uses, drawn, getrandom, credited, new>>
  BY <1>2 DEF saveFrame, newFrame, given
<1>4. i \in Seeds /\ new[p] \in Seeds /\ new[p] # 0 /\ new[p] <= runs
  BY <1>1 DEF TypeOK, Drawn, Directory, NC, Names, Seeds
<1>5. \A d \in {"part", "full"} :
         Part(d) \in Content /\ Sane(Part(d)) /\ Part(d).seed = new[p]
  BY <1>4 DEF Content, Sane
<1>6. CASE /\ SetFile(i, {Part("part"), Part("full")}, Part("full"))
           /\ Goto(p, "fsync") /\ UNCHANGED failed
  <2> DEFINE cs == {Part("part"), Part("full")}
  <2>1. cs \in SUBSET Content /\ Part("full") \in cs /\ SetFile(i, cs, Part("full"))
    BY <1>5, <1>6
  <2>2. \A e \in cs : Sane(e) /\ e.seed = new[p]
    BY <1>5
  <2> DEFINE c == Part("full")
  <2> HIDE DEF cs, i, c
  <2>3. /\ DiskOK' /\ Unborn' /\ Spent' /\ CreditOK'
        /\ file' \in [Seeds -> Content] /\ diskFile' \in [Seeds -> SUBSET Content]
        /\ file'[i] = c
    <3>1. /\ c \in cs /\ SetFile(i, cs, c) /\ dir[NC] = i
          /\ \A e \in cs : Sane(e) /\ (e.seed # 0 => NoSeed(e.seed) /\ e.seed <= runs)
          /\ \A e, g \in cs : e.seed = g.seed
      BY <1>1, <1>4, <2>1, <2>2 DEF i, c
    <3> QED
      BY <1>1, <1>3, <1>4, <2>1, <3>1, Written
  <2>4. /\ TypeOK' /\ Drawn(p)' /\ UsedOnce' /\ lock' = p /\ pc'[p] = "fsync"
    BY <1>1, <1>2, <1>6, <2>3, SaveFrame DEF TypeOK, Places
  <2>5. ProcOK(p)'
    BY <1>1, <1>3, <2>3, <2>4 DEF ProcOK, Early, Late, Whole, c, i
  <2> QED
    BY <2>3, <2>4, <2>5, HolderOK DEF SeedInv
<1>7. CASE /\ SetFile(i, {Part("part")}, Part("part"))
           /\ Goto(p, "out") /\ Fail(p)
  <2> DEFINE cs == {Part("part")}
  <2>1. cs \in SUBSET Content /\ Part("part") \in cs /\ SetFile(i, cs, Part("part"))
    BY <1>5, <1>7
  <2>2. \A e \in cs : Sane(e) /\ e.seed = new[p]
    BY <1>5
  <2> HIDE DEF cs, Part, i
  <2>3. /\ DiskOK' /\ Unborn' /\ Spent' /\ CreditOK'
        /\ file' \in [Seeds -> Content] /\ diskFile' \in [Seeds -> SUBSET Content]
    BY <1>1, <1>3, <1>4, <2>1, <2>2, Written DEF i
  <2>4. /\ TypeOK' /\ Drawn(p)' /\ UsedOnce' /\ lock' = p /\ pc'[p] = "out"
        /\ failed'[p] = TRUE
    BY <1>1, <1>2, <1>7, <2>3, SaveFrame DEF TypeOK, Places
  <2> QED
    BY <2>3, <2>4, FailedOK, HolderOK DEF SeedInv
<1>8. CASE Goto(p, "out") /\ Fail(p) /\ UNCHANGED <<file, diskFile>>
  <2>1. /\ TypeOK' /\ Drawn(p)' /\ UsedOnce' /\ lock' = p /\ pc'[p] = "out"
        /\ failed'[p] = TRUE
    BY <1>1, <1>2, <1>8, SaveFrame DEF TypeOK, Places
  <2>2. DiskOK' /\ Unborn' /\ Spent' /\ CreditOK'
    BY <1>1, <1>3, <1>8 DEF DiskOK, Unborn, Spent, CreditOK, NoSeed, NoInode, Gone, Worthy, Sound, given
  <2> QED
    BY <2>1, <2>2, FailedOK, HolderOK DEF SeedInv
<1> QED
  BY <1>6, <1>7, <1>8 DEF Write, NC

\* main syncs the new seed.
LEMMA SeedInvFsync ==
    ASSUME SeedInv, NEW p \in Procs, Fsync(p)
    PROVE  SeedInv'
<1> DEFINE i == dir[NC]
<1>1. /\ TypeOK /\ DiskOK /\ Unborn /\ Spent /\ CreditOK /\ UsedOnce
      /\ pc[p] = "fsync" /\ Drawn(p) /\ i # 0 /\ file[i] = Whole(new[p])
  BY DEF SeedInv, Fsync, ProcOK, Late
<1>2. UNCHANGED <<dir, file, diskDir, saveFrame>>
  BY DEF Fsync
<1>3. UNCHANGED <<dir, file, diskDir, runs, uses, drawn, getrandom, credited, new, creditable>>
  BY <1>2 DEF saveFrame, newFrame, given
<1>4. i \in Seeds /\ file[i] \in diskFile[i] /\ diskFile[i] \subseteq Content
  BY <1>1 DEF TypeOK, Directory, NC, Names, DiskOK
<1>5. CASE /\ diskFile' = [diskFile EXCEPT ![i] = {file[i]}]
           /\ Goto(p, IF creditable[p] THEN "rename" ELSE "out")
           /\ UNCHANGED failed
  <2>1. /\ diskFile' \in [Seeds -> SUBSET Content] /\ diskFile'[i] = {file[i]}
        /\ \A j \in Seeds : file'[j] \in diskFile'[j] /\ diskFile'[j] \subseteq diskFile[j]
    <3>1. {file[i]} \in SUBSET Content
      BY <1>4
    <3>2. diskFile \in [Seeds -> SUBSET Content]
      BY <1>1 DEF TypeOK
    <3>3. /\ diskFile' \in [Seeds -> SUBSET Content] /\ diskFile'[i] = {file[i]}
          /\ \A j \in Seeds : j # i => diskFile'[j] = diskFile[j]
      BY <1>4, <1>5, <3>1, <3>2
    <3> QED
      BY <1>1, <1>3, <1>4, <3>3 DEF DiskOK
  <2>2. diskDir \subseteq Directory /\ dir \in diskDir
    BY <1>1 DEF TypeOK, DiskOK
  <2>3. \A D \in diskDir' : D[CR] # 0 => D[CR] # dir'[NC]
    BY <1>1, <1>3 DEF DiskOK
  <2>4. DiskOK' /\ Unborn' /\ Spent' /\ CreditOK'
    BY <1>1, <1>3, <2>1, <2>2, <2>3, Forgotten
  <2>5. CASE creditable[p]
    <3>1. TypeOK' /\ Drawn(p)' /\ UsedOnce' /\ lock' = p /\ pc'[p] = "rename"
      BY <1>1, <1>2, <1>5, <2>1, <2>5, SaveFrame DEF TypeOK, Places
    <3>2. ProcOK(p)'
      BY <1>1, <1>3, <2>1, <2>5, <3>1 DEF ProcOK, Early, Late, Whole
    <3> QED
      BY <2>4, <3>1, <3>2, HolderOK DEF SeedInv
  <2>6. CASE ~creditable[p]
    <3>1. TypeOK' /\ Drawn(p)' /\ UsedOnce' /\ lock' = p /\ pc'[p] = "out"
      BY <1>1, <1>2, <1>5, <2>1, <2>6, SaveFrame DEF TypeOK, Places
    <3>2. Saved(p)'
      BY <1>1, <1>3, <2>1, <2>6 DEF Saved, Whole
    <3>3. ProcOK(p)'
      BY <3>1, <3>2 DEF ProcOK, Early
    <3> QED
      BY <2>4, <3>1, <3>3, HolderOK DEF SeedInv
  <2> QED
    BY <2>5, <2>6
<1>6. CASE Fail(p) /\ Goto(p, "out") /\ UNCHANGED diskFile
  <2>1. /\ TypeOK' /\ Drawn(p)' /\ UsedOnce' /\ lock' = p /\ pc'[p] = "out"
        /\ failed'[p] = TRUE
    BY <1>1, <1>2, <1>6, SaveFrame DEF TypeOK, Places
  <2>2. DiskOK' /\ Unborn' /\ Spent' /\ CreditOK'
    BY <1>1, <1>3, <1>6 DEF DiskOK, Unborn, Spent, CreditOK, NoSeed, NoInode, Gone, Worthy, Sound, given
  <2> QED
    BY <2>1, <2>2, FailedOK, HolderOK DEF SeedInv
<1> QED
  BY <1>5, <1>6 DEF Fsync, NC

\* main renames a creditable seed to seed.credit.
LEMMA SeedInvRename ==
    ASSUME SeedInv, NEW p \in Procs, Rename(p)
    PROVE  SeedInv'
<1> DEFINE d == [n \in Names |-> IF n = CR THEN dir[NC] ELSE 0]
<1>1. /\ TypeOK /\ DiskOK /\ Unborn /\ Spent /\ CreditOK /\ UsedOnce
      /\ pc[p] = "rename" /\ Drawn(p) /\ dir[NC] # 0
      /\ creditable[p] /\ diskFile[dir[NC]] = {Whole(new[p])}
  BY DEF SeedInv, Rename, ProcOK, Late
<1>2. UNCHANGED <<file, diskFile, saveFrame>> /\ Goto(p, "out")
  BY DEF Rename
<1>3. UNCHANGED <<file, diskFile, runs, uses, drawn, getrandom, credited, new, creditable>>
  BY <1>2 DEF saveFrame, newFrame, given
<1>4. CASE SetDir(d) /\ UNCHANGED failed
  <2>1. /\ d \in Directory /\ d[CR] = dir[NC] /\ d[NC] = 0 /\ NC \in Names /\ CR \in Names
        /\ \A n \in Names : n = NC \/ n = CR
    BY <1>1 DEF TypeOK, Directory, Names, NC, CR
  <2>2. dir' = d /\ diskDir' = diskDir \cup {d} /\ dir \in diskDir
    BY <1>1, <1>4 DEF SetDir, DiskOK
  <2> HIDE DEF d
  <2>3. TypeOK' /\ Drawn(p)' /\ UsedOnce' /\ lock' = p /\ pc'[p] = "out"
    BY <1>1, <1>2, <1>4, <2>1, <2>2, SaveFrame DEF TypeOK, Places
  <2>4. DiskOK'
    BY <1>1, <1>3, <2>1, <2>2 DEF DiskOK, Sane
  <2>5. Unborn'
    <3> SUFFICES ASSUME NEW s \in Seeds, s > runs
                 PROVE  (NoSeed(s) /\ NoInode(s))'
      BY <1>3 DEF Unborn
    <3>1. NoSeed(s) /\ NoInode(s) /\ s # 0
      BY <1>1 DEF Unborn, Seeds
    <3> QED
      BY <1>3, <2>1, <2>2, <3>1 DEF NoSeed, NoInode
  <2>6. Spent'
    BY <1>1, <1>3, <2>1, <2>2 DEF Spent, Gone
  <2>7. Worthy(Whole(new[p]))
    BY <1>1 DEF Worthy, Sound, given, Whole, Drawn
  <2>8. CreditOK'
    BY <1>1, <1>3, <2>1, <2>2, <2>7 DEF CreditOK, Worthy, Sound, given
  <2>9. Saved(p)'
    BY <1>1, <1>3, <2>1, <2>2 DEF Saved, Whole
  <2>10. ProcOK(p)'
    BY <2>3, <2>9 DEF ProcOK, Early
  <2> QED
    BY <2>3, <2>4, <2>5, <2>6, <2>8, <2>10, HolderOK DEF SeedInv
<1>5. CASE Fail(p) /\ UNCHANGED <<dir, diskDir>>
  <2>1. /\ TypeOK' /\ Drawn(p)' /\ UsedOnce' /\ lock' = p /\ pc'[p] = "out"
        /\ failed'[p] = TRUE
    BY <1>1, <1>2, <1>5, SaveFrame DEF TypeOK, Places
  <2>2. DiskOK' /\ Unborn' /\ Spent' /\ CreditOK'
    BY <1>1, <1>3, <1>5 DEF DiskOK, Unborn, Spent, CreditOK, NoSeed, NoInode, Gone, Worthy, Sound, given
  <2> QED
    BY <2>1, <2>2, FailedOK, HolderOK DEF SeedInv
<1> QED
  BY <1>4, <1>5 DEF Rename, NC, CR

\* A run ends, or is killed at any of its system calls.
LEMMA SeedInvLeave ==
    ASSUME SeedInv, NEW p \in Procs, pc[p] # "idle", Leave(p)
    PROVE  SeedInv'
<1>1. /\ TypeOK /\ DiskOK /\ Unborn /\ Spent /\ CreditOK /\ UsedOnce
      /\ lock = p /\ \A q \in Procs : q # p => pc[q] = "idle"
  BY AtWork DEF SeedInv
<1>2. UNCHANGED <<disk, given, ready, runs, crashes, history>>
  BY DEF given, Leave
<1>3. DiskOK' /\ Unborn' /\ Spent' /\ CreditOK' /\ UsedOnce'
  BY <1>1, <1>2 DEF given, disk, history, DiskOK, Unborn, Spent, CreditOK, UsedOnce,
         NoSeed, NoInode, Gone, Worthy, Sound, given
<1>4. pc' \in [Procs -> Places] /\ \A q \in Procs : pc'[q] = "idle"
  BY <1>1 DEF TypeOK, Leave, Goto, Places
<1>5. TypeOK'
  <2>1. Empty \in Content /\ "seed.no-credit" \in Names
    BY DEF Empty, Content, Names
  <2>2. /\ name' \in [Procs -> Names] /\ buf' \in [Procs -> Content]
        /\ new' \in [Procs -> {0} \cup Seeds] /\ creditable' \in [Procs -> BOOLEAN]
        /\ failed' \in [Procs -> BOOLEAN] /\ lock' = None
    BY <1>1, <2>1 DEF TypeOK, Leave
  <2> QED
    BY <1>1, <1>2, <1>4, <2>2 DEF given, TypeOK, disk, history
<1>6. \A q \in Procs : ProcOK(q)'
  BY <1>4 DEF ProcOK, Early, Late
<1> QED
  BY <1>3, <1>5, <1>6 DEF SeedInv

\* The machine crashes and comes up with what was on the disk.
LEMMA SeedInvCrash ==
    ASSUME SeedInv, Crash
    PROVE  SeedInv'
<1>1. TypeOK /\ DiskOK /\ Unborn /\ Spent /\ CreditOK /\ UsedOnce
  BY DEF SeedInv
<1>2. /\ dir' \in diskDir /\ diskDir' = {dir'} /\ diskDir \subseteq Directory
      /\ \A i \in Seeds : file'[i] \in diskFile[i]
      /\ diskFile' = [i \in Seeds |-> {file'[i]}]
  BY <1>1 DEF Crash, TypeOK
<1>3. UNCHANGED <<given, skip, getrandom, runs, drawn, uses, credited>>
  BY DEF given, Crash, history
<1>4. \A i \in Seeds : file'[i] \in diskFile'[i] /\ diskFile'[i] \subseteq diskFile[i]
  BY <1>2
<1>5. \A D \in diskDir' : D[CR] # 0 => D[CR] # dir'[NC]
  BY <1>1, <1>2 DEF DiskOK
<1>6. DiskOK' /\ Unborn' /\ Spent' /\ CreditOK'
  BY <1>1, <1>2, <1>3, <1>4, <1>5, Forgotten
<1>7. UsedOnce'
  BY <1>1, <1>3 DEF UsedOnce
<1>8. TypeOK'
  <2>1. Empty \in Content /\ "seed.no-credit" \in Names /\ "idle" \in Places
    BY DEF Empty, Content, Names, Places
  <2>2. /\ pc' \in [Procs -> Places] /\ \A q \in Procs : pc'[q] = "idle"
        /\ name' \in [Procs -> Names] /\ buf' \in [Procs -> Content]
        /\ new' \in [Procs -> {0} \cup Seeds] /\ creditable' \in [Procs -> BOOLEAN]
        /\ failed' \in [Procs -> BOOLEAN] /\ lock' = None /\ ready' \in BOOLEAN
    BY <2>1 DEF Crash
  <2>3. crashes' \in 0..MaxCrashes
    BY <1>1, SeedAssumption DEF Crash, TypeOK
  <2>4. file' \in [Seeds -> Content]
    <3>1. PICK S : file' \in [Seeds -> S]
      BY DEF Crash
    <3>2. \A i \in Seeds : file'[i] \in Content
      BY <1>1, <1>2 DEF TypeOK
    <3> QED
      BY <3>1, <3>2
  <2>5. diskFile' \in [Seeds -> SUBSET Content]
    BY <1>2, <2>4
  <2> QED
    BY <1>1, <1>2, <1>3, <2>2, <2>3, <2>4, <2>5 DEF TypeOK
<1>9. \A q \in Procs : ProcOK(q)'
  BY DEF Crash, ProcOK, Early, Late
<1> QED
  BY <1>6, <1>7, <1>8, <1>9 DEF SeedInv

\* The kernel's generator gets ready, or nothing happens.
LEMMA SeedInvIdle ==
    ASSUME SeedInv, GetReady \/ UNCHANGED vars
    PROVE  SeedInv'
<1>1. UNCHANGED <<proc, lock, disk, given, runs, crashes, history>> /\ ready' \in BOOLEAN
  BY DEF SeedInv, TypeOK, GetReady, vars
<1>2. TypeOK'
  BY <1>1 DEF given, SeedInv, TypeOK, proc, disk, history
<1>3. DiskOK' /\ Unborn' /\ Spent' /\ CreditOK' /\ UsedOnce'
  BY <1>1 DEF SeedInv, disk, history, DiskOK, Unborn, Spent, CreditOK, UsedOnce,
         NoSeed, NoInode, Gone, Worthy, Sound, given
<1>4. \A q \in Procs : ProcOK(q)'
  <2> SUFFICES ASSUME NEW q \in Procs PROVE ProcOK(q)'
    OBVIOUS
  <2>1. ProcOK(q)
    BY DEF SeedInv
  <2> QED
    BY <1>1, <2>1 DEF proc, disk, history, ProcOK, Held, Drawn, Saved, NoSeed, NoInode,
           Gone, Sane, Worthy, Sound, given
<1> QED
  BY <1>2, <1>3, <1>4 DEF SeedInv

\* Every step keeps the invariant.
LEMMA SeedInvNext == SeedInv /\ [Next]_vars => SeedInv'
<1> SUFFICES ASSUME SeedInv, [Next]_vars PROVE SeedInv'
  OBVIOUS
<1>1. ASSUME NEW p \in Procs, Run(p) PROVE SeedInv'
  <2>1. CASE Start(p) \/ Open(p) \/ Unlink(p) \/ FsyncDir(p) \/ Seed(p)
    BY <2>1, SeedInvStart, SeedInvOpen, SeedInvUnlink, SeedInvFsyncDir, SeedInvSeed
  <2>2. CASE Draw(p) \/ Create(p) \/ Write(p) \/ Fsync(p) \/ Rename(p)
    BY <2>2, SeedInvDraw, SeedInvCreate, SeedInvWrite, SeedInvFsync, SeedInvRename
  <2>3. CASE Out(p) \/ Kill(p)
    BY <2>3, SeedInvLeave DEF Out, Kill
  <2> QED
    BY <1>1, <2>1, <2>2, <2>3 DEF Run
<1>2. CASE Crash
  BY <1>2, SeedInvCrash
<1>3. CASE GetReady \/ UNCHANGED vars
  BY <1>3, SeedInvIdle
<1> QED
  BY <1>1, <1>2, <1>3 DEF Next

\* The invariant holds in every reachable state.
LEMMA SeedInvariance == Spec => []SeedInv
BY SeedInvInit, SeedInvNext, PTL DEF Spec

-----------------------------------------------------------------------------
(* The theorems *)

\* For any number of processes, runs and crashes, the state keeps its type and
\* only the process that holds the flock on the seed directory is at work.
THEOREM SeedTypeCorrect == Spec => []TypeOK
<1>1. SeedInv => TypeOK
  BY DEF SeedInv
<1> QED
  BY <1>1, SeedInvariance, PTL

\* No seed is fed to the kernel twice: seed_from_file_if_exists removes it and
\* makes the removal durable first, so that no crash, kill or failed call brings
\* back a seed that was used.
THEOREM NoSeedTwice == Spec => []UsedOnce
<1>1. SeedInv => UsedOnce
  BY DEF SeedInv
<1> QED
  BY <1>1, SeedInvariance, PTL

\* Every seed that seed_rng credits was written whole, whatever the disk kept at a
\* crash, and read while the generator was initialised, unless the kernel has no
\* getrandom and the run that saved it could read nothing after poll.
THEOREM OnlySoundCredited == Spec => []CreditedSound
<1>1. SeedInv => CreditedSound
  BY DEF SeedInv, CreditOK, CreditedSound, Worthy, Sound, given
<1> QED
  BY <1>1, SeedInvariance, PTL

\* A run whose program_ret is 0 has left its seed whole, and the content synced,
\* under the name that says whether it may be credited in the directory as it then
\* is; the directory itself is not synced.
THEOREM SuccessIsSaved == Spec => []SuccessSaves
<1>1. SeedInv => SuccessSaves
  BY DEF SeedInv, ProcOK, Saved, SuccessSaves, Whole, NC, CR
<1> QED
  BY <1>1, SeedInvariance, PTL

=============================================================================
