------------------------------ MODULE Oneshots ------------------------------
(***************************************************************************)
(* The one-shot helpers that work through lists of entries: sysctl, kmod,  *)
(* binfmt and swap.  Each collects its configuration (the first three from *)
(* a row of directories in which a name found earlier hides the later      *)
(* ones), applies it entry by entry to the kernel, and goes on after a     *)
(* failure, which only the exit status remembers.                          *)
(*                                                                         *)
(* `cmd` is the command that runs; `kern` is what it changes: the value of *)
(* each sysctl, whether a module is in, the body of each binfmt rule,      *)
(* whether a swap area is in use.  What a line or an fstab entry says is   *)
(* chosen when it is read, since each is read once.                        *)
(***************************************************************************)
EXTENDS Naturals, Sequences, FiniteSets, SequencesExt

CONSTANTS
    Names,     \* names of .conf files, in the order std::sort gives them
    NDirs,     \* how many directories are searched, by precedence
    Sysctls,   \* paths below /proc/sys: sequences of parts and separators
    Written,   \* names as lines give them: dotted, slashed, with a pattern
    Values,    \* values of sysctls, bodies of rules
    Junk,      \* a value that went on with the rest of the line buffer
    Modules,   \* kernel modules
    Lookup,    \* what libkmod finds for a name: a set of modules
    Tokens,    \* parameters of the kernel command line: [key, list]
    Rules,     \* names of binfmt rules
    Reserved,  \* those load_rule refuses: prefixes of register and status, ...
    Swaps,     \* swap areas
    Zram,      \* those on a zram device
    None,      \* no value, no rule
    MaxParams, \* bound: parameters on the kernel command line
    MaxLines   \* bound: lines read in a behaviour

ASSUME OneshotAssumption ==
    /\ NDirs \in Nat \ {0} /\ MaxLines \in Nat /\ MaxParams \in Nat
    /\ Names \in Seq(Range(Names)) /\ "/etc/sysctl.conf" \notin Range(Names)
    /\ \A i, j \in DOMAIN Names : Names[i] = Names[j] => i = j
    /\ IsFiniteSet(Swaps) /\ Zram \subseteq Swaps /\ Reserved \subseteq Rules
    /\ \A t \in Tokens : t.list \in Seq(DOMAIN Lookup)
    /\ None \notin Values /\ Junk \notin Values \cup {None, "in", "out"}
    /\ \A n \in DOMAIN Lookup : Lookup[n] \subseteq Modules

VARIABLES
    cmd,       \* the command
    pc,        \* where it is: see Phase
    seen,      \* the directories as they were found, while they are scanned
    got_map,   \* file names and the directory each is taken from
    todo,      \* file names, modules or swap areas still to be dealt with
    lines,     \* lines read so far
    ret,       \* the exit status will not be 0
    entries,   \* sysctl: names given explicitly so far
    pattern,   \* sysctl: the pattern being expanded
    cmdl_mods, kernel_blacklist, \* kmod: from the kernel command line
    kern,      \* the kernel
    hist       \* history, used by the properties only

vars == <<cmd, pc, seen, got_map, todo, lines, ret, entries, pattern,
          cmdl_mods, kernel_blacklist, kern, hist>>
setup == <<cmd, seen, got_map, cmdl_mods, kernel_blacklist>>

-----------------------------------------------------------------------------
(* Data *)

Phase == {"start", "scan", "sorted", "cmdline", "file", "last", "line", "glob",
          "swaps", "done"}
Kmod == {"modules", "static-modules", "load"}
Binfmt == {"binfmt", "binfmt -p", "binfmt -u"}
Commands == {"sysctl", "swap start", "swap stop"} \cup Kmod \cup Binfmt

\* What a command changes, and what it may set it to
Items(c) == CASE c = "sysctl" -> Sysctls [] c \in Kmod -> Modules
              [] c \in Binfmt -> Rules [] OTHER -> Swaps
States(c) == CASE c = "sysctl" -> Values \cup {Junk} [] c \in Binfmt -> Values \cup {None}
               [] OTHER -> {"in", "out"}

\* What readdir shows: nothing, a regular file, a link to one, something else
Kind == {"none", "file", "link", "other"}

NoPattern == [left |-> {}, opt |-> FALSE, val |-> None, again |-> FALSE]

-----------------------------------------------------------------------------
(* main: the kernel command line (kmod) *)

\* strncmp by the length of the key given: any prefix will do
IsLoad(key) == key \in {"module", "modules", "modules_load", "modules-load"}
IsBlacklist(key) == key \in {"module_", "module_blacklist"}

Cmdline(params) ==
    LET ListsOf(Test(_)) ==
            FlattenSeq([i \in DOMAIN params |->
                           IF Test(params[i].key) THEN params[i].list ELSE <<>>])
    IN  [load |-> ListsOf(IsLoad), black |-> Range(ListsOf(IsBlacklist))]

-----------------------------------------------------------------------------
(* main: from the start to the list of files *)

Fail(phase) ==
    /\ ret' = TRUE /\ pc' = phase
    /\ UNCHANGED <<setup, todo, lines, entries, pattern, kern, hist>>

Goto(phase) ==
    /\ pc' = phase
    /\ UNCHANGED <<setup, todo, lines, ret, entries, pattern, kern, hist>>

\* Something needed at the start or while scanning cannot be opened; a kernel
\* without modules, or no fstab or modules.devname, leaves nothing to do
StartEarlyExit ==
    \/ /\ pc = "start" /\ cmd \notin {"binfmt -p", "swap stop"}
       /\ Fail("done")
    \/ /\ pc = "start" /\ cmd \in Kmod \cup {"swap start"}
       /\ Goto("done")
    \/ /\ pc = "scan" /\ cmd = "sysctl"
       /\ Fail("done")

\* binfmt -u: everything is unregistered by one write to `status`
Unregister ==
    /\ pc = "start" /\ cmd = "binfmt -u"
    /\ kern' = [r \in Rules |-> None]
    /\ pc' = "done"
    /\ UNCHANGED <<setup, todo, lines, ret, entries, pattern, hist>>

\* swap stop goes through /proc/swaps first; if that cannot be opened, it is
\* skipped and no failure
Start ==
    /\ pc = "start" /\ cmd # "binfmt -u"
    /\ pc' = CASE cmd \in {"static-modules", "load", "swap start"} -> "line"
               [] cmd = "swap stop" -> "swaps"
               [] OTHER -> "scan"
    /\ \/ /\ cmd = "swap stop"
          /\ todo' = SetToSeq({s \in Swaps : kern[s] = "in"})
          /\ hist' = [hist EXCEPT !.want = [s \in Swaps |->
                         IF s \in Zram THEN None ELSE "out"]]
       \/ UNCHANGED <<todo, hist>>
    /\ UNCHANGED <<setup, lines, ret, entries, pattern, kern>>

\* sysctl follows links, the others look at d_type only
Accepts(kind) == kind = "file" \/ (cmd = "sysctl" /\ kind = "link")

\* One directory: a name that is in the map already is skipped.  (Mutant: a
\* later directory replaces it.)
Scanned_LastWins(found) ==
    {n \in Range(Names) : Accepts(found[n])}
Scanned(found) ==
    {n \in Range(Names) : Accepts(found[n]) /\ n \notin DOMAIN got_map}

\* std::sort: the names of a set in their order
InOrder(S) ==
    FlattenSeq([i \in DOMAIN Names |-> IF Names[i] \in S THEN <<Names[i]>> ELSE <<>>])

ScanDir ==
    /\ pc = "scan"
    /\ \E found \in [Range(Names) -> Kind] :
        LET d == Len(seen) + 1
            new == Scanned(found)
        IN  /\ seen' = Append(seen, found)
            /\ got_map' = [n \in DOMAIN got_map \cup new |->
                              IF n \in new THEN d ELSE got_map[n]]
            /\ IF d < NDirs THEN UNCHANGED <<pc, todo>>
               ELSE /\ pc' = "sorted"
                    /\ todo' = InOrder(DOMAIN got_map')
    /\ UNCHANGED <<cmd, lines, ret, entries, pattern, cmdl_mods,
                   kernel_blacklist, kern, hist>>

\* The directories are not looked at again.
Sorted ==
    /\ pc = "sorted"
    /\ seen' = <<>>
    /\ pc' = IF cmd = "modules" THEN "cmdline" ELSE "file"
    /\ UNCHANGED <<cmd, got_map, todo, lines, ret, entries, pattern, cmdl_mods,
                   kernel_blacklist, kern, hist>>

-----------------------------------------------------------------------------
(* main: the files, one after the other *)

\* The next file is opened, or cannot be; kept in `tried` either way.
NextFile ==
    /\ pc = "file" /\ todo # <<>>
    /\ todo' = Tail(todo)
    /\ hist' = [hist EXCEPT !.tried = Append(@, Head(todo))]
    /\ \/ pc' = "line" /\ UNCHANGED ret
       \/ pc' = "file" /\ ret' = TRUE
    /\ UNCHANGED <<setup, lines, entries, pattern, kern>>

\* sysctl: /etc/sysctl.conf comes last, if it can be read and no file went by
\* what follows the first slash of its path
sys_path == "/etc/sysctl.conf"
asysp == "etc/sysctl.conf"
LastFile ==
    /\ pc = "file" /\ todo = <<>>
    /\ \/ /\ cmd = "sysctl" /\ asysp \notin DOMAIN got_map
          /\ todo' = <<sys_path>>
          /\ hist' = [hist EXCEPT !.tried = Append(@, sys_path)]
          /\ \/ pc' = "line" /\ UNCHANGED ret
             \/ pc' = "done" /\ ret' = TRUE
       \/ pc' = "done" /\ UNCHANGED <<todo, hist, ret>>
    /\ UNCHANGED <<setup, lines, entries, pattern, kern>>

EndOfFile ==
    /\ pc = "line" /\ cmd # "load"
    /\ Goto(IF cmd \in {"sysctl", "modules", "binfmt", "binfmt -p"}
               /\ todo # <<sys_path>> THEN "file" ELSE "done")

\* One more line is read; what it does follows
ReadLine == pc = "line" /\ lines < MaxLines /\ lines' = lines + 1

-----------------------------------------------------------------------------
(* sysctl: load_conf, load_sysctl *)

Separators == {".", "/"}

\* The procps rule: if the first separator is a dot, dots and slashes swap roles
PathOf(name) ==
    LET seps == {i \in DOMAIN name : name[i] \in Separators}
        Swap(c) == CASE c = "." -> "/" [] c = "/" -> "." [] OTHER -> c
    IN  IF seps = {} \/ name[CHOOSE i \in seps : \A j \in seps : i <= j] = "/"
        THEN name ELSE [i \in DOMAIN name |-> Swap(name[i])]

IsGlob(path) == "*" \in Range(path)

\* glob(3): a star stands for anything but a slash
Matches(path) ==
    LET at == CHOOSE i \in DOMAIN path : path[i] = "*"
        n == Len(path)
    IN  {k \in Sysctls :
            /\ Len(k) >= n - 1
            /\ SubSeq(k, 1, at - 1) = SubSeq(path, 1, at - 1)
            /\ SubSeq(k, Len(k) - n + at + 1, Len(k)) = SubSeq(path, at + 1, n)
            /\ "/" \notin Range(SubSeq(k, at, Len(k) - n + at))}

\* How setting a sysctl can end.  EACCES is no failure; one that does not exist
\* gives ENOENT, or EACCES since the file would have to be created.
Endings(k) == {"EACCES", "refused"} \cup IF k \in Sysctls THEN {"written"} ELSE {}

\* The file is opened and written.  (Mutant: the last result counts.)
SetSysctl_Forgets(k, val, opt, o) ==
    /\ kern' = IF o = "written" THEN [kern EXCEPT ![k] = val] ELSE kern
    /\ ret' = (o = "refused" /\ ~opt)
SetSysctl(k, val, opt, o) ==
    /\ kern' = IF o = "written" THEN [kern EXCEPT ![k] = val] ELSE kern
    /\ ret' = (ret \/ (o = "refused" /\ ~opt))

\* History: the value the sysctl ought to have from now on
Asked(k, val, opt, o) ==
    IF k \in Sysctls /\ (o = "written" \/ (o = "refused" /\ ~opt))
    THEN [hist EXCEPT !.want[k] = val] ELSE hist

\* (Mutant: only names that are given a value are tracked.)
Tracked_ValueOnly(k, val) == IF val = None THEN entries ELSE entries \cup {k}
Tracked(k, val) == entries \cup {k}

\* History of an explicit line: it pins the sysctl to what it leaves it in
Pinned(h, k) == IF k \in Sysctls THEN [h EXCEPT !.own[k] = kern'[k]] ELSE h

\* A name without a pattern is tracked, and set unless it has no value.
\* (Mutant: the missing value is written.)
SysctlExplicit_NoCheck(k, val, opt) ==
    /\ ~IsGlob(k)
    /\ entries' = Tracked(k, val)
    /\ \E o \in Endings(k) :
           SetSysctl(k, val, opt, o) /\ hist' = Pinned(Asked(k, val, opt, o), k)
    /\ UNCHANGED <<pc, pattern>>
SysctlExplicit(k, val, opt) ==
    /\ ~IsGlob(k)
    /\ entries' = Tracked(k, val)
    /\ \/ val = None /\ UNCHANGED <<kern, ret>> /\ hist' = Pinned(hist, k)
       \/ val # None /\ \E o \in Endings(k) :
             SetSysctl(k, val, opt, o) /\ hist' = Pinned(Asked(k, val, opt, o), k)
    /\ UNCHANGED <<pc, pattern>>

\* A pattern is expanded, or the expansion fails
SysctlGlob(k, val, opt) ==
    /\ IsGlob(k)
    /\ \/ /\ pattern' = [left |-> Matches(k), opt |-> opt, val |-> val, again |-> FALSE]
          /\ pc' = "glob" /\ UNCHANGED ret
       \/ ret' = TRUE /\ UNCHANGED <<pc, pattern>>
    /\ UNCHANGED <<entries, kern, hist>>

\* Names that are empty or begin with a separator, and names without a value
\* or a leading dash, are refused
SysctlInvalid(name, val, opt) ==
    \/ name = <<>> \/ (val = None /\ ~opt)
    \/ name # <<>> /\ name[1] \in Separators

SysctlLine ==
    /\ cmd = "sysctl" /\ ReadLine
    /\ \E name \in Written, val \in Values \cup {None}, opt \in BOOLEAN :
        IF SysctlInvalid(name, val, opt)
        THEN ret' = TRUE /\ UNCHANGED <<pc, entries, pattern, kern, hist>>
        ELSE \/ SysctlExplicit(PathOf(name), val, opt)
             \/ SysctlGlob(PathOf(name), val, opt)
    /\ UNCHANGED <<setup, todo>>

\* One match of the pattern: one that was given explicitly is skipped, as is a
\* directory.  One that has vanished since is a failure even if optional.  The
\* newline that ends the value is put over its terminator: at the next match
\* the value goes on with what the buffer holds, which may be nothing but
\* blanks, or more.
Skipped(k) == k \in entries
MatchValues == {pattern.val} \cup IF pattern.again THEN {Junk} ELSE {}
SysctlMatch ==
    /\ pc = "glob"
    /\ \E k \in pattern.left :
        \/ /\ Skipped(k) \/ pattern.val = None
           /\ pattern' = [pattern EXCEPT !.left = @ \ {k}]
           /\ UNCHANGED <<kern, ret, hist>>
        \/ /\ ~Skipped(k) /\ pattern.val # None
           /\ \E o \in Endings(k), v \in MatchValues :
               /\ SetSysctl(k, v, pattern.opt, o)
               /\ hist' = Asked(k, pattern.val, pattern.opt, o)
               /\ pattern' = [pattern EXCEPT !.left = @ \ {k},
                                             !.again = @ \/ o # "EACCES"]
        \/ /\ ~Skipped(k)
           /\ pattern' = [pattern EXCEPT !.left = @ \ {k}]
           /\ ret' = TRUE /\ UNCHANGED <<kern, hist>>
    /\ UNCHANGED <<setup, pc, todo, lines, entries>>

GlobDone ==
    /\ pc = "glob" /\ pattern.left = {}
    /\ pattern' = NoPattern /\ pc' = "line"
    /\ UNCHANGED <<setup, todo, lines, ret, entries, kern, hist>>

-----------------------------------------------------------------------------
(* kmod: mod_load *)

\* How inserting a module can end: a blacklist of libkmod's, no such device or
\* file are no failures, nor is EPERM for a name on the kernel's blacklist
Probes == {"ok", "blacklist", "EPERM", "ENODEV", "ENOENT", "error"}
Excused(name, o) ==
    o \in {"ok", "blacklist", "ENODEV", "ENOENT"}
    \/ (o = "EPERM" /\ name \in kernel_blacklist)

\* Every module found is tried, after an error too.  Those that are in already
\* are skipped; a name for which there is none is a success.
Insert(name, ms, o) ==
    LET new == {m \in ms : kern[m] = "out"}
    IN  /\ kern' = [m \in Modules |->
                       IF m \in new /\ o[m] = "ok" THEN "in" ELSE kern[m]]
        /\ ret' = (ret \/ \E m \in new : ~Excused(name, o[m]))

\* mod_load, its failure counted; the lookup itself may fail
ModLoad(name, ms) ==
    \/ \E o \in [ms -> Probes] :
        /\ Insert(name, ms, o)
        /\ hist' = [hist EXCEPT !.want = [m \in Modules |->
               IF m \in ms /\ (o[m] = "ok" \/ ~Excused(name, o[m])) THEN "in" ELSE @[m]]]
    \/ ret' = TRUE /\ UNCHANGED <<kern, hist>>

\* do_load of a module on the kernel's command line
ModCmdline ==
    /\ pc = "cmdline" /\ cmdl_mods # <<>>
    /\ cmdl_mods' = Tail(cmdl_mods)
    /\ ModLoad(Head(cmdl_mods), Lookup[Head(cmdl_mods)])
    /\ UNCHANGED <<cmd, pc, seen, got_map, todo, lines, entries, pattern,
                   kernel_blacklist>>
CmdlineDone == pc = "cmdline" /\ cmdl_mods = <<>> /\ Goto("file")

\* A line of a file.  It is looked up with its leading blanks, and nothing is
\* found for such a name.
ModLine ==
    /\ cmd = "modules" /\ ReadLine
    /\ \E name \in DOMAIN Lookup, indented \in BOOLEAN :
           ModLoad(name, IF indented THEN {} ELSE Lookup[name])
    /\ UNCHANGED <<setup, pc, todo, entries, pattern>>

\* kmod load
ModOne ==
    /\ cmd = "load" /\ pc = "line"
    /\ \E name \in DOMAIN Lookup : ModLoad(name, Lookup[name])
    /\ pc' = "done"
    /\ UNCHANGED <<setup, todo, lines, entries, pattern>>

\* A line of modules.devname: failures are only reported
StaticLine ==
    /\ cmd = "static-modules" /\ ReadLine
    /\ \E name \in DOMAIN Lookup : \E o \in [Lookup[name] -> Probes] :
           kern' = [m \in Modules |->
               IF m \in Lookup[name] /\ o[m] = "ok" THEN "in" ELSE kern[m]]
    /\ UNCHANGED <<setup, pc, todo, ret, entries, pattern, hist>>

-----------------------------------------------------------------------------
(* binfmt: load_rule, print_conf *)

\* The old rule of the name goes first; if the new one is then refused, there
\* is none.
Register(r, body) ==
    \/ kern' = [kern EXCEPT ![r] = body] /\ UNCHANGED ret
    \/ kern[r] # None /\ UNCHANGED kern /\ ret' = TRUE
    \/ kern' = [kern EXCEPT ![r] = None] /\ ret' = TRUE

RuleLine ==
    /\ cmd = "binfmt" /\ ReadLine
    /\ \E r \in Rules, body \in Values :
        \/ r \in Reserved /\ ret' = TRUE /\ UNCHANGED <<kern, hist>>
        \/ /\ r \notin Reserved /\ Register(r, body)
           /\ hist' = [hist EXCEPT !.want[r] = body]
    /\ UNCHANGED <<setup, pc, todo, entries, pattern>>

PrintLine ==
    /\ cmd = "binfmt -p" /\ ReadLine
    /\ UNCHANGED <<setup, pc, todo, ret, entries, pattern, kern, hist>>

-----------------------------------------------------------------------------
(* swap: do_start, do_stop *)

\* An fstab entry: not for swap or noauto; it has no node, or holes, or swapon
\* fails, as it does for an area in use; or all is well
SwapOn ==
    /\ cmd = "swap start" /\ ReadLine
    /\ \/ UNCHANGED <<kern, ret, hist>>
       \/ \E s \in Swaps :
            /\ hist' = [hist EXCEPT !.want[s] = "in"]
            /\ \/ ret' = TRUE /\ UNCHANGED kern
               \/ kern[s] = "out" /\ kern' = [kern EXCEPT ![s] = "in"] /\ UNCHANGED ret
    /\ UNCHANGED <<setup, pc, todo, entries, pattern>>

\* do_swapoff: zram is left alone
SwapOff(s) ==
    \/ s \in Zram /\ UNCHANGED <<kern, ret>>
    \/ s \notin Zram /\ kern[s] = "in" /\ kern' = [kern EXCEPT ![s] = "out"] /\ UNCHANGED ret
    \/ s \notin Zram /\ kern[s] = "in" /\ ret' = TRUE /\ UNCHANGED kern

\* A line of /proc/swaps
ProcSwap ==
    /\ pc = "swaps" /\ todo # <<>>
    /\ todo' = Tail(todo)
    /\ SwapOff(Head(todo))
    /\ UNCHANGED <<setup, pc, lines, entries, pattern, hist>>
ProcSwapsDone == pc = "swaps" /\ todo = <<>> /\ Goto("line")

\* An fstab entry: one that is not in use (EINVAL) is fine, one without a node
\* is not
FstabSwap ==
    /\ cmd = "swap stop" /\ ReadLine
    /\ \E s \in Swaps :
        /\ \/ SwapOff(s)
           \/ UNCHANGED <<kern, ret>> /\ kern[s] = "out"
           \/ s \notin Zram /\ ret' = TRUE /\ UNCHANGED kern
        /\ hist' = IF s \in Zram THEN hist ELSE [hist EXCEPT !.want[s] = "out"]
    /\ UNCHANGED <<setup, pc, todo, entries, pattern>>

-----------------------------------------------------------------------------

Init ==
    /\ cmd \in Commands
    /\ pc = "start" /\ seen = <<>> /\ got_map = <<>> /\ todo = <<>>
    /\ lines = 0 /\ ret = FALSE /\ entries = {} /\ pattern = NoPattern
    /\ \E params \in BoundedSeq(Tokens, IF cmd \in Kmod THEN MaxParams ELSE 0) :
        /\ cmdl_mods = Cmdline(params).load
        /\ kernel_blacklist = Cmdline(params).black
    /\ kern \in [Items(cmd) -> States(cmd) \ {Junk}]
    /\ hist = [tried |-> <<>>, want |-> [i \in Items(cmd) |-> None],
               own |-> [i \in Items(cmd) |-> None]]

Next ==
    \/ StartEarlyExit \/ Unregister \/ Start \/ ScanDir \/ Sorted
    \/ NextFile \/ LastFile \/ EndOfFile
    \/ SysctlLine \/ SysctlMatch \/ GlobDone
    \/ ModCmdline \/ CmdlineDone \/ ModLine \/ ModOne \/ StaticLine
    \/ RuleLine \/ PrintLine
    \/ SwapOn \/ ProcSwap \/ ProcSwapsDone \/ FstabSwap

Spec == Init /\ [][Next]_vars

-----------------------------------------------------------------------------
(* Properties *)

\* Type correctness.
TypeOK ==
    /\ cmd \in Commands /\ pc \in Phase
    /\ Len(seen) <= NDirs
    /\ DOMAIN got_map \subseteq Range(Names)
    /\ Range(got_map) \subseteq 1..NDirs
    /\ lines \in 0..MaxLines /\ ret \in BOOLEAN
    /\ pattern.left \subseteq Sysctls
    /\ Range(cmdl_mods) \subseteq DOMAIN Lookup
    /\ kern \in [Items(cmd) -> States(cmd)]

\* Of each name the file in the first directory that has an acceptable one is
\* loaded, each once and in the order of the names, whatever fails on the way, and
\* nothing else is loaded but, by sysctl and at the end, /etc/sysctl.conf: always,
\* if it can be read.  The comment in main that a sysctl.conf in a directory would
\* replace it does not hold, since asysp is no name without a directory.
Precedence ==
    LET winner == [n \in {m \in Range(Names) :
                             \E d \in DOMAIN seen : Accepts(seen[d][m])} |->
                      CHOOSE d \in DOMAIN seen :
                         /\ Accepts(seen[d][n])
                         /\ \A e \in 1..(d - 1) : ~Accepts(seen[e][n])]
        order == InOrder(DOMAIN got_map)
    IN  /\ pc = "sorted" => got_map = winner /\ todo = order
        /\ pc = "done" /\ hist.tried # <<>> =>
              \/ hist.tried = order
              \/ cmd = "sysctl" /\ hist.tried = order \o <<sys_path>>

\* A sysctl that is named in full, with a value or just to be left alone, is
\* not changed by patterns that come later, in whatever form it was written.
ExplicitPinned ==
    cmd = "sysctl" =>
        \A k \in Sysctls : hist.own[k] # None => kern[k] = hist.own[k]

\* Exit status 0 means that what was asked for, and not excused, is in force: the
\* last value of each sysctl, every module, the last rule of each name, every swap
\* area of fstab after start; after stop no swap area that fstab lists, and none
\* at all if /proc/swaps could be opened, but for zram.  Two things the code does
\* not keep: with /proc/swaps closed to it, stop leaves other areas on and reports
\* success, and the second and later matches of a pattern may be set to its value
\* and what follows it in the buffer (Junk).
InForce(i) == kern[i] = hist.want[i] \/ (cmd = "sysctl" /\ kern[i] = Junk)
SuccessMeansApplied ==
    pc = "done" /\ ~ret =>
        \A i \in Items(cmd) : hist.want[i] # None => InForce(i)

=============================================================================
