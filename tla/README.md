# dinit-chimera in TLA+

A verification development for dinit-chimera, the early boot collection of
Chimera Linux: TLA+ modules for its stateful parts, TLC configurations that
check them on small instances, and TLAPS proofs. `PROJECT.json` lists the
components, the runs, the mutants that each property must catch, the source
lines behind each definition, findings, hazards and theorems.

## 1. The system

dinit runs the services of `src/services`; most are one-shot scripts
(`src/early/scripts`) that call a helper (`src/early/helpers`). Only a few parts
keep state across steps, and those are where tests do not reach.

| Component | State | Operations | What makes it hard |
|---|---|---|---|
| devmon, device rounds (`devmon.cc` 277-301, 485-815) | a `device` per syspath: three service sets, `pending_svcs`, five flags, a dinit handle; `map_svcdev` | udev event, six dinit callbacks, service event, restart | everything after a udev event is asynchronous; later events arrive in the middle of a round |
| devmon, registries (`devmon.cc` 171-462, 742-815) | `map_sys`, `map_dev`, `map_netif`, `map_mac`, `map_usb` | add, change, remove, lookup, broadcast | keys are views into strings that change; links vanish before the event; USB ids are shared |
| devmon, event loop (`devmon.cc` 230-275, 1102-1357) | `fds`, `conns` | poll, accept, handshake, request, reply, broadcast, hang-up, compact | descriptors are reused; a request comes in pieces; writes fail inside a broadcast |
| devclient (`devclient.cc`) | one connection and the readiness pipe | connect, two writes, read loop | it must exit when, and only when, the device goes |
| seedrng (`seedrng.cc`) | two seed files, a lock, the kernel's generator | read, unlink, seed, draw, save, rename | any call may fail, the machine may crash between two |
| swclock, hwclock | a timestamp and an offset on disk, the system clock, the RTC | start, stop | crashes, clock steps, local time, the order of the two |
| mnt (`mnt.cc`), as env, pseudofs, tmpfs, root-rw, machine-id, done and the shutdown hook use it | the mount table, `/`'s flags, `/run/dinit/*`, `/etc/machine-id` | prepare, try, remount, root-rw, bind, unmount, commit | `/` is remounted three times from what is then known of it; a service that failed half-way is run again; crashes around the id's file |
| sysctl, kmod, binfmt | what they set in the kernel; configuration directories | collect, sort, apply line by line | precedence of directories, patterns against explicit names, partial failure |
| swap | swap areas in use; fstab, `/proc/swaps` | start, stop | partial failure, zram |
| lo, other scripts, service graph, init, tmpfiles | none of their own | one command each | not modelled, section 6 |

How they interact: udev tells devmon about devices; devmon asks dinit, over a
control connection with asynchronous replies, to make `system` wait for
`device@<syspath>` and that for the services of `DINIT_WAITS_FOR`; each
`device@...` service is a devclient connected to devmon's socket, which is ready
after the first byte 1 and exits on the following 0. The other helpers meet only
through files.

The properties that make each part correct:

* rounds: every service of a round is counted exactly once; rounds of one device
  do not overlap; events coalesced during a round end in the state the last one
  asked for; handles do not leak; a round ends;
* registries: a client is told the truth about what it asks for, whatever came,
  moved and went before, and watchers hear of every change;
* loop: descriptors and connections agree; nobody is forgotten; a watcher knows
  the present state;
* seedrng: a seed is used at most once and credited only if it is whole and
  came from an initialised generator; success means it was saved;
* clocks: over any sequence of boots in which nothing else spoils a clock, the clock neither
  falls behind what was saved nor, with an RTC that cannot be set, gets ahead of the true time;
* mounts: nothing but the id is ever mounted twice, a boot goes on only with all that it needs, the
  flags of `/` survive its remounts;
* machine-id: an id that is safe on the disk is never replaced, and a boot without
  failures ends with one;
* one-shots: the right file of each name is loaded, in order and once; a pattern does not
  override a name given in full; exit status 0 means that all of it is in force.

## 2. Modules

| Module | Models | Notes |
|---|---|---|
| `Queues` | message queues | shared operators |
| `DevmonDevice` | device objects, rounds, restart; dinit as the environment | the core |
| `DeviceRounds` | what `DevmonDevice` promises of a device | abstract; implemented by `DevmonDevice` (`Coalesces`) |
| `DevmonMaps` | the registries and what a client is answered | devices without the dinit tag, answered within the event |
| `DevmonConns` | event loop and clients | what is available changes as an input |
| `SeedRng` | seedrng over a disk that may lose what was not synced | |
| `Clocks` | hwclock and swclock over boots, shutdowns and crashes | composes both helpers with the kernel's clock and the RTC |
| `EarlyMounts` | mnt, with the scripts that call it, over boots | composes the mounts of a boot with the file that outlives it |
| `Oneshots` | sysctl, kmod, binfmt, swap | one state machine, since the first three share how files are found and all share how failures are counted |
| `MC*` | symmetry sets and small instances for TLC | |
| `DevmonDeviceProofs`, `DevmonHistoryProofs` | theorems about `DevmonDevice` and `DeviceRounds` | section 5; the second extends the first |
| `DevmonMapsProofs`, `DevmonConnsProofs`, `SeedRngProofs`, `ClocksProofs`, `EarlyMountsProofs`, `OneshotsProofs` | theorems about the module of the name | section 5 |

### DevmonDevice

devmon is single-threaded, so an action is one udev event (`AddDevice`,
`RemoveDevice`, from `resolve_device` or the initial enumeration) or one callback
(`DevLoaded`, `DevLoadFailed`, `SysDepDone`, `SubLoadFailed`, `SubLoadedNoWake`,
`SubLoadedWatch`, `DepDoneNoWake`, `DepDoneWake`, `EventDone`, `EventIgnored`),
including the `process()` it may run at its end. `dev[d]` is the `struct device`;
strings are reduced to whether they are empty. `told` is the last byte that was
broadcast to the clients of the syspath and of the node.

dinit is external. `out` and `inn` are the two directions of the control
connection; requests are answered in order, events are interleaved with the
replies. A load may fail when nothing holds the service; a wake may be refused
when `WakeMayFail`; services start and stop by themselves. Closing a handle takes
effect at once, and an error on the connection ends devmon: `Restart` gives a new
devmon over the old state of dinit. An event says whether its service has started,
failed to start or stopped; `handle_dinit_event` does not look, and any of the three ends
the wait for the service (finding 4). `ghost` records the services listed by the
latest event, those dealt with since (not loaded, started already, or an event came) and
whether the load of `device@<syspath>` succeeded; only properties read it. When that load
fails the code stores the handle and `process()`, called by the same callback, closes it
again: `DevLoadFailed` is the two together.

### DeviceRounds

The same device without dinit, services, handles or messages: a round is running or
not, an event is queued or not, the round works for a goal, and the clients were told a
byte. An event starts a round or is queued, the end of a round starts the next if one is
queued, and that one takes the device as it then is. `Rounds` in `DevmonDevice` maps
`processing` to `busy`, `pending` to `queued` and `~removal` to `goal`; every callback
in the middle of a round is a stuttering step. Beginning a round sends the byte of
the round before it, since `process()` calls `ready` first.

### DevmonMaps

An action is one udev event together with the change in `/dev` that precedes it.
Entries of `map_dev` and `map_netif` are erased before their strings change, so
these maps are functions. An entry of `map_mac` may outlive its string, so it is
a record of the hash it was entered with and the string its key points to: it is
found only while both agree. A node belongs to one device at a time, and the last
part of an interface's syspath is its name, as in sysfs. The kernel does not give a node
to a second device before the event that takes it from the first, so no event names a node
that `map_dev` still has under another device (`UdevNode`); `set_name`'s look at an existing
key is not exercised. Renaming an interface (the udev action `move`) is left out, so a
change of an interface is one of its address (`ChangeNet` is `set_mac`).

### DevmonConns

The loop is split where others can interleave: `Poll`, each `Accept`, each device
change (`Device`, a broadcast), each connection's turn (`Quiet`, `HangUp`,
`Input`), `Compact`. The kernel gives out the lowest free descriptor. A client's
request is three chunks in two writes. Bytes of one client's request that are
read as another's give a `Garbled` value. A write to a client that has gone fails:
devmon does not handle SIGPIPE, so this takes it to be ignored, as a process
started with SIGPIPE ignored would have it. `Compacted` keeps the entries that are not
marked in their order, by the ascending enumeration of their indices. `Quit` is the end of the process by a
signal or an error and its restart: every descriptor is closed, clients read the end
of the file and exit.

### SeedRng

An action is a system call that changes something, `failed` stands for
`program_ret`. `diskDir` and `diskFile` hold what a crash may leave: any state
since the last fsync of the directory or the file. A seed is named after the run
that drew it; BLAKE2s, lengths and messages are left out. All work happens under
the flock, and what precedes it has no effect. `getrandom` says whether the kernel has the
call: without it `Draw` takes a seed for creditable on the answer of `poll`, before it is
read, and the reading may fail. `drawn` is history: the creditable seeds and whether they were
read from an initialised generator, too early, or are what `read_new_seed` leaves when
nothing could be read.

### Clocks

Both helpers act on the same clocks, so one module holds them. Times are whole
seconds; `files` is the offset and the atime of the timestamp (-1: no such file, 0:
an empty offset file, which the code takes for junk like the value 0), `disk` the
contents a crash may leave. `SwStart` and `SwStop` read the system clock before the
lock is taken; time may pass between that and the steps that use it. The kernel
sets its clock from the RTC at boot as if that ran in UTC, or not at all, and moves
it by the first time zone it is told (`Settimezone`). hwclock goes by `zone`, the present
distance of local time (`tm_gmtoff`); swclock passes `mktime` a `tm_isdst` of 0 and so takes
off `std`, that of standard time, and the two differ in summer. Neither changes in the course
of a behaviour: a boot before and one after the change of the clocks are not in the same one.
The code compares with the largest time only where `time_t` has 4 bytes, which is what
`TimeMax` is for; with 8 bytes it is a bound of the model. `waits-for` orders the starts
of the two services, not their stops. `trusted` is history: false once the RTC or
the clock was set back, the RTC lost its time, hwclock could not set the zone of an
RTC in local time, or a timestamp was created without being set. `unlinkat` failing
while the directory can still be written is left out, and so are programs that read
the timestamp and so change its atime (the header speaks of the modification time,
`do_start` reads the atime).

### EarlyMounts

The dependencies of the services order the scripts, so `pc` is one program: `Env`, the
steps of `mnt prepare` (`PrepareMount`, `PrepareRoot`, `PrepareLinks`), `Tmpfs` and
`TmpfsFirstBoot`, `RootRw`, machine-id.sh (`Generate`, `Touch`, `Echo`, `Bind`), done.sh
(`Done`, `Umnt`, `Commit`, `Cat`, `Rebind`), `Shutdown` and `Sync`. A step is a system
call, or a mount with all its fallbacks (`do_mount_raw`: the filesystem, its helper, the
propagation as a second call); each may fail, and `Retry` starts a service that failed
once more. `Crash` leaves any content that `/etc/machine-id` had since the last sync.
`tab` is the stack of mounts on each target, `root` the flags of `/`. `known_opts` has the
41 rows of the table, in its order and with the search that
stops at the first greater name, so that what is out of order is not found; `parse_mntopts`
is its loop, a recursive function of the number of turns made, each a `ParseOpt`; `Asked` is a
second reading of the options that `RootKept` compares with. `procsys` is the buffer that
`strsep` cuts: after the first use it holds one option. The id that a boot generates is its
number. `first`, `runId` are files in `/run` and do not survive a boot. Of the constants
`MountAssumption` asks that the three contents of the file that are not ids differ, that `/` has
no flags beyond six of `mount(8)` and never both flags about atime
(the kernel keeps one), and that the initramfs leaves nothing on `/etc/machine-id`; what it leaves
elsewhere may have any of these flags, and `do_try` takes it as it is.
`OptionAssumption` says that the options of fstab and of the command line are lists, of any length,
of the names in `Alphabet` (`errors`, `mode` and `size` stand for what is not in the table) but
those in `OtherUses`: options that make something else of a remount (`bind`, `move`), other
ways to propagate, and those on which the kernel revises the atime behaviour by itself.

`Commit` follows a refused umount too: if touch succeeds the id is emptied (finding 3), if it
fails the id is bound over itself.

Left out: a second run of machine-id.sh in one boot; containers, which `DINIT_CONTAINER` sends past the mounts; the cgroup mounts;
`getent`; the text that `unparse_mntopts` hands to a helper and the flags of `umnt`, of
which no script makes use; `/sys/fs/selinux`, which is treated like
`/sys/kernel/security`.

### Oneshots

`cmd` is the command that runs. A directory is scanned by one action (`ScanDir`), its
content chosen then; so is the content of a line when it is read. `kern` is what the
command changes, `want` the history of what was asked for and not excused, `own` the
state that an explicit sysctl line left its entry in. `SysctlMatch` takes one match of a
pattern, in any order; from the second on the value may go on with what the line buffer
holds after it (`Junk`, a value of no line). `Start` takes swap stop past `/proc/swaps` without an
error when that cannot be opened. A sysctl
name is a sequence of parts and separators, since `PathOf` swaps these. What libkmod
finds for a name is `Lookup`; a probe ends in any of the ways the code tells apart.
`Names` is every file name once, in the order of `std::sort`, and `InOrder` takes those of a set
in that order. `MaxParams` bounds the parameters of the kernel's command line.

Left out: the dry run of sysctl and kmod, the priority and discard flags of swap, and
the parsing of a rule beyond its name.

## 3. Runs

Passing runs. The bounds are the smallest at which the cases named happen;
deadlock checking is off where a system without further input comes to rest
(devmon's rounds and loop, seedrng, the clocks at the end of time, a one-shot that has
ended, a machine that is off).

| Run | Instance | Shows |
|---|---|---|
| `round` | 1 device, 2 services in any state at first, 2 inputs | `PendingCount`, `AwaitedOnce`, `SingleRound`, `WaitsForHonoured`: two inputs are an event and another, or a restart, during its round, or a service that changes by itself; two services let one resolve by failure and one by event |
| `history` | 1 device, 1 service, 5 inputs, wakes honoured | `TypeOK`, `DeviceHandleHeld`, `QuietTruth`, `SysDepMatches`, `HandlesAccounted`, `RoundEnds`, `Coalesces`: add, remove and change interleaved with rounds and a restart; every step is a step of `DeviceRounds` or none |
| `registries` | 2 devices over 2 nodes and a link, 2 interfaces, 1 address, 2 USB ids, 2 device numbers | `TypeOK`, `AnswersTruth`, `WatchersTold`, `UsbNeverEarly`, `UsbSets`: nodes change hands, USB numbers are reused for another id, two devices share an id |
| `loop` | 2 clients, 1 value, 2 broadcasts or restarts | `TypeOK`, `FdsMatch`, `ConnPerFd`, `WatcherCurrent`, `RequestsAnswered`, `GoneIsNoticed`: one client's descriptor is reused by the other, or devmon is restarted between two requests; two broadcasts are a device that comes and goes. That clients of other values are told nothing is left to the proof |
| `crashes` | 2 processes, 3 seeds, 2 crashes, with and without getrandom | `TypeOK`, `UsedOnce`, `CreditedSound`, `SuccessSaves` |
| `boots` | true time 2 to 5, `time_t` up to 6, zones of -1 to 1 s, standard time the same or not | `TypeOK`, `NeverAhead`, `NeverBeforeStamp`: three seconds are a drift before a shutdown, one after it and one in a second shutdown; 6 is reached by an RTC plus offset, so the overflow check is exercised |
| `machine` | 3 boots, 2 failures; 4 entries for `/` in fstab, 3 remount options, with and without a helper and auxiliary directories, 2 sets of flags and 3 sets of mounts left by the initramfs, one without `nosuid` | `TypeOK`, `MountedOnce`, `PreparedMeansMounted`, `RootKept`, `IdCommitted`, `IdStable`: a boot that generates an id, one that a fault or crash interrupts and one that meets what it left; a retry of prepare takes one failure, and leaves one for the retry |
| `conf` | 3 directories, 2 names and `/etc/sysctl.conf`, 4 lines; 2 sysctls written with either separator or a pattern, 2 modules with an alias, 2 rules, a swap area and a zram one | `TypeOK`, `Precedence`, `ExplicitPinned`, `SuccessMeansApplied`: a name in all three directories, a link hiding nothing for kmod, an explicit line before and after a pattern, an entry that fails before one that succeeds |

Fairness. In `DevmonDevice`, devmon dispatches what has arrived (the loop always
returns to `poll`, which reports the control connection), dinit answers, and a
service that is starting or stopping finishes (dinit has timeouts). Nothing is
assumed of udev. In `DevmonConns`, the loop and every running client take their
next step; nobody has to connect, be stopped, come or go. `RoundEnds` is checked
with `WakeMayFail = FALSE`: with a refused wake no event comes and the round
waits for ever. It says nothing of rounds without services (finding 1). The
one-shots and the mounts are checked for safety only: each runs to its end.
`GoneIsNoticed` and `WatcherCurrent` are about clients on a descriptor that no
entry of `conns` had before (finding 2 is about the others); of these `RequestsAnswered` asks
for the answer about their own key, after the 0 that a client may get while its value has
not arrived; of the others, for any answer. `AnswersTruth` and
`WatchersTold` are about nodes, interface names and syspaths, not about MAC
addresses, and `WatchersTold` not about links (see below).
`WaitsForHonoured` is about the answer to a request; a broadcast can come earlier (see
below). It excludes a device whose own service could not be loaded, which is available at
once, and takes any event of a service for an end of the wait (finding 4 is about the
difference). `NeverAhead` and `NeverBeforeStamp` hold while `trusted`. `CreditedSound` has one
exception, on kernels without getrandom, and `SuccessSaves` does not say that the name of
the seed survives a crash, since the directory is not synced after the rename.
`MountedOnce` allows the id, and nothing else, a second bind after a refused umount and a
failed touch. `PreparedMeansMounted` speaks of `nosuid` only for the first pseudo-filesystems
and only if prepare mounted them. `RootKept` excludes a helper that failed, `IdCommitted` boots
in which something
failed or a reader kept the id busy, and `SuccessMeansApplied` later matches of a pattern that
were set to `Junk` and, where `/proc/swaps` cannot be opened, the swap areas that fstab does not list.

### Findings

Runs in which the code does not do what a comment or the README says; TLC's trace
shows how.

1. `RoundDriven`: a round with no services to add or drop never ends; the device
   answers 0 from then on and later events wait for ever (`devmon.cc` 598-622
   against the comment at 733).
2. `RespondsOnce`: a hang-up leaves its entry in `conns`; the next client on the
   descriptor is disconnected without a reply (`devmon.cc` 1179 against 12).
3. `IdAvailable`: done.sh does not notice that the umount of `/etc/machine-id` was refused
   because a process has it open; the redirection then empties the file bound there,
   which is `/run/dinit/machine-id` itself, before `cat` reads it (`done.sh` 17 against
   `machine-id.sh` 3).
4. `HeldBack`: a service that is stopping when a round loads it sends its stopped event first;
   the round takes that for the end of the wait, and the device is available before the
   service has started or failed (`devmon.cc` 495 against README 231-232).

The models also contain the following, which have no run of their own:

* the first event of a tagged device broadcasts 1 before any service is loaded
  (`devmon.cc` 665, README 231); a device whose `device@` service
  cannot be loaded is available whatever it lists (`DevLoadFailed`); the removal of a tagged device clears the name before
  the round ends, so the clients of the node hear nothing (`devmon.cc` 813, README 203);
  a second device with the same USB id is not entered into `map_usb` (`devmon.cc`
  763-769, README 192);
* the dependencies of a finished round are not dropped by the next one, because
  `process()` rotates the sets both at the end of a round and at the start of the
  next (`devmon.cc` 667; `Shuffled`);
* an event between the load of a service and the reply to the dependency request
  closes the handle that `dep_cb` then wakes (`devmon.cc` 549; `DepDoneWake` with
  `"closed"`);
* `set_mac` enters the name instead of the address, `remove` erases a name that it
  has just cleared (`devmon.cc` 381, 450; `ChangeNet`, `RemoveNet`);
* clients of a link are looked up after udev has removed the link (`devmon.cc`
  254-275; `write_dev`);
* a broadcast can reach the entry that a hang-up left in `conns` and so a client
  that asked for something else (`devmon.cc` 250; `write_conn`);
* devclient sends bytes that it never set, and devmon closes the connection unless
  they are zero (`devclient.cc` 101-104; `WriteHead` with `DirtyStack`);
* where the RTC can be set, swclock stop saves its distance from the system clock and
  hwclock stop may then correct it; the next boot adds the saved offset to the
  corrected RTC, and the clock is ahead, by the same amount more at every such boot
  (`swclock.cc` 271, `hwclock.cc` 157; `NeverAhead` without `~writable` is violated);
* if the RTC has lost its time, RTC plus offset may be later than the system clock and
  earlier than the timestamp, and is preferred (`swclock.cc` 183; `NeverBeforeStamp`
  without `trusted` is violated);
* hwclock stop never tries `/dev/rtc`, since the loop advances before it opens, and
  waits 15 ms where the comment says 15 s (`hwclock.cc` 119-123);
* README 186 writes `ifname:foo` where devclient takes `netif:foo`; a request whose
  value has not arrived yet is answered 0 at once; the second monitor is tested
  through the first (`devmon.cc` 1017);
* a restart of devmon closes the sockets of all clients, and every device service exits;
* mnt: a helper's exit status is not looked at, so root-rw succeeds with `/` read-only
  (`mnt.cc` 281-288, README 255), and a root that a helper mounted is not made shared;
  `/sys` and efivars get `nosuid` only when `/proc` was mounted by prepare, since `strsep`
  has cut the options (398, 412); `shared` is never found since `silent` stands before it in
  `known_opts`, and prepare fails with it;
* machine-id: a crash between touch and echo leaves an empty file, and the next boot does
  not count as the first (`machine-id.sh` 27-28, `env.sh`); done.sh does not sync; a second
  run of machine-id.sh would generate another id and bind it over the first;
* sysctl: what follows the first slash of `/etc/sysctl.conf` is compared with names
  without a directory, so the file is loaded although a `sysctl.conf` was loaded before, which
  the comment there excludes (`sysctl.cc` 382-384; `asysp`, `LastFile`); the newline written over a value's terminator makes a second match of a pattern
  read on (`sysctl.cc` 214; `MatchValues` with `Junk`); a failed `stat` of a match is not followed by `continue` and is an error
  even for an optional pattern (147); the name of an unknown sysctl is opened with `O_CREAT`,
  which gives EACCES, which is a success;
* kmod: a line is looked up with its leading blanks (`kmod.cc` 153); keys of the command
  line match by any prefix (320-324); the kernel's blacklist is compared with the
  alias, not the module (115); `/etc/modules` of README 249 is not read;
* binfmt: names that are prefixes of `register` and `status` are refused (`binfmt.cc`
  127-130); a refused rule leaves its predecessor removed (138-144); kmod and binfmt pass
  over symbolic links;
* swap: a second start fails on the areas that are already in use; stop reports success with
  areas on that only an unreadable `/proc/swaps` would have listed (`swap.cc` 162);
* seedrng: without getrandom, a seed that could not be read after `poll` is saved, and later
  credited, as creditable (`seedrng.cc` 322; the exit status tells of the failure).

## 4. Mutants

Every property of a passing run has a mutant in `PROJECT.json`: an operator beside
the original that changes it as a plausible bug would (a guard dropped, an entry
kept, a sync skipped), and with which TLC finds the property violated.

## 5. Proofs

38 theorems, each for every value of the constants that the named assumption of its module
allows: any number of devices, services, clients, descriptors, processes, boots, directories,
lines. The bounds of the runs (`MaxInputs`, `MaxChanges`, `MaxBoots`, ...) are such
constants, so a theorem holds for behaviours of any length. Every inductive invariant
below was checked by TLC on the instance of its run before it was proved.

### The accounts of a round: `DevmonDeviceProofs`

From `DeviceAssumption` (the sets of devices and services are finite), with wakes refused and
restarts or not: `TypeCorrect` (`TypeOK`), `CountsExactly` (`PendingCount`), `AwaitsOnce`
(`AwaitedOnce`), `RoundsNeverOverlap` (`SingleRound`), `HandleHeld` (`DeviceHandleHeld`).

None is inductive alone: `pending_svcs` stays a natural number only because it
counts something that is there (`PendingCount`); a load is issued only if no other
token of the round is under way (`SingleRound`), and so on. The inductive
invariant `IInv` joins the type, the accounts of each device (`RoundOK`: how many
loads of its service, attachments and loads of services are under way, against
its flags and count, and per service at most one way of being awaited) and
`Named` (a message about a service names one, so that the counts by kind and by
service agree).

The argument: each message kind is counted over both queues together, so a step
of dinit moves a message and changes no count (`AnswerTotal`, `WakeTotal`,
`TellTotal`). A callback takes one message and sends a few: `DispatchCounts`
gives the new counts, lemmas over numbers alone (`ResolveOK`, `WatchOK`,
`AttachOK`, `SubPhaseOK`, `LoadFailOK`, `StartOK`) show that the accounts of a
device survive each way a round can go on, and one lemma for each action joins
the two. The module begins with the facts about counting in sequences.

### What rounds achieve: `DevmonHistoryProofs`

The counts say when a round ends; what it has then achieved needs, besides, the
contents of what is under way.

* `ToldTheTruth` (`QuietTruth`; the clients of the node only if the device has no tag): `Honest`, inductive on top of `IInv`, says that the round that
  runs works for the state of the latest event unless another event is queued.
* `RoundsCoalesce` (`Coalesces`): the refinement of `DeviceRounds`. The initial states map to
  initial states; one lemma for each kind of step shows it to be the abstract event, end of a
  round or restart, or a stuttering step. `IInv` is needed to know that a callback that ends
  a round finds it running.
* `NoNewsLost`: what the abstract specification promises, `Truthful`. Its invariant adds
  `Pledged`: while no event is queued the goal of the round is the state of the device, and an
  idle tagged device has told its goal.
* `AttachedAsPresent` (`SysDepMatches`) and `AvailableAfterServices` (`WaitsForHonoured`):
  `KeptInv` says of the attachment under way, in whichever queue, that it asks for what the
  round works for (`Attached`), and that each service the latest event lists has been
  dealt with, is being loaded or is awaited (`Served`). What an event says plays no part in it.
* `NoHandleLeaks` (`HandlesAccounted`): `HandlesOK` counts, per device, service and direction,
  the loads under way, the replies that will close a handle, the handles that are open and
  what is watched. It needs the order of the replies: a reply that closes handles is answered
  before the requests that begin the next round (`Ordered`).

### The registries: `DevmonMapsProofs`

`MapsTypeCorrect`, `ClientsToldTruth` (`AnswersTruth`), `WatchersHearAll` (`WatchersTold`),
`UsbKeptWhilePlugged` (`UsbNeverEarly`), `UsbSetsExact` (`UsbSets`: from `map_usb` to the sets, not
back), from `MapsAssumption`
(the kinds of devices and keys are disjoint). `MapsInv` says for each registry what
it has in common with the kernel's state: `map_dev` is the inverse of the nodes, although nodes
change hands between events; `map_netif` holds the interfaces that are there; a number in
`map_usb` is plugged in with that id, and a plugged number is in the set of its id although
`map_usb` may not know it. The `Told` parts add the last broadcast of each key.

### The loop: `DevmonConnsProofs`

`ConnTypeCorrect`, `PollSetExact` (`FdsMatch`), `OneConnectionPerFd` (`ConnPerFd`),
`WatchersUpToDate` (`WatcherCurrent`), from `ConnsAssumption`. `ConnInv` joins the type with
`Attachment` (each client is behind one descriptor or once in the backlog, or neither),
`PollSet` (`fds` against the open descriptors, with the entries that the turn has yet to
come to), `Table` (`conns` has at most one live entry for each descriptor, and how many it can
have in all before the turn is over) and `Requests` (what a client
has written, what devmon has read of it and what it keeps of it make up one request, however
it was cut). `WatcherCurrent` needs all of them: the entry that a broadcast reaches is the
watcher's own, and the key it holds the one that the client asked for.

### seedrng: `SeedRngProofs`

`SeedTypeCorrect`, `NoSeedTwice` (`UsedOnce`), `OnlySoundCredited` (`CreditedSound`),
`SuccessIsSaved` (`SuccessSaves`), from `SeedAssumption`, for any processes, runs and
crashes. `SeedInv` speaks of every state that a crash may leave, not of the present one:
no directory in `diskDir` still leads to a seed that was used (`Spent`; this is what the
`fsync` between `unlink` and seeding is for), what `seed.credit` may lead to is whole and was
read from an initialised generator or, without getrandom, not read at all (`CreditOK`), numbers that are not drawn yet are nowhere
(`Unborn`), and the process that holds the lock knows what it has synced so far (`ProcOK`).

### Clocks: `ClocksProofs`

`ClockTypeCorrect`, `ClockNeverAhead` (`NeverAhead`), `ClockNeverBefore` (`NeverBeforeStamp`,
an action property), from `ClocksAssumption` (a zone is less than the first time, times fit
`time_t`), for any size of `time_t`, and the last two while `trusted`. `ClockInv` joins the type with `Sequence` (where the two
helpers can be), `Behindhand` (the RTC, the clock, the time that a helper has read and, for every
content that a crash may leave, the timestamp and RTC plus offset are not ahead of the true
time, each in its own zone: what hwclock added to the RTC and what swclock takes off it may
differ, but the saved offset makes up for the same difference at every boot) and `Abreast` (none of them is behind the timestamp).

### Mounts and the machine id: `EarlyMountsProofs`

`MountTypeCorrect`, `NothingMountedTwice` (`MountedOnce`), `BootCommitsId` (`IdCommitted`),
`IdNeverReplaced` (`IdStable`, an action property), from `MountAssumption`, for any targets
left mounted, any flags of `/`, any number of boots and failures. `MountInv` adds to the
properties `Stages` (at which steps `/proc` and the id's bind mount are there), `Settling` (the
files and steps that lead to the writing of an id exist only while a crash could leave
something that is no id) and `Committing` (where the id is at each
step of machine-id.sh and done.sh in a boot in which nothing failed).

`OptionsAsAsked` says of `parse_mntopts` that for every list of the names in `Alphabet`, of any
length, and whatever flags are set before, its loop leaves each flag as the last option that
speaks of it says (`Decides`), and as it was if none does; `shared` is out of order in the
table and speaks of nothing. `ParseOne` is one turn; the loop is followed by the smallest number of turns
after which something would be wrong (`LoopFlags`, `TurnKept`), since an induction theorem cannot
be instantiated. `ParseShown` adds that what `/proc/self/mounts` shows of a mount parses to its
flags, in whatever order they are shown.

`RootFlagsKept` (`RootKept`) and `PreparedIsMounted` (`PreparedMeansMounted`) rest on this and on
`RootInv`, which adds to `MountInv`: `ConfOK` (the configuration is what it was), `OneAtime` (`/`
never has both flags about atime, without which a remount could drop one) and `Mounting` (at each step
of prepare the mounts that come before it are there, those of the first pseudo-filesystems that
prepare mounted itself have `nosuid` although `procsys` is cut short, and `/` propagates once its remount is past). They hold
for any entry of fstab, any options of `dinit_early_root_remount`, any flags of `/` and any mounts
of the initramfs that `MountAssumption` and `OptionAssumption` allow.

### One-shots: `OneshotsProofs`

`OneshotTypeCorrect`, `FirstFileWins` (`Precedence`), `PatternsYield` (`ExplicitPinned`),
`SuccessIsComplete` (`SuccessMeansApplied`), from `OneshotAssumption` (which says what sets and
sequences the constants are, and that `/etc/sysctl.conf` is not a name in a directory).
`OneshotInv` joins `Shape` (the type, with the sequences that `TypeOK` leaves open), `Where`
(which command can be at which step), `Scanning` (the map is right for the directories seen so
far), `Filing` (the files tried and those left make up the files found, in order), `Holding` (a
sysctl with an explicit line is in `entries`, so that no pattern takes it) and `Applied` (what was
asked for is in force, or a failure is remembered, or swap stop has yet to come to it). That
`FlattenSeq` in `InOrder` yields names of the set is shown by the smallest prefix for which it
would not (`Joins`).

### Only model-checked

Liveness, which is out of the prover's reach: `RoundEnds`, `RequestsAnswered`,
`GoneIsNoticed`. Every invariant and every action property of a passing run is the property of a
theorem.

## 6. Not modelled

dinit, udev, libdinitctl, libkmod and the kernel are environments, modelled from how the
code uses them. Inside the repository: the wording of messages, the creation of
the control socket, the set-up of udev monitors; BLAKE2s; what section 2 says of each
module; and the components marked `not_modelled` in `PROJECT.json`:

* lo sets one interface up with one ioctl and keeps nothing;
* the remaining scripts run one program each (hostname, console, fs-fsck, cgroups, ...) and
  keep nothing that another part reads;
* the service files are data for dinit: which services exist and in which order they start
  is decided outside the repository; where the order of two modelled parts matters it is in
  the modules (`Clocks`, `EarlyMounts`);
* init and the rest of the shutdown hook replace themselves by another program.

## 7. Plan

The modules, the runs and the proofs of the invariants are as planned. What could still be
added: the liveness properties, should a prover for them be at hand; the handle that `dep_cb`
captured when its request was sent (the one entry of `hazards` without a property), for which
libdinitctl would have to be modelled down to its handles; and the components of section 6.
