------------------------------- MODULE Clocks -------------------------------
(***************************************************************************)
(* The clocks of a machine over its boots: hwclock and swclock             *)
(* (src/early/helpers/hwclock.cc, swclock.cc, clock_common.hh), run by the *)
(* services early-hwclock and early-swclock at boot and at shutdown.       *)
(*                                                                         *)
(* At boot hwclock tells the kernel its time zone, which moves the system  *)
(* clock once if the RTC runs in local time, and swclock moves the system  *)
(* clock to the RTC plus a saved offset, or to a saved timestamp, if that  *)
(* is later.  At shutdown swclock saves both and hwclock sets the RTC.     *)
(* early-swclock waits for early-hwclock to start; nothing orders the way  *)
(* they stop.  Any call may fail and the machine may crash at any time; it *)
(* then comes up with the files as they were at some time since they were  *)
(* last synced.                                                            *)
(*                                                                         *)
(* Times are whole seconds since the epoch.  The RTC may lose seconds and  *)
(* its time, the system clock is corrected now and then.                   *)
(***************************************************************************)
EXTENDS Integers

CONSTANTS
    Epoch,    \* the true time at which a behaviour begins
    MaxTime,  \* bound: the true time
    TimeMax,  \* the largest value of a time_t of 4 bytes; where it has 8 the
              \* code checks no sum, and this is the bound of all times
    ZoneMax   \* bound: the distance of local time from UTC

ASSUME ClocksAssumption ==
    /\ {Epoch, MaxTime, TimeMax, ZoneMax} \subseteq Nat
    /\ ZoneMax < Epoch /\ Epoch <= MaxTime /\ MaxTime <= TimeMax

VARIABLES
    real,      \* the true time
    sys,       \* the system clock
    rtc,       \* the RTC
    firsttime, \* kernel: no time zone was set since the boot
    phase,     \* the machine is off, on or stopping
    hw, sw,    \* where early-hwclock and early-swclock are
    curt,      \* ctv.tv_sec
    files,     \* /var/lib/swclock: the offset, the atime of timestamp
    disk,      \* the contents of it that a crash may leave
    mod,       \* utc or localtime, from /etc/hwclock or /etc/adjtime
    zone,      \* local time minus UTC: tm_gmtoff
    std,       \* the same without daylight saving: what mktime takes off
    writable,  \* the RTC can be set
    trusted    \* history: no clock was set back, no zone or timestamp left unset

setup == <<mod, zone, std, writable>>
store == <<files, disk>>
vars == <<real, sys, rtc, firsttime, phase, hw, sw, curt, store, setup, trusted>>

-----------------------------------------------------------------------------
NoFile == -1
Time == 0..TimeMax
Files == [offset : Time \cup {NoFile}, stamp : Time \cup {NoFile}]

\* What the RTC shows at time t
Shown(t) == IF mod = "localtime" THEN t + zone ELSE t

\* The time of an RTC that shows r.  tm_isdst is 0, as gmtime left it, so what
\* mktime takes off is the distance of standard time, also in summer.  A value
\* that does not fit time_t, or that becomes negative, cannot be converted.
convert_localtime(r) == IF mod = "localtime" THEN r - std ELSE r
Convertible(r) == r > 0 /\ (mod = "localtime" => r <= TimeMax /\ r - std >= 0)

\* A change of the files reaches the disk later, or at once with O_SYNC.
SetFiles(f) == files' = f /\ disk' = disk \cup {f}
SyncFiles(f) == files' = f /\ disk' = {f}

-----------------------------------------------------------------------------
(* hwclock *)

\* The kernel takes a time zone; the first one moves the clock.
Settimezone(west) ==
    /\ firsttime' = FALSE
    /\ sys' = IF firsttime /\ sys + west \in Time THEN sys + west ELSE sys

\* In UTC a first call with an empty zone keeps the second from moving the
\* clock.  (Mutant: there is no first call.)
HwStart_NoLock ==
    /\ phase = "on" /\ hw = "none"
    /\ hw' = "started"
    /\ Settimezone(-zone)
    /\ UNCHANGED <<real, rtc, phase, sw, curt, store, setup, trusted>>
HwStart ==
    /\ phase = "on" /\ hw = "none"
    /\ hw' = "started"
    /\ IF mod = "utc" THEN Settimezone(0) ELSE Settimezone(-zone)
    /\ UNCHANGED <<real, rtc, phase, sw, curt, store, setup, trusted>>

\* A call fails, in UTC one of two.
HwStartFail ==
    /\ phase = "on" /\ hw = "none"
    /\ hw' = "failed"
    /\ firsttime' \in IF mod = "utc" THEN BOOLEAN ELSE {TRUE}
    /\ trusted' = (trusted /\ mod = "utc")
    /\ UNCHANGED <<real, sys, rtc, phase, sw, curt, store, setup>>

\* The RTC is opened, at the latest after eight attempts, and set.
HwStop ==
    /\ phase = "stop" /\ hw = "started"
    /\ hw' = "stopped"
    /\ writable /\ Shown(sys) >= 0
    /\ rtc' = Shown(sys)
    /\ trusted' = (trusted /\ rtc' >= rtc)
    /\ UNCHANGED <<real, sys, firsttime, phase, sw, curt, store, setup>>

HwStopFail ==
    /\ phase = "stop" /\ hw = "started"
    /\ hw' = "stopped"
    /\ UNCHANGED <<real, sys, rtc, firsttime, phase, sw, curt, store, setup, trusted>>

-----------------------------------------------------------------------------
(* swclock start *)

clocks == <<real, sys, rtc>>
swFrame == <<real, rtc, firsttime, phase, hw, setup, trusted>>

\* main reads the clock before it waits for the lock on the directory.
SwStart ==
    /\ phase = "on" /\ hw # "none" /\ sw = "none"
    /\ sw' = "start" /\ curt' = sys
    /\ UNCHANGED <<swFrame, sys, store>>

\* The time according to the offset file and the RTC, if both can be read and
\* it fits a time_t of 4 bytes
FromRtc == convert_localtime(rtc) + files.offset
\* (Mutant: the sum may exceed time_t.)
RtcUsable_NoLimit ==
    /\ files.offset > 0 /\ Convertible(rtc)
    /\ FromRtc >= curt
RtcUsable ==
    /\ files.offset > 0 /\ Convertible(rtc)
    /\ FromRtc <= TimeMax /\ FromRtc >= curt

\* do_start: the system clock it leaves, given whether the RTC could be read
do_start(readable) ==
    IF readable /\ RtcUsable THEN FromRtc
    ELSE IF files.stamp # NoFile /\ files.stamp >= curt THEN files.stamp
    ELSE sys

SwSet(readable) ==
    /\ sw = "start" /\ sw' = "started"
    /\ sys' = do_start(readable)
    /\ UNCHANGED <<swFrame, curt, store>>

\* Something fails before the lock is taken, or settimeofday does.
SwStartFail ==
    /\ sw \in {"none", "start"} /\ phase = "on" /\ hw # "none"
    /\ sw' = "failed"
    /\ UNCHANGED <<swFrame, sys, curt, store>>

-----------------------------------------------------------------------------
(* swclock stop *)

SwStop ==
    /\ phase = "stop" /\ sw = "started"
    /\ sw' = "unlink" /\ curt' = sys
    /\ UNCHANGED <<swFrame, sys, store>>

\* The old offset goes; that there may be none is not an error.  (Mutant: it
\* stays.)
SwUnlink_Keeps ==
    /\ sw = "unlink" /\ sw' = "rtc"
    /\ UNCHANGED <<swFrame, sys, curt, store>>
SwUnlink ==
    /\ sw = "unlink" /\ sw' = "rtc"
    /\ SetFiles([files EXCEPT !.offset = NoFile])
    /\ UNCHANGED <<swFrame, sys, curt>>

\* The RTC shows a time earlier than the system's.
Behind == Convertible(rtc) /\ convert_localtime(rtc) < curt

\* The RTC cannot be read or is not behind: no offset is saved.
SwNoOffset ==
    /\ sw = "rtc" /\ sw' = "stamp"
    /\ UNCHANGED <<swFrame, sys, curt, store>>

\* The offset file is opened and so emptied; the write that follows is
\* synchronous, and unchecked.
SwOffset ==
    /\ sw = "rtc" /\ Behind
    /\ \/ SetFiles([files EXCEPT !.offset = 0])
       \/ SyncFiles([files EXCEPT !.offset = curt - convert_localtime(rtc)])
    /\ sw' = "stamp"
    /\ UNCHANGED <<swFrame, sys, curt>>

\* The timestamp is opened, created if need be, and given the time.
SwStamp ==
    /\ sw = "stamp" /\ sw' = "stopped"
    /\ SetFiles([files EXCEPT !.stamp = curt])
    /\ UNCHANGED <<swFrame, sys, curt>>

\* futimens fails: a timestamp that was just created is of now, not of curt.
SwStampCreated ==
    /\ sw = "stamp" /\ sw' = "stopped"
    /\ files.stamp = NoFile /\ SetFiles([files EXCEPT !.stamp = sys])
    /\ trusted' = FALSE
    /\ UNCHANGED <<real, rtc, firsttime, phase, hw, setup, sys, curt>>

\* The lock, the offset file or the timestamp cannot be had.
SwStopFail ==
    /\ phase = "stop"
    /\ sw \in {"started", "rtc", "stamp"} /\ sw' = "stopped"
    /\ UNCHANGED <<swFrame, sys, curt, store>>

-----------------------------------------------------------------------------
(* The machine *)

\* The kernel may set its clock from the RTC, as if that ran in UTC.
PowerOn ==
    /\ phase = "off" /\ phase' = "on"
    /\ sys' \in {0, rtc} \cap Time
    /\ firsttime' = TRUE /\ hw' = "none" /\ sw' = "none" /\ curt' = 0
    /\ UNCHANGED <<real, rtc, store, setup, trusted>>

HwDone == hw \in {"failed", "stopped"}
Up == phase = "on" /\ hw # "none" /\ sw \in {"started", "failed"}

Shutdown ==
    /\ Up /\ phase' = "stop"
    /\ UNCHANGED <<clocks, firsttime, hw, sw, curt, store, setup, trusted>>

Off(f) ==
    /\ phase' = "off" /\ hw' = "none" /\ sw' = "none" /\ curt' = 0 /\ sys' = 0
    /\ firsttime' = TRUE
    /\ SyncFiles(f)
    /\ UNCHANGED <<real, rtc, setup, trusted>>

PowerOff == phase = "stop" /\ HwDone /\ sw \in {"failed", "stopped"} /\ Off(files)
Crash == phase # "off" /\ \E f \in disk : Off(f)

\* A second passes; the RTC may miss it.
Tick ==
    /\ real < MaxTime /\ rtc < TimeMax /\ sys < TimeMax
    /\ real' = real + 1
    /\ rtc' \in {rtc, rtc + 1}
    /\ sys' = IF phase = "off" THEN sys ELSE sys + 1
    /\ UNCHANGED <<firsttime, phase, hw, sw, curt, store, setup, trusted>>

\* NTP or the user corrects the clock.  Daemons stop before early services.
Correct ==
    /\ Up /\ sys # real
    /\ sys' = real
    /\ trusted' = (trusted /\ sys < real)
    /\ UNCHANGED <<real, rtc, firsttime, phase, hw, sw, curt, store, setup>>

\* Without power the RTC begins anew.
RtcReset ==
    /\ phase = "off" /\ rtc # 0
    /\ rtc' = 0 /\ trusted' = FALSE
    /\ UNCHANGED <<real, sys, firsttime, phase, hw, sw, curt, store, setup>>

Init ==
    /\ real = Epoch /\ sys = 0
    /\ mod \in {"utc", "localtime"} /\ zone \in -ZoneMax..ZoneMax
    /\ std \in -ZoneMax..ZoneMax
    /\ writable \in BOOLEAN
    /\ rtc = Shown(Epoch)
    /\ phase = "off" /\ hw = "none" /\ sw = "none" /\ curt = 0 /\ firsttime = TRUE
    /\ files = [offset |-> NoFile, stamp |-> NoFile] /\ disk = {files}
    /\ trusted = TRUE

Next ==
    \/ PowerOn \/ HwStart \/ HwStartFail
    \/ SwStart \/ SwStartFail \/ \E readable \in BOOLEAN : SwSet(readable)
    \/ Shutdown \/ HwStop \/ HwStopFail
    \/ SwStop \/ SwUnlink \/ SwNoOffset \/ SwOffset
    \/ SwStamp \/ SwStampCreated \/ SwStopFail
    \/ PowerOff \/ Crash \/ Tick \/ Correct \/ RtcReset

Spec == Init /\ [][Next]_vars

-----------------------------------------------------------------------------
(* Properties *)

\* Types; every time fits time_t, also after RTC and offset were added
\* (do_start gives up if they do not).
TypeOK ==
    /\ real \in Epoch..MaxTime /\ sys \in Time /\ curt \in Time
    /\ rtc \in 0..TimeMax + ZoneMax
    /\ firsttime \in BOOLEAN /\ trusted \in BOOLEAN /\ writable \in BOOLEAN
    /\ phase \in {"off", "on", "stop"}
    /\ hw \in {"none", "started", "failed", "stopped"}
    /\ sw \in {"none", "start", "started", "failed", "unlink", "rtc", "stamp", "stopped"}
    /\ mod \in {"utc", "localtime"} /\ zone \in -ZoneMax..ZoneMax
    /\ std \in -ZoneMax..ZoneMax
    /\ files \in disk /\ disk \subseteq Files

\* When swclock start is done, the clock is not earlier than the timestamp of
\* the last shutdown, also when it was set from the RTC and the offset, which
\* do_start does not compare with the timestamp.  It holds while `trusted`: no
\* clock was set back, the RTC kept its time, hwclock could set the zone of an
\* RTC in local time and no timestamp was created without being set.
NeverBeforeStamp ==
    [][sw = "start" /\ sw' = "started" /\ trusted /\ files.stamp # NoFile
          => sys' >= files.stamp]_vars

\* Where hwclock cannot set the RTC, no sequence of boots, shutdowns and
\* crashes makes the clock run ahead of the true time: neither the time zone
\* nor the offset is applied twice, although the two helpers do not read local
\* time the same way in summer (while `trusted`).  Where it can, hwclock stop may correct the
\* RTC after swclock stop has saved the difference, which the next boot adds.
NeverAhead ==
    trusted /\ ~writable /\ hw = "started" => sys <= real
=============================================================================
