---------------------------- MODULE ClocksProofs ----------------------------
(***************************************************************************)
(* The clocks over any number of boots, shutdowns and crashes, for any     *)
(* time zone and any range of time_t.                                      *)
(*                                                                         *)
(* The invariant speaks of every pair of files that a crash may leave:     *)
(* what the next boot would compute from them is between the timestamp and *)
(* the true time.                                                          *)
(***************************************************************************)
EXTENDS Clocks, TLAPS

\* How far the RTC is from UTC
Shift == IF mod = "localtime" THEN zone ELSE 0

\* How far swclock takes it to be
Lag == IF mod = "localtime" THEN std ELSE 0

\* Where the two services are
Sequence ==
    /\ hw = "none" => firsttime
    /\ phase = "stop" => hw # "none"
    /\ sw # "none" => hw # "none"
    /\ sw = "rtc" => files.offset = NoFile

\* Nothing is ahead of the true time
Behindhand ==
    trusted /\ ~writable =>
        /\ rtc <= real + Shift
        /\ hw = "none" => sys <= real + Shift
        /\ hw # "none" => sys <= real
        /\ curt <= real
        /\ \A f \in disk : f.stamp <= real /\ (f.offset > 0 => rtc + f.offset <= real + Lag)

\* Nothing is behind the timestamp
Abreast ==
    trusted =>
        /\ \A f \in disk : f.offset > 0 => f.stamp + Lag <= rtc + f.offset
        /\ sw = "start" => curt <= sys
        /\ sw = "started" => files.stamp <= sys
        /\ sw \in {"unlink", "rtc", "stamp"} => files.stamp <= curt
        /\ sw = "stamp" => (files.offset > 0 => curt + Lag <= rtc + files.offset)

ClockInv == TypeOK /\ Sequence /\ Behindhand /\ Abreast

-----------------------------------------------------------------------------
(* Conversions *)

\* Local time is UTC and a constant, for each helper its own.
LEMMA Shifted ==
    ASSUME TypeOK
    PROVE  /\ Shift \in -ZoneMax..ZoneMax /\ Lag \in -ZoneMax..ZoneMax
           /\ \A t \in Int : Shown(t) = t + Shift
           /\ \A r \in Int : convert_localtime(r) = r - Lag
           /\ \A r \in Int : Convertible(r) => r > 0 /\ r - Lag >= 0
<1>1. /\ zone \in Int /\ zone \in -ZoneMax..ZoneMax /\ 0 \in -ZoneMax..ZoneMax
      /\ std \in Int /\ std \in -ZoneMax..ZoneMax
  BY ClocksAssumption DEF TypeOK
<1> QED
  BY <1>1 DEF Shift, Lag, Shown, convert_localtime, Convertible

\* The numbers are integers, and what is known of the bounds.
LEMMA Numbers ==
    ASSUME TypeOK
    PROVE  /\ real \in Int /\ sys \in Int /\ rtc \in Int /\ curt \in Int
           /\ Shift \in Int /\ Lag \in Int
           /\ Epoch <= real /\ real <= MaxTime
           /\ 0 <= sys /\ sys <= TimeMax /\ 0 <= curt /\ curt <= TimeMax /\ 0 <= rtc
           /\ Epoch \in Int /\ MaxTime \in Int /\ TimeMax \in Int /\ ZoneMax \in Int
           /\ 0 <= ZoneMax /\ ZoneMax < Epoch /\ MaxTime <= TimeMax
           /\ -ZoneMax <= Shift /\ Shift <= ZoneMax
           /\ rtc <= TimeMax + ZoneMax
BY Shifted, ClocksAssumption DEF TypeOK, Time

\* What the files hold.
LEMMA FileNumbers ==
    ASSUME NEW f \in Files
    PROVE  /\ f.offset \in Int /\ f.stamp \in Int /\ f.offset >= -1 /\ f.stamp >= -1
           /\ f = [offset |-> f.offset, stamp |-> f.stamp]
BY ClocksAssumption DEF Files, Time, NoFile

-----------------------------------------------------------------------------
(* The initial state *)

\* The RTC is right and nothing was saved.
LEMMA ClockInit == Init => ClockInv
<1> SUFFICES ASSUME Init PROVE ClockInv
  OBVIOUS
<1>1. /\ {Epoch, MaxTime, TimeMax, ZoneMax} \subseteq Int
      /\ 0 <= ZoneMax /\ ZoneMax < Epoch /\ Epoch <= MaxTime /\ MaxTime <= TimeMax
  BY ClocksAssumption
<1>2. zone \in Int /\ -ZoneMax <= zone /\ zone <= ZoneMax
  BY <1>1 DEF Init
<1>3. rtc = Epoch + Shift /\ Shift \in Int /\ -ZoneMax <= Shift /\ Shift <= ZoneMax
  BY <1>1, <1>2 DEF Init, Shown, Shift
<1>4. [offset |-> NoFile, stamp |-> NoFile] \in Files
  BY DEF Files
<1>5. real \in Epoch..MaxTime /\ sys \in Time /\ curt \in Time /\ rtc \in 0..TimeMax + ZoneMax
  BY <1>1, <1>3 DEF Init, Time
<1>6. TypeOK
  BY <1>4, <1>5 DEF Init, TypeOK
<1>7. Sequence
  BY DEF Init, Sequence
<1>8. Behindhand
  BY <1>1, <1>3 DEF Init, Behindhand, NoFile
<1>9. Abreast
  BY DEF Init, Abreast, NoFile
<1> QED
  BY <1>6, <1>7, <1>8, <1>9 DEF ClockInv

-----------------------------------------------------------------------------
(* hwclock *)

\* hwclock start tells the kernel its zone.
LEMMA ClockHwStart ==
    ASSUME ClockInv, HwStart
    PROVE  ClockInv'
<1>1. TypeOK /\ Sequence /\ Behindhand /\ Abreast /\ hw = "none" /\ firsttime /\ sw = "none"
  BY DEF ClockInv, HwStart, Sequence
<1>2. /\ UNCHANGED <<real, rtc, phase, sw, curt, files, disk, mod, zone, std, writable, trusted>>
      /\ hw' = "started" /\ Shift' = Shift /\ Lag' = Lag
  BY DEF HwStart, store, setup, Shift, Lag
<1>3. /\ firsttime' = FALSE /\ sys' \in Time
      /\ \/ sys' = sys - Shift
         \/ sys' = sys /\ sys - Shift \notin Time
  <2>1. sys \in Time /\ sys \in Int /\ zone \in Int
    BY <1>1, Numbers DEF TypeOK
  <2>2. CASE mod = "utc"
    <3>1. Shift = 0 /\ Settimezone(0) /\ sys + 0 = sys /\ sys - Shift = sys
      BY <1>1, <2>1, <2>2 DEF Shift, HwStart
    <3> QED
      BY <1>1, <2>1, <3>1 DEF Settimezone
  <2>3. CASE mod # "utc"
    <3>1. mod = "localtime" /\ Shift = zone /\ Settimezone(-zone) /\ sys + (-zone) = sys - zone
      BY <1>1, <2>1, <2>3 DEF TypeOK, Shift, HwStart
    <3> QED
      BY <1>1, <2>1, <3>1 DEF Settimezone
  <2> QED
    BY <2>2, <2>3
<1>4. TypeOK'
  BY <1>1, <1>2, <1>3 DEF TypeOK
<1>5. Sequence'
  BY <1>1, <1>2 DEF Sequence
<1>6. Behindhand'
  <2> SUFFICES ASSUME trusted, ~writable PROVE sys' <= real
    BY <1>1, <1>2 DEF Behindhand
  <2>1. sys <= real + Shift
    BY <1>1 DEF Behindhand
  <2>2. CASE sys' = sys - Shift
    BY <1>1, <2>1, <2>2, Numbers
  <2>3. CASE sys' = sys /\ sys - Shift \notin Time
    BY <1>1, <2>1, <2>3, Numbers DEF Time
  <2> QED
    BY <1>3, <2>2, <2>3
<1>7. Abreast'
  BY <1>1, <1>2 DEF Abreast
<1> QED
  BY <1>4, <1>5, <1>6, <1>7 DEF ClockInv

\* hwclock start fails.
LEMMA ClockHwStartFail ==
    ASSUME ClockInv, HwStartFail
    PROVE  ClockInv'
<1>1. TypeOK /\ Sequence /\ Behindhand /\ Abreast /\ hw = "none" /\ sw = "none"
  BY DEF ClockInv, HwStartFail, Sequence
<1>2. /\ UNCHANGED <<real, sys, rtc, phase, sw, curt, files, disk, mod, zone, std, writable>>
      /\ hw' = "failed" /\ Shift' = Shift /\ Lag' = Lag /\ firsttime' \in BOOLEAN
      /\ trusted' \in BOOLEAN /\ (trusted' => trusted /\ mod = "utc")
  BY <1>1 DEF HwStartFail, store, setup, Shift, Lag, TypeOK
<1>3. TypeOK'
  BY <1>1, <1>2 DEF TypeOK
<1>4. Sequence'
  BY <1>1, <1>2 DEF Sequence
<1>5. Behindhand'
  <2> SUFFICES ASSUME trusted', ~writable PROVE Behindhand'
    BY <1>2 DEF Behindhand
  <2>1. Shift = 0 /\ real \in Int
    BY <1>1, <1>2, Numbers DEF Shift
  <2> QED
    BY <1>1, <1>2, <2>1 DEF Behindhand
<1>6. Abreast'
  BY <1>1, <1>2 DEF Abreast
<1> QED
  BY <1>3, <1>4, <1>5, <1>6 DEF ClockInv

\* hwclock stop sets the RTC.
LEMMA ClockHwStop ==
    ASSUME ClockInv, HwStop
    PROVE  ClockInv'
<1>1. TypeOK /\ Sequence /\ Behindhand /\ Abreast /\ hw = "started"
  BY DEF ClockInv, HwStop
<1>2. /\ UNCHANGED <<real, sys, firsttime, phase, sw, curt, files, disk, mod, zone, std, writable>>
      /\ hw' = "stopped" /\ Shift' = Shift /\ Lag' = Lag /\ writable
      /\ rtc' = sys + Shift /\ sys + Shift >= 0
      /\ trusted' \in BOOLEAN /\ (trusted' => trusted /\ rtc' >= rtc)
  BY <1>1, Shifted, Numbers DEF HwStop, store, setup, Shift, Lag, TypeOK
<1>3. rtc' \in 0..TimeMax + ZoneMax
  BY <1>1, <1>2, Numbers
<1>4. TypeOK'
  BY <1>1, <1>2, <1>3 DEF TypeOK
<1>5. Sequence'
  BY <1>1, <1>2 DEF Sequence
<1>6. Behindhand'
  BY <1>2 DEF Behindhand
<1>7. Abreast'
  <2> SUFFICES ASSUME trusted' PROVE Abreast'
    BY DEF Abreast
  <2>1. trusted /\ rtc' >= rtc /\ rtc' \in Int
    BY <1>2, <1>3
  <2>2. \A f \in disk : f.offset > 0 => f.stamp + Lag <= rtc' + f.offset
    <3> SUFFICES ASSUME NEW f \in disk, f.offset > 0
                 PROVE  f.stamp + Lag <= rtc' + f.offset
      OBVIOUS
    <3>1. f.stamp + Lag <= rtc + f.offset
      BY <1>1, <2>1 DEF Abreast
    <3>2. f \in Files
      BY <1>1 DEF TypeOK
    <3> QED
      BY <1>1, <2>1, <3>1, <3>2, Numbers, FileNumbers
  <2>3. sw = "stamp" => (files.offset > 0 => curt + Lag <= rtc' + files.offset)
    <3>1. files \in Files
      BY <1>1 DEF TypeOK
    <3>2. sw = "stamp" => (files.offset > 0 => curt + Lag <= rtc + files.offset)
      BY <1>1, <2>1 DEF Abreast
    <3> QED
      BY <1>1, <2>1, <3>1, <3>2, Numbers, FileNumbers
  <2> QED
    BY <1>1, <1>2, <2>1, <2>2, <2>3 DEF Abreast
<1> QED
  BY <1>4, <1>5, <1>6, <1>7 DEF ClockInv

\* hwclock stop fails, or has nothing to set.
LEMMA ClockHwStopFail ==
    ASSUME ClockInv, HwStopFail
    PROVE  ClockInv'
<1>1. /\ UNCHANGED <<real, sys, rtc, firsttime, phase, sw, curt, files, disk, mod, zone, std,
                     writable, trusted, Shift, Lag>>
      /\ hw = "started" /\ hw' = "stopped"
  BY DEF HwStopFail, store, setup, Shift, Lag
<1>2. TypeOK'
  BY <1>1 DEF ClockInv, TypeOK
<1>3. Sequence' /\ Behindhand' /\ Abreast'
  BY <1>1 DEF ClockInv, Sequence, Behindhand, Abreast
<1> QED
  BY <1>2, <1>3 DEF ClockInv

-----------------------------------------------------------------------------
(* swclock *)

\* What the steps of swclock and of the machine leave alone.
LEMMA Frames ==
    /\ UNCHANGED swFrame =>
         UNCHANGED <<real, rtc, firsttime, phase, hw, mod, zone, std, writable, trusted,
                     Shift, Lag>>
    /\ UNCHANGED store => UNCHANGED <<files, disk>>
    /\ UNCHANGED setup => UNCHANGED <<mod, zone, std, writable, Shift, Lag>>
BY DEF swFrame, store, setup, Shift, Lag

\* swclock start reads the clock.
LEMMA ClockSwStart ==
    ASSUME ClockInv, SwStart
    PROVE  ClockInv'
<1>1. /\ UNCHANGED <<real, sys, rtc, firsttime, phase, hw, files, disk, mod, zone, std, writable,
                     trusted, Shift, Lag>>
      /\ hw # "none" /\ sw' = "start" /\ curt' = sys
  BY Frames DEF SwStart
<1>2. TypeOK'
  BY <1>1 DEF ClockInv, TypeOK
<1>3. Sequence'
  BY <1>1 DEF ClockInv, Sequence
<1>4. Behindhand'
  BY <1>1 DEF ClockInv, Behindhand
<1>5. Abreast'
  <2>1. sys <= sys
    BY Numbers DEF ClockInv
  <2> QED
    BY <1>1, <2>1 DEF ClockInv, Abreast
<1> QED
  BY <1>2, <1>3, <1>4, <1>5 DEF ClockInv

\* swclock start fails, and swclock stop does: nothing but its place changes.
LEMMA ClockSwFail ==
    ASSUME ClockInv, SwStartFail \/ SwStopFail
    PROVE  ClockInv'
<1>1. /\ UNCHANGED <<real, sys, rtc, firsttime, phase, hw, curt, files, disk, mod, zone, std,
                     writable, trusted, Shift, Lag>>
      /\ hw # "none" /\ sw' \in {"failed", "stopped"}
  BY Frames DEF SwStartFail, SwStopFail, ClockInv, Sequence
<1>2. TypeOK'
  BY <1>1 DEF ClockInv, TypeOK
<1>3. Sequence'
  BY <1>1 DEF ClockInv, Sequence
<1>4. Behindhand'
  BY <1>1 DEF ClockInv, Behindhand
<1>5. Abreast'
  BY <1>1 DEF ClockInv, Abreast
<1> QED
  BY <1>2, <1>3, <1>4, <1>5 DEF ClockInv

\* What do_start makes of the clock: a time_t that is neither before the
\* timestamp nor, where the RTC cannot be set, after the true time.
LEMMA StartedClock ==
    ASSUME ClockInv, NEW readable \in BOOLEAN, sw = "start"
    PROVE  /\ do_start(readable) \in Time
           /\ trusted => files.stamp <= do_start(readable)
           /\ trusted /\ ~writable => do_start(readable) <= real
<1>1. TypeOK /\ Sequence /\ Behindhand /\ Abreast /\ hw # "none"
  BY DEF ClockInv, Sequence
<1>2. files \in disk /\ files \in Files
  BY <1>1 DEF TypeOK
<1>3. CASE readable /\ RtcUsable
  <2>1. do_start(readable) = FromRtc
    BY <1>3 DEF do_start
  <2>2. /\ FromRtc = rtc - Lag + files.offset /\ FromRtc <= TimeMax /\ FromRtc >= curt
        /\ files.offset > 0
    BY <1>1, <1>3, Shifted, Numbers DEF RtcUsable, FromRtc
  <2>3. trusted => files.stamp + Lag <= rtc + files.offset
    BY <1>1, <1>2, <2>2 DEF Abreast
  <2>4. trusted /\ ~writable => (files.offset > 0 => rtc + files.offset <= real + Lag)
    BY <1>1, <1>2 DEF Behindhand
  <2>5. FromRtc \in Time
    BY <1>1, <1>2, <2>2, Numbers, FileNumbers DEF Time
  <2>6. trusted => files.stamp <= FromRtc
    BY <1>1, <1>2, <2>2, <2>3, Numbers, FileNumbers
  <2>7. trusted /\ ~writable => FromRtc <= real
    BY <1>1, <1>2, <2>2, <2>4, Numbers, FileNumbers
  <2> QED
    BY <2>1, <2>5, <2>6, <2>7
<1>4. CASE ~(readable /\ RtcUsable) /\ files.stamp # NoFile /\ files.stamp >= curt
  <2>1. do_start(readable) = files.stamp
    BY <1>4 DEF do_start
  <2>2. files.stamp \in Time
    BY <1>2, <1>4 DEF Files
  <2>3. trusted /\ ~writable => files.stamp <= real
    BY <1>1, <1>2 DEF Behindhand
  <2>4. files.stamp <= files.stamp
    BY <1>2, FileNumbers
  <2> QED
    BY <2>1, <2>2, <2>3, <2>4
<1>5. CASE ~(readable /\ RtcUsable) /\ ~(files.stamp # NoFile /\ files.stamp >= curt)
  <2>1. do_start(readable) = sys
    BY <1>5 DEF do_start
  <2>2. trusted /\ ~writable => sys <= real
    BY <1>1 DEF Behindhand
  <2>3. sys \in Time
    BY <1>1 DEF TypeOK
  <2>4. trusted => curt <= sys
    BY <1>1 DEF Abreast
  <2>5. trusted => files.stamp <= sys
    BY <1>1, <1>2, <1>5, <2>4, Numbers, FileNumbers DEF NoFile
  <2> QED
    BY <2>1, <2>2, <2>3, <2>5
<1> QED
  BY <1>3, <1>4, <1>5

\* swclock start sets the clock.
LEMMA ClockSwSet ==
    ASSUME ClockInv, NEW readable \in BOOLEAN, SwSet(readable)
    PROVE  ClockInv'
<1>1. /\ UNCHANGED <<real, rtc, firsttime, phase, hw, curt, files, disk, mod, zone, std, writable,
                     trusted, Shift, Lag>>
      /\ hw # "none" /\ sw = "start" /\ sw' = "started" /\ sys' = do_start(readable)
  BY Frames DEF SwSet, ClockInv, Sequence
<1>2. /\ sys' \in Time
      /\ trusted => files.stamp <= sys'
      /\ trusted /\ ~writable => sys' <= real
  BY <1>1, StartedClock
<1>3. TypeOK'
  BY <1>1, <1>2 DEF ClockInv, TypeOK
<1>4. Sequence'
  BY <1>1 DEF ClockInv, Sequence
<1>5. Behindhand'
  BY <1>1, <1>2 DEF ClockInv, Behindhand
<1>6. Abreast'
  BY <1>1, <1>2 DEF ClockInv, Abreast
<1> QED
  BY <1>3, <1>4, <1>5, <1>6 DEF ClockInv

\* swclock stop reads the clock.
LEMMA ClockSwStop ==
    ASSUME ClockInv, SwStop
    PROVE  ClockInv'
<1>1. /\ UNCHANGED <<real, sys, rtc, firsttime, phase, hw, files, disk, mod, zone, std, writable,
                     trusted, Shift, Lag>>
      /\ hw # "none" /\ sw = "started" /\ sw' = "unlink" /\ curt' = sys
  BY Frames DEF SwStop, ClockInv, Sequence
<1>2. TypeOK'
  BY <1>1 DEF ClockInv, TypeOK
<1>3. Sequence'
  BY <1>1 DEF ClockInv, Sequence
<1>4. Behindhand'
  BY <1>1 DEF ClockInv, Behindhand
<1>5. Abreast'
  BY <1>1 DEF ClockInv, Abreast
<1> QED
  BY <1>2, <1>3, <1>4, <1>5 DEF ClockInv

\* What a crash may leave stays sound when a sound pair of files joins it.
LEMMA JoinsDisk ==
    ASSUME ClockInv, NEW f \in Files, NEW D, D \in {{f}, disk \cup {f}},
           trusted /\ ~writable =>
              f.stamp <= real /\ (f.offset > 0 => rtc + f.offset <= real + Lag),
           trusted => (f.offset > 0 => f.stamp + Lag <= rtc + f.offset)
    PROVE  /\ f \in D /\ D \subseteq Files
           /\ trusted /\ ~writable =>
                \A g \in D : g.stamp <= real /\ (g.offset > 0 => rtc + g.offset <= real + Lag)
           /\ trusted => \A g \in D : g.offset > 0 => g.stamp + Lag <= rtc + g.offset
<1>1. disk \subseteq Files
  BY DEF ClockInv, TypeOK
<1>2. trusted /\ ~writable =>
         \A g \in disk : g.stamp <= real /\ (g.offset > 0 => rtc + g.offset <= real + Lag)
  BY DEF ClockInv, Behindhand
<1>3. trusted => \A g \in disk : g.offset > 0 => g.stamp + Lag <= rtc + g.offset
  BY DEF ClockInv, Abreast
<1> QED
  BY <1>1, <1>2, <1>3

\* A step of swclock stop that leaves a sound pair of files keeps the invariant.
LEMMA ClockSaves ==
    ASSUME ClockInv, NEW f \in Files, NEW D, D \in {{f}, disk \cup {f}},
           trusted /\ ~writable =>
              f.stamp <= real /\ (f.offset > 0 => rtc + f.offset <= real + Lag),
           trusted => (f.offset > 0 => f.stamp + Lag <= rtc + f.offset),
           files' = f, disk' = D,
           UNCHANGED <<swFrame, sys, curt>>, hw # "none",
           \/ sw' = "rtc" /\ f.offset = NoFile
           \/ sw' = "stamp" /\ (trusted => (f.offset > 0 => curt + Lag <= rtc + f.offset))
           \/ sw' = "stopped",
           trusted /\ sw' # "stopped" => f.stamp <= curt
    PROVE  ClockInv'
<1>1. UNCHANGED <<real, sys, rtc, firsttime, phase, hw, curt, mod, zone, std, writable, trusted,
                  Shift, Lag>>
  BY Frames
<1>2. /\ f \in D /\ D \subseteq Files
      /\ trusted /\ ~writable =>
           \A g \in D : g.stamp <= real /\ (g.offset > 0 => rtc + g.offset <= real + Lag)
      /\ trusted => \A g \in D : g.offset > 0 => g.stamp + Lag <= rtc + g.offset
  BY JoinsDisk
<1>3. TypeOK'
  BY <1>1, <1>2 DEF ClockInv, TypeOK
<1>4. Sequence'
  BY <1>1 DEF ClockInv, Sequence
<1>5. Behindhand'
  BY <1>1, <1>2 DEF ClockInv, Behindhand
<1>6. Abreast'
  BY <1>1, <1>2 DEF Abreast
<1> QED
  BY <1>3, <1>4, <1>5, <1>6 DEF ClockInv

\* The old offset goes.
LEMMA ClockSwUnlink ==
    ASSUME ClockInv, SwUnlink
    PROVE  ClockInv'
<1>1. TypeOK /\ Sequence /\ Behindhand /\ Abreast /\ hw # "none"
  BY DEF ClockInv, Sequence, SwUnlink
<1>2. files \in disk /\ files \in Files
  BY <1>1 DEF TypeOK
<1>3. PICK f : f = [files EXCEPT !.offset = NoFile]
  OBVIOUS
<1>4. f \in Files /\ f.offset = -1 /\ f.stamp = files.stamp
  BY <1>2, <1>3 DEF Files, NoFile
<1>5. trusted /\ ~writable => f.stamp <= real /\ (f.offset > 0 => rtc + f.offset <= real + Lag)
  <2>1. trusted /\ ~writable => files.stamp <= real /\ rtc <= real + Shift
    BY <1>1, <1>2 DEF Behindhand
  <2> QED
    BY <1>1, <1>4, <2>1, Numbers
<1>6. trusted => files.stamp <= curt
  BY <1>1 DEF Abreast, SwUnlink
<1>7. /\ files' = f /\ disk' = disk \cup {f} /\ UNCHANGED <<swFrame, sys, curt>>
      /\ sw' = "rtc" /\ sw' # "stopped"
  BY <1>3 DEF SwUnlink, SetFiles
<1>8. f.offset = NoFile /\ ~(f.offset > 0)
  BY <1>4 DEF NoFile
<1> QED
  BY <1>1, <1>4, <1>5, <1>6, <1>7, <1>8, ClockSaves

\* No offset is saved.
LEMMA ClockSwNoOffset ==
    ASSUME ClockInv, SwNoOffset
    PROVE  ClockInv'
<1>1. /\ UNCHANGED <<real, sys, rtc, firsttime, phase, hw, curt, files, disk, mod, zone, std,
                     writable, trusted, Shift, Lag>>
      /\ hw # "none" /\ sw = "rtc" /\ sw' = "stamp" /\ files.offset = -1
  BY Frames DEF SwNoOffset, ClockInv, Sequence, NoFile
<1>2. TypeOK'
  BY <1>1 DEF ClockInv, TypeOK
<1>3. Sequence'
  BY <1>1 DEF ClockInv, Sequence
<1>4. Behindhand'
  BY <1>1 DEF ClockInv, Behindhand
<1>5. Abreast'
  BY <1>1 DEF ClockInv, Abreast
<1> QED
  BY <1>2, <1>3, <1>4, <1>5 DEF ClockInv

\* The offset is emptied, or saved: the RTC and the offset are the system's
\* clock.
LEMMA ClockSwOffset ==
    ASSUME ClockInv, SwOffset
    PROVE  ClockInv'
<1>1. TypeOK /\ Sequence /\ Behindhand /\ Abreast /\ hw # "none" /\ sw = "rtc"
  BY DEF ClockInv, Sequence, SwOffset
<1>2. files \in disk /\ files \in Files
  BY <1>1 DEF TypeOK
<1>3. UNCHANGED <<swFrame, sys, curt>> /\ sw' = "stamp" /\ sw' # "stopped"
  BY DEF SwOffset
<1>4. trusted => files.stamp <= curt
  BY <1>1 DEF Abreast
<1>5. trusted /\ ~writable => files.stamp <= real /\ rtc <= real + Shift /\ curt <= real
  BY <1>1, <1>2 DEF Behindhand
<1>6. CASE SetFiles([files EXCEPT !.offset = 0])
  <2>1. PICK f : f = [files EXCEPT !.offset = 0]
    OBVIOUS
  <2>2. 0 \in Time
    BY ClocksAssumption DEF Time
  <2>3. f \in Files /\ f.offset = 0 /\ f.stamp = files.stamp
    BY <1>2, <2>1, <2>2 DEF Files
  <2>4. trusted /\ ~writable => f.stamp <= real /\ (f.offset > 0 => rtc + f.offset <= real + Lag)
    BY <1>1, <1>5, <2>3, Numbers
  <2>5. files' = f /\ disk' = disk \cup {f} /\ ~(f.offset > 0)
    BY <1>6, <2>1, <2>3 DEF SetFiles
  <2> QED
    BY <1>1, <1>3, <1>4, <2>3, <2>4, <2>5, ClockSaves
<1>7. CASE SyncFiles([files EXCEPT !.offset = curt - convert_localtime(rtc)])
  <2>1. PICK f : f = [files EXCEPT !.offset = curt - convert_localtime(rtc)]
    OBVIOUS
  <2>2. Convertible(rtc) /\ convert_localtime(rtc) < curt
    BY DEF SwOffset, Behind
  <2>3. convert_localtime(rtc) = rtc - Lag /\ rtc - Lag >= 0
    BY <1>1, <2>2, Shifted, Numbers
  <2>4. curt - (rtc - Lag) \in Time
    BY <1>1, <2>2, <2>3, Numbers DEF Time
  <2>5. f \in Files /\ f.offset = curt - (rtc - Lag) /\ f.stamp = files.stamp
    BY <1>2, <2>1, <2>3, <2>4 DEF Files
  <2>6. rtc + f.offset = curt + Lag
    BY <1>1, <2>5, Numbers
  <2>7. trusted /\ ~writable => f.stamp <= real /\ (f.offset > 0 => rtc + f.offset <= real + Lag)
    BY <1>1, <1>5, <2>5, <2>6, Numbers
  <2>8. trusted => f.stamp + Lag <= rtc + f.offset
    BY <1>1, <1>2, <1>4, <2>5, <2>6, Numbers, FileNumbers
  <2>9. curt + Lag <= rtc + f.offset
    BY <1>1, <2>6, Numbers
  <2>10. files' = f /\ disk' = {f}
    BY <1>7, <2>1 DEF SyncFiles
  <2> QED
    BY <1>1, <1>3, <1>4, <2>5, <2>7, <2>8, <2>9, <2>10, ClockSaves
<1> QED
  BY <1>6, <1>7 DEF SwOffset

\* The timestamp is given the time.
LEMMA ClockSwStamp ==
    ASSUME ClockInv, SwStamp
    PROVE  ClockInv'
<1>1. TypeOK /\ Sequence /\ Behindhand /\ Abreast /\ hw # "none" /\ sw = "stamp"
  BY DEF ClockInv, Sequence, SwStamp
<1>2. files \in disk /\ files \in Files
  BY <1>1 DEF TypeOK
<1>3. UNCHANGED <<swFrame, sys, curt>> /\ sw' = "stopped"
  BY DEF SwStamp
<1>4. PICK f : f = [files EXCEPT !.stamp = curt]
  OBVIOUS
<1>5. f \in Files /\ f.offset = files.offset /\ f.stamp = curt
  BY <1>1, <1>2, <1>4 DEF Files, TypeOK
<1>6. trusted /\ ~writable => f.stamp <= real /\ (f.offset > 0 => rtc + f.offset <= real + Lag)
  BY <1>1, <1>2, <1>5 DEF Behindhand
<1>7. trusted => (f.offset > 0 => f.stamp + Lag <= rtc + f.offset)
  BY <1>1, <1>5 DEF Abreast
<1>8. files' = f /\ disk' = disk \cup {f}
  BY <1>4 DEF SwStamp, SetFiles
<1> QED
  BY <1>1, <1>3, <1>5, <1>6, <1>7, <1>8, ClockSaves

\* Nothing is claimed once a timestamp was left unset or a clock set back.
LEMMA ClockUntrusted ==
    ASSUME TypeOK', Sequence', ~trusted'
    PROVE  ClockInv'
BY DEF ClockInv, Behindhand, Abreast

\* A timestamp was created and not set.
LEMMA ClockSwStampCreated ==
    ASSUME ClockInv, SwStampCreated
    PROVE  ClockInv'
<1>1. TypeOK /\ Sequence /\ hw # "none" /\ sw = "stamp"
  BY DEF ClockInv, Sequence, SwStampCreated
<1>2. PICK f : f = [files EXCEPT !.stamp = sys]
  OBVIOUS
<1>3. f \in Files
  BY <1>1, <1>2 DEF Files, TypeOK
<1>4. /\ UNCHANGED <<real, sys, rtc, firsttime, phase, hw, curt, mod, zone, std, writable>>
      /\ sw' = "stopped" /\ trusted' = FALSE /\ files' = f /\ disk' = disk \cup {f}
  BY <1>2 DEF SwStampCreated, SetFiles, setup
<1>5. TypeOK'
  BY <1>1, <1>3, <1>4 DEF TypeOK
<1>6. Sequence'
  BY <1>1, <1>4 DEF Sequence
<1> QED
  BY <1>4, <1>5, <1>6, ClockUntrusted

-----------------------------------------------------------------------------
(* The machine *)

\* The kernel's clock begins at zero or at what the RTC shows.
LEMMA ClockPowerOn ==
    ASSUME ClockInv, PowerOn
    PROVE  ClockInv'
<1>1. TypeOK /\ Sequence /\ Behindhand /\ Abreast
  BY DEF ClockInv
<1>2. /\ UNCHANGED <<real, rtc, files, disk, mod, zone, std, writable, trusted, Shift, Lag>>
      /\ phase' = "on" /\ hw' = "none" /\ sw' = "none" /\ curt' = 0 /\ firsttime' = TRUE
      /\ sys' \in {0, rtc} /\ sys' \in Time
  BY Frames DEF PowerOn
<1>3. 0 \in Time /\ 0 <= real /\ 0 <= real + Shift
  BY <1>1, Numbers DEF Time
<1>4. TypeOK'
  BY <1>1, <1>2, <1>3 DEF TypeOK
<1>5. Sequence'
  BY <1>2 DEF Sequence
<1>6. Behindhand'
  BY <1>1, <1>2, <1>3 DEF Behindhand
<1>7. Abreast'
  BY <1>1, <1>2 DEF Abreast
<1> QED
  BY <1>4, <1>5, <1>6, <1>7 DEF ClockInv

\* The machine goes off, by itself or by a crash.
LEMMA ClockOff ==
    ASSUME ClockInv, NEW f \in disk, Off(f)
    PROVE  ClockInv'
<1>1. TypeOK /\ Sequence /\ Behindhand /\ Abreast
  BY DEF ClockInv
<1>2. /\ UNCHANGED <<real, rtc, mod, zone, std, writable, trusted, Shift, Lag>>
      /\ phase' = "off" /\ hw' = "none" /\ sw' = "none" /\ curt' = 0 /\ firsttime' = TRUE
      /\ sys' = 0 /\ files' = f /\ disk' = {f}
  BY Frames DEF Off, SyncFiles
<1>3. 0 \in Time /\ 0 <= real /\ 0 <= real + Shift
  BY <1>1, Numbers DEF Time
<1>4. TypeOK'
  BY <1>1, <1>2, <1>3 DEF TypeOK
<1>5. Sequence'
  BY <1>2 DEF Sequence
<1>6. Behindhand'
  BY <1>1, <1>2, <1>3 DEF Behindhand
<1>7. Abreast'
  BY <1>1, <1>2 DEF Abreast
<1> QED
  BY <1>4, <1>5, <1>6, <1>7 DEF ClockInv

\* The services are told to stop.
LEMMA ClockShutdown ==
    ASSUME ClockInv, Shutdown
    PROVE  ClockInv'
<1>1. /\ UNCHANGED <<real, sys, rtc, firsttime, hw, sw, curt, files, disk, mod, zone, std,
                     writable, trusted, Shift, Lag>>
      /\ hw # "none" /\ phase' = "stop"
  BY Frames DEF Shutdown, Up, clocks
<1>2. TypeOK'
  BY <1>1 DEF ClockInv, TypeOK
<1>3. Sequence' /\ Behindhand' /\ Abreast'
  BY <1>1 DEF ClockInv, Sequence, Behindhand, Abreast
<1> QED
  BY <1>2, <1>3 DEF ClockInv

\* A second passes.
LEMMA ClockTick ==
    ASSUME ClockInv, Tick
    PROVE  ClockInv'
<1>1. TypeOK /\ Sequence /\ Behindhand /\ Abreast
  BY DEF ClockInv
<1>2. UNCHANGED <<firsttime, phase, hw, sw, curt, files, disk, mod, zone, std, writable, trusted,
                  Shift, Lag>>
  BY Frames DEF Tick
<1>3. /\ real' = real + 1 /\ real' <= MaxTime
      /\ rtc <= rtc' /\ rtc' <= rtc + 1 /\ rtc' <= TimeMax /\ rtc' \in Int
      /\ sys <= sys' /\ sys' <= sys + 1 /\ sys' <= TimeMax /\ sys' \in Int
  BY <1>1, Numbers DEF Tick
<1>4. real' \in Epoch..MaxTime /\ sys' \in Time /\ rtc' \in 0..TimeMax + ZoneMax
  BY <1>1, <1>3, Numbers DEF Time
<1>5. TypeOK'
  BY <1>1, <1>2, <1>4 DEF TypeOK
<1>6. Sequence'
  BY <1>1, <1>2 DEF Sequence
<1>7. Behindhand'
  <2> SUFFICES ASSUME trusted, ~writable PROVE Behindhand'
    BY <1>2 DEF Behindhand
  <2>1. /\ rtc <= real + Shift
        /\ hw = "none" => sys <= real + Shift
        /\ hw # "none" => sys <= real
        /\ curt <= real
    BY <1>1 DEF Behindhand
  <2>2. /\ rtc' <= real' + Shift
        /\ hw = "none" => sys' <= real' + Shift
        /\ hw # "none" => sys' <= real'
        /\ curt <= real'
    BY <1>1, <1>3, <2>1, Numbers
  <2>3. ASSUME NEW f \in disk
        PROVE  f.stamp <= real' /\ (f.offset > 0 => rtc' + f.offset <= real' + Lag)
    <3>1. f \in Files
      BY <1>1 DEF TypeOK
    <3>2. f.stamp <= real /\ (f.offset > 0 => rtc + f.offset <= real + Lag)
      BY <1>1 DEF Behindhand
    <3> QED
      BY <1>1, <1>3, <3>1, <3>2, Numbers, FileNumbers
  <2> QED
    BY <1>2, <2>2, <2>3 DEF Behindhand
<1>8. Abreast'
  <2> SUFFICES ASSUME trusted PROVE Abreast'
    BY <1>2 DEF Abreast
  <2>1. ASSUME NEW f \in disk, f.offset > 0
        PROVE  f.stamp + Lag <= rtc' + f.offset
    <3>1. f \in Files
      BY <1>1 DEF TypeOK
    <3>2. f.stamp + Lag <= rtc + f.offset
      BY <1>1, <2>1 DEF Abreast
    <3> QED
      BY <1>1, <1>3, <3>1, <3>2, Numbers, FileNumbers
  <2>2. files \in Files
    BY <1>1 DEF TypeOK
  <2>3. /\ sw = "start" => curt <= sys
        /\ sw = "started" => files.stamp <= sys
        /\ sw = "stamp" => (files.offset > 0 => curt + Lag <= rtc + files.offset)
        /\ sw \in {"unlink", "rtc", "stamp"} => files.stamp <= curt
    BY <1>1 DEF Abreast
  <2>4. /\ sw = "start" => curt <= sys'
        /\ sw = "started" => files.stamp <= sys'
        /\ sw = "stamp" => (files.offset > 0 => curt + Lag <= rtc' + files.offset)
    BY <1>1, <1>3, <2>2, <2>3, Numbers, FileNumbers
  <2> QED
    BY <1>2, <2>1, <2>3, <2>4 DEF Abreast
<1> QED
  BY <1>5, <1>6, <1>7, <1>8 DEF ClockInv

\* The clock is corrected, while the machine is up.
LEMMA ClockCorrect ==
    ASSUME ClockInv, Correct
    PROVE  ClockInv'
<1>1. TypeOK /\ Sequence /\ Behindhand /\ Abreast
  BY DEF ClockInv
<1>2. /\ UNCHANGED <<real, rtc, firsttime, phase, hw, sw, curt, files, disk, mod, zone, std,
                     writable, Shift, Lag>>
      /\ sys' = real /\ hw # "none" /\ sw \in {"started", "failed"}
      /\ trusted' \in BOOLEAN /\ (trusted' => trusted /\ sys < real)
  BY <1>1, Frames DEF Correct, Up, TypeOK
<1>3. sys' \in Time /\ real <= real
  BY <1>1, <1>2, Numbers DEF Time
<1>4. TypeOK'
  BY <1>1, <1>2, <1>3 DEF TypeOK
<1>5. Sequence'
  BY <1>1, <1>2 DEF Sequence
<1>6. Behindhand'
  BY <1>1, <1>2, <1>3 DEF Behindhand
<1>7. Abreast'
  <2>1. files \in Files
    BY <1>1 DEF TypeOK
  <2>2. trusted /\ sw = "started" => files.stamp <= sys
    BY <1>1 DEF Abreast
  <2>3. trusted' /\ sw = "started" => files.stamp <= real
    BY <1>1, <1>2, <2>1, <2>2, Numbers, FileNumbers
  <2> QED
    BY <1>1, <1>2, <2>3 DEF Abreast
<1> QED
  BY <1>4, <1>5, <1>6, <1>7 DEF ClockInv

\* The RTC loses its time.
LEMMA ClockRtcReset ==
    ASSUME ClockInv, RtcReset
    PROVE  ClockInv'
<1>1. TypeOK /\ Sequence
  BY DEF ClockInv
<1>2. /\ UNCHANGED <<real, sys, firsttime, phase, hw, sw, curt, files, disk, mod, zone, std,
                     writable>>
      /\ rtc' = 0 /\ trusted' = FALSE
  BY Frames DEF RtcReset
<1>3. 0 \in 0..TimeMax + ZoneMax
  BY ClocksAssumption
<1>4. TypeOK'
  BY <1>1, <1>2, <1>3 DEF TypeOK
<1>5. Sequence'
  BY <1>1, <1>2 DEF Sequence
<1> QED
  BY <1>2, <1>4, <1>5, ClockUntrusted

-----------------------------------------------------------------------------
(* The theorems *)

\* Every step keeps the invariant.
LEMMA ClockNext == ClockInv /\ [Next]_vars => ClockInv'
<1> SUFFICES ASSUME ClockInv, [Next]_vars PROVE ClockInv'
  OBVIOUS
<1>1. CASE HwStart \/ HwStartFail \/ HwStop \/ HwStopFail
  BY <1>1, ClockHwStart, ClockHwStartFail, ClockHwStop, ClockHwStopFail
<1>2. CASE SwStart \/ SwStartFail \/ \E readable \in BOOLEAN : SwSet(readable)
  BY <1>2, ClockSwStart, ClockSwFail, ClockSwSet
<1>3. CASE SwStop \/ SwUnlink \/ SwNoOffset \/ SwOffset
  BY <1>3, ClockSwStop, ClockSwUnlink, ClockSwNoOffset, ClockSwOffset
<1>4. CASE SwStamp \/ SwStampCreated \/ SwStopFail
  BY <1>4, ClockSwStamp, ClockSwStampCreated, ClockSwFail
<1>5. CASE PowerOn \/ Shutdown \/ Tick \/ Correct \/ RtcReset
  BY <1>5, ClockPowerOn, ClockShutdown, ClockTick, ClockCorrect, ClockRtcReset
<1>6. CASE PowerOff \/ Crash
  <2>1. files \in disk
    BY DEF ClockInv, TypeOK
  <2> QED
    BY <1>6, <2>1, ClockOff DEF PowerOff, Crash
<1>7. CASE UNCHANGED vars
  BY <1>7 DEF vars, store, setup, ClockInv, TypeOK, Sequence, Behindhand, Abreast, Shift, Lag
<1> QED
  BY <1>1, <1>2, <1>3, <1>4, <1>5, <1>6, <1>7 DEF Next

\* The invariant holds in every state of every behaviour.
LEMMA ClockInvariance == Spec => []ClockInv
BY ClockInit, ClockNext, PTL DEF Spec

\* Every time fits time_t, the sum of the RTC and the saved offset included,
\* for any zone and any size of time_t.
THEOREM ClockTypeCorrect == Spec => []TypeOK
<1>1. ClockInv => TypeOK
  BY DEF ClockInv
<1> QED
  BY <1>1, ClockInvariance, PTL

\* Where hwclock cannot set the RTC and while `trusted`, the clock is never ahead
\* of the true time, whatever the order of boots, shutdowns, failures and
\* crashes, and also when the two helpers disagree about local time.
THEOREM ClockNeverAhead == Spec => []NeverAhead
<1>1. ClockInv => NeverAhead
  BY DEF ClockInv, Behindhand, NeverAhead
<1> QED
  BY <1>1, ClockInvariance, PTL

\* swclock start does not leave the clock before the timestamp of the files it
\* found, also when it takes the RTC and the offset without looking at it, while
\* `trusted`: no clock was set back, the RTC kept its time, no zone of an RTC in
\* local time failed to be set, and no timestamp was created without being set.
THEOREM ClockNeverBefore == Spec => NeverBeforeStamp
<1>1. ClockInv /\ [Next]_vars =>
        [sw = "start" /\ sw' = "started" /\ trusted /\ files.stamp # NoFile
            => sys' >= files.stamp]_vars
  <2> SUFFICES ASSUME ClockInv, Next, sw = "start", sw' = "started", trusted
               PROVE  sys' >= files.stamp
    OBVIOUS
  <2>1. PICK readable \in BOOLEAN : SwSet(readable)
    BY DEF Next, PowerOn, HwStart, HwStartFail, SwStart, SwStartFail, Shutdown, HwStop,
           HwStopFail, SwStop, SwUnlink, SwNoOffset, SwOffset, SwStamp, SwStampCreated,
           SwStopFail, PowerOff, Crash, Off, Tick, Correct, RtcReset, Up, swFrame
  <2>2. sys' = do_start(readable)
    BY <2>1 DEF SwSet
  <2>3. files.stamp <= sys' /\ sys' \in Time
    BY <2>2, StartedClock
  <2>4. files \in Files /\ TypeOK
    BY DEF ClockInv, TypeOK
  <2> QED
    BY <2>3, <2>4, Numbers, FileNumbers DEF Time
<1> QED
  BY <1>1, ClockInvariance, PTL DEF Spec, NeverBeforeStamp

=============================================================================
