---------------------------- MODULE DeviceRounds ----------------------------
(***************************************************************************)
(* What devmon promises about a device, without dinit, services, handles   *)
(* or messages: a tagged device is dealt with in rounds, one at a time;    *)
(* an event during a round is not lost but makes one more round follow,    *)
(* however many such events there were, and that round takes the device    *)
(* as it then is.  DevmonDevice is shown to implement this.                *)
(***************************************************************************)
CONSTANT Devices

VARIABLES
    known,    \* devices udev has told of
    present,  \* the device is there, by the latest event
    tagged,   \* it is managed through dinit
    busy,     \* a round is running
    queued,   \* an event came in during the round
    goal,     \* what the round that is running, or the last one, works for
    told      \* the latest byte its clients were sent

vars == <<known, present, tagged, busy, queued, goal, told>>

ByteOf(there) == IF there THEN "1" ELSE "0"

Init ==
    /\ known = {}
    /\ present = [d \in Devices |-> TRUE]
    /\ tagged = [d \in Devices |-> FALSE]
    /\ busy = [d \in Devices |-> FALSE]
    /\ queued = [d \in Devices |-> FALSE]
    /\ goal = [d \in Devices |-> TRUE]
    /\ told = [d \in Devices |-> "none"]

\* The device comes, changes or goes
Seen(d, there, tag) ==
    /\ there \/ (d \in known /\ present[d])
    /\ known' = known \cup {d}
    /\ present' = [present EXCEPT ![d] = there]
    /\ tagged' = [tagged EXCEPT ![d] = @ \/ tag]

\* An event of a device without the tag is passed on at once
Forward(d, there, tag) ==
    /\ Seen(d, there, tag) /\ ~tagged'[d]
    /\ told' = [told EXCEPT ![d] = ByteOf(there)]
    /\ UNCHANGED <<busy, queued, goal>>

\* It starts a round; the clients are sent what the last round worked for
Begin(d, there, tag) ==
    /\ Seen(d, there, tag) /\ tagged'[d] /\ ~busy[d]
    /\ busy' = [busy EXCEPT ![d] = TRUE]
    /\ goal' = [goal EXCEPT ![d] = there]
    /\ told' = [told EXCEPT ![d] = ByteOf(goal[d])]
    /\ UNCHANGED queued

\* It is left for when the round has ended
Queue(d, there, tag) ==
    /\ Seen(d, there, tag) /\ tagged'[d] /\ busy[d]
    /\ queued' = [queued EXCEPT ![d] = TRUE]
    /\ UNCHANGED <<busy, goal, told>>

\* A round ends, and the next begins if an event is queued
EndRound(d) ==
    /\ busy[d]
    /\ told' = [told EXCEPT ![d] = ByteOf(goal[d])]
    /\ busy' = [busy EXCEPT ![d] = queued[d]]
    /\ goal' = [goal EXCEPT ![d] = IF queued[d] THEN present[d] ELSE @]
    /\ queued' = [queued EXCEPT ![d] = FALSE]
    /\ UNCHANGED <<known, present, tagged>>

\* devmon starts anew
Forget ==
    /\ known' = {}
    /\ present' = [d \in Devices |-> TRUE]
    /\ tagged' = [d \in Devices |-> FALSE]
    /\ busy' = [d \in Devices |-> FALSE]
    /\ queued' = [d \in Devices |-> FALSE]
    /\ goal' = [d \in Devices |-> TRUE]
    /\ told' = [d \in Devices |-> "none"]

Next ==
    \/ \E d \in Devices :
        \/ \E there, tag \in BOOLEAN :
               Forward(d, there, tag) \/ Begin(d, there, tag) \/ Queue(d, there, tag)
        \/ EndRound(d)
    \/ Forget

Spec == Init /\ [][Next]_vars

\* What follows: a device whose rounds are over has told its clients the truth.
\* (Nobody was told anything of a device that is not known.)
Truthful ==
    \A d \in known : ~busy[d] => told[d] = ByteOf(present[d])

=============================================================================
