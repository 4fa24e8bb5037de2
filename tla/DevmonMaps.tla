----------------------------- MODULE DevmonMaps -----------------------------
(***************************************************************************)
(* The registries of devmon (src/early/helpers/devmon.cc): map_sys holds a *)
(* `device` per syspath (per vendor:product for USB), and map_dev,         *)
(* map_netif, map_mac and map_usb lead to it from what clients ask for.    *)
(* Devices without the dinit tag are modelled: handle_device_dinit answers *)
(* their watchers within the event, so an action is one udev event as      *)
(* resolve_device handles it.  The rounds of tagged devices are the        *)
(* business of DevmonDevice.                                               *)
(*                                                                         *)
(* The maps are keyed by string_views into the devices' own strings.  Keys *)
(* of map_dev and map_netif are erased before the string changes; those of *)
(* map_mac are not, so an entry there keeps the hash it was inserted with  *)
(* and the characters its string has now.                                  *)
(***************************************************************************)
EXTENDS Naturals, FiniteSets

CONSTANTS
    Blocks,   \* syspaths with a device node (block, tty, tagged devices)
    Nets,     \* syspaths of network interfaces; the last part is the ifname
    UsbIds,   \* vendor:product pairs
    Nodes,    \* device nodes
    Links,    \* symbolic links to device nodes
    Macs,     \* MAC addresses
    Devnums,  \* device numbers of USB devices
    None      \* empty string, null pointer, no entry

ASSUME MapsAssumption ==
    /\ None \notin Blocks \cup Nets \cup UsbIds \cup Nodes \cup Links \cup Macs
    /\ Blocks \cap Nets = {} /\ Blocks \cap UsbIds = {} /\ Nets \cap UsbIds = {}
    /\ Nodes \cap Links = {} /\ Nets \cap Macs = {}

VARIABLES
    map_sys,    \* keys of map_sys (never erased)
    dev,        \* the devices
    map_dev, map_netif, map_mac, map_usb,
    told,       \* the last byte broadcast to the watchers of a value
    present,    \* udev: block devices and interfaces that are there
    node, addr, \* udev: their device nodes and MAC addresses
    plugged,    \* udev: the id of the USB device with a number
    link        \* /dev: what a symbolic link resolves to

registry == <<map_sys, dev, map_dev, map_netif, map_mac, map_usb>>
world == <<present, node, addr, plugged, link>>
vars == <<registry, told, world>>

-----------------------------------------------------------------------------
(* Data *)

Sys == Blocks \cup Nets \cup UsbIds

\* What a client may watch: the type of its handshake and the value
Keys == ({"sys"} \X (Blocks \cup Nets)) \cup ({"dev"} \X (Nodes \cup Links))
        \cup ({"netif"} \X Nets) \cup ({"mac"} \X Macs) \cup ({"usb"} \X UsbIds)

DeviceRec ==
    [removed : BOOLEAN, name : Nodes \cup Nets \cup {None},
     mac : Macs \cup {None}, devset : SUBSET Devnums]

NewDevice == [removed |-> FALSE, name |-> None, mac |-> None, devset |-> {}]

\* map_dev and map_netif are functions to a syspath or None.  (Mutant: the key
\* is entered as its own value.)
Emplace_Key(map, k, d) ==
    IF k = None \/ map[k] # None THEN map ELSE [map EXCEPT ![k] = k]
Emplace(map, k, d) ==
    IF k = None \/ map[k] # None THEN map ELSE [map EXCEPT ![k] = d]
Erase(map, k) == IF k = None THEN map ELSE [map EXCEPT ![k] = None]

\* An entry of map_mac: the key it was hashed with, and the string of `owner`
\* that holds the key's characters
MacEntry == [hash : Macs \cup Nets, owner : Nets, field : {"mac", "name"}]
Found(map, dv, k) == {e \in map : e.hash = k /\ dv[e.owner][e.field] = k}
EmplaceMac(map, dv, k, d, field) ==
    IF k = None \/ Found(map, dv, k) # {} THEN map
    ELSE map \cup {[hash |-> k, owner |-> d, field |-> field]}
EraseMac(map, dv, k) == map \ Found(map, dv, k)

Known(d) == d \in map_sys /\ ~dev[d].removed

-----------------------------------------------------------------------------
(* Broadcasts *)

\* write_gen; with an empty value no client matches
write_gen(t, type, st, v) == IF v = None THEN t ELSE [t EXCEPT ![<<type, v>>] = st]

\* write_dev: the clients of the node and those of links that resolve to it
write_dev(t, st, n) ==
    [k \in Keys |->
        IF k[1] = "dev" /\ n # None
           /\ (k[2] = n \/ (k[2] \in Links /\ link'[k[2]] = n))
        THEN st ELSE t[k]]

\* device::ready
ready(t, d, r, st) ==
    IF d \in UsbIds THEN write_gen(t, "usb", st, d)
    ELSE IF d \in Nets
    THEN write_gen(write_gen(write_gen(t, "sys", st, d),
                             "netif", st, r.name), "mac", st, r.mac)
    ELSE write_dev(write_gen(t, "sys", st, d), st, r.name)

-----------------------------------------------------------------------------
(* Events of devices with a node *)

\* The links of a device follow its node: L are those it has from now on
Relink(d, n, L) ==
    link' = [l \in Links |-> IF l \in L THEN n
                             ELSE IF link[l] = node[d] THEN None ELSE link[l]]

\* The kernel's side: no two devices have the same node, and a device that had
\* it has been removed, by an event that was handled earlier.  So a node that
\* an event names is never a key of map_dev for another device.
UdevNode(d, n, L) ==
    /\ \A e \in (present \cap Blocks) \ {d} : n = None \/ node[e] # n
    /\ n = None => L = {}
    /\ present' = present \cup {d}
    /\ node' = [node EXCEPT ![d] = n]
    /\ Relink(d, n, L)
    /\ UNCHANGED <<addr, plugged>>

\* add_device, new entry: init_dev
NewBlock(d, n) ==
    LET r == [dev[d] EXCEPT !.removed = FALSE, !.name = IF n = None THEN @ ELSE n]
    IN  /\ ~Known(d)
        /\ map_sys' = map_sys \cup {d}
        /\ dev' = [dev EXCEPT ![d] = r]
        /\ map_dev' = Emplace(map_dev, n, d)
        /\ told' = ready(told, d, r, "1")
        /\ UNCHANGED <<map_netif, map_mac, map_usb>>

\* add_device, preexisting entry: set_dev.  (Mutant: the key of the old node is
\* not erased.)
ChangeBlock_KeepsKey(d, n) ==
    LET r == [dev[d] EXCEPT !.name = n]
    IN  /\ Known(d)
        /\ dev' = [dev EXCEPT ![d] = r]
        /\ map_dev' = Emplace(map_dev, n, d)
        /\ told' = ready(write_dev(told, "0", dev[d].name), d, r, "1")
        /\ UNCHANGED <<map_sys, map_netif, map_mac, map_usb>>
ChangeBlock(d, n) ==
    LET old == dev[d].name
        r == [dev[d] EXCEPT !.name = n]
    IN  /\ Known(d)
        /\ dev' = [dev EXCEPT ![d] = r]
        /\ map_dev' = IF n = old THEN map_dev
                      ELSE Emplace(Erase(map_dev, old), n, d)
        /\ told' = ready(IF n = old THEN told ELSE write_dev(told, "0", old),
                         d, r, "1")
        /\ UNCHANGED <<map_sys, map_netif, map_mac, map_usb>>

\* remove_device: udev has taken the links away before the event is seen
RemoveBlock(d) ==
    /\ present' = present \ {d}
    /\ Relink(d, None, {})
    /\ node' = [node EXCEPT ![d] = None]
    /\ IF Known(d)
       THEN /\ told' = ready(told, d, dev[d], "0")
            /\ dev' = [dev EXCEPT ![d].removed = TRUE, ![d].name = None]
            /\ map_dev' = Erase(map_dev, dev[d].name)
       ELSE UNCHANGED <<told, dev, map_dev>>
    /\ UNCHANGED <<map_sys, map_netif, map_mac, map_usb, addr, plugged>>

-----------------------------------------------------------------------------
(* Events of network interfaces *)

UdevNet(d, a) ==
    /\ present' = present \cup {d}
    /\ addr' = [addr EXCEPT ![d] = a]
    /\ UNCHANGED <<node, plugged, link>>

\* add_device, new entry: init_net
NewNet(d, a) ==
    LET r == [dev[d] EXCEPT !.removed = FALSE, !.name = d,
                            !.mac = IF a = None THEN @ ELSE a]
    IN  /\ ~Known(d)
        /\ map_sys' = map_sys \cup {d}
        /\ dev' = [dev EXCEPT ![d] = r]
        /\ map_netif' = Emplace(map_netif, d, d)
        /\ map_mac' = EmplaceMac(map_mac, dev', a, d, "mac")
        /\ told' = ready(told, d, r, "1")
        /\ UNCHANGED <<map_dev, map_usb>>

\* add_device, preexisting entry: set_ifname finds the same name and returns,
\* as the syspath ends in it (an interface that is renamed, udev's action
\* `move`, is not modelled); set_mac re-inserts the entry under `name`
ChangeNet(d, a) ==
    LET old == dev[d].mac
        r == [dev[d] EXCEPT !.mac = a]
    IN  /\ Known(d)
        /\ dev' = [dev EXCEPT ![d] = r]
        /\ map_mac' = IF a = old THEN map_mac
                      ELSE IF a = None THEN EraseMac(map_mac, dev, old)
                      ELSE EmplaceMac(EraseMac(map_mac, dev, old), dev',
                                      r.name, d, "name")
        /\ told' = ready(IF a = old THEN told ELSE write_gen(told, "mac", "0", old),
                         d, r, "1")
        /\ UNCHANGED <<map_sys, map_dev, map_netif, map_usb>>

\* remove_device; remove() has cleared `name` when it erases it from map_mac.
\* (Mutant: the strings are cleared before the watchers are told.)
RemoveNet_ClearsFirst(d) ==
    LET r == [dev[d] EXCEPT !.removed = TRUE, !.name = None, !.mac = None]
    IN  /\ present' = present \ {d}
        /\ addr' = [addr EXCEPT ![d] = None]
        /\ UNCHANGED <<node, plugged, link>>
        /\ IF Known(d)
           THEN /\ dev' = [dev EXCEPT ![d] = r]
                /\ told' = ready(told, d, r, "0")
                /\ map_netif' = Erase(map_netif, dev[d].name)
           ELSE UNCHANGED <<told, dev, map_netif>>
        /\ UNCHANGED <<map_sys, map_dev, map_mac, map_usb>>
RemoveNet(d) ==
    /\ present' = present \ {d}
    /\ addr' = [addr EXCEPT ![d] = None]
    /\ UNCHANGED <<node, plugged, link>>
    /\ IF Known(d)
       THEN /\ told' = ready(told, d, dev[d], "0")
            /\ dev' = [dev EXCEPT ![d].removed = TRUE, ![d].name = None,
                                  ![d].mac = None]
            /\ map_netif' = Erase(map_netif, dev[d].name)
            /\ map_mac' = EraseMac(map_mac, dev, None)
       ELSE UNCHANGED <<told, dev, map_netif, map_mac>>
    /\ UNCHANGED <<map_sys, map_dev, map_usb>>

-----------------------------------------------------------------------------
(* Events of USB devices; those without a vendor and product are skipped *)

\* add_device: only a new entry is put into map_usb
AddUsb(num, id) ==
    /\ plugged[num] \in {None, id}
    /\ plugged' = [plugged EXCEPT ![num] = id]
    /\ UNCHANGED <<present, node, addr, link>>
    /\ map_sys' = map_sys \cup {id}
    /\ dev' = [dev EXCEPT ![id].removed = FALSE, ![id].devset = @ \cup {num}]
    /\ map_usb' = IF Known(id) THEN map_usb ELSE [map_usb EXCEPT ![num] = id]
    /\ told' = ready(told, id, dev[id], "1")
    /\ UNCHANGED <<map_dev, map_netif, map_mac>>

\* remove_device: a number that is not in map_usb is taken for another kind of
\* device, whose syspath is then unknown.  (Mutant: the id goes with any of its
\* devices.)
RemoveUsb_AnyGone(num) ==
    /\ plugged' = [plugged EXCEPT ![num] = None]
    /\ UNCHANGED <<present, node, addr, link>>
    /\ LET id == map_usb[num]
       IN  IF id = None THEN UNCHANGED <<dev, map_usb, told>>
           ELSE /\ map_usb' = [map_usb EXCEPT ![num] = None]
                /\ dev' = [dev EXCEPT ![id].devset = @ \ {num}, ![id].removed = TRUE]
                /\ told' = ready(told, id, dev[id], "0")
    /\ UNCHANGED <<map_sys, map_dev, map_netif, map_mac>>
RemoveUsb(num) ==
    /\ plugged' = [plugged EXCEPT ![num] = None]
    /\ UNCHANGED <<present, node, addr, link>>
    /\ LET id == map_usb[num]
           rest == dev[id].devset \ {num}
           last == rest = {} /\ ~dev[id].removed
       IN  IF id = None THEN UNCHANGED <<dev, map_usb, told>>
           ELSE /\ map_usb' = [map_usb EXCEPT ![num] = None]
                /\ dev' = [dev EXCEPT ![id].devset = rest, ![id].removed = @ \/ last]
                /\ told' = IF last THEN ready(told, id, dev[id], "0") ELSE told
    /\ UNCHANGED <<map_sys, map_dev, map_netif, map_mac>>

-----------------------------------------------------------------------------
Init ==
    /\ map_sys = {}
    /\ dev = [d \in Sys |-> NewDevice]
    /\ map_dev = [n \in Nodes |-> None]
    /\ map_netif = [d \in Nets |-> None]
    /\ map_mac = {}
    /\ map_usb = [num \in Devnums |-> None]
    /\ told = [k \in Keys |-> "none"]
    /\ present = {}
    /\ node = [d \in Blocks |-> None]
    /\ addr = [d \in Nets |-> None]
    /\ plugged = [num \in Devnums |-> None]
    /\ link = [l \in Links |-> None]

Next ==
    \/ \E d \in Blocks, n \in Nodes \cup {None}, L \in SUBSET Links :
          UdevNode(d, n, L) /\ (NewBlock(d, n) \/ ChangeBlock(d, n))
    \/ \E d \in Blocks : RemoveBlock(d)
    \/ \E d \in Nets, a \in Macs \cup {None} :
          UdevNet(d, a) /\ (NewNet(d, a) \/ ChangeNet(d, a))
    \/ \E d \in Nets : RemoveNet(d)
    \/ \E num \in Devnums, id \in UsbIds : AddUsb(num, id)
    \/ \E num \in Devnums : RemoveUsb(num)

Spec == Init /\ [][Next]_vars

-----------------------------------------------------------------------------
(* What a client is answered, and the truth *)

\* check_devnode: the syspath behind a node, or behind a link to one
check_devnode(v) ==
    IF v \in Nodes THEN map_dev[v]
    ELSE IF link[v] = None THEN None ELSE map_dev[link[v]]

\* The main loop's lookups, and its answer
Lookup(k) ==
    CASE k[1] = "dev" -> check_devnode(k[2])
      [] k[1] = "netif" -> map_netif[k[2]]
      [] k[1] = "mac" -> LET f == Found(map_mac, dev, k[2])
                         IN  IF f = {} THEN None ELSE (CHOOSE e \in f : TRUE).owner
      [] OTHER -> IF k[2] \in map_sys THEN k[2] ELSE None
Answer(k) ==
    IF Lookup(k) # None /\ ~dev[Lookup(k)].removed THEN "1" ELSE "0"

HasNode(n) == \E d \in present \cap Blocks : n # None /\ node[d] = n
Available(k) ==
    CASE k[1] = "dev" -> HasNode(IF k[2] \in Nodes THEN k[2] ELSE link[k[2]])
      [] k[1] = "mac" -> \E d \in present \cap Nets : addr[d] = k[2]
      [] k[1] = "usb" -> \E num \in Devnums : plugged[num] = k[2]
      [] OTHER -> k[2] \in present

-----------------------------------------------------------------------------
(* Properties *)

\* Type correctness: the maps lead to devices of the kind they index.
TypeOK ==
    /\ map_sys \subseteq Sys
    /\ dev \in [Sys -> DeviceRec]
    /\ map_dev \in [Nodes -> Blocks \cup {None}]
    /\ map_netif \in [Nets -> Nets \cup {None}]
    /\ map_mac \subseteq MacEntry
    /\ map_usb \in [Devnums -> UsbIds \cup {None}]
    /\ told \in [Keys -> {"none", "0", "1"}]
    /\ present \subseteq Blocks \cup Nets
    /\ node \in [Blocks -> Nodes \cup {None}]
    /\ addr \in [Nets -> Macs \cup {None}]
    /\ plugged \in [Devnums -> UsbIds \cup {None}]
    /\ link \in [Links -> Nodes \cup {None}]

\* A client that asks about a node, a link, an interface or a syspath is told
\* the truth, in whatever order nodes, links and interfaces came, moved and went.
AnswersTruth ==
    \A k \in Keys : k[1] \in {"dev", "netif", "sys"} =>
        (Answer(k) = "1" <=> Available(k))

\* The watchers of a node, an interface or a syspath last heard what a client
\* that asks now is answered: no change of the maps goes without its broadcast.
WatchersTold ==
    \A k \in Keys : k[1] \in {"dev", "netif", "sys"} /\ k[2] \notin Links =>
        (told[k] = "1" <=> Answer(k) = "1")

\* A USB id with a device plugged in is never reported gone, however many
\* devices share it and however their numbers are reused.
UsbNeverEarly ==
    \A id \in UsbIds : Available(<<"usb", id>>) =>
        Answer(<<"usb", id>>) = "1" /\ told[<<"usb", id>>] = "1"

\* An id is removed exactly when its devset is empty, and map_usb only leads to
\* ids that hold the number: remove_device never empties a set twice.
UsbSets ==
    /\ \A id \in UsbIds \cap map_sys : dev[id].removed <=> dev[id].devset = {}
    /\ \A num \in Devnums : map_usb[num] # None => num \in dev[map_usb[num]].devset

=============================================================================
