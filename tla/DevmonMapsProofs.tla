-------------------------- MODULE DevmonMapsProofs --------------------------
(***************************************************************************)
(* The registries of devmon answer truthfully, for any devices, nodes,     *)
(* links, interfaces and USB ids, and any sequence of udev events.         *)
(*                                                                         *)
(* An answer goes through a map to a device and to its `removed`; the      *)
(* invariant ties each of them, and the last broadcast, to what udev says. *)
(***************************************************************************)
EXTENDS DevmonMaps, TLAPS

\* A block device is known while it is there, its string is its node, and
\* map_dev is the inverse of the nodes
BlockInv ==
    \A d \in Blocks :
        /\ d \in present <=> Known(d)
        /\ d \notin present => node[d] = None
        /\ dev[d].name = node[d]
        /\ \A n \in Nodes : map_dev[n] = d <=> node[d] = n

\* An interface is known, and in map_netif, while it is there
NetInv ==
    \A d \in Nets :
        /\ d \in present <=> Known(d)
        /\ d \in present => dev[d].name = d /\ map_netif[d] = d
        /\ d \notin present => dev[d].name = None /\ map_netif[d] = None

\* The number of a plugged device is in the set of its id; one that map_usb
\* knows is plugged
UsbInv ==
    /\ \A id \in UsbIds : ~dev[id].removed \/ dev[id].devset = {}
    /\ \A id \in UsbIds : id \in map_sys => (dev[id].devset = {} => dev[id].removed)
    /\ \A id \in UsbIds : id \notin map_sys => dev[id].devset = {}
    /\ \A num \in Devnums : plugged[num] # None => num \in dev[plugged[num]].devset
    /\ \A num \in Devnums : map_usb[num] # None => plugged[num] = map_usb[num]

\* The last broadcasts
SysTold == \A d \in Blocks \cup Nets : told[<<"sys", d>>] = "1" <=> Known(d)
NodeTold == \A n \in Nodes : told[<<"dev", n>>] = "1" <=> map_dev[n] # None
NetTold == \A d \in Nets : told[<<"netif", d>>] = "1" <=> Known(d)
UsbTold == \A id \in UsbIds : told[<<"usb", id>>] = "1" <=> Known(id)

MapsInv ==
    /\ TypeOK
    /\ BlockInv
    /\ NetInv
    /\ UsbInv
    /\ SysTold
    /\ NodeTold
    /\ NetTold
    /\ UsbTold

-----------------------------------------------------------------------------
(* Keys and broadcasts *)

Bytes == {"none", "0", "1"}

\* What a client may ask for.
LEMMA KeyTypes ==
    /\ \A d \in Blocks \cup Nets : <<"sys", d>> \in Keys
    /\ \A n \in Nodes \cup Links : <<"dev", n>> \in Keys
    /\ \A d \in Nets : <<"netif", d>> \in Keys
    /\ \A a \in Macs : <<"mac", a>> \in Keys
    /\ \A id \in UsbIds : <<"usb", id>> \in Keys
BY DEF Keys

\* write_dev reaches the watchers of a node, and of links.
LEMMA WriteDev ==
    ASSUME NEW t \in [Keys -> Bytes], NEW st \in Bytes, NEW n \in Nodes \cup {None}
    PROVE  /\ write_dev(t, st, n) \in [Keys -> Bytes]
           /\ \A k \in Keys : k[1] # "dev" => write_dev(t, st, n)[k] = t[k]
           /\ \A m \in Nodes : write_dev(t, st, n)[<<"dev", m>>] =
                  IF m = n THEN st ELSE t[<<"dev", m>>]
<1>1. write_dev(t, st, n) \in [Keys -> Bytes]
  BY DEF write_dev
<1>2. \A k \in Keys : k[1] # "dev" => write_dev(t, st, n)[k] = t[k]
  BY DEF write_dev
<1>3. ASSUME NEW m \in Nodes
      PROVE  write_dev(t, st, n)[<<"dev", m>>] = IF m = n THEN st ELSE t[<<"dev", m>>]
  <2>1. <<"dev", m>> \in Keys /\ m \notin Links /\ m # None
    BY KeyTypes, MapsAssumption
  <2> QED
    BY <2>1 DEF write_dev
<1> QED
  BY <1>1, <1>2, <1>3

\* device::ready of a device with a node.
LEMMA ReadyBlock ==
    ASSUME NEW t \in [Keys -> Bytes], NEW d \in Blocks, NEW r, NEW st \in Bytes,
           r.name \in Nodes \cup {None}
    PROVE  /\ ready(t, d, r, st) \in [Keys -> Bytes]
           /\ \A e \in Blocks \cup Nets : ready(t, d, r, st)[<<"sys", e>>] =
                  IF e = d THEN st ELSE t[<<"sys", e>>]
           /\ \A m \in Nodes : ready(t, d, r, st)[<<"dev", m>>] =
                  IF m = r.name THEN st ELSE t[<<"dev", m>>]
           /\ \A e \in Nets : ready(t, d, r, st)[<<"netif", e>>] = t[<<"netif", e>>]
           /\ \A id \in UsbIds : ready(t, d, r, st)[<<"usb", id>>] = t[<<"usb", id>>]
<1> DEFINE u == write_gen(t, "sys", st, d)
           w == write_dev(u, st, r.name)
<1>1. d \notin UsbIds /\ d \notin Nets /\ d # None /\ <<"sys", d>> \in Keys
  BY MapsAssumption, KeyTypes
<1>2. ready(t, d, r, st) = w
  BY <1>1 DEF ready
<1>3. u = [t EXCEPT ![<<"sys", d>>] = st]
  BY <1>1 DEF write_gen
<1>4. u \in [Keys -> Bytes] /\ \A k \in Keys : u[k] = IF k = <<"sys", d>> THEN st ELSE t[k]
  BY <1>1, <1>3
<1> HIDE DEF u
<1>5. /\ w \in [Keys -> Bytes]
      /\ \A k \in Keys : k[1] # "dev" => w[k] = u[k]
      /\ \A m \in Nodes : w[<<"dev", m>>] = IF m = r.name THEN st ELSE u[<<"dev", m>>]
  BY <1>4, WriteDev
<1> HIDE DEF w
<1>6. \A e \in Blocks \cup Nets : w[<<"sys", e>>] = IF e = d THEN st ELSE t[<<"sys", e>>]
  BY <1>4, <1>5, KeyTypes
<1>7. \A m \in Nodes : w[<<"dev", m>>] = IF m = r.name THEN st ELSE t[<<"dev", m>>]
  BY <1>4, <1>5, KeyTypes
<1>8. \A e \in Nets : w[<<"netif", e>>] = t[<<"netif", e>>]
  BY <1>4, <1>5, KeyTypes
<1>9. \A id \in UsbIds : w[<<"usb", id>>] = t[<<"usb", id>>]
  BY <1>4, <1>5, KeyTypes
<1> QED
  BY <1>2, <1>5, <1>6, <1>7, <1>8, <1>9

\* device::ready of an interface.
LEMMA ReadyNet ==
    ASSUME NEW t \in [Keys -> Bytes], NEW d \in Nets, NEW r, NEW st \in Bytes,
           r.name = d, r.mac \in Macs \cup {None}
    PROVE  /\ ready(t, d, r, st) \in [Keys -> Bytes]
           /\ \A e \in Blocks \cup Nets : ready(t, d, r, st)[<<"sys", e>>] =
                  IF e = d THEN st ELSE t[<<"sys", e>>]
           /\ \A m \in Nodes : ready(t, d, r, st)[<<"dev", m>>] = t[<<"dev", m>>]
           /\ \A e \in Nets : ready(t, d, r, st)[<<"netif", e>>] =
                  IF e = d THEN st ELSE t[<<"netif", e>>]
           /\ \A id \in UsbIds : ready(t, d, r, st)[<<"usb", id>>] = t[<<"usb", id>>]
<1> DEFINE u == write_gen(t, "sys", st, d)
           w == write_gen(u, "netif", st, d)
           x == write_gen(w, "mac", st, r.mac)
<1>1. d \notin UsbIds /\ d # None /\ <<"sys", d>> \in Keys /\ <<"netif", d>> \in Keys
  BY MapsAssumption, KeyTypes
<1>2. ready(t, d, r, st) = x
  BY <1>1 DEF ready
<1>3. u = [t EXCEPT ![<<"sys", d>>] = st] /\ w = [u EXCEPT ![<<"netif", d>>] = st]
  BY <1>1 DEF write_gen
<1>4. u \in [Keys -> Bytes] /\ \A k \in Keys : u[k] = IF k = <<"sys", d>> THEN st ELSE t[k]
  BY <1>1, <1>3
<1> HIDE DEF u
<1>5. w \in [Keys -> Bytes] /\ \A k \in Keys : w[k] = IF k = <<"netif", d>> THEN st ELSE u[k]
  BY <1>1, <1>3, <1>4
<1> HIDE DEF w
<1>6. x \in [Keys -> Bytes] /\ \A k \in Keys : k[1] # "mac" => x[k] = w[k]
  <2>1. CASE r.mac = None
    BY <1>5, <2>1 DEF write_gen
  <2>2. CASE r.mac \in Macs
    <3>1. r.mac # None /\ <<"mac", r.mac>> \in Keys
      BY <2>2, MapsAssumption, KeyTypes
    <3> DEFINE m == <<"mac", r.mac>>
    <3>2. x = [w EXCEPT ![m] = st]
      BY <3>1 DEF write_gen
    <3>3. m \in Keys /\ m[1] = "mac"
      BY <3>1
    <3> HIDE DEF m, x
    <3> QED
      BY <1>5, <3>2, <3>3
  <2> QED
    BY <2>1, <2>2
<1> HIDE DEF x
<1>7. \A e \in Blocks \cup Nets : x[<<"sys", e>>] = IF e = d THEN st ELSE t[<<"sys", e>>]
  BY <1>4, <1>5, <1>6, KeyTypes
<1>8. \A m \in Nodes : x[<<"dev", m>>] = t[<<"dev", m>>]
  BY <1>4, <1>5, <1>6, KeyTypes
<1>9. \A e \in Nets : x[<<"netif", e>>] = IF e = d THEN st ELSE t[<<"netif", e>>]
  BY <1>4, <1>5, <1>6, KeyTypes
<1>10. \A id \in UsbIds : x[<<"usb", id>>] = t[<<"usb", id>>]
  BY <1>4, <1>5, <1>6, KeyTypes
<1> QED
  BY <1>2, <1>6, <1>7, <1>8, <1>9, <1>10

\* device::ready of a USB id.
LEMMA ReadyUsb ==
    ASSUME NEW t \in [Keys -> Bytes], NEW id \in UsbIds, NEW r, NEW st \in Bytes
    PROVE  /\ ready(t, id, r, st) \in [Keys -> Bytes]
           /\ ready(t, id, r, st)[<<"usb", id>>] = st
           /\ \A k \in Keys : k # <<"usb", id>> => ready(t, id, r, st)[k] = t[k]
<1>1. id # None /\ <<"usb", id>> \in Keys
  BY MapsAssumption, KeyTypes
<1>2. ready(t, id, r, st) = [t EXCEPT ![<<"usb", id>>] = st]
  BY <1>1 DEF ready, write_gen
<1> QED
  BY <1>1, <1>2

-----------------------------------------------------------------------------
(* The initial state *)

\* Nothing is known, nothing is there and nothing was told.
LEMMA MapsInit == Init => MapsInv
<1> SUFFICES ASSUME Init PROVE MapsInv
  OBVIOUS
<1>1. NewDevice \in DeviceRec
  BY DEF NewDevice, DeviceRec
<1>2. TypeOK
  BY <1>1 DEF Init, TypeOK
<1>3. BlockInv /\ NetInv
  BY MapsAssumption DEF Init, BlockInv, NetInv, Known, NewDevice, Sys
<1>4. UsbInv
  BY DEF Init, UsbInv, NewDevice, Sys
<1>5. SysTold /\ NodeTold /\ NetTold /\ UsbTold
  BY KeyTypes DEF Init, SysTold, NodeTold, NetTold, UsbTold, Known
<1> QED
  BY <1>2, <1>3, <1>4, <1>5 DEF MapsInv

-----------------------------------------------------------------------------
(* Events *)

\* An event of one device leaves the others as they were.
LEMMA Elsewhere ==
    ASSUME TypeOK, NEW d \in Sys, NEW r \in DeviceRec, dev' = [dev EXCEPT ![d] = r],
           map_sys' = map_sys \/ map_sys' = map_sys \cup {d}
    PROVE  /\ dev' \in [Sys -> DeviceRec] /\ map_sys' \subseteq Sys /\ dev'[d] = r
           /\ \A e \in Sys \ {d} :
                 /\ dev'[e] = dev[e]
                 /\ e \in map_sys' <=> e \in map_sys
                 /\ Known(e)' <=> Known(e)
BY DEF TypeOK, Known

\* The part of the invariant that events of devices with a node do not touch.
LEMMA BlockFrame ==
    ASSUME MapsInv, NEW d \in Blocks, NEW r \in DeviceRec, dev' = [dev EXCEPT ![d] = r],
           map_sys' = map_sys \/ map_sys' = map_sys \cup {d},
           present' = present \cup {d} \/ present' = present \ {d},
           UNCHANGED <<map_netif, map_mac, map_usb, addr, plugged>>
    PROVE  NetInv' /\ UsbInv'
<1>1. TypeOK /\ NetInv /\ UsbInv /\ d \in Sys /\ Nets \subseteq Sys /\ UsbIds \subseteq Sys
  BY DEF MapsInv, Sys
<1>2. d \notin Nets /\ d \notin UsbIds
  BY MapsAssumption
<1>3. \A e \in Nets \cup UsbIds :
         /\ dev'[e] = dev[e]
         /\ e \in map_sys' <=> e \in map_sys
         /\ Known(e)' <=> Known(e)
  BY <1>1, <1>2, Elsewhere
<1>4. NetInv'
  BY <1>1, <1>2, <1>3 DEF NetInv
<1>5. UsbInv'
  BY <1>1, <1>3 DEF UsbInv, TypeOK
<1> QED
  BY <1>4, <1>5

\* No other device has the node of an event, and none that is gone has any.
LEMMA NodeFree ==
    ASSUME MapsInv, NEW d \in Blocks, NEW n \in Nodes,
           \A e \in (present \cap Blocks) \ {d} : node[e] # n
    PROVE  map_dev[n] \in {d, None}
<1> SUFFICES ASSUME map_dev[n] # None, map_dev[n] # d PROVE FALSE
  OBVIOUS
<1>1. map_dev[n] \in Blocks
  BY DEF MapsInv, TypeOK
<1>2. node[map_dev[n]] = n /\ n # None
  BY <1>1, MapsAssumption DEF MapsInv, BlockInv
<1> QED
  BY <1>1, <1>2 DEF MapsInv, BlockInv

\* The links that follow a node are links to nodes.
LEMMA RelinkType ==
    ASSUME TypeOK, NEW d \in Blocks, NEW n \in Nodes \cup {None}, NEW L \in SUBSET Links,
           Relink(d, n, L)
    PROVE  link' \in [Links -> Nodes \cup {None}]
BY DEF TypeOK, Relink

\* add_device of a device with a node that was not known.
LEMMA MapsNewBlock ==
    ASSUME MapsInv, NEW d \in Blocks, NEW n \in Nodes \cup {None}, NEW L \in SUBSET Links,
           UdevNode(d, n, L), NewBlock(d, n)
    PROVE  MapsInv'
<1> DEFINE r == [dev[d] EXCEPT !.removed = FALSE, !.name = IF n = None THEN @ ELSE n]
<1>1. /\ TypeOK /\ BlockInv /\ SysTold /\ NodeTold /\ NetTold /\ UsbTold
      /\ d \in Sys /\ Blocks \subseteq Sys /\ Nets \subseteq Sys /\ UsbIds \subseteq Sys
  BY DEF MapsInv, Sys
<1>2. ~Known(d) /\ d \notin present /\ node[d] = None /\ dev[d].name = None /\ dev[d] \in DeviceRec
  BY <1>1 DEF NewBlock, BlockInv, TypeOK
<1>3. r \in DeviceRec /\ r.name = n /\ ~r.removed
  BY <1>2 DEF DeviceRec
<1>4. /\ map_sys' = map_sys \cup {d} /\ dev' = [dev EXCEPT ![d] = r]
      /\ map_dev' = Emplace(map_dev, n, d)
      /\ told' = ready(told, d, r, "1")
      /\ present' = present \cup {d}
      /\ node' = [node EXCEPT ![d] = n]
      /\ UNCHANGED <<map_netif, map_mac, map_usb, addr, plugged>>
      /\ link' \in [Links -> Nodes \cup {None}]
  BY <1>1, RelinkType DEF NewBlock, UdevNode
<1> HIDE DEF r
<1>5. NetInv' /\ UsbInv'
  BY <1>3, <1>4, BlockFrame
<1>6. /\ dev' \in [Sys -> DeviceRec] /\ map_sys' \subseteq Sys /\ dev'[d] = r
      /\ \A e \in Sys \ {d} : dev'[e] = dev[e] /\ (Known(e)' <=> Known(e))
  BY <1>1, <1>3, <1>4, Elsewhere
<1>7. Known(d)'
  BY <1>3, <1>4, <1>6 DEF Known
<1>8. node' \in [Blocks -> Nodes \cup {None}] /\ node'[d] = n
      /\ \A e \in Blocks \ {d} : node'[e] = node[e]
  BY <1>1, <1>4 DEF TypeOK
<1>9. n \in Nodes => map_dev[n] = None
  <2> SUFFICES ASSUME n \in Nodes PROVE map_dev[n] = None
    OBVIOUS
  <2>1. n # None
    BY MapsAssumption
  <2>2. map_dev[n] \in {d, None}
    BY <2>1, NodeFree DEF UdevNode
  <2>3. map_dev[n] # d
    BY <1>1, <1>2, <2>1 DEF BlockInv
  <2> QED
    BY <2>2, <2>3
<1>10. /\ map_dev' \in [Nodes -> Blocks \cup {None}]
       /\ \A m \in Nodes : map_dev'[m] = IF m = n THEN d ELSE map_dev[m]
  BY <1>1, <1>4, <1>9, MapsAssumption DEF Emplace, TypeOK
<1>11. /\ told' \in [Keys -> Bytes]
       /\ \A e \in Blocks \cup Nets : told'[<<"sys", e>>] =
              IF e = d THEN "1" ELSE told[<<"sys", e>>]
       /\ \A m \in Nodes : told'[<<"dev", m>>] = IF m = n THEN "1" ELSE told[<<"dev", m>>]
       /\ \A e \in Nets : told'[<<"netif", e>>] = told[<<"netif", e>>]
       /\ \A id \in UsbIds : told'[<<"usb", id>>] = told[<<"usb", id>>]
  <2>1. told \in [Keys -> Bytes] /\ "1" \in Bytes
    BY <1>1 DEF TypeOK, Bytes
  <2> QED
    BY <1>3, <1>4, <2>1, ReadyBlock
<1>12. TypeOK'
  BY <1>1, <1>4, <1>6, <1>8, <1>10, <1>11 DEF TypeOK, Bytes
<1>13. BlockInv'
  <2> SUFFICES ASSUME NEW e \in Blocks
               PROVE  /\ (e \in present <=> Known(e))'
                      /\ e \notin present' => node'[e] = None
                      /\ dev'[e].name = node'[e]
                      /\ \A m \in Nodes : map_dev'[m] = e <=> node'[e] = m
    BY DEF BlockInv
  <2>1. CASE e = d
    BY <1>1, <1>2, <1>3, <1>4, <1>6, <1>7, <1>8, <1>10, <2>1, MapsAssumption DEF BlockInv
  <2>2. CASE e # d
    BY <1>1, <1>4, <1>6, <1>8, <1>9, <1>10, <2>2, MapsAssumption DEF BlockInv
  <2> QED
    BY <2>1, <2>2
<1>14. SysTold' /\ NetTold' /\ UsbTold'
  BY <1>1, <1>6, <1>7, <1>11, MapsAssumption DEF SysTold, NetTold, UsbTold
<1>15. NodeTold'
  <2>1. d # None
    BY MapsAssumption
  <2> QED
    BY <1>1, <1>10, <1>11, <2>1 DEF NodeTold
<1> QED
  BY <1>5, <1>12, <1>13, <1>14, <1>15 DEF MapsInv

\* add_device of a device with a node that is known: set_dev.
LEMMA MapsChangeBlock ==
    ASSUME MapsInv, NEW d \in Blocks, NEW n \in Nodes \cup {None}, NEW L \in SUBSET Links,
           UdevNode(d, n, L), ChangeBlock(d, n)
    PROVE  MapsInv'
<1> DEFINE old == node[d]
           r == [dev[d] EXCEPT !.name = n]
           t == IF n = old THEN told ELSE write_dev(told, "0", old)
<1>1. /\ TypeOK /\ BlockInv /\ SysTold /\ NodeTold /\ NetTold /\ UsbTold
      /\ d \in Sys /\ Blocks \subseteq Sys /\ Nets \subseteq Sys /\ UsbIds \subseteq Sys
  BY DEF MapsInv, Sys
<1>2. /\ Known(d) /\ d \in present /\ dev[d].name = old /\ dev[d] \in DeviceRec
      /\ old \in Nodes \cup {None} /\ d # None
  BY <1>1, MapsAssumption DEF ChangeBlock, BlockInv, TypeOK
<1>3. r \in DeviceRec /\ r.name = n /\ r.removed = dev[d].removed
  BY <1>2 DEF DeviceRec
<1>4. /\ map_sys' = map_sys /\ dev' = [dev EXCEPT ![d] = r]
      /\ map_dev' = IF n = old THEN map_dev ELSE Emplace(Erase(map_dev, old), n, d)
      /\ told' = ready(t, d, r, "1")
      /\ present' = present \cup {d}
      /\ node' = [node EXCEPT ![d] = n]
      /\ UNCHANGED <<map_netif, map_mac, map_usb, addr, plugged>>
      /\ link' \in [Links -> Nodes \cup {None}]
  BY <1>1, <1>2, RelinkType DEF ChangeBlock, UdevNode
<1> HIDE DEF r, t
<1>5. NetInv' /\ UsbInv'
  BY <1>3, <1>4, BlockFrame
<1>6. /\ dev' \in [Sys -> DeviceRec] /\ map_sys' \subseteq Sys /\ dev'[d] = r
      /\ \A e \in Sys \ {d} : dev'[e] = dev[e] /\ (Known(e)' <=> Known(e))
  BY <1>1, <1>3, <1>4, Elsewhere
<1>7. Known(d)'
  BY <1>2, <1>3, <1>4, <1>6 DEF Known
<1>8. node' \in [Blocks -> Nodes \cup {None}] /\ node'[d] = n
      /\ \A e \in Blocks \ {d} : node'[e] = node[e]
  BY <1>1, <1>4 DEF TypeOK
<1>9. n \in Nodes => map_dev[n] \in {d, None}
  <2> SUFFICES ASSUME n \in Nodes PROVE map_dev[n] \in {d, None}
    OBVIOUS
  <2>1. n # None
    BY MapsAssumption
  <2> QED
    BY <2>1, NodeFree DEF UdevNode
<1>10. \A m \in Nodes : map_dev[m] = d <=> old = m
  BY <1>1 DEF BlockInv
<1>11. /\ map_dev' \in [Nodes -> Blocks \cup {None}]
       /\ \A m \in Nodes : map_dev'[m] = IF m = n THEN d
                                         ELSE IF m = old THEN None ELSE map_dev[m]
  <2>1. map_dev \in [Nodes -> Blocks \cup {None}] /\ \A m \in Nodes : m # None
    BY <1>1, MapsAssumption DEF TypeOK
  <2>2. CASE n = old
    BY <1>4, <1>10, <2>1, <2>2
  <2>3. CASE n # old
    <3> DEFINE e == Erase(map_dev, old)
    <3>1. /\ e \in [Nodes -> Blocks \cup {None}]
          /\ \A m \in Nodes : e[m] = IF m = old THEN None ELSE map_dev[m]
      BY <1>2, <2>1 DEF Erase
    <3>2. n \in Nodes => e[n] = None
      BY <1>9, <1>10, <2>3, <3>1
    <3> HIDE DEF e
    <3>3. map_dev' = IF n = None THEN e ELSE [e EXCEPT ![n] = d]
      BY <1>4, <2>3, <3>2 DEF Emplace, e
    <3> QED
      BY <2>1, <3>1, <3>3
  <2> QED
    BY <2>2, <2>3
<1>12. /\ told' \in [Keys -> Bytes]
       /\ \A e \in Blocks \cup Nets : told'[<<"sys", e>>] =
              IF e = d THEN "1" ELSE told[<<"sys", e>>]
       /\ \A m \in Nodes : told'[<<"dev", m>>] =
              IF m = n THEN "1" ELSE IF m = old THEN "0" ELSE told[<<"dev", m>>]
       /\ \A e \in Nets : told'[<<"netif", e>>] = told[<<"netif", e>>]
       /\ \A id \in UsbIds : told'[<<"usb", id>>] = told[<<"usb", id>>]
  <2>1. told \in [Keys -> Bytes] /\ "1" \in Bytes /\ "0" \in Bytes
    BY <1>1 DEF TypeOK, Bytes
  <2>2. /\ t \in [Keys -> Bytes]
        /\ \A k \in Keys : k[1] # "dev" => t[k] = told[k]
        /\ \A m \in Nodes : t[<<"dev", m>>] = IF m = old /\ n # old THEN "0" ELSE told[<<"dev", m>>]
    BY <1>2, <2>1, WriteDev DEF t
  <2>3. /\ \A e \in Blocks \cup Nets : t[<<"sys", e>>] = told[<<"sys", e>>]
        /\ \A e \in Nets : t[<<"netif", e>>] = told[<<"netif", e>>]
        /\ \A id \in UsbIds : t[<<"usb", id>>] = told[<<"usb", id>>]
    BY <2>2, KeyTypes
  <2>4. /\ told' \in [Keys -> Bytes]
        /\ \A e \in Blocks \cup Nets : told'[<<"sys", e>>] =
               IF e = d THEN "1" ELSE t[<<"sys", e>>]
        /\ \A m \in Nodes : told'[<<"dev", m>>] = IF m = n THEN "1" ELSE t[<<"dev", m>>]
        /\ \A e \in Nets : told'[<<"netif", e>>] = t[<<"netif", e>>]
        /\ \A id \in UsbIds : told'[<<"usb", id>>] = t[<<"usb", id>>]
    BY <1>3, <1>4, <2>1, <2>2, ReadyBlock
  <2> QED
    BY <2>2, <2>3, <2>4
<1>13. TypeOK'
  BY <1>1, <1>4, <1>6, <1>8, <1>11, <1>12 DEF TypeOK, Bytes
<1>14. BlockInv'
  <2> SUFFICES ASSUME NEW e \in Blocks
               PROVE  /\ (e \in present <=> Known(e))'
                      /\ e \notin present' => node'[e] = None
                      /\ dev'[e].name = node'[e]
                      /\ \A m \in Nodes : map_dev'[m] = e <=> node'[e] = m
    BY DEF BlockInv
  <2>1. CASE e = d
    BY <1>2, <1>3, <1>4, <1>6, <1>7, <1>8, <1>10, <1>11, <2>1
  <2>2. CASE e # d
    <3>1. e # None /\ e \in Sys /\ \A m \in Nodes : map_dev[m] = e <=> node[e] = m
      BY <1>1, MapsAssumption DEF BlockInv
    <3>2. \A m \in Nodes : map_dev'[m] = e <=> node'[e] = m
      BY <1>8, <1>9, <1>10, <1>11, <2>2, <3>1
    <3> QED
      BY <1>1, <1>4, <1>6, <1>8, <2>2, <3>1, <3>2 DEF BlockInv
  <2> QED
    BY <2>1, <2>2
<1>15. SysTold' /\ NetTold' /\ UsbTold'
  BY <1>1, <1>6, <1>7, <1>12, MapsAssumption DEF SysTold, NetTold, UsbTold
<1>16. NodeTold'
  BY <1>1, <1>2, <1>11, <1>12 DEF NodeTold
<1> QED
  BY <1>5, <1>13, <1>14, <1>15, <1>16 DEF MapsInv

\* remove_device of a device with a node.
LEMMA MapsRemoveBlock ==
    ASSUME MapsInv, NEW d \in Blocks, RemoveBlock(d)
    PROVE  MapsInv'
<1> DEFINE old == node[d]
           r == [dev[d] EXCEPT !.removed = TRUE, !.name = None]
<1>1. /\ TypeOK /\ BlockInv /\ NetInv /\ UsbInv
      /\ SysTold /\ NodeTold /\ NetTold /\ UsbTold
      /\ d \in Sys /\ Blocks \subseteq Sys /\ Nets \subseteq Sys /\ UsbIds \subseteq Sys
  BY DEF MapsInv, Sys
<1>2. /\ dev[d].name = old /\ dev[d] \in DeviceRec /\ old \in Nodes \cup {None} /\ d # None
      /\ \A m \in Nodes : m # None
  BY <1>1, MapsAssumption DEF BlockInv, TypeOK
<1>3. /\ present' = present \ {d}
      /\ node' = [node EXCEPT ![d] = None]
      /\ UNCHANGED <<map_sys, map_netif, map_mac, map_usb, addr, plugged>>
      /\ link' \in [Links -> Nodes \cup {None}]
  BY <1>1, RelinkType DEF RemoveBlock
<1>4. node' \in [Blocks -> Nodes \cup {None}] /\ node'[d] = None
      /\ \A e \in Blocks \ {d} : node'[e] = node[e]
  BY <1>1, <1>3 DEF TypeOK
<1>5. CASE ~Known(d)
  <2>1. UNCHANGED <<told, dev, map_dev>>
    BY <1>5 DEF RemoveBlock
  <2>2. d \notin present /\ old = None /\ present' = present /\ node' = node
    BY <1>1, <1>3, <1>5 DEF BlockInv, TypeOK
  <2>3. TypeOK'
    BY <1>1, <1>3, <1>4, <2>1, <2>2 DEF TypeOK
  <2>4. BlockInv' /\ NetInv' /\ UsbInv' /\ SysTold' /\ NodeTold' /\ NetTold' /\ UsbTold'
    BY <1>1, <1>3, <2>1, <2>2
    DEF BlockInv, NetInv, UsbInv, SysTold, NodeTold, NetTold, UsbTold, Known
  <2> QED
    BY <2>3, <2>4 DEF MapsInv
<1>6. CASE Known(d)
  <2>1. r \in DeviceRec /\ r.name = None /\ r.removed
    BY <1>2 DEF DeviceRec
  <2>2. /\ told' = ready(told, d, dev[d], "0")
        /\ dev' = [dev EXCEPT ![d] = r]
        /\ map_dev' = Erase(map_dev, old)
    <3>1. [dev EXCEPT ![d].removed = TRUE, ![d].name = None] = [dev EXCEPT ![d] = r]
      BY <1>1, <1>2 DEF TypeOK, DeviceRec
    <3> QED
      BY <1>2, <1>6, <3>1 DEF RemoveBlock
  <2> HIDE DEF r
  <2>3. NetInv' /\ UsbInv'
    BY <1>3, <2>1, <2>2, BlockFrame
  <2>4. /\ dev' \in [Sys -> DeviceRec] /\ map_sys' \subseteq Sys /\ dev'[d] = r
        /\ \A e \in Sys \ {d} : dev'[e] = dev[e] /\ (Known(e)' <=> Known(e))
    BY <1>1, <1>3, <2>1, <2>2, Elsewhere
  <2>5. ~Known(d)'
    BY <2>1, <2>4 DEF Known
  <2>6. \A m \in Nodes : map_dev[m] = d <=> old = m
    BY <1>1 DEF BlockInv
  <2>7. /\ map_dev' \in [Nodes -> Blocks \cup {None}]
        /\ \A m \in Nodes : map_dev'[m] = IF m = old THEN None ELSE map_dev[m]
    BY <1>1, <1>2, <2>2 DEF Erase, TypeOK
  <2>8. /\ told' \in [Keys -> Bytes]
        /\ \A e \in Blocks \cup Nets : told'[<<"sys", e>>] =
               IF e = d THEN "0" ELSE told[<<"sys", e>>]
        /\ \A m \in Nodes : told'[<<"dev", m>>] = IF m = old THEN "0" ELSE told[<<"dev", m>>]
        /\ \A e \in Nets : told'[<<"netif", e>>] = told[<<"netif", e>>]
        /\ \A id \in UsbIds : told'[<<"usb", id>>] = told[<<"usb", id>>]
    <3>1. told \in [Keys -> Bytes] /\ "0" \in Bytes
      BY <1>1 DEF TypeOK, Bytes
    <3> QED
      BY <1>2, <2>2, <3>1, ReadyBlock
  <2>9. TypeOK'
    BY <1>1, <1>3, <1>4, <2>4, <2>7, <2>8 DEF TypeOK, Bytes
  <2>10. BlockInv'
    <3> SUFFICES ASSUME NEW e \in Blocks
                 PROVE  /\ (e \in present <=> Known(e))'
                        /\ e \notin present' => node'[e] = None
                        /\ dev'[e].name = node'[e]
                        /\ \A m \in Nodes : map_dev'[m] = e <=> node'[e] = m
      BY DEF BlockInv
    <3>1. CASE e = d
      BY <1>2, <1>3, <1>4, <2>1, <2>4, <2>5, <2>6, <2>7, <3>1
    <3>2. CASE e # d
      <4>1. e # None /\ e \in Sys /\ \A m \in Nodes : map_dev[m] = e <=> node[e] = m
        BY <1>1, MapsAssumption DEF BlockInv
      <4>2. \A m \in Nodes : map_dev'[m] = e <=> node'[e] = m
        BY <1>4, <2>6, <2>7, <3>2, <4>1
      <4> QED
        BY <1>1, <1>3, <1>4, <2>4, <3>2, <4>1, <4>2 DEF BlockInv
    <3> QED
      BY <3>1, <3>2
  <2>11. SysTold' /\ NetTold' /\ UsbTold'
    BY <1>1, <2>4, <2>5, <2>8, MapsAssumption DEF SysTold, NetTold, UsbTold
  <2>12. NodeTold'
    BY <1>1, <2>7, <2>8 DEF NodeTold
  <2> QED
    BY <2>3, <2>9, <2>10, <2>11, <2>12 DEF MapsInv
<1> QED
  BY <1>5, <1>6

\* The part of the invariant that events of interfaces do not touch.
LEMMA NetFrame ==
    ASSUME MapsInv, NEW d \in Nets, NEW r \in DeviceRec, dev' = [dev EXCEPT ![d] = r],
           map_sys' = map_sys \/ map_sys' = map_sys \cup {d},
           present' = present \cup {d} \/ present' = present \ {d},
           UNCHANGED <<map_dev, map_usb, node, plugged, link>>
    PROVE  BlockInv' /\ UsbInv'
<1>1. TypeOK /\ BlockInv /\ UsbInv /\ d \in Sys /\ Blocks \subseteq Sys /\ UsbIds \subseteq Sys
  BY DEF MapsInv, Sys
<1>2. d \notin Blocks /\ d \notin UsbIds
  BY MapsAssumption
<1>3. \A e \in Blocks \cup UsbIds :
         /\ dev'[e] = dev[e]
         /\ e \in map_sys' <=> e \in map_sys
         /\ Known(e)' <=> Known(e)
  BY <1>1, <1>2, Elsewhere
<1>4. BlockInv'
  BY <1>1, <1>2, <1>3 DEF BlockInv
<1>5. UsbInv'
  BY <1>1, <1>3 DEF UsbInv, TypeOK
<1> QED
  BY <1>4, <1>5

\* What an event of an interface makes of its state and of the last broadcasts,
\* when it leaves the interface known (st "1") or not.
LEMMA NetStep ==
    ASSUME MapsInv, NEW d \in Nets, NEW r \in DeviceRec, dev' = [dev EXCEPT ![d] = r],
           map_sys' = map_sys \/ map_sys' = map_sys \cup {d},
           UNCHANGED <<map_dev, map_usb, node, plugged, link>>,
           NEW st \in {"0", "1"}, Known(d)' <=> st = "1",
           present' = (IF st = "1" THEN present \cup {d} ELSE present \ {d}),
           r.name = (IF st = "1" THEN d ELSE None),
           map_netif' = [map_netif EXCEPT ![d] = IF st = "1" THEN d ELSE None],
           map_mac' \subseteq MacEntry, addr' \in [Nets -> Macs \cup {None}],
           told' \in [Keys -> Bytes],
           \A e \in Blocks \cup Nets : told'[<<"sys", e>>] =
               IF e = d THEN st ELSE told[<<"sys", e>>],
           \A m \in Nodes : told'[<<"dev", m>>] = told[<<"dev", m>>],
           \A e \in Nets : told'[<<"netif", e>>] = IF e = d THEN st ELSE told[<<"netif", e>>],
           \A id \in UsbIds : told'[<<"usb", id>>] = told[<<"usb", id>>]
    PROVE  MapsInv'
<1>1. /\ TypeOK /\ NetInv /\ SysTold /\ NodeTold /\ NetTold /\ UsbTold
      /\ d \in Sys /\ Blocks \subseteq Sys /\ Nets \subseteq Sys /\ UsbIds \subseteq Sys
  BY DEF MapsInv, Sys
<1>2. d \notin Blocks /\ d \notin UsbIds /\ d # None
  BY MapsAssumption
<1>3. BlockInv' /\ UsbInv'
  BY NetFrame
<1>4. /\ dev' \in [Sys -> DeviceRec] /\ map_sys' \subseteq Sys /\ dev'[d] = r
      /\ \A e \in Sys \ {d} : dev'[e] = dev[e] /\ (Known(e)' <=> Known(e))
  BY <1>1, Elsewhere
<1>5. /\ map_netif' \in [Nets -> Nets \cup {None}]
      /\ map_netif'[d] = (IF st = "1" THEN d ELSE None)
      /\ \A e \in Nets \ {d} : map_netif'[e] = map_netif[e]
  BY <1>1 DEF TypeOK
<1>6. TypeOK'
  BY <1>1, <1>4, <1>5 DEF TypeOK, Bytes
<1>7. NetInv'
  <2> SUFFICES ASSUME NEW e \in Nets
               PROVE  /\ (e \in present <=> Known(e))'
                      /\ e \in present' => dev'[e].name = e /\ map_netif'[e] = e
                      /\ e \notin present' => dev'[e].name = None /\ map_netif'[e] = None
    BY DEF NetInv
  <2>1. CASE e = d
    BY <1>4, <1>5, <2>1
  <2>2. CASE e # d
    <3>1. (e \in present' <=> e \in present) /\ dev'[e] = dev[e] /\ (Known(e)' <=> Known(e))
      BY <1>1, <1>4, <2>2
    <3> QED
      BY <1>1, <1>5, <2>2, <3>1 DEF NetInv
  <2> QED
    BY <2>1, <2>2
<1>8. SysTold'
  BY <1>1, <1>4 DEF SysTold
<1>9. NetTold'
  BY <1>1, <1>4 DEF NetTold
<1>10. UsbTold' /\ NodeTold'
  BY <1>1, <1>2, <1>4 DEF UsbTold, NodeTold
<1> QED
  BY <1>3, <1>6, <1>7, <1>8, <1>9, <1>10 DEF MapsInv

\* add_device of an interface that was not known.
LEMMA MapsNewNet ==
    ASSUME MapsInv, NEW d \in Nets, NEW a \in Macs \cup {None}, UdevNet(d, a), NewNet(d, a)
    PROVE  MapsInv'
<1> DEFINE r == [dev[d] EXCEPT !.removed = FALSE, !.name = d,
                               !.mac = IF a = None THEN @ ELSE a]
<1>1. TypeOK /\ NetInv /\ d \in Sys /\ d # None
  BY MapsAssumption DEF MapsInv, Sys
<1>2. dev[d] \in DeviceRec /\ map_netif[d] = None
  BY <1>1 DEF NewNet, NetInv, TypeOK
<1>3. r \in DeviceRec /\ r.name = d /\ ~r.removed /\ r.mac \in Macs \cup {None}
  BY <1>2 DEF DeviceRec
<1>4. /\ map_sys' = map_sys \cup {d} /\ dev' = [dev EXCEPT ![d] = r]
      /\ map_netif' = Emplace(map_netif, d, d)
      /\ map_mac' = EmplaceMac(map_mac, dev', a, d, "mac")
      /\ told' = ready(told, d, r, "1")
      /\ present' = present \cup {d} /\ addr' = [addr EXCEPT ![d] = a]
      /\ UNCHANGED <<map_dev, map_usb, node, plugged, link>>
  BY DEF NewNet, UdevNet
<1> HIDE DEF r
<1>5. Known(d)'
  BY <1>1, <1>3, <1>4 DEF Known, TypeOK
<1>6. map_netif' = [map_netif EXCEPT ![d] = d]
  BY <1>1, <1>2, <1>4 DEF Emplace
<1>7. map_mac' \subseteq MacEntry
  BY <1>1, <1>4 DEF EmplaceMac, MacEntry, TypeOK
<1>8. addr' \in [Nets -> Macs \cup {None}]
  BY <1>1, <1>4 DEF TypeOK
<1>9. told \in [Keys -> Bytes] /\ "1" \in Bytes
  BY <1>1 DEF TypeOK, Bytes
<1>10. /\ told' \in [Keys -> Bytes]
       /\ \A e \in Blocks \cup Nets : told'[<<"sys", e>>] =
              IF e = d THEN "1" ELSE told[<<"sys", e>>]
       /\ \A m \in Nodes : told'[<<"dev", m>>] = told[<<"dev", m>>]
       /\ \A e \in Nets : told'[<<"netif", e>>] = IF e = d THEN "1" ELSE told[<<"netif", e>>]
       /\ \A id \in UsbIds : told'[<<"usb", id>>] = told[<<"usb", id>>]
  BY <1>3, <1>4, <1>9, ReadyNet
<1> QED
  BY <1>3, <1>4, <1>5, <1>6, <1>7, <1>8, <1>10, NetStep

\* add_device of an interface that is known: set_mac.
LEMMA MapsChangeNet ==
    ASSUME MapsInv, NEW d \in Nets, NEW a \in Macs \cup {None}, UdevNet(d, a), ChangeNet(d, a)
    PROVE  MapsInv'
<1> DEFINE old == dev[d].mac
           r == [dev[d] EXCEPT !.mac = a]
           t == IF a = old THEN told ELSE write_gen(told, "mac", "0", old)
<1>1. TypeOK /\ NetInv /\ d \in Sys /\ d # None
  BY MapsAssumption DEF MapsInv, Sys
<1>2. /\ Known(d) /\ dev[d] \in DeviceRec /\ old \in Macs \cup {None}
      /\ dev[d].name = d /\ map_netif[d] = d
  BY <1>1 DEF ChangeNet, NetInv, TypeOK, DeviceRec
<1>3. r \in DeviceRec /\ r.name = d /\ r.removed = dev[d].removed /\ r.mac = a
  BY <1>2 DEF DeviceRec
<1>4. /\ map_sys' = map_sys /\ dev' = [dev EXCEPT ![d] = r]
      /\ told' = ready(t, d, r, "1")
      /\ present' = present \cup {d} /\ addr' = [addr EXCEPT ![d] = a]
      /\ UNCHANGED <<map_dev, map_netif, map_usb, node, plugged, link>>
  BY DEF ChangeNet, UdevNet
<1>5. map_mac' \subseteq MacEntry
  <2>1. map_mac' \subseteq map_mac \cup {[hash |-> d, owner |-> d, field |-> "name"]}
    BY <1>3 DEF ChangeNet, EmplaceMac, EraseMac
  <2> QED
    BY <1>1, <2>1 DEF MacEntry, TypeOK
<1> HIDE DEF r, t
<1>6. Known(d)'
  BY <1>1, <1>2, <1>3, <1>4 DEF Known, TypeOK
<1>7. map_netif' = [map_netif EXCEPT ![d] = d]
  BY <1>1, <1>2, <1>4 DEF TypeOK
<1>8. addr' \in [Nets -> Macs \cup {None}]
  BY <1>1, <1>4 DEF TypeOK
<1>9. told \in [Keys -> Bytes] /\ "1" \in Bytes /\ "0" \in Bytes
  BY <1>1 DEF TypeOK, Bytes
<1>10. t \in [Keys -> Bytes] /\ \A k \in Keys : k[1] # "mac" => t[k] = told[k]
  <2>1. CASE a = old \/ old = None
    BY <1>9, <2>1 DEF t, write_gen
  <2>2. CASE a # old /\ old # None
    <3> DEFINE m == <<"mac", old>>
    <3>1. m \in Keys /\ m[1] = "mac"
      BY <1>2, <2>2, KeyTypes
    <3>2. t = [told EXCEPT ![m] = "0"]
      BY <2>2 DEF t, write_gen
    <3> HIDE DEF m
    <3> QED
      BY <1>9, <3>1, <3>2
  <2> QED
    BY <2>1, <2>2
<1>11. /\ \A e \in Blocks \cup Nets : t[<<"sys", e>>] = told[<<"sys", e>>]
       /\ \A m \in Nodes : t[<<"dev", m>>] = told[<<"dev", m>>]
       /\ \A e \in Nets : t[<<"netif", e>>] = told[<<"netif", e>>]
       /\ \A id \in UsbIds : t[<<"usb", id>>] = told[<<"usb", id>>]
  BY <1>10, KeyTypes
<1>12. /\ told' \in [Keys -> Bytes]
       /\ \A e \in Blocks \cup Nets : told'[<<"sys", e>>] =
              IF e = d THEN "1" ELSE t[<<"sys", e>>]
       /\ \A m \in Nodes : told'[<<"dev", m>>] = t[<<"dev", m>>]
       /\ \A e \in Nets : told'[<<"netif", e>>] = IF e = d THEN "1" ELSE t[<<"netif", e>>]
       /\ \A id \in UsbIds : told'[<<"usb", id>>] = t[<<"usb", id>>]
  BY <1>3, <1>4, <1>9, <1>10, ReadyNet
<1>13. /\ \A e \in Blocks \cup Nets : told'[<<"sys", e>>] =
              IF e = d THEN "1" ELSE told[<<"sys", e>>]
       /\ \A m \in Nodes : told'[<<"dev", m>>] = told[<<"dev", m>>]
       /\ \A e \in Nets : told'[<<"netif", e>>] = IF e = d THEN "1" ELSE told[<<"netif", e>>]
       /\ \A id \in UsbIds : told'[<<"usb", id>>] = told[<<"usb", id>>]
  BY <1>11, <1>12
<1> QED
  BY <1>3, <1>4, <1>5, <1>6, <1>7, <1>8, <1>12, <1>13, NetStep

\* remove_device of an interface.
LEMMA MapsRemoveNet ==
    ASSUME MapsInv, NEW d \in Nets, RemoveNet(d)
    PROVE  MapsInv'
<1> DEFINE r == [dev[d] EXCEPT !.removed = TRUE, !.name = None, !.mac = None]
<1>1. /\ TypeOK /\ BlockInv /\ NetInv /\ UsbInv
      /\ SysTold /\ NodeTold /\ NetTold /\ UsbTold /\ d \in Sys /\ d # None
  BY MapsAssumption DEF MapsInv, Sys
<1>2. /\ present' = present \ {d} /\ addr' = [addr EXCEPT ![d] = None]
      /\ UNCHANGED <<map_sys, map_dev, map_usb, node, plugged, link>>
  BY DEF RemoveNet
<1>3. addr' \in [Nets -> Macs \cup {None}]
  BY <1>1, <1>2 DEF TypeOK
<1>4. CASE ~Known(d)
  <2>1. UNCHANGED <<told, dev, map_netif, map_mac>>
    BY <1>4 DEF RemoveNet
  <2>2. present' = present
    BY <1>1, <1>2, <1>4 DEF NetInv
  <2>3. TypeOK'
    BY <1>1, <1>2, <1>3, <2>1, <2>2 DEF TypeOK
  <2>4. BlockInv' /\ NetInv' /\ UsbInv' /\ SysTold' /\ NodeTold' /\ NetTold' /\ UsbTold'
    BY <1>1, <1>2, <2>1, <2>2
    DEF BlockInv, NetInv, UsbInv, SysTold, NodeTold, NetTold, UsbTold, Known
  <2> QED
    BY <2>3, <2>4 DEF MapsInv
<1>5. CASE Known(d)
  <2>1. dev[d] \in DeviceRec /\ dev[d].name = d /\ dev[d].mac \in Macs \cup {None}
    BY <1>1, <1>5 DEF NetInv, TypeOK, DeviceRec
  <2>2. r \in DeviceRec /\ r.name = None /\ r.removed
    BY <2>1 DEF DeviceRec
  <2>3. /\ told' = ready(told, d, dev[d], "0")
        /\ dev' = [dev EXCEPT ![d] = r]
        /\ map_netif' = Erase(map_netif, d)
        /\ map_mac' \subseteq map_mac
    <3>1. [dev EXCEPT ![d].removed = TRUE, ![d].name = None, ![d].mac = None]
          = [dev EXCEPT ![d] = r]
      BY <1>1, <2>1 DEF TypeOK, DeviceRec
    <3> QED
      BY <1>5, <2>1, <3>1 DEF RemoveNet, EraseMac
  <2> HIDE DEF r
  <2>4. ~Known(d)'
    BY <1>1, <2>2, <2>3 DEF Known, TypeOK
  <2>5. map_netif' = [map_netif EXCEPT ![d] = None]
    BY <1>1, <2>3 DEF Erase
  <2>6. map_mac' \subseteq MacEntry
    BY <1>1, <2>3 DEF TypeOK
  <2>7. told \in [Keys -> Bytes] /\ "0" \in Bytes
    BY <1>1 DEF TypeOK, Bytes
  <2>8. /\ told' \in [Keys -> Bytes]
        /\ \A e \in Blocks \cup Nets : told'[<<"sys", e>>] =
               IF e = d THEN "0" ELSE told[<<"sys", e>>]
        /\ \A m \in Nodes : told'[<<"dev", m>>] = told[<<"dev", m>>]
        /\ \A e \in Nets : told'[<<"netif", e>>] = IF e = d THEN "0" ELSE told[<<"netif", e>>]
        /\ \A id \in UsbIds : told'[<<"usb", id>>] = told[<<"usb", id>>]
    BY <2>1, <2>3, <2>7, ReadyNet
  <2> QED
    BY <1>2, <1>3, <2>2, <2>3, <2>4, <2>5, <2>6, <2>8, NetStep
<1> QED
  BY <1>4, <1>5

\* The part of the invariant that events of USB devices do not touch.
LEMMA UsbFrame ==
    ASSUME MapsInv, NEW id \in UsbIds, NEW r \in DeviceRec, dev' = [dev EXCEPT ![id] = r],
           map_sys' = map_sys \/ map_sys' = map_sys \cup {id},
           told' \in [Keys -> Bytes],
           \A k \in Keys : k # <<"usb", id>> => told'[k] = told[k],
           told'[<<"usb", id>>] = "1" <=> Known(id)',
           plugged' \in [Devnums -> UsbIds \cup {None}],
           map_usb' \in [Devnums -> UsbIds \cup {None}],
           UNCHANGED <<map_dev, map_netif, map_mac, present, node, addr, link>>
    PROVE  TypeOK' /\ BlockInv' /\ NetInv' /\ SysTold' /\ NodeTold' /\ NetTold' /\ UsbTold'
<1>1. /\ TypeOK /\ BlockInv /\ NetInv /\ SysTold /\ NodeTold /\ NetTold /\ UsbTold
      /\ id \in Sys /\ Blocks \subseteq Sys /\ Nets \subseteq Sys /\ UsbIds \subseteq Sys
  BY DEF MapsInv, Sys
<1>2. id \notin Blocks /\ id \notin Nets
  BY MapsAssumption
<1>3. /\ dev' \in [Sys -> DeviceRec] /\ map_sys' \subseteq Sys
      /\ \A e \in Sys \ {id} : dev'[e] = dev[e] /\ (Known(e)' <=> Known(e))
  BY <1>1, Elsewhere
<1>4. TypeOK'
  BY <1>1, <1>3 DEF TypeOK, Bytes
<1>5. BlockInv' /\ NetInv'
  BY <1>1, <1>2, <1>3 DEF BlockInv, NetInv
<1>6. /\ \A e \in Blocks \cup Nets : told'[<<"sys", e>>] = told[<<"sys", e>>]
      /\ \A m \in Nodes : told'[<<"dev", m>>] = told[<<"dev", m>>]
      /\ \A e \in Nets : told'[<<"netif", e>>] = told[<<"netif", e>>]
      /\ \A e \in UsbIds \ {id} : told'[<<"usb", e>>] = told[<<"usb", e>>]
  BY KeyTypes
<1>7. SysTold' /\ NodeTold' /\ NetTold'
  BY <1>1, <1>2, <1>3, <1>6 DEF SysTold, NodeTold, NetTold
<1>8. UsbTold'
  BY <1>1, <1>3, <1>6 DEF UsbTold
<1> QED
  BY <1>4, <1>5, <1>7, <1>8

\* add_device of a USB device.
LEMMA MapsAddUsb ==
    ASSUME MapsInv, NEW num \in Devnums, NEW id \in UsbIds, AddUsb(num, id)
    PROVE  MapsInv'
<1> DEFINE r == [dev[id] EXCEPT !.removed = FALSE, !.devset = @ \cup {num}]
<1>1. TypeOK /\ UsbInv /\ UsbTold /\ id \in Sys /\ UsbIds \subseteq Sys /\ id # None
  BY MapsAssumption DEF MapsInv, Sys
<1>2. dev[id] \in DeviceRec /\ dev \in [Sys -> DeviceRec]
  BY <1>1 DEF TypeOK
<1>3. r \in DeviceRec /\ ~r.removed /\ r.devset = dev[id].devset \cup {num}
  BY <1>2 DEF DeviceRec
<1>4. /\ plugged[num] \in {None, id} /\ plugged' = [plugged EXCEPT ![num] = id]
      /\ map_sys' = map_sys \cup {id}
      /\ map_usb' = IF Known(id) THEN map_usb ELSE [map_usb EXCEPT ![num] = id]
      /\ told' = ready(told, id, dev[id], "1")
      /\ UNCHANGED <<map_dev, map_netif, map_mac, present, node, addr, link>>
  BY DEF AddUsb
<1>5. dev' = [dev EXCEPT ![id] = r]
  <2>1. [dev EXCEPT ![id].removed = FALSE, ![id].devset = @ \cup {num}] = [dev EXCEPT ![id] = r]
    BY <1>1, <1>2 DEF DeviceRec
  <2> QED
    BY <2>1 DEF AddUsb
<1> HIDE DEF r
<1>6. /\ dev'[id] = r
      /\ \A e \in Sys \ {id} : dev'[e] = dev[e] /\ (e \in map_sys' <=> e \in map_sys)
  BY <1>1, <1>3, <1>4, <1>5, Elsewhere
<1>7. Known(id)'
  BY <1>3, <1>4, <1>6 DEF Known
<1>8. /\ told' \in [Keys -> Bytes] /\ told'[<<"usb", id>>] = "1"
      /\ \A k \in Keys : k # <<"usb", id>> => told'[k] = told[k]
  <2>1. told \in [Keys -> Bytes] /\ "1" \in Bytes
    BY <1>1 DEF TypeOK, Bytes
  <2> QED
    BY <1>4, <2>1, ReadyUsb
<1>9. /\ plugged' \in [Devnums -> UsbIds \cup {None}] /\ plugged'[num] = id
      /\ \A m \in Devnums \ {num} : plugged'[m] = plugged[m]
  BY <1>1, <1>4 DEF TypeOK
<1>10. /\ map_usb' \in [Devnums -> UsbIds \cup {None}]
       /\ map_usb'[num] \in {map_usb[num], id}
       /\ \A m \in Devnums \ {num} : map_usb'[m] = map_usb[m]
  BY <1>1, <1>4 DEF TypeOK
<1>11. TypeOK' /\ BlockInv' /\ NetInv' /\ SysTold' /\ NodeTold' /\ NetTold' /\ UsbTold'
  BY <1>3, <1>4, <1>5, <1>7, <1>8, <1>9, <1>10, UsbFrame
<1>12. UsbInv'
  <2>1. ASSUME NEW e \in UsbIds
        PROVE  /\ ~dev'[e].removed \/ dev'[e].devset = {}
               /\ e \in map_sys' => (dev'[e].devset = {} => dev'[e].removed)
               /\ e \notin map_sys' => dev'[e].devset = {}
    <3>1. CASE e = id
      BY <1>3, <1>4, <1>6, <3>1
    <3>2. CASE e # id
      BY <1>1, <1>6, <3>2 DEF UsbInv
    <3> QED
      BY <3>1, <3>2
  <2>2. ASSUME NEW m \in Devnums, plugged'[m] # None
        PROVE  m \in dev'[plugged'[m]].devset
    <3>1. CASE m = num
      BY <1>3, <1>6, <1>9, <3>1
    <3>2. CASE m # num
      <4>1. plugged'[m] = plugged[m] /\ plugged[m] \in UsbIds /\ m \in dev[plugged[m]].devset
        BY <1>1, <1>9, <2>2, <3>2 DEF UsbInv, TypeOK
      <4> QED
        BY <1>1, <1>3, <1>6, <4>1
    <3> QED
      BY <3>1, <3>2
  <2>3. ASSUME NEW m \in Devnums, map_usb'[m] # None
        PROVE  plugged'[m] = map_usb'[m]
    BY <1>1, <1>4, <1>9, <1>10, <2>3 DEF UsbInv
  <2> QED
    BY <2>1, <2>2, <2>3 DEF UsbInv
<1> QED
  BY <1>11, <1>12 DEF MapsInv

\* remove_device of a USB device.
LEMMA MapsRemoveUsb ==
    ASSUME MapsInv, NEW num \in Devnums, RemoveUsb(num)
    PROVE  MapsInv'
<1>0. PICK id \in UsbIds \cup {None} : id = map_usb[num]
  BY DEF MapsInv, TypeOK
<1> DEFINE rest == dev[id].devset \ {num}
           last == rest = {} /\ ~dev[id].removed
           r == [dev[id] EXCEPT !.devset = rest, !.removed = @ \/ last]
<1>1. /\ TypeOK /\ BlockInv /\ NetInv /\ UsbInv
      /\ SysTold /\ NodeTold /\ NetTold /\ UsbTold /\ UsbIds \subseteq Sys
  BY DEF MapsInv, Sys
<1>2. /\ plugged' = [plugged EXCEPT ![num] = None]
      /\ UNCHANGED <<map_sys, map_dev, map_netif, map_mac, present, node, addr, link>>
  BY DEF RemoveUsb
<1>3. /\ plugged' \in [Devnums -> UsbIds \cup {None}] /\ plugged'[num] = None
      /\ \A m \in Devnums \ {num} : plugged'[m] = plugged[m]
  BY <1>1, <1>2 DEF TypeOK
<1>4. CASE id = None
  <2>1. UNCHANGED <<dev, map_usb, told>>
    BY <1>0, <1>4 DEF RemoveUsb
  <2>2. TypeOK'
    BY <1>1, <1>2, <1>3, <2>1 DEF TypeOK
  <2>3. UsbInv'
    BY <1>0, <1>1, <1>2, <1>3, <1>4, <2>1 DEF UsbInv
  <2>4. BlockInv' /\ NetInv' /\ SysTold' /\ NodeTold' /\ NetTold' /\ UsbTold'
    BY <1>1, <1>2, <2>1 DEF BlockInv, NetInv, SysTold, NodeTold, NetTold, UsbTold, Known
  <2> QED
    BY <2>2, <2>3, <2>4 DEF MapsInv
<1>5. CASE id # None
  <2>1. id \in UsbIds /\ id \in Sys /\ dev[id] \in DeviceRec /\ dev \in [Sys -> DeviceRec]
    BY <1>1, <1>5 DEF TypeOK
  <2>2. plugged[num] = id /\ num \in dev[id].devset /\ ~dev[id].removed /\ id \in map_sys
    BY <1>0, <1>1, <1>5, <2>1 DEF UsbInv
  <2>3. r \in DeviceRec /\ r.devset = rest /\ (r.removed <=> rest = {})
    BY <2>1, <2>2 DEF DeviceRec
  <2>4. /\ map_usb' = [map_usb EXCEPT ![num] = None]
        /\ told' = IF rest = {} THEN ready(told, id, dev[id], "0") ELSE told
    BY <1>0, <1>5, <2>2 DEF RemoveUsb
  <2>5. dev' = [dev EXCEPT ![id] = r]
    <3>1. [dev EXCEPT ![id].devset = rest, ![id].removed = @ \/ last] = [dev EXCEPT ![id] = r]
      BY <2>1 DEF DeviceRec
    <3> QED
      BY <1>0, <1>5, <3>1 DEF RemoveUsb
  <2> HIDE DEF r, last
  <2>6. dev'[id] = r /\ \A e \in Sys \ {id} : dev'[e] = dev[e]
    BY <1>1, <1>2, <2>1, <2>3, <2>5, Elsewhere
  <2>7. Known(id) /\ (Known(id)' <=> rest # {})
    BY <1>2, <2>2, <2>3, <2>6 DEF Known
  <2>8. /\ told' \in [Keys -> Bytes]
        /\ told'[<<"usb", id>>] = "1" <=> rest # {}
        /\ \A k \in Keys : k # <<"usb", id>> => told'[k] = told[k]
    <3>1. told \in [Keys -> Bytes] /\ "0" \in Bytes /\ told[<<"usb", id>>] = "1"
      BY <1>1, <2>1, <2>7 DEF TypeOK, Bytes, UsbTold
    <3>2. CASE rest # {}
      BY <2>4, <3>1, <3>2
    <3>3. CASE rest = {}
      <4>1. told' = ready(told, id, dev[id], "0")
        BY <2>4, <3>3
      <4>2. /\ told' \in [Keys -> Bytes] /\ told'[<<"usb", id>>] = "0"
            /\ \A k \in Keys : k # <<"usb", id>> => told'[k] = told[k]
        BY <2>1, <3>1, <4>1, ReadyUsb
      <4> QED
        BY <3>3, <4>2
    <3> QED
      BY <3>2, <3>3
  <2>9. /\ map_usb' \in [Devnums -> UsbIds \cup {None}] /\ map_usb'[num] = None
        /\ \A m \in Devnums \ {num} : map_usb'[m] = map_usb[m]
    BY <1>1, <2>4 DEF TypeOK
  <2>10. told'[<<"usb", id>>] = "1" <=> Known(id)'
    BY <2>7, <2>8
  <2>11. TypeOK' /\ BlockInv' /\ NetInv' /\ SysTold' /\ NodeTold' /\ NetTold' /\ UsbTold'
    <3> HIDE DEF rest
    <3> QED
      BY <1>2, <1>3, <2>1, <2>3, <2>5, <2>8, <2>9, <2>10, UsbFrame
  <2>12. UsbInv'
    <3>1. ASSUME NEW e \in UsbIds
          PROVE  /\ ~dev'[e].removed \/ dev'[e].devset = {}
                 /\ e \in map_sys' => (dev'[e].devset = {} => dev'[e].removed)
                 /\ e \notin map_sys' => dev'[e].devset = {}
      <4>1. CASE e = id
        BY <1>2, <2>2, <2>3, <2>6, <4>1
      <4>2. CASE e # id
        BY <1>1, <1>2, <2>6, <4>2 DEF UsbInv
      <4> QED
        BY <4>1, <4>2
    <3>2. ASSUME NEW m \in Devnums, plugged'[m] # None
          PROVE  m \in dev'[plugged'[m]].devset
      <4>1. m # num /\ plugged'[m] = plugged[m] /\ plugged[m] \in UsbIds
        BY <1>1, <1>3, <3>2 DEF TypeOK
      <4>2. m \in dev[plugged[m]].devset
        BY <1>1, <3>2, <4>1 DEF UsbInv
      <4> QED
        BY <1>1, <2>3, <2>6, <4>1, <4>2
    <3>3. ASSUME NEW m \in Devnums, map_usb'[m] # None
          PROVE  plugged'[m] = map_usb'[m]
      BY <1>1, <1>3, <2>9, <3>3 DEF UsbInv
    <3> QED
      BY <3>1, <3>2, <3>3 DEF UsbInv
  <2> QED
    BY <2>11, <2>12 DEF MapsInv
<1> QED
  BY <1>4, <1>5

\* Every event keeps the invariant.
LEMMA MapsNext == MapsInv /\ [Next]_vars => MapsInv'
<1> SUFFICES ASSUME MapsInv, [Next]_vars PROVE MapsInv'
  OBVIOUS
<1>1. ASSUME NEW d \in Blocks, NEW n \in Nodes \cup {None}, NEW L \in SUBSET Links,
             UdevNode(d, n, L) /\ (NewBlock(d, n) \/ ChangeBlock(d, n))
      PROVE  MapsInv'
  BY <1>1, MapsNewBlock, MapsChangeBlock
<1>2. ASSUME NEW d \in Nets, NEW a \in Macs \cup {None},
             UdevNet(d, a) /\ (NewNet(d, a) \/ ChangeNet(d, a))
      PROVE  MapsInv'
  BY <1>2, MapsNewNet, MapsChangeNet
<1>3. CASE UNCHANGED vars
  <2>1. UNCHANGED <<map_sys, dev, map_dev, map_netif, map_mac, map_usb, told,
                    present, node, addr, plugged, link>>
    BY <1>3 DEF vars, registry, world
  <2> QED
    BY <2>1 DEF MapsInv, TypeOK, BlockInv, NetInv, UsbInv, SysTold, NodeTold, NetTold,
           UsbTold, Known
<1> QED
  BY <1>1, <1>2, <1>3, MapsRemoveBlock, MapsRemoveNet, MapsAddUsb, MapsRemoveUsb DEF Next

\* The invariant holds in every reachable state.
LEMMA MapsInvariance == Spec => []MapsInv
BY MapsInit, MapsNext, PTL DEF Spec

-----------------------------------------------------------------------------
(* Answers *)

\* check_devnode finds a device exactly when one has the node.
LEMMA NodeFound ==
    ASSUME MapsInv, NEW n \in Nodes
    PROVE  /\ map_dev[n] # None <=> HasNode(n)
           /\ map_dev[n] # None => map_dev[n] \in Blocks /\ ~dev[map_dev[n]].removed
<1>1. n # None /\ TypeOK /\ BlockInv
  BY MapsAssumption DEF MapsInv
<1>2. ASSUME map_dev[n] # None
      PROVE  HasNode(n) /\ map_dev[n] \in Blocks /\ ~dev[map_dev[n]].removed
  <2>1. map_dev[n] \in Blocks
    BY <1>1, <1>2 DEF TypeOK
  <2>2. node[map_dev[n]] = n
    BY <1>1, <2>1 DEF BlockInv
  <2>3. map_dev[n] \in present /\ Known(map_dev[n])
    BY <1>1, <2>1, <2>2 DEF BlockInv
  <2> QED
    BY <1>1, <2>1, <2>2, <2>3 DEF HasNode, Known
<1>3. ASSUME HasNode(n) PROVE map_dev[n] # None
  <2>1. PICK d \in present \cap Blocks : node[d] = n
    BY <1>3 DEF HasNode
  <2>2. map_dev[n] = d /\ d # None
    BY <1>1, <2>1, MapsAssumption DEF BlockInv
  <2> QED
    BY <2>2
<1> QED
  BY <1>2, <1>3

\* What the main loop answers a client that asks about a node or a link.
LEMMA AnswerNode ==
    ASSUME MapsInv, NEW v \in Nodes \cup Links
    PROVE  /\ Answer(<<"dev", v>>) = "1" <=> Available(<<"dev", v>>)
           /\ v \in Nodes => (Answer(<<"dev", v>>) = "1" <=> map_dev[v] # None)
<1> DEFINE k == <<"dev", v>>
           n == IF v \in Nodes THEN v ELSE link[v]
<1>1. k[1] = "dev" /\ k[2] = v
  OBVIOUS
<1>2. n \in Nodes \cup {None} /\ None \notin Nodes
  BY MapsAssumption DEF MapsInv, TypeOK
<1> HIDE DEF k
<1>3. Lookup(k) = check_devnode(v)
  BY <1>1 DEF Lookup
<1>4. Available(k) <=> HasNode(n)
  BY <1>1 DEF Available
<1>5. CASE n \in Nodes
  <2>1. check_devnode(v) = map_dev[n]
    BY <1>2, <1>5 DEF check_devnode
  <2>2. Answer(k) = "1" <=> map_dev[n] # None
    BY <1>3, <1>5, <2>1, NodeFound DEF Answer
  <2> QED
    BY <1>4, <1>5, <2>2, NodeFound DEF k
<1>6. CASE n = None
  <2>1. check_devnode(v) = None /\ v \notin Nodes
    BY <1>2, <1>6 DEF check_devnode
  <2>2. ~HasNode(n)
    BY <1>6 DEF HasNode
  <2> QED
    BY <1>3, <1>4, <2>1, <2>2 DEF Answer, k
<1> QED
  BY <1>2, <1>5, <1>6

\* What the main loop answers a client that asks about an interface.
LEMMA AnswerNet ==
    ASSUME MapsInv, NEW d \in Nets
    PROVE  /\ Answer(<<"netif", d>>) = "1" <=> Available(<<"netif", d>>)
           /\ Answer(<<"netif", d>>) = "1" <=> Known(d)
<1> DEFINE k == <<"netif", d>>
<1>1. k[1] = "netif" /\ k[2] = d /\ d # None
  BY MapsAssumption
<1> HIDE DEF k
<1>2. Lookup(k) = map_netif[d] /\ (Available(k) <=> d \in present)
  BY <1>1 DEF Lookup, Available
<1>3. Answer(k) = "1" <=> Known(d)
  BY <1>1, <1>2 DEF Answer, MapsInv, NetInv, Known
<1> QED
  BY <1>2, <1>3 DEF MapsInv, NetInv, k

\* What the main loop answers a client that asks about a syspath.
LEMMA AnswerSys ==
    ASSUME MapsInv, NEW d \in Blocks \cup Nets
    PROVE  /\ Answer(<<"sys", d>>) = "1" <=> Available(<<"sys", d>>)
           /\ Answer(<<"sys", d>>) = "1" <=> Known(d)
<1> DEFINE k == <<"sys", d>>
<1>1. k[1] = "sys" /\ k[2] = d /\ d # None
  BY MapsAssumption
<1> HIDE DEF k
<1>2. /\ Lookup(k) = IF d \in map_sys THEN d ELSE None
      /\ Available(k) <=> d \in present
  BY <1>1 DEF Lookup, Available
<1>3. Answer(k) = "1" <=> Known(d)
  BY <1>1, <1>2 DEF Answer, Known
<1> QED
  BY <1>2, <1>3 DEF MapsInv, BlockInv, NetInv, k

\* What the main loop answers a client that asks about a USB id.
LEMMA AnswerUsb ==
    ASSUME MapsInv, NEW id \in UsbIds
    PROVE  /\ Answer(<<"usb", id>>) = "1" <=> Known(id)
           /\ Available(<<"usb", id>>) => Known(id)
<1> DEFINE k == <<"usb", id>>
<1>1. k[1] = "usb" /\ k[2] = id /\ id # None
  BY MapsAssumption
<1> HIDE DEF k
<1>2. /\ Lookup(k) = IF id \in map_sys THEN id ELSE None
      /\ Available(k) <=> \E num \in Devnums : plugged[num] = id
  BY <1>1 DEF Lookup, Available
<1>3. Answer(k) = "1" <=> Known(id)
  BY <1>1, <1>2 DEF Answer, Known
<1>4. ASSUME NEW num \in Devnums, plugged[num] = id PROVE Known(id)
  BY <1>1, <1>4 DEF MapsInv, UsbInv, Known
<1> QED
  BY <1>2, <1>3, <1>4 DEF k

\* The kinds of keys.
LEMMA KeyKinds ==
    ASSUME NEW k \in Keys, k[1] \in {"dev", "netif", "sys"}
    PROVE  \/ k[1] = "dev" /\ k[2] \in Nodes \cup Links /\ k = <<"dev", k[2]>>
           \/ k[1] = "netif" /\ k[2] \in Nets /\ k = <<"netif", k[2]>>
           \/ k[1] = "sys" /\ k[2] \in Blocks \cup Nets /\ k = <<"sys", k[2]>>
BY DEF Keys

-----------------------------------------------------------------------------
(* The theorems *)

\* For any devices and any sequence of udev events the registries keep their
\* types: each map leads to devices of the kind it indexes.
THEOREM MapsTypeCorrect == Spec => []TypeOK
<1>1. MapsInv => TypeOK
  BY DEF MapsInv
<1> QED
  BY <1>1, MapsInvariance, PTL

\* A client that asks about a node, a link, an interface or a syspath is told
\* the truth by the lookups of the main loop.
THEOREM ClientsToldTruth == Spec => []AnswersTruth
<1>1. MapsInv => AnswersTruth
  <2> SUFFICES ASSUME MapsInv, NEW k \in Keys, k[1] \in {"dev", "netif", "sys"}
               PROVE  Answer(k) = "1" <=> Available(k)
    BY DEF AnswersTruth
  <2> QED
    BY KeyKinds, AnswerNode, AnswerNet, AnswerSys
<1> QED
  BY <1>1, MapsInvariance, PTL

\* What write_gen and write_dev last told the watchers of a node, an interface
\* or a syspath is what the main loop answers a client that asks now.
THEOREM WatchersHearAll == Spec => []WatchersTold
<1>1. MapsInv => WatchersTold
  <2> SUFFICES ASSUME MapsInv, NEW k \in Keys, k[1] \in {"dev", "netif", "sys"},
                      k[2] \notin Links
               PROVE  told[k] = "1" <=> Answer(k) = "1"
    BY DEF WatchersTold
  <2>1. CASE k[1] = "dev"
    <3>1. k[2] \in Nodes /\ k = <<"dev", k[2]>>
      BY <2>1, KeyKinds
    <3>2. told[<<"dev", k[2]>>] = "1" <=> map_dev[k[2]] # None
      BY <3>1 DEF MapsInv, NodeTold
    <3> QED
      BY <3>1, <3>2, AnswerNode
  <2>2. CASE k[1] = "netif"
    <3>1. k[2] \in Nets /\ k = <<"netif", k[2]>>
      BY <2>2, KeyKinds
    <3>2. told[<<"netif", k[2]>>] = "1" <=> Known(k[2])
      BY <3>1 DEF MapsInv, NetTold
    <3> QED
      BY <3>1, <3>2, AnswerNet
  <2>3. CASE k[1] = "sys"
    <3>1. k[2] \in Blocks \cup Nets /\ k = <<"sys", k[2]>>
      BY <2>3, KeyKinds
    <3>2. told[<<"sys", k[2]>>] = "1" <=> Known(k[2])
      BY <3>1 DEF MapsInv, SysTold
    <3> QED
      BY <3>1, <3>2, AnswerSys
  <2> QED
    BY <2>1, <2>2, <2>3
<1> QED
  BY <1>1, MapsInvariance, PTL

\* A USB id of which a device is plugged in is never reported gone, neither to
\* those who ask nor to those who watch.
THEOREM UsbKeptWhilePlugged == Spec => []UsbNeverEarly
<1>1. MapsInv => UsbNeverEarly
  <2> SUFFICES ASSUME MapsInv, NEW id \in UsbIds, Available(<<"usb", id>>)
               PROVE  Answer(<<"usb", id>>) = "1" /\ told[<<"usb", id>>] = "1"
    BY DEF UsbNeverEarly
  <2> QED
    BY AnswerUsb DEF MapsInv, UsbTold
<1> QED
  BY <1>1, MapsInvariance, PTL

\* remove_device takes an id away exactly when the last number of its devset
\* goes, and map_usb only leads to ids that hold the number.
THEOREM UsbSetsExact == Spec => []UsbSets
<1>1. MapsInv => UsbSets
  <2> SUFFICES ASSUME MapsInv PROVE UsbSets
    OBVIOUS
  <2>1. \A id \in UsbIds \cap map_sys : dev[id].removed <=> dev[id].devset = {}
    BY DEF MapsInv, UsbInv
  <2>2. \A num \in Devnums : map_usb[num] # None => num \in dev[map_usb[num]].devset
    BY DEF MapsInv, UsbInv
  <2> QED
    BY <2>1, <2>2 DEF UsbSets
<1> QED
  BY <1>1, MapsInvariance, PTL

=============================================================================
