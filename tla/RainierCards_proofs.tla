--------------------------- MODULE RainierCards_proofs ---------------------------
(***************************************************************************)
(* Proofs about RainierCards for both boards and any choice of slots and   *)
(* backplanes, with and without failing calls.                             *)
(***************************************************************************)
EXTENDS RainierCards, TLAPS

(* The parts have different addresses, and nothing is behind a card.       *)
LEMMA KindsDiffer ==
    /\ Fletts \cap SlotMuxes = {} /\ Williwakas \cap SlotMuxes = {}
    /\ Fletts \cap Williwakas = {}
BY DEF SlotMuxes, Fletts, Williwakas

LEMMA FlettFacts ==
    ASSUME NEW f \in Fletts
    PROVE  /\ f[1] = "flett" /\ f[2] \in 8 .. 11 /\ f = <<f[1], f[2]>>
           /\ Device(f) = FlettMux(f[2])
BY KindsDiffer, SlotsAssumption DEF Fletts, Device

LEMMA WilliwakasFacts ==
    ASSUME NEW w \in Williwakas
    PROVE  /\ w[1] = "williwakas" /\ w[2] \in 0 .. 2 /\ w = <<w[1], w[2]>>
           /\ Device(w) = <<13 + w[2], 96>>
BY KindsDiffer, IndicesAssumption DEF Williwakas, Device

LEMMA SlotMuxFacts ==
    ASSUME NEW m \in SlotMuxes
    PROVE  /\ m[1] = "slotMux" /\ m[2] \in {8, 10} /\ m = <<m[1], m[2]>>
           /\ Device(m) = <<PCIeSlotBus(m[2]), 112>>
BY KindsDiffer DEF SlotMuxes, Device, SlotMux

LEMMA FlettsApart ==
    ASSUME NEW f \in Fletts, NEW g \in Fletts, f # g
    PROVE  Device(f) # Device(g) /\ ~Behind(Device(f), Device(g))
<1>1. f[2] \in 8 .. 11 /\ g[2] \in 8 .. 11 /\ f[2] # g[2]
    BY FlettFacts
<1>2. FlettMux(f[2]) # FlettMux(g[2]) /\ ~Behind(FlettMux(f[2]), FlettMux(g[2]))
    <2> DEFINE a == FlettMuxAddress(f[2]) b == FlettMuxAddress(g[2])
               n == PCIeSlotBus(f[2]) o == PCIeSlotBus(g[2])
               p == FlettMuxChannel(f[2]) q == FlettMuxChannel(g[2])
    <2>1. n # o \/ a # b
        BY <1>1 DEF FlettMuxAddress, PCIeSlotBus
    <2>2. n # o \/ p # q
        BY <1>1 DEF FlettMuxChannel, PCIeSlotBus
    <2>3. <<n, a>> # <<o, b>> /\ ~Behind(<<n, a>>, <<o, b>>)
        <3> HIDE DEF n, o, a, b
        <3> QED BY <2>1 DEF Behind
    <2>4. <<n, 112, p, a>> # <<o, 112, q, b>> /\ ~Behind(<<n, 112, p, a>>, <<o, 112, q, b>>)
        <3> HIDE DEF n, o, a, b, p, q
        <3> QED BY <2>2 DEF Behind
    <2> QED BY <2>3, <2>4 DEF FlettMux
<1> QED BY <1>2, FlettFacts

LEMMA FlettDevice ==
    ASSUME NEW f \in Fletts
    PROVE  \E n \in {6, 11}, a \in {116, 117}, q \in 0 .. 3 :
               Device(f) = <<n, a>> \/ Device(f) = <<n, 112, q, a>>
<1>1. PCIeSlotBus(f[2]) \in {6, 11} /\ FlettMuxAddress(f[2]) \in {116, 117}
    BY DEF PCIeSlotBus, FlettMuxAddress
<1>2. Device(f) = FlettMux(f[2])
    BY FlettFacts
<1>3. FlettMuxChannel(f[2]) \in 0 .. 3
    BY FlettFacts DEF FlettMuxChannel
<1> QED BY <1>1, <1>2, <1>3 DEF FlettMux

LEMMA OtherDevice ==
    ASSUME NEW p \in Williwakas \cup SlotMuxes
    PROVE  \E n \in Nat, a \in {96, 112} :
               Device(p) = <<n, a>> /\ (p \in Williwakas => n > 11)
<1>1. CASE p \in Williwakas
    BY <1>1, WilliwakasFacts
<1>2. CASE p \in SlotMuxes
    <2>1. PCIeSlotBus(p[2]) \in Nat
        BY DEF PCIeSlotBus
    <2> QED BY <1>2, <2>1, SlotMuxFacts, KindsDiffer
<1> QED BY <1>1, <1>2

LEMMA CardApart ==
    ASSUME NEW c \in Cards, NEW p \in AllParts, c # p
    PROVE  Device(c) # Device(p) /\ ~Behind(Device(c), Device(p))
<1>1. CASE c \in Fletts /\ p \in Fletts
    BY <1>1, FlettsApart
<1>2. CASE c \in Fletts /\ p \in Williwakas \cup SlotMuxes
    <2>1. PICK n \in {6, 11}, a \in {116, 117}, q \in 0 .. 3 :
                   Device(c) = <<n, a>> \/ Device(c) = <<n, 112, q, a>>
        BY <1>2, FlettDevice
    <2>2. PICK m \in Nat, b \in {96, 112} : Device(p) = <<m, b>>
        BY <1>2, OtherDevice
    <2>3. Device(c) # Device(p)
        BY <2>1, <2>2
    <2>4. Len(Device(p)) = 2
        BY <2>2
    <2>5. Len(Device(c)) >= 2
        <3>1. CASE Device(c) = <<n, a>>
            BY <3>1
        <3>2. CASE Device(c) = <<n, 112, q, a>>
            BY <3>2
        <3> QED BY <2>1, <3>1, <3>2
    <2> QED BY <2>3, <2>4, <2>5 DEF Behind
<1>3. CASE c \in Williwakas /\ p \in Fletts
    <2>1. PICK n \in {6, 11}, a \in {116, 117}, q \in 0 .. 3 :
                   Device(p) = <<n, a>> \/ Device(p) = <<n, 112, q, a>>
        BY <1>3, FlettDevice
    <2>2. PICK m \in Nat, b \in {96, 112} : Device(c) = <<m, b>> /\ m > 11
        BY <1>3, OtherDevice
    <2>3. Device(p)[1] = n /\ Device(c)[1] = m /\ m # n /\ Len(Device(c)) = 2
        BY <2>1, <2>2
    <2> QED BY <2>3 DEF Behind
<1>4. CASE c \in Williwakas /\ p \in SlotMuxes
    BY <1>4, WilliwakasFacts, SlotMuxFacts DEF Behind
<1>5. CASE c \in Williwakas /\ p \in Williwakas
    BY <1>5, WilliwakasFacts DEF Behind
<1> QED BY <1>1, <1>2, <1>3, <1>4, <1>5 DEF Cards, AllParts

(* The slot mux of a Flett is the device of one of the SlotMuxes.          *)
LEMMA SlotMuxIsPart ==
    ASSUME NEW f \in Fletts
    PROVE  \E m \in SlotMuxes : SlotMux(f[2]) = Device(m)
<1> DEFINE s == IF f[2] \in {8, 9} THEN 8 ELSE 10
<1>1. <<"slotMux", s>> \in SlotMuxes
    BY DEF SlotMuxes
<1>2. PCIeSlotBus(s) = PCIeSlotBus(f[2])
    BY FlettFacts DEF PCIeSlotBus
<1>3. Device(<<"slotMux", s>>) = SlotMux(f[2])
    <2> HIDE DEF s
    <2> QED BY <1>1, <1>2, SlotMuxFacts DEF SlotMux
<1> QED BY <1>1, <1>3

LEMMA DeviceStays ==
    ASSUME board' = board, NEW p \in AllParts
    PROVE  Device(p)' = Device(p)
BY DEF Device, SlotMux, FlettMux, Fletts, Williwakas, SlotMuxes

(* What the two operations of SysfsI2CBus do to any device.                *)
LEMMA ReleaseFacts ==
    ASSUME NEW dev, ReleaseDevice(dev, Faults)
    PROVE  /\ dev \in devices' => dev \in refused'
           /\ \A x : (x \in devices => x \in refused)
                         => (x \in devices' => x \in refused')
           /\ \A x \in devices : x # dev /\ ~Behind(dev, x) => x \in devices'
           /\ \A x \in devices' : x \in devices
           /\ refused \subseteq devices => refused' \subseteq devices'
BY DEF ReleaseDevice, Deleted, Refused, Tree, sysfs

(* Where the loops are: one part at a time, slot muxes first or last.      *)
LEMMA PartFacts ==
    ASSUME NEW p \in AllParts
    PROVE  /\ p[2] \in Nat /\ p = <<p[1], p[2]>> /\ Kind(p) \in 0 .. 2
           /\ Kind(p) = 0 <=> p \in SlotMuxes
           /\ p \in Cards <=> p \notin SlotMuxes
<1>1. p[2] \in Nat /\ p = <<p[1], p[2]>>
    BY FlettFacts, WilliwakasFacts, SlotMuxFacts DEF AllParts, Cards
<1>2. p \in Cards <=> p \notin SlotMuxes
    BY KindsDiffer DEF AllParts, Cards
<1> QED BY <1>1, <1>2 DEF Kind

LEMMA KindTells ==
    ASSUME NEW p \in AllParts, NEW q \in AllParts, Kind(p) = Kind(q), p[2] = q[2]
    PROVE  p = q
BY FlettFacts, WilliwakasFacts, SlotMuxFacts, KindsDiffer DEF AllParts, Cards, Kind

LEMMA OneTurn ==
    ASSUME todo \subseteq AllParts, NEW p, NEW q, Turn(p), Turn(q)
    PROVE  p = q
<1>1. p \in AllParts /\ q \in AllParts
    BY DEF Turn
<1> SUFFICES ASSUME p # q PROVE FALSE
    OBVIOUS
<1>2. Before(p, q) /\ Before(q, p)
    BY DEF Turn
<1> QED BY <1>1, <1>2, PartFacts DEF Before

LEMMA MuxesFirst ==
    ASSUME todo \subseteq AllParts, phase = "plug", NEW c \in Cards, Turn(c)
    PROVE  todo \cap SlotMuxes = {}
<1> SUFFICES ASSUME NEW m \in todo \cap SlotMuxes PROVE FALSE
    OBVIOUS
<1>1. c \in AllParts /\ m \in AllParts /\ m # c
    BY KindsDiffer DEF AllParts, Cards
<1>2. Before(c, m)
    BY <1>1 DEF Turn
<1>3. Kind(m) = 0 /\ Kind(c) \in 1 .. 2
    BY <1>1, PartFacts
<1> QED BY <1>2, <1>3 DEF Before

LEMMA MuxesLast ==
    ASSUME todo \subseteq AllParts, phase = "exit", NEW m \in SlotMuxes, Turn(m)
    PROVE  todo \cap Cards = {}
<1> SUFFICES ASSUME NEW c \in todo \cap Cards PROVE FALSE
    OBVIOUS
<1>1. c \in AllParts /\ m \in AllParts /\ m # c
    BY KindsDiffer DEF AllParts, Cards
<1>2. Before(m, c)
    BY <1>1 DEF Turn
<1>3. Kind(m) = 0 /\ Kind(c) \in 1 .. 2
    BY <1>1, PartFacts
<1> QED BY <1>2, <1>3 DEF Before

------------------------------------------------------------------------------
(* Between two processes nothing is under way; in a process, the card of a *)
(* registered poller is populated and reached; while plugging, the cards   *)
(* still to visit are fresh; while unplugging, the watched ones are those. *)
Progress ==
    /\ phase \in {"off", "exited"} => armed = {}
    /\ phase \notin {"plug", "exit"} => todo = {}
    /\ phase = "plug" => \A c \in todo \cap Cards : conn[c] = "uninitialised"
    /\ phase = "exit" => armed \subseteq todo
    /\ \A c \in armed : conn[c] = "populated" /\ Reached(c)
    /\ (board = "1z" /\ phase \in {"plug", "loop"}) =>
           \A m \in SlotMuxes \ todo : Device(m) \in devices

(* What has been done when a part is half-way.                             *)
HalfWay ==
    /\ todo = {} => step = "detect"
    /\ step = "check" =>
           phase = "plug" /\ \A p \in todo : Turn(p) => Device(p) \in devices
    /\ step = "release" =>
           \A p \in todo : Turn(p) => p \notin armed /\ (phase = "plug" => p \in Cards)

(* What has been visited and is not watched has been released.             *)
LetGo(part) == Device(part) \in devices => Device(part) \in refused

Leftovers ==
    /\ phase \in {"plug", "loop", "exit"} =>
           \A c \in Cards : conn[c] = "depopulated" => LetGo(c)
    /\ phase \in {"plug", "loop"} =>
           \A c \in Cards \ (todo \cup armed) :
               LetGo(c) /\ (c \in working => conn[c] # "uninitialised")
    /\ phase = "exit" => \A p \in Parts \ todo : LetGo(p)
    /\ NothingLeftInSysfs

Inductive == TypeOK /\ Progress /\ HalfWay /\ Leftovers

LEMMA PartsFacts == Cards \subseteq Parts /\ Parts \subseteq AllParts
BY DEF Parts, AllParts

(* The types.                                                              *)
LEMMA TypeStep == TypeOK /\ [Next]_vars => TypeOK'
<1> SUFFICES ASSUME TypeOK, [Next]_vars PROVE TypeOK'
    OBVIOUS
<1> USE DEF vars, control, chassis, sysfs
<1>0. ASSUME board' = board
      PROVE  Parts' = Parts /\ {Device(p) : p \in Parts}' = {Device(p) : p \in Parts}
    <2>1. Parts' = Parts
        BY <1>0 DEF Parts
    <2>2. \A p \in Parts : Device(p)' = Device(p)
        BY <1>0, DeviceStays, PartsFacts
    <2> QED BY <2>1, <2>2
<1>1. CASE Start
    BY <1>0, <1>1 DEF Start, TypeOK, Fresh, ConnectorState
<1>2. CASE Crash
    BY <1>0, <1>2 DEF Crash, Ended, TypeOK, Fresh, ConnectorState
<1>3. CASE Run \/ Leave \/ Exit
    BY <1>0, <1>3 DEF Run, Leave, Exit, TypeOK
<1>4. ASSUME NEW p \in AllParts, Require(p) PROVE TypeOK'
    <2>1. p \in Parts
        BY <1>4 DEF Require, Turn, TypeOK
    <2> QED BY <1>0, <1>4, <2>1 DEF Require, RequireDevice, GoOn, TypeOK
<1>5. ASSUME NEW p \in AllParts, Plugged(p) PROVE TypeOK'
    BY <1>0, <1>5 DEF Plugged, Done, TypeOK, ConnectorState
<1>6. ASSUME NEW p \in AllParts, Rejected(p) PROVE TypeOK'
    <2>1. devices' \subseteq devices /\ refused' \subseteq devices'
        BY <1>6, ReleaseFacts DEF Rejected, TypeOK
    <2> QED BY <1>0, <1>6, <2>1
            DEF Rejected, Done, Ended, TypeOK, Fresh, ConnectorState
<1>7. ASSUME NEW p \in AllParts, StopPollers(p) PROVE TypeOK'
    BY <1>0, <1>7 DEF StopPollers, GoOn, TypeOK
<1>8. ASSUME NEW p \in AllParts, Release(p) PROVE TypeOK'
    <2>1. devices' \subseteq devices /\ refused' \subseteq devices'
        BY <1>8, ReleaseFacts DEF Release, TypeOK
    <2> QED BY <1>0, <1>8, <2>1 DEF Release, Done, TypeOK, ConnectorState
<1>9. ASSUME NEW p \in AllParts, AlreadyDepopulated(p) PROVE TypeOK'
    BY <1>0, <1>9 DEF AlreadyDepopulated, Done, TypeOK
<1>10. ASSUME NEW p \in AllParts, PowerCycle(p) PROVE TypeOK'
    BY <1>0, <1>10 DEF PowerCycle, Toggled, TypeOK
<1>11. ASSUME NEW f \in Fletts, Poll(f) PROVE TypeOK'
    <2>1. FlettIndex(f[2]) \in 0 .. 2
        BY FlettFacts DEF FlettIndex
    <2> QED BY <1>0, <1>11, <2>1 DEF Poll, Toggled, TypeOK
<1>12. CASE UNCHANGED vars
    BY <1>0, <1>12 DEF TypeOK
<1> QED BY <1>1, <1>2, <1>3, <1>4, <1>5, <1>6, <1>7, <1>8, <1>9, <1>10,
           <1>11, <1>12 DEF Next

LEMMA InitInductive == Init => Inductive
<1> SUFFICES ASSUME Init PROVE Inductive
    OBVIOUS
<1>1. \A s \in Slots : FlettIndex(s) \in 0 .. 2
    BY SlotsAssumption DEF FlettIndex
<1>2. TypeOK
    BY <1>1 DEF Init, TypeOK, Fresh, ConnectorState
<1> QED BY <1>2 DEF Init, Inductive, Progress, HalfWay, Leftovers, NothingLeftInSysfs

------------------------------------------------------------------------------
(* Every step preserves the invariant.                                     *)

(* Releasing one part leaves every watched card but that part reached, and *)
(* the slot muxes where they are unless it is one.                         *)
LEMMA ReleaseKeeps ==
    ASSUME TypeOK, NEW p \in AllParts, ReleaseDevice(Device(p), Faults),
           board' = board
    PROVE  /\ p \in Cards => \A c \in Cards \ {p} : Reached(c) => Reached(c)'
           /\ p \in Cards =>
                  \A m \in SlotMuxes : Device(m) \in devices => (Device(m) \in devices)'
           /\ \A q \in AllParts : LetGo(q) => LetGo(q)'
           /\ LetGo(p)'
<1>1. \A q \in AllParts : Device(q)' = Device(q)
    BY DeviceStays
<1>2. \A q \in AllParts : LetGo(q) => LetGo(q)'
    BY <1>1, ReleaseFacts DEF LetGo
<1>3. LetGo(p)'
    BY <1>1, ReleaseFacts DEF LetGo
<1>4. ASSUME p \in Cards, NEW q \in AllParts \ {p}, Device(q) \in devices
      PROVE  (Device(q) \in devices)'
    BY <1>1, <1>4, CardApart, ReleaseFacts
<1>5. ASSUME p \in Cards, NEW c \in Cards \ {p}, Reached(c)
      PROVE  Reached(c)'
    <2>1. c \in AllParts \ {p}
        BY DEF AllParts
    <2>2. (Device(c) \in devices)'
        BY <1>4, <1>5, <2>1 DEF Reached
    <2>3. ASSUME board = "1z", c \in Fletts PROVE (SlotMux(c[2]) \in devices)'
        <3>1. PICK m \in SlotMuxes : SlotMux(c[2]) = Device(m)
            BY <2>3, SlotMuxIsPart
        <3>2. m \in AllParts \ {p}
            BY <1>5, KindsDiffer DEF AllParts, Cards
        <3>3. Device(m) \in devices
            BY <1>5, <2>3, <3>1 DEF Reached
        <3>4. (Device(m) \in devices)'
            BY <1>4, <1>5, <3>2, <3>3
        <3> QED BY <1>1, <3>1, <3>2, <3>4 DEF SlotMux, PCIeSlotBus
    <2> QED BY <2>2, <2>3 DEF Reached
<1>6. p \in Cards => \A m \in SlotMuxes : m \in AllParts \ {p}
    BY KindsDiffer DEF AllParts, Cards
<1> QED BY <1>2, <1>3, <1>4, <1>5, <1>6

(* Nothing that is asked for goes away.                                    *)
LEMMA RequireKeeps ==
    ASSUME NEW p \in AllParts, RequireDevice(Device(p)), board' = board
    PROVE  /\ \A c \in Cards : Reached(c) => Reached(c)'
           /\ \A q \in AllParts : Device(q) \in devices => (Device(q) \in devices)'
           /\ (Device(p) \in devices)'
           /\ \A c \in Cards \ {p} : LetGo(c) => LetGo(c)'
<1>1. \A q \in AllParts : Device(q)' = Device(q)
    BY DeviceStays
<1>2. Cards \subseteq AllParts
    BY DEF AllParts
<1>3. \A c \in Cards : Reached(c) => Reached(c)'
    BY <1>1, <1>2 DEF Reached, SlotMux, PCIeSlotBus, RequireDevice
<1>4. \A c \in Cards \ {p} : LetGo(c) => LetGo(c)'
    BY <1>1, <1>2, CardApart DEF LetGo, RequireDevice
<1> QED BY <1>1, <1>3, <1>4 DEF RequireDevice

(* Where sysfs is left alone, so is what has been reached and let go of.   *)
LEMMA SameDevices ==
    ASSUME UNCHANGED <<sysfs, board>>
    PROVE  /\ UNCHANGED <<devices, refused>>
           /\ \A q \in AllParts : Device(q)' = Device(q)
           /\ \A q \in AllParts : LetGo(q)' = LetGo(q)
           /\ \A c \in Cards : Reached(c)' = Reached(c)
<1>1. \A q \in AllParts : Device(q)' = Device(q)
    BY DeviceStays
<1>2. Cards \subseteq AllParts
    BY DEF AllParts
<1> QED BY <1>1, <1>2 DEF LetGo, Reached, SlotMux, PCIeSlotBus, sysfs

LEMMA InductiveStep == Inductive /\ [Next]_vars => Inductive'
<1> SUFFICES ASSUME Inductive, [Next]_vars PROVE Inductive'
    OBVIOUS
<1> USE DEF vars, control, chassis
<1>a. TypeOK /\ Progress /\ HalfWay /\ Leftovers
    BY DEF Inductive
<1>b. TypeOK'
    BY <1>a, TypeStep
<1>c. todo \subseteq AllParts /\ Cards \subseteq AllParts /\ SlotMuxes \subseteq AllParts
    BY <1>a, PartsFacts DEF TypeOK, AllParts
<1>d. ASSUME phase' = phase, todo' = todo
      PROVE  \A p : Turn(p)' = Turn(p)
    BY <1>d DEF Turn, Before
<1>1. CASE Start
    <2>1. todo' = Parts' /\ armed' = {} /\ phase' = "plug" /\ step' = "detect"
        BY <1>1 DEF Start, Parts
    <2>2. \A c \in Cards : conn'[c] = "uninitialised"
        BY <1>1 DEF Start, Fresh
    <2>3. (board = "1z" => SlotMuxes \subseteq todo)' /\ Cards \subseteq todo'
        BY <2>1 DEF Parts, AllParts
    <2> QED BY <1>b, <2>1, <2>2, <2>3
            DEF Inductive, Progress, HalfWay, Leftovers, NothingLeftInSysfs
<1>2. CASE Crash
    BY <1>b, <1>2
    DEF Crash, Ended, Inductive, Progress, HalfWay, Leftovers, NothingLeftInSysfs
<1>3. CASE Run
    <2>1. UNCHANGED <<sysfs, board, conn, armed, todo, step, working>>
          /\ phase = "plug" /\ phase' = "loop" /\ todo = {}
        BY <1>3 DEF Run
    <2>2. Progress'
        BY <1>a, <1>c, <2>1, SameDevices DEF Progress, TypeOK
    <2>3. HalfWay'
        BY <1>a, <2>1 DEF HalfWay
    <2>4. Leftovers'
        BY <1>a, <1>c, <2>1, SameDevices DEF Leftovers, NothingLeftInSysfs
    <2> QED BY <1>b, <2>2, <2>3, <2>4 DEF Inductive
<1>4. CASE Leave
    <2>1. UNCHANGED <<sysfs, board, conn, armed, step, working>>
          /\ phase' = "exit" /\ todo' = Parts /\ phase = "loop" /\ todo = {}
        BY <1>a, <1>4 DEF Leave, Progress
    <2>2. step' = "detect"
        BY <1>a, <2>1 DEF HalfWay
    <2>3. Parts' = Parts
        BY <2>1 DEF Parts
    <2>4. armed' \subseteq todo'
        BY <1>a, <2>1, PartsFacts DEF TypeOK
    <2> QED BY <1>a, <1>b, <1>c, <2>1, <2>2, <2>3, <2>4, SameDevices
            DEF Inductive, Progress, HalfWay, Leftovers, NothingLeftInSysfs, TypeOK
<1>5. CASE Exit
    <2>1. UNCHANGED <<sysfs, board, conn, armed, step, todo>>
          /\ phase = "exit" /\ phase' = "exited" /\ todo = {}
        BY <1>5 DEF Exit
    <2>2. armed = {} /\ step = "detect" /\ \A q \in Parts : LetGo(q)
        BY <1>a, <2>1 DEF Progress, HalfWay, Leftovers
    <2>3. devices \subseteq refused
        BY <1>a, <2>2 DEF TypeOK, LetGo
    <2> QED BY <1>b, <2>1, <2>2, <2>3
            DEF Inductive, Progress, HalfWay, Leftovers, NothingLeftInSysfs, sysfs
<1>6. ASSUME NEW p \in AllParts, Require(p) PROVE Inductive'
    <2>1. /\ phase = "plug" /\ step' = "check" /\ Turn(p) /\ RequireDevice(Device(p))
          /\ UNCHANGED <<board, conn, armed, todo, phase, working>>
        BY <1>6 DEF Require, GoOn
    <2>2. p \in todo /\ (p \in Cards => conn[p] = "uninitialised")
        BY <1>a, <2>1 DEF Turn, Progress
    <2>3. Progress'
        BY <1>a, <1>c, <2>1, RequireKeeps DEF Progress, TypeOK
    <2>4. \A q \in todo : Turn(q)' => q = p
        BY <1>c, <1>d, <2>1, OneTurn
    <2>5. HalfWay'
        BY <2>1, <2>2, <2>4, RequireKeeps DEF HalfWay
    <2>6. Leftovers'
        BY <1>a, <2>1, <2>2, RequireKeeps DEF Leftovers, NothingLeftInSysfs
    <2> QED BY <1>b, <2>3, <2>5, <2>6 DEF Inductive
<1>7. ASSUME NEW p \in AllParts, Plugged(p) PROVE Inductive'
    <2>1. /\ Turn(p) /\ p \in working /\ todo' = todo \ {p} /\ step' = "detect"
          /\ UNCHANGED <<sysfs, board, working, phase>> /\ step = "check"
        BY <1>7 DEF Plugged, Done
    <2>2. p \in todo /\ phase = "plug" /\ Device(p) \in devices
        BY <1>a, <2>1 DEF Turn, HalfWay
    <2>3. CASE p \in Cards
        <3>1. conn' = [conn EXCEPT ![p] = "populated"] /\ armed' = armed \cup {p}
            BY <1>7, <2>3 DEF Plugged
        <3>2. conn'[p] = "populated" /\ \A c \in Cards \ {p} : conn'[c] = conn[c]
            BY <1>a, <2>3, <3>1 DEF TypeOK
        <3>3. Reached(p)
            <4>1. (board = "1z" /\ p \in Fletts) => SlotMux(p[2]) \in devices
                BY <1>a, <1>c, <2>1, <2>2, <2>3, MuxesFirst, SlotMuxIsPart DEF Progress
            <4> QED BY <2>2, <4>1 DEF Reached
        <3>4. todo \cap SlotMuxes = {}
            BY <1>c, <2>1, <2>2, <2>3, MuxesFirst
        <3>5. Progress'
            <4>1. \A c \in armed' : (conn[c] = "populated" /\ Reached(c))'
                BY <1>a, <2>1, <2>3, <3>1, <3>2, <3>3, SameDevices
                DEF Progress, TypeOK
            <4>2. \A c \in todo' \cap Cards : conn'[c] = "uninitialised"
                BY <1>a, <2>1, <2>2, <3>2 DEF Progress
            <4>3. board = "1z" => \A m \in SlotMuxes : (Device(m) \in devices)'
                BY <1>a, <1>c, <2>1, <2>2, <3>4, SameDevices DEF Progress
            <4> QED BY <2>1, <2>2, <4>1, <4>2, <4>3 DEF Progress
        <3>6. HalfWay'
            BY <2>1 DEF HalfWay
        <3>7. Leftovers'
            BY <1>a, <1>c, <2>1, <2>2, <3>1, <3>2, SameDevices
            DEF Leftovers, NothingLeftInSysfs
        <3> QED BY <1>b, <3>5, <3>6, <3>7 DEF Inductive
    <2>4. CASE p \in SlotMuxes
        <3>1. UNCHANGED <<conn, armed>> /\ p \notin Cards
            BY <1>7, <2>4, PartFacts DEF Plugged
        <3>2. Progress'
            BY <1>a, <1>c, <2>1, <2>2, <3>1, SameDevices DEF Progress, TypeOK
        <3>3. HalfWay'
            BY <2>1 DEF HalfWay
        <3>4. Leftovers'
            BY <1>a, <1>c, <2>1, <2>2, <3>1, SameDevices
            DEF Leftovers, NothingLeftInSysfs
        <3> QED BY <1>b, <3>2, <3>3, <3>4 DEF Inductive
    <2> QED BY <2>3, <2>4, PartFacts
<1>8. ASSUME NEW p \in AllParts, Rejected(p) PROVE Inductive'
    <2>1. /\ Turn(p) /\ p \notin working /\ step = "check"
          /\ ReleaseDevice(Device(p), Faults) /\ UNCHANGED <<board, working>>
        BY <1>8 DEF Rejected
    <2>2. p \in todo /\ phase = "plug"
        BY <1>a, <2>1 DEF Turn, HalfWay
    <2>3. CASE p \in Cards
        <3>1. todo' = todo \ {p} /\ step' = "detect" /\ UNCHANGED <<phase, conn, armed>>
            BY <1>8, <2>3 DEF Rejected, Done
        <3>2. p \notin armed
            BY <1>a, <2>2, <2>3 DEF Progress
        <3>3. todo \cap SlotMuxes = {}
            BY <1>c, <2>1, <2>2, <2>3, MuxesFirst
        <3>4. Progress'
            BY <1>a, <2>1, <2>2, <2>3, <3>1, <3>2, <3>3, ReleaseKeeps
            DEF Progress, TypeOK
        <3>5. HalfWay'
            BY <3>1 DEF HalfWay
        <3>6. Leftovers'
            BY <1>a, <1>c, <2>1, <2>2, <3>1, ReleaseKeeps
            DEF Leftovers, NothingLeftInSysfs
        <3> QED BY <1>b, <3>4, <3>5, <3>6 DEF Inductive
    <2>4. CASE p \notin Cards
        <3>1. phase' = "off" /\ todo' = {} /\ step' = "detect" /\ armed' = {}
            BY <1>8, <2>4 DEF Rejected, Ended
        <3> QED BY <1>b, <3>1
                DEF Inductive, Progress, HalfWay, Leftovers, NothingLeftInSysfs
    <2> QED BY <2>3, <2>4
<1>9. ASSUME NEW p \in AllParts, StopPollers(p) PROVE Inductive'
    <2>1. /\ Turn(p) /\ step' = "release" /\ armed' = armed \ {p}
          /\ UNCHANGED <<sysfs, board, working, phase, todo, conn>>
          /\ (phase = "plug" /\ p \in Cards) \/ phase = "exit"
        BY <1>9 DEF StopPollers, Depopulates, MayBeMissing, Cards, GoOn
    <2>2. \A q \in todo : Turn(q)' => q = p
        BY <1>c, <1>d, <2>1, OneTurn
    <2>3. Progress'
        BY <1>a, <1>c, <2>1, SameDevices DEF Progress, TypeOK
    <2>4. HalfWay'
        BY <2>1, <2>2 DEF HalfWay, Turn
    <2>5. p \in todo
        BY <2>1 DEF Turn
    <2>6. Parts' = Parts
        BY <2>1 DEF Parts
    <2>7. Leftovers'
        BY <1>a, <1>c, <2>1, <2>5, <2>6, SameDevices, PartsFacts
        DEF Leftovers, NothingLeftInSysfs
    <2> QED BY <1>b, <2>3, <2>4, <2>7 DEF Inductive
<1>10. ASSUME NEW p \in AllParts, Release(p) PROVE Inductive'
    <2>1. /\ Turn(p) /\ todo' = todo \ {p} /\ step' = "detect" /\ step = "release"
          /\ ReleaseDevice(Device(p), Faults)
          /\ UNCHANGED <<board, working, phase, armed>>
        BY <1>10 DEF Release, Done
    <2>2. p \in todo /\ p \notin armed /\ phase \in {"plug", "exit"}
          /\ (phase = "plug" => p \in Cards)
        BY <1>a, <2>1 DEF Turn, HalfWay, Progress
    <2>3. \A c \in Cards \ {p} : conn'[c] = conn[c]
        BY <1>a, <1>10 DEF Release, TypeOK
    <2>4. p \in Cards => conn'[p] = "depopulated"
        BY <1>a, <1>10 DEF Release, TypeOK
    <2>5. Parts' = Parts
        BY <2>1 DEF Parts
    <2>6. HalfWay'
        BY <2>1 DEF HalfWay
    <2>7. Leftovers'
        BY <1>a, <1>c, <2>1, <2>2, <2>3, <2>4, <2>5, ReleaseKeeps, PartsFacts
        DEF Leftovers, NothingLeftInSysfs
    <2>8. CASE p \in Cards
        <3>1. phase = "plug" => todo \cap SlotMuxes = {}
            BY <1>c, <2>1, <2>8, MuxesFirst
        <3>2. Progress'
            BY <1>a, <1>c, <2>1, <2>2, <2>3, <2>8, <3>1, ReleaseKeeps
            DEF Progress, TypeOK
        <3> QED BY <1>b, <2>6, <2>7, <3>2 DEF Inductive
    <2>9. CASE p \in SlotMuxes
        <3>1. phase = "exit"
            BY <2>2, <2>9, PartFacts
        <3>2. todo \cap Cards = {}
            BY <1>c, <2>1, <2>9, <3>1, MuxesLast
        <3>3. armed = {}
            BY <1>a, <3>1, <3>2 DEF Progress, TypeOK
        <3>4. Progress'
            BY <2>1, <3>1, <3>3 DEF Progress
        <3> QED BY <1>b, <2>6, <2>7, <3>4 DEF Inductive
    <2> QED BY <2>8, <2>9, PartFacts
<1>11. ASSUME NEW p \in AllParts, AlreadyDepopulated(p) PROVE Inductive'
    <2>1. /\ Turn(p) /\ p \in Cards /\ todo' = todo \ {p} /\ step' = "detect"
          /\ phase = "exit" /\ conn[p] = "depopulated"
          /\ UNCHANGED <<sysfs, board, working, phase, armed, conn>>
        BY <1>11 DEF AlreadyDepopulated, Done
    <2>2. p \notin armed /\ LetGo(p)
        BY <1>a, <2>1 DEF Progress, Leftovers
    <2>3. Parts' = Parts
        BY <2>1 DEF Parts
    <2>4. Progress'
        BY <1>a, <1>c, <2>1, <2>2, SameDevices DEF Progress, TypeOK
    <2>5. HalfWay'
        BY <2>1 DEF HalfWay
    <2>6. Leftovers'
        BY <1>a, <1>c, <2>1, <2>2, <2>3, SameDevices, PartsFacts
        DEF Leftovers, NothingLeftInSysfs
    <2> QED BY <1>b, <2>4, <2>5, <2>6 DEF Inductive
<1>12. ASSUME NEW p \in AllParts, PowerCycle(p) PROVE Inductive'
    <2>1. armed = {} /\ todo = {} /\ step = "detect"
        BY <1>a, <1>12 DEF PowerCycle, Progress, HalfWay
    <2> QED BY <1>b, <1>12, <2>1
            DEF PowerCycle, Inductive, Progress, HalfWay, Leftovers, NothingLeftInSysfs
<1>13. CASE (\E f \in Fletts : Poll(f)) \/ UNCHANGED vars
    <2>1. UNCHANGED <<sysfs, board, working, phase, todo, step, armed, conn>>
        BY <1>13 DEF Poll
    <2>2. Parts' = Parts
        BY <2>1 DEF Parts
    <2>3. Progress'
        BY <1>a, <1>c, <2>1, SameDevices DEF Progress, TypeOK
    <2>4. HalfWay'
        BY <1>a, <1>c, <1>d, <2>1, SameDevices DEF HalfWay
    <2>5. Leftovers'
        BY <1>a, <1>c, <2>1, <2>2, SameDevices, PartsFacts
        DEF Leftovers, NothingLeftInSysfs
    <2> QED BY <1>b, <2>3, <2>4, <2>5 DEF Inductive
<1> QED BY <1>1, <1>2, <1>3, <1>4, <1>5, <1>6, <1>7, <1>8, <1>9, <1>10,
           <1>11, <1>12, <1>13 DEF Next

THEOREM InductiveHolds == Spec => []Inductive
BY InitInductive, InductiveStep, PTL DEF Spec

------------------------------------------------------------------------------
(* TypeOK, on every Rainier.                                               *)
THEOREM CardsTypeCorrect == Spec => []TypeOK
<1>1. Inductive => TypeOK
    BY DEF Inductive
<1> QED BY <1>1, InductiveHolds, PTL

(* WatchedIsReached: no release takes the device of a watched card, nor the*)
(* slot mux before it.                                                     *)
THEOREM WatchedIsReachedHolds == Spec => []WatchedIsReached
<1>1. Inductive => WatchedIsReached
    BY DEF Inductive, Progress, WatchedIsReached
<1> QED BY <1>1, InductiveHolds, PTL

(* OnlyUnboundIsSkipped: a card that is skipped costs no other one.        *)
THEOREM OnlyUnboundIsSkippedHolds == Spec => []OnlyUnboundIsSkipped
<1>1. Inductive => OnlyUnboundIsSkipped
    BY DEF Inductive, TypeOK, Progress, Leftovers, OnlyUnboundIsSkipped
<1> QED BY <1>1, InductiveHolds, PTL

(* UnwatchedHasNoDevice: what has been detected and is not watched has no  *)
(* device that the kernel would have let go of.                            *)
THEOREM UnwatchedHasNoDeviceHolds == Spec => []UnwatchedHasNoDevice
<1>1. Inductive => UnwatchedHasNoDevice
    BY DEF Inductive, Progress, Leftovers, LetGo, UnwatchedHasNoDevice
<1> QED BY <1>1, InductiveHolds, PTL

(* NothingLeftInSysfs: an orderly exit leaves no device behind.            *)
THEOREM NothingLeftInSysfsHolds == Spec => []NothingLeftInSysfs
<1>1. Inductive => NothingLeftInSysfs
    BY DEF Inductive, Leftovers
<1> QED BY <1>1, InductiveHolds, PTL

(* ExitKeepsDescriptions: unplugging on exit leaves the inventory in-tact. *)
THEOREM ExitKeepsDescriptionsHolds == Spec => ExitKeepsDescriptions
<1>1. [Next]_vars => [phase = "exit" => UNCHANGED described]_vars
    BY DEF Next, Start, Crash, Run, Leave, Exit, Require, Plugged, Rejected,
           StopPollers, RemovesInventory, Release, AlreadyDepopulated, PowerCycle,
           Poll, vars
<1> QED BY <1>1, PTL DEF Spec, ExitKeepsDescriptions
==============================================================================
