----------------------------- MODULE RainierDrives -----------------------------
(***************************************************************************)
(* The drives of one Williwakas backplane and of the Flett card cabled to  *)
(* it, on Rainier.  Two connectors look at each bay: Williwakas polls the  *)
(* presence GPIO and marks the item present or absent, Flett polls the     *)
(* drive's I2C endpoint, which needs host power, and adds or removes its   *)
(* interfaces.  Both speak to the PublishWhenPresent decorator.            *)
(*                                                                         *)
(* `task' is the code that runs, `cur' the bay it works on and `call' what *)
(* it asks of the decorator next; the answer takes several steps when the  *)
(* decorator runs one of its loops.                                        *)
(***************************************************************************)
EXTENDS PublishWhenPresent, Integers

CONSTANTS NumDrives,  \* bays of a Williwakas: 8
          None,       \* an empty bay, and no drive object
          Restarts    \* the process may stop and start again

Drives == 0 .. NumDrives - 1

ASSUME BaysAssumption == NumDrives \in Nat /\ Paths = Drives
ASSUME NoneAssumption == None \notin Serials /\ Restarts \in BOOLEAN

VARIABLES
    bay, hostOn,     \* the drives in the bays; host power
    task, call, cur,
    wSinks, fSinks,  \* registered pollers of Williwakas and of Flett
    wconn, fconn,    \* Connector::state of the two connectors of each bay
    drive            \* FlettNVMeDrive::drive: the serial, or None

hardware == <<bay, hostOn>>
doing == <<task, call, cur>>
sinks == <<wSinks, fSinks>>
connectors == <<wconn, fconn, drive>>
vars == <<decoratorVars, hardware, doing, sinks, connectors>>

ConnectorState == {"uninitialised", "depopulated", "populated"}

Cards == {"flettCard", "williwakasCard"}  \* Nisqually::plug
Tasks == {"off", "idle", "flett", "williwakas"} \cup Cards

Plugs == {"markPresent", "fetch", "addI2C", "addVINI"}
Unplugs == {"markAbsent", "removeVINI", "removeI2C"}

TypeOK ==
    /\ DecoratorType
    /\ bay \in [Drives -> Serials \cup {None}] /\ hostOn \in BOOLEAN
    /\ task \in Tasks /\ cur \in 0 .. NumDrives
    /\ call \in Plugs \cup Unplugs \cup {"none"}
    /\ wSinks \subseteq Drives /\ fSinks \subseteq Drives
    /\ wconn \in [Drives -> ConnectorState]
    /\ fconn \in [Drives -> ConnectorState]
    /\ drive \in [Drives -> Serials \cup {None}]

Fresh(value) == [d \in Drives |-> value]

Init ==
    /\ DecoratorInit
    /\ bay \in [Drives -> Serials \cup {None}] /\ hostOn \in BOOLEAN
    /\ task = "off" /\ call = "none" /\ cur = 0
    /\ wSinks = {} /\ fSinks = {}
    /\ wconn = Fresh("uninitialised") /\ fconn = Fresh("uninitialised")
    /\ drive = Fresh(None)

(* NVMe-MI basic management answers.                                       *)
Responsive(d) == bay[d] # None /\ hostOn

------------------------------------------------------------------------------
(* Nisqually::plug: what isFlettPresentAt() is told by the inventory, and  *)
(* what the GPIO says of the Williwakas, is good for the whole life of the *)
(* process, the cards being out of reach while the system runs             *)
(* (RainierCards).  A card whose driver does not bind is skipped, one that *)
(* is missing is unplugged with all of its drives.                         *)

UnplugCard(card, first) == task' = card /\ call' = first /\ cur' = 0

(* The backplane of index 0 has two slots: the Flett in one of them may be *)
(* watched when the other is found empty, and unplugged.                   *)
DetectFlettCards ==
    /\ task = "off"
    /\ \E armed \in {Drives, {}} : fSinks' = armed
    /\ \/ task' = "williwakasCard" /\ UNCHANGED <<call, cur>>
       \/ UnplugCard("flettCard", "removeVINI")
    /\ UNCHANGED <<decoratorVars, hardware, connectors, wSinks>>

FlettCardUnplugged ==
    /\ task = "flettCard" /\ cur = NumDrives
    /\ task' = "williwakasCard" /\ call' = "none" /\ cur' = 0
    /\ fconn' = Fresh("uninitialised")
    /\ UNCHANGED <<decoratorVars, hardware, sinks, wconn, drive>>

DetectWilliwakasCard ==
    /\ task = "williwakasCard" /\ call = "none"
    /\ \/ /\ \E armed \in {Drives, {}} : wSinks' = armed
          /\ task' = "idle" /\ UNCHANGED <<call, cur, fSinks>>
       \/ UnplugCard("williwakasCard", "markAbsent") /\ UNCHANGED sinks
    /\ UNCHANGED <<decoratorVars, hardware, connectors>>

WilliwakasCardUnplugged ==
    /\ task = "williwakasCard" /\ cur = NumDrives
    /\ task' = "idle" /\ call' = "none" /\ cur' = 0
    /\ wconn' = Fresh("uninitialised")
    /\ UNCHANGED <<decoratorVars, hardware, sinks, fconn, drive>>

------------------------------------------------------------------------------
(* The pollers.  A connector already in the state the poll wants does      *)
(* nothing.                                                                *)

Enters(name, d, first) ==
    /\ task' = name /\ cur' = d /\ call' = first
    /\ UNCHANGED <<decoratorVars, hardware, sinks>>

NotifyWilliwakas(d) ==
    /\ task = "idle" /\ d \in wSinks
    /\ LET plug == bay[d] # None
       IN  /\ wconn[d] # IF plug THEN "populated" ELSE "depopulated"
           /\ Enters("williwakas", d,
                     IF plug THEN "markPresent" ELSE "markAbsent")
    /\ UNCHANGED connectors

(* Mutant: an uninitialised connector is taken for a depopulated one.      *)
NotifyFlettOnlyPlugged(d) ==
    /\ task = "idle" /\ d \in fSinks
    /\ Responsive(d) # (fconn[d] = "populated")
    /\ Enters("flett", d, IF Responsive(d) THEN "fetch" ELSE "removeVINI")
    /\ UNCHANGED connectors

(* populate() constructs a new FlettNVMeDrive, so does a cold unplug.      *)
NotifyFlett(d) ==
    /\ task = "idle" /\ d \in fSinks
    /\ fconn[d] # IF Responsive(d) THEN "populated" ELSE "depopulated"
    /\ Enters("flett", d, IF Responsive(d) THEN "fetch" ELSE "removeVINI")
    /\ drive' = IF fconn[d] = "populated" THEN drive
                                          ELSE [drive EXCEPT ![d] = None]
    /\ UNCHANGED <<wconn, fconn>>

(* Notifier::run() disables the sink whose callback threw.                 *)
Disable(name, d) ==
    /\ IF name = "williwakas"
       THEN wSinks' = wSinks \ {d} /\ UNCHANGED fSinks
       ELSE fSinks' = fSinks \ {d} /\ UNCHANGED wSinks
    /\ task' = "idle" /\ call' = "none" /\ cur' = 0
    /\ UNCHANGED connectors

(* The GPIO or the I2C bus cannot be read.                                 *)
PollFails(d) ==
    /\ Faults /\ task = "idle"
    /\ \/ d \in wSinks /\ Disable("williwakas", d)
       \/ d \in fSinks /\ Disable("flett", d)
    /\ UNCHANGED <<decoratorVars, hardware>>

------------------------------------------------------------------------------
(* The handlers.                                                           *)

(* The drive answered the poll, and may have gone since.                   *)
Fetch ==
    /\ call = "fetch"
    /\ IF Responsive(cur)
       THEN /\ drive' = [drive EXCEPT ![cur] = bay[cur]]
            /\ call' = "addI2C"
            /\ UNCHANGED <<task, cur, sinks, wconn, fconn>>
       ELSE Disable("flett", cur)
    /\ UNCHANGED <<decoratorVars, hardware>>

(* Mutant: a connector that never added a drive removes it as if it had.   *)
KnownAlways(value) == value

(* What FlettNVMeDrive removes: the drive it knows, or one it makes up for *)
(* a cold unplug.                                                          *)
Known(value) == IF drive[cur] = None THEN Default ELSE value

Invoke(out) ==
    /\ running = "none" /\ cur \in Drives
    /\ \/ call = "markPresent" /\ MarkPresent(cur, out)
       \/ call = "markAbsent" /\ MarkAbsent(cur, out)
       \/ call = "addI2C" /\ Add(cur, "i2c", Located, out)
       \/ call = "addVINI" /\ Add(cur, "vini", drive[cur], out)
       \/ call = "removeVINI" /\ Remove(cur, "vini", Known(drive[cur]), out)
       \/ call = "removeI2C" /\ Remove(cur, "i2c", Known(Located), out)

(* The connector of a bay has reached its state: back to epoll_wait, or on *)
(* to the next bay of a missing card.                                      *)
Settled ==
    /\ CASE call = "markPresent" -> wconn' = [wconn EXCEPT ![cur] = "populated"]
         [] call = "markAbsent" -> wconn' = [wconn EXCEPT ![cur] = "depopulated"]
         [] OTHER -> UNCHANGED wconn
    /\ CASE call = "addVINI" -> fconn' = [fconn EXCEPT ![cur] = "populated"]
         [] call \in {"removeVINI", "removeI2C"} ->
                fconn' = [fconn EXCEPT ![cur] = "depopulated"]
         [] OTHER -> UNCHANGED fconn
    /\ drive' = IF call \in Unplugs /\ task # "williwakas"
                THEN [drive EXCEPT ![cur] = None] ELSE drive
    /\ IF task \in Cards
       THEN /\ cur' = cur + 1 /\ UNCHANGED task
            /\ call' = IF task = "flettCard" THEN "removeVINI" ELSE "markAbsent"
       ELSE task' = "idle" /\ call' = "none" /\ cur' = 0
    /\ UNCHANGED sinks

(* Mutant: plug() swallows NoSuchInventoryItem as well.                    *)
RespondSwallows(out) ==
    CASE out = "busy" -> UNCHANGED <<doing, sinks, connectors>>
      [] out = "ok" /\ call = "addI2C" ->
             call' = "addVINI" /\ UNCHANGED <<task, cur, sinks, connectors>>
      [] out = "ok" /\ call = "removeVINI" ->
             call' = "removeI2C" /\ UNCHANGED <<task, cur, sinks, connectors>>
      [] out = "badAccess" -> Disable(task, cur)
      [] OTHER -> Settled

(* unplug() swallows NoSuchInventoryItem and skips what it had left to do; *)
(* out of plug() it reaches Notifier::run().                               *)
Respond(out) ==
    CASE out = "busy" -> UNCHANGED <<doing, sinks, connectors>>
      [] out = "ok" /\ call = "addI2C" ->
             call' = "addVINI" /\ UNCHANGED <<task, cur, sinks, connectors>>
      [] out = "ok" /\ call = "removeVINI" ->
             call' = "removeI2C" /\ UNCHANGED <<task, cur, sinks, connectors>>
      [] out = "ok" /\ call \notin {"addI2C", "removeVINI"} -> Settled
      [] out = "noSuchItem" /\ call \in Unplugs -> Settled
      [] OTHER -> Disable(task, cur)

CallInventory ==
    /\ \E out \in Outcomes : (Invoke(out) \/ Continue(out)) /\ Respond(out)
    /\ UNCHANGED hardware

------------------------------------------------------------------------------
(* The process ends.  On exit everything is unplugged with                 *)
(* UNPLUG_RETAINS_INVENTORY, which makes no inventory call here, so that   *)
(* leaving and crashing differ in nothing that is modelled.                *)
Stop ==
    /\ Restarts /\ task # "off"
    /\ presentCache' = [p \in Paths |-> NoEntry] /\ objectCache' = Empty
    /\ running' = "none" /\ path' = NoEntry /\ todo' = {}
    /\ task' = "off" /\ call' = "none" /\ cur' = 0
    /\ wSinks' = {} /\ fSinks' = {}
    /\ wconn' = Fresh("uninitialised") /\ fconn' = Fresh("uninitialised")
    /\ drive' = Fresh(None)
    /\ UNCHANGED <<inventory, hardware>>

(* The world around the process.                                           *)
Insert(d, s) == bay[d] = None /\ bay' = [bay EXCEPT ![d] = s]
Pull(d) == bay[d] # None /\ bay' = [bay EXCEPT ![d] = None]

Environment ==
    /\ \/ /\ \E d \in Drives : Pull(d) \/ \E s \in Serials : Insert(d, s)
          /\ UNCHANGED hostOn
       \/ hostOn' = ~hostOn /\ UNCHANGED bay
    /\ UNCHANGED <<decoratorVars, doing, sinks, connectors>>

Detect == \/ DetectFlettCards \/ FlettCardUnplugged
          \/ DetectWilliwakasCard \/ WilliwakasCardUnplugged

Next == \/ Detect
        \/ \E d \in Drives : NotifyWilliwakas(d) \/ NotifyFlett(d) \/ PollFails(d)
        \/ Fetch \/ CallInventory
        \/ Stop \/ Environment

Spec == Init /\ [][Next]_vars

(* Every registered timer that keeps expiring is served again and again,   *)
(* also between longer handlers; a handler runs to its end.                *)
Fairness ==
    /\ WF_vars(Fetch \/ CallInventory)
    /\ \A d \in Drives : SF_vars(NotifyWilliwakas(d)) /\ SF_vars(NotifyFlett(d))

FairSpec == Spec /\ Fairness

------------------------------------------------------------------------------
Described(d) == held[d]["vini"] \in Serials /\ held[d]["i2c"] = Located
Blanked(d) == \A i \in Ifaces : held[d][i] = Blank

Watched(d) == task = "idle" /\ d \in wSinks \cap fSinks
BothAre(d, state) == wconn[d] = state /\ fconn[d] = state

(* Unless calls fail, a drive is announced as present only once both of    *)
(* its interfaces are published, in whatever order its two connectors meet *)
(* it and whatever an earlier life of the process left behind.             *)
AnnouncedIsDescribed ==
    [][\A d \in Drives :
          (~Faults /\ ~present[d] /\ present'[d]) => Described(d)]_vars

(* The item of a bay.                                                      *)
Item(d) == INSTANCE DriveItem
           WITH present <- present[d], vini <- held[d]["vini"],
                i2c <- held[d]["i2c"] = Located

(* What an earlier life of the process has left present, and nobody has    *)
(* marked since, loses an interface: the decorator does not know of it.    *)
InheritedErased(d) ==
    /\ running = "none" /\ present[d] /\ presentCache[d] # "present"
    /\ present'[d] /\ \A i \in Ifaces : held'[d][i] \in {held[d][i], Blank}

(* Unless calls fail, every bay keeps the promise of DriveItem at each     *)
(* call, as the backplanes of the other platforms do, though two           *)
(* connectors write the item here: only a present drive that is inherited  *)
(* from an earlier life of the process, and that LostDriveIsAbsent is      *)
(* about, may be erased before it is withdrawn.                            *)
ItemsKeepPromise ==
    /\ \A d \in Drives : Item(d)!Init
    /\ [][\A d \in Drives : \/ Item(d)!Next
                            \/ UNCHANGED Item(d)!vars
                            \/ InheritedErased(d)]_vars

(* While the GPIO says the drive is there, host power taking its endpoint  *)
(* away erases nothing: what is removed is removed when it is marked       *)
(* absent ("Lights Out").                                                  *)
PowerOffKeepsDescription ==
    [][\A d \in Drives :
          (wconn[d] = "populated" /\ task # "williwakas") =>
              \A i \in Ifaces : held[d][i] # Blank => held'[d][i] # Blank]_vars

(* As long as both connectors of a bay are watched and have seen its drive,*)
(* the inventory holds what the decorator has cached of it, also after     *)
(* calls have failed: a failure that leaves the two apart ends the watch.  *)
WatchedMirrorsCache ==
    \A d \in Drives :
        (Watched(d) /\ BothAre(d, "populated")) =>
            \A i \in Cached(d) : held[d][i] = objectCache[d][i]

(* Unless calls fail, when both connectors agree that a bay is empty       *)
(* nothing describes a drive there, also one that was removed while the    *)
(* process was down: the tests LightsOut.discoverRemoval*, for any history.*)
BothDepopulatedIsBlank ==
    \A d \in Drives :
        (~Faults /\ Watched(d) /\ BothAre(d, "depopulated")) => Blanked(d)

(* A drive that stays away from a watched bay ends up undescribed.         *)
GoneDriveErased ==
    \A d \in Drives :
        <>[](bay[d] = None /\ d \in wSinks \cap fSinks) => <>[]Blanked(d)

(* "remove the device from the inventory when it has been removed from the *)
(* system while AC power is unplugged" (Connector::depopulate): once both  *)
(* connectors have seen that a bay is empty, its item is not present.      *)
LostDriveIsAbsent ==
    \A d \in Drives :
        (Watched(d) /\ BothAre(d, "depopulated")) => ~present[d]

(* A drive whose interfaces have been added and that has been marked       *)
(* present is present in the inventory: the test addInterfacesAndSetPresent*)
(* expects it of an add() followed by a markPresent().                     *)
SeatedDriveIsPresent ==
    \A d \in Drives :
        (Watched(d) /\ BothAre(d, "populated")) => present[d]

(* When both connectors have seen the drive, it is described: what the     *)
(* tests LightsOut.unpopulatedInventoryPopulate* expect of either order.   *)
BothPopulatedIsDescribed ==
    \A d \in Drives :
        (Watched(d) /\ BothAre(d, "populated")) => Described(d)
==============================================================================
