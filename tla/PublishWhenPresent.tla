-------------------------- MODULE PublishWhenPresent --------------------------
(***************************************************************************)
(* PublishWhenPresentInventoryDecorator, between the drives of a Rainier   *)
(* and the InventoryManager.  It holds back what it is told about an item  *)
(* until the item is marked present, and blanks what it has published when *)
(* the item is marked absent.                                              *)
(*                                                                         *)
(* Each D-Bus call is a step of its own.  An operation that makes several  *)
(* calls returns the outcome "busy" until the last of them, and keeps its  *)
(* place in `running', `path' and `todo'.                                  *)
(***************************************************************************)
CONSTANTS Paths,     \* inventory items
          Serials,   \* serial numbers, the contents of a VINI interface
          Located,   \* bus and address, the contents of an I2CDevice interface
          Blank,     \* what depopulateObject() writes
          NoEntry,   \* no such key in a cache
          Default,   \* an interface made by VINI() or I2CDevice(): there are
                     \* no properties to add, addProperties is std::nullopt
          Faults     \* D-Bus calls may fail

ASSUME MarkersAssumption ==
    /\ {Located, Blank, NoEntry, Default} \cap Serials = {}
    /\ Located # Blank /\ Located # NoEntry /\ Located # Default
    /\ Blank # NoEntry /\ Blank # Default /\ NoEntry # Default
    /\ NoEntry # "present"
ASSUME FaultsAssumption == Faults \in BOOLEAN

VARIABLES
    present,       \* Item.Present of each path, in the inventory service
    held,          \* the contents of each interface of each path, there
    presentCache,  \* of each path: "present", "absent" or no entry
    objectCache,   \* of each path and interface: an Interface or no entry
    running,       \* the loop being executed on behalf of the caller
    path, todo     \* its path, and the interfaces still to visit

inventory == <<present, held>>
caches == <<presentCache, objectCache>>
loop == <<running, path, todo>>
decoratorVars == <<inventory, caches, loop>>

Ifaces == {"vini", "i2c"}

Contents(i) == IF i = "vini" THEN Serials ELSE {Located}

Outcomes == {"ok", "busy", "noSuchItem", "badAccess"}

DecoratorType ==
    /\ present \in [Paths -> BOOLEAN]
    /\ held \in [Paths -> [Ifaces -> Serials \cup {Located, Blank}]]
    /\ \A p \in Paths : \A i \in Ifaces :
          held[p][i] \in Contents(i) \cup {Blank}
    /\ presentCache \in [Paths -> {"present", "absent", NoEntry}]
    /\ objectCache \in
          [Paths -> [Ifaces -> Serials \cup {Located, Default, NoEntry}]]
    /\ \A p \in Paths : \A i \in Ifaces :
          objectCache[p][i] \in Contents(i) \cup {Default, NoEntry}
    /\ running \in {"none", "publish", "withdraw", "retract"}
    /\ running # "none" => path \in Paths
    /\ todo \subseteq Ifaces

Empty == [p \in Paths |-> [i \in Ifaces |-> NoEntry]]

(* A new process: the decorator is on the stack of detectFrus().           *)
Construct == /\ presentCache = [p \in Paths |-> NoEntry]
             /\ objectCache = Empty
             /\ running = "none" /\ path = NoEntry /\ todo = {}

DecoratorInit == /\ present = [p \in Paths |-> FALSE]
                 /\ held = [p \in Paths |-> [i \in Ifaces |-> Blank]]
                 /\ Construct

(* objectCache.contains(p) and the interfaces under it.                    *)
Cached(p) == {i \in Ifaces : objectCache[p][i] # NoEntry}

(* std::map visits "com.ibm.ipzvpd.VINI" before "xyz.openbmc_project...".  *)
First(is) == IF "vini" \in is THEN "vini" ELSE "i2c"

------------------------------------------------------------------------------
(* The InventoryManager.  A call that fails is reported as                 *)
(* NoSuchInventoryItem, whether or not it took effect.                     *)

Reply(out) == out = "ok" \/ (Faults /\ out = "noSuchItem")

(* populateObject() throws std::bad_optional_access before any call.       *)
InventoryAdd(p, i, iface, out) ==
    IF iface = Default
    THEN out = "badAccess" /\ UNCHANGED held
    ELSE /\ Reply(out)
         /\ \/ held' = [held EXCEPT ![p][i] = iface]
            \/ out # "ok" /\ UNCHANGED held

InventoryRemove(p, i, out) ==
    /\ Reply(out)
    /\ \/ held' = [held EXCEPT ![p][i] = Blank]
       \/ out # "ok" /\ UNCHANGED held

InventoryMark(p, flag, out) ==
    /\ Reply(out)
    /\ \/ present' = [present EXCEPT ![p] = flag]
       \/ out # "ok" /\ UNCHANGED present

------------------------------------------------------------------------------
(* The operations, with the outcome the caller sees.                       *)

(* Mutant: publishes without looking at presentCache.                      *)
AddAlways(p, i, iface, out) ==
    /\ objectCache' = [objectCache EXCEPT ![p][i] = iface]
    /\ InventoryAdd(p, i, iface, out)
    /\ UNCHANGED <<present, presentCache, loop>>

(* Mutant: caches every interface under the name of the first.             *)
AddMisnamed(p, i, iface, out) ==
    /\ objectCache' = [objectCache EXCEPT ![p]["vini"] = iface]
    /\ IF presentCache[p] = "present"
       THEN InventoryAdd(p, i, iface, out)
       ELSE out = "ok" /\ UNCHANGED held
    /\ UNCHANGED <<present, presentCache, loop>>

Add(p, i, iface, out) ==
    /\ objectCache' = [objectCache EXCEPT ![p][i] = iface]
    /\ IF presentCache[p] = "present"
       THEN InventoryAdd(p, i, iface, out)
       ELSE out = "ok" /\ UNCHANGED held
    /\ UNCHANGED <<present, presentCache, loop>>

(* Mutant: removes at once even when the item is present.                  *)
RemoveAlways(p, i, iface, out) ==
    /\ InventoryRemove(p, i, out)
    /\ UNCHANGED <<present, caches, loop>>

(* Mutant: keeps every removal for markAbsent().                           *)
RemoveNever(p, i, iface, out) ==
    /\ objectCache' = [objectCache EXCEPT ![p][i] = iface]
    /\ out = "ok"
    /\ UNCHANGED <<inventory, presentCache, loop>>

(* What is removed while the item is present stays published, and cached   *)
(* for markAbsent().                                                       *)
Remove(p, i, iface, out) ==
    /\ IF presentCache[p] = "present"
       THEN /\ objectCache' = [objectCache EXCEPT ![p][i] = iface]
            /\ out = "ok" /\ UNCHANGED held
       ELSE InventoryRemove(p, i, out) /\ UNCHANGED objectCache
    /\ UNCHANGED <<present, presentCache, loop>>

(* Starts a loop over what is cached, unless there is nothing to do.       *)
Enter(p, name, wanted, out) ==
    IF wanted /\ Cached(p) # {}
    THEN /\ out = "busy"
         /\ running' = name /\ path' = p /\ todo' = Cached(p)
    ELSE out = "ok" /\ UNCHANGED loop

MarkPresent(p, out) ==
    /\ presentCache' = [presentCache EXCEPT ![p] = "present"]
    /\ Enter(p, "publish", presentCache[p] # "present", out)
    /\ UNCHANGED <<inventory, objectCache>>

(* An item nobody has marked yet counts as having been present.            *)
MarkAbsent(p, out) ==
    /\ presentCache' = [presentCache EXCEPT ![p] = "absent"]
    /\ Enter(p, "withdraw", presentCache[p] # "absent", out)
    /\ UNCHANGED <<inventory, objectCache>>

(* The loop ends: normally after its last call, or with an exception.      *)
Done == running' = "none" /\ path' = NoEntry /\ todo' = {}

(* Mutant: markPresent() announces the item after its first interface.     *)
PublishOne(out) ==
    /\ running = "publish" /\ todo = Cached(path)
    /\ \E reply \in Outcomes :
          /\ InventoryAdd(path, First(todo), objectCache[path][First(todo)],
                          reply)
          /\ IF reply = "ok"
             THEN /\ out = "busy" /\ todo' = {}
                  /\ UNCHANGED <<running, path>>
             ELSE out = reply /\ Done
    /\ UNCHANGED <<present, caches>>

PublishInterface(out) ==
    /\ running = "publish" /\ todo # {}
    /\ \E reply \in Outcomes :
          /\ InventoryAdd(path, First(todo), objectCache[path][First(todo)],
                          reply)
          /\ IF reply = "ok"
             THEN /\ out = "busy" /\ todo' = todo \ {First(todo)}
                  /\ UNCHANGED <<running, path>>
             ELSE out = reply /\ Done
    /\ UNCHANGED <<present, caches>>

Announce(out) ==
    /\ running = "publish" /\ todo = {}
    /\ InventoryMark(path, TRUE, out)
    /\ Done
    /\ UNCHANGED <<held, caches>>

Withdraw(out) ==
    /\ running = "withdraw"
    /\ \E reply \in Outcomes :
          /\ InventoryMark(path, FALSE, reply)
          /\ IF reply = "ok"
             THEN /\ out = "busy" /\ running' = "retract"
                  /\ UNCHANGED <<path, todo>>
             ELSE out = reply /\ Done
    /\ UNCHANGED <<held, caches>>

RetractInterface(out) ==
    /\ running = "retract" /\ todo # {}
    /\ \E reply \in Outcomes :
          /\ InventoryRemove(path, First(todo), reply)
          /\ IF reply = "ok"
             THEN /\ out = "busy" /\ todo' = todo \ {First(todo)}
                  /\ UNCHANGED <<running, path>>
             ELSE out = reply /\ Done
    /\ UNCHANGED <<present, caches>>

(* Mutant: what has been withdrawn stays in the cache.                     *)
ForgetNothing(out) ==
    /\ running = "retract" /\ todo = {}
    /\ out = "ok" /\ Done
    /\ UNCHANGED <<inventory, caches>>

Forget(out) ==
    /\ running = "retract" /\ todo = {}
    /\ objectCache' = [objectCache EXCEPT ![path] = Empty[path]]
    /\ out = "ok" /\ Done
    /\ UNCHANGED <<inventory, presentCache>>

(* The next call of the loop that is running.                              *)
Continue(out) == \/ PublishInterface(out) \/ Announce(out)
                 \/ Withdraw(out) \/ RetractInterface(out) \/ Forget(out)

------------------------------------------------------------------------------
(* A caller that makes any call in any order, like the tests.  It removes  *)
(* an interface as it last knew it, or an empty one for a cold unplug.  An *)
(* exception ends the call it comes out of, and the caller goes on.        *)
Call(p, out) ==
    /\ running = "none"
    /\ \/ \E i \in Ifaces : \E iface \in Contents(i) : Add(p, i, iface, out)
       \/ \E i \in Ifaces : \E iface \in {objectCache[p][i], Default} :
              iface # NoEntry /\ Remove(p, i, iface, out)
       \/ MarkPresent(p, out)
       \/ MarkAbsent(p, out)

ClientNext == \E out \in Outcomes : \/ \E p \in Paths : Call(p, out)
                                    \/ Continue(out)

ClientSpec == DecoratorInit /\ [][ClientNext]_decoratorVars

(* The connectors of a platform may do more.  They remove an interface     *)
(* that the decorator has forgotten since they added it, and the process   *)
(* may end at any point and start again, which the inventory outlives.     *)
RemoveForgotten(p, out) ==
    /\ running = "none"
    /\ \E i \in Ifaces : \E iface \in Contents(i) :
          objectCache[p][i] = NoEntry /\ Remove(p, i, iface, out)

PlatformNext ==
    \/ ClientNext
    \/ \E out \in Outcomes : \E p \in Paths : RemoveForgotten(p, out)
    \/ Construct' /\ UNCHANGED inventory

(* How a platform uses the decorator: one call at a time, and an interface *)
(* is removed with the contents it was last added with, or with none by a  *)
(* connector that never added it.  Never is what is cached of one drive    *)
(* replaced by what is removed of another (the addInterface and            *)
(* removeInterface calls of FlettNVMeDrive and WilliwakasNVMeDrive).       *)
PlatformSpec == DecoratorInit /\ [][PlatformNext]_decoratorVars

(* An item becomes present in the inventory only when everything that is   *)
(* known of it has been published, and something is: markPresent()'s loop, *)
(* with calls that fail and processes that stop in the middle of it.       *)
AnnouncedWhole ==
    [][\A p \in Paths : (~present[p] /\ present'[p]) =>
          /\ Cached(p) # {}
          /\ \A i \in Cached(p) : held[p][i] = objectCache[p][i]]_decoratorVars

(* While an item is marked present, what was last added to it is what the  *)
(* inventory holds, through any mix of add(), remove() and repeated marks. *)
PresentMirrorsCache ==
    running = "none" =>
        \A p \in Paths : presentCache[p] = "present" =>
            \A i \in Cached(p) :
                objectCache[p][i] # Default => held[p][i] = objectCache[p][i]

(* Unless calls fail, an item that is not marked present neither is so in  *)
(* the inventory nor has any contents there: what the test                 *)
(* addInterfacesButNotPresent expects, for any history of calls.           *)
AbsentIsBlank ==
    (running = "none" /\ ~Faults) =>
        \A p \in Paths : presentCache[p] # "present" =>
            ~present[p] /\ \A i \in Ifaces : held[p][i] = Blank

(* Unless calls fail, the interfaces with nothing to add that a cold       *)
(* unplug leaves in the cache are dropped before anything is published     *)
(* from there: `addProperties.value()' does not throw.                     *)
DefaultNeverPublished ==
    (running = "publish" /\ ~Faults) =>
        \A i \in Ifaces : objectCache[path][i] # Default
==============================================================================
