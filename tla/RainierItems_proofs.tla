--------------------------- MODULE RainierItems_proofs ---------------------------
(***************************************************************************)
(* Rainier's drives between two interfaces: below, the connectors use the  *)
(* decorator as PlatformSpec says, so that what is proved of it holds here *)
(* too; above, the item of each bay is a DriveItem until a call fails, but *)
(* for one that an earlier life of the process has left present.           *)
(***************************************************************************)
EXTENDS RainierDrives_proofs

(* What Flett removes of a drive is what it has added of it.               *)
Owned(d) ==
    /\ fconn[d] = "populated" =>
           /\ drive[d] \in Serials
           /\ objectCache[d]["vini"] \in {NoEntry, drive[d]}
           /\ objectCache[d]["i2c"] \in {NoEntry, Located}
    /\ (cur = d /\ call = "addVINI") => objectCache[d]["i2c"] = Located
    /\ (cur = d /\ call \in {"removeVINI", "removeI2C"}) =>
           drive[d] = None \/ fconn[d] = "populated"
    /\ task \in {"off"} \cup Cards => drive[d] = None

AllOwned == \A d \in Drives : Owned(d)

(* Only what has been withdrawn is blanked by markAbsent().                *)
Retracting == running = "retract" => ~present[path]

(* An item is present in the inventory only while it is marked so here:    *)
(* what holds of a client that is never restarted and whose calls do not   *)
(* fail.                                                                   *)
Hidden(p) ==
    /\ present[p] => Cached(p) # {}
    /\ (Quiet(p) /\ presentCache[p] # "present") => ~present[p]

USE DEF inventory, caches, loop, decoratorVars, hardware, doing, sinks, connectors

------------------------------------------------------------------------------
(* Below: the connectors as a client of the decorator.                     *)

(* A bay that a step neither works on nor enters with an interface to add. *)
LEMMA OwnedFrame ==
    ASSUME NEW d \in Drives, Owned(d), objectCache'[d] = objectCache[d],
           fconn'[d] = fconn[d] \/ fconn'[d] # "populated",
           drive'[d] = drive[d] \/ (drive'[d] = None /\ fconn'[d] # "populated"),
           cur' = d => call' # "addVINI",
           (cur' = d /\ call' \in {"removeVINI", "removeI2C"}) =>
               drive'[d] = None \/ fconn'[d] = "populated",
           task' \in {"off"} \cup Cards => task \in {"off"} \cup Cards
    PROVE  Owned(d)'
BY DEF Owned

LEMMA InitOwned == Init => AllOwned
BY DEF Init, Fresh, AllOwned, Owned

(* The actions that make no call.                                          *)
LEMMA OtherOwned ==
    ASSUME Inductive, AllOwned,
           \/ Detect \/ Fetch \/ Stop \/ Environment
           \/ \E b \in Drives : NotifyWilliwakas(b) \/ NotifyFlett(b) \/ PollFails(b)
    PROVE  AllOwned'
<1> SUFFICES ASSUME NEW d \in Drives PROVE Owned(d)'
    BY DEF AllOwned
<1>1. /\ TypeOK /\ Tasking /\ Mirrored(d) /\ Owned(d)
    BY DEF Inductive, Bay, AllOwned
<1>2. CASE Detect
    <2>1. UNCHANGED <<drive, objectCache>> /\ task \in {"off"} \cup Cards
        BY <1>2 DEF Detect, DetectFlettCards, FlettCardUnplugged, DetectWilliwakasCard,
           WilliwakasCardUnplugged, Cards
    <2>2. drive[d] = None
        BY <1>1, <2>1 DEF Owned
    <2>3. fconn'[d] = fconn[d] \/ fconn'[d] = "uninitialised"
        BY <1>2 DEF Detect, DetectFlettCards, FlettCardUnplugged, DetectWilliwakasCard,
           WilliwakasCardUnplugged, Fresh
    <2>4. call' # "addVINI"
        BY <1>1, <1>2 DEF Tasking, Detect, DetectFlettCards, FlettCardUnplugged,
           DetectWilliwakasCard, WilliwakasCardUnplugged, UnplugCard
    <2> QED BY <1>1, <2>1, <2>2, <2>3, <2>4, OwnedFrame
<1>3. ASSUME NEW b \in Drives, NotifyWilliwakas(b) \/ NotifyFlett(b) \/ PollFails(b)
      PROVE  Owned(d)'
    <2>1. /\ UNCHANGED <<objectCache, fconn>> /\ task' \in {"idle", "flett", "williwakas"}
          /\ call' # "addVINI"
        BY <1>3 DEF NotifyWilliwakas, NotifyFlett, PollFails, Enters, Disable
    <2>2. \/ drive'[d] = drive[d]
          \/ drive'[d] = None /\ fconn[d] # "populated"
        BY <1>1, <1>3 DEF NotifyWilliwakas, NotifyFlett, PollFails, Disable, TypeOK
    <2>3. (cur' = d /\ call' \in {"removeVINI", "removeI2C"}) =>
              drive'[d] = None \/ fconn'[d] = "populated"
        BY <1>1, <1>3 DEF NotifyWilliwakas, NotifyFlett, PollFails, Enters, Disable, TypeOK
    <2> QED BY <1>1, <2>1, <2>2, <2>3, OwnedFrame DEF Cards
<1>4. CASE Fetch
    <2>1. /\ UNCHANGED <<objectCache, fconn>> /\ task' \in {task, "idle"}
          /\ call' \in {"none", "addI2C"}
        BY <1>4 DEF Fetch, Disable
    <2>2. task = "flett" /\ cur \in Drives
        BY <1>1, <1>4 DEF Fetch, Tasking, TypeOK, Tasks, Cards
    <2>3. CASE cur = d
        <3>1. fconn[d] # "populated"
            BY <1>1, <1>4, <2>3 DEF Fetch, Mirrored
        <3> QED BY <2>1, <2>2, <3>1 DEF Owned, Cards
    <2>4. CASE cur # d
        <3>1. drive'[d] = drive[d]
            BY <1>1, <1>4, <2>2, <2>4 DEF Fetch, Disable, TypeOK
        <3> QED BY <1>1, <2>1, <2>2, <3>1, OwnedFrame DEF Cards
    <2> QED BY <2>3, <2>4
<1>5. CASE Stop
    BY <1>5 DEF Stop, Fresh, Owned
<1>6. CASE Environment
    BY <1>1, <1>6 DEF Environment, Owned
<1> QED BY <1>2, <1>3, <1>4, <1>5, <1>6

(* The answer to a call: what it leaves of the bay it was for, and of the  *)
(* others.                                                                 *)
LEMMA Answered ==
    ASSUME Inductive, AllOwned, NEW p \in Drives, p = cur,
           call \notin {"none", "fetch"}, NEW out, Respond(out), Elsewhere(p)
    PROVE  /\ Owned(p)' => AllOwned'
           /\ drive'[p] \in {drive[p], None} /\ task' \in {task, "idle"}
           /\ \/ /\ drive'[p] = drive[p] /\ fconn'[p] = fconn[p] /\ cur' = cur
                 /\ \/ call' = call
                    \/ call = "addI2C" /\ out = "ok" /\ call' = "addVINI"
                    \/ call = "removeVINI" /\ out = "ok" /\ call' = "removeI2C"
              \/ /\ cur' # p \/ call' = "none"
                 /\ \/ drive'[p] = drive[p] /\ fconn'[p] = fconn[p]
                    \/ call = "addVINI" /\ drive'[p] = drive[p] /\ out = "ok"
                    \/ call = "markAbsent" /\ fconn'[p] = fconn[p] /\ task \in Cards
                    \/ call \in {"removeVINI", "removeI2C"} /\ fconn'[p] = "depopulated"
<1>1. TypeOK /\ Tasking /\ \A d \in Drives : Owned(d)
    BY DEF Inductive, AllOwned
<1>2. \/ UNCHANGED <<doing, sinks, connectors>>
      \/ /\ \/ call = "addI2C" /\ call' = "addVINI"
            \/ call = "removeVINI" /\ call' = "removeI2C"
         /\ out = "ok" /\ UNCHANGED <<task, cur, sinks, connectors>>
      \/ Settled /\ (call = "addVINI" => out = "ok") /\ call # "addI2C"
      \/ Disable(task, cur)
    BY DEF Respond, Unplugs
<1>3. CASE Settled /\ (call = "addVINI" => out = "ok") /\ call # "addI2C"
    <2>1. /\ \A d \in Drives \ {p} : drive'[d] = drive[d] /\ fconn'[d] = fconn[d]
          /\ drive' = IF call \in Unplugs /\ task # "williwakas"
                      THEN [drive EXCEPT ![p] = None] ELSE drive
          /\ drive'[p] \in {drive[p], None}
          /\ call \in {"markPresent", "addVINI"} => drive' = drive
          /\ call = "addVINI" => fconn'[p] = "populated"
          /\ call \in {"removeVINI", "removeI2C"} => fconn'[p] = "depopulated"
          /\ call \in {"markPresent", "markAbsent"} => UNCHANGED fconn
          /\ \/ /\ task \in Cards /\ UNCHANGED task /\ cur' # p
                /\ call' \in {"removeVINI", "markAbsent"}
             \/ task \notin Cards /\ task' = "idle" /\ call' = "none"
        BY <1>1, <1>3, Constants DEF TypeOK, Settled, Unplugs
    <2>2. call \in {"markPresent", "markAbsent", "addVINI", "removeVINI", "removeI2C"}
        BY <1>1, <1>3 DEF TypeOK, Plugs, Unplugs
    <2>3. ASSUME NEW d \in Drives \ {p} PROVE Owned(d)'
        <3>1. task \in Cards => drive[d] = None
            BY <1>1, <2>3 DEF Owned
        <3>2. objectCache'[d] = objectCache[d]
            BY <2>3, Constants DEF Elsewhere, Untouched
        <3> QED BY <1>1, <2>1, <2>3, <3>1, <3>2, OwnedFrame DEF Cards
    <2>4. call = "markAbsent" => task \in Cards \/ task = "williwakas"
        BY <1>1 DEF Tasking, TypeOK, Tasks, Cards
    <2> QED BY <1>3, <2>1, <2>2, <2>3, <2>4 DEF AllOwned, Unplugs
<1>4. CASE ~(Settled /\ (call = "addVINI" => out = "ok") /\ call # "addI2C")
    <2>1. /\ UNCHANGED <<drive, fconn>> /\ task' \in {task, "idle"}
          /\ \/ cur' = cur /\ \/ call' = call
                              \/ call = "addI2C" /\ out = "ok" /\ call' = "addVINI"
                              \/ call = "removeVINI" /\ out = "ok" /\ call' = "removeI2C"
             \/ call' = "none"
        BY <1>2, <1>4 DEF Disable
    <2>2. ASSUME NEW d \in Drives \ {p} PROVE Owned(d)'
        <3>1. objectCache'[d] = objectCache[d]
            BY <2>2, Constants DEF Elsewhere, Untouched
        <3> QED BY <1>1, <2>1, <2>2, <3>1, OwnedFrame DEF Cards
    <2> QED BY <2>1, <2>2 DEF AllOwned
<1> QED BY <1>3, <1>4

(* The calls of the connectors.                                            *)
LEMMA MarksOwned ==
    ASSUME Inductive, AllOwned, NEW p \in Drives, p = cur, NEW out, Respond(out),
           call \in {"markPresent", "markAbsent"}, Elsewhere(p),
           objectCache'[p] = objectCache[p] \/ \A i \in Ifaces : objectCache'[p][i] = NoEntry
    PROVE  AllOwned'
<1>1. Owned(p) /\ Tasking
    BY DEF AllOwned, Inductive
<1>2. /\ fconn'[p] = fconn[p] /\ task' \in {task, "idle"}
      /\ drive'[p] = drive[p] \/ (task \in Cards /\ drive'[p] = None)
      /\ cur' # p \/ call' \in {"none", "markPresent", "markAbsent"}
      /\ Owned(p)' => AllOwned'
    BY Answered
<1>3. \A i \in Ifaces : objectCache'[p][i] \in {objectCache[p][i], NoEntry}
    OBVIOUS
<1>4. Owned(p)'
    BY <1>1, <1>2, <1>3, Constants DEF Owned, Cards, Ifaces
<1> QED BY <1>2, <1>4

LEMMA CallOwned ==
    ASSUME Inductive, AllOwned, CallInventory
    PROVE  AllOwned'
<1>1. PICK out \in Outcomes : (Invoke(out) \/ Continue(out)) /\ Respond(out)
    BY DEF CallInventory
<1>2. /\ Control /\ Tasking /\ TypeOK
    BY DEF Inductive, TypeOK, Control
<1>3. cur \in Drives
    BY <1>1, <1>2 DEF Invoke, Continue, PublishInterface, Announce, Withdraw,
       RetractInterface, Forget, Tasking
<1>0. PICK p \in Drives : p = cur
    BY <1>3
<1>4. /\ p = cur /\ p \in Paths /\ Owned(p) /\ Mirrored(p)
    BY <1>0, Constants DEF AllOwned, Inductive, Bay
<1>5. CASE Continue(out)
    <2>1. /\ running # "none" /\ path = p /\ call \in {"markPresent", "markAbsent"}
        BY <1>2, <1>4, <1>5 DEF Continue, PublishInterface, Announce, Withdraw,
           RetractInterface, Forget, Tasking
    <2>2. /\ Elsewhere(p)
          /\ \/ objectCache'[p] = objectCache[p]
             \/ \A i \in Ifaces : objectCache'[p][i] = NoEntry
        BY <1>2, <1>4, <1>5, <2>1, PublishFacts, WithdrawFacts DEF Continue
    <2> QED BY <1>1, <1>4, <2>1, <2>2, MarksOwned
<1>6. CASE /\ running = "none"
           /\ \/ call = "markPresent" /\ MarkPresent(p, out)
              \/ call = "markAbsent" /\ MarkAbsent(p, out)
    <2>1. Elsewhere(p)
        BY <1>2, <1>4, <1>6, MarkFacts
    <2>2. UNCHANGED objectCache
        BY <1>6 DEF MarkPresent, MarkAbsent
    <2> QED BY <1>1, <1>4, <1>6, <2>1, <2>2, MarksOwned
<1>7. CASE call = "addI2C" /\ Add(p, "i2c", Located, out) /\ running = "none"
    <2>1. Located \in Contents("i2c") /\ "i2c" \in Ifaces
        BY DEF Contents, Ifaces
    <2>2. Elsewhere(p) /\ objectCache'[p]["i2c"] = Located
        BY <1>2, <1>4, <1>7, <2>1, AddFacts
    <2>3. fconn[p] # "populated"
        BY <1>4, <1>7 DEF Mirrored
    <2>4. Owned(p)' => AllOwned'
        BY <1>1, <1>4, <1>7, <2>2, Answered
    <2>5. /\ fconn'[p] = fconn[p] /\ task' \in {task, "idle"}
          /\ cur' # p \/ call' \in {"none", "addI2C", "addVINI"}
        BY <1>1, <1>4, <1>7, <2>2, Answered
    <2>6. task \notin {"off"} \cup Cards
        BY <1>2, <1>7 DEF Tasking, Cards
    <2> QED BY <2>2, <2>3, <2>4, <2>5, <2>6 DEF Owned, Cards
<1>8. CASE call = "addVINI" /\ Add(p, "vini", drive[p], out) /\ running = "none"
    <2>1. drive[p] \in Contents("vini") /\ "vini" \in Ifaces /\ "i2c" \in Ifaces \ {"vini"}
        BY <1>2, <1>4, <1>8 DEF Contents, Ifaces, Tasking
    <2>2. /\ Elsewhere(p) /\ objectCache'[p]["vini"] = drive[p]
          /\ objectCache'[p]["i2c"] = objectCache[p]["i2c"]
          /\ out \in {"ok", "noSuchItem"}
        BY <1>2, <1>4, <1>8, <2>1, AddFacts
    <2>3. objectCache'[p]["i2c"] = Located /\ drive[p] \in Serials
        BY <1>2, <1>4, <1>8, <2>2 DEF Owned, Tasking
    <2>4. Owned(p)' => AllOwned'
        BY <1>1, <1>4, <1>8, <2>2, Answered
    <2>5. /\ drive'[p] = drive[p] /\ task' \in {task, "idle"}
          /\ cur' # p \/ call' \in {"none", "addVINI"}
        BY <1>1, <1>4, <1>8, <2>2, Answered DEF Tasking
    <2>6. task \notin {"off"} \cup Cards
        BY <1>2, <1>8 DEF Tasking, Cards
    <2> QED BY <2>2, <2>3, <2>4, <2>5, <2>6 DEF Owned, Cards
<1>9. ASSUME NEW i \in Ifaces, NEW iface \in Contents(i) \cup {Default},
             call = IF i = "vini" THEN "removeVINI" ELSE "removeI2C",
             running = "none", Remove(p, i, iface, out),
             drive[p] # None => iface = IF i = "vini" THEN drive[p] ELSE Located
      PROVE  AllOwned'
    <2>1. /\ Elsewhere(p)
          /\ \A j \in Ifaces \ {i} : objectCache'[p][j] = objectCache[p][j]
          /\ objectCache'[p][i] \in {iface, objectCache[p][i]}
        BY <1>2, <1>4, <1>9, RemoveFacts
    <2>2. call \in {"removeVINI", "removeI2C"} /\ Ifaces = {"vini", "i2c"}
        BY <1>9 DEF Ifaces
    <2>3. /\ Owned(p)' => AllOwned'
          /\ drive'[p] \in {drive[p], None} /\ task' \in {task, "idle"}
          /\ \/ drive'[p] = drive[p] /\ fconn'[p] = fconn[p] /\ cur' = cur
             \/ fconn'[p] # "populated" /\ (cur' # p \/ call' = "none")
             \/ drive'[p] = drive[p] /\ fconn'[p] = fconn[p] /\ (cur' # p \/ call' = "none")
          /\ cur' # p \/ call' # "addVINI"
        BY <1>1, <1>4, <2>1, <2>2, Answered
    <2>4. drive[p] = None \/ fconn[p] = "populated"
        BY <1>4, <2>2 DEF Owned
    <2>5. ASSUME fconn'[p] = "populated"
          PROVE  /\ drive'[p] = drive[p] /\ drive[p] \in Serials
                 /\ objectCache'[p]["vini"] \in {NoEntry, drive[p]}
                 /\ objectCache'[p]["i2c"] \in {NoEntry, Located}
        <3>1. fconn[p] = "populated" /\ drive'[p] = drive[p]
            BY <2>3, <2>5
        <3>2. drive[p] \in Serials /\ drive[p] # None
            BY <1>4, <3>1, Constants DEF Owned
        <3> QED BY <1>4, <1>9, <2>1, <2>2, <3>1, <3>2 DEF Owned
    <2> QED BY <1>4, <2>2, <2>3, <2>4, <2>5 DEF Owned, Cards
<1>10. CASE call = "removeVINI" /\ Remove(p, "vini", Known(drive[p]), out) /\ running = "none"
    <2>1. Known(drive[p]) \in Contents("vini") \cup {Default} /\ "vini" \in Ifaces
        BY <1>2, <1>4 DEF Known, Contents, Ifaces, TypeOK
    <2> QED BY <1>4, <1>9, <1>10, <2>1 DEF Known
<1>11. CASE call = "removeI2C" /\ Remove(p, "i2c", Known(Located), out) /\ running = "none"
    <2>1. Known(Located) \in Contents("i2c") \cup {Default} /\ "i2c" \in Ifaces
        BY DEF Known, Contents, Ifaces
    <2> QED BY <1>4, <1>9, <1>11, <2>1 DEF Known
<1> QED BY <1>1, <1>4, <1>5, <1>6, <1>7, <1>8, <1>10, <1>11 DEF Invoke

LEMMA NextOwned == Inductive /\ AllOwned /\ [Next]_vars => AllOwned'
<1> SUFFICES ASSUME Inductive, AllOwned, [Next]_vars PROVE AllOwned'
    OBVIOUS
<1>1. CASE UNCHANGED vars
    BY <1>1 DEF vars, AllOwned, Owned
<1> QED BY <1>1, OtherOwned, CallOwned DEF Next

(* What a step does to the decorator is a call that a platform may make, a *)
(* call of the loop that runs, or a new process.                           *)
Used(out) == \/ \E p \in Paths : Call(p, out) \/ RemoveForgotten(p, out)
             \/ Continue(out)

LEMMA InvokesAsPlatform ==
    ASSUME Inductive, AllOwned, NEW out, Invoke(out)
    PROVE  \E p \in Paths : Call(p, out) \/ RemoveForgotten(p, out)
<1>0. running = "none" /\ cur \in Drives
    BY DEF Invoke
<1>1. PICK p \in Drives : p = cur
    BY <1>0
<1>2. /\ TypeOK /\ Tasking /\ Owned(p) /\ p \in Paths
    BY Constants DEF Inductive, AllOwned
<1>3. /\ "vini" \in Ifaces /\ Contents("vini") = Serials
      /\ "i2c" \in Ifaces /\ Contents("i2c") = {Located}
    BY DEF Contents, Ifaces
<1>4. Default # NoEntry /\ Located # NoEntry
    BY MarkersAssumption
<1>5. CASE \/ call = "markPresent" /\ MarkPresent(p, out)
           \/ call = "markAbsent" /\ MarkAbsent(p, out)
    BY <1>0, <1>2, <1>5 DEF Call
<1>6. CASE call = "addI2C" /\ Add(p, "i2c", Located, out)
    BY <1>0, <1>2, <1>3, <1>6 DEF Call
<1>7. CASE call = "addVINI" /\ Add(p, "vini", drive[p], out)
    <2>1. drive[p] \in Contents("vini")
        BY <1>1, <1>2, <1>3, <1>7 DEF Tasking
    <2> QED BY <1>0, <1>2, <1>3, <1>7, <2>1 DEF Call
<1>8. CASE \/ call = "removeVINI" /\ Remove(p, "vini", Known(drive[p]), out)
           \/ call = "removeI2C" /\ Remove(p, "i2c", Known(Located), out)
    <2>1. \E i \in Ifaces : \E iface \in {Default} \cup Contents(i) :
              /\ Remove(p, i, iface, out)
              /\ iface = Default \/ objectCache[p][i] \in {NoEntry, iface}
        <3>1. CASE drive[p] = None
            BY <1>1, <1>3, <1>8, <3>1 DEF Known
        <3>2. CASE drive[p] # None
            <4>1. /\ drive[p] \in Serials
                  /\ objectCache[p]["vini"] \in {NoEntry, drive[p]}
                  /\ objectCache[p]["i2c"] \in {NoEntry, Located}
                BY <1>1, <1>2, <1>8, <3>2 DEF Owned
            <4> QED BY <1>1, <1>3, <1>8, <3>2, <4>1 DEF Known
        <3> QED BY <3>1, <3>2
    <2>2. ASSUME NEW i \in Ifaces, NEW iface \in {Default} \cup Contents(i),
                 Remove(p, i, iface, out),
                 iface = Default \/ objectCache[p][i] \in {NoEntry, iface}
          PROVE  Call(p, out) \/ RemoveForgotten(p, out)
        <3>1. CASE objectCache[p][i] = NoEntry /\ iface \in Contents(i)
            BY <1>0, <2>2, <3>1 DEF RemoveForgotten
        <3>2. CASE iface = Default \/ objectCache[p][i] = iface
            BY <1>0, <1>4, <2>2, <3>2, ContentsFacts DEF Call
        <3> QED BY <2>2, <3>1, <3>2
    <2> QED BY <1>2, <2>1, <2>2
<1> QED BY <1>1, <1>5, <1>6, <1>7, <1>8 DEF Invoke

LEMMA DecoratorStep ==
    ASSUME Inductive, AllOwned, [Next]_vars
    PROVE  \/ UNCHANGED decoratorVars
           \/ CallInventory /\ \E out \in Outcomes : Used(out)
           \/ Restarts /\ Construct' /\ UNCHANGED inventory
<1>1. CASE CallInventory
    BY <1>1, InvokesAsPlatform DEF CallInventory, Used
<1>2. CASE Stop
    BY <1>2 DEF Stop, Construct
<1>3. CASE ~CallInventory /\ ~Stop
    BY <1>3 DEF Next, vars, Detect, DetectFlettCards, FlettCardUnplugged,
       DetectWilliwakasCard, WilliwakasCardUnplugged, NotifyWilliwakas, NotifyFlett,
       PollFails, Enters, Fetch, Environment
<1> QED BY <1>1, <1>2, <1>3

(* PlatformSpec: Flett and Williwakas together, over any number of bays,   *)
(* with failing calls and restarts, are one of the platforms that          *)
(* DecoratorTypeCorrect and AnnouncedWholeHolds are about.                 *)
THEOREM UsesDecoratorAsPlatform == Spec => PlatformSpec
<1>1. Init => Inductive /\ AllOwned /\ DecoratorInit
    BY InitInductive, InitOwned DEF Init
<1>2. (Inductive /\ AllOwned) /\ [Next]_vars => (Inductive /\ AllOwned)'
    BY NextInductive, NextOwned
<1>3. Inductive /\ AllOwned /\ [Next]_vars => [PlatformNext]_decoratorVars
    <2> SUFFICES ASSUME Inductive, AllOwned, [Next]_vars
                 PROVE  [PlatformNext]_decoratorVars
        OBVIOUS
    <2>1. CASE UNCHANGED decoratorVars
        BY <2>1
    <2>2. ASSUME NEW out \in Outcomes, Used(out) PROVE PlatformNext
        <3>1. CASE \E p \in Paths : RemoveForgotten(p, out)
            BY <2>2, <3>1 DEF PlatformNext
        <3>2. CASE (\E p \in Paths : Call(p, out)) \/ Continue(out)
            BY <2>2, <3>2 DEF PlatformNext, ClientNext
        <3> QED BY <2>2, <3>1, <3>2 DEF Used
    <2>3. CASE Construct' /\ UNCHANGED inventory
        BY <2>3 DEF PlatformNext
    <2> QED BY <2>1, <2>2, <2>3, DecoratorStep
<1> QED BY <1>1, <1>2, <1>3, PTL DEF Spec, PlatformSpec

(* AnnouncedWhole, of Rainier's drives: a failing call or a process that   *)
(* stops half way through does not announce a drive of which something is  *)
(* known and not published.                                                *)
THEOREM DrivesAnnouncedWhole == Spec => AnnouncedWhole
BY UsesDecoratorAsPlatform, AnnouncedWholeHolds, PTL

------------------------------------------------------------------------------
(* Above: what the two connectors of a bay make of its item.               *)

LEMMA HiddenFrame ==
    ASSUME NEW q \in Paths, Untouched(q), Quiet(q), Quiet(q)', Hidden(q)
    PROVE  Hidden(q)'
<1>1. Cached(q)' = Cached(q)
    BY DEF Untouched, Cached
<1> QED BY <1>1 DEF Untouched, Hidden

LEMMA HiddenCall ==
    ASSUME Control, ~Faults, NEW q \in Paths, Hidden(q), NEW p \in Paths, NEW out,
           Call(p, out) \/ RemoveForgotten(p, out)
    PROVE  Hidden(q)'
<1>1. running = "none" /\ Quiet(q) /\ DecoratorType
    BY DEF Call, RemoveForgotten, Quiet, Control
<1>2. ASSUME UNCHANGED <<present, presentCache, loop>>, Elsewhere(p),
             Cached(p) \subseteq Cached(p)'
      PROVE  Hidden(q)'
    <2>1. CASE q = p
        BY <1>1, <1>2, <2>1 DEF Hidden, Quiet
    <2>2. CASE q # p
        BY <1>1, <1>2, <2>2, HiddenFrame DEF Elsewhere, Quiet
    <2> QED BY <2>1, <2>2
<1>3. CASE \E i \in Ifaces : \E iface \in Contents(i) : Add(p, i, iface, out)
    BY <1>1, <1>2, <1>3, AddFacts
<1>4. CASE \E i \in Ifaces : \E iface \in Contents(i) \cup {Default} :
              Remove(p, i, iface, out)
    <2>1. PICK i \in Ifaces, iface \in Serials \cup {Located, Default} :
              iface \in Contents(i) \cup {Default} /\ Remove(p, i, iface, out)
        BY <1>4, ContentsFacts
    <2>2. /\ Elsewhere(p) /\ UNCHANGED <<present, presentCache, loop>>
          /\ Cached(p)' = Cached(p) \cup {i} \/ UNCHANGED objectCache
        BY <1>1, <2>1, RemoveFacts
    <2> QED BY <1>2, <2>2, SameCache
<1>5. ASSUME NEW mark, NEW name,
             \/ MarkPresent(p, out) /\ mark = "present" /\ name = "publish"
             \/ MarkAbsent(p, out) /\ mark = "absent" /\ name = "withdraw"
      PROVE  Hidden(q)'
    <2>1. /\ Elsewhere(p) /\ UNCHANGED <<held, objectCache>> /\ presentCache'[p] = mark
          /\ \/ /\ presentCache[p] # mark
                /\ running' = name /\ path' = p
             \/ /\ UNCHANGED loop
                /\ presentCache[p] = mark \/ Cached(p) = {}
        BY <1>1, <1>5, MarkFacts
    <2>2. UNCHANGED present /\ Cached(p)' = Cached(p)
        BY <1>5, <2>1, SameCache DEF MarkPresent, MarkAbsent
    <2>3. CASE q = p
        BY <1>1, <1>5, <2>1, <2>2, <2>3 DEF Hidden, Quiet
    <2>4. CASE q # p
        BY <1>1, <2>1, <2>4, HiddenFrame DEF Elsewhere, Quiet
    <2> QED BY <2>3, <2>4
<1>6. \/ \E i \in Ifaces : \E iface \in Contents(i) : Add(p, i, iface, out)
      \/ \E i \in Ifaces : \E iface \in Contents(i) \cup {Default} :
              Remove(p, i, iface, out)
      \/ MarkPresent(p, out) \/ MarkAbsent(p, out)
    BY <1>1 DEF Call, RemoveForgotten, DecoratorType
<1> QED BY <1>3, <1>4, <1>5, <1>6

LEMMA HiddenLoop ==
    ASSUME Control, Retracting, ~Faults, NEW q \in Paths, Hidden(q), NEW out,
           Continue(out)
    PROVE  Hidden(q)'
<1>1. DecoratorType /\ LoopControl /\ running # "none" /\ path \in Paths
    BY DEF Continue, PublishInterface, Announce, Withdraw, RetractInterface, Forget,
           Control, LoopControl
<1>2. PICK p \in Paths : p = path
    BY <1>1
<1>3. CASE PublishInterface(out) \/ Announce(out)
    <2>1. /\ Elsewhere(p) /\ running = "publish" /\ UNCHANGED <<presentCache, objectCache>>
          /\ UNCHANGED <<running, path>> \/ running' = "none"
          /\ presentCache[p] = "present" /\ Cached(p) # {} /\ Cached(p)' = Cached(p)
        BY <1>1, <1>2, <1>3, PublishFacts, SameCache DEF LoopControl
    <2>2. PublishInterface(out) => UNCHANGED present
        BY DEF PublishInterface
    <2>3. Announce(out) => running' = "none"
        BY DEF Announce, Done
    <2>4. CASE q = p
        BY <1>2, <1>3, <2>1, <2>2, <2>3, <2>4 DEF Hidden, Quiet
    <2>5. CASE q # p
        BY <1>2, <2>1, <2>5, HiddenFrame DEF Elsewhere, Quiet
    <2> QED BY <2>4, <2>5
<1>4. CASE Withdraw(out) \/ RetractInterface(out) \/ Forget(out)
    <2>1. /\ Elsewhere(p) /\ UNCHANGED presentCache /\ running \in {"withdraw", "retract"}
          /\ \/ running' = "retract" /\ UNCHANGED <<objectCache, path>>
             \/ running' = "none"
        BY <1>1, <1>2, <1>4, WithdrawFacts
    <2>2. ASSUME q = p PROVE ~present'[q]
        <3>1. CASE Withdraw(out)
            BY <1>1, <1>2, <2>2, <3>1 DEF Withdraw, InventoryMark, Reply, DecoratorType
        <3>2. CASE RetractInterface(out) \/ Forget(out)
            BY <1>2, <2>2, <3>2 DEF RetractInterface, Forget, Retracting
        <3> QED BY <1>4, <3>1, <3>2
    <2>3. CASE q = p
        BY <2>2, <2>3 DEF Hidden
    <2>4. CASE q # p
        BY <1>2, <2>1, <2>4, HiddenFrame DEF Elsewhere, Quiet
    <2> QED BY <2>3, <2>4
<1> QED BY <1>3, <1>4 DEF Continue

LEMMA NextRetracting ==
    ASSUME Inductive, AllOwned, Retracting, [Next]_vars
    PROVE  Retracting'
<1>1. /\ DecoratorType /\ Control
    BY DEF Inductive, TypeOK, Control
<1>2. CASE UNCHANGED decoratorVars
    BY <1>2 DEF Retracting
<1>3. ASSUME NEW out, NEW p \in Paths, Call(p, out) \/ RemoveForgotten(p, out)
      PROVE  Retracting'
    BY <1>3 DEF Retracting, Call, RemoveForgotten, Add, Remove, MarkPresent, MarkAbsent,
       Enter
<1>4. ASSUME NEW out, Continue(out)
      PROVE  Retracting'
    <2>1. CASE Withdraw(out)
        <3>1. running' = "retract" => present' = [present EXCEPT ![path] = FALSE]
                                      /\ path' = path
            BY <2>1 DEF Withdraw, InventoryMark, Done
        <3>2. path \in Paths
            BY <1>1, <2>1 DEF Withdraw, DecoratorType
        <3> QED BY <1>1, <3>1, <3>2 DEF Retracting, DecoratorType
    <2>2. CASE \/ PublishInterface(out) \/ Announce(out)
               \/ RetractInterface(out) \/ Forget(out)
        BY <2>2 DEF PublishInterface, Announce, RetractInterface, Forget, Done, Retracting
    <2> QED BY <1>4, <2>1, <2>2 DEF Continue
<1>5. CASE Construct' /\ UNCHANGED inventory
    BY <1>5 DEF Construct, Retracting
<1> QED BY <1>2, <1>3, <1>4, <1>5, DecoratorStep DEF Used

LEMMA RetractingHolds == Spec => [](Inductive /\ AllOwned /\ Retracting)
<1>1. Init => Inductive /\ AllOwned /\ Retracting
    BY InitInductive, InitOwned DEF Init, DecoratorInit, Construct, Retracting
<1>2. Inductive /\ AllOwned /\ Retracting /\ [Next]_vars
          => (Inductive /\ AllOwned /\ Retracting)'
    BY NextInductive, NextOwned, NextRetracting
<1> QED BY <1>1, <1>2, PTL DEF Spec

(* A step that writes one interface: contents at any time, a blank one to  *)
(* an item that is not present.                                            *)
LEMMA ItemWritten ==
    ASSUME NEW d \in Drives, NEW p \in Drives, NEW i \in Ifaces,
           Elsewhere(p), UNCHANGED present,
           \A j \in Ifaces \ {i} : held'[p][j] = held[p][j],
           \/ held'[p][i] = held[p][i]
           \/ held'[p][i] \in Contents(i)
           \/ held'[p][i] = Blank /\ ~present[p]
    PROVE  Item(d)!Next \/ UNCHANGED Item(d)!vars
<1> USE DEF Item!Next, Item!vars, Item!Describe, Item!Erase
<1>1. CASE d # p
    BY <1>1, Constants DEF Elsewhere, Untouched
<1>2. CASE d = p /\ i = "vini"
    BY <1>2 DEF Ifaces, Contents
<1>3. CASE d = p /\ i = "i2c"
    BY <1>3, MarkersAssumption DEF Ifaces, Contents
<1> QED BY <1>1, <1>2, <1>3 DEF Ifaces

LEMMA ItemInvoke ==
    ASSUME Inductive, NEW out, Invoke(out), NEW p \in Drives, p = cur, NEW d \in Drives
    PROVE  Item(d)!Next \/ UNCHANGED Item(d)!vars \/ InheritedErased(d)
<1>1. /\ Control /\ TypeOK /\ Tasking /\ p \in Paths /\ running = "none"
    BY Constants DEF Inductive, Control, TypeOK, Invoke
<1>2. ASSUME NEW i \in Ifaces, NEW iface \in Contents(i), Add(p, i, iface, out)
      PROVE  Item(d)!Next \/ UNCHANGED Item(d)!vars
    <2>1. /\ Elsewhere(p) /\ UNCHANGED present
          /\ \A j \in Ifaces \ {i} : held'[p][j] = held[p][j]
        BY <1>1, <1>2, AddFacts
    <2>2. held' = [held EXCEPT ![p][i] = iface] \/ UNCHANGED held
        BY <1>2, ContentsFacts DEF Add, InventoryAdd
    <2>3. held'[p][i] \in {held[p][i], iface}
        BY <1>1, <2>2, HeldFacts DEF Control
    <2> QED BY <1>2, <2>1, <2>3, ItemWritten
<1>3. ASSUME NEW i \in Ifaces, NEW iface \in Contents(i) \cup {Default},
             Remove(p, i, iface, out)
      PROVE  Item(d)!Next \/ UNCHANGED Item(d)!vars \/ InheritedErased(d)
    <2>1. /\ Elsewhere(p) /\ UNCHANGED present
          /\ \A j \in Ifaces \ {i} : held'[p][j] = held[p][j]
          /\ presentCache[p] = "present" => UNCHANGED held
          /\ presentCache[p] # "present" => held'[p][i] \in {held[p][i], Blank}
        BY <1>1, <1>3, RemoveFacts
    <2>2. CASE presentCache[p] = "present" \/ ~present[p]
        BY <1>3, <2>1, <2>2, ItemWritten
    <2>3. CASE presentCache[p] # "present" /\ present[p] /\ d = p
        BY <1>1, <2>1, <2>3 DEF InheritedErased
    <2>4. CASE d # p
        BY <2>1, <2>4, Constants DEF Elsewhere, Untouched, Item!vars
    <2> QED BY <2>2, <2>3, <2>4
<1>4. CASE MarkPresent(p, out) \/ MarkAbsent(p, out)
    BY <1>4 DEF MarkPresent, MarkAbsent, Item!vars
<1>5. /\ "vini" \in Ifaces /\ Contents("vini") = Serials
      /\ "i2c" \in Ifaces /\ Contents("i2c") = {Located}
    BY DEF Contents, Ifaces
<1>6. call \in {"addI2C", "addVINI"} => drive[p] \in Serials
    BY <1>1 DEF Tasking
<1>7. CASE \/ call = "removeVINI" /\ Remove(p, "vini", Known(drive[p]), out)
           \/ call = "removeI2C" /\ Remove(p, "i2c", Known(Located), out)
    <2>1. /\ Known(drive[p]) \in Contents("vini") \cup {Default}
          /\ Known(Located) \in Contents("i2c") \cup {Default}
        BY <1>1, <1>5 DEF Known, TypeOK
    <2> QED BY <1>3, <1>5, <1>7, <2>1
<1>8. CASE \/ call = "addI2C" /\ Add(p, "i2c", Located, out)
           \/ call = "addVINI" /\ Add(p, "vini", drive[p], out)
    BY <1>2, <1>5, <1>6, <1>8
<1> QED BY <1>4, <1>7, <1>8 DEF Invoke

LEMMA ItemContinue ==
    ASSUME Inductive, Retracting, ~Faults, NEW out, Continue(out), NEW p \in Drives,
           p = path, NEW d \in Drives
    PROVE  Item(d)!Next \/ UNCHANGED Item(d)!vars
<1>1. /\ Control /\ DecoratorType /\ p \in Paths /\ d \in Paths
    BY Constants DEF Inductive, Control, TypeOK
<1>2. CASE PublishInterface(out)
    <2> DEFINE f == First(todo)
    <2>1. PICK reply \in Outcomes : InventoryAdd(path, f, objectCache[path][f], reply)
        BY <1>2 DEF PublishInterface
    <2>2. UNCHANGED present /\ running = "publish" /\ todo # {}
        BY <1>2 DEF PublishInterface
    <2>3. f \in Ifaces /\ objectCache[p][f] \in Contents(f) \cup {Default}
        BY <1>1, <2>2, LoopFacts
    <2>4. Elsewhere(p)
        BY <1>1, <1>2, PublishFacts
    <2> HIDE DEF f
    <2>5. CASE objectCache[p][f] = Default
        BY <2>1, <2>2, <2>5 DEF InventoryAdd, Item!vars
    <2>6. CASE objectCache[p][f] \in Contents(f)
        <3>1. held' = [held EXCEPT ![p][f] = objectCache[p][f]] \/ UNCHANGED held
            BY <2>1, <2>3, <2>6, <1>1, AddOutcome
        <3>2. /\ \A j \in Ifaces \ {f} : held'[p][j] = held[p][j]
              /\ held'[p][f] \in {held[p][f], objectCache[p][f]}
            BY <1>1, <2>3, <2>6, <3>1, HeldFacts
        <3> QED BY <2>2, <2>3, <2>4, <2>6, <3>2, ItemWritten
    <2> QED BY <2>3, <2>5, <2>6
<1>3. CASE Announce(out)
    <2>1. UNCHANGED held /\ (present' = [present EXCEPT ![p] = TRUE] \/ UNCHANGED present)
        BY <1>3 DEF Announce, InventoryMark
    <2>2. Described(p)
        BY <1>3, AnnouncesDescribed
    <2>3. present'[d] = present[d] \/ (d = p /\ present'[d] = TRUE)
        BY <1>1, <2>1 DEF DecoratorType
    <2> QED BY <2>1, <2>2, <2>3
            DEF Item!Next, Item!vars, Item!Announce, Item!Complete, Described
<1>4. CASE Withdraw(out)
    <2>1. UNCHANGED held /\ (present' = [present EXCEPT ![p] = FALSE] \/ UNCHANGED present)
        BY <1>4 DEF Withdraw, InventoryMark
    <2>2. present'[d] = present[d] \/ present'[d] = FALSE
        BY <1>1, <2>1 DEF DecoratorType
    <2> QED BY <2>1, <2>2 DEF Item!Next, Item!vars, Item!Withdraw
<1>5. CASE RetractInterface(out)
    <2> DEFINE f == First(todo)
    <2>1. PICK reply \in Outcomes : InventoryRemove(path, f, reply)
        BY <1>5 DEF RetractInterface
    <2>2. UNCHANGED present /\ running = "retract" /\ todo # {}
        BY <1>5 DEF RetractInterface
    <2>3. f \in Ifaces
        BY <1>1, <2>2, LoopFacts
    <2>4. Elsewhere(p) /\ ~present[p]
        BY <1>1, <1>5, <2>2, WithdrawFacts DEF Retracting
    <2> HIDE DEF f
    <2>5. held' = [held EXCEPT ![p][f] = Blank] \/ UNCHANGED held
        BY <2>1, <2>3, <1>1, RemoveOutcome
    <2>6. /\ \A j \in Ifaces \ {f} : held'[p][j] = held[p][j]
          /\ held'[p][f] \in {held[p][f], Blank}
        BY <1>1, <2>3, <2>5, HeldFacts
    <2> QED BY <2>2, <2>3, <2>4, <2>6, ItemWritten
<1>6. CASE Forget(out)
    BY <1>6 DEF Forget, Item!vars
<1> QED BY <1>2, <1>3, <1>4, <1>5, <1>6 DEF Continue

LEMMA ItemStep ==
    ASSUME Inductive, Retracting, ~Faults, [Next]_vars, NEW d \in Drives
    PROVE  Item(d)!Next \/ UNCHANGED Item(d)!vars \/ InheritedErased(d)
<1>1. CASE UNCHANGED inventory
    BY <1>1 DEF Item!vars
<1>2. CASE CallInventory
    <2>1. PICK out \in Outcomes : Invoke(out) \/ Continue(out)
        BY <1>2 DEF CallInventory
    <2>2. CASE Invoke(out)
        <3>1. cur \in Drives
            BY <2>2 DEF Invoke
        <3>2. PICK p \in Drives : p = cur
            BY <3>1
        <3> QED BY <2>2, <3>2, ItemInvoke
    <2>3. CASE Continue(out)
        <3>1. path \in Drives
            BY <2>3, Constants DEF Continue, PublishInterface, Announce, Withdraw,
               RetractInterface, Forget, Inductive, LoopControl
        <3>2. PICK p \in Drives : p = path
            BY <3>1
        <3> QED BY <2>3, <3>2, ItemContinue
    <2> QED BY <2>1, <2>2, <2>3
<1>3. CASE ~CallInventory
    <2>1. UNCHANGED inventory
        BY <1>3 DEF Next, vars, Detect, DetectFlettCards, FlettCardUnplugged,
           DetectWilliwakasCard, WilliwakasCardUnplugged, NotifyWilliwakas, NotifyFlett,
           PollFails, Enters, Fetch, Stop, Environment
    <2> QED BY <1>1, <2>1
<1> QED BY <1>2, <1>3

(* ItemsKeepPromise: unless calls fail, each of Rainier's bays is a        *)
(* DriveItem for whatever the order in which its two connectors meet the   *)
(* drive and the power, also while the process is started again and again, *)
(* but for what it does to an item that is present and not marked yet.     *)
THEOREM DrivesKeepPromise ==
    ASSUME ~Faults
    PROVE  Spec => ItemsKeepPromise
<1> DEFINE Steps == \A d \in Drives : \/ Item(d)!Next
                                      \/ UNCHANGED Item(d)!vars
                                      \/ InheritedErased(d)
<1>1. Init => \A d \in Drives : Item(d)!Init
    BY Constants, MarkersAssumption DEF Init, DecoratorInit, Ifaces, Item!Init
<1>2. Inductive /\ Retracting /\ [Next]_vars => [Steps]_vars
    BY ItemStep
<1> QED BY <1>1, <1>2, RetractingHolds, PTL DEF Spec, ItemsKeepPromise

------------------------------------------------------------------------------
(* One life of the process.                                                *)

AllHidden == \A p \in Paths : Hidden(p)

LEMMA NextHidden ==
    ASSUME Inductive, AllOwned, Retracting, AllHidden, ~Faults, ~Restarts, [Next]_vars
    PROVE  AllHidden'
<1> SUFFICES ASSUME NEW q \in Paths PROVE Hidden(q)'
    BY DEF AllHidden
<1>1. Control /\ Hidden(q)
    BY DEF Inductive, TypeOK, Control, AllHidden
<1>2. CASE UNCHANGED decoratorVars
    BY <1>1, <1>2, SameCache DEF Hidden, Quiet
<1>3. ASSUME NEW out \in Outcomes, Used(out) PROVE Hidden(q)'
    BY <1>1, <1>3, HiddenCall, HiddenLoop DEF Used
<1> QED BY <1>2, <1>3, DecoratorStep

LEMMA HiddenHolds ==
    ASSUME ~Faults, ~Restarts
    PROVE  Spec => [](Inductive /\ Retracting /\ AllHidden)
<1>1. Init => AllHidden
    BY Constants DEF Init, DecoratorInit, AllHidden, Hidden, Construct
<1>2. Inductive /\ AllOwned /\ Retracting /\ AllHidden /\ [Next]_vars => AllHidden'
    BY NextHidden
<1> QED BY <1>1, <1>2, RetractingHolds, PTL DEF Spec

(* LostDriveIsAbsent: it takes a restart or a failing call to leave the    *)
(* item of a bay that both connectors have found empty present.            *)
THEOREM LostDriveIsAbsentHolds ==
    ASSUME ~Faults, ~Restarts
    PROVE  Spec => []LostDriveIsAbsent
<1>1. Inductive /\ AllHidden => LostDriveIsAbsent
    <2> SUFFICES ASSUME Inductive, AllHidden, NEW d \in Drives, Watched(d),
                        BothAre(d, "depopulated")
                 PROVE  ~present[d]
        BY DEF LostDriveIsAbsent
    <2>1. running = "none" /\ presentCache[d] # "present"
        BY DEF Inductive, Bay, Marked, Tasking, Watched, BothAre
    <2> QED BY <2>1, Constants DEF AllHidden, Hidden, Quiet
<1> QED BY <1>1, HiddenHolds, PTL

(* ... so that it takes the same for a drive that is present to be         *)
(* described in part: until then nothing is inherited.                     *)
THEOREM PresentIsDescribed ==
    ASSUME ~Faults, ~Restarts
    PROVE  Spec => [](\A d \in Drives : Item(d)!AnnouncedIsDescribed)
<1> DEFINE Promise == \A d \in Drives : Item(d)!AnnouncedIsDescribed
<1> USE DEF Item!AnnouncedIsDescribed, Item!Complete
<1>1. Init => Promise
    BY Constants DEF Init, DecoratorInit
<1>2. Inductive /\ Retracting /\ AllHidden /\ Promise /\ [Next]_vars => Promise'
    <2> SUFFICES ASSUME Inductive, Retracting, AllHidden, Promise, [Next]_vars,
                        NEW d \in Drives
                 PROVE  Item(d)!AnnouncedIsDescribed'
        OBVIOUS
    <2>1. ~InheritedErased(d)
        BY Constants DEF AllHidden, Hidden, Quiet, InheritedErased
    <2>2. Item(d)!Next \/ UNCHANGED Item(d)!vars
        BY <2>1, ItemStep
    <2> QED BY <2>2 DEF Item!Next, Item!vars, Item!Describe, Item!Announce,
               Item!Withdraw, Item!Erase
<1> QED BY <1>1, <1>2, HiddenHolds, PTL DEF Spec
==============================================================================
