-------------------------- MODULE RainierDrives_proofs --------------------------
(***************************************************************************)
(* Proofs about RainierDrives for any number of bays, any serial numbers,  *)
(* with and without failing calls and restarts.  What the decorator does   *)
(* is taken from the step lemmas of PublishWhenPresent_proofs.             *)
(***************************************************************************)
EXTENDS RainierDrives, PublishWhenPresent_proofs

(* Which task makes which call, and for whom the decorator runs its loop.  *)
Tasking ==
    /\ running # "none" =>
           /\ path = cur /\ cur \in Drives
           /\ call = IF running = "publish" THEN "markPresent" ELSE "markAbsent"
    /\ task \in {"off", "idle"} => call = "none"
    /\ task = "flett" => call \notin {"none", "markPresent", "markAbsent"}
    /\ task = "williwakas" =>
           cur \in wSinks /\ call \in {"markPresent", "markAbsent"}
    /\ task = "flettCard" => call \in {"removeVINI", "removeI2C"}
    /\ task = "williwakasCard" => call \in {"none", "markAbsent"}
    /\ call \in {"fetch", "addI2C", "addVINI", "removeI2C"} => cur \in Drives
    /\ call \in {"addI2C", "addVINI"} => drive[cur] \in Serials

(* The mark of an item follows the connector of Williwakas, and before the *)
(* pollers of Williwakas are registered no item is marked present.         *)
Marked(d) ==
    /\ wconn[d] = "populated" =>
           \/ presentCache[d] = "present"
           \/ cur = d /\ task = "williwakas" /\ call = "markAbsent"
    /\ (d \in wSinks /\ wconn[d] # "populated") =>
           presentCache[d] # "present" \/ (cur = d /\ running = "publish")
    /\ (cur = d /\ call = "markPresent") => wconn[d] # "populated"
    /\ task \in {"off"} \cup Cards =>
           wconn[d] # "populated" /\ d \notin wSinks /\ presentCache[d] # "present"

Same(d, i) == held[d][i] = objectCache[d][i]

(* WatchedMirrorsCache, and the way there.                                 *)
Mirrored(d) ==
    /\ (/\ d \in wSinks \cap fSinks /\ BothAre(d, "populated")
        /\ ~(cur = d /\ task \in {"flett", "williwakas"})) =>
           \A i \in Cached(d) : Same(d, i)
    /\ (cur = d /\ call = "addVINI" /\ wconn[d] = "populated") => Same(d, "i2c")
    /\ (cur = d /\ call \in {"fetch", "addI2C", "addVINI"}) =>
           fconn[d] # "populated"

(* BothDepopulatedIsBlank, and the way there.                              *)
Cleared(d, i) ==
    /\ i \notin Cached(d) => held[d][i] = Blank
    /\ (presentCache[d] # "present" /\ Quiet(d)) => held[d][i] = Blank
    /\ (running = "retract" /\ path = d /\ i \notin todo) => held[d][i] = Blank

Emptied(d) ==
    /\ fconn[d] = "depopulated" => \A i \in Ifaces : Cleared(d, i)
    /\ (cur = d /\ call = "removeI2C") => Cleared(d, "vini")

(* AnnouncedIsDescribed, and the way there: both interfaces are cached, or *)
(* none is, and what is published next has contents.                       *)
Whole(d) ==
    /\ (cur = d /\ call = "addVINI") => "i2c" \in Cached(d)
    /\ (cur = d /\ call = "removeI2C" /\ presentCache[d] = "present") =>
           "vini" \in Cached(d)
    /\ \/ Cached(d) \in {{}, Ifaces}
       \/ cur = d /\ call = "addVINI"
       \/ cur = d /\ call = "removeI2C" /\ presentCache[d] = "present"
    /\ \/ presentCache[d] # "present" /\ Quiet(d)
       \/ running = "publish" /\ path = d
       => \A i \in Ifaces : objectCache[d][i] # Default

Bay(d) == Marked(d) /\ Mirrored(d) /\ (~Faults => Emptied(d) /\ Whole(d))

Inductive == TypeOK /\ LoopControl /\ Tasking /\ \A d \in Drives : Bay(d)

USE DEF inventory, caches, loop, decoratorVars, hardware, doing, sinks, connectors

------------------------------------------------------------------------------
LEMMA Constants ==
    /\ Paths = Drives /\ Drives = 0 .. NumDrives - 1 /\ NumDrives \in Nat
    /\ None \notin Serials
BY BaysAssumption, NoneAssumption DEF Drives

(* A bay that no handler works on before a step, that the step does not    *)
(* write, and that it does not leave to a handler that builds on the state *)
(* of its connectors.                                                      *)
Kept(d) ==
    /\ held'[d] = held[d] /\ objectCache'[d] = objectCache[d]
    /\ presentCache'[d] = presentCache[d]
    /\ wconn'[d] = wconn[d] /\ fconn'[d] = fconn[d]

Entered(d) ==
    /\ running' # "none" => path' # d
    /\ cur' = d => /\ call' \notin {"addI2C", "addVINI", "removeI2C"}
                   /\ call' = "markPresent" => wconn[d] # "populated"
                   /\ call' = "fetch" => fconn[d] # "populated"

LEMMA BayFrame ==
    ASSUME Tasking, NEW d \in Drives, Bay(d), cur # d \/ call = "none",
           Kept(d), Entered(d), wSinks' \subseteq wSinks, fSinks' \subseteq fSinks,
           task' \in {"off"} \cup Cards => task \in {"off"} \cup Cards
    PROVE  Bay(d)'
<1>1. /\ Cached(d)' = Cached(d) /\ Cached(d) \subseteq Ifaces
      /\ \A i \in Ifaces : Same(d, i)' = Same(d, i)
    BY DEF Kept, Cached, Same
<1>2. Quiet(d) /\ Quiet(d)' /\ ~(running' # "none" /\ path' = d)
    BY DEF Tasking, Entered, Quiet
<1>3. ~(cur = d /\ task \in {"flett", "williwakas"})
    BY DEF Tasking
<1>4. ~(cur = d /\ running = "publish")
    BY DEF Tasking
<1>5. Marked(d)'
    BY <1>4 DEF Bay, Marked, Kept, Entered
<1>6. Mirrored(d)'
    BY <1>1, <1>3 DEF Bay, Mirrored, BothAre, Kept, Entered
<1>7. ASSUME ~Faults PROVE Emptied(d)'
    BY <1>1, <1>2, <1>7 DEF Bay, Emptied, Cleared, Kept, Entered
<1>8. ASSUME ~Faults PROVE Whole(d)'
    BY <1>1, <1>2, <1>8 DEF Bay, Whole, Kept, Entered
<1> QED BY <1>5, <1>6, <1>7, <1>8 DEF Bay

------------------------------------------------------------------------------
(* The actions that make no call.                                          *)

LEMMA InitInductive == Init => Inductive
<1> SUFFICES ASSUME Init PROVE Inductive
    OBVIOUS
<1>1. Control /\ DecoratorInit
    BY InitControl DEF Init
<1>2. TypeOK
    BY <1>1, Constants DEF Init, Control, TypeOK, Fresh, ConnectorState, Tasks, Drives
<1>3. Tasking
    BY <1>1 DEF Init, Tasking, DecoratorInit, Construct
<1>4. ASSUME NEW d \in Drives PROVE Bay(d)
    <2>1. /\ presentCache[d] = NoEntry /\ running = "none" /\ Cached(d) = {}
          /\ \A i \in Ifaces : held[d][i] = Blank /\ objectCache[d][i] = NoEntry
        BY <1>1, Constants DEF DecoratorInit, Construct, Empty, Cached
    <2>2. /\ wconn[d] = "uninitialised" /\ fconn[d] = "uninitialised"
          /\ wSinks = {} /\ call = "none"
        BY DEF Init, Fresh
    <2>3. NoEntry # "present" /\ NoEntry # Default
        BY <1>1, MarkersAssumption DEF DecoratorInit
    <2> QED BY <2>1, <2>2, <2>3 DEF Bay, Marked, Mirrored, BothAre, Emptied, Whole
<1> QED BY <1>1, <1>2, <1>3, <1>4 DEF Inductive, Control

LEMMA SameDecorator ==
    ASSUME Inductive, UNCHANGED decoratorVars
    PROVE  DecoratorType' /\ LoopControl'
BY SameCache DEF Inductive, TypeOK, DecoratorType, LoopControl

LEMMA DetectStep ==
    ASSUME Inductive, Detect
    PROVE  Inductive'
<1>1. TypeOK /\ Tasking /\ \A d \in Drives : Bay(d) /\ Marked(d)
    BY DEF Inductive, Bay
<1>2. UNCHANGED <<decoratorVars, hardware, drive>>
    BY DEF Detect, DetectFlettCards, FlettCardUnplugged, DetectWilliwakasCard,
           WilliwakasCardUnplugged
<1>3. DecoratorType' /\ LoopControl' /\ \A d : Cached(d)' = Cached(d)
    BY <1>2, SameDecorator, SameCache
<1>4. CASE DetectFlettCards
    <2>1. /\ call = "none" /\ task = "off" /\ running = "none"
          /\ fSinks' \in {Drives, {}} /\ UNCHANGED <<wconn, fconn, wSinks>>
        BY <1>1, <1>4 DEF DetectFlettCards, Tasking
    <2>2. \/ task' = "williwakasCard" /\ UNCHANGED <<call, cur>>
          \/ task' = "flettCard" /\ call' = "removeVINI" /\ cur' = 0
        BY <1>4 DEF DetectFlettCards, UnplugCard
    <2>3. TypeOK'
        BY <1>1, <1>2, <1>3, <2>1, <2>2, Constants
        DEF TypeOK, Tasks, Cards, Plugs, Unplugs
    <2>4. Tasking'
        BY <1>1, <1>2, <2>1, <2>2 DEF Tasking
    <2>5. ASSUME NEW d \in Drives PROVE Bay(d)'
        BY <1>1, <1>2, <1>3, <2>1, <2>2, <2>5 DEF Bay, Marked, Mirrored, BothAre, Same,
           Emptied, Cleared, Whole, Quiet, Cards
    <2> QED BY <1>3, <2>3, <2>4, <2>5 DEF Inductive
<1>5. CASE FlettCardUnplugged
    <2>1. /\ task = "flettCard" /\ cur = NumDrives /\ call \in {"removeVINI", "removeI2C"}
          /\ task' = "williwakasCard" /\ call' = "none" /\ cur' = 0 /\ running = "none"
          /\ UNCHANGED <<wSinks, fSinks, wconn>>
          /\ \A d \in Drives : cur # d
        BY <1>1, <1>5, Constants DEF FlettCardUnplugged, Tasking
    <2>2. /\ fconn' \in [Drives -> ConnectorState]
          /\ \A d \in Drives : fconn'[d] = "uninitialised"
        BY <1>5 DEF FlettCardUnplugged, Fresh, ConnectorState
    <2>3. TypeOK'
        BY <1>1, <1>2, <1>3, <2>1, <2>2, Constants
        DEF TypeOK, Tasks, Cards, Plugs, Unplugs
    <2>4. Tasking'
        BY <1>1, <1>2, <2>1 DEF Tasking
    <2>5. ASSUME NEW d \in Drives PROVE Bay(d)'
        BY <1>1, <1>2, <1>3, <2>1, <2>2, <2>5 DEF Bay, Marked, Mirrored, BothAre, Same,
           Emptied, Cleared, Whole, Quiet, Cards
    <2> QED BY <1>3, <2>3, <2>4, <2>5 DEF Inductive
<1>6. CASE DetectWilliwakasCard
    <2>1. /\ task = "williwakasCard" /\ call = "none" /\ running = "none"
          /\ UNCHANGED <<fSinks, wconn, fconn>>
        BY <1>1, <1>6 DEF DetectWilliwakasCard, Tasking
    <2>2. \/ wSinks' \in {Drives, {}} /\ task' = "idle" /\ UNCHANGED <<call, cur>>
          \/ /\ task' = "williwakasCard" /\ call' = "markAbsent" /\ cur' = 0
             /\ UNCHANGED wSinks
        BY <1>6 DEF DetectWilliwakasCard, UnplugCard
    <2>3. TypeOK'
        <3>1. /\ task' \in Tasks /\ cur' \in 0 .. NumDrives
              /\ call' \in Plugs \cup Unplugs \cup {"none"}
            BY <1>1, <2>2, Constants DEF TypeOK, Tasks, Cards, Plugs, Unplugs
        <3>2. wSinks' \subseteq Drives
            BY <1>1, <2>2 DEF TypeOK
        <3> QED BY <1>1, <1>2, <1>3, <2>1, <3>1, <3>2 DEF TypeOK
    <2>4. Tasking'
        BY <1>1, <1>2, <2>1, <2>2 DEF Tasking
    <2>5. ASSUME NEW d \in Drives PROVE Bay(d)'
        BY <1>1, <1>2, <1>3, <2>1, <2>2, <2>5 DEF Bay, Marked, Mirrored, BothAre, Same,
           Emptied, Cleared, Whole, Quiet, Cards
    <2> QED BY <1>3, <2>3, <2>4, <2>5 DEF Inductive
<1>7. CASE WilliwakasCardUnplugged
    <2>1. /\ task = "williwakasCard" /\ cur = NumDrives /\ call \in {"none", "markAbsent"}
          /\ task' = "idle" /\ call' = "none" /\ cur' = 0 /\ running = "none"
          /\ UNCHANGED <<wSinks, fSinks, fconn>>
          /\ \A d \in Drives : cur # d
        BY <1>1, <1>7, Constants DEF WilliwakasCardUnplugged, Tasking
    <2>2. /\ wconn' \in [Drives -> ConnectorState]
          /\ \A d \in Drives : wconn'[d] = "uninitialised"
        BY <1>7 DEF WilliwakasCardUnplugged, Fresh, ConnectorState
    <2>3. TypeOK'
        BY <1>1, <1>2, <1>3, <2>1, <2>2, Constants
        DEF TypeOK, Tasks, Cards, Plugs, Unplugs
    <2>4. Tasking'
        BY <1>1, <1>2, <2>1 DEF Tasking
    <2>5. ASSUME NEW d \in Drives PROVE Bay(d)'
        BY <1>1, <1>2, <1>3, <2>1, <2>2, <2>5 DEF Bay, Marked, Mirrored, BothAre, Same,
           Emptied, Cleared, Whole, Quiet, Cards
    <2> QED BY <1>3, <2>3, <2>4, <2>5 DEF Inductive
<1> QED BY <1>4, <1>5, <1>6, <1>7 DEF Detect

(* What a poll starts, or a poller that is disabled ends.                  *)
LEMMA PollStep ==
    ASSUME Inductive, NEW d \in Drives,
           NotifyWilliwakas(d) \/ NotifyFlett(d) \/ PollFails(d)
    PROVE  Inductive'
<1>1. TypeOK /\ Tasking /\ \A b \in Drives : Bay(b)
    BY DEF Inductive
<1>2. /\ UNCHANGED <<decoratorVars, hardware, wconn, fconn>>
      /\ task = "idle" /\ call = "none" /\ running = "none"
    BY <1>1 DEF NotifyWilliwakas, NotifyFlett, PollFails, Enters, Disable, Tasking
<1>3. DecoratorType' /\ LoopControl'
    BY <1>2, SameDecorator
<1>4. CASE NotifyWilliwakas(d)
    <2>1. /\ task' = "williwakas" /\ cur' = d /\ UNCHANGED <<wSinks, fSinks, drive>>
          /\ call' = IF bay[d] # None THEN "markPresent" ELSE "markAbsent"
          /\ wconn[d] # IF bay[d] # None THEN "populated" ELSE "depopulated"
          /\ d \in wSinks
        BY <1>4 DEF NotifyWilliwakas, Enters
    <2>2. TypeOK'
        BY <1>1, <1>2, <1>3, <2>1, Constants DEF TypeOK, Tasks, Plugs, Unplugs
    <2>3. Tasking'
        BY <1>2, <2>1 DEF Tasking
    <2>4. ASSUME NEW b \in Drives PROVE Bay(b)'
        BY <1>1, <1>2, <2>1, BayFrame DEF Kept, Entered, Cards
    <2> QED BY <1>3, <2>2, <2>3, <2>4 DEF Inductive
<1>5. CASE NotifyFlett(d)
    <2>1. /\ task' = "flett" /\ cur' = d /\ UNCHANGED <<wSinks, fSinks>>
          /\ call' = IF Responsive(d) THEN "fetch" ELSE "removeVINI"
          /\ fconn[d] # IF Responsive(d) THEN "populated" ELSE "depopulated"
          /\ drive' \in {drive, [drive EXCEPT ![d] = None]}
        BY <1>5 DEF NotifyFlett, Enters
    <2>2. drive' \in [Drives -> Serials \cup {None}]
        BY <1>1, <2>1 DEF TypeOK
    <2>3. TypeOK'
        BY <1>1, <1>2, <1>3, <2>1, <2>2, Constants DEF TypeOK, Tasks, Plugs, Unplugs
    <2>4. Tasking'
        BY <1>2, <2>1 DEF Tasking
    <2>5. ASSUME NEW b \in Drives PROVE Bay(b)'
        BY <1>1, <1>2, <2>1, BayFrame DEF Kept, Entered, Cards
    <2> QED BY <1>3, <2>3, <2>4, <2>5 DEF Inductive
<1>6. CASE PollFails(d)
    <2>1. /\ task' = "idle" /\ call' = "none" /\ cur' = 0 /\ UNCHANGED drive
          /\ wSinks' \subseteq wSinks /\ fSinks' \subseteq fSinks
        BY <1>6 DEF PollFails, Disable
    <2>2. TypeOK'
        BY <1>1, <1>2, <1>3, <2>1, Constants DEF TypeOK, Tasks, Plugs, Unplugs
    <2>3. Tasking'
        BY <1>2, <2>1 DEF Tasking
    <2>4. ASSUME NEW b \in Drives PROVE Bay(b)'
        BY <1>1, <1>2, <2>1, BayFrame DEF Kept, Entered, Cards
    <2> QED BY <1>3, <2>2, <2>3, <2>4 DEF Inductive
<1> QED BY <1>4, <1>5, <1>6

LEMMA FetchStep ==
    ASSUME Inductive, Fetch
    PROVE  Inductive'
<1>1. TypeOK /\ Tasking /\ \A d \in Drives : Bay(d) /\ Mirrored(d)
    BY DEF Inductive, Bay
<1>2. /\ UNCHANGED <<decoratorVars, hardware, wconn, fconn>>
      /\ call = "fetch" /\ running = "none" /\ cur \in Drives /\ task = "flett"
    BY <1>1 DEF Fetch, Disable, Tasking, TypeOK, Tasks, Cards
<1>3. DecoratorType' /\ LoopControl' /\ \A d : Cached(d)' = Cached(d)
    BY <1>2, SameDecorator, SameCache
<1>4. CASE Responsive(cur)
    <2>1. /\ drive' = [drive EXCEPT ![cur] = bay[cur]] /\ bay[cur] \in Serials
          /\ call' = "addI2C" /\ UNCHANGED <<task, cur, wSinks, fSinks>>
        BY <1>1, <1>2, <1>4 DEF Fetch, Responsive, TypeOK
    <2>2. drive' \in [Drives -> Serials \cup {None}] /\ drive'[cur] \in Serials
        BY <1>1, <1>2, <2>1 DEF TypeOK
    <2>3. TypeOK'
        BY <1>1, <1>2, <1>3, <2>1, <2>2, Constants DEF TypeOK, Plugs
    <2>4. Tasking'
        BY <1>1, <1>2, <2>1, <2>2 DEF Tasking
    <2>5. ASSUME NEW d \in Drives PROVE Bay(d)'
        BY <1>1, <1>2, <1>3, <2>1, <2>5 DEF Bay, Marked, Mirrored, BothAre, Same,
           Emptied, Cleared, Whole, Quiet
    <2> QED BY <1>3, <2>3, <2>4, <2>5 DEF Inductive
<1>5. CASE ~Responsive(cur)
    <2>1. /\ task' = "idle" /\ call' = "none" /\ cur' = 0 /\ UNCHANGED <<drive, wSinks>>
          /\ fSinks' = fSinks \ {cur}
        BY <1>5 DEF Fetch, Disable
    <2>2. TypeOK'
        BY <1>1, <1>2, <1>3, <2>1, Constants DEF TypeOK, Tasks, Plugs, Unplugs
    <2>3. Tasking'
        BY <1>2, <2>1 DEF Tasking
    <2>4. ASSUME NEW d \in Drives PROVE Bay(d)'
        BY <1>1, <1>2, <1>3, <2>1, <2>4 DEF Bay, Marked, Mirrored, BothAre, Same,
           Emptied, Cleared, Whole, Quiet, Cards
    <2> QED BY <1>3, <2>2, <2>3, <2>4 DEF Inductive
<1> QED BY <1>4, <1>5

LEMMA StopStep ==
    ASSUME Inductive, Stop
    PROVE  Inductive'
<1>1. /\ running' = "none" /\ todo' = {} /\ task' = "off" /\ call' = "none" /\ cur' = 0
      /\ wSinks' = {} /\ fSinks' = {} /\ UNCHANGED <<present, held, bay, hostOn>>
    BY DEF Stop
<1>2. /\ \A d \in Drives : wconn'[d] = "uninitialised" /\ fconn'[d] = "uninitialised"
      /\ wconn' \in [Drives -> ConnectorState] /\ fconn' \in [Drives -> ConnectorState]
      /\ drive' \in [Drives -> Serials \cup {None}]
    BY DEF Stop, Fresh, ConnectorState
<1>3. /\ \A d \in Drives : presentCache'[d] = NoEntry
      /\ presentCache' \in [Paths -> {"present", "absent", NoEntry}]
      /\ objectCache' \in [Paths -> [Ifaces -> Serials \cup {Located, Default, NoEntry}]]
      /\ \A d \in Drives : \A i \in Ifaces : objectCache'[d][i] = NoEntry
    BY Constants DEF Stop, Empty
<1>4. DecoratorType' /\ LoopControl'
    BY <1>1, <1>3, Constants DEF Inductive, TypeOK, DecoratorType, LoopControl
<1>5. TypeOK'
    BY <1>1, <1>2, <1>4, Constants DEF Inductive, TypeOK, Tasks, Plugs, Unplugs
<1>6. Tasking'
    BY <1>1 DEF Tasking
<1>7. ASSUME NEW d \in Drives PROVE Bay(d)'
    <2>1. NoEntry # "present" /\ NoEntry # Default /\ Cached(d)' = {}
        BY <1>3, MarkersAssumption DEF Cached
    <2> QED BY <1>1, <1>2, <1>3, <2>1
            DEF Bay, Marked, Mirrored, BothAre, Emptied, Whole
<1> QED BY <1>4, <1>5, <1>6, <1>7 DEF Inductive

LEMMA EnvironmentStep ==
    ASSUME Inductive, Environment
    PROVE  Inductive'
<1>1. TypeOK /\ Tasking /\ \A d \in Drives : Bay(d)
    BY DEF Inductive
<1>2. UNCHANGED <<decoratorVars, doing, sinks, connectors>>
    BY DEF Environment
<1>3. DecoratorType' /\ LoopControl' /\ \A d : Cached(d)' = Cached(d)
    BY <1>2, SameDecorator, SameCache
<1>4. bay' \in [Drives -> Serials \cup {None}] /\ hostOn' \in BOOLEAN
    BY <1>1 DEF Environment, Pull, Insert, TypeOK
<1>5. TypeOK' /\ Tasking'
    BY <1>1, <1>2, <1>3, <1>4 DEF TypeOK, Tasking
<1>6. ASSUME NEW d \in Drives PROVE Bay(d)'
    BY <1>1, <1>2, <1>3 DEF Bay, Marked, Mirrored, BothAre, Same, Emptied, Cleared,
       Whole, Quiet
<1> QED BY <1>3, <1>5, <1>6 DEF Inductive

------------------------------------------------------------------------------
(* What the decorator's operations do to their item.                       *)

Elsewhere(p) == \A q \in Paths \ {p} : Untouched(q)

LEMMA MarkFacts ==
    ASSUME Control, running = "none", NEW p \in Paths, NEW out, NEW mark, NEW name,
           \/ MarkPresent(p, out) /\ mark = "present" /\ name = "publish"
           \/ MarkAbsent(p, out) /\ mark = "absent" /\ name = "withdraw"
    PROVE  /\ Control' /\ Elsewhere(p)
           /\ UNCHANGED <<held, objectCache>> /\ presentCache'[p] = mark
           /\ \/ /\ out = "busy" /\ presentCache[p] # mark
                 /\ running' = name /\ path' = p /\ todo' = Cached(p)
              \/ /\ out = "ok" /\ UNCHANGED loop
                 /\ presentCache[p] = mark \/ Cached(p) = {}
<1>1. Control'
    BY MarkStep
<1>2. /\ presentCache' = [presentCache EXCEPT ![p] = mark]
      /\ Enter(p, name, presentCache[p] # mark, out)
      /\ UNCHANGED <<present, held, objectCache>>
    BY DEF MarkPresent, MarkAbsent
<1>3. presentCache'[p] = mark /\ Elsewhere(p)
    BY <1>2 DEF Control, DecoratorType, Elsewhere, Untouched
<1>4. \/ /\ out = "busy" /\ presentCache[p] # mark
         /\ running' = name /\ path' = p /\ todo' = Cached(p)
      \/ /\ out = "ok" /\ UNCHANGED loop
         /\ presentCache[p] = mark \/ Cached(p) = {}
    BY <1>2 DEF Enter
<1> QED BY <1>1, <1>2, <1>3, <1>4

LEMMA AddFacts ==
    ASSUME Control, running = "none", NEW p \in Paths, NEW i \in Ifaces,
           NEW iface \in Contents(i), NEW out, Add(p, i, iface, out)
    PROVE  /\ Control' /\ Elsewhere(p) /\ UNCHANGED <<present, presentCache, loop>>
           /\ objectCache'[p][i] = iface /\ Cached(p)' = Cached(p) \cup {i}
           /\ \A j \in Ifaces \ {i} : /\ objectCache'[p][j] = objectCache[p][j]
                                      /\ held'[p][j] = held[p][j]
           /\ out \in {"ok", "noSuchItem"} /\ (~Faults => out = "ok")
           /\ (presentCache[p] = "present" /\ out = "ok") => held'[p][i] = iface
           /\ presentCache[p] # "present" => UNCHANGED held
<1>1. Control' /\ DecoratorType /\ iface # Default
    BY AddStep, ContentsFacts DEF Control
<1>2. /\ objectCache' = [objectCache EXCEPT ![p][i] = iface]
      /\ UNCHANGED <<present, presentCache, running, path, todo>>
    BY DEF Add
<1>3. /\ objectCache'[p][i] = iface /\ Cached(p)' = Cached(p) \cup {i}
      /\ \A j \in Ifaces \ {i} : objectCache'[p][j] = objectCache[p][j]
      /\ \A q \in Paths \ {p} : objectCache'[q] = objectCache[q]
    BY <1>1, <1>2, CacheFacts
<1>4. CASE presentCache[p] = "present"
    <2>1. InventoryAdd(p, i, iface, out)
        BY <1>4 DEF Add
    <2>2. /\ held' = [held EXCEPT ![p][i] = iface] \/ UNCHANGED held
          /\ out = "ok" => held' = [held EXCEPT ![p][i] = iface]
          /\ ~Faults => out = "ok"
        BY <2>1, AddOutcome
    <2>3. /\ \A q \in Paths \ {p} : held'[q] = held[q]
          /\ \A j \in Ifaces \ {i} : held'[p][j] = held[p][j]
          /\ out = "ok" => held'[p][i] = iface
        BY <1>1, <2>2, HeldFacts
    <2>4. out \in {"ok", "noSuchItem"}
        BY <1>1, <2>1 DEF InventoryAdd, Reply
    <2> QED BY <1>1, <1>2, <1>3, <1>4, <2>2, <2>3, <2>4 DEF Elsewhere, Untouched
<1>5. CASE presentCache[p] # "present"
    <2>1. out = "ok" /\ UNCHANGED held
        BY <1>5 DEF Add
    <2> QED BY <1>1, <1>2, <1>3, <1>5, <2>1 DEF Elsewhere, Untouched
<1> QED BY <1>4, <1>5

LEMMA RemoveFacts ==
    ASSUME Control, running = "none", NEW p \in Paths, NEW i \in Ifaces,
           NEW iface \in Contents(i) \cup {Default}, NEW out, Remove(p, i, iface, out)
    PROVE  /\ Control' /\ Elsewhere(p) /\ UNCHANGED <<present, presentCache, loop>>
           /\ \A j \in Ifaces \ {i} : /\ objectCache'[p][j] = objectCache[p][j]
                                      /\ held'[p][j] = held[p][j]
           /\ out \in {"ok", "noSuchItem"} /\ (~Faults => out = "ok")
           /\ presentCache[p] = "present" =>
                  /\ out = "ok" /\ UNCHANGED held
                  /\ Cached(p)' = Cached(p) \cup {i} /\ objectCache'[p][i] = iface
           /\ presentCache[p] # "present" =>
                  /\ UNCHANGED objectCache /\ held'[p][i] \in {held[p][i], Blank}
                  /\ out = "ok" => held'[p][i] = Blank
<1>1. Control' /\ DecoratorType
    BY RemoveStep DEF Control
<1>2. UNCHANGED <<present, presentCache, running, path, todo>>
    BY DEF Remove
<1>3. CASE presentCache[p] = "present"
    <2>1. out = "ok" /\ UNCHANGED held /\ objectCache' = [objectCache EXCEPT ![p][i] = iface]
        BY <1>3 DEF Remove
    <2>2. /\ Cached(p)' = Cached(p) \cup {i} /\ objectCache'[p][i] = iface
          /\ \A j \in Ifaces \ {i} : objectCache'[p][j] = objectCache[p][j]
          /\ \A q \in Paths \ {p} : objectCache'[q] = objectCache[q]
        BY <1>1, <2>1, CacheFacts
    <2> QED BY <1>1, <1>2, <1>3, <2>1, <2>2 DEF Elsewhere, Untouched
<1>4. CASE presentCache[p] # "present"
    <2>1. InventoryRemove(p, i, out) /\ UNCHANGED objectCache
        BY <1>4 DEF Remove
    <2>2. /\ held' = [held EXCEPT ![p][i] = Blank] \/ UNCHANGED held
          /\ out = "ok" => held' = [held EXCEPT ![p][i] = Blank]
          /\ ~Faults => out = "ok"
        BY <2>1, RemoveOutcome
    <2>3. /\ \A q \in Paths \ {p} : held'[q] = held[q]
          /\ \A j \in Ifaces \ {i} : held'[p][j] = held[p][j]
          /\ held'[p][i] \in {held[p][i], Blank}
          /\ out = "ok" => held'[p][i] = Blank
        BY <1>1, <2>2, HeldFacts
    <2>4. out \in {"ok", "noSuchItem"}
        BY <2>1 DEF InventoryRemove, Reply
    <2> QED BY <1>1, <1>2, <1>4, <2>1, <2>2, <2>3, <2>4 DEF Elsewhere, Untouched
<1> QED BY <1>3, <1>4

(* A step of markPresent()'s loop ends it when it fails, and when the item *)
(* is announced.                                                           *)
LEMMA PublishFacts ==
    ASSUME Control, NEW p \in Paths, p = path, NEW out,
           PublishInterface(out) \/ Announce(out)
    PROVE  /\ Control' /\ Elsewhere(p) /\ running = "publish"
           /\ UNCHANGED <<presentCache, objectCache>>
           /\ \/ /\ out = "busy" /\ UNCHANGED <<running, path>>
                 /\ todo' \subseteq todo
                 /\ todo # {}
              \/ out = "ok" /\ running' = "none" /\ todo = {} /\ UNCHANGED held
              \/ /\ out \in {"noSuchItem", "badAccess"} /\ running' = "none"
                 /\ ~Faults => \E i \in Ifaces : objectCache[p][i] = Default
           /\ \A i \in Ifaces \ Cached(p) : held'[p][i] = held[p][i]
<1>1. CASE PublishInterface(out)
    <2> DEFINE f == First(todo)
    <2>1. PICK reply \in Outcomes :
              /\ InventoryAdd(path, f, objectCache[path][f], reply)
              /\ IF reply = "ok"
                 THEN out = "busy" /\ todo' = todo \ {f} /\ UNCHANGED <<running, path>>
                 ELSE out = reply /\ Done
        BY <1>1 DEF PublishInterface
    <2>2. /\ running = "publish" /\ todo # {} /\ DecoratorType /\ Control'
          /\ UNCHANGED <<present, presentCache, objectCache>>
        BY <1>1, PublishStep DEF PublishInterface, Control
    <2>3. /\ f \in Ifaces /\ f \in Cached(p)
          /\ objectCache[p][f] \in Contents(f) \cup {Default}
        BY <2>2, LoopFacts
    <2> HIDE DEF f
    <2>4. /\ \A q \in Paths \ {p} : held'[q] = held[q]
          /\ \A j \in Ifaces \ {f} : held'[p][j] = held[p][j]
          /\ reply \in {"ok", "noSuchItem", "badAccess"}
          /\ (reply # "ok" /\ ~Faults) => objectCache[p][f] = Default
        <3>1. CASE objectCache[p][f] = Default
            BY <2>1, <3>1 DEF InventoryAdd
        <3>2. CASE objectCache[p][f] \in Contents(f)
            <4>1. /\ held' = [held EXCEPT ![p][f] = objectCache[p][f]] \/ UNCHANGED held
                  /\ ~Faults => reply = "ok"
                BY <2>1, <2>3, <3>2, AddOutcome
            <4>2. reply \in {"ok", "noSuchItem", "badAccess"}
                BY <2>1 DEF InventoryAdd, Reply
            <4> QED BY <2>2, <2>3, <3>2, <4>1, <4>2, HeldFacts
        <3> QED BY <2>3, <3>1, <3>2
    <2>5. CASE reply = "ok"
        BY <2>1, <2>2, <2>3, <2>4, <2>5 DEF Elsewhere, Untouched
    <2>6. CASE reply # "ok"
        BY <2>1, <2>2, <2>3, <2>4, <2>6 DEF Elsewhere, Untouched, Done
    <2> QED BY <2>5, <2>6
<1>2. CASE Announce(out)
    <2>1. /\ running = "publish" /\ todo = {} /\ running' = "none" /\ Control'
          /\ UNCHANGED <<held, presentCache, objectCache>>
        BY <1>2, AnnounceStep DEF Announce, Done
    <2>2. /\ present' = [present EXCEPT ![p] = TRUE] \/ UNCHANGED present
          /\ out \in {"ok", "noSuchItem"} /\ (~Faults => out = "ok")
        BY <1>2 DEF Announce, InventoryMark, Reply
    <2>3. Elsewhere(p)
        BY <2>1, <2>2 DEF Elsewhere, Untouched, Control, DecoratorType
    <2> QED BY <2>1, <2>2, <2>3
<1> QED BY <1>1, <1>2

(* A step of markAbsent()'s loop.                                          *)
LEMMA WithdrawFacts ==
    ASSUME Control, NEW p \in Paths, p = path, NEW out,
           Withdraw(out) \/ RetractInterface(out) \/ Forget(out)
    PROVE  /\ Control' /\ Elsewhere(p) /\ UNCHANGED presentCache
           /\ running \in {"withdraw", "retract"}
           /\ \/ /\ out = "busy" /\ UNCHANGED <<objectCache, path>> /\ running' = "retract"
                 /\ todo' \subseteq todo
                 /\ \A i \in todo \ todo' : held'[p][i] = Blank
                 /\ running = "withdraw" => todo' = todo
              \/ /\ out = "ok" /\ running' = "none" /\ UNCHANGED held
                 /\ running = "retract" /\ todo = {} /\ Cached(p)' = {}
                 /\ \A i \in Ifaces : objectCache'[p][i] = NoEntry
              \/ /\ out = "noSuchItem" /\ running' = "none" /\ Faults
                 /\ UNCHANGED objectCache
           /\ \A i \in Ifaces : held'[p][i] \in {held[p][i], Blank}
<1>1. CASE Withdraw(out)
    <2>1. PICK reply \in Outcomes :
              /\ InventoryMark(path, FALSE, reply)
              /\ IF reply = "ok"
                 THEN out = "busy" /\ running' = "retract" /\ UNCHANGED <<path, todo>>
                 ELSE out = reply /\ Done
        BY <1>1 DEF Withdraw
    <2>2. /\ running = "withdraw" /\ Control'
          /\ UNCHANGED <<held, presentCache, objectCache>>
        BY <1>1, WithdrawStep DEF Withdraw
    <2>3. /\ present' = [present EXCEPT ![p] = FALSE] \/ UNCHANGED present
          /\ reply \in {"ok", "noSuchItem"} /\ (~Faults => reply = "ok")
        BY <2>1 DEF InventoryMark, Reply
    <2>4. Elsewhere(p)
        BY <2>2, <2>3 DEF Elsewhere, Untouched, Control, DecoratorType
    <2> QED BY <2>1, <2>2, <2>3, <2>4, FaultsAssumption DEF Done
<1>2. CASE RetractInterface(out)
    <2> DEFINE f == First(todo)
    <2>1. PICK reply \in Outcomes :
              /\ InventoryRemove(path, f, reply)
              /\ IF reply = "ok"
                 THEN out = "busy" /\ todo' = todo \ {f} /\ UNCHANGED <<running, path>>
                 ELSE out = reply /\ Done
        BY <1>2 DEF RetractInterface
    <2>2. /\ running = "retract" /\ todo # {} /\ DecoratorType /\ Control'
          /\ UNCHANGED <<present, presentCache, objectCache>>
        BY <1>2, RetractStep DEF RetractInterface, Control
    <2>3. f \in Ifaces
        BY <2>2, LoopFacts
    <2> HIDE DEF f
    <2>4. /\ held' = [held EXCEPT ![p][f] = Blank] \/ UNCHANGED held
          /\ reply = "ok" => held' = [held EXCEPT ![p][f] = Blank]
          /\ ~Faults => reply = "ok"
        BY <2>1, <2>3, RemoveOutcome
    <2>5. /\ \A q \in Paths \ {p} : held'[q] = held[q]
          /\ \A j \in Ifaces \ {f} : held'[p][j] = held[p][j]
          /\ held'[p][f] \in {held[p][f], Blank}
          /\ reply = "ok" => held'[p][f] = Blank
        BY <2>2, <2>3, <2>4, HeldFacts
    <2>6. reply \in {"ok", "noSuchItem"}
        BY <2>1 DEF InventoryRemove, Reply
    <2>7. CASE reply = "ok"
        BY <2>1, <2>2, <2>3, <2>5, <2>7 DEF Elsewhere, Untouched
    <2>8. CASE reply # "ok"
        BY <2>1, <2>2, <2>3, <2>4, <2>5, <2>6, <2>8, FaultsAssumption
        DEF Elsewhere, Untouched, Done
    <2> QED BY <2>7, <2>8
<1>3. CASE Forget(out)
    <2>1. /\ running = "retract" /\ todo = {} /\ out = "ok" /\ running' = "none"
          /\ UNCHANGED <<present, held, presentCache>> /\ Control'
          /\ objectCache' = [objectCache EXCEPT ![p] = Empty[p]]
        BY <1>3, ForgetStep DEF Forget, Done
    <2>2. /\ \A i \in Ifaces : objectCache'[p][i] = NoEntry
          /\ \A q \in Paths \ {p} : objectCache'[q] = objectCache[q]
        BY <2>1 DEF Empty, Control, DecoratorType
    <2> QED BY <2>1, <2>2 DEF Elsewhere, Untouched, Cached
<1> QED BY <1>1, <1>2, <1>3

------------------------------------------------------------------------------
(* The answer to a call.                                                   *)

(* What a call leaves to show: the tasks, and the bay it was for.          *)
LEMMA Assemble ==
    ASSUME Inductive, NEW p \in Drives, p = cur, call # "none", task # "off",
           NEW out \in Outcomes, Respond(out), UNCHANGED hardware,
           Control', Elsewhere(p), running' # "none" => path' = p,
           Tasking', Bay(p)'
    PROVE  Inductive'
<1>1. TypeOK /\ Tasking /\ \A d \in Drives : Bay(d)
    BY DEF Inductive
<1>2. \/ UNCHANGED <<doing, sinks, connectors>>
      \/ call' \in {"addVINI", "removeI2C"} /\ UNCHANGED <<task, cur, sinks, connectors>>
      \/ Settled
      \/ Disable(task, cur)
    BY DEF Respond
<1>3. /\ wSinks' \subseteq wSinks /\ fSinks' \subseteq fSinks
      /\ wconn' \in [Drives -> ConnectorState] /\ fconn' \in [Drives -> ConnectorState]
      /\ drive' \in [Drives -> Serials \cup {None}]
      /\ \A d \in Drives \ {p} : wconn'[d] = wconn[d] /\ fconn'[d] = fconn[d]
    <2>1. CASE Settled
        <3>1. /\ wconn' \in {wconn, [wconn EXCEPT ![p] = "populated"],
                             [wconn EXCEPT ![p] = "depopulated"]}
              /\ fconn' \in {fconn, [fconn EXCEPT ![p] = "populated"],
                             [fconn EXCEPT ![p] = "depopulated"]}
              /\ drive' \in {drive, [drive EXCEPT ![p] = None]}
              /\ UNCHANGED sinks
            BY <2>1 DEF Settled
        <3> QED BY <1>1, <3>1 DEF TypeOK, ConnectorState
    <2>2. CASE ~Settled
        BY <1>1, <1>2, <2>2 DEF Disable, TypeOK
    <2> QED BY <2>1, <2>2
<1>4. /\ task' \in {task, "idle"} /\ cur' \in {0, cur, cur + 1}
      /\ call' \in {call, "none", "addVINI", "removeI2C", "removeVINI", "markAbsent"}
      /\ cur' = cur \/ call' \in {"none", "removeVINI", "markAbsent"}
    BY <1>2 DEF Settled, Disable
<1>5. TypeOK'
    <2>1. task' \in Tasks /\ cur' \in 0 .. NumDrives /\ call' \in Plugs \cup Unplugs \cup {"none"}
        BY <1>1, <1>4, Constants DEF TypeOK, Tasks, Plugs, Unplugs
    <2>2. wSinks' \subseteq Drives /\ fSinks' \subseteq Drives
        BY <1>1, <1>3 DEF TypeOK
    <2> QED BY <1>1, <1>3, <2>1, <2>2 DEF TypeOK, Control
<1>6. ASSUME NEW d \in Drives \ {p} PROVE Bay(d)'
    <2>1. Kept(d)
        BY <1>3, Constants DEF Elsewhere, Untouched, Kept
    <2>2. Entered(d)
        BY <1>4 DEF Entered
    <2> QED BY <1>1, <1>3, <1>4, <2>1, <2>2, BayFrame DEF Cards
<1> QED BY <1>5, <1>6 DEF Inductive, Control

(* Inductive, at the bay that a handler works on.                          *)
LEMMA Here ==
    ASSUME Inductive, NEW p \in Drives, p = cur
    PROVE  /\ Control /\ Tasking /\ p \in Paths
           /\ Marked(p) /\ Mirrored(p) /\ (~Faults => Emptied(p) /\ Whole(p))
           /\ wconn[p] \in ConnectorState /\ fconn[p] \in ConnectorState
           /\ Cached(p) \subseteq Ifaces
BY Constants DEF Inductive, Bay, Control, TypeOK, Cached

(* Settled, at that bay.                                                   *)
LEMMA SettledHere ==
    ASSUME TypeOK, NEW p \in Drives, p = cur, Settled
    PROVE  /\ wconn'[p] = CASE call = "markPresent" -> "populated"
                             [] call = "markAbsent" -> "depopulated"
                             [] OTHER -> wconn[p]
           /\ fconn'[p] = CASE call = "addVINI" -> "populated"
                             [] call \in {"removeVINI", "removeI2C"} -> "depopulated"
                             [] OTHER -> fconn[p]
           /\ UNCHANGED sinks
           /\ \/ /\ task \in Cards /\ UNCHANGED task /\ cur' # p
                 /\ call' = IF task = "flettCard" THEN "removeVINI" ELSE "markAbsent"
              \/ /\ task \notin Cards
                 /\ task' = "idle" /\ call' = "none"
BY Constants DEF TypeOK, Settled

LEMMA MarkPresentCase ==
    ASSUME Inductive, NEW p \in Drives, p = cur, running = "none", call = "markPresent",
           NEW out \in Outcomes, MarkPresent(p, out), Respond(out), UNCHANGED hardware
    PROVE  Inductive'
<1>1. /\ Control /\ Tasking /\ p \in Paths /\ TypeOK
      /\ Marked(p) /\ Mirrored(p) /\ (~Faults => Emptied(p) /\ Whole(p))
      /\ Cached(p) \subseteq Ifaces
    BY Here DEF Inductive
<1>2. /\ task = "williwakas" /\ wconn[p] # "populated" /\ presentCache[p] # "present"
      /\ p \in wSinks
    BY <1>1 DEF Tasking, Marked, TypeOK, Tasks, Cards
<1>3. /\ Control' /\ Elsewhere(p) /\ UNCHANGED <<held, objectCache>>
      /\ presentCache'[p] = "present"
      /\ \/ out = "busy" /\ running' = "publish" /\ path' = p /\ todo' = Cached(p)
         \/ out = "ok" /\ UNCHANGED loop /\ Cached(p) = {}
    BY <1>1, <1>2, MarkFacts
<1>4. /\ Cached(p)' = Cached(p) /\ \A i : Same(p, i)' = Same(p, i)
    BY <1>3, SameCache DEF Same
<1>5. CASE out = "busy"
    <2>1. /\ UNCHANGED <<doing, sinks, connectors>>
          /\ running' = "publish" /\ path' = p
        BY <1>3, <1>5 DEF Respond
    <2>2. Tasking'
        BY <1>1, <1>2, <2>1 DEF Tasking
    <2>3. Bay(p)'
        BY <1>1, <1>2, <1>3, <1>4, <2>1
        DEF Bay, Marked, Mirrored, BothAre, Emptied, Cleared, Whole, Quiet, Cards
    <2> QED BY <1>2, <1>3, <2>1, <2>2, <2>3, Assemble
<1>6. CASE out = "ok"
    <2>1. /\ Settled /\ UNCHANGED loop /\ Cached(p) = {}
        BY <1>3, <1>6 DEF Respond
    <2>2. /\ wconn'[p] = "populated" /\ fconn'[p] = fconn[p] /\ UNCHANGED sinks
          /\ task' = "idle" /\ call' = "none"
        BY <1>1, <1>2, <2>1, SettledHere DEF Cards
    <2>3. Tasking'
        BY <2>1, <2>2 DEF Tasking
    <2>4. Bay(p)'
        BY <1>1, <1>2, <1>3, <1>4, <2>1, <2>2
        DEF Bay, Marked, Mirrored, BothAre, Emptied, Cleared, Whole, Quiet, Cards
    <2> QED BY <1>2, <1>3, <2>1, <2>3, <2>4, Assemble
<1> QED BY <1>3, <1>5, <1>6

LEMMA PublishCase ==
    ASSUME Inductive, NEW p \in Drives, p = cur, NEW out \in Outcomes,
           PublishInterface(out) \/ Announce(out), Respond(out), UNCHANGED hardware
    PROVE  Inductive'
<1>1. /\ Control /\ Tasking /\ p \in Paths /\ TypeOK
      /\ Marked(p) /\ Mirrored(p) /\ (~Faults => Emptied(p) /\ Whole(p))
      /\ Cached(p) \subseteq Ifaces
    BY Here DEF Inductive
<1>2. /\ running = "publish" /\ path = p /\ call = "markPresent" /\ task = "williwakas"
      /\ p \in wSinks /\ wconn[p] # "populated" /\ presentCache[p] = "present"
    BY <1>1 DEF PublishInterface, Announce, Tasking, Marked, TypeOK, Tasks, Cards,
       Control, LoopControl
<1>3. /\ Control' /\ Elsewhere(p) /\ UNCHANGED <<presentCache, objectCache>>
      /\ \/ out = "busy" /\ UNCHANGED <<running, path>>
         \/ out = "ok" /\ running' = "none" /\ todo = {} /\ UNCHANGED held
         \/ /\ out \in {"noSuchItem", "badAccess"} /\ running' = "none"
            /\ ~Faults => \E i \in Ifaces : objectCache[p][i] = Default
      /\ \A i \in Ifaces \ Cached(p) : held'[p][i] = held[p][i]
    BY <1>1, <1>2, PublishFacts
<1>4. Cached(p)' = Cached(p)
    BY <1>3, SameCache
<1>5. CASE out = "busy"
    <2>1. UNCHANGED <<doing, sinks, connectors, running, path>>
        BY <1>3, <1>5 DEF Respond
    <2>2. Tasking'
        BY <1>1, <1>2, <2>1 DEF Tasking
    <2>3. Bay(p)'
        BY <1>1, <1>2, <1>3, <1>4, <2>1
        DEF Bay, Marked, Mirrored, BothAre, Emptied, Cleared, Whole, Quiet, Cards
    <2> QED BY <1>2, <1>3, <2>1, <2>2, <2>3, Assemble
<1>6. CASE out = "ok"
    <2>1. Settled /\ running' = "none" /\ todo = {} /\ UNCHANGED held
        BY <1>2, <1>3, <1>6 DEF Respond
    <2>2. /\ wconn'[p] = "populated" /\ fconn'[p] = fconn[p] /\ UNCHANGED sinks
          /\ task' = "idle" /\ call' = "none"
        BY <1>1, <1>2, <2>1, SettledHere DEF Cards
    <2>3. Tasking'
        BY <2>1, <2>2 DEF Tasking
    <2>4. \A i \in Cached(p)' : Same(p, i)'
        BY <1>1, <1>2, <1>3, <1>4, <2>1 DEF Control, LoopControl, Same
    <2>5. Bay(p)'
        BY <1>1, <1>2, <1>3, <1>4, <2>1, <2>2, <2>4
        DEF Bay, Marked, Mirrored, BothAre, Emptied, Cleared, Whole, Quiet, Cards
    <2> QED BY <1>2, <1>3, <2>1, <2>3, <2>5, Assemble
<1>7. CASE out \in {"noSuchItem", "badAccess"}
    <2>1. /\ running' = "none" /\ Faults /\ Disable(task, cur)
        BY <1>1, <1>2, <1>3, <1>7, FaultsAssumption DEF Respond, Unplugs, Whole
    <2>2. /\ wSinks' = wSinks \ {p} /\ UNCHANGED <<wconn, fconn>>
          /\ task' = "idle" /\ call' = "none"
        BY <1>2, <2>1 DEF Disable
    <2>3. Tasking'
        BY <2>1, <2>2 DEF Tasking
    <2>4. Bay(p)'
        BY <1>1, <1>2, <2>1, <2>2 DEF Bay, Marked, Mirrored, BothAre, Cards
    <2> QED BY <1>2, <1>3, <2>1, <2>3, <2>4, Assemble
<1> QED BY <1>3, <1>5, <1>6, <1>7

LEMMA MarkAbsentCase ==
    ASSUME Inductive, NEW p \in Drives, p = cur, running = "none", call = "markAbsent",
           NEW out \in Outcomes, MarkAbsent(p, out), Respond(out), UNCHANGED hardware
    PROVE  Inductive'
<1>1. /\ Control /\ Tasking /\ p \in Paths /\ TypeOK
      /\ Marked(p) /\ Mirrored(p) /\ (~Faults => Emptied(p) /\ Whole(p))
      /\ Cached(p) \subseteq Ifaces
    BY Here DEF Inductive
<1>2. task \in {"williwakas", "williwakasCard"}
    BY <1>1 DEF Tasking, TypeOK, Tasks, Cards
<1>3. /\ Control' /\ Elsewhere(p) /\ UNCHANGED <<held, objectCache>>
      /\ presentCache'[p] = "absent"
      /\ \/ out = "busy" /\ running' = "withdraw" /\ path' = p /\ todo' = Cached(p)
         \/ /\ out = "ok" /\ UNCHANGED loop
            /\ presentCache[p] = "absent" \/ Cached(p) = {}
    BY <1>1, MarkFacts
<1>4. Cached(p)' = Cached(p) /\ \A i : Same(p, i)' = Same(p, i)
    BY <1>3, SameCache DEF Same
<1>5. CASE out = "busy"
    <2>1. /\ UNCHANGED <<doing, sinks, connectors>>
          /\ running' = "withdraw" /\ path' = p
        BY <1>3, <1>5 DEF Respond
    <2>2. Tasking'
        BY <1>1, <2>1 DEF Tasking
    <2>3. Bay(p)'
        BY <1>1, <1>2, <1>3, <1>4, <2>1
        DEF Bay, Marked, Mirrored, BothAre, Emptied, Cleared, Whole, Quiet, Cards
    <2> QED BY <1>2, <1>3, <2>1, <2>2, <2>3, Assemble
<1>6. CASE out = "ok"
    <2>1. Settled /\ UNCHANGED loop /\ (presentCache[p] = "absent" \/ Cached(p) = {})
        BY <1>3, <1>6 DEF Respond
    <2>2. /\ wconn'[p] = "depopulated" /\ fconn'[p] = fconn[p] /\ UNCHANGED sinks
          /\ \/ task' = task /\ task \in Cards /\ cur' # p /\ call' = "markAbsent"
             \/ task \notin Cards /\ task' = "idle" /\ call' = "none"
        BY <1>1, <1>2, <2>1, SettledHere
    <2>3. Tasking'
        BY <1>2, <2>1, <2>2 DEF Tasking, Cards
    <2>4. ASSUME ~Faults PROVE Emptied(p)' /\ Whole(p)'
        BY <1>1, <1>3, <1>4, <2>1, <2>2, <2>4, MarkersAssumption
        DEF Emptied, Cleared, Whole, Quiet, Cached
    <2>5. Marked(p)' /\ Mirrored(p)'
        BY <1>1, <1>3, <1>4, <2>1, <2>2
        DEF Marked, Mirrored, BothAre, Cards
    <2> QED BY <1>2, <1>3, <2>1, <2>3, <2>4, <2>5, Assemble DEF Bay
<1> QED BY <1>3, <1>5, <1>6

LEMMA WithdrawCase ==
    ASSUME Inductive, NEW p \in Drives, p = cur, NEW out \in Outcomes,
           Withdraw(out) \/ RetractInterface(out) \/ Forget(out),
           Respond(out), UNCHANGED hardware
    PROVE  Inductive'
<1>1. /\ Control /\ Tasking /\ p \in Paths /\ TypeOK
      /\ Marked(p) /\ Mirrored(p) /\ (~Faults => Emptied(p) /\ Whole(p))
      /\ Cached(p) \subseteq Ifaces
    BY Here DEF Inductive
<1>2. /\ running \in {"withdraw", "retract"} /\ path = p /\ call = "markAbsent"
      /\ task \in {"williwakas", "williwakasCard"} /\ presentCache[p] = "absent"
      /\ running = "withdraw" => todo = Cached(p)
    BY <1>1 DEF Withdraw, RetractInterface, Forget, Tasking, TypeOK, Tasks, Cards,
       Control, LoopControl
<1>3. /\ Control' /\ Elsewhere(p) /\ UNCHANGED presentCache
      /\ \/ /\ out = "busy" /\ UNCHANGED <<objectCache, path>> /\ running' = "retract"
            /\ todo' \subseteq todo
            /\ \A i \in todo \ todo' : held'[p][i] = Blank
            /\ running = "withdraw" => todo' = todo
         \/ /\ out = "ok" /\ running' = "none" /\ UNCHANGED held
            /\ running = "retract" /\ todo = {} /\ Cached(p)' = {}
            /\ \A i \in Ifaces : objectCache'[p][i] = NoEntry
         \/ /\ out = "noSuchItem" /\ running' = "none" /\ Faults
            /\ UNCHANGED objectCache
      /\ \A i \in Ifaces : held'[p][i] \in {held[p][i], Blank}
    BY <1>1, <1>2, WithdrawFacts
<1>4. CASE out = "busy"
    <2>1. /\ UNCHANGED <<doing, sinks, connectors, path>>
          /\ running' = "retract" /\ Cached(p)' = Cached(p)
        BY <1>3, <1>4, SameCache DEF Respond
    <2>2. Tasking'
        BY <1>1, <1>2, <2>1 DEF Tasking
    <2>3. Marked(p)' /\ Mirrored(p)'
        BY <1>1, <1>2, <1>3, <2>1 DEF Marked, Mirrored, BothAre, Tasking, Cards
    <2>4. ASSUME ~Faults PROVE Emptied(p)'
        BY <1>1, <1>2, <1>3, <1>4, <2>1, <2>4 DEF Emptied, Cleared, Quiet
    <2>5. ASSUME ~Faults PROVE Whole(p)'
        BY <1>1, <1>2, <1>3, <1>4, <2>1, <2>5 DEF Whole, Quiet
    <2> QED BY <1>2, <1>3, <2>1, <2>2, <2>3, <2>4, <2>5, Assemble DEF Bay
<1>5. CASE out # "busy"
    <2>1. /\ Settled /\ running' = "none"
        BY <1>2, <1>3, <1>5 DEF Respond, Unplugs
    <2>2. /\ wconn'[p] = "depopulated" /\ fconn'[p] = fconn[p] /\ UNCHANGED sinks
          /\ \/ task' = task /\ task \in Cards /\ cur' # p /\ call' = "markAbsent"
             \/ task \notin Cards /\ task' = "idle" /\ call' = "none"
        BY <1>1, <1>2, <2>1, SettledHere
    <2>3. Tasking'
        BY <1>2, <2>1, <2>2 DEF Tasking, Cards
    <2>4. Marked(p)' /\ Mirrored(p)'
        BY <1>1, <1>2, <1>3, <2>1, <2>2 DEF Marked, Mirrored, BothAre, Cards
    <2>5. ASSUME ~Faults PROVE Emptied(p)' /\ Whole(p)'
        <3>1. /\ UNCHANGED held /\ running = "retract" /\ todo = {} /\ Cached(p)' = {}
              /\ \A i \in Ifaces : objectCache'[p][i] = NoEntry
            BY <1>3, <1>5, <2>5
        <3>2. Default # NoEntry
            BY MarkersAssumption
        <3> QED BY <1>1, <1>2, <2>1, <2>2, <2>5, <3>1, <3>2
                DEF Emptied, Cleared, Whole, Quiet
    <2> QED BY <1>2, <1>3, <2>1, <2>3, <2>4, <2>5, Assemble DEF Bay
<1> QED BY <1>4, <1>5

LEMMA AddI2CCase ==
    ASSUME Inductive, NEW p \in Drives, p = cur, running = "none", call = "addI2C",
           NEW out \in Outcomes, Add(p, "i2c", Located, out), Respond(out),
           UNCHANGED hardware
    PROVE  Inductive'
<1>1. /\ Control /\ Tasking /\ p \in Paths /\ TypeOK
      /\ Marked(p) /\ Mirrored(p) /\ (~Faults => Emptied(p) /\ Whole(p))
      /\ Cached(p) \subseteq Ifaces
    BY Here DEF Inductive
<1>2. task = "flett" /\ fconn[p] # "populated" /\ drive[p] \in Serials
    BY <1>1 DEF Tasking, Mirrored, TypeOK, Tasks, Cards
<1>3. "i2c" \in Ifaces /\ Located \in Contents("i2c") /\ Located # Default
    BY MarkersAssumption DEF Ifaces, Contents
<1>4. /\ Control' /\ Elsewhere(p) /\ UNCHANGED <<presentCache, loop>>
      /\ objectCache'[p]["i2c"] = Located /\ Cached(p)' = Cached(p) \cup {"i2c"}
      /\ \A j \in Ifaces \ {"i2c"} : /\ objectCache'[p][j] = objectCache[p][j]
                                     /\ held'[p][j] = held[p][j]
      /\ out \in {"ok", "noSuchItem"} /\ (~Faults => out = "ok")
      /\ (presentCache[p] = "present" /\ out = "ok") => held'[p]["i2c"] = Located
      /\ presentCache[p] # "present" => UNCHANGED held
    BY <1>1, <1>3, AddFacts
<1>5. CASE out = "ok"
    <2>1. call' = "addVINI" /\ UNCHANGED <<task, cur, sinks, connectors>>
        BY <1>5 DEF Respond
    <2>2. Tasking'
        BY <1>1, <1>2, <1>4, <2>1 DEF Tasking
    <2>3. Marked(p)' /\ Mirrored(p)'
        BY <1>1, <1>2, <1>4, <1>5, <2>1 DEF Marked, Mirrored, BothAre, Same, Cards
    <2>4. ASSUME ~Faults PROVE Emptied(p)'
        <3>1. ASSUME fconn[p] = "depopulated", NEW i \in Ifaces PROVE Cleared(p, i)'
            BY <1>1, <1>2, <1>4, <1>5, <2>1, <2>4, <3>1 DEF Emptied, Cleared, Quiet
        <3> QED BY <2>1, <3>1 DEF Emptied
    <2>5. ASSUME ~Faults PROVE Whole(p)'
        BY <1>1, <1>2, <1>3, <1>4, <2>1, <2>5 DEF Whole, Quiet
    <2> QED BY <1>2, <1>4, <2>1, <2>2, <2>3, <2>4, <2>5, Assemble, <1>1 DEF Bay, Tasking
<1>6. CASE out = "noSuchItem"
    <2>1. Faults /\ Disable(task, cur)
        BY <1>4, <1>6, FaultsAssumption DEF Respond, Unplugs
    <2>2. /\ fSinks' = fSinks \ {p} /\ UNCHANGED <<wSinks, wconn, fconn>>
          /\ task' = "idle" /\ call' = "none"
        BY <1>2, <2>1 DEF Disable
    <2>3. Tasking'
        BY <1>4, <2>2 DEF Tasking
    <2>4. Bay(p)'
        BY <1>1, <1>2, <1>4, <2>1, <2>2 DEF Bay, Marked, Mirrored, BothAre, Cards
    <2> QED BY <1>1, <1>2, <1>4, <2>1, <2>3, <2>4, Assemble DEF Tasking
<1> QED BY <1>4, <1>5, <1>6

LEMMA AddVINICase ==
    ASSUME Inductive, NEW p \in Drives, p = cur, running = "none", call = "addVINI",
           NEW out \in Outcomes, Add(p, "vini", drive[p], out), Respond(out),
           UNCHANGED hardware
    PROVE  Inductive'
<1>1. /\ Control /\ Tasking /\ p \in Paths /\ TypeOK
      /\ Marked(p) /\ Mirrored(p) /\ (~Faults => Emptied(p) /\ Whole(p))
      /\ Cached(p) \subseteq Ifaces
    BY Here DEF Inductive
<1>2. task = "flett" /\ fconn[p] # "populated" /\ drive[p] \in Serials
    BY <1>1 DEF Tasking, Mirrored, TypeOK, Tasks, Cards
<1>3. /\ "vini" \in Ifaces /\ drive[p] \in Contents("vini")
      /\ Ifaces = {"vini", "i2c"} /\ drive[p] # Default
    BY <1>2, MarkersAssumption DEF Ifaces, Contents
<1>4. /\ Control' /\ Elsewhere(p) /\ UNCHANGED <<presentCache, loop>>
      /\ objectCache'[p]["vini"] = drive[p] /\ Cached(p)' = Cached(p) \cup {"vini"}
      /\ \A j \in Ifaces \ {"vini"} : /\ objectCache'[p][j] = objectCache[p][j]
                                      /\ held'[p][j] = held[p][j]
      /\ out \in {"ok", "noSuchItem"} /\ (~Faults => out = "ok")
      /\ (presentCache[p] = "present" /\ out = "ok") => held'[p]["vini"] = drive[p]
      /\ presentCache[p] # "present" => UNCHANGED held
    BY <1>1, <1>3, AddFacts
<1>5. CASE out = "ok"
    <2>1. Settled
        BY <1>5 DEF Respond
    <2>2. /\ wconn'[p] = wconn[p] /\ fconn'[p] = "populated" /\ UNCHANGED sinks
          /\ task' = "idle" /\ call' = "none"
        BY <1>1, <1>2, <2>1, SettledHere DEF Cards
    <2>3. Tasking'
        BY <1>4, <2>2 DEF Tasking
    <2>4. Marked(p)'
        BY <1>1, <1>2, <1>4, <2>2 DEF Marked, Cards
    <2>5. Mirrored(p)'
        <3>1. ASSUME wconn[p] = "populated", NEW i \in Ifaces PROVE Same(p, i)'
            BY <1>1, <1>2, <1>3, <1>4, <1>5, <3>1 DEF Marked, Mirrored, Same
        <3>2. Cached(p)' \subseteq Ifaces
            BY <1>1, <1>3, <1>4
        <3> QED BY <1>2, <2>2, <3>1, <3>2 DEF Mirrored, BothAre
    <2>6. ASSUME ~Faults PROVE Emptied(p)' /\ Whole(p)'
        <3>1. Cached(p)' = Ifaces
            BY <1>1, <1>3, <1>4, <2>6 DEF Whole
        <3> QED BY <1>1, <1>3, <1>4, <2>2, <2>6, <3>1 DEF Emptied, Whole, Quiet
    <2> QED BY <1>1, <1>2, <1>4, <2>1, <2>3, <2>4, <2>5, <2>6, Assemble DEF Bay, Tasking
<1>6. CASE out = "noSuchItem"
    <2>1. Faults /\ Disable(task, cur)
        BY <1>4, <1>6, FaultsAssumption DEF Respond, Unplugs
    <2>2. /\ fSinks' = fSinks \ {p} /\ UNCHANGED <<wSinks, wconn, fconn>>
          /\ task' = "idle" /\ call' = "none"
        BY <1>2, <2>1 DEF Disable
    <2>3. Tasking'
        BY <1>4, <2>2 DEF Tasking
    <2>4. Bay(p)'
        BY <1>1, <1>2, <1>4, <2>1, <2>2 DEF Bay, Marked, Mirrored, BothAre, Cards
    <2> QED BY <1>1, <1>2, <1>4, <2>1, <2>3, <2>4, Assemble DEF Tasking
<1> QED BY <1>4, <1>5, <1>6

(* The removal of one interface, of which the drive knows the contents or  *)
(* nothing.                                                                *)
LEMMA RemovalFacts ==
    ASSUME Inductive, NEW p \in Drives, p = cur, running = "none", NEW i \in Ifaces,
           NEW iface \in Contents(i) \cup {Default}, NEW out, Remove(p, i, iface, out)
    PROVE  /\ Control' /\ Elsewhere(p) /\ UNCHANGED <<presentCache, loop>>
           /\ out \in {"ok", "noSuchItem"} /\ (~Faults => out = "ok")
           /\ presentCache[p] = "present" => Cached(p)' = Cached(p) \cup {i}
           /\ presentCache[p] # "present" => UNCHANGED objectCache /\ Cached(p)' = Cached(p)
           /\ ~Faults => Cleared(p, i)'
           /\ \A j \in Ifaces \ {i} : Cleared(p, j) => Cleared(p, j)'
<1>1. Control /\ p \in Paths
    BY Here
<1>2. /\ Control' /\ Elsewhere(p) /\ UNCHANGED <<present, presentCache, loop>>
      /\ \A j \in Ifaces \ {i} : /\ objectCache'[p][j] = objectCache[p][j]
                                 /\ held'[p][j] = held[p][j]
      /\ out \in {"ok", "noSuchItem"} /\ (~Faults => out = "ok")
      /\ presentCache[p] = "present" =>
             out = "ok" /\ UNCHANGED held /\ Cached(p)' = Cached(p) \cup {i}
      /\ presentCache[p] # "present" =>
             /\ UNCHANGED objectCache /\ held'[p][i] \in {held[p][i], Blank}
             /\ out = "ok" => held'[p][i] = Blank
    BY <1>1, RemoveFacts
<1>3. presentCache[p] # "present" => Cached(p)' = Cached(p)
    BY <1>2, SameCache
<1>4. ASSUME ~Faults PROVE Cleared(p, i)'
    BY <1>2, <1>3, <1>4 DEF Cleared, Quiet
<1>5. ASSUME NEW j \in Ifaces \ {i}, Cleared(p, j) PROVE Cleared(p, j)'
    BY <1>2, <1>3, <1>5 DEF Cleared, Quiet
<1> QED BY <1>2, <1>3, <1>4, <1>5

LEMMA RemoveVINICase ==
    ASSUME Inductive, NEW p \in Drives, p = cur, running = "none", call = "removeVINI",
           NEW out \in Outcomes, Remove(p, "vini", Known(drive[p]), out), Respond(out),
           UNCHANGED hardware
    PROVE  Inductive'
<1>1. /\ Control /\ Tasking /\ p \in Paths /\ TypeOK
      /\ Marked(p) /\ Mirrored(p) /\ (~Faults => Emptied(p) /\ Whole(p))
      /\ Cached(p) \subseteq Ifaces
    BY Here DEF Inductive
<1>2. task \in {"flett", "flettCard"}
    BY <1>1 DEF Tasking, TypeOK, Tasks, Cards
<1>3. /\ "vini" \in Ifaces /\ Ifaces = {"vini", "i2c"}
      /\ Known(drive[p]) \in Contents("vini") \cup {Default}
    BY <1>1 DEF Known, Contents, Ifaces, TypeOK
<1>4. /\ Control' /\ Elsewhere(p) /\ UNCHANGED <<presentCache, loop>>
      /\ out \in {"ok", "noSuchItem"} /\ (~Faults => out = "ok")
      /\ presentCache[p] = "present" => Cached(p)' = Cached(p) \cup {"vini"}
      /\ presentCache[p] # "present" => UNCHANGED objectCache /\ Cached(p)' = Cached(p)
      /\ ~Faults => Cleared(p, "vini")'
      /\ \A j \in Ifaces \ {"vini"} : Cleared(p, j) => Cleared(p, j)'
    BY <1>1, <1>3, RemovalFacts
<1>5. CASE out = "ok"
    <2>1. call' = "removeI2C" /\ UNCHANGED <<task, cur, sinks, connectors>>
        BY <1>5 DEF Respond
    <2>2. Tasking'
        BY <1>1, <1>2, <1>4, <2>1 DEF Tasking
    <2>3. Marked(p)'
        BY <1>1, <1>2, <1>4, <2>1 DEF Marked, Cards
    <2>4. Mirrored(p)'
        BY <1>1, <1>2, <2>1 DEF Mirrored, BothAre, Marked, Cards
    <2>5. ASSUME ~Faults PROVE Emptied(p)' /\ Whole(p)'
        BY <1>1, <1>3, <1>4, <2>1, <2>5 DEF Emptied, Whole, Quiet
    <2> QED BY <1>1, <1>2, <1>4, <2>1, <2>2, <2>3, <2>4, <2>5, Assemble DEF Bay, Tasking
<1>6. CASE out = "noSuchItem"
    <2>1. Faults /\ Settled
        BY <1>4, <1>6, FaultsAssumption DEF Respond, Unplugs
    <2>2. /\ wconn'[p] = wconn[p] /\ fconn'[p] = "depopulated" /\ UNCHANGED sinks
          /\ \/ /\ task' = task /\ task = "flettCard" /\ cur' # p
                /\ call' = "removeVINI"
             \/ task = "flett" /\ task' = "idle" /\ call' = "none"
        BY <1>1, <1>2, <2>1, SettledHere DEF Cards
    <2>3. Tasking'
        BY <1>4, <2>2 DEF Tasking
    <2>4. Bay(p)'
        BY <1>1, <1>2, <1>4, <2>1, <2>2 DEF Bay, Marked, Mirrored, BothAre, Cards
    <2> QED BY <1>1, <1>2, <1>4, <2>1, <2>3, <2>4, Assemble DEF Tasking
<1> QED BY <1>4, <1>5, <1>6

LEMMA RemoveI2CCase ==
    ASSUME Inductive, NEW p \in Drives, p = cur, running = "none", call = "removeI2C",
           NEW out \in Outcomes, Remove(p, "i2c", Known(Located), out), Respond(out),
           UNCHANGED hardware
    PROVE  Inductive'
<1>1. /\ Control /\ Tasking /\ p \in Paths /\ TypeOK
      /\ Marked(p) /\ Mirrored(p) /\ (~Faults => Emptied(p) /\ Whole(p))
      /\ Cached(p) \subseteq Ifaces
    BY Here DEF Inductive
<1>2. task \in {"flett", "flettCard"}
    BY <1>1 DEF Tasking, TypeOK, Tasks, Cards
<1>3. /\ "i2c" \in Ifaces /\ Ifaces = {"vini", "i2c"}
      /\ Known(Located) \in Contents("i2c") \cup {Default}
    BY DEF Known, Contents, Ifaces
<1>4. /\ Control' /\ Elsewhere(p) /\ UNCHANGED <<presentCache, loop>>
      /\ out \in {"ok", "noSuchItem"} /\ (~Faults => out = "ok")
      /\ presentCache[p] = "present" => Cached(p)' = Cached(p) \cup {"i2c"}
      /\ presentCache[p] # "present" => UNCHANGED objectCache /\ Cached(p)' = Cached(p)
      /\ ~Faults => Cleared(p, "i2c")'
      /\ \A j \in Ifaces \ {"i2c"} : Cleared(p, j) => Cleared(p, j)'
    BY <1>1, <1>3, RemovalFacts
<1>5. Settled
    BY <1>4 DEF Respond, Unplugs
<1>6. /\ wconn'[p] = wconn[p] /\ fconn'[p] = "depopulated" /\ UNCHANGED sinks
      /\ \/ /\ task' = task /\ task = "flettCard" /\ cur' # p
            /\ call' = "removeVINI"
         \/ task = "flett" /\ task' = "idle" /\ call' = "none"
    BY <1>1, <1>2, <1>5, SettledHere DEF Cards
<1>7. Tasking'
    BY <1>4, <1>6 DEF Tasking
<1>8. Marked(p)'
    BY <1>1, <1>2, <1>4, <1>6 DEF Marked, Cards
<1>9. Mirrored(p)'
    BY <1>6 DEF Mirrored, BothAre
<1>10. ASSUME ~Faults PROVE Emptied(p)' /\ Whole(p)'
    <2>1. \A i \in Ifaces : Cleared(p, i)'
        BY <1>1, <1>3, <1>4, <1>10 DEF Emptied
    <2>2. Cached(p)' \in {{}, Ifaces}
        BY <1>1, <1>3, <1>4, <1>10 DEF Whole
    <2> QED BY <1>1, <1>4, <1>6, <1>10, <2>1, <2>2 DEF Emptied, Whole, Quiet
<1> QED BY <1>1, <1>2, <1>4, <1>5, <1>7, <1>8, <1>9, <1>10, Assemble DEF Bay, Tasking

LEMMA CallInventoryStep ==
    ASSUME Inductive, CallInventory
    PROVE  Inductive'
<1>1. PICK out \in Outcomes : (Invoke(out) \/ Continue(out)) /\ Respond(out)
    BY DEF CallInventory
<1>2. UNCHANGED hardware
    BY DEF CallInventory
<1>3. ASSUME Invoke(out) PROVE Inductive'
    <2>1. running = "none" /\ cur \in Drives
        BY <1>3 DEF Invoke
    <2>2. CASE call = "markPresent" /\ MarkPresent(cur, out)
        BY <1>1, <1>2, <2>1, <2>2, MarkPresentCase
    <2>3. CASE call = "markAbsent" /\ MarkAbsent(cur, out)
        BY <1>1, <1>2, <2>1, <2>3, MarkAbsentCase
    <2>4. CASE call = "addI2C" /\ Add(cur, "i2c", Located, out)
        BY <1>1, <1>2, <2>1, <2>4, AddI2CCase
    <2>5. CASE call = "addVINI" /\ Add(cur, "vini", drive[cur], out)
        BY <1>1, <1>2, <2>1, <2>5, AddVINICase
    <2>6. CASE call = "removeVINI" /\ Remove(cur, "vini", Known(drive[cur]), out)
        BY <1>1, <1>2, <2>1, <2>6, RemoveVINICase
    <2>7. CASE call = "removeI2C" /\ Remove(cur, "i2c", Known(Located), out)
        BY <1>1, <1>2, <2>1, <2>7, RemoveI2CCase
    <2> QED BY <1>3, <2>2, <2>3, <2>4, <2>5, <2>6, <2>7 DEF Invoke
<1>4. ASSUME Continue(out) PROVE Inductive'
    <2>1. cur \in Drives
        BY <1>4 DEF Continue, PublishInterface, Announce, Withdraw, RetractInterface,
           Forget, Inductive, Tasking
    <2> QED BY <1>1, <1>2, <1>4, <2>1, PublishCase, WithdrawCase DEF Continue
<1> QED BY <1>1, <1>3, <1>4

LEMMA NextInductive == Inductive /\ [Next]_vars => Inductive'
<1> SUFFICES ASSUME Inductive, [Next]_vars PROVE Inductive'
    OBVIOUS
<1>1. CASE UNCHANGED vars
    <2>1. DecoratorType' /\ LoopControl' /\ \A d : Cached(d)' = Cached(d)
        BY <1>1, SameDecorator, SameCache DEF vars
    <2>2. TypeOK' /\ Tasking'
        BY <1>1, <2>1 DEF Inductive, TypeOK, Tasking, vars
    <2>3. ASSUME NEW d \in Drives PROVE Bay(d)'
        BY <1>1, <2>1, <2>3 DEF Inductive, Bay, Marked, Mirrored, BothAre, Same, Emptied,
           Cleared, Whole, Quiet, vars
    <2> QED BY <2>1, <2>2, <2>3 DEF Inductive
<1>2. CASE Next
    BY <1>2, DetectStep, PollStep, FetchStep, CallInventoryStep, StopStep,
       EnvironmentStep DEF Next
<1> QED BY <1>1, <1>2

------------------------------------------------------------------------------
(* The theorems.                                                           *)

LEMMA InductiveHolds == Spec => []Inductive
BY InitInductive, NextInductive, PTL DEF Spec

(* TypeOK, for any number of bays.                                         *)
THEOREM DrivesTypeCorrect == Spec => []TypeOK
<1>1. Inductive => TypeOK
    BY DEF Inductive
<1> QED BY <1>1, InductiveHolds, PTL

(* WatchedMirrorsCache: the inventory holds what the decorator has cached  *)
(* of a watched drive that both connectors have seen, also after calls     *)
(* have failed.                                                            *)
THEOREM WatchedMirrorsCacheHolds == Spec => []WatchedMirrorsCache
<1>1. Inductive => WatchedMirrorsCache
    <2> SUFFICES ASSUME Inductive, NEW d \in Drives, Watched(d), BothAre(d, "populated"),
                        NEW i \in Cached(d)
                 PROVE  held[d][i] = objectCache[d][i]
        BY DEF WatchedMirrorsCache
    <2> QED BY DEF Inductive, Bay, Mirrored, Watched, Same
<1> QED BY <1>1, InductiveHolds, PTL

(* BothDepopulatedIsBlank: unless calls fail, nothing describes a drive in *)
(* a bay that both connectors take for empty.                              *)
THEOREM BothDepopulatedIsBlankHolds == Spec => []BothDepopulatedIsBlank
<1>1. Inductive => BothDepopulatedIsBlank
    <2> SUFFICES ASSUME Inductive, NEW d \in Drives, ~Faults, Watched(d),
                        BothAre(d, "depopulated"), NEW i \in Ifaces
                 PROVE  held[d][i] = Blank
        BY DEF BothDepopulatedIsBlank, Blanked
    <2>1. /\ running = "none" /\ presentCache[d] # "present" /\ Cleared(d, i)
        BY DEF Inductive, Bay, Marked, Emptied, Tasking, Watched, BothAre
    <2> QED BY <2>1 DEF Cleared, Quiet
<1> QED BY <1>1, InductiveHolds, PTL

(* The mark that ends markPresent()'s loop finds both interfaces published.*)
LEMMA AnnouncesDescribed ==
    ASSUME Inductive, ~Faults, NEW out, Announce(out), NEW d \in Drives, d = path
    PROVE  Described(d)
<1>1. /\ DecoratorType /\ LoopControl /\ d \in Paths
      /\ running = "publish" /\ todo = {}
    BY Constants DEF Inductive, TypeOK, Announce
<1>2. call = "markPresent" /\ Whole(d)
    BY <1>1 DEF Inductive, Bay, Tasking
<1>3. Cached(d) = Ifaces
    BY <1>1, <1>2 DEF Whole, LoopControl
<1>4. ASSUME NEW i \in Ifaces PROVE held[d][i] \in Contents(i)
    BY <1>1, <1>2, <1>3, <1>4 DEF Whole, LoopControl, DecoratorType, Cached
<1> QED BY <1>4 DEF Described, Contents, Ifaces

(* AnnouncedIsDescribed: unless calls fail, a drive becomes present only   *)
(* once both of its interfaces are published.                              *)
THEOREM AnnouncedIsDescribedHolds == Spec => AnnouncedIsDescribed
<1>1. Inductive /\ [Next]_vars =>
          [\A d \in Drives :
              (~Faults /\ ~present[d] /\ present'[d]) => Described(d)]_vars
    <2> SUFFICES ASSUME Inductive, Next, NEW d \in Drives, ~Faults, ~present[d],
                        present'[d]
                 PROVE  Described(d)
        OBVIOUS
    <2>1. PICK out : Announce(out) \/ Withdraw(out)
        BY DEF Next, Detect, DetectFlettCards, FlettCardUnplugged, DetectWilliwakasCard,
               WilliwakasCardUnplugged, NotifyWilliwakas, NotifyFlett, PollFails, Enters,
               Fetch, Stop, Environment, CallInventory, Invoke, Add, Remove, MarkPresent,
               MarkAbsent, Continue, PublishInterface, RetractInterface, Forget
    <2>2. DecoratorType /\ d \in Paths
        BY Constants DEF Inductive, TypeOK
    <2>3. ~Withdraw(out)
        BY <2>2 DEF Withdraw, InventoryMark, DecoratorType
    <2>4. path = d
        BY <2>1, <2>2, <2>3 DEF Announce, InventoryMark, DecoratorType
    <2> QED BY <2>1, <2>3, <2>4, AnnouncesDescribed
<1> QED BY <1>1, InductiveHolds, PTL DEF Spec, AnnouncedIsDescribed

(* Nothing is removed at once from an item that is marked present.         *)
LEMMA Spared ==
    ASSUME Control, NEW p \in Paths, NEW i \in Ifaces, NEW iface, NEW out,
           Remove(p, i, iface, out), NEW d \in Paths, presentCache[d] = "present"
    PROVE  held'[d] = held[d]
<1>1. CASE presentCache[p] = "present"
    BY <1>1 DEF Remove
<1>2. CASE presentCache[p] # "present"
    <2>1. held' = [held EXCEPT ![p][i] = Blank] \/ UNCHANGED held
        BY <1>2, RemoveOutcome DEF Remove
    <2> QED BY <1>2, <2>1, HeldFacts DEF Control
<1> QED BY <1>1, <1>2

(* PowerOffKeepsDescription: while the GPIO says that the drive is there,  *)
(* nothing that Flett does erases its description, also when calls fail.   *)
THEOREM PowerOffKeepsDescriptionHolds == Spec => PowerOffKeepsDescription
<1>1. Inductive /\ [Next]_vars =>
          [\A d \in Drives :
              (wconn[d] = "populated" /\ task # "williwakas") =>
                  \A i \in Ifaces : held[d][i] # Blank => held'[d][i] # Blank]_vars
    <2> SUFFICES ASSUME Inductive, Next, NEW d \in Drives, wconn[d] = "populated",
                        task # "williwakas", NEW i \in Ifaces, held[d][i] # Blank
                 PROVE  held'[d][i] # Blank
        OBVIOUS
    <2>1. /\ Control /\ Tasking /\ d \in Paths /\ Marked(d)
        BY Constants DEF Inductive, TypeOK, Bay, Control
    <2>2. presentCache[d] = "present" /\ task \notin Cards /\ task # "off"
        BY <2>1 DEF Marked
    <2>3. running = "none"
        BY <2>1, <2>2 DEF Tasking, Inductive, TypeOK, Tasks
    <2>4. CASE UNCHANGED held
        BY <2>4
    <2>5. CASE ~UNCHANGED held
        <3>1. PICK out : Invoke(out)
            BY <2>3, <2>5 DEF Next, Detect, DetectFlettCards, FlettCardUnplugged,
               DetectWilliwakasCard, WilliwakasCardUnplugged, NotifyWilliwakas,
               NotifyFlett, PollFails, Enters, Fetch, Stop, Environment, CallInventory,
               Continue, PublishInterface, Announce, Withdraw, RetractInterface, Forget
        <3>2. cur \in Paths
            BY <3>1, Constants DEF Invoke
        <3>3. CASE call = "addI2C" /\ Add(cur, "i2c", Located, out)
            <4>1. "i2c" \in Ifaces /\ Located \in Contents("i2c") /\ Located # Blank
                BY <2>1, <3>3, MarkersAssumption DEF Contents, Ifaces
            <4>2. held' = [held EXCEPT ![cur]["i2c"] = Located] \/ UNCHANGED held
                BY <3>2, <3>3, <4>1, AddOutcome DEF Add
            <4> QED BY <2>1, <3>2, <4>1, <4>2, HeldFacts DEF Control
        <3>4. CASE call = "addVINI" /\ Add(cur, "vini", drive[cur], out)
            <4>1. "vini" \in Ifaces /\ drive[cur] \in Contents("vini") /\ drive[cur] # Blank
                BY <2>1, <3>4, MarkersAssumption DEF Tasking, Contents, Ifaces
            <4>2. held' = [held EXCEPT ![cur]["vini"] = drive[cur]] \/ UNCHANGED held
                BY <3>2, <3>4, <4>1, AddOutcome DEF Add
            <4> QED BY <2>1, <3>2, <4>1, <4>2, HeldFacts DEF Control
        <3>5. CASE Remove(cur, "vini", Known(drive[cur]), out)
            BY <2>1, <2>2, <3>2, <3>5, Spared DEF Ifaces
        <3>6. CASE Remove(cur, "i2c", Known(Located), out)
            BY <2>1, <2>2, <3>2, <3>6, Spared DEF Ifaces
        <3> QED BY <2>5, <3>1, <3>3, <3>4, <3>5, <3>6 DEF Invoke, MarkPresent, MarkAbsent
    <2> QED BY <2>4, <2>5
<1> QED BY <1>1, InductiveHolds, PTL DEF Spec, PowerOffKeepsDescription
==============================================================================
