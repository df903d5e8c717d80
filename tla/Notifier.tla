-------------------------------- MODULE Notifier --------------------------------
(***************************************************************************)
(* Notifier, the event loop, with the sinks main() and the platforms give  *)
(* it: DBusNotifySink, and one PolledDevicePresence for each polled        *)
(* connector.  A handler may start and stop the pollers of other           *)
(* connectors, throw, or take its own sink out of the loop.                *)
(*                                                                         *)
(* The kernel's part is the ready list of the epoll descriptor.  It may    *)
(* hold descriptors that are not readable any more: a level-triggered one  *)
(* goes to its end when it is reported, before the callback has drained it,*)
(* and is dropped only when a later epoll_wait comes to it.                *)
(***************************************************************************)
EXTENDS Naturals, Sequences

CONSTANTS Pollers,  \* PolledConnectors of the platform
          Root,     \* on Everest and Bonnell, the backplane's
          Bus,      \* main()'s DBusNotifySink
          Exit,     \* the nullptr sentinel of the signalfd
          Faults    \* what can fail, a subset of the following

FaultKinds == {"timer",      \* timerfd_create, timerfd_settime, epoll_ctl ADD
               "dbus",       \* sdbusplus throws out of process_discard()
               "callback",   \* a poller's callback throws an exception
               "int"}        \* ... or an int, which nobody catches

ASSUME SinksAssumption == Root \in Pollers /\ Bus \notin Pollers
                          /\ Exit \notin Pollers \cup {Bus}
ASSUME FaultsAssumption == Faults \subseteq FaultKinds

Sinks == Pollers \cup {Bus}

VARIABLES
    simics,    \* main() found SimicsExecutionEnvironment, which catches all
    hotplug,   \* Everest or Bonnell, whose backplane starts the other pollers;
               \* a Rainier starts all of its pollers before the loop
    pc,        \* what main() is doing
    sink,      \* the sink run() is calling, Exit when there is none
    connector, \* state of the backplane's Connector
    handler,   \* plug() or unplug() of the backplane, or what "throw"s
    engaged,   \* PolledConnector::poller holds a value
    timer,     \* PolledDevicePresence::timerfd: "none" is -1, a "stale" one
               \* is the number of a descriptor that has been closed
    interest,  \* sinks whose descriptor is registered with epoll
    ready,     \* the ready list of epoll
    readable,  \* the registered descriptors that have something to read
    abandoned  \* history: pollers that an exception has left behind

platform == <<connector, handler, engaged, timer, interest, abandoned>>
kernel == <<ready, readable>>
vars == <<simics, hotplug, pc, sink, platform, kernel>>

TypeOK ==
    /\ simics \in BOOLEAN /\ hotplug \in BOOLEAN
    /\ pc \in {"setup", "wait", "notify", "cleanup", "removeBus", "exited",
               "aborted"}
    /\ sink \in Sinks \cup {Exit}
    /\ connector \in {"uninitialised", "populated", "depopulated"}
    /\ handler \in {"none", "plug", "unplug", "throw"}
    /\ engaged \subseteq Pollers /\ abandoned \subseteq Pollers
    /\ timer \in [Pollers -> {"none", "open", "stale"}]
    /\ interest \subseteq Sinks
    /\ ready \in Seq(Sinks \cup {Exit})
    /\ readable \subseteq Sinks \cup {Exit}

Init == /\ simics \in BOOLEAN /\ hotplug \in BOOLEAN
        /\ pc = "setup" /\ sink = Exit
        /\ connector = "uninitialised" /\ handler = "none"
        /\ engaged = {} /\ timer = [p \in Pollers |-> "none"]
        /\ interest = {Bus} /\ ready = <<>> /\ readable = {}
        /\ abandoned = {}

(* The pollers of the backplane, members of the device that its connector  *)
(* constructs.  They are destroyed with it, without leaving epoll.         *)
Nested == IF hotplug THEN Pollers \ {Root} ELSE {}

Queued == {ready[i] : i \in DOMAIN ready}

(* A descriptor is in the list once at most.                               *)
Without(s) ==
    IF s \notin Queued THEN ready
    ELSE LET at == CHOOSE i \in DOMAIN ready : ready[i] = s
         IN  [i \in 1 .. Len(ready) - 1 |-> ready[IF i < at THEN i ELSE i + 1]]

------------------------------------------------------------------------------
(* Exceptions.                                                             *)

(* Nothing in detectFrus() catches: main() terminates, unless simics.  The *)
(* platform is on the stack of detectFrus().                               *)
Escape == /\ pc' = IF simics THEN "removeBus" ELSE "aborted"
          /\ sink' = Exit /\ handler' = "none"
          /\ engaged' = {} /\ abandoned' = abandoned \cup engaged
          /\ UNCHANGED <<connector, timer, interest, kernel>>

(* EPOLL_CTL_DEL fails, and remove() throws.                               *)
CannotRemove(s) ==
    IF s = Bus THEN s \notin interest
               ELSE timer[s] # "none" /\ s \notin interest

(* Mutant: what epoll has found readable before the removal stays ready.   *)
RemovedStillReady(s) ==
    /\ interest' = interest \ {s}
    /\ UNCHANGED kernel
    /\ timer' = IF s \in Pollers THEN [timer EXCEPT ![s] = "none"] ELSE timer

(* remove() of a sink that can be removed: one that is disarmed is skipped.*)
Removed(s) ==
    /\ interest' = interest \ {s}
    /\ ready' = Without(s) /\ readable' = readable \ {s}
    /\ timer' = IF s \in Pollers THEN [timer EXCEPT ![s] = "none"] ELSE timer

(* Mutant: run() does not catch what its callback throws.                  *)
LetEscape(s) == Escape

(* Mutant: run() catches it and leaves the sink in the loop.               *)
KeepSink(s) ==
    /\ pc' = "wait" /\ sink' = Exit /\ handler' = "none"
    /\ UNCHANGED <<connector, engaged, timer, interest, abandoned, kernel>>

(* run() catches what its callback throws and disables the sink.  A plug() *)
(* that throws leaves pollers under a connector that is not populated.     *)
Disable(s) ==
    IF CannotRemove(s)
    THEN Escape
    ELSE /\ pc' = "wait" /\ sink' = Exit /\ handler' = "none"
         /\ Removed(s)
         /\ abandoned' = IF s = Root /\ connector # "populated"
                         THEN abandoned \cup (engaged \cap Nested) ELSE abandoned
         /\ UNCHANGED <<engaged, connector>>

(* add() or remove() has thrown an error_condition.                        *)
Throw == /\ handler = "throw"
         /\ IF pc = "notify" THEN Disable(sink) ELSE Escape
         /\ UNCHANGED <<simics, hotplug>>

------------------------------------------------------------------------------
(* The kernel.                                                             *)

(* A timer expires, a message arrives on the bus, or a signal, which is    *)
(* blocked.  What is in the ready list already keeps its place there.      *)
Readable(s) ==
    /\ pc \notin {"exited", "aborted"}
    /\ s \in (interest \cup {Exit}) \ readable
    /\ s = Exit => pc \in {"setup", "wait", "notify"}
    /\ readable' = readable \cup {s}
    /\ ready' = IF s \in Queued THEN ready ELSE Append(ready, s)
    /\ UNCHANGED <<simics, hotplug, pc, sink, platform>>

------------------------------------------------------------------------------
(* PolledConnector: start() and stop(), called by the platform while it is *)
(* plugged and unplugged, and by the backplane's plug() and unplug().      *)

Starts(p) == \/ pc = "setup" /\ handler = "none" /\ p \notin Nested
             \/ handler = "plug" /\ p \in Nested
Stops(p) == \/ pc = "cleanup" /\ handler = "none" /\ p \notin Nested
            \/ handler = "unplug" /\ p \in Nested

(* Mutant: the poller is registered with the sentinel's null pointer.      *)
StartUnderNull(p) ==
    /\ Starts(p) /\ p \notin engaged
    /\ engaged' = engaged \cup {p}
    /\ timer' = [timer EXCEPT ![p] = "open"]
    /\ interest' = interest \cup {Exit}
    /\ UNCHANGED <<simics, hotplug, pc, sink, connector, handler, abandoned, kernel>>

Start(p) ==
    /\ Starts(p) /\ p \notin engaged
    /\ engaged' = engaged \cup {p}
    /\ timer' = [timer EXCEPT ![p] = "open"]
    /\ interest' = interest \cup {p}
    /\ UNCHANGED <<simics, hotplug, pc, sink, connector, handler, abandoned, kernel>>

(* The poller stays engaged, with no descriptor, with one that is closed,  *)
(* or with one that is not registered, and add() throws.                   *)
StartFails(p) ==
    /\ "timer" \in Faults
    /\ Starts(p) /\ p \notin engaged
    /\ engaged' = engaged \cup {p}
    /\ \E fd \in {"none", "open", "stale"} : timer' = [timer EXCEPT ![p] = fd]
    /\ handler' = "throw"
    /\ UNCHANGED <<simics, hotplug, pc, sink, connector, interest, abandoned, kernel>>

Stop(p) ==
    /\ Stops(p) /\ p \in engaged
    /\ IF CannotRemove(p)
       THEN handler' = "throw" /\ UNCHANGED <<engaged, timer, interest, kernel>>
       ELSE /\ Removed(p)
            /\ engaged' = engaged \ {p}
            /\ UNCHANGED handler
    /\ UNCHANGED <<simics, hotplug, pc, sink, connector, abandoned>>

(* An exception of the platform's own, which only a callback survives.  The*)
(* exit of a backplane has stopped its pollers when it comes to code that  *)
(* throws.                                                                 *)
PlatformThrows ==
    /\ Faults \cap {"callback", "int"} # {}
    /\ \/ pc = "setup"
       \/ pc = "cleanup" /\ (hotplug => handler = "unplug" /\ Nested \cap engaged = {})
    /\ handler # "throw"
    /\ Escape
    /\ UNCHANGED <<simics, hotplug>>

------------------------------------------------------------------------------
(* The Connector of the backplane, in a callback of Root or on exit.       *)

CallbackEnds == pc' = "wait" /\ sink' = Exit

BackplaneCalled == hotplug /\ pc = "notify" /\ sink = Root /\ handler = "none"

(* populate(): ctor() replaces the device before it is plugged.            *)
Populate ==
    /\ BackplaneCalled /\ connector # "populated"
    /\ handler' = "plug" /\ engaged' = engaged \ Nested
    /\ UNCHANGED <<simics, hotplug, pc, sink, connector, timer, interest, abandoned,
                   kernel>>

Populated ==
    /\ handler = "plug" /\ Nested \subseteq engaged
    /\ connector' = "populated" /\ handler' = "none" /\ CallbackEnds
    /\ UNCHANGED <<simics, hotplug, engaged, timer, interest, abandoned, kernel>>

(* depopulate(): ctor() replaces the device of a connector that has never  *)
(* been populated; one that is depopulated is left alone.                  *)
Depopulate ==
    /\ BackplaneCalled \/ (hotplug /\ pc = "cleanup" /\ Root \notin engaged
                              /\ handler = "none")
    /\ connector # "depopulated"
    /\ handler' = "unplug"
    /\ engaged' = IF connector = "uninitialised" THEN engaged \ Nested ELSE engaged
    /\ UNCHANGED <<simics, hotplug, pc, sink, connector, timer, interest, abandoned,
                   kernel>>

Depopulated ==
    /\ handler = "unplug" /\ Nested \cap engaged = {}
    /\ connector' = "depopulated" /\ handler' = "none"
    /\ IF pc = "notify" THEN CallbackEnds ELSE UNCHANGED <<pc, sink>>
    /\ UNCHANGED <<simics, hotplug, engaged, timer, interest, abandoned, kernel>>

------------------------------------------------------------------------------
(* Notifier::run().                                                        *)

Run == /\ pc = "setup" /\ handler = "none"
       /\ hotplug => Root \in engaged
       /\ pc' = "wait"
       /\ UNCHANGED <<simics, hotplug, sink, platform, kernel>>

(* epoll_wait comes to a descriptor that has been drained.                 *)
Drop == /\ pc = "wait" /\ ready # <<>> /\ Head(ready) \notin readable
        /\ ready' = Tail(ready)
        /\ UNCHANGED <<simics, hotplug, pc, sink, platform, readable>>

(* ... or reports one that is readable, and the process reads from it all  *)
(* there is to read: drain(), process_discard(), or the signalfd.          *)
Report(s) == /\ pc = "wait" /\ ready # <<>> /\ s = Head(ready) /\ s \in readable
             /\ ready' = Append(Tail(ready), s) /\ readable' = readable \ {s}
             /\ UNCHANGED <<simics, hotplug, platform>>

(* Mutant: run() drops the event when it is not the exit sentinel.         *)
DispatchNothing == \E s \in Sinks : Report(s) /\ UNCHANGED <<pc, sink>>

Dispatch == \E s \in Sinks : Report(s) /\ pc' = "notify" /\ sink' = s

(* Mutant: the sentinel is taken for a sink with nothing to do.            *)
IgnoreSignal ==
    /\ pc = "wait" /\ ready # <<>> /\ Head(ready) = Exit /\ Exit \in readable
    /\ ready' = Append(Tail(ready), Exit)
    /\ UNCHANGED <<simics, hotplug, pc, sink, platform, readable>>

ExitLoop == Report(Exit) /\ pc' = "cleanup" /\ UNCHANGED sink

(* The backplane's connector does nothing when it is populated and polled  *)
(* present, or depopulated and polled absent.                              *)
Return ==
    /\ pc = "notify" /\ handler = "none"
    /\ BackplaneCalled => connector # "uninitialised"
    /\ CallbackEnds
    /\ UNCHANGED <<simics, hotplug, platform, kernel>>

CallbackThrows ==
    /\ pc = "notify" /\ handler # "throw"
    /\ IF sink = Bus THEN "dbus" \in Faults ELSE "callback" \in Faults
    /\ Disable(sink)
    /\ UNCHANGED <<simics, hotplug>>

(* SysfsI2CDeviceDriverBindException out of probeDevice(), with which the  *)
(* backplane's plug() begins: the sink removes itself and returns.         *)
SelfRemove ==
    /\ handler = "plug" /\ Nested \cap engaged = {}
    /\ Removed(sink) /\ CallbackEnds /\ handler' = "none"
    /\ UNCHANGED <<simics, hotplug, engaged, connector, abandoned>>

IntEscapes ==
    /\ "int" \in Faults /\ pc = "notify" /\ sink \in Pollers /\ handler # "throw"
    /\ Escape
    /\ UNCHANGED <<simics, hotplug>>

------------------------------------------------------------------------------
(* The end of detectFrus() and of main().                                  *)

(* Mutant: the exit stops the backplane's poller and leaves its connector. *)
RootCleanedUp ==
    /\ pc = "cleanup" /\ handler = "none" /\ engaged \subseteq Nested
    /\ pc' = "removeBus" /\ engaged' = {}
    /\ UNCHANGED <<simics, hotplug, sink, connector, handler, timer, interest,
                   abandoned, kernel>>

(* All is unplugged and the platform destroyed, with whatever pollers a    *)
(* connector holds on to that was depopulated already.                     *)
CleanedUp ==
    /\ pc = "cleanup" /\ handler = "none" /\ engaged \subseteq Nested
    /\ hotplug => connector = "depopulated"
    /\ pc' = "removeBus" /\ engaged' = {}
    /\ UNCHANGED <<simics, hotplug, sink, connector, handler, timer, interest,
                   abandoned, kernel>>

RemoveBus == /\ pc = "removeBus"
             /\ IF CannotRemove(Bus)
                THEN pc' = "aborted" /\ UNCHANGED <<timer, interest, kernel>>
                ELSE pc' = "exited" /\ Removed(Bus)
             /\ UNCHANGED <<simics, hotplug, sink, connector, handler, engaged,
                            abandoned>>

(* Nothing happens once the process is gone.                               *)
Finished == pc \in {"exited", "aborted"} /\ UNCHANGED vars

Kernel == \E s \in Sinks \cup {Exit} : Readable(s)

Process == \/ Throw \/ PlatformThrows
           \/ Run \/ Drop \/ Dispatch \/ ExitLoop
           \/ Return \/ CallbackThrows \/ SelfRemove \/ IntEscapes
           \/ Populate \/ Populated \/ Depopulate \/ Depopulated
           \/ CleanedUp \/ RemoveBus
           \/ \E p \in Pollers : Start(p) \/ StartFails(p) \/ Stop(p)

Next == Kernel \/ Process \/ Finished

Spec == Init /\ [][Next]_vars

(* The process is sequential code that does not block but in epoll_wait.   *)
(* That no sink is starved is not assumed but follows from the order of    *)
(* the ready list.                                                         *)
FairSpec == Spec /\ WF_vars(Process)

------------------------------------------------------------------------------
(* From the first start() to the end of the loop, after which the exit may *)
(* destroy pollers that are registered.                                    *)
Looping == pc \in {"setup", "wait", "notify"}

(* Until the loop ends, epoll never holds the address of a poller that has *)
(* been destroyed or disarmed, whatever handlers start, stop and throw, and*)
(* though ctor() destroys the pollers of the device it replaces.           *)
RegisteredIsArmed ==
    Looping => \A p \in interest \cap Pollers : p \in engaged /\ timer[p] = "open"

(* No exception or error_condition out of a callback ends the loop, only   *)
(* the ints that SysfsI2CBus and SysfsGPIOChip throw do: removing the sink *)
(* from within the catch clauses does not throw again.  Nor does the exit  *)
(* come to a poller that it cannot remove.                                 *)
LoopSurvives ==
    [][/\ (pc = "notify" /\ pc' \in {"aborted", "removeBus"}) => IntEscapes
       /\ (pc = "cleanup" /\ pc' # "cleanup") => CleanedUp \/ PlatformThrows]_vars

(* What becomes of a poller.                                               *)
Life(p) == INSTANCE PollerLife
           WITH made <- p \in engaged, armed <- p \in interest,
                due <- p \in readable, called <- pc = "notify" /\ sink = p

(* Until the loop ends, every poller lives as PollerLife says, with        *)
(* handlers that start, stop and throw: none is called, not even for an    *)
(* expiry that epoll has already noted, once another's callback has stopped*)
(* it, none is destroyed while it is armed, and none is armed again that   *)
(* has been disarmed and not stopped.                                      *)
PollersKeepPromise ==
    /\ \A p \in Pollers : Life(p)!Init
    /\ [][\A p \in Pollers : (Looping /\ Looping') =>
             Life(p)!Next \/ UNCHANGED Life(p)!vars]_vars

(* A process that exits has taken every poller out of epoll and closed its *)
(* timer, but for those that an exception has left behind: on its way out  *)
(* of detectFrus(), or out of the backplane's plug() half way through, of  *)
(* which the exit destroys or passes by what has been started.             *)
ExitReleasesAll ==
    pc = "exited" =>
        \A p \in Pollers : (p \in interest \/ timer[p] # "none") => p \in abandoned

Ahead(r, s) == \E i, j \in DOMAIN ready : i < j /\ ready[i] = r /\ ready[j] = s

(* Nobody gets ahead of a descriptor while it waits to be served, and what *)
(* is served before it was ahead of it and is behind it then: from when it *)
(* becomes readable, each other sink is called at most once before it, also*)
(* one that is readable again at the end of its own callback.              *)
ServedInOrder ==
    [][\A r, s \in Sinks \cup {Exit} :
          /\ (s \in readable \cap readable' /\ Ahead(r, s)') => Ahead(r, s)
          /\ (pc = "wait" /\ pc' = "notify" /\ sink' = r /\ s \in readable')
                 => Ahead(r, s) /\ ~Ahead(r, s)']_vars

(* A descriptor that is readable is served, unless it is taken out of the  *)
(* loop first, however often the others become readable again.             *)
ReadyIsServed ==
    \A s \in Sinks :
        (pc = "wait" /\ s \in readable) ~> (sink = s \/ s \notin interest \/ ~Looping)

(* SIGINT and SIGQUIT end the process, however busy the sinks are.         *)
SignalEnds == Exit \in readable ~> pc \in {"exited", "aborted"}

(* "Skipping disarmed sink" (Notifier::remove): removing a sink that run() *)
(* has disabled already is harmless, also for main()'s DBusNotifySink.     *)
RemovedAgainIsSkipped == [][pc = "removeBus" => pc' # "aborted"]_vars
==============================================================================
