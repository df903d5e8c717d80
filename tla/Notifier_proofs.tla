----------------------------- MODULE Notifier_proofs -----------------------------
(***************************************************************************)
(* Proofs about Notifier for any set of pollers and any faults.            *)
(***************************************************************************)
EXTENDS Notifier, TLAPS

(* The ready list holds what is registered, each descriptor once, and      *)
(* everything that is readable.                                            *)
ReadyList ==
    /\ \A i \in DOMAIN ready : ready[i] \in interest \cup {Exit}
    /\ \A i, j \in DOMAIN ready : ready[i] = ready[j] => i = j
    /\ readable \subseteq Queued

(* A poller that is registered has an open descriptor, and the sink of a   *)
(* running callback is still registered: this is why the catch clauses of  *)
(* run() can remove it.                                                    *)
Registration ==
    /\ \A p \in interest \cap Pollers : timer[p] = "open"
    /\ pc = "notify" => sink \in interest
    /\ pc # "notify" => sink = Exit
    /\ pc = "exited" => Bus \notin interest

Clean(p) == timer[p] = "none" /\ p \notin interest

(* A poller that is not engaged has left no descriptor behind, unless an   *)
(* exception has abandoned it; until the loop ends, none has.              *)
Release ==
    /\ \A p \in Pollers : p \in engaged \/ Clean(p) \/ (p \in abandoned /\ ~Looping)
    /\ pc \in {"removeBus", "exited", "aborted"} => engaged = {}

(* Whose plug() or unplug() runs or has thrown, and on what connector.     *)
Handlers ==
    /\ handler \in {"plug", "unplug"} => hotplug
    /\ handler = "plug" => pc = "notify" /\ sink = Root /\ connector # "populated"
    /\ handler = "unplug" => pc = "cleanup" \/ (pc = "notify" /\ sink = Root)
    /\ handler = "throw" =>
           pc = "setup" \/ (pc = "notify" /\ sink = Root /\ connector # "populated")

(* The pollers of a backplane whose connector is not populated are those of*)
(* a plug() that runs, or that has thrown and left them abandoned under a  *)
(* poller that is never called again: this is why ctor() does not destroy  *)
(* one that is registered before the loop ends.                            *)
HalfPlugged ==
    /\ pc = "setup" => engaged \cap Nested = {}
    /\ (handler = "unplug" /\ connector # "populated") => engaged \cap Nested = {}
    /\ \/ connector = "populated"
       \/ engaged \cap Nested = {}
       \/ pc = "notify" /\ handler \in {"plug", "throw"}
       \/ Root \notin interest /\ engaged \cap Nested \subseteq abandoned

(* A poller that epoll will not remove was left behind by a start() that   *)
(* threw, where stop() does not come.                                      *)
Unremovable ==
    \A p \in engaged : (timer[p] # "none" /\ p \notin interest) =>
        \/ pc = "setup" /\ handler = "throw"
        \/ p \in Nested /\ connector # "populated" /\ handler # "plug"

Inductive == TypeOK /\ ReadyList /\ Registration /\ Release
             /\ Handlers /\ HalfPlugged /\ Unremovable

LEMMA SinksFacts ==
    /\ Root \in Pollers /\ Bus \notin Pollers /\ Exit \notin Sinks
    /\ Pollers \subseteq Sinks /\ Bus \in Sinks
    /\ \A s \in Sinks : s # Bus => s \in Pollers
BY SinksAssumption DEF Sinks

LEMMA NestedFacts == Nested \subseteq Pollers \ {Root} /\ (~hotplug => Nested = {})
BY DEF Nested

------------------------------------------------------------------------------
(* The ready list.                                                         *)

LEMMA WithoutFacts ==
    ASSUME TypeOK, ReadyList, NEW s \in Sinks
    PROVE  /\ Without(s) \in Seq(Sinks \cup {Exit})
           /\ \A i \in DOMAIN Without(s) : Without(s)[i] \in Queued \ {s}
           /\ \A i, j \in DOMAIN Without(s) : Without(s)[i] = Without(s)[j] => i = j
<1>t. ready \in Seq(Sinks \cup {Exit}) /\ Len(ready) \in Nat
      /\ DOMAIN ready = 1 .. Len(ready)
    BY DEF TypeOK
<1>1. CASE s \notin Queued
    BY <1>1, <1>t DEF Without, ReadyList, Queued
<1>2. CASE s \in Queued
    <2> DEFINE at == CHOOSE i \in DOMAIN ready : ready[i] = s
               From(i) == IF i < at THEN i ELSE i + 1
               rest == [i \in 1 .. Len(ready) - 1 |-> ready[From(i)]]
    <2>1. at \in 1 .. Len(ready) /\ ready[at] = s
        BY <1>2, <1>t DEF Queued
    <2>2. Without(s) = rest
        BY <1>2 DEF Without
    <2> HIDE DEF at
    <2>3. Len(ready) - 1 \in Nat
        BY <1>t, <2>1
    <2>4. \A i \in 1 .. Len(ready) - 1 : From(i) \in 1 .. Len(ready) /\ From(i) # at
        BY <1>t, <2>1
    <2>5. \A i, j \in 1 .. Len(ready) - 1 : From(i) = From(j) => i = j
        BY <1>t, <2>1
    <2> HIDE DEF From
    <2>6. \A i \in 1 .. Len(ready) - 1 :
              rest[i] \in Queued \ {s} /\ rest[i] \in Sinks \cup {Exit}
        BY <1>t, <2>1, <2>4 DEF ReadyList, Queued
    <2>7. \A i, j \in 1 .. Len(ready) - 1 : rest[i] = rest[j] => i = j
        BY <1>t, <2>4, <2>5 DEF ReadyList
    <2>8. rest \in Seq(Sinks \cup {Exit}) /\ DOMAIN rest = 1 .. Len(ready) - 1
        BY <2>3, <2>6
    <2> HIDE DEF rest
    <2> QED BY <2>2, <2>6, <2>7, <2>8
<1> QED BY <1>1, <1>2

LEMMA QueuedWithout ==
    ASSUME TypeOK, ReadyList, NEW s \in Sinks, ready' = Without(s)
    PROVE  Queued' = Queued \ {s}
<1>t. ready \in Seq(Sinks \cup {Exit}) /\ Len(ready) \in Nat
      /\ DOMAIN ready = 1 .. Len(ready)
    BY DEF TypeOK
<1>1. Queued' \subseteq Queued \ {s}
    BY WithoutFacts DEF Queued
<1>2. CASE s \notin Queued
    BY <1>2 DEF Without, Queued
<1>3. CASE s \in Queued
    <2> DEFINE at == CHOOSE i \in DOMAIN ready : ready[i] = s
    <2>1. at \in 1 .. Len(ready) /\ ready[at] = s
        BY <1>3, <1>t DEF Queued
    <2>2. Without(s) = [i \in 1 .. Len(ready) - 1 |-> ready[IF i < at THEN i ELSE i + 1]]
        BY <1>3 DEF Without
    <2> HIDE DEF at
    <2>3. ASSUME NEW x \in Queued \ {s} PROVE x \in Queued'
        <3>1. PICK k \in 1 .. Len(ready) : ready[k] = x
            BY <1>t DEF Queued
        <3>2. k # at
            BY <2>1, <3>1
        <3>3. CASE k < at
            <4>1. k \in 1 .. Len(ready) - 1
                BY <1>t, <2>1, <3>1, <3>3
            <4>2. ready'[k] = x /\ k \in DOMAIN ready'
                BY <2>2, <3>1, <3>3, <4>1
            <4> QED BY <4>2 DEF Queued
        <3>4. CASE ~(k < at)
            <4>1. k - 1 \in 1 .. Len(ready) - 1 /\ ~(k - 1 < at) /\ (k - 1) + 1 = k
                BY <1>t, <2>1, <3>1, <3>2, <3>4
            <4>2. ready'[k - 1] = x /\ k - 1 \in DOMAIN ready'
                BY <2>2, <3>1, <4>1
            <4> QED BY <4>2 DEF Queued
        <3> QED BY <3>3, <3>4
    <2> QED BY <1>1, <2>3
<1> QED BY <1>2, <1>3

LEMMA TailFacts ==
    ASSUME TypeOK, ReadyList, ready # <<>>
    PROVE  /\ Tail(ready) \in Seq(Sinks \cup {Exit})
           /\ \A i \in DOMAIN Tail(ready) : Tail(ready)[i] \in Queued \ {Head(ready)}
           /\ \A i, j \in DOMAIN Tail(ready) : Tail(ready)[i] = Tail(ready)[j] => i = j
           /\ Head(ready) \in Queued
<1>1. ready \in Seq(Sinks \cup {Exit}) /\ Len(ready) \in Nat \ {0}
      /\ DOMAIN ready = 1 .. Len(ready) /\ Head(ready) = ready[1]
    BY DEF TypeOK
<1>2. Tail(ready) \in Seq(Sinks \cup {Exit})
      /\ DOMAIN Tail(ready) = 1 .. Len(ready) - 1
      /\ \A i \in 1 .. Len(ready) - 1 : Tail(ready)[i] = ready[i + 1]
    BY <1>1
<1>3. \A i \in 1 .. Len(ready) - 1 : i + 1 \in 1 .. Len(ready) /\ i + 1 # 1
    BY <1>1
<1> QED BY <1>1, <1>2, <1>3 DEF ReadyList, Queued

LEMMA QueuedTail ==
    ASSUME TypeOK, ReadyList, ready # <<>>, ready' = Tail(ready)
    PROVE  Queued' = Queued \ {Head(ready)} /\ Head(ready) \in Queued
<1>1. ready \in Seq(Sinks \cup {Exit}) /\ Len(ready) \in Nat \ {0}
      /\ DOMAIN ready = 1 .. Len(ready) /\ Head(ready) = ready[1]
    BY DEF TypeOK
<1>2. DOMAIN Tail(ready) = 1 .. Len(ready) - 1
      /\ \A i \in 1 .. Len(ready) - 1 : Tail(ready)[i] = ready[i + 1]
    BY <1>1
<1>3. ASSUME NEW x \in Queued \ {Head(ready)} PROVE x \in Queued'
    <2>1. PICK k \in 1 .. Len(ready) : ready[k] = x
        BY <1>1 DEF Queued
    <2>2. k - 1 \in 1 .. Len(ready) - 1 /\ (k - 1) + 1 = k
        BY <1>1, <2>1
    <2>3. ready'[k - 1] = x /\ k - 1 \in DOMAIN ready'
        BY <1>2, <2>1, <2>2
    <2> QED BY <2>3 DEF Queued
<1>4. Queued' \subseteq Queued \ {Head(ready)}
    BY TailFacts DEF Queued
<1> QED BY <1>3, <1>4, TailFacts

LEMMA AppendFacts ==
    ASSUME TypeOK, ReadyList, NEW s \in Sinks \cup {Exit}, s \notin Queued
    PROVE  /\ Append(ready, s) \in Seq(Sinks \cup {Exit})
           /\ \A i \in DOMAIN Append(ready, s) :
                  Append(ready, s)[i] \in Queued \cup {s}
           /\ \A i, j \in DOMAIN Append(ready, s) :
                  Append(ready, s)[i] = Append(ready, s)[j] => i = j
<1>1. ready \in Seq(Sinks \cup {Exit}) /\ Len(ready) \in Nat
      /\ DOMAIN ready = 1 .. Len(ready)
    BY DEF TypeOK
<1>2. Append(ready, s) \in Seq(Sinks \cup {Exit})
      /\ DOMAIN Append(ready, s) = 1 .. Len(ready) + 1
      /\ (\A i \in 1 .. Len(ready) : Append(ready, s)[i] = ready[i])
      /\ Append(ready, s)[Len(ready) + 1] = s
    BY <1>1
<1>3. \A i \in 1 .. Len(ready) + 1 : i \in 1 .. Len(ready) \/ i = Len(ready) + 1
    BY <1>1
<1>4. \A i \in 1 .. Len(ready) : ready[i] \in Queued /\ ready[i] # s
    BY <1>1 DEF Queued
<1> QED BY <1>1, <1>2, <1>3, <1>4 DEF ReadyList

LEMMA QueuedAppend ==
    ASSUME TypeOK, NEW s, ready' = Append(ready, s)
    PROVE  Queued' = Queued \cup {s}
<1>1. ready \in Seq(Sinks \cup {Exit}) /\ Len(ready) \in Nat
      /\ DOMAIN ready = 1 .. Len(ready)
    BY DEF TypeOK
<1>2. DOMAIN Append(ready, s) = 1 .. Len(ready) + 1
      /\ (\A i \in 1 .. Len(ready) : Append(ready, s)[i] = ready[i])
      /\ Append(ready, s)[Len(ready) + 1] = s
    BY <1>1
<1>3. Len(ready) + 1 \in 1 .. Len(ready) + 1
      /\ (\A i \in 1 .. Len(ready) : i \in 1 .. Len(ready) + 1)
      /\ \A i \in 1 .. Len(ready) + 1 : i \in 1 .. Len(ready) \/ i = Len(ready) + 1
    BY <1>1
<1>4. Queued' \subseteq Queued \cup {s}
    BY <1>1, <1>2, <1>3 DEF Queued
<1>5. Queued \cup {s} \subseteq Queued'
    BY <1>1, <1>2, <1>3 DEF Queued
<1> QED BY <1>4, <1>5

(* The descriptor that is reported goes to the end.                        *)
LEMMA RequeueFacts ==
    ASSUME TypeOK, ReadyList, ready # <<>>,
           ready' = Append(Tail(ready), Head(ready))
    PROVE  /\ ready' \in Seq(Sinks \cup {Exit}) /\ Queued' = Queued
           /\ \A i, j \in DOMAIN ready' : ready'[i] = ready'[j] => i = j
           /\ Len(ready) \in Nat \ {0} /\ DOMAIN ready = 1 .. Len(ready)
           /\ DOMAIN ready' = 1 .. Len(ready)
           /\ \A i \in 1 .. Len(ready) - 1 : ready'[i] = ready[i + 1]
           /\ ready'[Len(ready)] = ready[1] /\ Head(ready) = ready[1]
           /\ Head(ready) \in Queued
<1>1. ready \in Seq(Sinks \cup {Exit}) /\ Len(ready) \in Nat \ {0}
      /\ DOMAIN ready = 1 .. Len(ready) /\ Head(ready) = ready[1]
    BY DEF TypeOK
<1> DEFINE rest == Tail(ready)
<1>2. rest \in Seq(Sinks \cup {Exit}) /\ Len(rest) = Len(ready) - 1
      /\ \A i \in 1 .. Len(ready) - 1 : rest[i] = ready[i + 1]
    BY <1>1
<1>3. Head(ready) \in Sinks \cup {Exit}
    BY <1>1
<1> HIDE DEF rest
<1>4. ready' = Append(rest, Head(ready))
    BY DEF rest
<1>5. ready' \in Seq(Sinks \cup {Exit}) /\ DOMAIN ready' = 1 .. Len(ready)
      /\ (\A i \in 1 .. Len(ready) - 1 : ready'[i] = ready[i + 1])
      /\ ready'[Len(ready)] = ready[1]
    BY <1>1, <1>2, <1>3, <1>4
<1> DEFINE n == Len(ready)
           From(i) == IF i = n THEN 1 ELSE i + 1
<1>n. n \in Nat \ {0} /\ DOMAIN ready = 1 .. n /\ DOMAIN ready' = 1 .. n
      /\ (\A i \in 1 .. n - 1 : ready'[i] = ready[i + 1]) /\ ready'[n] = ready[1]
    BY <1>1, <1>5
<1> HIDE DEF n
<1>6. \A i \in 1 .. n : From(i) \in 1 .. n /\ ready'[i] = ready[From(i)]
    <2> TAKE i \in 1 .. n
    <2>1. CASE i = n
        BY <1>n, <2>1
    <2>2. CASE i # n
        <3>1. i \in 1 .. n - 1 /\ i + 1 \in 1 .. n
            BY <1>n, <2>2
        <3> QED BY <1>n, <2>2, <3>1
    <2> QED BY <2>1, <2>2
<1>7. \A i, j \in 1 .. n : From(i) = From(j) => i = j
    BY <1>n
<1>8. \A k \in 1 .. n : \E i \in 1 .. n : From(i) = k
    <2> TAKE k \in 1 .. n
    <2>1. CASE k = 1
        <3>1. n \in 1 .. n /\ From(n) = k
            BY <1>n, <2>1
        <3> QED BY <3>1
    <2>2. CASE k # 1
        <3>1. k - 1 \in 1 .. n /\ From(k - 1) = k
            BY <1>n, <2>2
        <3> QED BY <3>1
    <2> QED BY <2>1, <2>2
<1> HIDE DEF From
<1>9. Queued' = Queued
    <2>1. ASSUME NEW x \in Queued' PROVE x \in Queued
        <3>1. PICK i \in 1 .. n : ready'[i] = x
            BY <1>n DEF Queued
        <3> QED BY <1>n, <1>6, <3>1 DEF Queued
    <2>2. ASSUME NEW x \in Queued PROVE x \in Queued'
        <3>1. PICK k \in 1 .. n : ready[k] = x
            BY <1>n DEF Queued
        <3>2. PICK i \in 1 .. n : From(i) = k
            BY <1>8
        <3>3. ready'[i] = x
            BY <1>6, <3>1, <3>2
        <3> QED BY <1>n, <3>3 DEF Queued
    <2> QED BY <2>1, <2>2
<1>10. \A i, j \in DOMAIN ready' : ready'[i] = ready'[j] => i = j
    <2> SUFFICES ASSUME NEW i \in 1 .. n, NEW j \in 1 .. n, ready'[i] = ready'[j]
                 PROVE  i = j
        BY <1>n
    <2>1. ready[From(i)] = ready[From(j)] /\ From(i) \in 1 .. n /\ From(j) \in 1 .. n
        BY <1>6
    <2>2. From(i) = From(j)
        BY <1>n, <2>1 DEF ReadyList
    <2> QED BY <1>7, <2>2
<1>11. Head(ready) \in Queued
    BY <1>1 DEF Queued
<1> QED BY <1>1, <1>5, <1>9, <1>10, <1>11

------------------------------------------------------------------------------
(* What remove() leaves of the invariant, for the steps that call it.      *)
LEMMA RemovedFacts ==
    ASSUME Inductive, NEW s \in Sinks, Removed(s)
    PROVE  /\ interest' = interest \ {s} /\ interest' \subseteq Sinks
           /\ timer' \in [Pollers -> {"none", "open", "stale"}]
           /\ s \in Pollers => Clean(s)'
           /\ \A p \in Pollers : p # s => timer'[p] = timer[p]
           /\ \A p \in Pollers : Clean(p) => Clean(p)'
           /\ \A p \in interest' \cap Pollers : timer'[p] = "open"
           /\ \A p \in Pollers : timer'[p] # "none" /\ p \notin interest'
                                     => timer[p] # "none" /\ p \notin interest
           /\ ready' \in Seq(Sinks \cup {Exit}) /\ readable' \subseteq Sinks \cup {Exit}
           /\ ReadyList'
<1>1. ready' = Without(s) /\ interest' = interest \ {s} /\ readable' = readable \ {s}
      /\ timer' = IF s \in Pollers THEN [timer EXCEPT ![s] = "none"] ELSE timer
    BY DEF Removed
<1>2. /\ timer' \in [Pollers -> {"none", "open", "stale"}]
      /\ s \in Pollers => timer'[s] = "none"
      /\ \A p \in Pollers : p # s => timer'[p] = timer[p]
    BY <1>1 DEF Inductive, TypeOK
<1>3. \A i \in DOMAIN ready' : ready'[i] \in Queued \ {s}
    BY <1>1, WithoutFacts DEF Inductive
<1>4. Queued \subseteq interest \cup {Exit}
    BY DEF Inductive, ReadyList, Queued
<1>5. Queued' = Queued \ {s}
    BY <1>1, QueuedWithout DEF Inductive
<1>6. ReadyList'
    BY <1>1, <1>3, <1>4, <1>5, WithoutFacts DEF Inductive, ReadyList
<1>7. ready' \in Seq(Sinks \cup {Exit})
    BY <1>1, WithoutFacts DEF Inductive
<1>8. \A p \in interest' \cap Pollers : timer'[p] = "open"
    BY <1>1, <1>2 DEF Inductive, Registration
<1>9. \A p \in Pollers : timer'[p] # "none" /\ p \notin interest'
                             => timer[p] # "none" /\ p \notin interest
    BY <1>1, <1>2
<1>10. \A p \in Pollers : Clean(p) => Clean(p)'
    BY <1>1, <1>2 DEF Clean
<1>11. s \in Pollers => Clean(s)'
    BY <1>1, <1>2 DEF Clean
<1>12. interest' \subseteq Sinks /\ readable' \subseteq Sinks \cup {Exit}
    BY <1>1 DEF Inductive, TypeOK
<1> QED BY <1>1, <1>2, <1>6, <1>7, <1>8, <1>9, <1>10, <1>11, <1>12

LEMMA EscapeStep ==
    ASSUME Inductive, pc \in {"setup", "notify", "cleanup"}, Escape,
           UNCHANGED <<simics, hotplug>>
    PROVE  Inductive'
<1>1. /\ pc' \in {"removeBus", "aborted"} /\ sink' = Exit /\ handler' = "none"
      /\ engaged' = {} /\ abandoned' = abandoned \cup engaged
      /\ UNCHANGED <<simics, hotplug, connector, timer, interest, ready, readable>>
    BY DEF Escape, kernel
<1>2. TypeOK'
    BY <1>1 DEF Inductive, TypeOK
<1>3. ReadyList'
    BY <1>1 DEF Inductive, ReadyList, Queued
<1>4. Registration'
    BY <1>1 DEF Inductive, Registration
<1>5. Release'
    BY <1>1 DEF Inductive, Release, Clean, Looping
<1>6. Handlers' /\ HalfPlugged' /\ Unremovable'
    BY <1>1 DEF Handlers, HalfPlugged, Unremovable
<1> QED BY <1>2, <1>3, <1>4, <1>5, <1>6 DEF Inductive

(* The sink of the running callback is registered, so disabling it does    *)
(* not throw again.                                                        *)
LEMMA DisableFacts ==
    ASSUME Inductive, pc = "notify", Disable(sink)
    PROVE  /\ pc' = "wait" /\ sink' = Exit /\ handler' = "none"
           /\ Removed(sink) /\ sink \in Sinks
           /\ UNCHANGED <<engaged, connector>>
           /\ abandoned' = IF sink = Root /\ connector # "populated"
                           THEN abandoned \cup (engaged \cap Nested) ELSE abandoned
<1>1. sink \in interest /\ sink \in Sinks
    BY DEF Inductive, TypeOK, Registration
<1>2. ~CannotRemove(sink)
    BY <1>1 DEF CannotRemove
<1> QED BY <1>1, <1>2 DEF Disable

LEMMA DisableStep ==
    ASSUME Inductive, pc = "notify", Disable(sink), UNCHANGED <<simics, hotplug>>
    PROVE  Inductive'
<1>1. /\ pc' = "wait" /\ sink' = Exit /\ handler' = "none"
      /\ Removed(sink) /\ sink \in Sinks
      /\ UNCHANGED <<simics, hotplug, engaged, connector>>
      /\ abandoned' = IF sink = Root /\ connector # "populated"
                      THEN abandoned \cup (engaged \cap Nested) ELSE abandoned
    BY DisableFacts
<1>2. Nested' = Nested
    BY <1>1 DEF Nested
<1>3. TypeOK'
    BY <1>1, RemovedFacts, SinksFacts DEF Inductive, TypeOK
<1>4. ReadyList'
    BY <1>1, RemovedFacts
<1>5. Registration'
    BY <1>1, RemovedFacts DEF Registration
<1>6. Release'
    BY <1>1, RemovedFacts DEF Inductive, Release, Looping
<1>7. Handlers'
    BY <1>1 DEF Handlers
<1>8. HalfPlugged'
    BY <1>1, <1>2, RemovedFacts DEF Inductive, Handlers, HalfPlugged
<1>9. Unremovable'
    BY <1>1, <1>2, RemovedFacts DEF Inductive, TypeOK, Unremovable
<1> QED BY <1>3, <1>4, <1>5, <1>6, <1>7, <1>8, <1>9 DEF Inductive

(* stop() does not come to a poller that it cannot remove.                 *)
LEMMA StopRemoves ==
    ASSUME Inductive, NEW p \in Pollers, Stop(p)
    PROVE  /\ Removed(p) /\ engaged' = engaged \ {p} /\ p \in engaged /\ Stops(p)
           /\ UNCHANGED <<simics, hotplug, pc, sink, connector, handler, abandoned>>
           /\ p \in Sinks /\ (pc = "notify" => p # sink)
<1>1. p \in engaged /\ Stops(p) /\ p \in Sinks /\ p # Bus
    BY SinksFacts DEF Stop
<1>2. ~CannotRemove(p)
    BY <1>1 DEF Inductive, CannotRemove, Stops, HalfPlugged, Unremovable
<1>3. pc = "notify" => p # sink
    BY <1>1, NestedFacts DEF Inductive, Stops, Handlers
<1> QED BY <1>1, <1>2, <1>3 DEF Stop

(* The backplane's poller is registered while its callback runs.           *)
LEMMA CtorDestroysNone ==
    ASSUME Inductive, Populate \/ (Depopulate /\ pc # "cleanup")
    PROVE  engaged' = engaged
<1>1. pc = "notify" /\ sink = Root /\ handler = "none" /\ Root \in interest
    BY DEF Inductive, Registration, Populate, Depopulate, BackplaneCalled
<1>2. connector # "populated" => engaged \cap Nested = {}
    BY <1>1 DEF Inductive, HalfPlugged
<1> QED BY <1>2 DEF Populate, Depopulate

LEMMA InitInductive == Init => Inductive
<1> SUFFICES ASSUME Init PROVE Inductive
    OBVIOUS
<1>1. ready = <<>> /\ DOMAIN ready = {}
    BY DEF Init
<1>2. TypeOK
    <2>1. <<>> \in Seq(Sinks \cup {Exit})
        OBVIOUS
    <2> QED BY <2>1, SinksFacts DEF Init, TypeOK
<1>3. ReadyList
    BY <1>1 DEF Init, ReadyList
<1>4. Registration /\ Release
    BY SinksFacts DEF Init, Registration, Release, Clean
<1>5. Handlers /\ HalfPlugged /\ Unremovable
    BY DEF Init, Handlers, HalfPlugged, Unremovable
<1> QED BY <1>2, <1>3, <1>4, <1>5 DEF Inductive

LEMMA InductiveStep == Inductive /\ [Next]_vars => Inductive'
<1> SUFFICES ASSUME Inductive, [Next]_vars PROVE Inductive'
    OBVIOUS
<1> USE DEF Inductive, platform, kernel
<1>1. ASSUME NEW s \in Sinks \cup {Exit}, Readable(s) PROVE Inductive'
    <2>1. /\ UNCHANGED <<simics, hotplug, pc, sink, connector, handler, engaged, timer,
                         interest, abandoned>>
          /\ s \in interest \cup {Exit} /\ readable' = readable \cup {s}
          /\ ready' = IF s \in Queued THEN ready ELSE Append(ready, s)
        BY <1>1 DEF Readable
    <2>2. TypeOK'
        BY <2>1, AppendFacts DEF TypeOK
    <2>3. ReadyList'
        <3>1. CASE s \in Queued
            BY <2>1, <3>1 DEF ReadyList, Queued
        <3>2. CASE s \notin Queued
            <4>1. Queued' = Queued \cup {s}
                BY <2>1, <3>2, QueuedAppend
            <4> QED BY <2>1, <3>2, <4>1, AppendFacts DEF ReadyList, Queued
        <3> QED BY <3>1, <3>2
    <2>4. Registration' /\ Release'
        BY <2>1 DEF Registration, Release, Clean, Looping
    <2>5. Handlers' /\ HalfPlugged' /\ Unremovable'
        BY <2>1 DEF Handlers, HalfPlugged, Unremovable, Nested
    <2> QED BY <2>2, <2>3, <2>4, <2>5
<1>2. CASE Throw
    BY <1>2, EscapeStep, DisableStep DEF Throw, Handlers
<1>3. CASE PlatformThrows
    BY <1>3, EscapeStep DEF PlatformThrows
<1>4. CASE Run \/ Return
    <2>1. /\ pc' = "wait" /\ sink' = Exit /\ handler = "none" /\ pc # "wait"
          /\ pc \in {"setup", "notify"}
          /\ UNCHANGED <<simics, hotplug, connector, handler, engaged, timer,
                         interest, abandoned, ready, readable>>
        BY <1>4 DEF Run, Return, CallbackEnds, Registration
    <2>2. TypeOK' /\ ReadyList' /\ Registration'
        BY <2>1 DEF TypeOK, ReadyList, Registration, Queued
    <2>3. Release' /\ Handlers'
        BY <2>1 DEF Release, Clean, Looping, Handlers
    <2>4. HalfPlugged' /\ Unremovable'
        BY <2>1 DEF HalfPlugged, Unremovable, Nested
    <2> QED BY <2>2, <2>3, <2>4
<1>5. CASE Drop
    <2>1. /\ ready # <<>> /\ Head(ready) \notin readable /\ ready' = Tail(ready)
          /\ UNCHANGED <<simics, hotplug, pc, sink, connector, handler, engaged, timer,
                         interest, abandoned, readable>>
        BY <1>5 DEF Drop
    <2>2. Queued' = Queued \ {Head(ready)}
        BY <2>1, QueuedTail
    <2>3. TypeOK'
        BY <2>1, TailFacts DEF TypeOK
    <2>4. ReadyList'
        <3>1. \A i \in DOMAIN ready' : ready'[i] \in Queued
            BY <2>1, TailFacts
        <3>2. Queued \subseteq interest \cup {Exit}
            BY DEF ReadyList, Queued
        <3> QED BY <2>1, <2>2, <3>1, <3>2, TailFacts DEF ReadyList
    <2>5. Registration' /\ Release'
        BY <2>1 DEF Registration, Release, Clean, Looping
    <2>6. Handlers' /\ HalfPlugged' /\ Unremovable'
        BY <2>1 DEF Handlers, HalfPlugged, Unremovable, Nested
    <2> QED BY <2>3, <2>4, <2>5, <2>6
<1>6. CASE Dispatch \/ ExitLoop
    <2>1. PICK s \in Sinks \cup {Exit} :
              /\ Report(s)
              /\ \/ pc' = "notify" /\ sink' = s /\ s \in Sinks
                 \/ pc' = "cleanup" /\ sink' = sink
        BY <1>6 DEF Dispatch, ExitLoop
    <2>2. /\ pc = "wait" /\ ready # <<>> /\ s = Head(ready)
          /\ ready' = Append(Tail(ready), Head(ready)) /\ readable' = readable \ {s}
          /\ UNCHANGED <<simics, hotplug, connector, handler, engaged, timer,
                         interest, abandoned>>
        BY <2>1 DEF Report
    <2>3. s \in interest \cup {Exit}
        BY <2>2, RequeueFacts DEF ReadyList, Queued
    <2>4. TypeOK'
        BY <2>1, <2>2, RequeueFacts DEF TypeOK
    <2>5. ReadyList'
        <3>1. \A i \in DOMAIN ready' : ready'[i] \in Queued'
            BY DEF Queued
        <3>2. Queued \subseteq interest \cup {Exit}
            BY DEF ReadyList, Queued
        <3> QED BY <2>2, <3>1, <3>2, RequeueFacts DEF ReadyList
    <2>6. Registration'
        BY <2>1, <2>2, <2>3, SinksFacts DEF Registration
    <2>7. Release' /\ Handlers'
        BY <2>1, <2>2 DEF Release, Clean, Looping, Handlers
    <2>8. HalfPlugged' /\ Unremovable'
        BY <2>1, <2>2 DEF HalfPlugged, Unremovable, Nested
    <2> QED BY <2>4, <2>5, <2>6, <2>7, <2>8
<1>7. CASE CallbackThrows
    BY <1>7, DisableStep DEF CallbackThrows
<1>8. CASE SelfRemove
    <2>1. /\ Removed(sink) /\ sink = Root /\ Root \in Sinks /\ pc = "notify"
          /\ pc' = "wait" /\ sink' = Exit /\ handler' = "none"
          /\ connector # "populated" /\ engaged \cap Nested = {}
          /\ UNCHANGED <<simics, hotplug, engaged, connector, abandoned>>
        BY <1>8, SinksFacts DEF SelfRemove, CallbackEnds, Handlers
    <2>2. TypeOK' /\ ReadyList'
        BY <2>1, RemovedFacts, SinksFacts DEF TypeOK
    <2>3. Registration'
        BY <2>1, RemovedFacts DEF Registration
    <2>4. Release' /\ Handlers'
        BY <2>1, RemovedFacts DEF Release, Looping, Handlers
    <2>5. HalfPlugged'
        BY <2>1 DEF HalfPlugged, Nested
    <2>6. Unremovable'
        BY <2>1, RemovedFacts DEF TypeOK, Unremovable, Nested
    <2> QED BY <2>2, <2>3, <2>4, <2>5, <2>6
<1>9. CASE IntEscapes
    BY <1>9, EscapeStep DEF IntEscapes
<1>10. CASE Populate \/ (Depopulate /\ pc # "cleanup")
    <2>1. engaged' = engaged
        BY <1>10, CtorDestroysNone
    <2>2. /\ pc = "notify" /\ sink = Root /\ hotplug /\ handler = "none"
          /\ \/ handler' = "plug" /\ connector # "populated"
             \/ handler' = "unplug"
          /\ UNCHANGED <<simics, hotplug, pc, sink, connector, timer, interest,
                         abandoned, ready, readable>>
        BY <1>10 DEF Populate, Depopulate, BackplaneCalled
    <2>3. connector # "populated" => engaged \cap Nested = {}
        BY <2>2 DEF HalfPlugged, Registration
    <2>4. TypeOK' /\ ReadyList' /\ Registration'
        BY <2>1, <2>2 DEF TypeOK, ReadyList, Registration, Queued
    <2>5. Release' /\ Handlers'
        BY <2>1, <2>2 DEF Release, Clean, Looping, Handlers
    <2>6. HalfPlugged' /\ Unremovable'
        BY <2>1, <2>2, <2>3 DEF HalfPlugged, Unremovable, Nested
    <2> QED BY <2>4, <2>5, <2>6
<1>11. CASE Depopulate /\ pc = "cleanup"
    <2>1. /\ hotplug /\ handler = "none" /\ handler' = "unplug"
          /\ connector # "depopulated"
          /\ engaged' = IF connector = "uninitialised" THEN engaged \ Nested ELSE engaged
          /\ UNCHANGED <<simics, hotplug, pc, sink, connector, timer, interest,
                         abandoned, ready, readable>>
        BY <1>11 DEF Depopulate, BackplaneCalled
    <2>2. connector # "populated" => engaged' \cap Nested' = {}
        BY <2>1 DEF Nested, TypeOK
    <2>3. engaged' \subseteq engaged
        BY <2>1
    <2>4. TypeOK' /\ ReadyList' /\ Registration'
        BY <1>11, <2>1, <2>3 DEF TypeOK, ReadyList, Registration, Queued
    <2>5. Release'
        BY <1>11, <2>1, <2>3 DEF HalfPlugged, Release, Clean, Looping, TypeOK
    <2>6. Handlers' /\ HalfPlugged'
        BY <1>11, <2>1, <2>2 DEF Handlers, HalfPlugged
    <2>7. Unremovable'
        BY <1>11, <2>1, <2>3 DEF Unremovable, Nested
    <2> QED BY <2>4, <2>5, <2>6, <2>7
<1>12. CASE Populated
    <2>1. /\ handler = "plug" /\ handler' = "none" /\ connector' = "populated"
          /\ pc' = "wait" /\ sink' = Exit /\ pc = "notify"
          /\ UNCHANGED <<simics, hotplug, engaged, timer, interest, abandoned,
                         ready, readable>>
        BY <1>12 DEF Populated, CallbackEnds, Handlers
    <2>2. TypeOK' /\ ReadyList' /\ Registration'
        BY <2>1 DEF TypeOK, ReadyList, Registration, Queued
    <2>3. Release' /\ Handlers'
        BY <2>1 DEF Release, Clean, Looping, Handlers
    <2>4. HalfPlugged' /\ Unremovable'
        BY <2>1 DEF HalfPlugged, Unremovable, Nested
    <2> QED BY <2>2, <2>3, <2>4
<1>13. CASE Depopulated
    <2>1. /\ handler = "unplug" /\ handler' = "none" /\ connector' = "depopulated"
          /\ engaged \cap Nested = {} /\ pc \in {"notify", "cleanup"}
          /\ IF pc = "notify" THEN pc' = "wait" /\ sink' = Exit
                              ELSE pc' = pc /\ sink' = sink
          /\ UNCHANGED <<simics, hotplug, engaged, timer, interest, abandoned,
                         ready, readable>>
        BY <1>13 DEF Depopulated, CallbackEnds, Handlers
    <2>2. TypeOK' /\ ReadyList' /\ Registration'
        BY <2>1 DEF TypeOK, ReadyList, Registration, Queued
    <2>3. Release' /\ Handlers'
        BY <2>1 DEF Release, Clean, Looping, Handlers
    <2>4. HalfPlugged' /\ Unremovable'
        BY <2>1 DEF HalfPlugged, Unremovable, Nested
    <2> QED BY <2>2, <2>3, <2>4
<1>14. CASE CleanedUp
    <2>1. /\ pc = "cleanup" /\ handler = "none" /\ pc' = "removeBus" /\ engaged' = {}
          /\ engaged \subseteq Nested /\ (hotplug => connector = "depopulated")
          /\ UNCHANGED <<simics, hotplug, sink, connector, handler, timer, interest,
                         abandoned, ready, readable>>
        BY <1>14 DEF CleanedUp
    <2>2. engaged \subseteq abandoned
        BY <2>1, NestedFacts DEF HalfPlugged
    <2>3. TypeOK' /\ ReadyList' /\ Registration'
        BY <2>1 DEF TypeOK, ReadyList, Registration, Queued
    <2>4. Release' /\ Handlers'
        BY <2>1, <2>2 DEF Release, Clean, Looping, Handlers
    <2>5. HalfPlugged' /\ Unremovable'
        BY <2>1 DEF HalfPlugged, Unremovable
    <2> QED BY <2>3, <2>4, <2>5
<1>15. CASE RemoveBus
    <2>1. /\ pc = "removeBus" /\ engaged = {} /\ pc' \in {"aborted", "exited"}
          /\ UNCHANGED <<simics, hotplug, sink, connector, handler, engaged, abandoned>>
        BY <1>15 DEF RemoveBus, Release
    <2>2. CASE CannotRemove(Bus)
        <3>1. pc' = "aborted" /\ UNCHANGED <<timer, interest, ready, readable>>
            BY <1>15, <2>2 DEF RemoveBus
        <3>2. TypeOK' /\ ReadyList' /\ Registration' /\ Release'
            BY <2>1, <3>1 DEF TypeOK, ReadyList, Registration, Queued, Release, Clean,
               Looping
        <3>3. Handlers' /\ HalfPlugged' /\ Unremovable'
            BY <2>1, <3>1 DEF Handlers, HalfPlugged, Unremovable
        <3> QED BY <3>2, <3>3
    <2>3. CASE ~CannotRemove(Bus)
        <3>1. Removed(Bus) /\ pc' = "exited" /\ Bus \in Sinks
            BY <1>15, <2>3, SinksFacts DEF RemoveBus
        <3>2. TypeOK' /\ ReadyList'
            BY <2>1, <3>1, RemovedFacts DEF TypeOK
        <3>3. Registration'
            BY <2>1, <3>1, RemovedFacts DEF Registration
        <3>4. Release'
            BY <2>1, <3>1, RemovedFacts DEF Release, Looping
        <3>5. Handlers' /\ HalfPlugged' /\ Unremovable'
            BY <2>1, <3>1 DEF Handlers, HalfPlugged, Unremovable
        <3> QED BY <3>2, <3>3, <3>4, <3>5
    <2> QED BY <2>2, <2>3
<1>16. ASSUME NEW p \in Pollers, Start(p) PROVE Inductive'
    <2>1. /\ Starts(p) /\ p \notin engaged /\ engaged' = engaged \cup {p}
          /\ interest' = interest \cup {p}
          /\ UNCHANGED <<simics, hotplug, pc, sink, connector, handler, abandoned,
                         ready, readable>>
        BY <1>16 DEF Start
    <2>2. /\ timer' \in [Pollers -> {"none", "open", "stale"}] /\ timer'[p] = "open"
          /\ \A q \in Pollers \ {p} : timer'[q] = timer[q]
        BY <1>16 DEF Start, TypeOK
    <2>3. Nested' = Nested /\ p \in Sinks /\ p # Bus
        BY <2>1, SinksFacts DEF Nested
    <2>4. TypeOK' /\ ReadyList'
        BY <2>1, <2>2, <2>3 DEF TypeOK, ReadyList, Queued
    <2>5. Registration'
        BY <2>1, <2>2, <2>3 DEF Registration
    <2>6. Release'
        BY <2>1, <2>2 DEF Starts, Handlers, Release, Clean, Looping
    <2>7. Handlers' /\ HalfPlugged'
        BY <2>1, <2>3 DEF Starts, Handlers, HalfPlugged
    <2>8. Unremovable'
        BY <2>1, <2>2, <2>3 DEF Unremovable, TypeOK
    <2> QED BY <2>4, <2>5, <2>6, <2>7, <2>8
<1>17. ASSUME NEW p \in Pollers, StartFails(p) PROVE Inductive'
    <2>1. /\ Starts(p) /\ p \notin engaged /\ engaged' = engaged \cup {p}
          /\ handler' = "throw" /\ pc \in {"setup", "notify"}
          /\ UNCHANGED <<simics, hotplug, pc, sink, connector, interest, abandoned,
                         ready, readable>>
        BY <1>17 DEF StartFails, Starts, Handlers
    <2>2. /\ timer' \in [Pollers -> {"none", "open", "stale"}]
          /\ \A q \in Pollers \ {p} : timer'[q] = timer[q]
        BY <1>17 DEF StartFails, TypeOK
    <2>3. Nested' = Nested
        BY <2>1 DEF Nested
    <2>4. p \notin interest
        BY <2>1 DEF Release, Clean, Looping
    <2>5. TypeOK' /\ ReadyList'
        BY <2>1, <2>2 DEF TypeOK, ReadyList, Queued
    <2>6. Registration' /\ Release'
        BY <2>1, <2>2, <2>4 DEF Registration, Release, Clean, Looping
    <2>7. Handlers' /\ HalfPlugged'
        BY <2>1, <2>3 DEF Starts, Handlers, HalfPlugged
    <2>8. Unremovable'
        BY <2>1, <2>2, <2>3 DEF Starts, Handlers, Unremovable, TypeOK
    <2> QED BY <2>5, <2>6, <2>7, <2>8
<1>18. ASSUME NEW p \in Pollers, Stop(p) PROVE Inductive'
    <2>1. /\ Removed(p) /\ engaged' = engaged \ {p} /\ p \in Sinks
          /\ (pc = "notify" => p # sink) /\ Stops(p)
          /\ UNCHANGED <<simics, hotplug, pc, sink, connector, handler, abandoned>>
        BY <1>18, StopRemoves
    <2>2. Nested' = Nested
        BY <2>1 DEF Nested
    <2>3. TypeOK' /\ ReadyList'
        BY <2>1, RemovedFacts DEF TypeOK
    <2>4. Registration'
        BY <2>1, RemovedFacts DEF Registration
    <2>5. Release'
        BY <2>1, RemovedFacts DEF Release, Looping
    <2>6. Handlers' /\ HalfPlugged'
        BY <2>1, <2>2, RemovedFacts DEF Handlers, HalfPlugged
    <2>7. Unremovable'
        BY <2>1, <2>2, RemovedFacts DEF TypeOK, Unremovable
    <2> QED BY <2>3, <2>4, <2>5, <2>6, <2>7
<1>19. CASE Finished \/ UNCHANGED vars
    <2>1. UNCHANGED vars
        BY <1>19 DEF Finished
    <2> QED BY <2>1 DEF vars, TypeOK, ReadyList, Registration, Release, Handlers,
               HalfPlugged, Unremovable, Queued, Clean, Looping, Nested
<1> QED BY <1>1, <1>2, <1>3, <1>4, <1>5, <1>6, <1>7, <1>8, <1>9, <1>10, <1>11,
           <1>12, <1>13, <1>14, <1>15, <1>16, <1>17, <1>18, <1>19
           DEF Next, Kernel, Process

(* The inductive invariant, of which the safety properties below follow.   *)
THEOREM InductiveHolds == Spec => []Inductive
BY InitInductive, InductiveStep, PTL DEF Spec

------------------------------------------------------------------------------
(* TypeOK, however many pollers there are.                                 *)
THEOREM NotifierTypeCorrect == Spec => []TypeOK
<1>1. Inductive => TypeOK
    BY DEF Inductive
<1> QED BY <1>1, InductiveHolds, PTL

(* RegisteredIsArmed: until the loop ends, epoll never holds the address of*)
(* a poller that has been destroyed, also by ctor(), or disarmed.          *)
THEOREM RegisteredIsArmedHolds == Spec => []RegisteredIsArmed
<1>1. Inductive => RegisteredIsArmed
    BY DEF Inductive, Registration, Release, Clean, RegisteredIsArmed
<1> QED BY <1>1, InductiveHolds, PTL

LEMMA SurvivesStep ==
    ASSUME Inductive, [Next]_vars
    PROVE  /\ (pc = "notify" /\ pc' \in {"aborted", "removeBus"}) => IntEscapes
           /\ (pc = "cleanup" /\ pc' # "cleanup") => CleanedUp \/ PlatformThrows
<1> USE DEF platform, kernel
<1>1. ASSUME pc = "notify", pc' \in {"aborted", "removeBus"} PROVE IntEscapes
    <2>1. ~CallbackThrows /\ ~Throw
        BY <1>1, DisableFacts DEF CallbackThrows, Throw
    <2>2. ~Kernel /\ ~Finished /\ ~UNCHANGED vars
        BY <1>1 DEF Kernel, Readable, Finished, vars
    <2>3. ~(\/ PlatformThrows \/ Run \/ Drop \/ Dispatch \/ ExitLoop
            \/ CleanedUp \/ RemoveBus)
        BY <1>1 DEF PlatformThrows, Run, Drop, Dispatch, ExitLoop, Report, CleanedUp,
           RemoveBus
    <2>4. ~(Return \/ SelfRemove \/ Populate \/ Populated \/ Depopulate \/ Depopulated)
        BY <1>1 DEF Return, SelfRemove, Populate, Populated, Depopulate, Depopulated,
           CallbackEnds
    <2>5. ASSUME NEW p \in Pollers, Start(p) \/ StartFails(p) \/ Stop(p) PROVE FALSE
        BY <1>1, <2>5 DEF Start, StartFails, Stop
    <2> QED BY <2>1, <2>2, <2>3, <2>4, <2>5 DEF Next, Process
<1>2. ASSUME pc = "cleanup", pc' # "cleanup" PROVE CleanedUp \/ PlatformThrows
    <2>1. ~CallbackThrows /\ ~Throw /\ ~IntEscapes
        BY <1>2 DEF Inductive, Handlers, CallbackThrows, Throw, IntEscapes
    <2>2. ~Kernel /\ ~Finished /\ ~UNCHANGED vars
        BY <1>2 DEF Kernel, Readable, Finished, vars
    <2>3. ~(Run \/ Drop \/ Dispatch \/ ExitLoop \/ RemoveBus)
        BY <1>2 DEF Run, Drop, Dispatch, ExitLoop, Report, RemoveBus
    <2>4. ~(Return \/ SelfRemove \/ Populate \/ Populated \/ Depopulate \/ Depopulated)
        BY <1>2 DEF Inductive, Handlers, Return, SelfRemove, Populate, Populated,
           Depopulate, Depopulated, BackplaneCalled
    <2>5. ASSUME NEW p \in Pollers, Start(p) \/ StartFails(p) \/ Stop(p) PROVE FALSE
        BY <1>2, <2>5 DEF Start, StartFails, Stop
    <2> QED BY <2>1, <2>2, <2>3, <2>4, <2>5 DEF Next, Process
<1> QED BY <1>1, <1>2

(* LoopSurvives: run() goes on after whatever its callbacks throw, unless  *)
(* that is an int, because the sink it then removes is still registered;   *)
(* and the exit does not come to a poller that it cannot remove.           *)
THEOREM LoopSurvivesHolds == Spec => LoopSurvives
<1>1. Inductive /\ [Next]_vars =>
          [/\ (pc = "notify" /\ pc' \in {"aborted", "removeBus"}) => IntEscapes
           /\ (pc = "cleanup" /\ pc' # "cleanup") => CleanedUp \/ PlatformThrows]_vars
    BY SurvivesStep
<1> QED BY <1>1, InductiveHolds, PTL DEF Spec, LoopSurvives

(* ExitReleasesAll: whoever exits has no descriptor left in epoll and no   *)
(* open timer, but for those that an exception has left behind.            *)
THEOREM ExitReleasesAllHolds == Spec => []ExitReleasesAll
<1>1. Inductive => ExitReleasesAll
    BY DEF Inductive, Release, Clean, ExitReleasesAll
<1> QED BY <1>1, InductiveHolds, PTL

------------------------------------------------------------------------------
LEMMA LifeStep ==
    ASSUME Inductive, [Next]_vars, NEW q \in Pollers, Looping, Looping'
    PROVE  Life(q)!Next \/ UNCHANGED Life(q)!vars
<1> USE DEF Life!Next, Life!vars, platform, kernel
<1>0. q \in Sinks /\ q # Bus /\ q # Exit
    BY SinksFacts
<1>1. ASSUME NEW s \in Sinks \cup {Exit}, Readable(s)
      PROVE  Life(q)!Next \/ UNCHANGED Life(q)!vars
    BY <1>0, <1>1 DEF Readable, Life!Expire
<1>2. ASSUME pc = "notify", Disable(sink) PROVE Life(q)!Next \/ UNCHANGED Life(q)!vars
    BY <1>2, DisableFacts DEF Removed, Life!Disarm
<1>3. CASE Throw
    BY <1>2, <1>3 DEF Throw, Escape, Looping
<1>4. CASE PlatformThrows \/ IntEscapes
    BY <1>4 DEF PlatformThrows, IntEscapes, Escape, Looping
<1>5. CASE Run \/ Drop
    BY <1>5 DEF Run, Drop
<1>6. CASE Dispatch
    BY <1>6 DEF Dispatch, Report, Life!Call
<1>7. CASE ExitLoop \/ CleanedUp \/ RemoveBus
    BY <1>7 DEF ExitLoop, CleanedUp, RemoveBus, Looping
<1>8. CASE Return
    BY <1>8 DEF Return, CallbackEnds, Life!Return
<1>9. CASE CallbackThrows
    BY <1>2, <1>9 DEF CallbackThrows
<1>10. CASE SelfRemove
    BY <1>10 DEF Inductive, Handlers, SelfRemove, Removed, CallbackEnds, Life!Disarm
<1>11. CASE Populate \/ Depopulate
    <2>1. pc # "cleanup"
        BY DEF Looping
    <2> QED BY <1>11, <2>1, CtorDestroysNone DEF Populate, Depopulate
<1>12. CASE Populated
    BY <1>12 DEF Inductive, Handlers, Populated, CallbackEnds, Life!Return
<1>13. CASE Depopulated
    BY <1>13 DEF Inductive, Handlers, Depopulated, CallbackEnds, Life!Return, Looping
<1>14. ASSUME NEW p \in Pollers, Start(p)
       PROVE  Life(q)!Next \/ UNCHANGED Life(q)!vars
    BY <1>14 DEF Start, Life!Start
<1>15. ASSUME NEW p \in Pollers, StartFails(p)
       PROVE  Life(q)!Next \/ UNCHANGED Life(q)!vars
    BY <1>15 DEF StartFails, Life!Start
<1>16. ASSUME NEW p \in Pollers, Stop(p)
       PROVE  Life(q)!Next \/ UNCHANGED Life(q)!vars
    BY <1>16, StopRemoves DEF Removed, Life!Stop
<1>17. CASE Finished \/ UNCHANGED vars
    BY <1>17 DEF Finished, vars
<1> QED BY <1>1, <1>3, <1>4, <1>5, <1>6, <1>7, <1>8, <1>9, <1>10, <1>11, <1>12,
           <1>13, <1>14, <1>15, <1>16, <1>17 DEF Next, Kernel, Process

(* PollersKeepPromise: until the loop ends, each of any number of pollers  *)
(* lives as PollerLife says, whatever the callbacks of the others start,   *)
(* stop and throw.                                                         *)
THEOREM ImplementsPollerLife == Spec => PollersKeepPromise
<1> DEFINE Steps == \A p \in Pollers : (Looping /\ Looping') =>
                        Life(p)!Next \/ UNCHANGED Life(p)!vars
<1>1. Init => \A p \in Pollers : Life(p)!Init
    <2> SUFFICES ASSUME Init, NEW p \in Pollers PROVE Life(p)!Init
        OBVIOUS
    <2>1. p # Bus /\ pc = "setup" /\ interest = {Bus} /\ engaged = {} /\ readable = {}
        BY SinksFacts DEF Init
    <2> QED BY <2>1 DEF Life!Init
<1>2. Inductive /\ [Next]_vars => [Steps]_vars
    BY LifeStep
<1> QED BY <1>1, <1>2, InductiveHolds, PTL DEF Spec, PollersKeepPromise

------------------------------------------------------------------------------
(* The order of the ready list.                                            *)

Keeps == \A r, s \in Sinks \cup {Exit} :
             (s \in readable \cap readable' /\ Ahead(r, s)') => Ahead(r, s)

LEMMA AheadAppend ==
    ASSUME TypeOK, ReadyList, NEW x, x \notin Queued, ready' = Append(ready, x)
    PROVE  Keeps
<1>1. ready \in Seq(Sinks \cup {Exit}) /\ Len(ready) \in Nat
      /\ DOMAIN ready = 1 .. Len(ready)
    BY DEF TypeOK
<1>2. DOMAIN ready' = 1 .. Len(ready) + 1
      /\ (\A i \in 1 .. Len(ready) : ready'[i] = ready[i])
      /\ ready'[Len(ready) + 1] = x
    BY <1>1
<1> SUFFICES ASSUME NEW r \in Sinks \cup {Exit}, NEW s \in Sinks \cup {Exit},
                        s \in readable, Ahead(r, s)'
             PROVE  Ahead(r, s)
    BY DEF Keeps
<1>3. PICK i \in 1 .. Len(ready) + 1, j \in 1 .. Len(ready) + 1 :
          i < j /\ ready'[i] = r /\ ready'[j] = s
    BY <1>2 DEF Ahead
<1>4. j # Len(ready) + 1
    BY <1>2, <1>3 DEF ReadyList
<1>5. i \in 1 .. Len(ready) /\ j \in 1 .. Len(ready)
    BY <1>1, <1>3, <1>4
<1> QED BY <1>1, <1>2, <1>3, <1>5 DEF Ahead

LEMMA AheadTail ==
    ASSUME TypeOK, ready # <<>>, ready' = Tail(ready)
    PROVE  Keeps
<1>1. ready \in Seq(Sinks \cup {Exit}) /\ Len(ready) \in Nat \ {0}
      /\ DOMAIN ready = 1 .. Len(ready)
    BY DEF TypeOK
<1>2. DOMAIN ready' = 1 .. Len(ready) - 1
      /\ \A i \in 1 .. Len(ready) - 1 : ready'[i] = ready[i + 1]
    BY <1>1
<1> SUFFICES ASSUME NEW r \in Sinks \cup {Exit}, NEW s \in Sinks \cup {Exit},
                    Ahead(r, s)'
             PROVE  Ahead(r, s)
    BY DEF Keeps
<1>3. PICK i \in 1 .. Len(ready) - 1, j \in 1 .. Len(ready) - 1 :
          i < j /\ ready'[i] = r /\ ready'[j] = s
    BY <1>2 DEF Ahead
<1>4. i + 1 \in 1 .. Len(ready) /\ j + 1 \in 1 .. Len(ready) /\ i + 1 < j + 1
    BY <1>1, <1>3
<1> QED BY <1>1, <1>2, <1>3, <1>4 DEF Ahead

(* The one that is reported was ahead of all and is behind all.            *)
LEMMA AheadRequeue ==
    ASSUME TypeOK, ReadyList, NEW x, Report(x)
    PROVE  /\ Keeps
           /\ \A s \in readable' : Ahead(x, s) /\ ~Ahead(x, s)'
<1>0. ready # <<>> /\ x = Head(ready) /\ readable' = readable \ {x}
      /\ ready' = Append(Tail(ready), Head(ready))
    BY DEF Report
<1> DEFINE n == Len(ready)
<1>1. /\ n \in Nat \ {0} /\ DOMAIN ready = 1 .. n
      /\ DOMAIN ready' = 1 .. n
      /\ \A i \in 1 .. n - 1 : ready'[i] = ready[i + 1]
      /\ ready'[n] = ready[1] /\ x = ready[1]
      /\ \A i, j \in DOMAIN ready' : ready'[i] = ready'[j] => i = j
    BY <1>0, RequeueFacts
<1> HIDE DEF n
<1>2. Keeps
    <2> SUFFICES ASSUME NEW r \in Sinks \cup {Exit}, NEW s \in Sinks \cup {Exit},
                        s \in readable', Ahead(r, s)'
                 PROVE  Ahead(r, s)
        BY DEF Keeps
    <2>1. PICK i \in 1 .. n, j \in 1 .. n :
              i < j /\ ready'[i] = r /\ ready'[j] = s
        BY <1>1 DEF Ahead
    <2>2. j # n
        <3>1. s # x /\ ready'[n] = x
            BY <1>0, <1>1
        <3> QED BY <2>1, <3>1
    <2>3. i \in 1 .. n - 1 /\ j \in 1 .. n - 1
        BY <1>1, <2>1, <2>2
    <2>4. i + 1 \in 1 .. n /\ j + 1 \in 1 .. n /\ i + 1 < j + 1
        BY <1>1, <2>1, <2>3
    <2>5. ready[i + 1] = r /\ ready[j + 1] = s
        BY <1>1, <2>1, <2>3
    <2>6. i + 1 \in DOMAIN ready /\ j + 1 \in DOMAIN ready
        BY <1>1, <2>4
    <2> QED BY <2>4, <2>5, <2>6 DEF Ahead
<1>3. ASSUME NEW s \in readable' PROVE Ahead(x, s)
    <2>1. PICK j \in 1 .. n : ready[j] = s
        BY <1>0, <1>1 DEF ReadyList, Queued
    <2>2. 1 \in 1 .. n /\ 1 < j
        BY <1>0, <1>1, <2>1
    <2> QED BY <1>1, <2>1, <2>2 DEF Ahead
<1>4. ASSUME NEW s \in readable', Ahead(x, s)' PROVE FALSE
    <2>1. PICK i \in 1 .. n, j \in 1 .. n : i < j /\ ready'[i] = x
        BY <1>1, <1>4 DEF Ahead
    <2>2. n \in 1 .. n
        BY <1>1
    <2>3. i = n
        BY <1>1, <2>1, <2>2
    <2> QED BY <1>1, <2>1, <2>3
<1> QED BY <1>2, <1>3, <1>4

LEMMA AheadWithout ==
    ASSUME TypeOK, NEW x \in Sinks, ready' = Without(x)
    PROVE  Keeps
<1>1. ready \in Seq(Sinks \cup {Exit}) /\ Len(ready) \in Nat
      /\ DOMAIN ready = 1 .. Len(ready)
    BY DEF TypeOK
<1>2. CASE x \notin Queued
    BY <1>2 DEF Without, Keeps, Ahead
<1>3. CASE x \in Queued
    <2> DEFINE at == CHOOSE i \in DOMAIN ready : ready[i] = x
               From(i) == IF i < at THEN i ELSE i + 1
    <2>1. at \in 1 .. Len(ready)
        BY <1>1, <1>3 DEF Queued
    <2>2. ready' = [i \in 1 .. Len(ready) - 1 |-> ready[From(i)]]
        BY <1>3 DEF Without
    <2> HIDE DEF at
    <2>3. \A i, j \in 1 .. Len(ready) - 1 :
              From(i) \in 1 .. Len(ready) /\ (i < j => From(i) < From(j))
        BY <1>1, <2>1
    <2> HIDE DEF From
    <2> SUFFICES ASSUME NEW r \in Sinks \cup {Exit}, NEW s \in Sinks \cup {Exit},
                        s \in readable, Ahead(r, s)'
                 PROVE  Ahead(r, s)
        BY DEF Keeps
    <2>4. PICK i \in 1 .. Len(ready) - 1, j \in 1 .. Len(ready) - 1 :
              i < j /\ ready'[i] = r /\ ready'[j] = s
        BY <2>2 DEF Ahead
    <2> QED BY <1>1, <2>2, <2>3, <2>4 DEF Ahead
<1> QED BY <1>2, <1>3

LEMMA ReadySteps ==
    ASSUME Inductive, [Next]_vars
    PROVE  \/ UNCHANGED ready
           \/ \E x : x \notin Queued /\ ready' = Append(ready, x)
           \/ ready # <<>> /\ ready' = Tail(ready)
           \/ \E x : Report(x)
           \/ \E x \in Sinks : ready' = Without(x)
<1> USE DEF platform, kernel
<1>1. CASE Kernel
    BY <1>1 DEF Kernel, Readable
<1>2. CASE Drop \/ Dispatch \/ ExitLoop
    BY <1>2 DEF Drop, Dispatch, ExitLoop
<1>3. CASE Throw \/ CallbackThrows
    BY <1>3, DisableFacts DEF Throw, CallbackThrows, Removed, Escape
<1>4. CASE PlatformThrows \/ IntEscapes
    BY <1>4 DEF PlatformThrows, IntEscapes, Escape
<1>5. CASE SelfRemove
    BY <1>5, SinksFacts DEF Inductive, Handlers, SelfRemove, Removed
<1>6. CASE Run \/ Return \/ CleanedUp
    BY <1>6 DEF Run, Return, CleanedUp
<1>7. CASE Populate \/ Populated \/ Depopulate \/ Depopulated
    BY <1>7 DEF Populate, Populated, Depopulate, Depopulated
<1>8. CASE RemoveBus
    BY <1>8, SinksFacts DEF RemoveBus, Removed
<1>9. ASSUME NEW p \in Pollers, Start(p) \/ StartFails(p) PROVE UNCHANGED ready
    BY <1>9 DEF Start, StartFails
<1>10. ASSUME NEW p \in Pollers, Stop(p) PROVE \E x \in Sinks : ready' = Without(x)
    BY <1>10, StopRemoves DEF Removed
<1>11. CASE Finished \/ UNCHANGED vars
    BY <1>11 DEF Finished, vars
<1> QED BY <1>1, <1>2, <1>3, <1>4, <1>5, <1>6, <1>7, <1>8, <1>9, <1>10, <1>11
        DEF Next, Process

LEMMA OrderStep ==
    ASSUME Inductive, [Next]_vars, NEW r \in Sinks \cup {Exit}, NEW s \in Sinks \cup {Exit}
    PROVE  /\ (s \in readable \cap readable' /\ Ahead(r, s)') => Ahead(r, s)
           /\ (pc = "wait" /\ pc' = "notify" /\ sink' = r /\ s \in readable')
                  => Ahead(r, s) /\ ~Ahead(r, s)'
<1> USE DEF platform, kernel
<1>1. TypeOK /\ ReadyList
    BY DEF Inductive
<1>2. Keeps
    <2>1. CASE UNCHANGED ready
        BY <2>1 DEF Keeps, Ahead
    <2> QED BY <1>1, <2>1, ReadySteps, AheadAppend, AheadTail, AheadRequeue, AheadWithout
<1>3. ASSUME pc = "wait", pc' = "notify", sink' = r, s \in readable'
      PROVE  Ahead(r, s) /\ ~Ahead(r, s)'
    <2>1. Dispatch
        <3>1. ~Kernel /\ ~Finished /\ ~UNCHANGED vars
            BY <1>3 DEF Kernel, Readable, Finished, vars
        <3>2. ASSUME NEW p \in Pollers, Start(p) \/ StartFails(p) \/ Stop(p) PROVE FALSE
            BY <1>3, <3>2 DEF Start, StartFails, Stop
        <3>3. ~(\/ Throw \/ PlatformThrows \/ Return \/ CallbackThrows \/ SelfRemove
                \/ IntEscapes)
            BY <1>3 DEF Throw, PlatformThrows, Return, CallbackThrows, SelfRemove,
               IntEscapes, Escape, CallbackEnds
        <3>4. ~(Run \/ Drop \/ ExitLoop \/ CleanedUp \/ RemoveBus)
            BY <1>3 DEF Run, Drop, ExitLoop, CleanedUp, RemoveBus
        <3>5. ~(Populate \/ Populated \/ Depopulate \/ Depopulated)
            BY <1>3 DEF Populate, Populated, Depopulate, Depopulated, CallbackEnds
        <3> QED BY <3>1, <3>2, <3>3, <3>4, <3>5 DEF Next, Process
    <2>2. Report(r)
        BY <1>3, <2>1 DEF Dispatch
    <2> QED BY <1>1, <1>3, <2>2, AheadRequeue
<1> QED BY <1>2, <1>3 DEF Keeps

(* ServedInOrder: of any number of sinks none is overtaken, which is the   *)
(* safety half of ReadyIsServed and SignalEnds.                            *)
THEOREM ServedInOrderHolds == Spec => ServedInOrder
<1>1. Inductive /\ [Next]_vars =>
          [\A r, s \in Sinks \cup {Exit} :
              /\ (s \in readable \cap readable' /\ Ahead(r, s)') => Ahead(r, s)
              /\ (pc = "wait" /\ pc' = "notify" /\ sink' = r /\ s \in readable')
                     => Ahead(r, s) /\ ~Ahead(r, s)']_vars
    BY OrderStep
<1> QED BY <1>1, InductiveHolds, PTL DEF Spec, ServedInOrder
==============================================================================
